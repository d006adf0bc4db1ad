----------------------------- MODULE RoleTurns ------------------------------
(***************************************************************************)
(* Conversation turns of one role: the dispatcher that queues turns per    *)
(* chat (bootstrap/runtime/dispatcher.py), the plan each accepted reply    *)
(* owns (agent/turns/channel_sequence.py, reply_interruption.py), the      *)
(* role's turn gate (core/roles/role_runtime.py, turn_gate.py) and the     *)
(* delivery of a reply message by message, which yields the gate between   *)
(* two messages (agent/turns/reply_sequence.py, channel_sequence_commit.py,*)
(* orchestrator.py).                                                       *)
(*                                                                         *)
(* Three kinds of actors enter the gate: turns of accepted channel         *)
(* messages, proactive ticks that send a reply the same way, and other     *)
(* operations, some of which (plugin turns) refuse to wait.                *)
(*                                                                         *)
(* Everything runs on one asyncio loop: an action is the code between two  *)
(* awaits.                                                                 *)
(***************************************************************************)
EXTENDS Integers, Sequences, SequencesExt, FiniteSets

CONSTANTS
    Turns, Ticks, Operations,
    Impatient,       \* operations entered with reject_busy
    Chats,
    ChatOf,          \* the chat of a turn or tick
    SenderOf,        \* who sent a turn's message
    Size,            \* how many messages a turn's or tick's reply has
    Nobody,
    Interruptible,   \* bound: the turns for which /stop may come
    MaxStops         \* bound: how often replies are stopped for a handover

Replies == Turns \cup Ticks
Actors == Replies \cup Operations

ASSUME ActorAssumption ==
    /\ Turns \cap Ticks = {} /\ Replies \cap Operations = {}
    /\ Impatient \subseteq Operations
    /\ ChatOf \in [Replies -> Chats]
    /\ Size \in [Replies -> Nat \ {0}]
    /\ Nobody \notin Actors /\ Interruptible \subseteq Turns
    /\ MaxStops \in Nat

ASSUME FiniteAssumption == IsFiniteSet(Actors)

VARIABLES
    at,          \* where an actor is
    tails,       \* RuntimeDispatcher.run: a chat's last accepted turn
    behind,      \* the turns and ticks an accepted turn awaits
    locked,      \* RoleExecutionState.turn_lock
    waiters,     \* who awaits the lock, first in first out
    held,        \* the actors whose _GateLease says "held"
    claims,      \* RoleExecutionState.claims
    latest,      \* ChannelSequenceOwner._replies: the plan of a chat's sender
    plans,       \* ChannelSequenceOwner._plans
    reports,     \* ChannelSequenceOwner._background: ticks that reply
    stopped,     \* ChannelSequenceOwner._stopped
    stops,       \* how often it was stopped
    natural,     \* the role's natural chat switch
    invalidated, \* plans that may not send any more
    cancelled,   \* actors whose task's cancellation is on its way
    next,        \* the message of its reply an actor is about
    status,      \* delivery status of the stored message rows
    rows,        \* the stored rows, oldest first
    seen,        \* the mood a reply was generated from
    stamp,       \* when its generation was over
    mood,        \* when the session's mood was last updated
    last,        \* the session's last_turn_ts
    clock,
    accepted     \* the accepted turns in order

admission == <<tails, behind, accepted>>
gate      == <<locked, waiters, held, claims>>
owner     == <<latest, plans, reports, stopped, stops>>
plan      == <<natural, invalidated, cancelled>>
reply     == <<next, status, rows, seen, stamp>>
state     == <<mood, last, clock>>
vars == <<at, admission, gate, owner, plan, reply, state>>

\* "queued": accepted, behind others of its chat; "gate": awaits the lock;
\* "regate": awaits it again after a pause; "refinish": to settle accounts
\* after a cancelled pause; "left": its task is over, the dispatcher's is not.
Delivering == {"storing", "sending", "publishing", "pacing", "regate"}
Working == {"working", "discarding", "storing", "sending", "publishing", "finishing"}
Waiting == {"gate", "regate", "refinish"}
Places == {"new", "queued", "left", "over"} \cup Delivering \cup Working \cup Waiting

Claiming == {a \in Actors : at[a] \in Delivering \cup Working \cup Waiting}

Messages(a) == 1..Size[a]

Key(t) == <<ChatOf[t], SenderOf[t]>>
Keys == {Key(t) : t \in Turns}

Init ==
    /\ at = [a \in Actors |-> "new"]
    /\ tails = [c \in Chats |-> Nobody] /\ behind = [t \in Turns |-> {}]
    /\ locked = FALSE /\ waiters = <<>> /\ held = {} /\ claims = 0
    /\ latest = [key \in Keys |-> Nobody]
    /\ plans = {} /\ reports = {} /\ stopped = FALSE /\ stops = 0
    /\ natural = TRUE /\ invalidated = {} /\ cancelled = {}
    /\ next = [a \in Replies |-> 1]
    /\ status = [a \in Replies |-> [i \in Messages(a) |-> "none"]]
    /\ rows = <<>>
    /\ seen = [a \in Replies |-> 0] /\ stamp = [a \in Replies |-> 0]
    /\ mood = 0 /\ last = 0 /\ clock = 0
    /\ accepted = <<>>

(* An operator introduced as a "Fault" is a plausible defect that takes the
   place of the operator that follows it when the properties are tested.     *)

-----------------------------------------------------------------------------
(* The gate                                                                *)

\* asyncio.Lock.acquire() with the lease of role_turn_gate(): behind those who
\* wait.  The code does not pause when nobody has or awaits the lock; here the
\* lock is granted in a step of its own, and nobody else's can come between.
Queue(a, place) ==
    /\ waiters' = Append(waiters, a)
    /\ at' = [at EXCEPT ![a] = place]
    /\ UNCHANGED <<locked, held>>

\* Fault: the lock is released whoever has it.
ReleaseAnyway(a) == locked' = FALSE /\ held' = held \ {a}
\* _GateLease.release()
Release(a) ==
    /\ held' = held \ {a}
    /\ locked' = (locked /\ a \notin held)

\* The waiters without a, who is among them once at most.
Without(a) ==
    IF \E i \in DOMAIN waiters : waiters[i] = a
    THEN RemoveAt(waiters, CHOOSE i \in DOMAIN waiters : waiters[i] = a)
    ELSE waiters

\* Who awaits the lock no more.
Withdraw(a) == waiters' = Without(a)

Unclaim == claims' = claims - 1

\* execute_thread()'s finally clauses; a turn's dispatcher task goes on.
Leave(a) ==
    /\ Release(a) /\ Withdraw(a)
    /\ Unclaim
    /\ at' = [at EXCEPT ![a] = IF a \in Turns THEN "left" ELSE "over"]

Claim(a) ==
    /\ claims' = claims + 1
    /\ Queue(a, "gate")

\* The first waiter gets the lock.
Granted(a, place) ==
    /\ waiters # <<>> /\ Head(waiters) = a /\ ~locked
    /\ at[a] = place
    /\ locked' = TRUE /\ held' = held \cup {a}
    /\ waiters' = Tail(waiters)
    /\ UNCHANGED claims

-----------------------------------------------------------------------------
(* Admission                                                               *)

\* ReplyInterruption.invalidate(): only a delivery is cancelled.
Invalidate(S) ==
    /\ invalidated' = invalidated \cup S
    /\ cancelled' = cancelled \cup {a \in S \ invalidated : at[a] \in Delivering}

\* What an accepted message supersedes: its sender's plan in this chat and
\* the reports of the role to it.
Superseded(t) ==
    ({latest[Key(t)]} \ {Nobody}) \cup {k \in reports : ChatOf[k] = ChatOf[t]}

\* A message is accepted: RuntimeDispatcher.run() and admit().
Admit(t) ==
    /\ at[t] = "new" /\ natural
    /\ at' = [at EXCEPT ![t] = "queued"]
    /\ accepted' = Append(accepted, t)
    /\ behind' = [behind EXCEPT ![t] =
                    ({tails[ChatOf[t]]} \ {Nobody}) \cup {k \in reports : ChatOf[k] = ChatOf[t]}]
    /\ tails' = [tails EXCEPT ![ChatOf[t]] = t]
    /\ Invalidate(Superseded(t) \cup IF stopped THEN {t} ELSE {})
    /\ latest' = [latest EXCEPT ![Key(t)] = t]
    /\ plans' = plans \cup {t}
    /\ UNCHANGED <<gate, reports, stopped, stops, natural, reply, state>>

\* The turns and reports before it are over: it enters the role's gate.
Enter(t) ==
    /\ at[t] = "queued"
    /\ \A a \in behind[t] : at[a] = "over"
    /\ Claim(t)
    /\ UNCHANGED <<admission, owner, plan, reply, state>>

\* forget(): only this exact registration.
Forget(t) == latest' = [latest EXCEPT ![Key(t)] = IF @ = t THEN Nobody ELSE @]

\* _forget_tail()
ForgetTail(t) == tails' = [tails EXCEPT ![ChatOf[t]] = IF @ = t THEN Nobody ELSE @]

\* The dispatcher's task of a turn is over.
Close(t) ==
    /\ at[t] = "left"
    /\ at' = [at EXCEPT ![t] = "over"]
    /\ Forget(t) /\ ForgetTail(t)
    /\ plans' = plans \ {t}
    /\ UNCHANGED <<behind, accepted, gate, reports, stopped, stops, plan, reply, state>>

\* stop(): a handover refuses the replies of the generation.
Stop ==
    /\ ~stopped /\ stops < MaxStops
    /\ stopped' = TRUE /\ stops' = stops + 1
    /\ Invalidate(plans)
    /\ latest' = [key \in Keys |-> Nobody]
    /\ plans' = {}
    /\ UNCHANGED <<at, admission, gate, reports, natural, reply, state>>

\* resume(): the handover did not succeed.
Resume ==
    /\ stopped
    /\ stopped' = FALSE
    /\ UNCHANGED <<at, admission, gate, latest, plans, reports, stops, plan, reply, state>>

\* The role's natural chat is switched off; plans learn of it at their next
\* safe boundary.
SwitchOff ==
    /\ natural
    /\ natural' = FALSE
    /\ UNCHANGED <<at, admission, gate, owner, invalidated, cancelled, reply, state>>

\* /stop cancels the turn's task.
Interrupt(t) ==
    /\ t \in Interruptible \ cancelled
    /\ at[t] \in Waiting \cup Working \cup {"pacing"}
    /\ cancelled' = cancelled \cup {t}
    /\ UNCHANGED <<at, admission, gate, owner, natural, invalidated, reply, state>>

-----------------------------------------------------------------------------
(* Generation                                                              *)

\* A turn holds the gate: the reply is generated from the session's state.
BeginWork(t) ==
    /\ t \notin cancelled /\ Granted(t, "gate")
    /\ at' = [at EXCEPT ![t] = "working"]
    /\ seen' = [seen EXCEPT ![t] = mood]
    /\ UNCHANGED <<admission, owner, plan, next, status, rows, stamp, state>>

\* reply_was_invalidated(): refresh() reads the role's switch.
Refused(a) == a \in invalidated \/ ~natural

\* Stops the plan at a safe boundary, as refresh() does.
Refresh(a) ==
    /\ invalidated' = invalidated \cup IF Refused(a) THEN {a} ELSE {}
    /\ UNCHANGED <<natural, cancelled>>

\* Where an actor goes when its delivery is over: what is left to do is done
\* under the gate, which a tick may have to enter again.
AfterDelivery(a) ==
    IF a \in held THEN at' = [at EXCEPT ![a] = "finishing"] /\ UNCHANGED gate
    ELSE IF a \in Turns THEN Leave(a)
    ELSE /\ at' = [at EXCEPT ![a] = "refinish"]
         /\ waiters' = Append(Without(a), a)
         /\ UNCHANGED <<locked, held, claims>>

\* The model and its tools are done: an invalid plan is discarded, another
\* one's first message is about to be stored.
EndWork(a) ==
    /\ at[a] = "working" /\ a \in Replies \ cancelled
    /\ Refresh(a)
    /\ clock' = clock + 1 /\ stamp' = [stamp EXCEPT ![a] = clock + 1]
    /\ IF Refused(a)
         THEN at' = [at EXCEPT ![a] = IF a \in Turns THEN "discarding" ELSE "finishing"]
         ELSE at' = [at EXCEPT ![a] = "storing"]
    /\ UNCHANGED <<admission, gate, owner, next, status, rows, seen, mood, last>>

\* commit_invalidated_reply(): facts are stored, then the turn ends cancelled.
Discard(t) ==
    /\ at[t] = "discarding"
    /\ Leave(t)
    /\ UNCHANGED <<admission, owner, plan, reply, state>>

\* The generation fails, or the task's cancellation reaches it.
Fail(t) ==
    /\ at[t] = "working"
    /\ Leave(t)
    /\ UNCHANGED <<admission, owner, plan, reply, state>>

-----------------------------------------------------------------------------
(* Delivery, message by message                                            *)

SetStatus(a, s) == status' = [status EXCEPT ![a][next[a]] = s]

\* Fault: the stored row keeps its status when the send was withdrawn.
LeavePending(a) == status' = [status EXCEPT ![a][next[a]] = "pending"]
\* publish()'s except clause.
MarkFailed(a) == SetStatus(a, "failed")

\* The row is stored; a cancellation that came meanwhile keeps it from being
\* sent.
Store(a) ==
    /\ at[a] = "storing"
    /\ rows' = Append(rows, <<a, next[a]>>)
    /\ IF a \in cancelled \cap Turns
         THEN MarkFailed(a) /\ AfterDelivery(a)
         ELSE /\ SetStatus(a, "pending")
              /\ at' = [at EXCEPT ![a] = "sending"] /\ UNCHANGED gate
    /\ UNCHANGED <<admission, owner, plan, next, seen, stamp, state>>

GoesOn(a, outcome) == outcome = "sent" /\ next[a] < Size[a] /\ a \notin cancelled

\* Fault: the gate is kept while the reply pauses.
KeepGate(a) == UNCHANGED <<locked, held>>
\* wait_outside_role_gate(): the gate is yielded, the claim stays.
YieldGate(a) == Release(a)

\* How a send can end.  A plugin's own CancelledError passes the tick's except
\* clauses: the message is "unmarked", its row reads pending from then on.  A
\* turn's except clause marks its row whatever was raised.
Outcomes(a) ==
    {"sent", "failed", "uncertain"} \cup IF a \in Ticks THEN {"unmarked"} ELSE {}

\* The outcome of the message is known and, where the code records it, recorded.
Sent(a, outcome) ==
    /\ at[a] = "sending"
    /\ SetStatus(a, outcome)
    /\ IF GoesOn(a, outcome)
         THEN /\ at' = [at EXCEPT ![a] = "pacing"]
              /\ YieldGate(a) /\ UNCHANGED <<waiters, claims>>
         ELSE IF outcome = "sent" /\ next[a] = Size[a]
         THEN at' = [at EXCEPT ![a] = "publishing"] /\ UNCHANGED gate
         ELSE AfterDelivery(a)
    /\ UNCHANGED <<admission, owner, plan, next, rows, seen, stamp, state>>

\* The pause is over: the gate is entered again, still with the first claim.
EndPause(a) ==
    /\ at[a] = "pacing" /\ a \notin cancelled
    /\ Queue(a, "regate")
    /\ UNCHANGED <<claims, admission, owner, plan, reply, state>>

MayGoOn(a) == ~Refused(a)

\* Back under the gate: the next message, if the plan is still valid.
GoOn(a) ==
    /\ a \notin cancelled /\ Granted(a, "regate")
    /\ Refresh(a)
    /\ IF MayGoOn(a)
         THEN /\ next' = [next EXCEPT ![a] = @ + 1]
              /\ at' = [at EXCEPT ![a] = "storing"]
         ELSE /\ at' = [at EXCEPT ![a] = "finishing"] /\ UNCHANGED next
    /\ UNCHANGED <<admission, owner, status, rows, seen, stamp, state>>

\* The cancellation reaches an actor that pauses or waits for the gate.
CancelWait(a) ==
    /\ a \in cancelled /\ at[a] \in {"gate", "pacing", "regate"}
    /\ IF at[a] = "gate" THEN Leave(a) ELSE AfterDelivery(a)
    /\ UNCHANGED <<admission, owner, plan, reply, state>>

\* Fault: only newer turns count, not what else updated the mood.
IsCurrentTime(a) == a \in Turns => last <= stamp[a]
\* role_state_is_current()
IsCurrent(a) == (a \in Turns => last <= stamp[a]) /\ mood = seen[a]

\* publish_final_role_state() after the last message; a reply whose mood could
\* not be determined leaves it as it is.
Publish(a, fresh) ==
    /\ at[a] = "publishing" /\ (a \in Ticks => fresh)
    /\ IF IsCurrent(a)
         THEN /\ last' = IF a \in Turns THEN stamp[a] ELSE last
              /\ mood' = IF fresh THEN stamp[a] ELSE mood
         ELSE UNCHANGED <<last, mood>>
    /\ AfterDelivery(a)
    /\ UNCHANGED <<admission, owner, plan, reply, clock>>

\* finalize() holds the gate again.
Reenter(a) ==
    /\ Granted(a, "refinish")
    /\ at' = [at EXCEPT ![a] = "finishing"]
    /\ UNCHANGED <<admission, owner, plan, reply, state>>

\* What is left to do under the gate is done.
Finish(a) ==
    /\ at[a] = "finishing"
    /\ Leave(a)
    /\ reports' = reports \ {a} /\ plans' = IF a \in Ticks THEN plans \ {a} ELSE plans
    /\ UNCHANGED <<admission, latest, stopped, stops, plan, reply, state>>

-----------------------------------------------------------------------------
(* Ticks and other operations                                              *)

Busy == claims > 0 \/ locked

\* "if reject_busy and self.busy"
MayClaim(o) == o \in Impatient => ~Busy

StartOther(o) ==
    /\ at[o] = "new" /\ o \notin Turns
    /\ IF MayClaim(o) THEN Claim(o)
       ELSE at' = [at EXCEPT ![o] = "over"] /\ UNCHANGED gate
    /\ UNCHANGED <<admission, owner, plan, reply, state>>

\* A tick holds the gate and registers the reply it prepares.
BeginTick(k) ==
    /\ Granted(k, "gate")
    /\ at' = [at EXCEPT ![k] = "working"]
    /\ seen' = [seen EXCEPT ![k] = mood]
    /\ reports' = reports \cup {k} /\ plans' = plans \cup {k}
    /\ Invalidate(IF stopped THEN {k} ELSE {})
    /\ UNCHANGED <<admission, latest, stopped, stops, natural, next, status, rows, stamp, state>>

\* A tick that sends nothing.
EndTick(k) ==
    /\ at[k] = "working"
    /\ at' = [at EXCEPT ![k] = "finishing"]
    /\ UNCHANGED <<admission, gate, owner, plan, reply, state>>

BeginOperation(o) ==
    /\ Granted(o, "gate")
    /\ at' = [at EXCEPT ![o] = "working"]
    /\ UNCHANGED <<admission, owner, plan, reply, state>>

\* Another operation, for example an initiated message, may update the mood.
EndOperation(o, moves) ==
    /\ at[o] = "working"
    /\ Leave(o)
    /\ IF moves THEN clock' = clock + 1 /\ mood' = clock + 1 ELSE UNCHANGED <<clock, mood>>
    /\ UNCHANGED <<admission, owner, plan, reply, last>>

-----------------------------------------------------------------------------
Dispatching ==
    \/ \E t \in Turns : Admit(t)
    \/ \E t \in Turns : Enter(t)
    \/ \E t \in Turns : Close(t)
    \/ \E t \in Turns : Interrupt(t)
    \/ Stop \/ Resume \/ SwitchOff

Generating ==
    \/ \E t \in Turns : BeginWork(t)
    \/ \E a \in Replies : EndWork(a)
    \/ \E t \in Turns : Discard(t)
    \/ \E t \in Turns : Fail(t)

Sends(a) == \E outcome \in Outcomes(a) : Sent(a, outcome)

Deliver ==
    \/ \E a \in Replies : Store(a)
    \/ \E a \in Replies : Sends(a)
    \/ \E a \in Replies : EndPause(a)
    \/ \E a \in Replies : GoOn(a)
    \/ \E a \in Replies : CancelWait(a)
    \/ \E a \in Replies : \E fresh \in BOOLEAN : Publish(a, fresh)
    \/ \E a \in Replies : Reenter(a)
    \/ \E a \in Replies : Finish(a)

Others ==
    \/ \E o \in Ticks \cup Operations : StartOther(o)
    \/ \E k \in Ticks : BeginTick(k)
    \/ \E k \in Ticks : EndTick(k)
    \/ \E o \in Operations : BeginOperation(o)
    \/ \E o \in Operations : \E moves \in BOOLEAN : EndOperation(o, moves)

Next == Dispatching \/ Generating \/ Deliver \/ Others

Spec == Init /\ [][Next]_vars

(* Fairness.  Accepted work goes on by itself: tasks run when they are ready,
   the model, the tools and the platforms answer or time out, pauses end.
   Nothing forces a message, an interruption, a handover or a tick to come.   *)
Progress(a) ==
    \/ a \in Turns /\ (Enter(a) \/ Close(a) \/ BeginWork(a) \/ Discard(a) \/ Fail(a))
    \/ a \in Ticks /\ (BeginTick(a) \/ EndTick(a))
    \/ /\ a \in Replies
       /\ \/ EndWork(a) \/ Store(a) \/ Sends(a) \/ EndPause(a) \/ GoOn(a) \/ CancelWait(a)
          \/ \E fresh \in BOOLEAN : Publish(a, fresh)
          \/ Reenter(a) \/ Finish(a)
    \/ /\ a \in Operations
       /\ BeginOperation(a) \/ \E moves \in BOOLEAN : EndOperation(a, moves)

FairSpec == Spec /\ \A a \in Actors : WF_vars(Progress(a))

-----------------------------------------------------------------------------
(* Properties                                                              *)

AdmissionOK ==
    /\ tails \in [Chats -> Turns \cup {Nobody}] /\ behind \in [Turns -> SUBSET Replies]
    /\ accepted \in Seq(Turns)
GateOK == locked \in BOOLEAN /\ waiters \in Seq(Actors) /\ held \subseteq Actors
OwnerOK ==
    /\ latest \in [Keys -> Turns \cup {Nobody}]
    /\ plans \subseteq Replies /\ reports \subseteq Ticks
    /\ stopped \in BOOLEAN /\ stops \in 0..MaxStops
PlanOK == natural \in BOOLEAN /\ invalidated \subseteq Replies /\ cancelled \subseteq Replies
Statuses == {"none", "pending", "unmarked", "sent", "failed", "uncertain"}
ReplyOK ==
    /\ next \in [Replies -> Nat] /\ \A a \in Replies : next[a] \in Messages(a)
    /\ DOMAIN status = Replies
    /\ \A a \in Replies : status[a] \in [Messages(a) -> Statuses]
    /\ rows \in Seq(Replies \X Nat)
    /\ seen \in [Replies -> Nat] /\ stamp \in [Replies -> Nat]
StateOK == mood \in Nat /\ last \in Nat /\ clock \in Nat

\* Every variable has its type, and the claims never fall below zero.
TypeOK ==
    /\ at \in [Actors -> Places] /\ claims \in Nat
    /\ AdmissionOK /\ GateOK /\ OwnerOK /\ PlanOK /\ ReplyOK /\ StateOK

\* Role work is serial: who generates, stores, sends or settles accounts has
\* the lock, and nobody else does, through pauses, interruptions of a pause
\* and the accounts settled after one.
ExclusiveGate ==
    /\ held = {a \in Actors : at[a] \in Working}
    /\ Cardinality(held) <= 1
    /\ locked <=> held # {}

\* The claims that "busy" reads are those of everyone who has, awaits or
\* yielded the gate.
ClaimsCount == claims = Cardinality(Claiming)

\* Work that refuses to wait never comes between the messages of a reply: it
\* starts only when no other work is under way or in a pause.
ImpatientYields ==
    [][\A o \in Impatient : at[o] = "new" /\ at'[o] = "gate" => Claiming = {}]_vars

IndexIn(t) == CHOOSE i \in DOMAIN accepted : accepted[i] = t

\* A sender's new message stops the older reply, however many were accepted
\* before it and whichever of them ended.
SupersededInvalid ==
    \A i, j \in DOMAIN accepted :
        i < j /\ Key(accepted[i]) = Key(accepted[j]) /\ at[accepted[i]] # "over"
        => accepted[i] \in invalidated

\* The history of a chat has the replies to its messages in the order the
\* messages were accepted, each reply in one piece.
RowsInOrder ==
    \A i, j \in DOMAIN rows :
        LET a == rows[i][1]  b == rows[j][1] IN
        i < j /\ {a, b} \subseteq Turns /\ ChatOf[a] = ChatOf[b] => IndexIn(a) <= IndexIn(b)

\* What a reply sent is a prefix of it: a message follows only messages whose
\* receipts confirmed them.
PrefixSent ==
    \A a \in Replies : \A i, j \in Messages(a) :
        j < i /\ status[a][i] # "none" => status[a][j] = "sent"

\* However a turn ends, it leaves no row whose delivery is undecided; a tick
\* leaves one at most, the message its reply ended with, and only because a
\* plugin's CancelledError passed its except clauses (proactive_sequence.py).
NothingPending ==
    \A a \in Replies : at[a] \in {"left", "over"} => \A i \in Messages(a) :
        /\ status[a][i] # "pending"
        /\ status[a][i] = "unmarked" => a \in Ticks /\ i = next[a]

\* No message is begun for a plan that was superseded, switched off or stopped
\* for a handover, at the pause's end included.
SilentOnceInvalid ==
    [][\A a \in Replies : at[a] # "storing" /\ at'[a] = "storing" =>
          a \notin invalidated' /\ ~stopped]_vars

\* The role's state never goes back: a reply that paused while another chat's
\* turn completed does not put its older mood or time over the newer ones.
StateMovesForward == [][last' >= last /\ mood' >= mood]_vars

\* All work that was accepted ends: turns behind others, pauses, interrupted
\* pauses and the waits for the gate.
WorkEnds == \A a \in Actors : at[a] # "new" ~> at[a] = "over"
=============================================================================
