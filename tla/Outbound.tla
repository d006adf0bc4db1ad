------------------------------ MODULE Outbound ------------------------------
(***************************************************************************)
(* The outbound side of the message bus (apps/backend/bus/queue.py and     *)
(* acknowledged.py): one dispatcher takes published messages from a queue, *)
(* routes them to a lane per channel, and each lane delivers its backlog   *)
(* in turn through the channel's current transports, under the transport   *)
(* lock that a channel handover (bootstrap/channel_host.py) takes as well. *)
(* An ordinary message is retried once after a backoff; an acknowledged    *)
(* one is sent at most once and its caller awaits the outcome.             *)
(*                                                                         *)
(* Everything runs on one asyncio loop: an action is the code between two  *)
(* awaits.  asyncio.Lock is FIFO; here any waiter may get it.              *)
(***************************************************************************)
EXTENDS Integers, Sequences, SequencesExt, FiniteSets

CONSTANTS
    Messages, Channels, Transports,
    ChannelOf,       \* the channel of a message
    Acknowledged,    \* messages of deliver_outbound()
    Guarded,         \* messages published under an outbound authority
    Subscribed,      \* the transports a channel has at the start
    Host,            \* names the channel host as the holder of the lock
    None,
    MaxHandovers,    \* bound: channel handovers in a behaviour
    CallbackCancels, \* TRUE if a transport's callback may end cancelled
    LaneFails        \* TRUE if a lane may end with an unexpected exception

ASSUME ChannelAssumption ==
    /\ ChannelOf \in [Messages -> Channels]
    /\ Subscribed \in [Channels -> SUBSET Transports]
    /\ Acknowledged \subseteq Messages /\ Guarded \subseteq Messages
    /\ None \notin Messages \cup Transports \cup Channels
    /\ IsFiniteSet(Channels)
    /\ Host \notin Channels \cup {None}
    /\ MaxHandovers \in Nat
    /\ CallbackCancels \in BOOLEAN /\ LaneFails \in BOOLEAN

VARIABLES
    queue,        \* MessageBus._outbound
    unfinished,   \* the queue's count of unfinished tasks, what join() awaits
    fetched,      \* what the dispatcher's getter task took from the queue
    lane,         \* MessageBus._lanes, with the state of each lane's task
    abandoned,    \* lanes out of the table whose cancelled task still runs
    dispatcher,   \* where dispatch_outbound() is
    running,      \* MessageBus._running
    lock,         \* who holds the transport lock
    subscribers,  \* MessageBus._subscribers
    handovers,    \* channel handovers so far
    answer,       \* the acknowledgement futures
    revoked,      \* guarded messages whose authority is gone
    published,    \* the messages in the order they were published
    settled,      \* messages a lane is done with
    started,      \* messages a callback was called with
    final         \* transports that accepted or definitely refused a message

bus      == <<queue, unfinished, fetched>>
lanes    == <<lane, abandoned>>
loop     == <<dispatcher, running>>
host     == <<subscribers, handovers>>
outcomes == <<answer, revoked>>
ghosts   == <<settled, started, final>>
vars == <<bus, lanes, loop, lock, host, outcomes, published, ghosts>>

\* "created": the lane's task has not run yet; "ended", "cancelled" and
\* "failed": it is over and not reaped yet.
CallPhases == {"call", "recall", "notice"}
BusyPhases == CallPhases \cup {"lock", "backoff", "relock"}
DonePhases == {"ended", "cancelled", "failed"}
Phases == BusyPhases \cup DonePhases \cup {"none", "created"}

\* "cancelled": the task's cancellation has not been delivered yet.
NoLane == [phase |-> "none", msg |-> None, transport |-> None, todo |-> {},
           attempted |-> {}, failed |-> {}, backlog |-> <<>>, cancelled |-> FALSE]

NewLane(m) == [NoLane EXCEPT !.phase = "created", !.backlog = <<m>>]

Answers == {"none", "waiting", "withdrawn", "sent", "failed", "uncertain"}

Init ==
    /\ queue = <<>> /\ unfinished = 0 /\ fetched = None
    /\ lane = [ch \in Channels |-> NoLane] /\ abandoned = {}
    /\ dispatcher = "off" /\ running = FALSE
    /\ lock = None
    /\ subscribers = Subscribed /\ handovers = 0
    /\ answer = [m \in Acknowledged |-> "none"] /\ revoked = {}
    /\ published = <<>>
    /\ settled = {} /\ started = {}
    /\ final = [m \in Messages |-> {}]

-----------------------------------------------------------------------------
(* Publishing                                                              *)

(* An operator introduced as a "Fault" is a plausible defect that takes the
   place of the operator that follows it when the properties are tested.     *)

\* publish_outbound(), and deliver_outbound() for an acknowledged message.
Publish(m) ==
    /\ m \notin ToSet(published)
    /\ published' = Append(published, m)
    /\ queue' = Append(queue, m)
    /\ unfinished' = unfinished + 1
    /\ answer' = [a \in Acknowledged |-> IF a = m THEN "waiting" ELSE answer[a]]
    /\ UNCHANGED <<fetched, lanes, loop, lock, host, revoked, ghosts>>

Calling(m) == \E ch \in Channels : lane[ch].msg = m /\ lane[ch].phase = "call"

\* cancel_waiting_outbound(): only before the callback starts, and while the
\* acknowledgement is in the bus's table.
Withdraw(m) ==
    /\ answer[m] = "waiting" /\ ~Calling(m) /\ m \notin settled
    /\ answer' = [answer EXCEPT ![m] = "withdrawn"]
    /\ UNCHANGED <<bus, lanes, loop, lock, host, revoked, published, ghosts>>

\* The account connection a guarded message was authorised for is gone.
Revoke(m) ==
    /\ m \in Guarded \ revoked
    /\ revoked' = revoked \cup {m}
    /\ UNCHANGED <<bus, lanes, loop, lock, host, answer, published, ghosts>>

-----------------------------------------------------------------------------
(* The dispatcher                                                          *)

\* Fault: the messages go behind those published meanwhile.
RequeueBehind(ms) == queue' = queue \o ms /\ UNCHANGED unfinished
\* _return_to_queue_front()
Requeue(ms) == queue' = ms \o queue /\ UNCHANGED unfinished

InPhase(p) == {ch \in Channels : lane[ch].phase = p}

\* The backlogs of a set of lanes one after the other.
Backlogs(S) == FlattenSeq([i \in 1..Cardinality(S) |-> lane[SetToSeq(S)[i]].backlog])

Fetched == IF fetched = None THEN <<>> ELSE <<fetched>>

Start ==
    /\ dispatcher = "off"
    /\ dispatcher' = "loop" /\ running' = TRUE
    /\ UNCHANGED <<bus, lanes, lock, host, outcomes, published, ghosts>>

Stop ==
    /\ dispatcher = "loop" /\ running
    /\ running' = FALSE
    /\ UNCHANGED <<bus, lanes, dispatcher, lock, host, outcomes, published, ghosts>>

\* The getter task takes the next message.
Fetch ==
    /\ dispatcher = "loop" /\ fetched = None /\ queue # <<>>
    /\ fetched' = Head(queue) /\ queue' = Tail(queue)
    /\ UNCHANGED <<unfinished, lanes, loop, lock, host, outcomes, published, ghosts>>

\* _route_to_lane()
Route(table, m) ==
    LET l == table[ChannelOf[m]] IN
    [table EXCEPT ![ChannelOf[m]] =
        IF l.phase = "none" THEN NewLane(m) ELSE [l EXCEPT !.backlog = Append(@, m)]]

\* Fault: lanes that ended are kept for their channel's next message.
ReapedLater == [ch \in Channels |->
                  IF lane[ch].phase = "cancelled" THEN NoLane ELSE lane[ch]]
\* _reap_lanes(): what is left of the table when no lane failed.
Reaped == [ch \in Channels |->
             IF lane[ch].phase \in {"ended", "cancelled"} THEN NoLane ELSE lane[ch]]

\* _abandon_lanes() and the requeueing of the backlog in publication order;
\* cancelled lanes reaped before give back theirs first.
Abandon(reaped) ==
    /\ Requeue(Backlogs(Channels \ reaped) \o Fetched \o Backlogs(reaped))
    /\ fetched' = None
    /\ lane' = [ch \in Channels |->
                  IF lane[ch].phase \in BusyPhases \cup {"created"}
                  THEN [lane[ch] EXCEPT !.backlog = <<>>, !.cancelled = TRUE]
                  ELSE NoLane]
    /\ abandoned' = {ch \in Channels : lane'[ch] # NoLane}
    /\ dispatcher' = "aborting"
    /\ UNCHANGED <<running, lock, host, outcomes, published, ghosts>>

\* One turn of the loop without a failed lane: reap, then route.
Dispatch ==
    /\ dispatcher = "loop" /\ InPhase("failed") = {}
    /\ fetched # None \/ ~running \/ InPhase("ended") \cup InPhase("cancelled") # {}
    /\ Requeue(Backlogs(InPhase("cancelled")))
    /\ lane' = IF fetched = None THEN Reaped ELSE Route(Reaped, fetched)
    /\ fetched' = None
    /\ dispatcher' = IF running THEN "loop" ELSE "finishing"
    /\ UNCHANGED <<abandoned, running, lock, host, outcomes, published, ghosts>>

\* A failed lane ends the dispatcher, in the loop or while it finishes.
Fail ==
    /\ dispatcher \in {"loop", "finishing"} /\ InPhase("failed") # {}
    /\ Abandon(InPhase("cancelled"))

\* The dispatcher's task is cancelled.
CancelDispatcher == dispatcher \in {"loop", "finishing"} /\ Abandon({})

\* After stop(): the routed lanes deliver what they have.
Finish ==
    /\ dispatcher = "finishing"
    /\ InPhase("failed") = {}
    /\ Requeue(Backlogs(InPhase("cancelled")))
    /\ lane' = Reaped
    /\ dispatcher' = IF \A ch \in Channels : lane'[ch] = NoLane THEN "off" ELSE dispatcher
    /\ UNCHANGED <<fetched, abandoned, running, lock, host, outcomes, published, ghosts>>

\* The abandoned tasks are over.
Aborted ==
    /\ dispatcher = "aborting" /\ abandoned = {}
    /\ dispatcher' = "off"
    /\ UNCHANGED <<bus, lanes, running, lock, host, outcomes, published, ghosts>>

-----------------------------------------------------------------------------
(* A lane                                                                  *)

\* task_done()
TaskDone == unfinished' = unfinished - 1

\* The next message of the backlog, if any.
Take(l) ==
    IF l.backlog = <<>> THEN [NoLane EXCEPT !.phase = "ended"]
    ELSE [NoLane EXCEPT !.phase = "lock", !.msg = Head(l.backlog), !.backlog = Tail(l.backlog)]

Settled(ch) == settled' = settled \cup {lane[ch].msg} /\ TaskDone

\* The lane's task is done with its message and continues as l; a task out of
\* the table just ends.
LeaveAs(ch, l) ==
    /\ lane' = [lane EXCEPT ![ch] = IF ch \in abandoned THEN NoLane ELSE l]
    /\ abandoned' = abandoned \ {ch}
    /\ Settled(ch)

Complete(ch) == LeaveAs(ch, Take(lane[ch]))

LaneStarts(ch) ==
    /\ lane[ch].phase = "created" /\ ~lane[ch].cancelled
    /\ lane' = [lane EXCEPT ![ch] = Take(@)]
    /\ UNCHANGED <<bus, abandoned, loop, lock, host, outcomes, published, ghosts>>

\* Fault: the authority is not looked at.
MayDeliverAlways(m) == TRUE
\* _may_deliver()
MayDeliver(m) == m \notin revoked

\* The lock is granted to a lane that waits for it in the given phase.
Granted(ch, phase) == lane[ch].phase = phase /\ lock = None

\* A callback that returns or raises has swallowed a cancellation.
Uncancelled(ch) == [lane[ch] EXCEPT !.cancelled = FALSE]

\* Calls, under the lock, the callback of some transport of targets.
Call(ch, l, phase, targets) ==
    /\ \E t \in targets :
          lane' = [lane EXCEPT ![ch] =
                     [l EXCEPT !.phase = phase, !.transport = t, !.todo = targets \ {t}]]
    /\ lock' = ch
    /\ started' = started \cup {l.msg}
    /\ UNCHANGED <<unfinished, abandoned, settled>>

\* Ends the work on the message, or the round that the lock is held for.
Leave(ch) == Complete(ch) /\ lock' = None /\ UNCHANGED started

\* Fault: a withdrawn message is not recognised.
Wanted(m) == TRUE
\* "if acknowledgement.cancelled()"
NotWithdrawn(m) == answer[m] # "withdrawn"

\* Fault: the caller of a message without a transport is not answered.
AnswerLater(m, outcome) == UNCHANGED answer
\* acknowledgement.set_result()
SetResult(m, outcome) ==
    answer' = [answer EXCEPT ![m] = IF @ = "waiting" THEN outcome ELSE @]

\* The lock is granted for an acknowledged message.
DeliverAcknowledged(ch) ==
    LET m == lane[ch].msg IN
    /\ Granted(ch, "lock") /\ m \in Acknowledged
    /\ IF NotWithdrawn(m) /\ MayDeliver(m) /\ Cardinality(subscribers[ch]) = 1
         THEN Call(ch, lane[ch], "call", subscribers[ch]) /\ UNCHANGED answer
         ELSE Leave(ch) /\ SetResult(m, "failed")
    /\ UNCHANGED <<queue, fetched, loop, host, revoked, published, final>>

\* The callback returned, raised or was cancelled.
AcknowledgedReturns(ch, outcome) ==
    LET m == lane[ch].msg IN
    /\ lane[ch].phase = "call" /\ m \in Acknowledged
    /\ Leave(ch)
    /\ SetResult(m, outcome)
    /\ final' = [final EXCEPT ![m] = @ \cup {lane[ch].transport}]
    /\ UNCHANGED <<queue, fetched, loop, host, revoked, published>>

\* The lock is granted for the first attempt at an ordinary message.
Deliver(ch) ==
    LET m == lane[ch].msg
        targets == subscribers[ch] IN
    /\ Granted(ch, "lock") /\ m \notin Acknowledged /\ ~lane[ch].cancelled
    /\ IF targets # {} /\ MayDeliver(m)
         THEN Call(ch, [lane[ch] EXCEPT !.attempted = targets], "call", targets)
         ELSE Leave(ch)
    /\ UNCHANGED <<queue, fetched, loop, host, outcomes, published, final>>

Noted(ch, outcome) ==
    final' = IF outcome = "error" THEN final
             ELSE [final EXCEPT ![lane[ch].msg] = @ \cup {lane[ch].transport}]

\* A callback returned ("done"), raised NonRetryableDeliveryError ("refused")
\* or another exception ("error"): the next one is called, or the round ends.
CallReturns(ch, outcome) ==
    LET m == lane[ch].msg
        l == [Uncancelled(ch) EXCEPT !.transport = None,
                 !.failed = IF outcome = "error" THEN @ \cup {lane[ch].transport} ELSE @] IN
    /\ lane[ch].phase = "call" /\ m \notin Acknowledged
    /\ Noted(ch, outcome)
    /\ IF l.todo # {}
         THEN IF MayDeliver(m) THEN Call(ch, l, "call", l.todo) ELSE Leave(ch)
         ELSE IF l.failed = {} THEN Leave(ch)
         ELSE /\ lane' = [lane EXCEPT ![ch] = [l EXCEPT !.phase = "backoff"]]
              /\ lock' = None
              /\ UNCHANGED <<unfinished, abandoned, settled, started>>
    /\ UNCHANGED <<queue, fetched, loop, host, outcomes, published>>

BackoffEnds(ch) ==
    /\ lane[ch].phase = "backoff" /\ ~lane[ch].cancelled
    /\ lane' = [lane EXCEPT ![ch].phase = "relock"]
    /\ UNCHANGED <<bus, abandoned, loop, lock, host, outcomes, published, ghosts>>

\* Fault: every current transport is tried again.
RetryCurrent(ch) == subscribers[ch]
\* _retry_targets(): the failed callbacks that still subscribe; the current
\* ones when everything tried before was replaced.
RetryTargets(ch) ==
    IF lane[ch].attempted \cap subscribers[ch] = {}
    THEN subscribers[ch] ELSE lane[ch].failed \cap subscribers[ch]

\* The lock is granted for the second attempt.
Retry(ch) ==
    LET targets == RetryTargets(ch) IN
    /\ Granted(ch, "relock") /\ ~lane[ch].cancelled
    /\ IF targets # {} /\ MayDeliver(lane[ch].msg)
         THEN Call(ch, lane[ch], "recall", targets)
         ELSE Leave(ch)
    /\ UNCHANGED <<queue, fetched, loop, host, outcomes, published, final>>

NextRetry(ch) ==
    IF lane[ch].todo # {} /\ MayDeliver(lane[ch].msg)
    THEN Call(ch, Uncancelled(ch), "recall", lane[ch].todo)
    ELSE Leave(ch)

\* A second failure is followed by a notice through the same transport.
RetryReturns(ch, outcome) ==
    /\ lane[ch].phase = "recall"
    /\ Noted(ch, outcome)
    /\ IF outcome = "error" /\ MayDeliver(lane[ch].msg)
         THEN /\ lane' = [lane EXCEPT ![ch] = [Uncancelled(ch) EXCEPT !.phase = "notice"]]
              /\ UNCHANGED <<unfinished, abandoned, lock, settled, started>>
         ELSE NextRetry(ch)
    /\ UNCHANGED <<queue, fetched, loop, host, outcomes, published>>

NoticeReturns(ch) ==
    /\ lane[ch].phase = "notice"
    /\ NextRetry(ch)
    /\ UNCHANGED <<queue, fetched, loop, host, outcomes, published, final>>

\* The lane's task ends early, with its message settled; its backlog stays.
EndsAs(ch, phase) ==
    /\ LeaveAs(ch, [NoLane EXCEPT !.phase = phase, !.backlog = lane[ch].backlog])
    /\ lock' = IF lock = ch THEN None ELSE lock
    /\ UNCHANGED <<queue, fetched, loop, host, outcomes, published, started, final>>

\* A callback of an ordinary message ends cancelled: so does the lane.
CallbackCancelled(ch) ==
    /\ CallbackCancels
    /\ lane[ch].phase \in CallPhases /\ lane[ch].msg \notin Acknowledged
    /\ EndsAs(ch, "cancelled")

\* An authority check, or what a callback raises, is not an Exception the lane
\* expects.
LaneFailed(ch) ==
    /\ LaneFails
    /\ lane[ch].phase \in CallPhases \/ Granted(ch, "lock") \/ Granted(ch, "relock")
    /\ EndsAs(ch, "failed")

\* The cancellation of an abandoned task is delivered.  A started acknowledged
\* delivery is finished first; a callback may also swallow it.
AbandonedEnds(ch) ==
    /\ lane[ch].cancelled /\ lane[ch].msg \notin Acknowledged
    /\ IF lane[ch].phase = "created"
         THEN /\ lane' = [lane EXCEPT ![ch] = NoLane]
              /\ abandoned' = abandoned \ {ch}
              /\ UNCHANGED <<bus, loop, lock, host, outcomes, published, ghosts>>
         ELSE EndsAs(ch, "cancelled")

-----------------------------------------------------------------------------
(* The channel host                                                        *)

BeginHandover ==
    /\ lock = None /\ handovers < MaxHandovers
    /\ lock' = Host
    /\ UNCHANGED <<bus, lanes, loop, host, outcomes, published, ghosts>>

\* The transports of a channel were exchanged under the lock.
EndHandover(ch, transports) ==
    /\ lock = Host
    /\ lock' = None
    /\ subscribers' = [subscribers EXCEPT ![ch] = transports]
    /\ handovers' = handovers + 1
    /\ UNCHANGED <<bus, lanes, loop, outcomes, published, ghosts>>

-----------------------------------------------------------------------------
Publishing ==
    \/ \E m \in Messages : Publish(m)
    \/ \E m \in Acknowledged : Withdraw(m)
    \/ \E m \in Guarded : Revoke(m)

Dispatching ==
    \/ Start \/ Stop \/ Fetch \/ Dispatch \/ Fail \/ CancelDispatcher
    \/ Finish \/ Aborted

Returns(ch) ==
    \/ \E o \in {"sent", "failed", "uncertain"} : AcknowledgedReturns(ch, o)
    \/ \E o \in {"done", "refused", "error"} : CallReturns(ch, o) \/ RetryReturns(ch, o)
    \/ NoticeReturns(ch)

Delivering ==
    \/ \E ch \in Channels : LaneStarts(ch)
    \/ \E ch \in Channels : DeliverAcknowledged(ch)
    \/ \E ch \in Channels : Deliver(ch)
    \/ \E ch \in Channels : Returns(ch)
    \/ \E ch \in Channels : BackoffEnds(ch)
    \/ \E ch \in Channels : Retry(ch)

Disturbing ==
    \/ \E ch \in Channels : CallbackCancelled(ch)
    \/ \E ch \in Channels : LaneFailed(ch)
    \/ \E ch \in Channels : AbandonedEnds(ch)

Switching ==
    \/ BeginHandover
    \/ \E ch \in Channels : \E S \in SUBSET Transports : EndHandover(ch, S)

Next == Publishing \/ Dispatching \/ Delivering \/ Disturbing \/ Switching

Spec == Init /\ [][Next]_vars

(* Fairness.  The loop runs every ready task; the dispatcher wakes at least
   every second; callbacks, backoffs and handovers end (their owners bound
   them); asyncio.Lock is FIFO and the other holders release it, so a waiting
   lane is not passed over for ever.                                         *)
Fairness ==
    /\ WF_vars(Fetch) /\ WF_vars(Dispatch) /\ WF_vars(Fail)
    /\ WF_vars(Finish) /\ WF_vars(Aborted)
    /\ WF_vars(\E ch \in Channels : \E S \in SUBSET Transports : EndHandover(ch, S))
    /\ \A ch \in Channels :
          /\ WF_vars(LaneStarts(ch)) /\ WF_vars(Returns(ch))
          /\ WF_vars(BackoffEnds(ch)) /\ WF_vars(AbandonedEnds(ch))
          /\ SF_vars(DeliverAcknowledged(ch))
          /\ SF_vars(Deliver(ch)) /\ SF_vars(Retry(ch))

FairSpec == Spec /\ Fairness

-----------------------------------------------------------------------------
(* Properties                                                              *)

\* Every variable has its type.
TypeOK ==
    /\ queue \in Seq(Messages) /\ unfinished \in Nat
    /\ fetched \in Messages \cup {None}
    /\ lane \in [Channels -> [phase : Phases, msg : Messages \cup {None},
                              transport : Transports \cup {None},
                              todo : SUBSET Transports, attempted : SUBSET Transports,
                              failed : SUBSET Transports, backlog : Seq(Messages),
                              cancelled : BOOLEAN]]
    /\ abandoned \subseteq Channels
    /\ dispatcher \in {"off", "loop", "finishing", "aborting"}
    /\ running \in BOOLEAN
    /\ lock \in Channels \cup {Host, None}
    /\ subscribers \in [Channels -> SUBSET Transports]
    /\ handovers \in 0..MaxHandovers
    /\ answer \in [Acknowledged -> Answers]
    /\ revoked \subseteq Guarded
    /\ published \in Seq(Messages)
    /\ settled \subseteq Messages /\ started \subseteq Messages
    /\ final \in [Messages -> SUBSET Transports]

\* What of a sequence of messages is for a channel, in its order.
Of(ch, s) == FlattenSeq([i \in DOMAIN s |-> IF ChannelOf[s[i]] = ch THEN <<s[i]>> ELSE <<>>])

\* What waits for a channel: its lane's backlog, then what was fetched, then
\* the queue.
Line(ch) == lane[ch].backlog \o Of(ch, Fetched \o queue)

Active(ch) == lane[ch].msg

Lines == INSTANCE ChannelLines WITH
    Message <- Messages, Channel <- Channels, Nobody <- None,
    line <- [ch \in Channels |-> Line(ch)],
    active <- [ch \in Channels |-> Active(ch)]

\* Whatever the dispatcher, its lanes and its cancellation do, the bus is a
\* line per channel: nothing is lost, repeated or overtaken, and one message
\* of a channel is delivered at a time.
ImplementsLines == Lines!Spec

\* drain_outbound() (join) returns exactly when no message is queued, fetched,
\* routed or in delivery: a handover and the exit rely on it.
JoinCounts ==
    unfinished = Cardinality(ToSet(published) \ settled)

\* A callback runs only while its transport is subscribed: a handover in a
\* retry's backoff never lets a replaced connection send.
RunningSubscribed ==
    \A ch \in Channels :
        lane[ch].phase \in CallPhases => lane[ch].transport \in subscribers[ch]

\* A callback is called in this step: what the lane is doing changes.
Doing(l) == <<l.phase, l.msg, l.transport, l.todo>>
Calls(ch) == lane'[ch].phase \in CallPhases /\ Doing(lane'[ch]) # Doing(lane[ch])

\* A transport that accepted or definitely refused a message does not get it
\* again, whatever the other transports and handovers do.
NoReplay ==
    [][\A ch \in Channels :
          Calls(ch) => lane'[ch].transport \notin final[lane'[ch].msg]]_vars

\* An acknowledged message withdrawn by its turn never reaches the platform:
\* the turn stores it as failed.
WithdrawnNeverSent ==
    \A m \in Acknowledged : answer[m] = "withdrawn" => m \notin started

\* No callback starts, first, again or for a notice, once the message's
\* authority is gone, however long it waited for the lock or the backoff.
NoCallAfterRevoke ==
    [][\A ch \in Channels :
          Calls(ch) => lane'[ch].msg \notin revoked]_vars

\* Queue positions of the messages, by publication.
Number(m) == CHOOSE i \in DOMAIN published : published[i] = m

\* dispatch_outbound(): "messages of one channel are delivered one by one
\* strictly in the order they were enqueued": what a lane delivers was
\* published before everything that still waits for its channel.  It is not: a
\* callback that ends cancelled gives its lane's backlog back to the queue when the
\* dispatcher has already fetched a later message, which overtakes it.
InOrder ==
    \A ch \in Channels : Active(ch) # None =>
        \A i \in DOMAIN Line(ch) : Number(Active(ch)) < Number(Line(ch)[i])

\* A published message is settled, as long as the dispatcher is not stopped.
EachSettles ==
    \A m \in Messages :
        m \in ToSet(published) ~> (m \in settled \/ dispatcher # "loop")

\* The turn that awaits an acknowledged delivery is answered.
CallerAnswered ==
    \A m \in Acknowledged :
        answer[m] = "waiting" ~> (answer[m] # "waiting" \/ dispatcher # "loop")

\* stop(), a failed lane or a cancellation ends the dispatcher.
DispatcherEnds == (dispatcher \in {"finishing", "aborting"}) ~> (dispatcher = "off")
=============================================================================
