---------------------------- MODULE DesktopTurns ----------------------------
(***************************************************************************)
(* The desktop's chat turns of one role session                            *)
(* (apps/backend/desktop_bridge/chat_service.py, chat_turn_state.py):      *)
(* requests enter through the bridge's one mutation lane                   *)
(* (request_dispatcher.py), are routed to the service of a generation      *)
(* (runtime/service.py, chat_requests.py), and become turns whose runners  *)
(* wait for each other, are cancelled by turn id, superseded by the next   *)
(* message, handed to the next generation's service, and closed with the   *)
(* bridge.                                                                 *)
(*                                                                         *)
(* One asyncio loop: an action is the code between two awaits.  "inner" is *)
(* AgentLoop.process_direct()'s task, what it does is abstracted to when   *)
(* it stores its reply and how it ends.                                    *)
(***************************************************************************)
EXTENDS Integers, FiniteSets, Sequences

CONSTANTS
    MaxTurns,   \* bound: turn ids that requests may carry
    Retries,    \* the turn ids that chat.retry may carry
    MaxReloads, \* bound: generations published after the first
    MaxClosing, \* bound: turns accepted when the bridge's stream ends
    HasReport,  \* whether a background result of the session may be reported
    Report,     \* names that report's work in the agent loop
    None

ASSUME TurnsAssumption ==
    /\ MaxTurns \in Nat /\ MaxReloads \in Nat /\ MaxClosing \in Nat
    /\ HasReport \in BOOLEAN
    /\ None \notin Nat \cup {Report}
    /\ Report \notin Nat

\* Turn ids in the order of their requests; a turn of chat.send also names the
\* message it answers.
Turns == 1..MaxTurns

\* The services of the generations, in the order they are published.
Services == 1..(MaxReloads + 1)

VARIABLES
    turn,       \* DesktopChatTurn and its runner, by turn id
    inner,      \* the agent loop's task of a turn: "none", "active", "stopping"
    latest,     \* _tasks_by_session of each service, borrowed turns included
    current,    \* the service of the published generation
    lane,       \* the request that holds the mutation lane
    snapshots,  \* AgentLoop._interrupt_states, by the work they were taken of
    report,     \* the background report: "none", "active", "cancelled", "ended"
    replies,    \* assistant rows stored for a turn
    stored,     \* messages (of chat.send) whose user row is stored
    failed,     \* messages whose chat.send failed after their row was stored
    tail,       \* the message whose user row ends the desktop history, or None
    accepted,   \* turns in the order start_chat_turn() accepted them
    published,  \* turns in the order their terminal events were published
    closing,    \* the bridge's stream has ended
    closed      \* services whose aclose() has begun

chat    == <<latest, current, lane>>
history == <<replies, stored, failed, tail>>
vars == <<turn, inner, chat, snapshots, report, history, accepted, published,
          closing, closed>>

Stages == {"new", "scheduled", "waiting", "running", "syncing", "claimed",
           "saving", "flushing", "closed"}

NewTurn == [stage |-> "new", task |-> "none", service |-> 0, message |-> None,
            previous |-> None, started |-> FALSE, asked |-> FALSE,
            invalidated |-> FALSE, cancelled |-> FALSE, snapshot |-> None,
            result |-> None, terminal |-> None]

Free == [pc |-> "free", request |-> None, turn |-> None, service |-> 0]

Init ==
    /\ turn = [t \in Turns |-> NewTurn]
    /\ inner = [t \in Turns |-> "none"]
    /\ latest = [s \in Services |-> None]
    /\ current = 1 /\ lane = Free
    /\ snapshots = {} /\ report = "none"
    /\ replies = [t \in Turns |-> 0] /\ stored = {} /\ failed = {}
    /\ tail = None
    /\ accepted = <<>> /\ published = <<>>
    /\ closing = FALSE /\ closed = 0

\* The session is released; the terminal event may still be on its way.
Completed(t) == turn[t].stage \in {"flushing", "closed"}
\* One finisher has claimed the terminal event.
Finished(t) == turn[t].stage \in {"claimed", "saving", "flushing", "closed"}
\* The task is over, and so is the late finisher of one that never ran.
Ended(t) == turn[t].task = "over" /\ turn[t].stage = "closed"
PreviousEnded(t) == turn[t].previous # None => Ended(turn[t].previous)

Busy(s) == latest[s] # None /\ turn[latest[s]].task = "live" /\ ~Completed(latest[s])
Owns(s) == Busy(s) /\ turn[latest[s]].service = s
Owners == {s \in Services : Owns(s)}

-----------------------------------------------------------------------------
(* Cancelling a task                                                       *)

\* task.cancel() on a runner.  It never ran: the task just ends.  It awaits a
\* predecessor or the session's update: it claims the terminal, cancelled.
\* It awaits the agent loop's task: the cancellation goes there.  From the
\* claim on it is absorbed (complete_despite_cancellation).
CancelTask(r) ==
    CASE r.stage = "scheduled" -> [r EXCEPT !.task = "done"]
      [] r.stage \in {"waiting", "syncing"} ->
             [r EXCEPT !.stage = "claimed", !.cancelled = TRUE]
      [] OTHER -> r

CancelInner(t) == IF inner[t] = "active" THEN "stopping" ELSE inner[t]

-----------------------------------------------------------------------------
(* Requests                                                                *)

\* continue_chat_after(): the current service chains the next input behind the
\* turn of the newest service that owns one.
Borrow ==
    IF Owners = {} \/ current \in Owners THEN latest
    ELSE [latest EXCEPT ![current] =
              latest[CHOOSE s \in Owners : \A r \in Owners : r <= s]]

Unused == {t \in Turns : turn[t].stage = "new" /\ t \notin stored}

\* handle(): chat.send waits for the lane, chat.retry is refused while busy.
Request(t, kind) ==
    /\ lane = Free /\ ~closing
    /\ Unused # {} /\ t = CHOOSE u \in Unused : \A v \in Unused : u <= v
    /\ kind = "retry" => t \in Retries /\ Owners = {}
    /\ latest' = Borrow
    /\ lane' = [pc |-> "opening", request |-> kind, turn |-> t, service |-> current]
    /\ UNCHANGED <<turn, inner, current, snapshots, report, history, accepted,
                   published, closing, closed>>

\* Fault: only a turn the service owns is invalidated, not a borrowed one.
SupersedeOwned(s) ==
    IF Owns(s) THEN [turn EXCEPT ![latest[s]].invalidated = TRUE] ELSE turn

\* supersede_chat_turn(): the busy turn's reply is invalidated before intake.
Supersede(s) ==
    IF Busy(s) THEN [turn EXCEPT ![latest[s]].invalidated = TRUE] ELSE turn

\* _send() after the role was opened.
Open ==
    /\ lane.pc = "opening" /\ lane.request = "send"
    /\ turn' = Supersede(lane.service)
    /\ lane' = [lane EXCEPT !.pc = "persisting"]
    /\ UNCHANGED <<inner, latest, current, snapshots, report, history, accepted,
                   published, closing, closed>>

\* start_chat_turn() refuses to start beside a turn that was not superseded.
MayStart(s) == Busy(s) => turn[latest[s]].invalidated

\* Fault: the runner is not chained behind the service's latest turn.
StartUnchained(t, s, m) ==
    /\ turn' = [turn EXCEPT ![t] = [NewTurn EXCEPT !.stage = "scheduled",
                    !.task = "live", !.service = s, !.message = m]]
    /\ latest' = [latest EXCEPT ![s] = t]
    /\ accepted' = Append(accepted, t)

Start(t, s, m) ==
    /\ turn' = [turn EXCEPT ![t] = [NewTurn EXCEPT !.stage = "scheduled",
                    !.task = "live", !.service = s, !.message = m,
                    !.previous = latest[s]]]
    /\ latest' = [latest EXCEPT ![s] = t]
    /\ accepted' = Append(accepted, t)

\* The user row is stored and the turn starts, or its start is refused.
Store ==
    /\ lane.pc = "persisting"
    /\ stored' = stored \cup {lane.turn} /\ tail' = lane.turn
    /\ IF MayStart(lane.service) THEN Start(lane.turn, lane.service, lane.turn)
       ELSE UNCHANGED <<turn, latest, accepted>>
    /\ lane' = Free
    /\ UNCHANGED <<inner, current, snapshots, report, replies, failed, published,
                   closing, closed>>

\* chat.send answers an error: nothing was stored, or the row is and one of the
\* effects that follow it failed (the thread's projection, presence, affection).
StoreFails ==
    /\ lane.pc = "persisting"
    /\ lane' = Free
    /\ \/ UNCHANGED <<stored, failed, tail>>
       \/ /\ stored' = stored \cup {lane.turn} /\ failed' = failed \cup {lane.turn}
          /\ tail' = lane.turn
    /\ UNCHANGED <<turn, inner, latest, current, snapshots, report, replies,
                   accepted, published, closing, closed>>

\* _retry() after the role was opened: on the last message, if nothing follows.
Retry ==
    /\ lane.pc = "opening" /\ lane.request = "retry"
    /\ IF ~Busy(lane.service) /\ tail # None
       THEN Start(lane.turn, lane.service, tail)
       ELSE UNCHANGED <<turn, latest, accepted>>
    /\ lane' = Free
    /\ UNCHANGED <<inner, current, snapshots, report, history, published,
                   closing, closed>>

\* request_interrupt() cancelled the work w for the cancel of turn t: w is the
\* turn's own or, if the turn is in none of the loop's tasks, the only work
\* registered for the session without a chat's full address.
Interrupt(t, w) ==
    /\ inner' = IF w = Report THEN inner ELSE [inner EXCEPT ![w] = "stopping"]
    /\ report' = IF w = Report THEN "cancelled" ELSE report
    /\ IF Finished(t) THEN UNCHANGED <<turn, snapshots>>
       ELSE /\ turn' = [turn EXCEPT ![t] = [CancelTask(@) EXCEPT !.snapshot = w]]
            /\ snapshots' = snapshots \cup {w}

\* _prepare_cancel(): a queued turn is only marked.
PrepareCancel(t) ==
    CASE ~turn[t].started ->
             turn' = [turn EXCEPT ![t].asked = TRUE] /\ UNCHANGED <<inner, snapshots, report>>
      [] turn[t].started /\ inner[t] # "none" -> Interrupt(t, t)
      [] turn[t].started /\ inner[t] = "none" /\ report = "active" -> Interrupt(t, Report)
      [] OTHER -> UNCHANGED <<turn, inner, snapshots, report>>

\* chat.cancel, routed to the service that owns the turn; any other turn id is
\* answered "idle" or "mismatch" and changes nothing.
Cancel(t) ==
    /\ lane = Free /\ ~closing
    /\ \E s \in Owners : latest[s] = t
    /\ PrepareCancel(t)
    /\ lane' = [pc |-> "cleanup", request |-> "cancel", turn |-> t,
                service |-> turn[t].service]
    /\ UNCHANGED <<latest, current, history, accepted, published, closing, closed>>

\* _await_turn_cleanup() returns and the cancel is answered.
Answer ==
    /\ lane.pc = "cleanup" /\ Ended(lane.turn)
    /\ lane' = Free
    /\ UNCHANGED <<turn, inner, latest, current, snapshots, report, history,
                   accepted, published, closing, closed>>

-----------------------------------------------------------------------------
(* The runner of a turn                                                    *)

FirstStep(t) ==
    /\ turn[t].stage = "scheduled" /\ turn[t].task = "live"
    /\ turn' = [turn EXCEPT ![t].stage = "waiting"]
    /\ UNCHANGED <<inner, chat, snapshots, report, history, accepted, published,
                   closing, closed>>

\* The predecessor ended: a turn cancelled meanwhile does not start.
Begin(t) ==
    /\ turn[t].stage = "waiting" /\ PreviousEnded(t)
    /\ IF turn[t].asked
       THEN /\ turn' = [turn EXCEPT ![t].stage = "claimed", ![t].cancelled = TRUE]
            /\ UNCHANGED inner
       ELSE /\ turn' = [turn EXCEPT ![t].stage = "running", ![t].started = TRUE]
            /\ inner' = [inner EXCEPT ![t] = "active"]
    /\ UNCHANGED <<chat, snapshots, report, history, accepted, published,
                   closing, closed>>

AddReply(t) == /\ replies' = [replies EXCEPT ![t] = @ + 1]
               /\ tail' = None

\* process_direct() returns or raises: after its reply, with a failure, or,
\* interrupted or superseded, cancelled.  Its reply, or what a superseded one
\* left, is stored shortly before; a started commit is finished even then.
InnerEnds(t, result) ==
    /\ inner[t] # "none"
    /\ \/ AddReply(t)
       \/ result # "done" /\ UNCHANGED <<replies, tail>>
    /\ result = "cancelled" => inner[t] = "stopping" \/ turn[t].invalidated
    /\ inner' = [inner EXCEPT ![t] = "none"]
    /\ turn' = [turn EXCEPT ![t] =
          IF result = "cancelled" THEN [@ EXCEPT !.stage = "claimed", !.cancelled = TRUE]
          ELSE [@ EXCEPT !.stage = "syncing", !.result = result]]
    /\ UNCHANGED <<chat, snapshots, report, stored, failed, accepted, published,
                   closing, closed>>

\* run_chat_turn() defers its terminal event; the update before it may fail.
Sync(t, result) ==
    /\ turn[t].stage = "syncing" /\ result \in {turn[t].result, "error"}
    /\ turn' = [turn EXCEPT ![t].stage = "claimed", ![t].terminal = result]
    /\ UNCHANGED <<inner, chat, snapshots, report, history, accepted, published,
                   closing, closed>>

\* Fault: the snapshot of a turn that ended on its own stays in the agent loop.
KeepSnapshot(t) == snapshots

DiscardSnapshot(t) == snapshots \ {turn[t].snapshot}

\* _finish_turn() once the predecessor ended: a cancelled turn without a
\* terminal saves its interrupted reply first, any other is released.
Settle(t) ==
    /\ turn[t].stage = "claimed" /\ PreviousEnded(t)
    /\ IF turn[t].cancelled /\ turn[t].terminal = None
       THEN /\ turn' = [turn EXCEPT ![t] =
                   IF @.snapshot # None THEN [@ EXCEPT !.stage = "saving"]
                   ELSE [@ EXCEPT !.stage = "flushing", !.terminal = "cancelled"]]
            /\ UNCHANGED snapshots
       ELSE /\ turn' = [turn EXCEPT ![t].stage = "flushing"]
            /\ snapshots' = DiscardSnapshot(t)
    /\ UNCHANGED <<inner, chat, report, history, accepted, published, closing,
                   closed>>

\* Fault: the interrupted reply is stored beside the turn's completed one.
NeedsRowAlways(t) == TRUE

\* _has_completed_turn(): nothing is stored beside a reply of the turn.
NeedsRow(t) == replies[t] = 0

\* _publish_interrupted_turn(): the row is stored if there is a trace to keep
\* and the write succeeds; the turn ends cancelled in either case.
Save(t) ==
    /\ turn[t].stage = "saving"
    /\ \/ NeedsRow(t) /\ AddReply(t)
       \/ UNCHANGED <<replies, tail>>
    /\ snapshots' = snapshots \ {turn[t].snapshot}
    /\ turn' = [turn EXCEPT ![t].stage = "flushing", ![t].terminal = "cancelled"]
    /\ UNCHANGED <<inner, chat, report, stored, failed, accepted, published, closing,
                   closed>>

\* The deferred events are published and the task, if it is the runner's, ends;
\* nothing reads what else the turn's record held.
Flush(t) ==
    /\ turn[t].stage = "flushing"
    /\ published' = Append(published, t)
    /\ turn' = [turn EXCEPT ![t] = [NewTurn EXCEPT !.stage = "closed",
                    !.task = IF turn[t].task = "live" THEN "done" ELSE turn[t].task,
                    !.service = turn[t].service, !.message = turn[t].message]]
    /\ UNCHANGED <<inner, chat, snapshots, report, history, accepted, closing, closed>>

\* Fault: a task that never ran gets no late finisher.
NeverFinishLate(r) == r
\* Fault: the follow-up finishes whatever task ended.
FinishAgain(r) == [r EXCEPT !.stage = "claimed", !.cancelled = TRUE]

FinishLate(r) ==
    IF r.stage = "scheduled" THEN [r EXCEPT !.stage = "claimed", !.cancelled = TRUE] ELSE r

\* _on_turn_task_done() and the callbacks of services that borrowed the turn.
TaskDone(t) ==
    /\ turn[t].task = "done"
    /\ turn' = [turn EXCEPT ![t] = [FinishLate(@) EXCEPT !.task = "over"]]
    /\ latest' = [s \in Services |-> IF latest[s] = t THEN None ELSE latest[s]]
    /\ UNCHANGED <<inner, current, lane, snapshots, report, history, accepted,
                   published, closing, closed>>

-----------------------------------------------------------------------------
(* Generations, background reports, shutdown                               *)

Publish ==
    /\ ~closing /\ current + 1 \in Services
    /\ current' = current + 1
    /\ UNCHANGED <<turn, inner, latest, lane, snapshots, report, history,
                   accepted, published, closing, closed>>

ReportArrives ==
    /\ HasReport /\ report = "none"
    /\ report' = "active"
    /\ UNCHANGED <<turn, inner, chat, snapshots, history, accepted, published,
                   closing, closed>>

ReportEnds ==
    /\ report = "active"
    /\ report' = "ended"
    /\ UNCHANGED <<turn, inner, chat, snapshots, history, accepted, published,
                   closing, closed>>

\* The stream ended: the request in the lane is cancelled.  A send may or may
\* not have stored its row; a cancel forwards its cancellation to the turn it
\* awaits and goes on waiting for it.
Close ==
    /\ ~closing /\ Len(accepted) <= MaxClosing
    /\ closing' = TRUE
    /\ IF lane.pc = "cleanup"
       THEN /\ turn' = [turn EXCEPT ![lane.turn] = CancelTask(@)]
            /\ inner' = [inner EXCEPT ![lane.turn] = CancelInner(lane.turn)]
            /\ UNCHANGED <<lane, stored, tail>>
       ELSE /\ lane' = Free
            /\ \/ UNCHANGED <<stored, tail>>
               \/ /\ lane.pc = "persisting"
                  /\ stored' = stored \cup {lane.turn} /\ tail' = lane.turn
            /\ UNCHANGED <<turn, inner>>
    /\ UNCHANGED <<latest, current, snapshots, report, replies, failed,
                   accepted, published, closed>>

CloseTurn(t) ==
    IF turn[t].started THEN CancelTask(turn[t]) ELSE [turn[t] EXCEPT !.asked = TRUE]

\* aclose() of the next service, once the one before has awaited its turns.
CloseService ==
    /\ closing /\ lane = Free /\ closed < current
    /\ \A t \in Turns : turn[t].service \in 1..closed => Ended(t)
    /\ closed' = closed + 1
    /\ LET own == {t \in Turns : turn[t].service = closed + 1 /\ turn[t].task = "live"}
       IN /\ turn' = [t \in Turns |-> IF t \in own THEN CloseTurn(t) ELSE turn[t]]
          /\ inner' = [t \in Turns |-> IF t \in own THEN CancelInner(t) ELSE inner[t]]
    /\ UNCHANGED <<chat, snapshots, report, history, accepted, published, closing>>

-----------------------------------------------------------------------------
LaneStep == Open \/ Store \/ StoreFails \/ Retry \/ Answer
InnerStep(t) == \E result \in {"done", "error", "cancelled"} : InnerEnds(t, result)
SyncStep(t) == \E result \in {"done", "error"} : Sync(t, result)
RunnerStep(t) == FirstStep(t) \/ Begin(t) \/ SyncStep(t) \/ Settle(t) \/ Save(t)
                 \/ Flush(t) \/ TaskDone(t)

Next ==
    \/ \E t \in Turns : \/ \E kind \in {"send", "retry"} : Request(t, kind)
                        \/ Cancel(t) \/ InnerStep(t) \/ RunnerStep(t)
    \/ LaneStep
    \/ Publish \/ ReportArrives \/ ReportEnds \/ Close \/ CloseService

Spec == Init /\ [][Next]_vars

\* The loop runs what is ready, and models and tools answer in the end.
Fairness == /\ WF_vars(LaneStep)
            /\ \A t \in Turns : WF_vars(InnerStep(t)) /\ WF_vars(RunnerStep(t))

FairSpec == Spec /\ Fairness

-----------------------------------------------------------------------------
(* Properties                                                              *)

TypeOK ==
    /\ turn \in [Turns -> [stage : Stages, task : {"none", "live", "done", "over"},
                           service : Services \cup {0},
                           message : Turns \cup {None}, previous : Turns \cup {None},
                           started : BOOLEAN, asked : BOOLEAN,
                           invalidated : BOOLEAN, cancelled : BOOLEAN,
                           snapshot : Turns \cup {Report, None},
                           result : {None, "done", "error"},
                           terminal : {None, "done", "error", "cancelled"}]]
    /\ \A t \in Turns : turn[t].stage = "new" \/ turn[t].message \in stored
    /\ inner \in [Turns -> {"none", "active", "stopping"}]
    /\ latest \in [Services -> Turns \cup {None}]
    /\ current \in Services
    /\ lane.pc \in {"free", "opening", "persisting", "cleanup"}
    /\ snapshots \subseteq Turns \cup {Report}
    /\ report \in {"none", "active", "cancelled", "ended"}
    /\ replies \in [Turns -> Nat]
    /\ stored \subseteq Turns /\ failed \subseteq stored
    /\ tail \in stored \cup {None}
    /\ closing \in BOOLEAN /\ closed \in Services \cup {0}

Earlier(t, u) == \E i \in 1..Len(accepted), j \in 1..Len(accepted) :
                    i < j /\ accepted[i] = t /\ accepted[j] = u

\* Every turn that was accepted is answered by one terminal event when it is
\* over, and by none before: whoever finishes it, the runner, the late finisher
\* of a task that never ran, or nobody else (chat_service.py:764).
OneTerminal ==
    \A t \in Turns : Cardinality({i \in 1..Len(published) : published[i] = t})
                     = IF turn[t].stage = "closed" THEN 1 ELSE 0

\* A session's turns work one after another, in the order they were accepted
\* and across generations: none starts before every earlier one has stored what
\* it leaves and released the session (chat_service.py:183, 712).
WorksAlone ==
    \A t, u \in Turns : Earlier(t, u) /\ turn[u].started => Completed(t)

\* A stored message has its turn: whatever ran between a send's two steps, it
\* never stores a row and then finds the session busy (chat_requests.py:230).
\* Only an effect that failed after the row, or the bridge's end, leaves one out.
StoredStarts == \A t \in stored \ failed : turn[t].stage # "new" \/ closing

\* However often a message is retried, cancelled and superseded, one reply of it
\* is stored (chat_service.py:350, chat_requests.py:109).
OneReply ==
    \A t, u \in Turns : /\ replies[t] <= 1
                        /\ turn[t].message = turn[u].message /\ turn[t].message # None
                           /\ t # u => replies[t] + replies[u] <= 1

\* What a cancel took of a turn's work is stored or dropped before the session
\* is released: no later message resumes an interruption that is over.
SnapshotsSettled ==
    \A w \in snapshots : \E t \in Turns : turn[t].snapshot = w /\ ~Completed(t)

\* Cancelling a queued turn stops no other: work is interrupted only for the
\* turn that is being cancelled, or because the bridge closes.
CancelSpares ==
    [][\A t \in Turns : inner[t] = "active" /\ inner'[t] = "stopping"
                        => lane'.turn = t \/ closing']_vars

\* "Interrupts exactly one active renderer chat turn when its identity
\* matches" (chat_service.py:203): a background report is not cancelled by it.
CancelExact == [][report = "active" => report' # "cancelled"]_vars

\* Every accepted turn is answered, and the cancel that awaits it returns
\* (chat_service.py:752, complete_despite_cancellation).
TurnsEnd == \A t \in Turns : turn[t].stage = "scheduled" ~> Ended(t)
=============================================================================
