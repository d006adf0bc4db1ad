-------------------------- MODULE DesktopTurnsProofs --------------------------
(***************************************************************************)
(* Proofs about DesktopTurns for every number of turns and generations.    *)
(*                                                                         *)
(* The argument: turns are accepted in one order, and each runner waits    *)
(* for one predecessor.  While the last accepted turn is not released, it  *)
(* is the latest one of its service and of the lane's (LastKnown), so what *)
(* starts next waits for it, and through it for all before (Chained): a    *)
(* turn works after every earlier one was released (Alone).  The other     *)
(* invariants rest on that order.  A step either starts the turn in the    *)
(* lane (Started) or is quiet: it only takes turns forward (Permitted).    *)
(***************************************************************************)
EXTENDS DesktopTurns, FiniteSetTheorems, WellFoundedInduction, TLAPS

\* The request in the lane.
LaneType ==
    lane \in [pc : {"free", "opening", "persisting", "cleanup"},
              request : {None, "send", "retry", "cancel"},
              turn : Turns \cup {None}, service : Services \cup {0}]

\* A turn's record: what its stage says of its task and of the agent loop's.
Record(t) ==
    LET r == turn[t] IN
    /\ r.stage = "new" => r = NewTurn /\ replies[t] = 0
    /\ r.stage = "running" <=> inner[t] # "none"
    /\ r.started => r.stage \notin {"new", "scheduled", "waiting", "closed"}
    /\ r.stage = "scheduled" => r.task = "live" \/ (r.task = "done" /\ closing)
    /\ r.stage = "closed" => r.task \in {"done", "over"}
    /\ r.stage \notin {"new", "scheduled", "closed"} =>
          r.task = "live" \/ (r.task = "over" /\ closing)

\* A lane that opens or stores a turn has a new one, and the bridge is open.
Intake == lane.pc \in {"opening", "persisting"}

IntakeOK ==
    Intake => /\ ~closing
              /\ lane.turn \in Turns \ stored /\ turn[lane.turn].stage = "new"
              /\ lane.service \in Services /\ lane.service <= current
              /\ lane.pc = "persisting" => MayStart(lane.service)

\* A lane that awaits a cancelled turn knows it.
CleanupOK == lane.pc = "cleanup" => lane.turn \in Turns /\ turn[lane.turn].stage # "new"

\* The turns that were accepted, and the last one of them.
Accepted == {accepted[i] : i \in 1..Len(accepted)}
Last == accepted[Len(accepted)]
AllCompleted == accepted = <<>> \/ Completed(Last)

\* Services only grow along the accepted turns.
Sorted ==
    /\ accepted \in Seq(Turns)
    /\ \A t \in Turns : turn[t].stage # "new" <=> t \in Accepted
    /\ \A t \in Accepted : /\ turn[t].service \in Services
                           /\ turn[t].service <= current
                           /\ Intake => turn[t].service <= lane.service
    /\ \A t, u \in Turns : Earlier(t, u) => turn[t].service <= turn[u].service

\* The last turn is in the table of its service, and of the lane's, until it
\* completes.
LastKnown ==
    ~closing /\ ~AllCompleted =>
        /\ latest[turn[Last].service] = Last
        /\ Intake => latest[lane.service] = Last

\* A turn's work, and its end, come after its predecessor's end.
Past(t) == turn[t].started \/ turn[t].stage \in {"saving", "flushing", "closed"}

\* The turn that was accepted just before a turn it has to wait for.
Chained ==
    \A t, u \in Turns : Earlier(t, u) /\ turn[u].stage # "closed" =>
        \/ Completed(t)
        \/ /\ turn[u].previous \in Turns
           /\ t = turn[u].previous \/ Earlier(t, turn[u].previous)

Alone == \A t, u \in Turns : Earlier(t, u) /\ Past(u) => Completed(t)

\* A snapshot is taken for the turn that the lane's cancel awaits.
SnapshotOK ==
    \A t \in Turns : turn[t].snapshot # None /\ ~Completed(t) =>
        lane.pc = "cleanup" /\ lane.turn = t

\* One turn of a message may still reply, and only if no other did.
Replies ==
    /\ \A t \in Turns : turn[t].stage \in {"scheduled", "waiting", "running"} => replies[t] = 0
    /\ tail # None => \A t \in Turns : turn[t].message = tail => replies[t] = 0
    /\ \A t, u \in Turns :
          t # u /\ turn[t].message = turn[u].message /\ turn[t].message # None =>
              /\ Completed(t) \/ Completed(u)
              /\ replies[t] > 0 => Completed(u)

IInv ==
    /\ TypeOK /\ LaneType
    /\ \A t \in Turns : Record(t)
    /\ IntakeOK /\ CleanupOK /\ Sorted /\ LastKnown /\ Chained /\ Alone
    /\ published \in Seq(Turns) /\ OneTerminal
    /\ StoredStarts /\ SnapshotOK /\ SnapshotsSettled
    /\ Replies /\ OneReply

-----------------------------------------------------------------------------
(* What an action writes into a turn's record                              *)

TurnRecord ==
    [stage : Stages, task : {"none", "live", "done", "over"},
     service : Services \cup {0},
     message : Turns \cup {None}, previous : Turns \cup {None},
     started : BOOLEAN, asked : BOOLEAN,
     invalidated : BOOLEAN, cancelled : BOOLEAN,
     snapshot : Turns \cup {Report, None},
     result : {None, "done", "error"},
     terminal : {None, "done", "error", "cancelled"}]

\* The parts of a record that few actions touch.
Fixed(r, q) == r.service = q.service /\ r.message = q.message /\ r.previous = q.previous
Marked(r, q) == r.started = q.started /\ r.invalidated = q.invalidated

\* The step leaves every turn but t alone.
Only(t) == \A u \in Turns \ {t} : turn'[u] = turn[u]

Typed == turn \in [Turns -> TurnRecord]

\* The type invariant speaks of every turn's record.
LEMMA IsTyped == TypeOK => Typed
BY DEF TypeOK, Typed, TurnRecord

\* One record is written: the others stay.
LEMMA Written ==
    ASSUME Typed, NEW t \in Turns, NEW r \in TurnRecord, turn' = [turn EXCEPT ![t] = r]
    PROVE  Typed' /\ turn'[t] = r /\ Only(t)
BY DEF Typed, Only

\* A turn that was not accepted has a record.
LEMMA NewTyped == NewTurn \in TurnRecord
BY TurnsAssumption DEF NewTurn, TurnRecord, Stages

\* Cancelling a task ends one that never ran, or claims the terminal event of
\* one that waits.
LEMMA CancelTaskRecord ==
    ASSUME NEW q \in TurnRecord
    PROVE  LET r == CancelTask(q) IN
           /\ r \in TurnRecord /\ Fixed(r, q) /\ Marked(r, q) /\ r.snapshot = q.snapshot
           /\ \/ q.stage = "scheduled" /\ r.stage = q.stage /\ r.task = "done"
              \/ q.stage \in {"waiting", "syncing"} /\ r.stage = "claimed" /\ r.task = q.task
              \/ r = q /\ q.stage \notin {"scheduled", "waiting", "syncing"}
BY DEF TurnRecord, Stages, CancelTask, Fixed, Marked

\* A message that supersedes the busy turn only marks it.
LEMMA SupersedeTurn ==
    ASSUME Typed, latest \in [Services -> Turns \cup {None}], NEW s \in Services,
           turn' = Supersede(s)
    PROVE  /\ Typed'
           /\ ~Busy(s) => turn' = turn
           /\ Busy(s) => LET t == latest[s] IN
                 /\ t \in Turns /\ Only(t) /\ Fixed(turn'[t], turn[t])
                 /\ turn'[t].stage = turn[t].stage /\ turn'[t].task = turn[t].task
                 /\ turn'[t].started = turn[t].started /\ turn'[t].invalidated
                 /\ turn'[t].snapshot = turn[t].snapshot
<1>1. CASE ~Busy(s)
  BY <1>1 DEF Supersede, Typed
<1>2. CASE Busy(s)
  <2>. DEFINE t == latest[s]
              r == [turn[t] EXCEPT !.invalidated = TRUE]
  <2>1. t \in Turns /\ turn[t] \in TurnRecord
    BY <1>2 DEF Busy, Typed
  <2>2. turn' = [turn EXCEPT ![t] = r]
    BY <1>2, <2>1 DEF Supersede, Typed
  <2>3. /\ r \in TurnRecord /\ Fixed(r, turn[t]) /\ r.stage = turn[t].stage
        /\ r.task = turn[t].task /\ r.started = turn[t].started /\ r.invalidated
        /\ r.snapshot = turn[t].snapshot
    BY <2>1 DEF TurnRecord, Fixed
  <2>. HIDE DEF r
  <2>. QED BY <1>2, <2>1, <2>2, <2>3, Written
<1>. QED BY <1>1, <1>2

\* A turn starts with a new record and becomes its service's latest.
LEMMA StartTurn ==
    ASSUME Typed, latest \in [Services -> Turns \cup {None}],
           NEW t \in Turns, NEW s \in Services, NEW m \in Turns, Start(t, s, m)
    PROVE  /\ Typed' /\ Only(t)
           /\ turn'[t].stage = "scheduled" /\ turn'[t].task = "live"
           /\ turn'[t].service = s /\ turn'[t].message = m
           /\ turn'[t].previous = latest[s]
           /\ ~turn'[t].started /\ turn'[t].snapshot = None
           /\ latest' = [latest EXCEPT ![s] = t]
           /\ accepted' = Append(accepted, t)
<1>. DEFINE p == latest[s]
            r == [NewTurn EXCEPT !.stage = "scheduled", !.task = "live",
                    !.service = s, !.message = m, !.previous = p]
<1>1. p \in Turns \cup {None}
  OBVIOUS
<1>2. turn' = [turn EXCEPT ![t] = r]
  BY DEF Start
<1>. HIDE DEF p
<1>3. /\ r \in TurnRecord /\ r.stage = "scheduled" /\ r.task = "live" /\ r.service = s
      /\ r.message = m /\ r.previous = p /\ ~r.started /\ r.snapshot = None
  BY <1>1, TurnsAssumption DEF NewTurn, TurnRecord, Stages
<1>. HIDE DEF r
<1>. QED BY <1>2, <1>3, Written DEF Start, p

\* The cancel of a turn only marks it, interrupts the work w for it, or does
\* nothing.
LEMMA CancelTurn ==
    ASSUME Typed, inner \in [Turns -> {"none", "active", "stopping"}],
           NEW t \in Turns, Record(t), Cancel(t)
    PROVE  /\ Typed' /\ Only(t)
           /\ Fixed(turn'[t], turn[t]) /\ Marked(turn'[t], turn[t])
           /\ turn'[t].task = turn[t].task
           /\ \/ turn'[t].stage = turn[t].stage
              \/ turn[t].stage = "syncing" /\ turn'[t].stage = "claimed"
           /\ \/ turn'[t].snapshot = turn[t].snapshot /\ snapshots' = snapshots
              \/ \E w \in Turns \cup {Report} :
                    /\ ~Completed(t)
                    /\ turn'[t].snapshot = w /\ snapshots' = snapshots \cup {w}
           /\ \A u \in Turns : inner'[u] = inner[u]
                               \/ (u = t /\ inner[t] # "none" /\ inner'[t] = "stopping")
<1>. DEFINE q == turn[t]
<1>1. q \in TurnRecord
  BY DEF Typed
<1>2. CASE turn' = turn /\ snapshots' = snapshots /\ inner' = inner
  BY <1>2 DEF Typed, Only, Fixed, Marked
<1>3. CASE /\ turn' = [turn EXCEPT ![t].asked = TRUE]
           /\ snapshots' = snapshots /\ inner' = inner
  <2>. DEFINE r == [q EXCEPT !.asked = TRUE]
  <2>1. turn' = [turn EXCEPT ![t] = r]
    BY <1>3 DEF Typed
  <2>. HIDE DEF q
  <2>2. /\ r \in TurnRecord /\ Fixed(r, q) /\ Marked(r, q) /\ r.stage = q.stage
        /\ r.task = q.task /\ r.snapshot = q.snapshot
    BY <1>1 DEF TurnRecord, Fixed, Marked
  <2>. HIDE DEF r
  <2>. QED BY <1>3, <2>1, <2>2, Written DEF q
<1>4. ASSUME NEW w \in {t, Report}, Interrupt(t, w), q.started, w = t => inner[t] # "none"
      PROVE  /\ Typed' /\ Only(t)
             /\ Fixed(turn'[t], q) /\ Marked(turn'[t], q) /\ turn'[t].task = q.task
             /\ \/ turn'[t].stage = q.stage
                \/ q.stage = "syncing" /\ turn'[t].stage = "claimed"
             /\ \/ turn'[t].snapshot = q.snapshot /\ snapshots' = snapshots
                \/ /\ ~Completed(t)
                   /\ turn'[t].snapshot = w /\ snapshots' = snapshots \cup {w}
             /\ \A u \in Turns : inner'[u] = inner[u]
                                 \/ (u = t /\ inner[t] # "none" /\ inner'[t] = "stopping")
  <2>1. \A u \in Turns : inner'[u] = inner[u]
                         \/ (u = t /\ inner[t] # "none" /\ inner'[t] = "stopping")
    BY <1>4, TurnsAssumption DEF Interrupt, Turns
  <2>2. CASE Finished(t)
    BY <1>4, <2>1, <2>2 DEF Interrupt, Typed, Only, Fixed, Marked
  <2>3. CASE ~Finished(t)
    <3>. DEFINE f == CancelTask(q)
                r == [f EXCEPT !.snapshot = w]
    <3>1. turn' = [turn EXCEPT ![t] = r] /\ snapshots' = snapshots \cup {w}
      BY <1>4, <2>3 DEF Interrupt, Typed
    <3>2. q.stage \notin {"scheduled", "waiting"} /\ ~Completed(t)
      BY <1>4, <2>3 DEF Record, Finished, Completed
    <3>. HIDE DEF q
    <3>3. /\ f \in TurnRecord /\ Fixed(f, q) /\ Marked(f, q) /\ f.task = q.task
          /\ f.stage = q.stage \/ (q.stage = "syncing" /\ f.stage = "claimed")
      BY <1>1, <3>2, CancelTaskRecord
    <3>. HIDE DEF f
    <3>4. /\ r \in TurnRecord /\ Fixed(r, f) /\ Marked(r, f) /\ r.task = f.task
          /\ r.stage = f.stage /\ r.snapshot = w
      BY <3>3 DEF TurnRecord, Fixed, Marked
    <3>5. /\ Fixed(r, q) /\ Marked(r, q) /\ r.task = q.task
          /\ r.stage = q.stage \/ (q.stage = "syncing" /\ r.stage = "claimed")
      BY <3>3, <3>4 DEF Fixed, Marked
    <3>. HIDE DEF r
    <3>. QED BY <2>1, <3>1, <3>2, <3>4, <3>5, Written DEF q
  <2>. QED BY <2>2, <2>3
<1>5. \/ turn' = turn /\ snapshots' = snapshots /\ inner' = inner
      \/ /\ turn' = [turn EXCEPT ![t].asked = TRUE]
         /\ snapshots' = snapshots /\ inner' = inner
      \/ q.started /\ \E w \in {t, Report} : Interrupt(t, w) /\ (w = t => inner[t] # "none")
  <2>1. t # Report /\ q.started \in BOOLEAN
    BY <1>1, TurnsAssumption DEF Turns, TurnRecord
  <2>2. PrepareCancel(t)
    BY DEF Cancel
  <2>3. CASE ~q.started
    BY <2>2, <2>3 DEF PrepareCancel
  <2>4. CASE q.started /\ inner[t] # "none"
    BY <2>2, <2>4 DEF PrepareCancel
  <2>5. CASE q.started /\ inner[t] = "none" /\ report = "active"
    BY <2>1, <2>2, <2>5 DEF PrepareCancel
  <2>6. CASE q.started /\ inner[t] = "none" /\ report # "active"
    BY <2>2, <2>6 DEF PrepareCancel
  <2>. QED BY <2>1, <2>3, <2>4, <2>5, <2>6
<1>. QED BY <1>2, <1>3, <1>4, <1>5

\* The agent loop's task ends: the turn synchronises, or claims its terminal
\* event as cancelled.
LEMMA InnerTurn ==
    ASSUME Typed, NEW t \in Turns, NEW result \in {"done", "error", "cancelled"},
           InnerEnds(t, result), turn[t].stage = "running"
    PROVE  /\ Typed' /\ Only(t)
           /\ Fixed(turn'[t], turn[t]) /\ Marked(turn'[t], turn[t])
           /\ turn'[t].stage \in {"syncing", "claimed"}
           /\ turn'[t].task = turn[t].task /\ turn'[t].snapshot = turn[t].snapshot
<1>. DEFINE q == turn[t]
            r == IF result = "cancelled"
                 THEN [q EXCEPT !.stage = "claimed", !.cancelled = TRUE]
                 ELSE [q EXCEPT !.stage = "syncing", !.result = result]
<1>1. q \in TurnRecord
  BY DEF Typed
<1>2. turn' = [turn EXCEPT ![t] = r]
  BY DEF InnerEnds
<1>. HIDE DEF q
<1>3. /\ r \in TurnRecord /\ Fixed(r, q) /\ Marked(r, q) /\ r.stage \in {"syncing", "claimed"}
      /\ r.task = q.task /\ r.snapshot = q.snapshot
  BY <1>1 DEF TurnRecord, Stages, Fixed, Marked
<1>. HIDE DEF r
<1>. QED BY <1>2, <1>3, Written DEF q

\* A runner's first step makes its turn wait.
LEMMA FirstStepTurn ==
    ASSUME Typed, NEW t \in Turns, FirstStep(t)
    PROVE  /\ Typed' /\ Only(t)
           /\ Fixed(turn'[t], turn[t]) /\ Marked(turn'[t], turn[t])
           /\ turn'[t].stage = "waiting"
           /\ turn'[t].task = turn[t].task /\ turn'[t].snapshot = turn[t].snapshot
<1>. DEFINE q == turn[t]
            r == [q EXCEPT !.stage = "waiting"]
<1>1. q \in TurnRecord
  BY DEF Typed
<1>2. turn' = [turn EXCEPT ![t] = r]
  BY DEF FirstStep, Typed
<1>. HIDE DEF q
<1>3. /\ r \in TurnRecord /\ Fixed(r, q) /\ Marked(r, q) /\ r.stage = "waiting"
      /\ r.task = q.task /\ r.snapshot = q.snapshot
  BY <1>1 DEF TurnRecord, Stages, Fixed, Marked
<1>. HIDE DEF r
<1>. QED BY <1>2, <1>3, Written DEF q

\* A turn begins to work, or claims its terminal event as it was cancelled.
LEMMA BeginTurn ==
    ASSUME Typed, NEW t \in Turns, Begin(t)
    PROVE  /\ Typed' /\ Only(t)
           /\ Fixed(turn'[t], turn[t]) /\ turn'[t].invalidated = turn[t].invalidated
           /\ turn'[t].task = turn[t].task /\ turn'[t].snapshot = turn[t].snapshot
           /\ \/ /\ turn'[t].stage = "claimed" /\ turn'[t].started = turn[t].started
                 /\ inner' = inner
              \/ /\ turn'[t].stage = "running" /\ turn'[t].started
                 /\ inner' = [inner EXCEPT ![t] = "active"]
<1>. DEFINE q == turn[t]
            r == IF q.asked THEN [q EXCEPT !.stage = "claimed", !.cancelled = TRUE]
                 ELSE [q EXCEPT !.stage = "running", !.started = TRUE]
<1>1. q \in TurnRecord
  BY DEF Typed
<1>2. turn' = [turn EXCEPT ![t] = r]
  BY DEF Begin, Typed
<1>3. \/ q.asked /\ inner' = inner
      \/ ~q.asked /\ inner' = [inner EXCEPT ![t] = "active"]
  BY DEF Begin
<1>. HIDE DEF q
<1>4. /\ r \in TurnRecord /\ Fixed(r, q) /\ r.invalidated = q.invalidated
      /\ r.task = q.task /\ r.snapshot = q.snapshot
      /\ q.asked => r.stage = "claimed" /\ r.started = q.started
      /\ ~q.asked => r.stage = "running" /\ r.started
  BY <1>1 DEF TurnRecord, Stages, Fixed
<1>. HIDE DEF r
<1>5. Typed' /\ turn'[t] = r /\ Only(t)
  BY <1>2, <1>4, Written
<1>. QED BY <1>3, <1>4, <1>5 DEF q

\* The session's update ends: the turn claims its terminal event.
LEMMA SyncTurn ==
    ASSUME Typed, NEW t \in Turns, NEW result \in {"done", "error"}, Sync(t, result)
    PROVE  /\ Typed' /\ Only(t)
           /\ Fixed(turn'[t], turn[t]) /\ Marked(turn'[t], turn[t])
           /\ turn'[t].stage = "claimed"
           /\ turn'[t].task = turn[t].task /\ turn'[t].snapshot = turn[t].snapshot
<1>. DEFINE q == turn[t]
            r == [q EXCEPT !.stage = "claimed", !.terminal = result]
<1>1. q \in TurnRecord
  BY DEF Typed
<1>2. turn' = [turn EXCEPT ![t] = r]
  BY DEF Sync, Typed
<1>. HIDE DEF q
<1>3. /\ r \in TurnRecord /\ Fixed(r, q) /\ Marked(r, q) /\ r.stage = "claimed"
      /\ r.task = q.task /\ r.snapshot = q.snapshot
  BY <1>1 DEF TurnRecord, Stages, Fixed, Marked
<1>. HIDE DEF r
<1>. QED BY <1>2, <1>3, Written DEF q

\* A turn is released once its snapshot is discarded, or goes on to save it.
LEMMA SettleTurn ==
    ASSUME Typed, NEW t \in Turns, Settle(t)
    PROVE  /\ Typed' /\ Only(t)
           /\ Fixed(turn'[t], turn[t]) /\ Marked(turn'[t], turn[t])
           /\ turn'[t].task = turn[t].task /\ turn'[t].snapshot = turn[t].snapshot
           /\ \/ turn'[t].stage = "saving" /\ snapshots' = snapshots
              \/ /\ turn'[t].stage = "flushing" /\ turn[t].snapshot = None
                 /\ snapshots' = snapshots
              \/ turn'[t].stage = "flushing" /\ snapshots' = snapshots \ {turn[t].snapshot}
<1>. DEFINE q == turn[t]
            r == IF q.cancelled /\ q.terminal = None
                 THEN IF q.snapshot # None THEN [q EXCEPT !.stage = "saving"]
                      ELSE [q EXCEPT !.stage = "flushing", !.terminal = "cancelled"]
                 ELSE [q EXCEPT !.stage = "flushing"]
<1>1. q \in TurnRecord
  BY DEF Typed
<1>2. turn' = [turn EXCEPT ![t] = r]
  BY DEF Settle, Typed
<1>3. \/ q.cancelled /\ q.terminal = None /\ snapshots' = snapshots
      \/ ~(q.cancelled /\ q.terminal = None) /\ snapshots' = snapshots \ {q.snapshot}
  BY DEF Settle, DiscardSnapshot
<1>. HIDE DEF q
<1>4. /\ r \in TurnRecord /\ Fixed(r, q) /\ Marked(r, q)
      /\ r.task = q.task /\ r.snapshot = q.snapshot
      /\ q.cancelled /\ q.terminal = None =>
            r.stage = "saving" \/ (r.stage = "flushing" /\ q.snapshot = None)
      /\ ~(q.cancelled /\ q.terminal = None) => r.stage = "flushing"
  BY <1>1 DEF TurnRecord, Stages, Fixed, Marked
<1>. HIDE DEF r
<1>5. Typed' /\ turn'[t] = r /\ Only(t)
  BY <1>2, <1>4, Written
<1>. QED BY <1>3, <1>4, <1>5 DEF q

\* A turn whose interrupted reply was saved is released.
LEMMA SaveTurn ==
    ASSUME Typed, NEW t \in Turns, Save(t)
    PROVE  /\ Typed' /\ Only(t)
           /\ Fixed(turn'[t], turn[t]) /\ Marked(turn'[t], turn[t])
           /\ turn'[t].stage = "flushing"
           /\ turn'[t].task = turn[t].task /\ turn'[t].snapshot = turn[t].snapshot
<1>. DEFINE q == turn[t]
            r == [q EXCEPT !.stage = "flushing", !.terminal = "cancelled"]
<1>1. q \in TurnRecord
  BY DEF Typed
<1>2. turn' = [turn EXCEPT ![t] = r]
  BY DEF Save, Typed
<1>. HIDE DEF q
<1>3. /\ r \in TurnRecord /\ Fixed(r, q) /\ Marked(r, q) /\ r.stage = "flushing"
      /\ r.task = q.task /\ r.snapshot = q.snapshot
  BY <1>1 DEF TurnRecord, Stages, Fixed, Marked
<1>. HIDE DEF r
<1>. QED BY <1>2, <1>3, Written DEF q

\* A turn is closed: its service and its message stay known.
LEMMA FlushTurn ==
    ASSUME Typed, NEW t \in Turns, Flush(t)
    PROVE  /\ Typed' /\ Only(t)
           /\ turn'[t].service = turn[t].service /\ turn'[t].message = turn[t].message
           /\ turn'[t].stage = "closed" /\ ~turn'[t].started /\ turn'[t].snapshot = None
           /\ turn'[t].task = IF turn[t].task = "live" THEN "done" ELSE turn[t].task
<1>. DEFINE q == turn[t]
            k == IF q.task = "live" THEN "done" ELSE q.task
            r == [NewTurn EXCEPT !.stage = "closed", !.task = k,
                    !.service = q.service, !.message = q.message]
<1>1. q \in TurnRecord
  BY DEF Typed
<1>2. turn' = [turn EXCEPT ![t] = r]
  BY DEF Flush
<1>. HIDE DEF q
<1>3. /\ k \in {"none", "live", "done", "over"}
      /\ q.service \in Services \cup {0} /\ q.message \in Turns \cup {None}
  BY <1>1 DEF TurnRecord
<1>. HIDE DEF k
<1>4. /\ r \in TurnRecord /\ r.service = q.service /\ r.message = q.message
      /\ r.stage = "closed" /\ ~r.started /\ r.task = k /\ r.snapshot = None
  BY <1>3, TurnsAssumption DEF TurnRecord, Stages, NewTurn
<1>. HIDE DEF r
<1>. QED BY <1>2, <1>4, Written DEF q, k

\* The follow-up of a task finishes a turn that never ran.
LEMMA DoneTurn ==
    ASSUME Typed, NEW t \in Turns, TaskDone(t)
    PROVE  /\ Typed' /\ Only(t)
           /\ Fixed(turn'[t], turn[t]) /\ Marked(turn'[t], turn[t])
           /\ turn'[t].task = "over" /\ turn'[t].snapshot = turn[t].snapshot
           /\ \/ turn[t].stage = "scheduled" /\ turn'[t].stage = "claimed"
              \/ turn[t].stage # "scheduled" /\ turn'[t].stage = turn[t].stage
<1>. DEFINE q == turn[t]
            f == FinishLate(q)
            r == [f EXCEPT !.task = "over"]
<1>1. q \in TurnRecord
  BY DEF Typed
<1>2. turn' = [turn EXCEPT ![t] = r]
  BY DEF TaskDone, Typed
<1>. HIDE DEF q
<1>3. /\ f \in TurnRecord /\ Fixed(f, q) /\ Marked(f, q) /\ f.snapshot = q.snapshot
      /\ \/ q.stage = "scheduled" /\ f.stage = "claimed"
         \/ q.stage # "scheduled" /\ f.stage = q.stage
  <2>1. CASE q.stage = "scheduled"
    <3>1. f = [q EXCEPT !.stage = "claimed", !.cancelled = TRUE]
      BY <2>1 DEF FinishLate
    <3>. QED BY <1>1, <2>1, <3>1 DEF TurnRecord, Stages, Fixed, Marked
  <2>2. CASE q.stage # "scheduled"
    BY <1>1, <2>2 DEF Fixed, Marked, FinishLate
  <2>. QED BY <2>1, <2>2
<1>. HIDE DEF f
<1>4. /\ r \in TurnRecord /\ Fixed(r, f) /\ Marked(r, f) /\ r.snapshot = f.snapshot
      /\ r.task = "over" /\ r.stage = f.stage
  BY <1>3 DEF TurnRecord, Fixed, Marked
<1>5. /\ Fixed(r, q) /\ Marked(r, q) /\ r.snapshot = q.snapshot
      /\ \/ q.stage = "scheduled" /\ r.stage = "claimed"
         \/ q.stage # "scheduled" /\ r.stage = q.stage
  BY <1>3, <1>4 DEF Fixed, Marked
<1>. HIDE DEF r
<1>. QED BY <1>2, <1>4, <1>5, Written DEF q

-----------------------------------------------------------------------------
(* Steps that accept no turn                                               *)

\* What any step may do to a record, except to start its turn; "free" says
\* that the turn's predecessor ended.
Permitted(q, r, free) ==
    /\ r.service = q.service /\ r.message = q.message
    /\ q.stage = "new" <=> r.stage = "new"
    /\ q.stage = "new" => r = q
    /\ q.stage = "closed" => r.stage = "closed"
    /\ q.stage \in {"flushing", "closed"} => r.stage \in {"flushing", "closed"}
    /\ r.stage # "closed" => r.previous = q.previous
    /\ r.started \/ r.stage \in {"saving", "flushing", "closed"} =>
          \/ q.started \/ q.stage \in {"saving", "flushing", "closed"}
          \/ free /\ q.stage \notin {"new", "closed"}
    /\ r.task = "live" => q.task = "live"
    /\ q.invalidated => r.invalidated \/ r.stage = "closed"
    /\ r.stage \in {"scheduled", "waiting", "running"} =>
          q.stage \in {"scheduled", "waiting", "running"}

Quiet ==
    /\ Typed'
    /\ accepted' = accepted
    /\ \A u \in Turns : Permitted(turn[u], turn'[u], PreviousEnded(u)) /\ Record(u)'

\* Whatever only keeps turns, the agent loop's tasks and the replies is quiet.
LEMMA QuietSame ==
    ASSUME Typed, \A u \in Turns : Record(u),
           UNCHANGED <<turn, inner, replies, accepted>>, closing => closing'
    PROVE  Quiet
<1>. SUFFICES ASSUME NEW u \in Turns
              PROVE  Permitted(turn[u], turn[u], PreviousEnded(u)) /\ Record(u)'
  BY DEF Quiet, Typed
<1>1. turn[u] \in TurnRecord /\ Record(u)
  BY DEF Typed
<1>. QED BY <1>1 DEF Permitted, Record, NewTurn

\* One turn moves.
LEMMA QuietOne ==
    ASSUME Typed, NEW t \in Turns, Typed', Only(t), accepted' = accepted,
           \A u \in Turns : Record(u),
           Permitted(turn[t], turn'[t], PreviousEnded(t)), Record(t)',
           closing => closing',
           \A u \in Turns \ {t} : (inner'[u] = "none" <=> inner[u] = "none") /\ replies'[u] = replies[u]
    PROVE  Quiet
<1>. SUFFICES ASSUME NEW u \in Turns \ {t}
              PROVE  Permitted(turn[u], turn'[u], PreviousEnded(u)) /\ Record(u)'
  BY DEF Quiet
<1>1. turn'[u] = turn[u] /\ turn[u] \in TurnRecord /\ Record(u)
  BY DEF Only, Typed
<1>. QED BY <1>1 DEF Permitted, Record, NewTurn

\* What a turn's runner, its agent task and its cancel do is quiet.
LEMMA QuietTurnSteps ==
    ASSUME IInv, NEW t \in Turns, InnerStep(t) \/ RunnerStep(t) \/ Cancel(t)
    PROVE  Quiet
<1>. USE IsTyped DEF IInv, Turns
<1>1. Typed /\ turn[t] \in TurnRecord /\ Record(t) /\ inner \in [Turns -> {"none", "active", "stopping"}]
      /\ replies \in [Turns -> Nat]
  BY DEF Typed, TypeOK
<1>2. CASE Cancel(t)
  <2>1. inner \in [Turns -> {"none", "active", "stopping"}] /\ UNCHANGED <<accepted, replies, closing>>
    BY <1>1, <1>2 DEF Cancel, history
  <2>3. turn[t].task = "live" /\ turn[t].stage \notin {"new", "closed"}
    BY <1>1, <1>2 DEF Cancel, Owners, Owns, Busy, Record, NewTurn
  <2>4. /\ Fixed(turn'[t], turn[t]) /\ Marked(turn'[t], turn[t])
        /\ turn'[t].task = turn[t].task
        /\ turn'[t].stage = turn[t].stage \/ (turn[t].stage = "syncing" /\ turn'[t].stage = "claimed")
    BY <1>1, <1>2, CancelTurn
  <2>5. inner'[t] = "none" <=> inner[t] = "none"
    BY <1>1, <1>2, CancelTurn
  <2>2. Permitted(turn[t], turn'[t], PreviousEnded(t)) /\ Record(t)'
    BY <1>1, <2>1, <2>3, <2>4, <2>5 DEF Permitted, Record, Fixed, Marked
  <2>. QED BY <1>1, <1>2, <2>1, <2>2, CancelTurn, QuietOne
<1>3. CASE InnerStep(t)
  <2>1. PICK result \in {"done", "error", "cancelled"} : InnerEnds(t, result)
    BY <1>3 DEF InnerStep
  <2>2. turn[t].stage = "running"
    BY <1>1, <2>1 DEF InnerEnds, Record
  <2>3. /\ inner' = [inner EXCEPT ![t] = "none"] /\ UNCHANGED <<accepted, closing>>
        /\ \A u \in Turns \ {t} : replies'[u] = replies[u]
    BY <1>1, <2>1 DEF InnerEnds, AddReply
  <2>4. Permitted(turn[t], turn'[t], PreviousEnded(t)) /\ Record(t)'
    BY <1>1, <2>1, <2>2, <2>3, InnerTurn DEF Permitted, Record, Fixed, Marked
  <2>. QED BY <1>1, <2>1, <2>2, <2>3, <2>4, InnerTurn, QuietOne
<1>4. CASE FirstStep(t)
  <2>1. turn[t].stage = "scheduled" /\ turn[t].task = "live" /\ UNCHANGED <<inner, accepted, replies, closing>>
    BY <1>4 DEF FirstStep, history
  <2>2. Permitted(turn[t], turn'[t], PreviousEnded(t)) /\ Record(t)'
    BY <1>1, <1>4, <2>1, FirstStepTurn DEF Permitted, Record, Fixed, Marked
  <2>. QED BY <1>1, <1>4, <2>1, <2>2, FirstStepTurn, QuietOne
<1>5. CASE Begin(t)
  <2>1. turn[t].stage = "waiting" /\ PreviousEnded(t) /\ UNCHANGED <<accepted, replies, closing>>
    BY <1>5 DEF Begin, history
  <2>2. Permitted(turn[t], turn'[t], PreviousEnded(t)) /\ Record(t)'
    BY <1>1, <1>5, <2>1, BeginTurn DEF Permitted, Record, Fixed
  <2>. QED BY <1>1, <1>5, <2>1, <2>2, BeginTurn, QuietOne
<1>6. CASE SyncStep(t)
  <2>1. PICK result \in {"done", "error"} : Sync(t, result)
    BY <1>6 DEF SyncStep
  <2>2. turn[t].stage = "syncing" /\ UNCHANGED <<inner, accepted, replies, closing>>
    BY <2>1 DEF Sync, history
  <2>3. Permitted(turn[t], turn'[t], PreviousEnded(t)) /\ Record(t)'
    BY <1>1, <2>1, <2>2, SyncTurn DEF Permitted, Record, Fixed, Marked
  <2>. QED BY <1>1, <2>1, <2>2, <2>3, SyncTurn, QuietOne
<1>7. CASE Settle(t)
  <2>1. turn[t].stage = "claimed" /\ PreviousEnded(t) /\ UNCHANGED <<inner, accepted, replies, closing>>
    BY <1>7 DEF Settle, history
  <2>2. Permitted(turn[t], turn'[t], PreviousEnded(t)) /\ Record(t)'
    BY <1>1, <1>7, <2>1, SettleTurn DEF Permitted, Record, Fixed, Marked
  <2>. QED BY <1>1, <1>7, <2>1, <2>2, SettleTurn, QuietOne
<1>8. CASE Save(t)
  <2>1. /\ turn[t].stage = "saving" /\ UNCHANGED <<inner, accepted, closing>>
        /\ \A u \in Turns \ {t} : replies'[u] = replies[u]
    BY <1>1, <1>8 DEF Save, AddReply
  <2>2. Permitted(turn[t], turn'[t], PreviousEnded(t)) /\ Record(t)'
    BY <1>1, <1>8, <2>1, SaveTurn DEF Permitted, Record, Fixed, Marked
  <2>. QED BY <1>1, <1>8, <2>1, <2>2, SaveTurn, QuietOne
<1>9. CASE Flush(t)
  <2>1. turn[t].stage = "flushing" /\ UNCHANGED <<inner, accepted, replies, closing>>
    BY <1>9 DEF Flush, history
  <2>2. Permitted(turn[t], turn'[t], PreviousEnded(t)) /\ Record(t)'
    BY <1>1, <1>9, <2>1, FlushTurn DEF Permitted, Record
  <2>. QED BY <1>1, <1>9, <2>1, <2>2, FlushTurn, QuietOne
<1>10. CASE TaskDone(t)
  <2>1. turn[t].task = "done" /\ UNCHANGED <<inner, accepted, replies, closing>>
    BY <1>10 DEF TaskDone, history
  <2>2. turn[t].stage \in {"scheduled", "closed"} /\ (turn[t].stage = "scheduled" => closing)
    BY <1>1, <2>1 DEF Record, TurnRecord, Stages, NewTurn
  <2>3. Permitted(turn[t], turn'[t], PreviousEnded(t)) /\ Record(t)'
    BY <1>1, <1>10, <2>1, <2>2, DoneTurn DEF Permitted, Record, Fixed, Marked
  <2>. QED BY <1>1, <1>10, <2>1, <2>3, DoneTurn, QuietOne
<1>. QED BY <1>2, <1>3, <1>4, <1>5, <1>6, <1>7, <1>8, <1>9, <1>10 DEF RunnerStep

\* The bridge closes: some runners are cancelled, and their agent tasks.
LEMMA QuietClosing ==
    ASSUME IInv, Close \/ CloseService
    PROVE  Quiet
<1>. USE IsTyped DEF IInv
<1>1. Typed /\ \A u \in Turns : turn[u] \in TurnRecord /\ Record(u)
  BY DEF Typed
<1>2. /\ inner \in [Turns -> {"none", "active", "stopping"}] /\ UNCHANGED <<accepted, replies>>
      /\ closing'
  BY DEF TypeOK, Close, CloseService, history
\* What becomes of one turn's record and its agent task.
<1>3. ASSUME NEW u \in Turns, turn[u].stage # "new",
             \/ turn'[u] = CancelTask(turn[u])
             \/ turn'[u] = [turn[u] EXCEPT !.asked = TRUE],
             inner'[u] = "none" <=> inner[u] = "none"
      PROVE  turn'[u] \in TurnRecord /\ Permitted(turn[u], turn'[u], PreviousEnded(u)) /\ Record(u)'
  <2>. DEFINE q == turn[u]
              r == turn'[u]
  <2>1. q \in TurnRecord /\ q.stage # "new"
    BY <1>1, <1>3
  <2>2. /\ r \in TurnRecord /\ Fixed(r, q) /\ Marked(r, q)
        /\ \/ q.stage = "scheduled" /\ r.stage = q.stage /\ r.task = "done"
           \/ q.stage \in {"waiting", "syncing"} /\ r.stage = "claimed" /\ r.task = q.task
           \/ r.stage = q.stage /\ r.task = q.task
    <3>1. CASE r = CancelTask(q)
      BY <2>1, <3>1, CancelTaskRecord
    <3>2. CASE r = [q EXCEPT !.asked = TRUE]
      <4>. HIDE DEF q, r
      <4>. QED BY <2>1, <3>2 DEF TurnRecord, Fixed, Marked
    <3>. QED BY <1>3, <3>1, <3>2
  <2>. HIDE DEF q, r
  <2>3. q.stage \in Stages
    BY <2>1 DEF TurnRecord
  <2>4. Permitted(q, r, PreviousEnded(u))
    BY <2>1, <2>2, <2>3 DEF Permitted, Fixed, Marked
  <2>5. Record(u)
    BY <1>1
  <2>6. /\ r.stage = "running" <=> inner'[u] # "none"
        /\ r.started => r.stage \notin {"new", "scheduled", "waiting", "closed"}
    BY <1>3, <2>1, <2>2, <2>5 DEF Record, Fixed, Marked, q
  <2>7. /\ r.stage # "new"
        /\ r.stage = "scheduled" => r.task \in {"live", "done"}
        /\ r.stage = "closed" => r.task \in {"done", "over"}
        /\ r.stage \notin {"new", "scheduled", "closed"} => r.task \in {"live", "over"}
    BY <2>1, <2>2, <2>5 DEF Record, q
  <2>. QED BY <1>2, <2>2, <2>4, <2>6, <2>7 DEF Record, q, r
<1>4. CASE Close
  <2>1. CASE lane.pc = "cleanup"
    <3>1. PICK t \in Turns : t = lane.turn /\ turn[t].stage # "new"
      BY <2>1 DEF CleanupOK
    <3>2. turn' = [turn EXCEPT ![t] = CancelTask(turn[t])] /\ inner' = [inner EXCEPT ![t] = CancelInner(t)]
      BY <1>4, <2>1, <3>1 DEF Close
    <3>3. CancelTask(turn[t]) \in TurnRecord
      BY <1>1, <3>1, CancelTaskRecord
    <3>4. Typed' /\ turn'[t] = CancelTask(turn[t]) /\ Only(t)
      BY <1>1, <3>1, <3>2, <3>3, Written
    <3>5. \A u \in Turns : inner'[u] = "none" <=> inner[u] = "none"
      BY <1>2, <3>1, <3>2 DEF CancelInner
    <3>6. Permitted(turn[t], turn'[t], PreviousEnded(t)) /\ Record(t)'
      BY <1>3, <3>1, <3>4, <3>5
    <3>7. \A u \in Turns \ {t} : (inner'[u] = "none" <=> inner[u] = "none") /\ replies'[u] = replies[u]
      BY <1>2, <3>5
    <3>. QED BY <1>1, <1>2, <3>1, <3>4, <3>6, <3>7, QuietOne
  <2>2. CASE lane.pc # "cleanup"
    BY <1>1, <1>2, <1>4, <2>2, QuietSame DEF Close
  <2>. QED BY <2>1, <2>2
<1>5. CASE CloseService
  <2>. DEFINE own == {t \in Turns : turn[t].service = closed + 1 /\ turn[t].task = "live"}
  <2>1. /\ turn' = [t \in Turns |-> IF t \in own THEN CloseTurn(t) ELSE turn[t]]
        /\ inner' = [t \in Turns |-> IF t \in own THEN CancelInner(t) ELSE inner[t]]
        /\ closing
    BY <1>5 DEF CloseService
  <2>2. \A t \in own : turn[t].stage # "new"
    BY DEF Record, NewTurn
  <2>. HIDE DEF own
  <2>3. \A u \in Turns : inner'[u] = "none" <=> inner[u] = "none"
    BY <1>2, <2>1 DEF CancelInner
  <2>4. ASSUME NEW u \in Turns
        PROVE  turn'[u] \in TurnRecord /\ Permitted(turn[u], turn'[u], PreviousEnded(u)) /\ Record(u)'
    <3>1. CASE u \in own
      <4>1. turn'[u] = CancelTask(turn[u]) \/ turn'[u] = [turn[u] EXCEPT !.asked = TRUE]
        BY <2>1, <3>1 DEF CloseTurn
      <4>. QED BY <1>3, <2>2, <2>3, <3>1, <4>1
    <3>2. CASE u \notin own
      <4>1. turn'[u] = turn[u] /\ turn[u] \in TurnRecord /\ Record(u)
        BY <1>1, <2>1, <3>2
      <4>. QED BY <1>2, <2>1, <2>3, <4>1 DEF Permitted, Record, NewTurn
    <3>. QED BY <3>1, <3>2
  <2>5. turn' \in [Turns -> TurnRecord]
    BY <2>1, <2>4
  <2>. QED BY <1>2, <2>4, <2>5 DEF Quiet, Typed
<1>. QED BY <1>4, <1>5

\* A superseded turn is only marked.
LEMMA QuietOpen ==
    ASSUME IInv, Open
    PROVE  Quiet
<1>. USE IsTyped DEF IInv
<1>1. /\ Typed /\ latest \in [Services -> Turns \cup {None}] /\ lane.service \in Services
      /\ turn' = Supersede(lane.service)
      /\ UNCHANGED <<inner, replies, accepted, closing>>
      /\ \A u \in Turns : turn[u] \in TurnRecord /\ Record(u)
  BY DEF TypeOK, Open, IntakeOK, Intake, history, Typed
<1>2. CASE ~Busy(lane.service)
  BY <1>1, <1>2, SupersedeTurn, QuietSame
<1>3. CASE Busy(lane.service)
  <2>0. PICK t \in Turns : t = latest[lane.service]
    BY <1>1, <1>3 DEF Busy
  <2>1. /\ Typed' /\ Only(t) /\ Fixed(turn'[t], turn[t])
        /\ turn'[t].stage = turn[t].stage /\ turn'[t].task = turn[t].task
        /\ turn'[t].started = turn[t].started /\ turn'[t].invalidated
    BY <1>1, <1>3, <2>0, SupersedeTurn
  <2>2. turn[t].task = "live"
    BY <1>3, <2>0 DEF Busy
  <2>3. turn[t].stage # "new"
    BY <1>1, <2>1, <2>2 DEF Record, NewTurn
  <2>4. Permitted(turn[t], turn'[t], PreviousEnded(t)) /\ Record(t)'
    <3>1. turn[t] \in TurnRecord /\ turn'[t] \in TurnRecord /\ Record(t)
      BY <1>1, <2>1 DEF Typed
    <3>2. Permitted(turn[t], turn'[t], PreviousEnded(t))
      BY <2>1, <2>3, <3>1 DEF Permitted, Fixed
    <3>3. UNCHANGED <<inner, replies, closing>>
      BY <1>1
    <3>. QED BY <2>1, <2>3, <3>1, <3>2, <3>3 DEF Record
  <2>5. \A u \in Turns \ {t} : (inner'[u] = "none" <=> inner[u] = "none") /\ replies'[u] = replies[u]
    BY <1>1
  <2>. QED BY <1>1, <2>1, <2>4, <2>5, QuietOne
<1>. QED BY <1>2, <1>3

\* The turn in the lane starts, on message m.
Started(m) ==
    /\ Start(lane.turn, lane.service, m)
    /\ Intake /\ lane' = Free
    /\ UNCHANGED <<inner, replies, failed, current, snapshots, report, published, closing, closed>>
    /\ \/ m = lane.turn /\ stored' = stored \cup {m} /\ tail' = m
       \/ m = tail /\ UNCHANGED <<stored, tail>> /\ ~Busy(lane.service)

\* A message that is stored, or retried, starts its turn.
LEMMA Accepting ==
    ASSUME IInv, Store \/ Retry
    PROVE  (\E m \in Turns : Started(m)) \/ (Quiet /\ Retry /\ lane' = Free /\ UNCHANGED <<turn, latest, accepted>>)
<1>. USE IsTyped DEF IInv
<1>3. CASE Store
  <2>1. lane.turn \in Turns /\ MayStart(lane.service)
    BY <1>3 DEF Store, IntakeOK, Intake
  <2>2. Started(lane.turn)
    BY <1>3, <2>1 DEF Store, Started, Intake, history
  <2>. QED BY <2>1, <2>2
<1>4. CASE Retry
  <2>1. CASE ~Busy(lane.service) /\ tail # None
    <3>1. tail \in Turns
      BY <2>1 DEF TypeOK
    <3>2. Started(tail)
      BY <1>4, <2>1 DEF Retry, Started, Intake, history
    <3>. QED BY <3>1, <3>2
  <2>2. CASE ~(~Busy(lane.service) /\ tail # None)
    BY <1>4, <2>2, QuietSame DEF Retry, history
  <2>. QED BY <2>1, <2>2
<1>. QED BY <1>3, <1>4

-----------------------------------------------------------------------------
(* Types                                                                   *)

\* The types of the variables other than the turns'.
Others ==
    /\ inner \in [Turns -> {"none", "active", "stopping"}]
    /\ latest \in [Services -> Turns \cup {None}]
    /\ current \in Services
    /\ lane.pc \in {"free", "opening", "persisting", "cleanup"}
    /\ snapshots \subseteq Turns \cup {Report}
    /\ report \in {"none", "active", "cancelled", "ended"}
    /\ replies \in [Turns -> Nat]
    /\ stored \subseteq Turns /\ failed \subseteq stored /\ tail \in stored \cup {None}
    /\ closing \in BOOLEAN /\ closed \in Services \cup {0}
    /\ LaneType

\* The invariant types the other variables.
LEMMA OthersTyped == TypeOK /\ LaneType => Others
BY DEF TypeOK, Others

\* The free lane is a lane.
LEMMA FreeTyped == Free.pc = "free" /\ (lane = Free => LaneType)
BY DEF Free, LaneType

\* A start keeps the other variables' types.
LEMMA StartsTyped ==
    ASSUME IInv, NEW m \in Turns, Started(m)
    PROVE  Others'
<1>1. Others /\ lane.turn \in Turns /\ lane.service \in Services
  BY OthersTyped DEF IInv, IntakeOK, Started
<1>2. latest' = [latest EXCEPT ![lane.service] = lane.turn] /\ lane' = Free
  BY DEF Started, Start
<1>. QED BY <1>1, <1>2, FreeTyped DEF Started, Others, LaneType, Free

\* The last turn comes after the others, and completes after them.
LEMMA LastTurn ==
    ASSUME IInv, accepted # <<>>
    PROVE  /\ Len(accepted) \in Nat \ {0} /\ Last \in Turns /\ Last \in Accepted
           /\ \A t \in Accepted : t = Last \/ Earlier(t, Last)
<1>. USE DEF IInv
<1>1. accepted \in Seq(Turns) /\ Len(accepted) \in Nat \ {0}
  BY DEF Sorted
<1>2. Last \in Turns /\ Last \in Accepted
  BY <1>1 DEF Last, Accepted
<1>3. ASSUME NEW t \in Accepted PROVE t = Last \/ Earlier(t, Last)
  <2>1. PICK i \in 1..Len(accepted) : accepted[i] = t
    BY DEF Accepted
  <2>2. CASE i = Len(accepted)
    BY <2>1, <2>2 DEF Last
  <2>3. CASE i < Len(accepted)
    BY <1>1, <2>1, <2>3 DEF Earlier, Last
  <2>. QED BY <1>1, <2>1, <2>2, <2>3
<1>. QED BY <1>1, <1>2, <1>3

\* When the last turn is released, so are all before it.
LEMMA AllDone ==
    ASSUME IInv, AllCompleted, NEW t \in Accepted
    PROVE  Completed(t)
<1>. USE DEF IInv
<1>1. accepted # <<>>
  BY DEF Accepted
<1>2. Completed(Last) /\ Past(Last)
  BY <1>1 DEF AllCompleted, Past, Completed, Alone
<1>. QED BY <1>1, <1>2, LastTurn DEF Alone, Sorted, Accepted

\* A service that owns a turn at work owns the last turn accepted, and no later
\* service owns any.
LEMMA LastOwner ==
    ASSUME IInv, ~closing
    PROVE  /\ \A s \in Services : Busy(s) /\ latest[s] \in Turns => ~AllCompleted
           /\ ~AllCompleted => /\ Last \in Turns /\ Last \in Accepted
                               /\ turn[Last].service \in Owners
                               /\ latest[turn[Last].service] = Last
                               /\ \A s \in Owners : s <= turn[Last].service
           /\ Owners # {} <=> ~AllCompleted
<1>. USE DEF IInv
<1>1. ASSUME accepted # <<>>
      PROVE  /\ Len(accepted) \in Nat \ {0} /\ Last \in Turns /\ Last \in Accepted
             /\ \A t \in Accepted : t = Last \/ Earlier(t, Last)
  BY <1>1, LastTurn
<1>2. ASSUME NEW t \in Accepted, AllCompleted
      PROVE  Completed(t)
  BY <1>2, AllDone
<1>3. ASSUME NEW s \in Services, Busy(s), latest[s] \in Turns
      PROVE  latest[s] \in Accepted /\ ~AllCompleted
  <2>1. turn[latest[s]].task = "live" /\ ~Completed(latest[s])
    BY <1>3 DEF Busy
  <2>2. latest[s] \in Accepted
    BY <1>3, <2>1 DEF Record, NewTurn, Sorted
  <2>. QED BY <1>2, <2>1, <2>2
<1>4. ASSUME ~AllCompleted
      PROVE  /\ Last \in Turns /\ Last \in Accepted
             /\ turn[Last].service \in Owners
             /\ latest[turn[Last].service] = Last
             /\ \A s \in Owners : s <= turn[Last].service
  <2>1. /\ accepted # <<>> /\ ~Completed(Last) /\ Last \in Accepted /\ Last \in Turns
        /\ \A t \in Accepted : t = Last \/ Earlier(t, Last)
    BY <1>1, <1>4 DEF AllCompleted
  <2>2. latest[turn[Last].service] = Last /\ turn[Last].service \in Services
    BY <1>4, <2>1 DEF LastKnown, Sorted
  <2>3. turn[Last].task = "live"
    <3>1. Record(Last) /\ turn[Last].stage # "new" /\ turn[Last].stage # "closed"
      BY <2>1 DEF Completed, Sorted
    <3>. QED BY <3>1 DEF Record
  <2>4. turn[Last].service \in Owners
    BY <2>1, <2>2, <2>3, TurnsAssumption DEF Owners, Owns, Busy, Turns
  <2>5. ASSUME NEW s \in Owners PROVE s <= turn[Last].service
    <3>1. s \in Services /\ Busy(s) /\ turn[latest[s]].service = s /\ latest[s] \in Turns
      BY DEF Owners, Owns, Busy, TypeOK
    <3>2. latest[s] \in Accepted
      BY <1>3, <3>1
    <3>3. CASE latest[s] = Last
      BY <3>1, <3>3, <2>2 DEF Services
    <3>4. CASE Earlier(latest[s], Last)
      BY <2>1, <3>1, <3>4 DEF Sorted
    <3>. QED BY <2>1, <3>2, <3>3, <3>4
  <2>. QED BY <2>1, <2>2, <2>4, <2>5
<1>5. ASSUME NEW s \in Owners PROVE ~AllCompleted
  BY <1>3 DEF Owners, Owns, Busy, TypeOK
<1>. QED BY <1>3, <1>4, <1>5

\* What a request makes of the table: the current service, unless it owns a
\* turn itself, borrows the last turn at work.
LEMMA BorrowLast ==
    ASSUME IInv, ~closing
    PROVE  /\ AllCompleted => Borrow = latest
           /\ ~AllCompleted => /\ Borrow[current] = Last
                               /\ \A s \in Services \ {current} : Borrow[s] = latest[s]
           /\ Borrow \in [Services -> Turns \cup {None}]
<1>1. latest \in [Services -> Turns \cup {None}] /\ current \in Services
  BY DEF IInv, TypeOK
<1>2. CASE AllCompleted
  BY <1>1, <1>2, LastOwner DEF Borrow
<1>3. CASE ~AllCompleted
  <2>. DEFINE m == turn[Last].service
  <2>1. /\ m \in Owners /\ latest[m] = Last /\ (\A s \in Owners : s <= m)
        /\ Last \in Turns /\ Last \in Accepted
    BY <1>3, LastOwner
  <2>2. m <= current /\ m \in Services
    BY <2>1 DEF IInv, Sorted, Owners
  <2>. HIDE DEF m
  <2>3. CASE current \in Owners
    <3>1. m = current
      BY <1>1, <2>1, <2>2, <2>3 DEF Services
    <3>. QED BY <1>1, <1>3, <2>1, <2>3, <3>1 DEF Borrow
  <2>4. CASE current \notin Owners
    <3>1. \A s \in Owners : (\A r \in Owners : r <= s) => s = m
      BY <2>1, <2>2 DEF Owners, Services
    <3>2. (CHOOSE s \in Owners : \A r \in Owners : r <= s) = m
      BY <2>1, <3>1
    <3>3. Borrow = [latest EXCEPT ![current] = Last]
      BY <2>1, <2>4, <3>2 DEF Borrow
    <3>. QED BY <1>1, <1>3, <2>1, <3>3
  <2>. QED BY <2>3, <2>4
<1>. QED BY <1>2, <1>3

\* Every step keeps the other variables' types.
LEMMA OthersStep ==
    ASSUME IInv, [Next]_vars
    PROVE  Others'
<1>. USE OthersTyped DEF IInv, chat, history
<1>1. Others /\ Typed
  BY IsTyped
<1>2. CASE Store \/ Retry
  <2>1. CASE \E m \in Turns : Started(m)
    BY <2>1, StartsTyped
  <2>2. CASE Retry /\ lane' = Free /\ UNCHANGED <<turn, latest, accepted>>
    BY <1>1, <2>2, FreeTyped DEF Retry, Others, LaneType, Free
  <2>. QED BY <1>2, <2>1, <2>2, Accepting
<1>3. CASE Open
  BY <1>1, <1>3 DEF Open, Others, LaneType
<1>4. CASE StoreFails \/ Answer
  <2>1. CASE StoreFails
    <3>1. lane.turn \in Turns
      BY <2>1 DEF StoreFails, IntakeOK, Intake
    <3>. QED BY <1>1, <2>1, <3>1, FreeTyped DEF StoreFails, Others, LaneType, Free
  <2>2. CASE Answer
    BY <1>1, <2>2, FreeTyped DEF Answer, Others, LaneType, Free
  <2>. QED BY <1>4, <2>1, <2>2
<1>5. CASE Publish \/ ReportArrives \/ ReportEnds
  BY <1>1, <1>5 DEF Publish, ReportArrives, ReportEnds, Others, LaneType
<1>6. CASE Close
  BY <1>1, <1>6, FreeTyped DEF Close, Others, LaneType, Free, CancelInner, IntakeOK, Intake, CleanupOK
<1>7. CASE CloseService
  BY <1>1, <1>7, TurnsAssumption DEF CloseService, Others, LaneType, CancelInner, Services
<1>8. ASSUME NEW t \in Turns, NEW kind \in {"send", "retry"}, Request(t, kind) PROVE Others'
  BY <1>1, <1>8, BorrowLast DEF Request, Others, LaneType
<1>9. ASSUME NEW t \in Turns, Cancel(t) PROVE Others'
  <2>1. /\ \E w \in Turns \cup {Report} : snapshots' \in {snapshots, snapshots \cup {w}}
        /\ report' \in {report, "cancelled"} /\ turn[t].service \in Services \cup {0}
    BY <1>1, <1>9 DEF Cancel, PrepareCancel, Interrupt, Typed, TurnRecord
  <2>2. inner' \in [Turns -> {"none", "active", "stopping"}]
    BY <1>1, <1>9 DEF Cancel, PrepareCancel, Interrupt, Others
  <2>. QED BY <1>1, <1>9, <2>1, <2>2 DEF Cancel, Others, LaneType
<1>10. ASSUME NEW t \in Turns, InnerStep(t) PROVE Others'
  <2>1. /\ UNCHANGED <<latest, current, lane, snapshots, report, stored, failed, closing, closed>>
        /\ inner' = [inner EXCEPT ![t] = "none"] /\ tail' \in {tail, None}
        /\ replies' = replies \/ replies' = [replies EXCEPT ![t] = @ + 1]
    BY <1>10 DEF InnerStep, InnerEnds, AddReply
  <2>. QED BY <1>1, <2>1 DEF Others, LaneType
<1>11. ASSUME NEW t \in Turns, FirstStep(t) \/ Begin(t) \/ SyncStep(t) \/ Flush(t) PROVE Others'
  <2>1. /\ UNCHANGED <<latest, current, lane, snapshots, report, replies, stored, failed, tail,
                       closing, closed>>
        /\ inner' = inner \/ inner' = [inner EXCEPT ![t] = "active"]
    BY <1>11 DEF FirstStep, Begin, SyncStep, Sync, Flush
  <2>. QED BY <1>1, <2>1 DEF Others, LaneType
<1>12. ASSUME NEW t \in Turns, Settle(t) \/ Save(t) PROVE Others'
  BY <1>1, <1>12 DEF Settle, Save, AddReply, DiscardSnapshot, Others, LaneType
<1>13. ASSUME NEW t \in Turns, TaskDone(t) PROVE Others'
  BY <1>1, <1>13 DEF TaskDone, Others, LaneType
<1>14. CASE UNCHANGED vars
  BY <1>1, <1>14 DEF vars, Others, LaneType
<1>. QED BY <1>2, <1>3, <1>4, <1>5, <1>6, <1>7, <1>8, <1>9, <1>10, <1>11, <1>12, <1>13, <1>14
         DEF Next, LaneStep, RunnerStep

-----------------------------------------------------------------------------
(* The order of the turns                                                  *)

\* What a quiet step does to the lane and to the services' tables.
Table(s) ==
    \/ latest'[s] = latest[s]
    \/ latest'[s] = None /\ latest[s] \in Turns /\ turn[latest[s]].task = "done"

LaneGoesOn ==
    /\ \A s \in Services : Table(s)
    /\ Intake' => /\ Intake /\ ~closing'
                  /\ lane'.turn = lane.turn /\ lane'.service = lane.service
                  /\ stored' = stored
                  /\ lane'.pc = lane.pc \/ Open
    /\ lane'.pc = "cleanup" => \/ lane' = lane
                               \/ \E t \in Turns : Cancel(t) /\ lane'.turn = t

Requested == \E t \in Turns, kind \in {"send", "retry"} : Request(t, kind)

Frame ==
    /\ current <= current'
    /\ closing => closing'
    /\ stored \subseteq stored'
    /\ Requested \/ LaneGoesOn

\* A step that starts no turn is quiet and stays in the frame.
LEMMA QuietFrame ==
    ASSUME IInv, [Next]_vars
    PROVE  (Quiet /\ Frame) \/ \E m \in Turns : Started(m)
<1>. USE DEF IInv, chat, history
<1>1. latest \in [Services -> Turns \cup {None}] /\ current \in Nat
  BY DEF TypeOK, Services
<1>2. CASE Store \/ Retry
  <2>1. CASE Quiet /\ Retry /\ lane' = Free /\ UNCHANGED <<turn, latest, accepted>>
    <3>1. ~Intake' /\ lane'.pc = "free"
      BY <2>1, FreeTyped DEF Intake
    <3>. QED BY <1>1, <2>1, <3>1 DEF Retry, Frame, LaneGoesOn, Table
  <2>. QED BY <1>2, <2>1, Accepting
<1>3. CASE Open
  <2>1. lane'.pc = "persisting" /\ lane'.turn = lane.turn /\ lane'.service = lane.service /\ Intake /\ ~closing
    BY <1>3 DEF Open, LaneType, Intake, IntakeOK
  <2>. QED BY <1>1, <1>3, <2>1, QuietOpen DEF Open, Frame, LaneGoesOn, Table
<1>4. CASE StoreFails \/ Answer
  <2>1. ~Intake' /\ lane'.pc = "free" /\ UNCHANGED <<latest, current, closing>>
        /\ stored \subseteq stored'
    BY <1>4, FreeTyped DEF StoreFails, Answer, Intake
  <2>2. Quiet
    BY <1>4, QuietSame, IsTyped DEF StoreFails, Answer
  <2>. QED BY <1>1, <2>1, <2>2 DEF Frame, LaneGoesOn, Table
<1>5. CASE Publish \/ ReportArrives \/ ReportEnds
  <2>1. Quiet
    BY <1>5, QuietSame, IsTyped DEF Publish, ReportArrives, ReportEnds
  <2>2. /\ lane' = lane /\ latest' = latest /\ stored' = stored /\ closing' = closing
        /\ current <= current'
    BY <1>1, <1>5 DEF Publish, ReportArrives, ReportEnds
  <2>. QED BY <2>1, <2>2 DEF Frame, LaneGoesOn, Table, IntakeOK, Intake
<1>6. CASE Close
  <2>1. /\ lane' = lane \/ (lane' = Free /\ lane.pc # "cleanup")
        /\ lane' = lane => lane.pc \in {"cleanup", "free"}
        /\ UNCHANGED <<latest, current>> /\ closing' /\ stored \subseteq stored'
    <3>1. CASE lane.pc = "cleanup"
      <4>1. lane' = lane /\ stored' = stored
        BY <1>6, <3>1 DEF Close
      <4>2. UNCHANGED <<latest, current>> /\ closing'
        BY <1>6 DEF Close
      <4>. QED BY <3>1, <4>1, <4>2
    <3>2. CASE lane.pc # "cleanup"
      BY <1>6, <3>2, FreeTyped DEF Close
    <3>. QED BY <3>1, <3>2
  <2>2. ~Intake' /\ (lane'.pc = "cleanup" => lane' = lane)
    BY <2>1, FreeTyped DEF Intake
  <2>. QED BY <1>1, <1>6, <2>1, <2>2, QuietClosing DEF Frame, LaneGoesOn, Table
<1>7. CASE CloseService
  <2>1. lane' = lane /\ lane.pc = "free" /\ UNCHANGED <<latest, current, closing, stored>>
    BY <1>7, FreeTyped DEF CloseService
  <2>. QED BY <1>1, <1>7, <2>1, QuietClosing DEF Frame, LaneGoesOn, Table, Intake
<1>8. ASSUME NEW t \in Turns, NEW kind \in {"send", "retry"}, Request(t, kind)
      PROVE  Quiet /\ Frame
  <2>1. Quiet
    BY <1>8, QuietSame, IsTyped DEF Request
  <2>2. Requested
    BY <1>8 DEF Requested
  <2>3. UNCHANGED <<current, stored, closing>>
    BY <1>8 DEF Request
  <2>. QED BY <1>1, <2>1, <2>2, <2>3 DEF Frame
<1>9. ASSUME NEW t \in Turns, Cancel(t)
      PROVE  Quiet /\ Frame
  <2>1. /\ lane'.pc = "cleanup" /\ lane'.turn = t /\ ~Intake'
        /\ UNCHANGED <<latest, current, closing, stored>>
    BY <1>9 DEF Cancel, Intake
  <2>. QED BY <1>1, <1>9, <2>1, QuietTurnSteps DEF Frame, LaneGoesOn, Table
<1>10. ASSUME NEW t \in Turns, TaskDone(t)
      PROVE  Quiet /\ Frame
  <2>1. /\ latest' = [s \in Services |-> IF latest[s] = t THEN None ELSE latest[s]]
        /\ turn[t].task = "done" /\ UNCHANGED <<current, lane, stored, closing>>
    BY <1>10 DEF TaskDone
  <2>2. \A s \in Services : Table(s)
    BY <2>1 DEF Table
  <2>3. Quiet
    BY <1>10, QuietTurnSteps DEF RunnerStep
  <2>. QED BY <1>1, <2>1, <2>2, <2>3 DEF Frame, LaneGoesOn, IntakeOK, Intake
<1>11. ASSUME NEW t \in Turns,
              InnerStep(t) \/ FirstStep(t) \/ Begin(t) \/ SyncStep(t) \/ Settle(t) \/ Save(t) \/ Flush(t)
      PROVE  Quiet /\ Frame
  <2>1. UNCHANGED <<latest, current, lane, stored, closing>>
    BY <1>11 DEF InnerStep, InnerEnds, FirstStep, Begin, SyncStep, Sync, Settle, Save, Flush
  <2>2. Quiet
    BY <1>11, QuietTurnSteps DEF RunnerStep
  <2>. QED BY <1>1, <2>1, <2>2 DEF Frame, LaneGoesOn, Table, IntakeOK, Intake
<1>12. CASE UNCHANGED vars
  <2>1. Quiet
    BY <1>12, QuietSame, IsTyped DEF vars
  <2>. QED BY <1>1, <1>12, <2>1 DEF vars, Frame, LaneGoesOn, Table, IntakeOK, Intake
<1>. QED BY <1>2, <1>3, <1>4, <1>5, <1>6, <1>7, <1>8, <1>9, <1>10, <1>11, <1>12 DEF Next, LaneStep, RunnerStep

\* Turns that neither start nor leave the order they were accepted in.
LEMMA QuietTurns ==
    ASSUME IInv, Quiet, NEW t \in Turns
    PROVE  /\ turn'[t].service = turn[t].service /\ turn'[t].message = turn[t].message
           /\ turn'[t].stage = "new" <=> turn[t].stage = "new"
           /\ turn[t].stage = "new" => turn'[t] = turn[t]
           /\ Completed(t) => Completed(t)'
           /\ Ended(t) => turn[t].stage = "closed"
           /\ turn[t].stage = "closed" => turn'[t].stage = "closed" /\ Completed(t) /\ Past(t)
           /\ turn'[t].stage # "closed" => turn'[t].previous = turn[t].previous
           /\ Past(t)' => Past(t) \/ (PreviousEnded(t) /\ turn[t].stage \notin {"new", "closed"})
           /\ turn'[t].task = "live" => turn[t].task = "live"
           /\ turn[t].invalidated => turn'[t].invalidated \/ turn'[t].stage = "closed"
BY DEF Quiet, Permitted, Completed, Past, Ended

\* A quiet step keeps the order of the turns.
LEMMA QuietOrder ==
    ASSUME IInv, Quiet, Frame, Others'
    PROVE  Sorted' /\ Chained' /\ Alone'
<1>. USE DEF IInv
<1>1. /\ accepted' = accepted /\ accepted \in Seq(Turns)
      /\ Accepted' = Accepted /\ \A t, u \in Turns : Earlier(t, u)' <=> Earlier(t, u)
  BY DEF Quiet, Sorted, Accepted, Earlier
<1>2. Alone'
  <2>. SUFFICES ASSUME NEW t \in Turns, NEW u \in Turns, Earlier(t, u), Past(u)'
                PROVE  Completed(t)'
    BY <1>1 DEF Alone
  <2>1. CASE Past(u)
    BY <2>1, QuietTurns DEF Alone
  <2>2. CASE PreviousEnded(u) /\ turn[u].stage \notin {"new", "closed"}
    <3>1. Completed(t) \/ (turn[u].previous \in Turns /\ (t = turn[u].previous \/ Earlier(t, turn[u].previous)))
      BY <2>2 DEF Chained
    <3>2. CASE turn[u].previous \in Turns /\ (t = turn[u].previous \/ Earlier(t, turn[u].previous))
      <4>1. turn[u].previous # None
        BY <3>2, TurnsAssumption DEF Turns
      <4>2. turn[turn[u].previous].stage = "closed"
        BY <2>2, <4>1 DEF PreviousEnded, Ended
      <4>3. Completed(t)
        BY <3>2, <4>2, QuietTurns DEF Alone
      <4>. QED BY <4>3, QuietTurns
    <3>. QED BY <3>1, <3>2, QuietTurns
  <2>. QED BY <2>1, <2>2, QuietTurns
<1>3. Chained'
  <2>. SUFFICES ASSUME NEW t \in Turns, NEW u \in Turns, Earlier(t, u), turn'[u].stage # "closed"
                PROVE  \/ Completed(t)'
                       \/ /\ turn'[u].previous \in Turns
                          /\ t = turn'[u].previous \/ Earlier(t, turn[u].previous)'
    BY <1>1 DEF Chained
  <2>1. turn[u].stage # "closed" /\ turn'[u].previous = turn[u].previous
    BY QuietTurns
  <2>2. Completed(t) => Completed(t)'
    BY QuietTurns
  <2>3. Completed(t) \/ (turn[u].previous \in Turns /\ (t = turn[u].previous \/ Earlier(t, turn[u].previous)))
    BY <2>1 DEF Chained
  <2>4. turn[u].previous \in Turns => (Earlier(t, turn[u].previous) <=> Earlier(t, turn[u].previous)')
    BY <1>1, <2>1 DEF Earlier
  <2>. QED BY <2>1, <2>2, <2>3, <2>4
<1>4. Sorted'
  <2>1. \A t \in Turns : turn'[t].stage # "new" <=> t \in Accepted'
    BY <1>1, QuietTurns DEF Sorted
  <2>2. \A t, u \in Turns : Earlier(t, u)' => turn'[t].service <= turn'[u].service
    BY <1>1, QuietTurns DEF Sorted
  <2>3. ASSUME NEW t \in Accepted
        PROVE  /\ turn'[t].service \in Services /\ turn'[t].service <= current'
               /\ Intake' => turn'[t].service <= lane'.service
    <3>1. /\ t \in Turns /\ turn[t].service \in Services /\ turn[t].service <= current
          /\ Intake => turn[t].service <= lane.service
      BY DEF Sorted, Accepted
    <3>2. turn'[t].service = turn[t].service
      BY <3>1, QuietTurns
    <3>3. current \in Nat /\ current' \in Nat /\ turn[t].service \in Nat
      BY <3>1, OthersTyped DEF Services, Others
    <3>4. Intake' => (lane'.service = current \/ (Intake /\ lane'.service = lane.service))
      BY DEF Frame, LaneGoesOn, Requested, Request
    <3>. QED BY <3>1, <3>2, <3>3, <3>4 DEF Frame
  <2>. QED BY <1>1, <2>1, <2>2, <2>3 DEF Sorted
<1>. QED BY <1>2, <1>3, <1>4


\* A set of natural numbers that is not empty has a least element.
LEMMA LeastOf ==
    ASSUME NEW S \in SUBSET Nat, S # {}
    PROVE  \E x \in S : \A y \in S : x <= y
<1>. DEFINE R == OpToRel(<, Nat)
<1>1. IsWellFoundedOn(R, Nat)
  BY NatLessThanWellFounded
<1>2. \A x, y \in Nat : <<y, x>> \in R <=> y < x
  BY DEF OpToRel
<1>. HIDE DEF R
<1>3. PICK x \in S : \A y \in S : ~(<<y, x>> \in R)
  BY <1>1, WFMin
<1>4. \A y \in S : x <= y
  <2>. TAKE y \in S
  <2>1. x \in Nat /\ y \in Nat /\ ~(y < x)
    BY <1>2, <1>3
  <2>. QED BY <2>1
<1>. QED BY <1>4

\* A quiet step keeps what the lane knows of its turn.
LEMMA QuietIntake ==
    ASSUME IInv, Quiet, Frame, Others'
    PROVE  IntakeOK' /\ CleanupOK'
<1>. USE DEF IInv
<1>1. IntakeOK'
  <2>. SUFFICES ASSUME Intake'
                PROVE  /\ ~closing'
                       /\ lane'.turn \in Turns \ stored' /\ turn'[lane'.turn].stage = "new"
                       /\ lane'.service \in Services /\ lane'.service <= current'
                       /\ lane'.pc = "persisting" => MayStart(lane.service)' /\ lane'.service = lane.service
    BY DEF IntakeOK, MayStart, Busy, Completed
  <2>1. CASE Requested
    <3>1. PICK t \in Turns, kind \in {"send", "retry"} : Request(t, kind)
      BY <2>1 DEF Requested
    <3>2. /\ lane' = [pc |-> "opening", request |-> kind, turn |-> t, service |-> current]
          /\ UNCHANGED <<turn, stored, current, closing>> /\ ~closing
          /\ t = CHOOSE u \in Unused : \A v \in Unused : u <= v
      BY <3>1 DEF Request, history
    <3>3. t \in Unused
      <4>1. Unused \in SUBSET Nat /\ Unused # {}
        BY <3>1, TurnsAssumption DEF Request, Unused, Turns
      <4>. QED BY <3>2, <4>1, LeastOf
    <3>. QED BY <3>2, <3>3 DEF Unused, TypeOK, Services
  <2>2. CASE LaneGoesOn
    <3>1. /\ Intake /\ ~closing' /\ ~closing /\ lane'.turn = lane.turn /\ lane'.service = lane.service
          /\ stored' = stored
          /\ lane'.pc = lane.pc \/ Open
          /\ lane.turn \in Turns \ stored /\ turn[lane.turn].stage = "new"
          /\ lane.service \in Services /\ lane.service <= current
          /\ lane.pc = "persisting" => MayStart(lane.service)
      BY <2>2 DEF LaneGoesOn, IntakeOK
    <3>2. turn'[lane.turn].stage = "new" /\ lane.service <= current'
      <4>1. current \in Nat /\ current' \in Nat /\ lane.service \in Nat
        BY <3>1, OthersTyped DEF Others, Services
      <4>. QED BY <3>1, <4>1, QuietTurns DEF Frame
    <3>3. ASSUME lane'.pc = "persisting" PROVE MayStart(lane.service)'
      <4>. DEFINE s == lane.service
      <4>1. PICK p \in Turns \cup {None} : p = latest[s]
        BY <3>1 DEF TypeOK
      <4>2. latest'[s] = latest[s] \/ latest'[s] = None
        BY <2>2, <3>1 DEF LaneGoesOn, Table
      <4>3. CASE lane.pc = "persisting"
        <5>1. SUFFICES ASSUME latest'[s] = p, p # None, turn'[p].task = "live", ~Completed(p)'
                       PROVE  turn'[p].invalidated
          BY <3>1, <4>1, <4>2 DEF MayStart, Busy
        <5>2. p \in Turns /\ turn[p].task = "live" /\ ~Completed(p)
          BY <4>1, <5>1, QuietTurns
        <5>3. turn[p].invalidated
          BY <3>1, <4>1, <4>3, <5>1, <5>2 DEF MayStart, Busy
        <5>. QED BY <5>1, <5>2, <5>3, QuietTurns DEF Completed
      <4>4. CASE Open
        <5>1. latest' = latest /\ turn' = Supersede(s) /\ Typed /\ latest \in [Services -> Turns \cup {None}]
          BY <4>4, IsTyped DEF Open, TypeOK
        <5>2. CASE ~Busy(s)
          BY <3>1, <5>1, <5>2, SupersedeTurn DEF MayStart, Busy, Completed
        <5>3. CASE Busy(s)
          BY <3>1, <5>1, <5>3, SupersedeTurn DEF MayStart, Busy, Completed
        <5>. QED BY <5>2, <5>3
      <4>. QED BY <3>1, <3>3, <4>3, <4>4
    <3>. QED BY <3>1, <3>2, <3>3
  <2>. QED BY <2>1, <2>2 DEF Frame
<1>2. CleanupOK'
  <2>. SUFFICES ASSUME lane'.pc = "cleanup"
                PROVE  lane'.turn \in Turns /\ turn'[lane'.turn].stage # "new"
    BY DEF CleanupOK
  <2>1. CASE lane' = lane
    BY <2>1, QuietTurns DEF CleanupOK
  <2>2. ASSUME NEW t \in Turns, Cancel(t), lane'.turn = t
        PROVE  lane'.turn \in Turns /\ turn'[lane'.turn].stage # "new"
    <3>1. turn[t].task = "live"
      BY <2>2 DEF Cancel, Owners, Owns, Busy
    <3>2. turn[t].stage # "new"
      BY <3>1 DEF Record, NewTurn
    <3>. QED BY <2>2, <3>2, QuietTurns
  <2>3. ~Requested
    BY DEF Requested, Request
  <2>. QED BY <2>1, <2>2, <2>3 DEF Frame, LaneGoesOn
<1>. QED BY <1>1, <1>2

\* A quiet step keeps the last turn in the tables.
LEMMA QuietLast ==
    ASSUME IInv, Quiet, Frame, Others'
    PROVE  LastKnown'
<1>. USE DEF IInv
<1>. SUFFICES ASSUME ~closing', ~AllCompleted'
              PROVE  /\ latest'[turn'[Last].service] = Last
                     /\ Intake' => latest'[lane'.service] = Last
  BY DEF LastKnown, Last, Quiet
<1>1. accepted' = accepted /\ ~closing
  BY DEF Quiet, Frame
<1>2. accepted # <<>> /\ Last \in Turns
  BY <1>1 DEF AllCompleted, Sorted, Last
<1>3. ~AllCompleted
  BY <1>1, <1>2, QuietTurns DEF AllCompleted, Last, Completed
<1>4. /\ latest[turn[Last].service] = Last /\ turn[Last].service \in Owners
      /\ turn[Last].service \in Services /\ turn[Last].task = "live"
      /\ turn'[Last].service = turn[Last].service
  BY <1>1, <1>2, <1>3, LastOwner, QuietTurns DEF Owners, Owns, Busy
<1>5. CASE Requested
  <2>1. PICK t \in Turns, kind \in {"send", "retry"} : Request(t, kind)
    BY <1>5 DEF Requested
  <2>2. latest' = Borrow /\ lane'.service = current
    BY <2>1 DEF Request
  <2>. QED BY <1>1, <1>3, <1>4, <2>2, BorrowLast
<1>6. CASE LaneGoesOn
  <2>1. \A s \in Services : latest[s] = Last => latest'[s] = Last
    BY <1>4, <1>6 DEF LaneGoesOn, Table
  <2>2. Intake' => /\ Intake /\ lane'.service = lane.service /\ lane.service \in Services
                   /\ latest[lane.service] = Last
    BY <1>1, <1>3, <1>6 DEF LaneGoesOn, IntakeOK, LastKnown
  <2>. QED BY <1>4, <2>1, <2>2
<1>. QED BY <1>5, <1>6 DEF Frame

-----------------------------------------------------------------------------
(* The turn in the lane starts                                             *)

\* A turn appended to the order comes after all that are in it.
LEMMA AppendOrder ==
    ASSUME IInv, NEW t \in Turns, t \notin Accepted, accepted' = Append(accepted, t)
    PROVE  /\ accepted' \in Seq(Turns) /\ accepted' # <<>> /\ Last' = t
           /\ Accepted' = Accepted \cup {t}
           /\ \A a, b \in Turns : Earlier(a, b)' => Earlier(a, b) \/ (a \in Accepted /\ b = t)
           /\ \A a, b \in Turns : Earlier(a, b) => Earlier(a, b)' /\ a \in Accepted /\ b \in Accepted
           /\ \A a \in Accepted : Earlier(a, t)'
<1>. DEFINE n == Len(accepted)
<1>1. /\ accepted \in Seq(Turns) /\ n \in Nat /\ Len(accepted') = n + 1
      /\ accepted' \in Seq(Turns) /\ accepted'[n + 1] = t
      /\ \A i \in 1..n : accepted'[i] = accepted[i]
  BY DEF IInv, Sorted
<1>2. accepted' # <<>> /\ Last' = t
  BY <1>1 DEF Last
<1>3. Accepted' = Accepted \cup {t}
  <2>1. 1..Len(accepted') = (1..n) \cup {n + 1}
    BY <1>1
  <2>. QED BY <1>1, <2>1 DEF Accepted
<1>4. ASSUME NEW a \in Turns, NEW b \in Turns, Earlier(a, b)'
      PROVE  Earlier(a, b) \/ (a \in Accepted /\ b = t)
  <2>1. PICK i, j \in 1..(n + 1) : i < j /\ accepted'[i] = a /\ accepted'[j] = b
    BY <1>1, <1>4 DEF Earlier
  <2>2. i \in 1..n /\ accepted[i] = a
    BY <1>1, <2>1
  <2>3. CASE j = n + 1
    BY <1>1, <2>1, <2>2, <2>3 DEF Accepted
  <2>4. CASE j # n + 1
    BY <1>1, <2>1, <2>2, <2>4 DEF Earlier
  <2>. QED BY <2>3, <2>4
<1>5. ASSUME NEW a \in Turns, NEW b \in Turns, Earlier(a, b)
      PROVE  Earlier(a, b)' /\ a \in Accepted /\ b \in Accepted
  BY <1>1, <1>5 DEF Earlier, Accepted
<1>6. ASSUME NEW a \in Accepted PROVE Earlier(a, t)'
  <2>1. PICK i \in 1..n : accepted[i] = a
    BY DEF Accepted
  <2>. QED BY <1>1, <2>1 DEF Earlier
<1>. QED BY <1>1, <1>2, <1>3, <1>4, <1>5, <1>6

\* What a start writes, and what it leaves.
LEMMA StartedTurn ==
    ASSUME IInv, NEW m \in Turns, Started(m)
    PROVE  \E t \in Turns : \E s \in Services :
              /\ t = lane.turn /\ s = lane.service
              /\ turn[t].stage = "new" /\ turn[t] = NewTurn /\ replies[t] = 0
              /\ t \notin stored /\ t \notin Accepted
              /\ Intake /\ ~closing /\ s <= current
              /\ lane'.pc = "free" /\ ~Intake'
              /\ Typed' /\ Only(t)
              /\ turn'[t].stage = "scheduled" /\ turn'[t].task = "live"
              /\ turn'[t].service = s /\ turn'[t].message = m
              /\ turn'[t].previous = latest[s]
              /\ ~turn'[t].started /\ turn'[t].snapshot = None
              /\ latest' = [latest EXCEPT ![s] = t]
              /\ accepted' = Append(accepted, t)
<1>. USE DEF IInv
<1>1. /\ Intake /\ lane' = Free /\ Start(lane.turn, lane.service, m)
      /\ lane.turn \in Turns /\ lane.service \in Services
  BY DEF Started, IntakeOK
<1>2. PICK t \in Turns, s \in Services : t = lane.turn /\ s = lane.service
  BY <1>1
<1>3. /\ turn[t].stage = "new" /\ t \notin stored /\ ~closing /\ s <= current
  BY <1>1, <1>2 DEF IntakeOK
<1>4. turn[t] = NewTurn /\ replies[t] = 0 /\ t \notin Accepted
  BY <1>3 DEF Record, Sorted
<1>5. lane'.pc = "free" /\ ~Intake'
  BY <1>1, FreeTyped DEF Intake
<1>6. Typed /\ latest \in [Services -> Turns \cup {None}] /\ Start(t, s, m)
  BY <1>1, <1>2, IsTyped DEF TypeOK
<1>7. /\ Typed' /\ Only(t)
      /\ turn'[t].stage = "scheduled" /\ turn'[t].task = "live"
      /\ turn'[t].service = s /\ turn'[t].message = m
      /\ turn'[t].previous = latest[s]
      /\ ~turn'[t].started /\ turn'[t].snapshot = None
      /\ latest' = [latest EXCEPT ![s] = t]
      /\ accepted' = Append(accepted, t)
  BY <1>6, StartTurn
<1>. QED BY <1>1, <1>2, <1>3, <1>4, <1>5, <1>7

\* A start keeps the order: the new turn waits for all that were accepted.
LEMMA StartedOrder ==
    ASSUME IInv, NEW m \in Turns, Started(m)
    PROVE  /\ \A u \in Turns : Record(u)'
           /\ IntakeOK' /\ CleanupOK'
           /\ Sorted' /\ Chained' /\ Alone' /\ LastKnown'
<1>. USE DEF IInv
<1>1. PICK t \in Turns, s \in Services :
         /\ t = lane.turn /\ s = lane.service
         /\ turn[t].stage = "new" /\ turn[t] = NewTurn /\ replies[t] = 0
         /\ t \notin stored /\ t \notin Accepted
         /\ Intake /\ ~closing /\ s <= current
         /\ lane'.pc = "free" /\ ~Intake'
         /\ Typed' /\ Only(t)
         /\ turn'[t].stage = "scheduled" /\ turn'[t].task = "live"
         /\ turn'[t].service = s /\ turn'[t].message = m
         /\ turn'[t].previous = latest[s]
         /\ ~turn'[t].started /\ turn'[t].snapshot = None
         /\ latest' = [latest EXCEPT ![s] = t]
         /\ accepted' = Append(accepted, t)
  BY StartedTurn
<1>2. UNCHANGED <<inner, replies, current, closing>>
  BY DEF Started
<1>3. \A u \in Turns \ {t} : turn'[u] = turn[u]
  BY <1>1 DEF Only
<1>4. /\ accepted' \in Seq(Turns) /\ accepted' # <<>> /\ Last' = t
      /\ Accepted' = Accepted \cup {t}
      /\ \A a, b \in Turns : Earlier(a, b)' => Earlier(a, b) \/ (a \in Accepted /\ b = t)
      /\ \A a, b \in Turns : Earlier(a, b) => Earlier(a, b)' /\ a \in Accepted /\ b \in Accepted
      /\ \A a \in Accepted : Earlier(a, t)'
  BY <1>1, AppendOrder
<1>5. /\ s \in Nat /\ current \in Nat
      /\ \A a \in Accepted : /\ a \in Turns /\ a # t /\ turn[a].service \in Services
                             /\ turn[a].service <= current /\ turn[a].service <= s
  <2>1. current \in Nat
    BY DEF TypeOK, Services
  <2>. QED BY <1>1, <2>1 DEF Sorted, Accepted, Services
<1>6. ASSUME NEW u \in Turns PROVE Record(u)'
  <2>1. Record(u)
    OBVIOUS
  <2>2. CASE u = t
    BY <1>1, <1>2, <2>1, <2>2 DEF Record, NewTurn
  <2>3. CASE u # t
    BY <1>2, <1>3, <2>1, <2>3 DEF Record
  <2>. QED BY <2>2, <2>3
<1>7. IntakeOK' /\ CleanupOK'
  BY <1>1 DEF IntakeOK, CleanupOK
<1>8. Sorted'
  <2>1. \A u \in Turns : turn'[u].stage # "new" <=> u \in Accepted'
    BY <1>1, <1>3, <1>4 DEF Sorted
  <2>2. \A u \in Accepted' : turn'[u].service \in Services /\ turn'[u].service <= current'
    <3>1. current' = current /\ turn'[t].service = s /\ s \in Services /\ s <= current
      BY <1>1, <1>2
    <3>2. \A u \in Accepted : turn'[u] = turn[u] /\ turn[u].service \in Services /\ turn[u].service <= current
      BY <1>3, <1>5
    <3>. QED BY <1>4, <3>1, <3>2
  <2>3. \A a, b \in Turns : Earlier(a, b)' => turn'[a].service <= turn'[b].service
    <3>. SUFFICES ASSUME NEW a \in Turns, NEW b \in Turns, Earlier(a, b)'
                  PROVE  turn'[a].service <= turn'[b].service
      OBVIOUS
    <3>1. CASE Earlier(a, b)
      <4>1. a # t /\ b # t /\ turn[a].service <= turn[b].service
        BY <1>1, <1>4, <3>1 DEF Sorted
      <4>. QED BY <1>3, <4>1
    <3>2. CASE a \in Accepted /\ b = t
      BY <1>1, <1>3, <1>5, <3>2
    <3>. QED BY <1>4, <3>1, <3>2
  <2>. QED BY <1>1, <1>4, <2>1, <2>2, <2>3 DEF Sorted
<1>9. ASSUME NEW a \in Turns, NEW b \in Turns, Earlier(a, b)'
      PROVE  \/ Earlier(a, b) /\ a # t /\ b # t /\ turn'[a] = turn[a] /\ turn'[b] = turn[b]
             \/ a \in Accepted /\ b = t /\ turn'[a] = turn[a]
  BY <1>1, <1>3, <1>4, <1>5, <1>9
<1>10. Chained'
  <2>. SUFFICES ASSUME NEW a \in Turns, NEW b \in Turns, Earlier(a, b)', turn'[b].stage # "closed"
                PROVE  \/ Completed(a)'
                       \/ /\ turn'[b].previous \in Turns
                          /\ a = turn'[b].previous \/ Earlier(a, turn[b].previous)'
    BY DEF Chained
  <2>1. CASE Earlier(a, b) /\ b # t /\ turn'[a] = turn[a] /\ turn'[b] = turn[b]
    <3>1. Completed(a) \/ (turn[b].previous \in Turns /\ (a = turn[b].previous \/ Earlier(a, turn[b].previous)))
      BY <2>1 DEF Chained
    <3>2. Completed(a) => Completed(a)'
      BY <2>1 DEF Completed
    <3>3. turn[b].previous \in Turns /\ Earlier(a, turn[b].previous) => Earlier(a, turn[b].previous)'
      <4>. SUFFICES ASSUME NEW p \in Turns, p = turn[b].previous, Earlier(a, p)
                    PROVE  Earlier(a, turn[b].previous)'
        OBVIOUS
      <4>1. Earlier(a, p)'
        BY <1>4
      <4>. QED BY <2>1, <4>1 DEF Earlier
    <3>. QED BY <2>1, <3>1, <3>2, <3>3
  <2>2. CASE a \in Accepted /\ b = t /\ turn'[a] = turn[a]
    <3>1. CASE AllCompleted
      BY <2>2, <3>1, AllDone DEF Completed
    <3>2. CASE ~AllCompleted
      <4>1. PICK p \in Turns : p = Last /\ p = latest[s] /\ turn'[b].previous = p
        BY <1>1, <2>2, <3>2, LastTurn DEF LastKnown, AllCompleted
      <4>2. a = p \/ Earlier(a, p)
        BY <2>2, <3>2, <4>1, LastTurn DEF AllCompleted
      <4>3. a = p \/ Earlier(a, p)'
        BY <1>4, <4>2
      <4>. QED BY <4>1, <4>3 DEF Earlier
    <3>. QED BY <3>1, <3>2
  <2>. QED BY <1>9, <2>1, <2>2
<1>11. Alone'
  <2>. SUFFICES ASSUME NEW a \in Turns, NEW b \in Turns, Earlier(a, b)', Past(b)'
                PROVE  Completed(a)'
    BY DEF Alone
  <2>1. ~Past(t)'
    BY <1>1 DEF Past
  <2>2. Earlier(a, b) /\ turn'[a] = turn[a] /\ turn'[b] = turn[b]
    BY <1>9, <2>1
  <2>. QED BY <2>2 DEF Past, Completed, Alone
<1>12. LastKnown'
  <2>1. latest'[s] = t
    BY <1>1 DEF TypeOK
  <2>. QED BY <1>1, <1>4, <2>1 DEF LastKnown
<1>. QED BY <1>6, <1>7, <1>8, <1>10, <1>11, <1>12

-----------------------------------------------------------------------------
(* Answers, replies and snapshots                                          *)

\* A step leaves a turn's snapshot, and whether it is released and answered.
Still(u) ==
    /\ turn'[u].snapshot = turn[u].snapshot
    /\ turn'[u].stage = "closed" <=> turn[u].stage = "closed"
    /\ Completed(u)' <=> Completed(u)

SameEnds ==
    /\ published' = published
    /\ \A u \in Turns : turn'[u].stage = "closed" <=> turn[u].stage = "closed"

SameReplies == replies' = replies /\ (tail' = tail \/ (Intake /\ tail' = lane.turn))

SameSnapshots ==
    /\ snapshots' = snapshots /\ \A u \in Turns : Still(u)
    /\ lane.pc = "cleanup" => lane' = lane \/ Ended(lane.turn)

\* What a step that accepts no turn may publish, store and take of a turn.
Effects ==
    /\ SameEnds \/ \E t \in Turns : Flush(t)
    /\ SameReplies \/ \E t \in Turns : InnerStep(t) \/ Save(t)
    /\ SameSnapshots \/ \E t \in Turns : Cancel(t) \/ Settle(t) \/ Save(t) \/ Flush(t)
    /\ failed \subseteq failed' /\ (stored' \ failed' \subseteq stored \ failed \/ closing')

\* Turns that stay as they are have nothing published.
LEMMA StillSame ==
    ASSUME \A u \in Turns : Still(u), published' = published
    PROVE  SameEnds
BY DEF Still, SameEnds

\* A step without effects on the turns has none at all.
LEMMA SameEffects ==
    ASSUME \A u \in Turns : Still(u), UNCHANGED <<published, replies, tail, snapshots, stored, failed>>,
           lane.pc = "cleanup" => lane' = lane \/ Ended(lane.turn)
    PROVE  Effects
BY StillSame DEF Effects, SameReplies, SameSnapshots

\* One turn moves and keeps its snapshot and its release.
LEMMA StillOnly ==
    ASSUME NEW t \in Turns, Only(t), Still(t)
    PROVE  \A u \in Turns : Still(u)
BY DEF Only, Still, Completed

\* One turn moves before its release.
LEMMA StillTurn ==
    ASSUME NEW t \in Turns, Only(t), turn'[t].snapshot = turn[t].snapshot,
           ~Completed(t), turn'[t].stage \notin {"flushing", "closed"}
    PROVE  \A u \in Turns : Still(u)
BY StillOnly DEF Still, Completed

\* The bridge closes: turns only claim their terminal events.
LEMMA StillClosing ==
    ASSUME IInv, Close \/ CloseService, NEW u \in Turns
    PROVE  Still(u)
<1>. USE IsTyped DEF IInv
<1>1. turn[u] \in TurnRecord
  BY DEF Typed
<1>2. \/ turn'[u] = turn[u] \/ turn'[u] = CancelTask(turn[u])
      \/ turn'[u] = [turn[u] EXCEPT !.asked = TRUE]
  <2>1. CASE Close
    <3>1. CASE lane.pc = "cleanup"
      BY <2>1, <3>1 DEF Close, Typed, CleanupOK
    <3>. QED BY <2>1, <3>1 DEF Close
  <2>2. CASE CloseService
    BY <2>2 DEF CloseService, CloseTurn
  <2>. QED BY <2>1, <2>2
<1>3. CASE turn'[u] = turn[u]
  BY <1>3 DEF Still, Completed
<1>4. CASE turn'[u] = CancelTask(turn[u])
  BY <1>1, <1>4, CancelTaskRecord DEF Still, Completed
<1>5. CASE turn'[u] = [turn[u] EXCEPT !.asked = TRUE]
  <2>. DEFINE q == turn[u]
              r == turn'[u]
  <2>1. q \in TurnRecord /\ r = [q EXCEPT !.asked = TRUE]
    BY <1>1, <1>5
  <2>. HIDE DEF q, r
  <2>2. r.stage = q.stage /\ r.snapshot = q.snapshot
    BY <2>1 DEF TurnRecord
  <2>. QED BY <2>2 DEF q, r, Still, Completed
<1>. QED BY <1>2, <1>3, <1>4, <1>5

\* Every step has the effects of its action, or starts a turn.
LEMMA StepEffects ==
    ASSUME IInv, [Next]_vars
    PROVE  Effects \/ \E m \in Turns : Started(m)
<1>. USE DEF IInv, chat, history
<1>1. Typed /\ latest \in [Services -> Turns \cup {None}]
      /\ inner \in [Turns -> {"none", "active", "stopping"}]
  BY IsTyped DEF TypeOK
<1>2. turn' = turn => \A u \in Turns : Still(u)
  BY DEF Still, Completed
<1>3. CASE Store \/ Retry
  <2>1. CASE Quiet /\ Retry /\ lane' = Free /\ UNCHANGED <<turn, latest, accepted>>
    BY <1>2, <2>1, SameEffects DEF Retry
  <2>. QED BY <1>3, <2>1, Accepting
<1>4. CASE Open
  <2>1. lane.service \in Services /\ turn' = Supersede(lane.service)
        /\ UNCHANGED <<published, replies, tail, snapshots, stored, failed>> /\ lane.pc # "cleanup"
    BY <1>4 DEF Open, IntakeOK, Intake
  <2>2. \A u \in Turns : Still(u)
    <3>1. CASE ~Busy(lane.service)
      BY <1>1, <1>2, <2>1, <3>1, SupersedeTurn
    <3>2. CASE Busy(lane.service)
      <4>1. PICK t \in Turns : t = latest[lane.service]
        BY <1>1, <2>1, <3>2, SupersedeTurn
      <4>2. Only(t) /\ turn'[t].stage = turn[t].stage /\ turn'[t].snapshot = turn[t].snapshot
        BY <1>1, <2>1, <3>2, <4>1, SupersedeTurn
      <4>. QED BY <4>2, StillOnly DEF Still, Completed
    <3>. QED BY <3>1, <3>2
  <2>. QED BY <2>1, <2>2, SameEffects
<1>5. CASE StoreFails \/ Answer
  <2>2. CASE StoreFails
    <3>1. /\ UNCHANGED <<turn, published, replies, snapshots>> /\ lane.pc # "cleanup"
          /\ failed \subseteq failed' /\ stored' \ failed' \subseteq stored \ failed
          /\ (tail' = tail \/ (Intake /\ tail' = lane.turn))
      BY <2>2 DEF StoreFails, Intake
    <3>. QED BY <1>2, <3>1, StillSame DEF Effects, SameReplies, SameSnapshots
  <2>3. CASE Answer
    BY <1>2, <2>3, SameEffects DEF Answer
  <2>. QED BY <1>5, <2>2, <2>3
<1>6. CASE Publish \/ ReportArrives \/ ReportEnds
  BY <1>2, <1>6, SameEffects DEF Publish, ReportArrives, ReportEnds
<1>7. CASE Close
  <2>1. \A u \in Turns : Still(u)
    BY <1>7, StillClosing
  <2>2. UNCHANGED <<published, replies, failed, snapshots>> /\ closing'
        /\ (lane.pc = "cleanup" => lane' = lane)
        /\ (tail' = tail \/ (Intake /\ tail' = lane.turn))
    BY <1>7 DEF Close, Intake
  <2>. QED BY <2>1, <2>2, StillSame DEF Effects, SameReplies, SameSnapshots
<1>8. CASE CloseService
  <2>1. \A u \in Turns : Still(u)
    BY <1>8, StillClosing
  <2>. QED BY <1>8, <2>1, SameEffects DEF CloseService
<1>9. ASSUME NEW t \in Turns, NEW kind \in {"send", "retry"}, Request(t, kind)
      PROVE  Effects
  BY <1>2, <1>9, SameEffects, FreeTyped DEF Request
<1>10. ASSUME NEW t \in Turns, Cancel(t)
       PROVE  Effects
  <2>1. Only(t) /\ (turn'[t].stage = "closed" <=> turn[t].stage = "closed")
    BY <1>1, <1>10, CancelTurn
  <2>2. UNCHANGED <<published, replies, tail, stored, failed>>
    BY <1>10 DEF Cancel
  <2>. QED BY <1>10, <2>1, <2>2 DEF Effects, SameEnds, SameReplies, Only
<1>11. ASSUME NEW t \in Turns, InnerStep(t)
       PROVE  Effects
  <2>1. PICK result \in {"done", "error", "cancelled"} : InnerEnds(t, result)
    BY <1>11 DEF InnerStep
  <2>2. turn[t].stage = "running"
    BY <2>1 DEF InnerEnds, Record
  <2>3. \A u \in Turns : Still(u)
    BY <1>1, <2>1, <2>2, InnerTurn, StillTurn DEF Completed
  <2>4. UNCHANGED <<published, snapshots, stored, failed, lane>>
    BY <2>1 DEF InnerEnds
  <2>. QED BY <1>11, <2>3, <2>4, StillSame DEF Effects, SameSnapshots
<1>12. ASSUME NEW t \in Turns, FirstStep(t)
       PROVE  Effects
  <2>1. \A u \in Turns : Still(u)
    BY <1>1, <1>12, FirstStepTurn, StillTurn DEF FirstStep, Completed
  <2>. QED BY <1>12, <2>1, SameEffects DEF FirstStep
<1>13. ASSUME NEW t \in Turns, Begin(t)
       PROVE  Effects
  <2>1. \A u \in Turns : Still(u)
    BY <1>1, <1>13, BeginTurn, StillTurn DEF Begin, Completed
  <2>. QED BY <1>13, <2>1, SameEffects DEF Begin
<1>14. ASSUME NEW t \in Turns, SyncStep(t)
       PROVE  Effects
  <2>1. PICK result \in {"done", "error"} : Sync(t, result)
    BY <1>14 DEF SyncStep
  <2>2. \A u \in Turns : Still(u)
    BY <1>1, <2>1, SyncTurn, StillTurn DEF Sync, Completed
  <2>. QED BY <2>1, <2>2, SameEffects DEF Sync
<1>15. ASSUME NEW t \in Turns, Settle(t)
       PROVE  Effects
  <2>1. Only(t) /\ (turn'[t].stage = "closed" <=> turn[t].stage = "closed")
    BY <1>1, <1>15, SettleTurn DEF Settle
  <2>2. UNCHANGED <<published, replies, tail, stored, failed>>
    BY <1>15 DEF Settle
  <2>. QED BY <1>15, <2>1, <2>2 DEF Effects, SameEnds, SameReplies, Only
<1>16. ASSUME NEW t \in Turns, Save(t)
       PROVE  Effects
  <2>1. Only(t) /\ (turn'[t].stage = "closed" <=> turn[t].stage = "closed")
    BY <1>1, <1>16, SaveTurn DEF Save
  <2>2. UNCHANGED <<published, stored, failed>>
    BY <1>16 DEF Save
  <2>. QED BY <1>16, <2>1, <2>2 DEF Effects, SameEnds, Only
<1>17. ASSUME NEW t \in Turns, Flush(t)
       PROVE  Effects
  BY <1>17 DEF Flush, Effects, SameReplies
<1>18. ASSUME NEW t \in Turns, TaskDone(t)
       PROVE  Effects
  <2>1. Still(t)
    BY <1>1, <1>18, DoneTurn DEF Still, Completed
  <2>2. \A u \in Turns : Still(u)
    BY <1>1, <1>18, <2>1, DoneTurn, StillOnly
  <2>. QED BY <1>18, <2>2, SameEffects DEF TaskDone
<1>19. CASE UNCHANGED vars
  BY <1>2, <1>19, SameEffects DEF vars
<1>. QED BY <1>3, <1>4, <1>5, <1>6, <1>7, <1>8, <1>9, <1>10, <1>11, <1>12, <1>13, <1>14,
            <1>15, <1>16, <1>17, <1>18, <1>19 DEF Next, LaneStep, RunnerStep

-----------------------------------------------------------------------------
(* The properties are preserved                                            *)

\* What every step does to the turns' messages.
LEMMA Messages ==
    ASSUME IInv, Quiet, NEW u \in Turns
    PROVE  /\ turn[u].message = turn'[u].message
           /\ turn[u].stage = "new" \/ turn[u].message \in stored
           /\ turn[u].stage = "new" => turn[u].message = None
           /\ turn'[u].stage \in {"scheduled", "waiting", "running"} =>
                 turn[u].stage \in {"scheduled", "waiting", "running"}
BY DEF IInv, TypeOK, Quiet, Permitted, Record, NewTurn

\* Every step keeps the types.
LEMMA NextType ==
    ASSUME IInv, [Next]_vars
    PROVE  TypeOK' /\ LaneType'
<1>1. Others'
  BY OthersStep
<1>2. Typed' /\ \A u \in Turns : turn'[u].stage = "new" \/ turn'[u].message \in stored'
  <2>1. CASE Quiet /\ Frame
    <3>1. Typed'
      BY <2>1 DEF Quiet
    <3>. QED BY <2>1, <3>1, Messages, QuietTurns DEF Frame
  <2>2. ASSUME NEW m \in Turns, Started(m)
        PROVE  Typed' /\ \A u \in Turns : turn'[u].stage = "new" \/ turn'[u].message \in stored'
    <3>1. PICK t \in Turns : Typed' /\ Only(t) /\ turn'[t].message = m
      BY <2>2, StartedTurn
    <3>2. m \in stored' /\ stored \subseteq stored'
      BY <2>2, TurnsAssumption DEF Started, IInv, TypeOK, Turns
    <3>. QED BY <3>1, <3>2 DEF Only, IInv, TypeOK
  <2>. QED BY <2>1, <2>2, QuietFrame
<1>3. TypeOK'
  BY <1>1, <1>2 DEF Typed, TurnRecord, Others, TypeOK
<1>. QED BY <1>1, <1>3 DEF Others

\* Only a turn that is closed has its event published.
LEMMA NextPublished ==
    ASSUME IInv, [Next]_vars
    PROVE  published' \in Seq(Turns) /\ OneTerminal'
<1>. USE DEF IInv
<1>. DEFINE At(t) == {i \in 1..Len(published) : published[i] = t}
            n == Len(published)
<1>1. published \in Seq(Turns) /\ n \in Nat
  OBVIOUS
<1>2. CASE SameEnds
  <2>1. \A t \in Turns : {i \in 1..Len(published') : published'[i] = t} = At(t)
    BY <1>2 DEF SameEnds
  <2>2. \A t \in Turns : turn'[t].stage = "closed" <=> turn[t].stage = "closed"
    BY <1>2 DEF SameEnds
  <2>. QED BY <1>1, <1>2, <2>1, <2>2 DEF SameEnds, OneTerminal
<1>3. ASSUME NEW t \in Turns, Flush(t)
      PROVE  published' \in Seq(Turns) /\ OneTerminal'
  <2>1. /\ published' = Append(published, t) /\ turn[t].stage = "flushing"
        /\ Only(t) /\ turn'[t].stage = "closed"
    BY <1>3, FlushTurn, IsTyped DEF Flush
  <2>2. /\ Len(published') = n + 1 /\ published'[n + 1] = t
        /\ \A i \in 1..n : published'[i] = published[i]
        /\ published' \in Seq(Turns)
    BY <1>1, <2>1
  <2>. SUFFICES ASSUME NEW u \in Turns
                PROVE  Cardinality({i \in 1..Len(published') : published'[i] = u})
                       = IF turn'[u].stage = "closed" THEN 1 ELSE 0
    BY <2>2 DEF OneTerminal
  <2>3. Cardinality(At(u)) = IF turn[u].stage = "closed" THEN 1 ELSE 0
    BY DEF OneTerminal
  <2>4. CASE u = t
    <3>1. {i \in 1..Len(published') : published'[i] = u} = At(u) \cup {n + 1} /\ n + 1 \notin At(u)
      BY <1>1, <2>2, <2>4
    <3>2. IsFiniteSet(At(u)) /\ Cardinality(At(u)) = 0
      <4>1. IsFiniteSet(1..n)
        BY <1>1, FS_Interval
      <4>. QED BY <2>1, <2>3, <2>4, <4>1, FS_Subset
    <3>3. Cardinality(At(u) \cup {n + 1}) = 1
      <4>. HIDE DEF At, n
      <4>1. Cardinality(At(u) \cup {n + 1}) = Cardinality(At(u)) + 1
        BY <3>1, <3>2, FS_AddElement, Zenon
      <4>. QED BY <3>2, <4>1
    <3>. QED BY <2>1, <2>4, <3>1, <3>3
  <2>5. CASE u # t
    <3>1. {i \in 1..Len(published') : published'[i] = u} = At(u)
      BY <1>1, <2>2, <2>5
    <3>2. turn'[u] = turn[u]
      BY <2>1, <2>5 DEF Only
    <3>. QED BY <2>3, <3>1, <3>2
  <2>. QED BY <2>4, <2>5
<1>4. ASSUME NEW m \in Turns, Started(m)
      PROVE  SameEnds
  BY <1>4, StartedTurn DEF Started, SameEnds, Only
<1>. QED BY <1>2, <1>3, <1>4, StepEffects DEF Effects

\* Every step leaves a stored message with its turn.
LEMMA NextStored ==
    ASSUME IInv, [Next]_vars
    PROVE  StoredStarts'
<1>. USE DEF IInv
<1>1. \A t \in stored \ failed : t \in Turns /\ (turn[t].stage # "new" \/ closing)
  BY DEF StoredStarts, TypeOK
<1>2. ASSUME NEW m \in Turns, Started(m)
      PROVE  StoredStarts'
  <2>1. PICK t \in Turns : t = lane.turn /\ Only(t) /\ turn'[t].stage = "scheduled"
    BY <1>2, StartedTurn
  <2>2. closing' = closing /\ failed' = failed /\ stored' \subseteq stored \cup {t}
    BY <1>2, <2>1 DEF Started
  <2>. QED BY <1>1, <2>1, <2>2 DEF StoredStarts, Only
<1>3. CASE Quiet /\ Frame /\ Effects
  BY <1>1, <1>3, QuietTurns DEF Effects, Frame, StoredStarts
<1>. QED BY <1>2, <1>3, StepEffects, QuietFrame

\* A reply is stored for a turn that has none and is not released.
LEMMA ReplyAdded ==
    ASSUME IInv, NEW t \in Turns, InnerStep(t) \/ Save(t)
    PROVE  /\ ~Completed(t) /\ turn'[t].stage \notin {"scheduled", "waiting", "running"}
           /\ Only(t) /\ turn'[t].message = turn[t].message
           /\ \/ UNCHANGED <<replies, tail>>
              \/ replies[t] = 0 /\ replies' = [replies EXCEPT ![t] = 1] /\ tail' = None
<1>. USE DEF IInv
<1>1. Typed /\ Record(t) /\ replies \in [Turns -> Nat]
  BY IsTyped DEF TypeOK
<1>2. CASE InnerStep(t)
  <2>1. PICK result \in {"done", "error", "cancelled"} : InnerEnds(t, result)
    BY <1>2 DEF InnerStep
  <2>2. turn[t].stage = "running" /\ replies[t] = 0
    BY <2>1 DEF InnerEnds, Record, Replies
  <2>3. /\ Only(t) /\ turn'[t].message = turn[t].message /\ ~Completed(t)
        /\ turn'[t].stage \notin {"scheduled", "waiting", "running"}
    BY <1>1, <2>1, <2>2, InnerTurn DEF Completed, Fixed
  <2>4. \/ UNCHANGED <<replies, tail>>
        \/ replies' = [replies EXCEPT ![t] = 1] /\ tail' = None
    BY <2>1, <2>2 DEF InnerEnds, AddReply
  <2>. QED BY <2>2, <2>3, <2>4
<1>3. CASE Save(t)
  <2>1. turn[t].stage = "saving"
    BY <1>3 DEF Save
  <2>2. /\ Only(t) /\ turn'[t].message = turn[t].message /\ ~Completed(t)
        /\ turn'[t].stage \notin {"scheduled", "waiting", "running"}
    BY <1>1, <1>3, <2>1, SaveTurn DEF Completed, Fixed
  <2>3. \/ UNCHANGED <<replies, tail>>
        \/ replies[t] = 0 /\ replies' = [replies EXCEPT ![t] = 1] /\ tail' = None
    BY <1>3 DEF Save, AddReply, NeedsRow
  <2>. QED BY <2>2, <2>3
<1>. QED BY <1>2, <1>3

\* Every step leaves a message with at most one reply.
LEMMA NextReplies ==
    ASSUME IInv, [Next]_vars
    PROVE  Replies' /\ OneReply'
<1>. USE DEF IInv
<1>1. /\ replies \in [Turns -> Nat] /\ tail \in stored \cup {None} /\ None \notin Turns
      /\ stored \subseteq Turns
  BY TurnsAssumption DEF TypeOK, Turns
<1>2. CASE Quiet /\ SameReplies
  <2>1. replies' = replies /\ (tail' = tail \/ (Intake /\ tail' = lane.turn))
    BY <1>2 DEF SameReplies
  <2>2. \A t \in Turns : turn'[t].stage \in {"scheduled", "waiting", "running"} => replies'[t] = 0
    BY <1>2, <2>1, Messages DEF Replies
  <2>3. tail' # None => \A t \in Turns : turn'[t].message = tail' => replies'[t] = 0
    <3>1. CASE tail' = tail
      BY <1>2, <2>1, <3>1, Messages DEF Replies
    <3>2. CASE Intake /\ tail' = lane.turn
      <4>1. lane.turn \in Turns \ stored
        BY <3>2 DEF IntakeOK
      <4>. QED BY <1>1, <1>2, <3>2, <4>1, Messages
    <3>. QED BY <2>1, <3>1, <3>2
  <2>4. \A t \in Turns : Completed(t) => Completed(t)'
    BY <1>2, QuietTurns
  <2>5. \A t \in Turns : turn'[t].message = turn[t].message
    BY <1>2, QuietTurns
  <2>. QED BY <2>1, <2>2, <2>3, <2>4, <2>5 DEF Replies, OneReply
<1>3. ASSUME NEW t \in Turns, InnerStep(t) \/ Save(t), Quiet
      PROVE  Replies' /\ OneReply'
  <2>1. /\ ~Completed(t) /\ turn'[t].stage \notin {"scheduled", "waiting", "running"}
        /\ \A u \in Turns \ {t} : turn'[u] = turn[u]
        /\ \A u \in Turns : turn'[u].message = turn[u].message
        /\ \/ UNCHANGED <<replies, tail>>
           \/ replies[t] = 0 /\ replies' = [replies EXCEPT ![t] = 1] /\ tail' = None
    BY <1>3, ReplyAdded DEF Only
  <2>2. \A u \in Turns : Completed(u) => Completed(u)'
    BY <1>3, QuietTurns
  <2>3. CASE UNCHANGED <<replies, tail>>
    <3>1. SameReplies
      BY <2>3 DEF SameReplies
    <3>. QED BY <1>2, <1>3, <3>1
  <2>4. CASE replies[t] = 0 /\ replies' = [replies EXCEPT ![t] = 1] /\ tail' = None
    <3>1. \A u \in Turns : /\ u # t => replies'[u] = replies[u]
                           /\ replies'[t] = 1
      BY <1>1, <2>4
    \* Another turn of the message is released, and has stored no reply.
    <3>2. ASSUME NEW u \in Turns, u # t, turn[u].message = turn[t].message, turn[t].message # None
          PROVE  Completed(u) /\ Completed(u)' /\ replies[u] = 0 /\ replies'[u] = 0
      BY <1>1, <2>1, <2>2, <3>1, <3>2 DEF Replies
    <3>3. \A u \in Turns : turn'[u].stage \in {"scheduled", "waiting", "running"} => replies'[u] = 0
      BY <2>1, <3>1 DEF Replies
    <3>4. ASSUME NEW u \in Turns, NEW v \in Turns, u # v,
                 turn'[u].message = turn'[v].message, turn'[u].message # None
          PROVE  /\ Completed(u)' \/ Completed(v)'
                 /\ replies'[u] > 0 => Completed(v)'
                 /\ replies'[u] + replies'[v] <= 1
      <4>1. turn[u].message = turn[v].message /\ turn[u].message # None
        BY <2>1, <3>4
      <4>2. CASE u = t
        BY <3>1, <3>2, <3>4, <4>1, <4>2
      <4>3. CASE v = t
        BY <3>1, <3>2, <3>4, <4>1, <4>3
      <4>4. CASE u # t /\ v # t
        BY <2>2, <3>1, <3>4, <4>1, <4>4 DEF Replies, OneReply
      <4>. QED BY <4>2, <4>3, <4>4
    <3>5. \A u \in Turns : replies'[u] <= 1
      BY <3>1 DEF OneReply
    <3>. QED BY <2>4, <3>3, <3>4, <3>5 DEF Replies, OneReply
  <2>. QED BY <2>1, <2>3, <2>4
<1>4. ASSUME NEW m \in Turns, Started(m)
      PROVE  Replies' /\ OneReply'
  <2>1. PICK t \in Turns, s \in Services :
           /\ t = lane.turn /\ s = lane.service /\ Intake /\ ~closing
           /\ turn[t] = NewTurn /\ replies[t] = 0 /\ t \notin stored /\ t \notin Accepted
           /\ Only(t) /\ turn'[t].stage = "scheduled" /\ turn'[t].message = m
    BY <1>4, StartedTurn
  <2>2. replies' = replies /\ (\A u \in Turns \ {t} : turn'[u] = turn[u])
    BY <1>4, <2>1 DEF Started, Only
  \* The turns of this message are released, and stored no reply.
  <2>3. ASSUME NEW u \in Turns \ {t}, turn[u].message = m
        PROVE  Completed(u) /\ Completed(u)' /\ replies[u] = 0
    <3>1. turn[u].stage # "new" /\ m \in stored /\ u \in Accepted
      BY <1>1, <2>3 DEF TypeOK, Record, NewTurn, Sorted
    <3>2. m = tail /\ ~Busy(s)
      BY <1>4, <2>1, <3>1 DEF Started
    <3>3. AllCompleted
      <4>1. ASSUME ~AllCompleted PROVE FALSE
        <5>1. latest[s] = Last /\ Last \in Turns /\ turn[Last].service \in Owners
              /\ latest[turn[Last].service] = Last
          BY <2>1, <4>1, LastOwner DEF LastKnown
        <5>2. Busy(s)
          BY <5>1 DEF Owners, Owns, Busy
        <5>. QED BY <3>2, <5>2
      <4>. QED BY <4>1
    <3>4. Completed(u) /\ replies[u] = 0
      BY <1>1, <2>3, <3>1, <3>2, <3>3, AllDone DEF Replies
    <3>. QED BY <2>2, <3>4 DEF Completed
  <2>4. \A u \in Turns : turn'[u].stage \in {"scheduled", "waiting", "running"} => replies'[u] = 0
    BY <2>1, <2>2 DEF Replies
  <2>5. tail' = m
    BY <1>4 DEF Started
  <2>6. \A u \in Turns : turn'[u].message = tail' => replies'[u] = 0
    BY <2>1, <2>2, <2>3, <2>5
  <2>7. ASSUME NEW u \in Turns, NEW v \in Turns, u # v,
               turn'[u].message = turn'[v].message, turn'[u].message # None
        PROVE  /\ Completed(u)' \/ Completed(v)'
               /\ replies'[u] > 0 => Completed(v)'
               /\ replies'[u] + replies'[v] <= 1
    <3>1. CASE u = t
      <4>1. turn[v].message = m /\ v # t
        BY <2>1, <2>2, <2>7, <3>1
      <4>. QED BY <2>1, <2>2, <2>3, <3>1, <4>1
    <3>2. CASE v = t
      <4>1. turn[u].message = m /\ u # t
        BY <2>1, <2>2, <2>7, <3>2
      <4>. QED BY <2>1, <2>2, <2>3, <3>2, <4>1
    <3>3. CASE u # t /\ v # t
      BY <2>2, <2>7, <3>3 DEF Replies, OneReply, Completed
    <3>. QED BY <3>1, <3>2, <3>3
  <2>8. \A u \in Turns : replies'[u] <= 1
    BY <2>2 DEF OneReply
  <2>. QED BY <2>4, <2>6, <2>7, <2>8 DEF Replies, OneReply
<1>. QED BY <1>2, <1>3, <1>4, StepEffects, QuietFrame DEF Effects

\* Every step leaves the snapshots to turns that are not released.
LEMMA NextSnapshots ==
    ASSUME IInv, [Next]_vars
    PROVE  SnapshotOK' /\ SnapshotsSettled'
<1>. USE DEF IInv
<1>1. /\ snapshots \subseteq Turns \cup {Report} /\ None \notin Turns \cup {Report}
      /\ Typed /\ inner \in [Turns -> {"none", "active", "stopping"}]
  <2>1. None \notin Turns \cup {Report}
    BY TurnsAssumption DEF Turns
  <2>. QED BY <2>1, IsTyped DEF TypeOK
<1>2. CASE Quiet /\ SameSnapshots
  <2>1. snapshots' = snapshots /\ \A u \in Turns : turn'[u].snapshot = turn[u].snapshot
                                                   /\ (Completed(u)' <=> Completed(u))
    BY <1>2 DEF SameSnapshots, Still
  <2>2. lane.pc = "cleanup" => lane' = lane \/ Completed(lane.turn)
    BY <1>2 DEF SameSnapshots, Ended, Completed
  <2>. QED BY <2>1, <2>2 DEF SnapshotOK, SnapshotsSettled
\* No snapshot is left when the lane is free.
<1>3. ASSUME NEW t \in Turns, Cancel(t)
      PROVE  SnapshotOK' /\ SnapshotsSettled'
  <2>1. /\ lane.pc # "cleanup" /\ lane'.pc = "cleanup" /\ lane'.turn = t
    BY <1>3, FreeTyped DEF Cancel
  <2>2. snapshots = {} /\ \A u \in Turns : turn[u].snapshot = None \/ Completed(u)
    BY <1>1, <2>1 DEF SnapshotOK, SnapshotsSettled
  <2>3. /\ \A u \in Turns \ {t} : turn'[u] = turn[u]
        /\ \/ turn'[t].stage = turn[t].stage
           \/ turn[t].stage = "syncing" /\ turn'[t].stage = "claimed"
        /\ \/ turn'[t].snapshot = turn[t].snapshot /\ snapshots' = snapshots
           \/ \E w \in Turns \cup {Report} :
                 ~Completed(t) /\ turn'[t].snapshot = w /\ snapshots' = snapshots \cup {w}
    BY <1>1, <1>3, CancelTurn DEF Only
  <2>4. ~Completed(t) => ~Completed(t)'
    BY <2>3 DEF Completed
  <2>5. SnapshotOK'
    BY <2>1, <2>2, <2>3 DEF SnapshotOK, Completed
  <2>6. SnapshotsSettled'
    BY <2>2, <2>3, <2>4 DEF SnapshotsSettled
  <2>. QED BY <2>5, <2>6
\* The snapshot of a turn that is released is dropped.
<1>4. ASSUME NEW t \in Turns, Settle(t) \/ Save(t) \/ Flush(t)
      PROVE  SnapshotOK' /\ SnapshotsSettled'
  <2>1. lane' = lane /\ Only(t) /\ turn'[t].snapshot \in {turn[t].snapshot, None}
    BY <1>1, <1>4, SettleTurn, SaveTurn, FlushTurn DEF Settle, Save, Flush, chat
  <2>2. \A u \in Turns \ {t} : turn'[u] = turn[u]
    BY <2>1 DEF Only
  <2>3. \/ snapshots' = snapshots \ {turn[t].snapshot}
        \/ snapshots' = snapshots /\ (turn[t].snapshot = None \/ Completed(t))
        \/ snapshots' = snapshots /\ turn'[t].snapshot = turn[t].snapshot /\ ~Completed(t)'
    <3>1. CASE Settle(t)
      <4>1. \/ turn'[t].stage = "saving" /\ snapshots' = snapshots
            \/ snapshots' = snapshots /\ turn[t].snapshot = None
            \/ snapshots' = snapshots \ {turn[t].snapshot}
        BY <1>1, <3>1, SettleTurn
      <4>2. turn'[t].snapshot = turn[t].snapshot
        BY <1>1, <3>1, SettleTurn
      <4>. QED BY <4>1, <4>2 DEF Completed
    <3>2. CASE Save(t)
      BY <3>2 DEF Save
    <3>3. CASE Flush(t)
      BY <3>3 DEF Flush, Completed
    <3>. QED BY <1>4, <3>1, <3>2, <3>3
  <2>4. Completed(t) => Completed(t)'
    BY <1>1, <1>4, SettleTurn, SaveTurn, FlushTurn DEF Completed, Settle, Save, Flush
  <2>5. SnapshotOK'
    BY <2>1, <2>2, <2>4 DEF SnapshotOK, Completed
  <2>6. ASSUME NEW w \in snapshots'
        PROVE  \E u \in Turns : turn'[u].snapshot = w /\ ~Completed(u)'
    <3>1. w \in snapshots /\ w # None
      BY <1>1, <2>3
    <3>2. PICK u \in Turns : turn[u].snapshot = w /\ ~Completed(u)
      BY <3>1 DEF SnapshotsSettled
    <3>3. CASE u = t
      BY <2>3, <3>1, <3>2, <3>3
    <3>4. CASE u # t
      BY <2>2, <3>2, <3>4 DEF Completed
    <3>. QED BY <3>3, <3>4
  <2>. QED BY <2>5, <2>6 DEF SnapshotsSettled
<1>5. ASSUME NEW m \in Turns, Started(m)
      PROVE  SnapshotOK' /\ SnapshotsSettled'
  <2>1. PICK t \in Turns : /\ turn[t].stage = "new" /\ turn[t] = NewTurn /\ Intake
                           /\ Only(t) /\ turn'[t].snapshot = None
    BY <1>5, StartedTurn
  <2>2. lane.pc # "cleanup" /\ snapshots' = snapshots
    BY <1>5, <2>1 DEF Started, Intake
  <2>3. snapshots = {} /\ \A u \in Turns : turn[u].snapshot = None \/ Completed(u)
    BY <1>1, <2>2 DEF SnapshotOK, SnapshotsSettled
  <2>4. \A u \in Turns \ {t} : turn'[u] = turn[u]
    BY <2>1 DEF Only
  <2>. QED BY <2>1, <2>2, <2>3, <2>4 DEF SnapshotOK, SnapshotsSettled, Completed
<1>. QED BY <1>2, <1>3, <1>4, <1>5, StepEffects, QuietFrame DEF Effects

-----------------------------------------------------------------------------
(* The theorems                                                            *)

\* The invariant holds of a session that has had no request.
LEMMA InitIInv == Init => IInv
<1>. SUFFICES ASSUME Init PROVE IInv
  OBVIOUS
<1>. USE TurnsAssumption DEF Init
<1>1. \A t \in Turns : turn[t] = NewTurn /\ inner[t] = "none" /\ replies[t] = 0
  OBVIOUS
<1>2. TypeOK
  <2>1. turn \in [Turns -> TurnRecord]
    BY NewTyped
  <2>2. current \in Services
    BY DEF Services
  <2>. QED BY <1>1, <2>1, <2>2 DEF TypeOK, TurnRecord, NewTurn, Free
<1>3. LaneType /\ lane.pc = "free"
  BY FreeTyped
<1>4. \A t \in Turns : Record(t)
  BY <1>1 DEF Record, NewTurn
<1>5. IntakeOK /\ CleanupOK
  BY <1>3 DEF IntakeOK, CleanupOK, Intake
<1>6. accepted = <<>> /\ Len(accepted) = 0 /\ published = <<>> /\ Len(published) = 0
  OBVIOUS
<1>7. Accepted = {} /\ \A t, u \in Turns : ~Earlier(t, u)
  BY <1>6 DEF Accepted, Earlier
<1>8. Sorted /\ LastKnown /\ Chained /\ Alone
  BY <1>1, <1>6, <1>7 DEF Sorted, LastKnown, AllCompleted, Chained, Alone, NewTurn
<1>9. published \in Seq(Turns) /\ OneTerminal
  <2>1. \A t \in Turns : {i \in 1..Len(published) : published[i] = t} = {}
    BY <1>6
  <2>. QED BY <1>1, <1>6, <2>1, FS_EmptySet DEF OneTerminal, NewTurn
<1>10. StoredStarts /\ SnapshotOK /\ SnapshotsSettled
  BY <1>1 DEF StoredStarts, SnapshotOK, SnapshotsSettled, NewTurn
<1>11. Replies /\ OneReply
  BY <1>1 DEF Replies, OneReply, NewTurn
<1>. QED BY <1>2, <1>3, <1>4, <1>5, <1>8, <1>9, <1>10, <1>11 DEF IInv

\* Every step preserves it.
LEMMA NextIInv == IInv /\ [Next]_vars => IInv'
<1>. SUFFICES ASSUME IInv, [Next]_vars PROVE IInv'
  OBVIOUS
<1>1. /\ \A t \in Turns : Record(t)'
      /\ IntakeOK' /\ CleanupOK' /\ Sorted' /\ LastKnown' /\ Chained' /\ Alone'
  <2>1. CASE Quiet /\ Frame
    BY <2>1, OthersStep, QuietOrder, QuietIntake, QuietLast DEF Quiet
  <2>2. CASE \E m \in Turns : Started(m)
    BY <2>2, StartedOrder
  <2>. QED BY <2>1, <2>2, QuietFrame
<1>. QED BY <1>1, NextType, NextPublished, NextStored, NextSnapshots, NextReplies DEF IInv

\* IInv is an inductive invariant of the specification, for every number of
\* turns and generations.
THEOREM Inductive == Spec => []IInv
BY InitIInv, NextIInv, PTL DEF Spec

\* The variables keep the types the code gives them.
THEOREM TypeCorrect == Spec => []TypeOK
<1>1. IInv => TypeOK
  BY DEF IInv
<1>. QED BY <1>1, Inductive, PTL

\* Whoever finishes a turn, the runner or the late finisher of a task that
\* never ran, its terminal event is published once (chat_service.py:764).
THEOREM AnsweredOnce == Spec => []OneTerminal
<1>1. IInv => OneTerminal
  BY DEF IInv
<1>. QED BY <1>1, Inductive, PTL

\* A turn works when every turn accepted before it has stored what it leaves
\* and released the session, also across generations (chat_service.py:183, 712).
THEOREM WorkAlone == Spec => []WorksAlone
<1>1. IInv => WorksAlone
  BY DEF IInv, Alone, Past, WorksAlone
<1>. QED BY <1>1, Inductive, PTL

\* A message whose row chat.send stored has its turn, unless an effect that
\* follows the row failed or the bridge closes in between (chat_requests.py:230).
THEOREM StoredStart == Spec => []StoredStarts
<1>1. IInv => StoredStarts
  BY DEF IInv
<1>. QED BY <1>1, Inductive, PTL

\* However often a message is retried, cancelled and superseded, one reply of
\* it is stored (chat_service.py:350, chat_requests.py:109).
THEOREM RepliedOnce == Spec => []OneReply
<1>1. IInv => OneReply
  BY DEF IInv
<1>. QED BY <1>1, Inductive, PTL

\* The snapshot that a cancel took is stored or dropped before the session is
\* released (chat_service.py:203).
THEOREM SnapshotSettled == Spec => []SnapshotsSettled
<1>1. IInv => SnapshotsSettled
  BY DEF IInv
<1>. QED BY <1>1, Inductive, PTL

\* Only the turn that a cancel names is interrupted, unless the bridge closes
\* (chat_service.py:203).
THEOREM CancelStops == Spec => CancelSpares
<1>1. ASSUME IInv, [Next]_vars, NEW t \in Turns, inner[t] = "active", inner'[t] = "stopping"
      PROVE  lane'.turn = t \/ closing'
  <2>. USE <1>1 DEF IInv
  <2>1. Typed /\ inner \in [Turns -> {"none", "active", "stopping"}]
    BY IsTyped DEF TypeOK
  <2>2. ASSUME NEW u \in Turns, Cancel(u) PROVE lane'.turn = t
    <3>1. inner'[t] = inner[t] \/ t = u
      BY <2>1, <2>2, CancelTurn
    <3>2. lane'.turn = u
      BY <2>2 DEF Cancel
    <3>. QED BY <3>1, <3>2
  <2>3. CASE Close \/ CloseService
    BY <2>3 DEF Close, CloseService
  <2>4. ASSUME NEW u \in Turns, InnerStep(u) \/ RunnerStep(u) PROVE FALSE
    <3>1. inner' = inner \/ inner' = [inner EXCEPT ![u] = "none"]
                         \/ inner' = [inner EXCEPT ![u] = "active"]
      BY <2>4 DEF InnerStep, InnerEnds, RunnerStep, FirstStep, Begin, SyncStep, Sync, Settle,
                  Save, Flush, TaskDone
    <3>. QED BY <2>1, <3>1
  <2>5. ASSUME inner' = inner PROVE FALSE
    BY <2>5
  <2>. QED BY <2>2, <2>3, <2>4, <2>5 DEF Next, LaneStep, Open, Store, StoreFails, Retry, Answer,
              Request, Publish, ReportArrives, ReportEnds, vars
<1>2. IInv /\ [Next]_vars => [\A t \in Turns : inner[t] = "active" /\ inner'[t] = "stopping"
                                 => lane'.turn = t \/ closing']_vars
  BY <1>1
<1>. QED BY <1>2, Inductive, PTL DEF Spec, CancelSpares
=============================================================================
