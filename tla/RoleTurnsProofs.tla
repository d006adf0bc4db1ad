-------------------------- MODULE RoleTurnsProofs ---------------------------
(***************************************************************************)
(* Proofs about RoleTurns for every set of turns, ticks, operations, chats *)
(* and senders, and for replies of any length.                             *)
(*                                                                         *)
(* The inductive invariant IInv has a part per mechanism: the gate and its *)
(* claims, the rows of a delivery (Delivery), the owner's plans (Planned,  *)
(* Registered), the clock (Stamped) and the order of a chat (InLine,       *)
(* Behind, Tailed).  A lemma for each part shows that steps preserve it.   *)
(***************************************************************************)
EXTENDS RoleTurns, SequenceTheorems, FiniteSetTheorems, TLAPS

\* Rows are decided message by message: what precedes the current one is sent,
\* what follows it has no row, and only a message being sent is undecided.
Delivery ==
    \A a \in Replies :
        /\ \A i \in Messages(a) : /\ i < next[a] => status[a][i] = "sent"
                                  /\ i > next[a] => status[a][i] = "none"
        /\ at[a] \in {"new", "queued", "gate", "working", "storing"} =>
              status[a][next[a]] = "none"
        /\ at[a] \in {"pacing", "regate"} =>
              status[a][next[a]] = "sent" /\ next[a] < Size[a]
        /\ status[a][next[a]] = "pending" => at[a] = "sending"
        /\ status[a][next[a]] = "unmarked" => a \in Ticks

\* Replies the owner has to answer for.
Active == {t \in Turns : at[t] \notin {"new", "over"}}
          \cup {k \in Ticks : at[k] \notin {"new", "gate", "over"}}

\* An active reply has a plan in force or was told to stop; while the owner is
\* stopped all were.
Planned ==
    /\ Active \subseteq plans \cup invalidated
    /\ stopped => Active \subseteq invalidated

\* A turn that was not superseded is its sender's latest in the chat.
Registered ==
    \A t \in Turns : t \in Active \ invalidated => latest[Key(t)] = t

\* No state is newer than the clock, none seen newer than the one in force, and
\* a delivery's stamp is not older than what its reply was generated from.
Stamped ==
    /\ mood <= clock /\ last <= clock
    /\ \A a \in Replies :
          /\ seen[a] <= mood /\ stamp[a] <= clock
          /\ at[a] \in Delivering => seen[a] <= stamp[a]

\* Turns are accepted once.
AcceptedOnce ==
    /\ \A t \in Turns : at[t] # "new" <=> \E i \in DOMAIN accepted : accepted[i] = t
    /\ \A i, j \in DOMAIN accepted : accepted[i] = accepted[j] => i = j

Over(i) == at[accepted[i]] = "over"
SameChat(i, j) == ChatOf[accepted[i]] = ChatOf[accepted[j]]

\* A turn leaves its chat's queue after all turns accepted before it are over.
InLine ==
    \A i, j \in DOMAIN accepted :
        i < j /\ SameChat(i, j) /\ at[accepted[j]] # "queued" => Over(i)

\* The turn accepted just before one in its chat is over with all before it, or
\* the later one waits for it.
FirstOfChat(j) == \A i \in DOMAIN accepted : i < j /\ SameChat(i, j) => Over(i)
WaitsFor(j, p) ==
    /\ p < j /\ SameChat(p, j) /\ accepted[p] \in behind[accepted[j]]
    /\ \A i \in DOMAIN accepted : i < j /\ SameChat(i, j) => i <= p
Behind ==
    \A j \in DOMAIN accepted :
        FirstOfChat(j) \/ \E p \in DOMAIN accepted : WaitsFor(j, p)

\* A chat without a tail is idle; a tail is the chat's last accepted turn.
LastOfChat(p, c) ==
    /\ ChatOf[accepted[p]] = c
    /\ \A i \in DOMAIN accepted : ChatOf[accepted[i]] = c => i <= p
Tailed ==
    \A c \in Chats :
        /\ tails[c] = Nobody =>
              \A i \in DOMAIN accepted : ChatOf[accepted[i]] = c => Over(i)
        /\ tails[c] # Nobody =>
              \E p \in DOMAIN accepted : accepted[p] = tails[c] /\ LastOfChat(p, c)

\* Rows belong to turns that left the queue, and a chat's rows are in the order
\* in which the turns were accepted.
Rowed ==
    \A i \in DOMAIN rows : rows[i][1] \in Turns => at[rows[i][1]] \notin {"new", "queued"}
RowedInOrder ==
    \A i, j \in DOMAIN rows : \A k, l \in DOMAIN accepted :
        /\ i < j /\ SameChat(k, l)
        /\ rows[i][1] = accepted[k] /\ rows[j][1] = accepted[l]
        => k <= l

\* ExclusiveGate without counting.
Exclusive ==
    /\ held = {a \in Actors : at[a] \in Working}
    /\ \A a, b \in held : a = b
    /\ locked <=> held # {}

IInv ==
    /\ TypeOK /\ Exclusive /\ ClaimsCount
    /\ Delivery /\ Planned /\ Registered /\ Stamped
    /\ AcceptedOnce /\ InLine /\ Behind /\ Tailed
    /\ Rowed /\ RowedInOrder /\ SupersededInvalid

-----------------------------------------------------------------------------
(* Claims and the gate                                                     *)

\* The lock has at most one holder, and every place an actor goes to agrees
\* with it.
LEMMA GateStep ==
    ASSUME TypeOK, Exclusive, [Next]_vars
    PROVE  Exclusive'
<1>. USE ActorAssumption DEF TypeOK, GateOK, Exclusive, Actors, Replies,
                             Places, Delivering, Working, Waiting, admission,
                             gate, owner, plan, reply, state, vars
<1>1. ASSUME NEW t \in Turns, Admit(t)
      PROVE  Exclusive'
  BY <1>1 DEF Admit, Invalidate, Superseded
<1>2. ASSUME NEW t \in Turns, Enter(t)
      PROVE  Exclusive'
  BY <1>2 DEF Enter, Claim, Queue
<1>3. ASSUME NEW t \in Turns, Close(t)
      PROVE  Exclusive'
  BY <1>3 DEF Close, Forget, ForgetTail
<1>4. ASSUME NEW t \in Turns, Interrupt(t)
      PROVE  Exclusive'
  BY <1>4 DEF Interrupt
<1>5. ASSUME Stop
      PROVE  Exclusive'
  BY <1>5 DEF Stop, Invalidate
<1>6. ASSUME Resume
      PROVE  Exclusive'
  BY <1>6 DEF Resume
<1>7. ASSUME SwitchOff
      PROVE  Exclusive'
  BY <1>7 DEF SwitchOff
<1>8. ASSUME NEW t \in Turns, BeginWork(t)
      PROVE  Exclusive'
  BY <1>8 DEF BeginWork, Granted
<1>9. ASSUME NEW a \in Replies, EndWork(a)
      PROVE  Exclusive'
  BY <1>9 DEF EndWork, Refresh, Refused
<1>10. ASSUME NEW t \in Turns, Discard(t)
      PROVE  Exclusive'
  BY <1>10 DEF Discard, Leave, Release, Withdraw, Unclaim
<1>11. ASSUME NEW t \in Turns, Fail(t)
      PROVE  Exclusive'
  BY <1>11 DEF Fail, Leave, Release, Withdraw, Unclaim
<1>12. ASSUME NEW a \in Replies, Store(a)
      PROVE  Exclusive'
  BY <1>12 DEF Store, MarkFailed, SetStatus, AfterDelivery, Leave, Release,
               Withdraw, Unclaim
<1>13. ASSUME NEW a \in Replies, NEW o \in Outcomes(a), Sent(a, o)
      PROVE  Exclusive'
  <2>1. a \in held
    BY <1>13 DEF Sent
  <2>2. CASE GoesOn(a, o)
    BY <1>13, <2>2 DEF Sent, YieldGate, Release
  <2>3. CASE ~GoesOn(a, o)
    <3>1. /\ UNCHANGED <<locked, held>>
          /\ at' = [at EXCEPT ![a] = "publishing"] \/ at' = [at EXCEPT ![a] = "finishing"]
      BY <1>13, <2>1, <2>3 DEF Sent, AfterDelivery
    <3>. QED BY <1>13, <2>1, <3>1 DEF Sent
  <2>. QED BY <2>2, <2>3
<1>14. ASSUME NEW a \in Replies, EndPause(a)
      PROVE  Exclusive'
  BY <1>14 DEF EndPause, Queue
<1>15. ASSUME NEW a \in Replies, GoOn(a)
      PROVE  Exclusive'
  BY <1>15 DEF GoOn, Granted, Refresh, MayGoOn, Refused
<1>16. ASSUME NEW a \in Replies, CancelWait(a)
      PROVE  Exclusive'
  <2>1. a \notin held
    BY <1>16 DEF CancelWait
  <2>2. CASE Leave(a)
    BY <1>16, <2>1, <2>2 DEF CancelWait, Leave, Release
  <2>3. CASE ~Leave(a)
    BY <1>16, <2>1, <2>3 DEF CancelWait, AfterDelivery
  <2>. QED BY <2>2, <2>3
<1>17. ASSUME NEW a \in Replies, NEW fresh \in BOOLEAN, Publish(a, fresh)
      PROVE  Exclusive'
  BY <1>17 DEF Publish, IsCurrent, AfterDelivery, Leave, Release, Withdraw,
               Unclaim
<1>18. ASSUME NEW a \in Replies, Reenter(a)
      PROVE  Exclusive'
  BY <1>18 DEF Reenter, Granted
<1>19. ASSUME NEW a \in Replies, Finish(a)
      PROVE  Exclusive'
  BY <1>19 DEF Finish, Leave, Release, Withdraw, Unclaim
<1>20. ASSUME NEW a \in Ticks \cup Operations, StartOther(a)
      PROVE  Exclusive'
  BY <1>20 DEF StartOther, MayClaim, Claim, Queue
<1>21. ASSUME NEW k \in Ticks, BeginTick(k)
      PROVE  Exclusive'
  BY <1>21 DEF BeginTick, Granted, Invalidate
<1>22. ASSUME NEW k \in Ticks, EndTick(k)
      PROVE  Exclusive'
  BY <1>22 DEF EndTick
<1>23. ASSUME NEW a \in Operations, BeginOperation(a)
      PROVE  Exclusive'
  BY <1>23 DEF BeginOperation, Granted
<1>24. ASSUME NEW a \in Operations, NEW moves \in BOOLEAN, EndOperation(a, moves)
      PROVE  Exclusive'
  BY <1>24 DEF EndOperation, Leave, Release, Withdraw, Unclaim
<1>25. ASSUME UNCHANGED vars
      PROVE  Exclusive'
  BY <1>25 DEF vars
<1>. QED BY <1>1, <1>2, <1>3, <1>4, <1>5, <1>6, <1>7, <1>8, <1>9, <1>10,
            <1>11, <1>12, <1>13, <1>14, <1>15, <1>16, <1>17, <1>18, <1>19,
            <1>20, <1>21, <1>22, <1>23, <1>24, <1>25
        DEF Next, Dispatching, Generating, Deliver, Sends, Others

\* How a step changes who claims the gate, and the count with them.
Keeps == Claiming' = Claiming /\ claims' = claims
Gains(x) == /\ x \in Actors \ Claiming
            /\ Claiming' = Claiming \cup {x} /\ claims' = claims + 1
Loses(x) == /\ x \in Claiming
            /\ Claiming' = Claiming \ {x} /\ claims' = claims - 1
Effect == Keeps \/ \E x \in Actors : Gains(x) \/ Loses(x)

\* A claim given up is one actor's, whose work under the gate is over.
LEMMA LeaveEffect ==
    ASSUME at \in [Actors -> Places], NEW a \in Claiming, Leave(a)
    PROVE  Loses(a)
BY DEF Leave, Loses, Claiming, Actors, Unclaim, Delivering, Working, Waiting

\* A claim is made by one actor that had none.
LEMMA ClaimEffect ==
    ASSUME at \in [Actors -> Places], NEW a \in Actors \ Claiming, Claim(a)
    PROVE  Gains(a)
BY DEF Claim, Queue, Gains, Claiming, Actors, Waiting

\* After a delivery the claim is kept or given up.
LEMMA AfterDeliveryEffect ==
    ASSUME at \in [Actors -> Places], NEW a \in Claiming, AfterDelivery(a)
    PROVE  Keeps \/ Loses(a)
<1>1. CASE Leave(a)
  BY <1>1, LeaveEffect
<1>2. CASE ~Leave(a)
  BY <1>2 DEF AfterDelivery, Keeps, Claiming, Actors, Working, Waiting, gate
<1>. QED BY <1>1, <1>2

\* A count that follows the set stays its cardinality.
LEMMA EffectMatch ==
    ASSUME ClaimsCount, Effect
    PROVE  ClaimsCount' /\ claims' \in Nat
<1>1. IsFiniteSet(Claiming)
  BY FiniteAssumption, FS_Subset DEF Claiming
<1>2. CASE Keeps
  BY <1>1, <1>2, FS_CardinalityType DEF Keeps, ClaimsCount
<1>3. ASSUME NEW x, Gains(x) PROVE ClaimsCount' /\ claims' \in Nat
  BY <1>1, <1>3, FS_AddElement, FS_CardinalityType DEF Gains, ClaimsCount
<1>4. ASSUME NEW x, Loses(x) PROVE ClaimsCount' /\ claims' \in Nat
  <2>1. /\ IsFiniteSet(Claiming \ {x})
        /\ Cardinality(Claiming \ {x}) = Cardinality(Claiming) - 1
    BY <1>1, <1>4, FS_RemoveElement DEF Loses
  <2>2. Cardinality(Claiming \ {x}) \in Nat
    BY <2>1, FS_CardinalityType
  <2>. QED BY <1>4, <2>1, <2>2 DEF Loses, ClaimsCount
<1>. QED BY <1>2, <1>3, <1>4 DEF Effect

\* Every step claims, gives up or keeps a claim.
LEMMA ClaimStep ==
    ASSUME TypeOK, [Next]_vars
    PROVE  Effect
<1>. USE ActorAssumption DEF Effect, Keeps, TypeOK, Claiming, Actors,
                             Replies, Places, Delivering, Working, Waiting,
                             admission, gate, owner, plan, reply, state, vars
<1>1. ASSUME NEW t \in Turns, Admit(t)
      PROVE  Effect
  BY <1>1 DEF Admit, Invalidate, Superseded
<1>2. ASSUME NEW t \in Turns, Enter(t)
      PROVE  Effect
  <2>1. t \in Actors \ Claiming /\ Claim(t)
    BY <1>2 DEF Enter
  <2>. QED BY <2>1, ClaimEffect
<1>3. ASSUME NEW t \in Turns, Close(t)
      PROVE  Effect
  BY <1>3 DEF Close, Forget, ForgetTail
<1>4. ASSUME NEW t \in Turns, Interrupt(t)
      PROVE  Effect
  BY <1>4 DEF Interrupt
<1>5. ASSUME Stop
      PROVE  Effect
  BY <1>5 DEF Stop, Invalidate
<1>6. ASSUME Resume
      PROVE  Effect
  BY <1>6 DEF Resume
<1>7. ASSUME SwitchOff
      PROVE  Effect
  BY <1>7 DEF SwitchOff
<1>8. ASSUME NEW t \in Turns, BeginWork(t)
      PROVE  Effect
  BY <1>8 DEF BeginWork, Granted
<1>9. ASSUME NEW a \in Replies, EndWork(a)
      PROVE  Effect
  BY <1>9 DEF EndWork, Refresh, Refused
<1>10. ASSUME NEW t \in Turns, Discard(t)
      PROVE  Effect
  <2>1. t \in Claiming /\ Leave(t)
    BY <1>10 DEF Discard
  <2>. QED BY <2>1, LeaveEffect
<1>11. ASSUME NEW t \in Turns, Fail(t)
      PROVE  Effect
  <2>1. t \in Claiming /\ Leave(t)
    BY <1>11 DEF Fail
  <2>. QED BY <2>1, LeaveEffect
<1>12. ASSUME NEW a \in Replies, Store(a)
      PROVE  Effect
  <2>1. a \in Claiming
    BY <1>12 DEF Store
  <2>2. CASE AfterDelivery(a)
    BY <2>1, <2>2, AfterDeliveryEffect
  <2>3. CASE ~AfterDelivery(a)
    BY <1>12, <2>3 DEF Store, Keeps
  <2>. QED BY <2>2, <2>3
<1>13. ASSUME NEW a \in Replies, NEW o \in Outcomes(a), Sent(a, o)
      PROVE  Effect
  <2>1. a \in Claiming
    BY <1>13 DEF Sent
  <2>2. CASE AfterDelivery(a)
    BY <2>1, <2>2, AfterDeliveryEffect
  <2>3. CASE ~AfterDelivery(a)
    BY <1>13, <2>3 DEF Sent, YieldGate, Keeps
  <2>. QED BY <2>2, <2>3
<1>14. ASSUME NEW a \in Replies, EndPause(a)
      PROVE  Effect
  BY <1>14 DEF EndPause, Queue
<1>15. ASSUME NEW a \in Replies, GoOn(a)
      PROVE  Effect
  BY <1>15 DEF GoOn, Granted, Refresh, MayGoOn, Refused
<1>16. ASSUME NEW a \in Replies, CancelWait(a)
      PROVE  Effect
  <2>1. a \in Claiming
    BY <1>16 DEF CancelWait
  <2>. QED BY <1>16, <2>1, LeaveEffect, AfterDeliveryEffect DEF CancelWait
<1>17. ASSUME NEW a \in Replies, NEW fresh \in BOOLEAN, Publish(a, fresh)
      PROVE  Effect
  <2>1. a \in Claiming
    BY <1>17 DEF Publish
  <2>2. CASE AfterDelivery(a)
    BY <2>1, <2>2, AfterDeliveryEffect
  <2>3. CASE ~AfterDelivery(a)
    BY <1>17, <2>3 DEF Publish, Keeps
  <2>. QED BY <2>2, <2>3
<1>18. ASSUME NEW a \in Replies, Reenter(a)
      PROVE  Effect
  BY <1>18 DEF Reenter, Granted
<1>19. ASSUME NEW a \in Replies, Finish(a)
      PROVE  Effect
  <2>1. a \in Claiming /\ Leave(a)
    BY <1>19 DEF Finish
  <2>. QED BY <2>1, LeaveEffect
<1>20. ASSUME NEW a \in Ticks \cup Operations, StartOther(a)
      PROVE  Effect
  <2>1. CASE Claim(a)
    BY <1>20, <2>1, ClaimEffect DEF StartOther
  <2>2. CASE ~Claim(a)
    BY <1>20, <2>2 DEF StartOther
  <2>. QED BY <2>1, <2>2
<1>21. ASSUME NEW k \in Ticks, BeginTick(k)
      PROVE  Effect
  BY <1>21 DEF BeginTick, Granted, Invalidate
<1>22. ASSUME NEW k \in Ticks, EndTick(k)
      PROVE  Effect
  BY <1>22 DEF EndTick
<1>23. ASSUME NEW a \in Operations, BeginOperation(a)
      PROVE  Effect
  BY <1>23 DEF BeginOperation, Granted
<1>24. ASSUME NEW a \in Operations, NEW moves \in BOOLEAN, EndOperation(a, moves)
      PROVE  Effect
  <2>1. a \in Claiming /\ Leave(a)
    BY <1>24 DEF EndOperation
  <2>. QED BY <2>1, LeaveEffect
<1>25. ASSUME UNCHANGED vars
      PROVE  Effect
  BY <1>25 DEF vars
<1>. QED BY <1>1, <1>2, <1>3, <1>4, <1>5, <1>6, <1>7, <1>8, <1>9, <1>10,
            <1>11, <1>12, <1>13, <1>14, <1>15, <1>16, <1>17, <1>18, <1>19,
            <1>20, <1>21, <1>22, <1>23, <1>24, <1>25
        DEF Next, Dispatching, Generating, Deliver, Sends, Others

-----------------------------------------------------------------------------
(* Types                                                                   *)

\* Removing a waiter leaves a sequence of actors.
LEMMA WithoutType ==
    ASSUME waiters \in Seq(Actors), NEW a
    PROVE  Without(a) \in Seq(Actors)
<1>1. CASE \E i \in DOMAIN waiters : waiters[i] = a
  <2>. DEFINE i == CHOOSE i \in DOMAIN waiters : waiters[i] = a
  <2>1. i \in 1..Len(waiters)
    BY <1>1
  <2>2. Without(a) = SubSeq(waiters, 1, i - 1) \o SubSeq(waiters, i + 1, Len(waiters))
    BY <1>1 DEF Without, RemoveAt
  <2>. HIDE DEF i
  <2>. QED BY <2>1, <2>2
<1>2. CASE ~ \E i \in DOMAIN waiters : waiters[i] = a
  BY <1>2 DEF Without
<1>. QED BY <1>1, <1>2

\* The gate keeps its type when an actor leaves it.
LEMMA LeaveType ==
    ASSUME GateOK, NEW a, Leave(a)
    PROVE  GateOK'
BY WithoutType DEF Leave, Release, Withdraw, GateOK

\* It does so when a delivery is over.
LEMMA AfterDeliveryType ==
    ASSUME GateOK, NEW a \in Replies, AfterDelivery(a)
    PROVE  GateOK'
<1>1. CASE Leave(a)
  BY <1>1, LeaveType
<1>2. CASE ~Leave(a)
  BY SMTT(30), <1>2, WithoutType DEF AfterDelivery, GateOK, gate, Actors
<1>. QED BY <1>1, <1>2

\* Actors are in places.
LEMMA PlaceType ==
    ASSUME at \in [Actors -> Places], [Next]_vars
    PROVE  at' \in [Actors -> Places]
<1>. USE ActorAssumption DEF Actors, Replies, Places, Delivering, Working,
                             Waiting, admission, gate, owner, plan, reply,
                             state, vars
<1>1. ASSUME NEW t \in Turns, Admit(t)
      PROVE  at' \in [Actors -> Places]
  BY <1>1 DEF Admit, Invalidate, Superseded
<1>2. ASSUME NEW t \in Turns, Enter(t)
      PROVE  at' \in [Actors -> Places]
  BY <1>2 DEF Enter, Claim, Queue
<1>3. ASSUME NEW t \in Turns, Close(t)
      PROVE  at' \in [Actors -> Places]
  BY <1>3 DEF Close, Forget, ForgetTail
<1>4. ASSUME NEW t \in Turns, Interrupt(t)
      PROVE  at' \in [Actors -> Places]
  BY <1>4 DEF Interrupt
<1>5. ASSUME Stop
      PROVE  at' \in [Actors -> Places]
  BY <1>5 DEF Stop, Invalidate
<1>6. ASSUME Resume
      PROVE  at' \in [Actors -> Places]
  BY <1>6 DEF Resume
<1>7. ASSUME SwitchOff
      PROVE  at' \in [Actors -> Places]
  BY <1>7 DEF SwitchOff
<1>8. ASSUME NEW t \in Turns, BeginWork(t)
      PROVE  at' \in [Actors -> Places]
  BY <1>8 DEF BeginWork, Granted
<1>9. ASSUME NEW a \in Replies, EndWork(a)
      PROVE  at' \in [Actors -> Places]
  BY <1>9 DEF EndWork, Refresh, Refused
<1>10. ASSUME NEW t \in Turns, Discard(t)
      PROVE  at' \in [Actors -> Places]
  BY <1>10 DEF Discard, Leave, Release, Withdraw, Unclaim
<1>11. ASSUME NEW t \in Turns, Fail(t)
      PROVE  at' \in [Actors -> Places]
  BY <1>11 DEF Fail, Leave, Release, Withdraw, Unclaim
<1>12. ASSUME NEW a \in Replies, Store(a)
      PROVE  at' \in [Actors -> Places]
  BY <1>12 DEF Store, MarkFailed, SetStatus, AfterDelivery, Leave, Release,
               Withdraw, Unclaim
<1>13. ASSUME NEW a \in Replies, NEW o \in Outcomes(a), Sent(a, o)
      PROVE  at' \in [Actors -> Places]
  BY <1>13 DEF Sent, SetStatus, GoesOn, YieldGate, AfterDelivery, Leave,
               Release, Withdraw, Unclaim
<1>14. ASSUME NEW a \in Replies, EndPause(a)
      PROVE  at' \in [Actors -> Places]
  BY <1>14 DEF EndPause, Queue
<1>15. ASSUME NEW a \in Replies, GoOn(a)
      PROVE  at' \in [Actors -> Places]
  BY <1>15 DEF GoOn, Granted, Refresh, MayGoOn, Refused
<1>16. ASSUME NEW a \in Replies, CancelWait(a)
      PROVE  at' \in [Actors -> Places]
  BY <1>16 DEF CancelWait, AfterDelivery, Leave, Release, Withdraw, Unclaim
<1>17. ASSUME NEW a \in Replies, NEW fresh \in BOOLEAN, Publish(a, fresh)
      PROVE  at' \in [Actors -> Places]
  BY <1>17 DEF Publish, IsCurrent, AfterDelivery, Leave, Release, Withdraw,
               Unclaim
<1>18. ASSUME NEW a \in Replies, Reenter(a)
      PROVE  at' \in [Actors -> Places]
  BY <1>18 DEF Reenter, Granted
<1>19. ASSUME NEW a \in Replies, Finish(a)
      PROVE  at' \in [Actors -> Places]
  BY <1>19 DEF Finish, Leave, Release, Withdraw, Unclaim
<1>20. ASSUME NEW a \in Ticks \cup Operations, StartOther(a)
      PROVE  at' \in [Actors -> Places]
  BY <1>20 DEF StartOther, MayClaim, Claim, Queue
<1>21. ASSUME NEW k \in Ticks, BeginTick(k)
      PROVE  at' \in [Actors -> Places]
  BY <1>21 DEF BeginTick, Granted, Invalidate
<1>22. ASSUME NEW k \in Ticks, EndTick(k)
      PROVE  at' \in [Actors -> Places]
  BY <1>22 DEF EndTick
<1>23. ASSUME NEW a \in Operations, BeginOperation(a)
      PROVE  at' \in [Actors -> Places]
  BY <1>23 DEF BeginOperation, Granted
<1>24. ASSUME NEW a \in Operations, NEW moves \in BOOLEAN, EndOperation(a, moves)
      PROVE  at' \in [Actors -> Places]
  BY <1>24 DEF EndOperation, Leave, Release, Withdraw, Unclaim
<1>25. ASSUME UNCHANGED vars
      PROVE  at' \in [Actors -> Places]
  BY <1>25 DEF vars
<1>. QED BY <1>1, <1>2, <1>3, <1>4, <1>5, <1>6, <1>7, <1>8, <1>9, <1>10,
            <1>11, <1>12, <1>13, <1>14, <1>15, <1>16, <1>17, <1>18, <1>19,
            <1>20, <1>21, <1>22, <1>23, <1>24, <1>25
        DEF Next, Dispatching, Generating, Deliver, Sends, Others

\* The dispatcher's tables keep their types.
LEMMA AdmissionType ==
    ASSUME AdmissionOK, OwnerOK, [Next]_vars
    PROVE  AdmissionOK'
<1>. USE ActorAssumption DEF AdmissionOK, OwnerOK, Actors, Replies,
                             admission, gate, owner, plan, reply, state, vars
<1>1. ASSUME NEW t \in Turns, Admit(t)
      PROVE  AdmissionOK'
  BY <1>1 DEF Admit, Invalidate, Superseded
<1>2. ASSUME NEW t \in Turns, Close(t)
      PROVE  AdmissionOK'
  BY <1>2 DEF Close, Forget, ForgetTail
<1>3. ASSUME NEW t \in Turns,
             Enter(t) \/ Interrupt(t) \/ BeginWork(t) \/ Discard(t) \/
             Fail(t)
      PROVE  AdmissionOK'
  BY <1>3 DEF Enter, Interrupt, BeginWork, Discard, Fail
<1>4. ASSUME Stop \/ Resume \/ SwitchOff \/ UNCHANGED vars
      PROVE  AdmissionOK'
  BY <1>4 DEF Stop, Resume, SwitchOff, vars
<1>5. ASSUME NEW a \in Replies,
             EndWork(a) \/ Store(a) \/ Sends(a) \/ EndPause(a) \/ GoOn(a) \/
             CancelWait(a) \/ (\E fresh \in BOOLEAN : Publish(a, fresh)) \/
             Reenter(a) \/ Finish(a)
      PROVE  AdmissionOK'
  BY <1>5 DEF EndWork, Store, Sent, EndPause, GoOn, CancelWait, Publish,
              Reenter, Finish, Sends
<1>6. ASSUME NEW o \in Ticks \cup Operations, StartOther(o)
      PROVE  AdmissionOK'
  BY <1>6 DEF StartOther
<1>7. ASSUME NEW k \in Ticks,
             BeginTick(k) \/ EndTick(k)
      PROVE  AdmissionOK'
  BY <1>7 DEF BeginTick, EndTick
<1>8. ASSUME NEW o \in Operations,
             BeginOperation(o) \/
             (\E moves \in BOOLEAN : EndOperation(o, moves))
      PROVE  AdmissionOK'
  BY <1>8 DEF BeginOperation, EndOperation
<1>. QED BY <1>1, <1>2, <1>3, <1>4, <1>5, <1>6, <1>7, <1>8
        DEF Next, Dispatching, Generating, Deliver, Sends, Others

\* The lock's queue and the leases keep their types.
LEMMA GateType ==
    ASSUME GateOK, [Next]_vars
    PROVE  GateOK'
<1>. USE ActorAssumption DEF GateOK, Actors, Replies, admission, gate, owner,
                             plan, reply, state, vars
<1>1. ASSUME NEW t \in Turns, Enter(t)
      PROVE  GateOK'
  BY <1>1 DEF Enter, Claim, Queue
<1>2. ASSUME NEW t \in Turns, BeginWork(t)
      PROVE  GateOK'
  BY <1>2 DEF BeginWork, Granted
<1>3. ASSUME NEW t \in Turns, Discard(t)
      PROVE  GateOK'
  BY <1>3, LeaveType DEF Discard
<1>4. ASSUME NEW t \in Turns, Fail(t)
      PROVE  GateOK'
  BY <1>4, LeaveType DEF Fail
<1>5. ASSUME NEW a \in Replies, Store(a)
      PROVE  GateOK'
  BY <1>5, AfterDeliveryType DEF Store
<1>6. ASSUME NEW a \in Replies, NEW o \in Outcomes(a), Sent(a, o)
      PROVE  GateOK'
  <2>1. CASE AfterDelivery(a)
    BY <2>1, AfterDeliveryType
  <2>2. CASE ~AfterDelivery(a)
    BY <1>6, <2>2 DEF Sent, YieldGate, Release
  <2>. QED BY <2>1, <2>2
<1>7. ASSUME NEW a \in Replies, EndPause(a)
      PROVE  GateOK'
  BY <1>7 DEF EndPause, Queue
<1>8. ASSUME NEW a \in Replies, GoOn(a)
      PROVE  GateOK'
  BY <1>8 DEF GoOn, Granted, Refresh, MayGoOn, Refused
<1>9. ASSUME NEW a \in Replies, CancelWait(a)
      PROVE  GateOK'
  BY <1>9, LeaveType, AfterDeliveryType DEF CancelWait
<1>10. ASSUME NEW a \in Replies, NEW fresh \in BOOLEAN, Publish(a, fresh)
      PROVE  GateOK'
  BY <1>10, AfterDeliveryType DEF Publish
<1>11. ASSUME NEW a \in Replies, Reenter(a)
      PROVE  GateOK'
  BY <1>11 DEF Reenter, Granted
<1>12. ASSUME NEW a \in Replies, Finish(a)
      PROVE  GateOK'
  BY <1>12, LeaveType DEF Finish
<1>13. ASSUME NEW a \in Ticks \cup Operations, StartOther(a)
      PROVE  GateOK'
  <2>1. CASE Claim(a)
    BY <1>13, <2>1 DEF Claim, Queue
  <2>2. CASE ~Claim(a)
    BY <1>13, <2>2 DEF StartOther
  <2>. QED BY <2>1, <2>2
<1>14. ASSUME NEW k \in Ticks, BeginTick(k)
      PROVE  GateOK'
  BY <1>14 DEF BeginTick, Granted, Invalidate
<1>15. ASSUME NEW a \in Operations, BeginOperation(a)
      PROVE  GateOK'
  BY <1>15 DEF BeginOperation, Granted
<1>16. ASSUME NEW a \in Operations, NEW moves \in BOOLEAN, EndOperation(a, moves)
      PROVE  GateOK'
  BY <1>16, LeaveType DEF EndOperation
<1>17. ASSUME NEW t \in Turns,
              Admit(t) \/ Close(t) \/ Interrupt(t)
      PROVE  GateOK'
  BY <1>17 DEF Admit, Close, Interrupt
<1>18. ASSUME Stop \/ Resume \/ SwitchOff \/ UNCHANGED vars
      PROVE  GateOK'
  BY <1>18 DEF Stop, Resume, SwitchOff, vars
<1>19. ASSUME NEW a \in Replies, EndWork(a)
      PROVE  GateOK'
  BY <1>19 DEF EndWork
<1>20. ASSUME NEW k \in Ticks, EndTick(k)
      PROVE  GateOK'
  BY <1>20 DEF EndTick
<1>. QED BY <1>1, <1>2, <1>3, <1>4, <1>5, <1>6, <1>7, <1>8, <1>9, <1>10,
            <1>11, <1>12, <1>13, <1>14, <1>15, <1>16, <1>17, <1>18, <1>19,
            <1>20
        DEF Next, Dispatching, Generating, Deliver, Sends, Others

\* The sequence owner's registrations keep their types.
LEMMA OwnerType ==
    ASSUME OwnerOK, [Next]_vars
    PROVE  OwnerOK'
<1>. USE ActorAssumption DEF OwnerOK, Keys, Replies, admission, gate, owner,
                             plan, reply, state, vars
<1>1. ASSUME NEW t \in Turns, Admit(t)
      PROVE  OwnerOK'
  BY <1>1 DEF Admit, Invalidate, Superseded
<1>2. ASSUME NEW t \in Turns, Close(t)
      PROVE  OwnerOK'
  BY <1>2 DEF Close, Forget, ForgetTail
<1>3. ASSUME Stop
      PROVE  OwnerOK'
  BY <1>3 DEF Stop, Invalidate
<1>4. ASSUME Resume
      PROVE  OwnerOK'
  BY <1>4 DEF Resume
<1>5. ASSUME NEW a \in Replies, Finish(a)
      PROVE  OwnerOK'
  BY <1>5 DEF Finish, Leave, Release, Withdraw, Unclaim
<1>6. ASSUME NEW k \in Ticks, BeginTick(k)
      PROVE  OwnerOK'
  BY <1>6 DEF BeginTick, Granted, Invalidate
<1>7. ASSUME NEW t \in Turns,
             Enter(t) \/ Interrupt(t) \/ BeginWork(t) \/ Discard(t) \/
             Fail(t)
      PROVE  OwnerOK'
  BY <1>7 DEF Enter, Interrupt, BeginWork, Discard, Fail
<1>8. ASSUME SwitchOff \/ UNCHANGED vars
      PROVE  OwnerOK'
  BY <1>8 DEF SwitchOff, vars
<1>9. ASSUME NEW a \in Replies,
             EndWork(a) \/ Store(a) \/ Sends(a) \/ EndPause(a) \/ GoOn(a) \/
             CancelWait(a) \/ (\E fresh \in BOOLEAN : Publish(a, fresh)) \/
             Reenter(a)
      PROVE  OwnerOK'
  BY <1>9 DEF EndWork, Store, Sent, EndPause, GoOn, CancelWait, Publish,
              Reenter, Sends
<1>10. ASSUME NEW o \in Ticks \cup Operations, StartOther(o)
      PROVE  OwnerOK'
  BY <1>10 DEF StartOther
<1>11. ASSUME NEW k \in Ticks, EndTick(k)
      PROVE  OwnerOK'
  BY <1>11 DEF EndTick
<1>12. ASSUME NEW o \in Operations,
              BeginOperation(o) \/
              (\E moves \in BOOLEAN : EndOperation(o, moves))
      PROVE  OwnerOK'
  BY <1>12 DEF BeginOperation, EndOperation
<1>. QED BY <1>1, <1>2, <1>3, <1>4, <1>5, <1>6, <1>7, <1>8, <1>9, <1>10,
            <1>11, <1>12
        DEF Next, Dispatching, Generating, Deliver, Sends, Others

\* The plans' states keep their types.
LEMMA PlanType ==
    ASSUME at \in [Actors -> Places], OwnerOK, PlanOK, [Next]_vars
    PROVE  PlanOK'
<1>. USE ActorAssumption DEF PlanOK, OwnerOK, Replies, Actors, admission,
                             gate, owner, plan, reply, state, vars
<1>1. ASSUME NEW t \in Turns, Admit(t)
      PROVE  PlanOK'
  <2>1. Superseded(t) \subseteq Replies
    BY DEF Superseded, Key, Keys
  <2>. QED BY <1>1, <2>1 DEF Admit, Invalidate
<1>2. ASSUME NEW t \in Turns, Interrupt(t)
      PROVE  PlanOK'
  BY <1>2 DEF Interrupt
<1>3. ASSUME Stop
      PROVE  PlanOK'
  BY <1>3 DEF Stop, Invalidate
<1>4. ASSUME SwitchOff
      PROVE  PlanOK'
  BY <1>4 DEF SwitchOff
<1>5. ASSUME NEW a \in Replies, EndWork(a)
      PROVE  PlanOK'
  BY <1>5 DEF EndWork, Refresh, Refused
<1>6. ASSUME NEW a \in Replies, GoOn(a)
      PROVE  PlanOK'
  BY <1>6 DEF GoOn, Granted, Refresh, MayGoOn, Refused
<1>7. ASSUME NEW k \in Ticks, BeginTick(k)
      PROVE  PlanOK'
  BY <1>7 DEF BeginTick, Granted, Invalidate
<1>8. ASSUME NEW t \in Turns,
             Enter(t) \/ Close(t) \/ BeginWork(t) \/ Discard(t) \/ Fail(t)
      PROVE  PlanOK'
  BY <1>8 DEF Enter, Close, BeginWork, Discard, Fail
<1>9. ASSUME Resume \/ UNCHANGED vars
      PROVE  PlanOK'
  BY <1>9 DEF Resume, vars
<1>10. ASSUME NEW a \in Replies,
              Store(a) \/ Sends(a) \/ EndPause(a) \/ CancelWait(a) \/
              (\E fresh \in BOOLEAN : Publish(a, fresh)) \/ Reenter(a) \/
              Finish(a)
      PROVE  PlanOK'
  BY <1>10 DEF Store, Sent, EndPause, CancelWait, Publish, Reenter, Finish,
               Sends
<1>11. ASSUME NEW o \in Ticks \cup Operations, StartOther(o)
      PROVE  PlanOK'
  BY <1>11 DEF StartOther
<1>12. ASSUME NEW k \in Ticks, EndTick(k)
      PROVE  PlanOK'
  BY <1>12 DEF EndTick
<1>13. ASSUME NEW o \in Operations,
              BeginOperation(o) \/
              (\E moves \in BOOLEAN : EndOperation(o, moves))
      PROVE  PlanOK'
  BY <1>13 DEF BeginOperation, EndOperation
<1>. QED BY <1>1, <1>2, <1>3, <1>4, <1>5, <1>6, <1>7, <1>8, <1>9, <1>10,
            <1>11, <1>12, <1>13
        DEF Next, Dispatching, Generating, Deliver, Sends, Others

\* Replies and rows keep their types.
LEMMA ReplyType ==
    ASSUME Delivery, ReplyOK, StateOK, [Next]_vars
    PROVE  ReplyOK'
<1>. USE ActorAssumption DEF ReplyOK, StateOK, Delivery, Statuses, Messages,
                             Replies, admission, gate, owner, plan, reply,
                             state, vars
<1>1. ASSUME NEW t \in Turns, BeginWork(t)
      PROVE  ReplyOK'
  BY <1>1 DEF BeginWork, Granted
<1>2. ASSUME NEW a \in Replies, EndWork(a)
      PROVE  ReplyOK'
  BY <1>2 DEF EndWork, Refresh, Refused
<1>3. ASSUME NEW a \in Replies, Store(a)
      PROVE  ReplyOK'
  <2>1. rows' \in Seq(Replies \X Nat)
    BY <1>3 DEF Store
  <2>2. \E s \in Statuses : status' = [status EXCEPT ![a][next[a]] = s]
    <3>1. \E s \in {"pending", "failed"} : status' = [status EXCEPT ![a][next[a]] = s]
      BY <1>3 DEF Store, MarkFailed, SetStatus
    <3>. QED BY <3>1
  <2>3. UNCHANGED <<next, seen, stamp>>
    BY <1>3 DEF Store
  <2>. QED BY <2>1, <2>2, <2>3, SMTT(60)
<1>4. ASSUME NEW a \in Replies, NEW o \in Outcomes(a), Sent(a, o)
      PROVE  ReplyOK'
  BY <1>4 DEF Sent, SetStatus, GoesOn, YieldGate, AfterDelivery, Leave,
              Release, Withdraw, Unclaim, Outcomes
<1>5. ASSUME NEW a \in Replies, GoOn(a)
      PROVE  ReplyOK'
  <2>1. CASE next' = [next EXCEPT ![a] = @ + 1]
    <3>1. next[a] < Size[a]
      BY <1>5 DEF GoOn, Granted
    <3>. QED BY <1>5, <2>1, <3>1 DEF GoOn
  <2>2. CASE UNCHANGED next
    BY <1>5, <2>2 DEF GoOn
  <2>. QED BY <1>5, <2>1, <2>2 DEF GoOn
<1>6. ASSUME NEW k \in Ticks, BeginTick(k)
      PROVE  ReplyOK'
  BY <1>6 DEF BeginTick, Granted, Invalidate
<1>7. ASSUME NEW t \in Turns,
             Admit(t) \/ Enter(t) \/ Close(t) \/ Interrupt(t) \/ Discard(t) \/
             Fail(t)
      PROVE  ReplyOK'
  BY <1>7 DEF Admit, Enter, Close, Interrupt, Discard, Fail
<1>8. ASSUME Stop \/ Resume \/ SwitchOff \/ UNCHANGED vars
      PROVE  ReplyOK'
  BY <1>8 DEF Stop, Resume, SwitchOff, vars
<1>9. ASSUME NEW a \in Replies,
             EndPause(a) \/ CancelWait(a) \/
             (\E fresh \in BOOLEAN : Publish(a, fresh)) \/ Reenter(a) \/
             Finish(a)
      PROVE  ReplyOK'
  BY <1>9 DEF EndPause, CancelWait, Publish, Reenter, Finish
<1>10. ASSUME NEW o \in Ticks \cup Operations, StartOther(o)
      PROVE  ReplyOK'
  BY <1>10 DEF StartOther
<1>11. ASSUME NEW k \in Ticks, EndTick(k)
      PROVE  ReplyOK'
  BY <1>11 DEF EndTick
<1>12. ASSUME NEW o \in Operations,
              BeginOperation(o) \/
              (\E moves \in BOOLEAN : EndOperation(o, moves))
      PROVE  ReplyOK'
  BY <1>12 DEF BeginOperation, EndOperation
<1>. HIDE DEF ReplyOK, StateOK, Delivery
<1>. QED BY <1>1, <1>2, <1>3, <1>4, <1>5, <1>6, <1>7, <1>8, <1>9, <1>10,
            <1>11, <1>12
        DEF Next, Dispatching, Generating, Deliver, Sends, Others

\* The role's state keeps its type.
LEMMA StateType ==
    ASSUME ReplyOK, StateOK, [Next]_vars
    PROVE  StateOK'
<1>. USE ActorAssumption DEF ReplyOK, StateOK, Replies, admission, gate,
                             owner, plan, reply, state, vars
<1>1. ASSUME NEW a \in Replies, EndWork(a)
      PROVE  StateOK'
  BY <1>1 DEF EndWork, Refresh, Refused
<1>2. ASSUME NEW a \in Replies, NEW fresh \in BOOLEAN, Publish(a, fresh)
      PROVE  StateOK'
  BY <1>2 DEF Publish, IsCurrent, AfterDelivery, Leave, Release, Withdraw,
              Unclaim
<1>3. ASSUME NEW a \in Operations, NEW moves \in BOOLEAN, EndOperation(a, moves)
      PROVE  StateOK'
  BY <1>3 DEF EndOperation, Leave, Release, Withdraw, Unclaim
<1>4. ASSUME NEW t \in Turns,
             Admit(t) \/ Enter(t) \/ Close(t) \/ Interrupt(t) \/
             BeginWork(t) \/ Discard(t) \/ Fail(t)
      PROVE  StateOK'
  BY <1>4 DEF Admit, Enter, Close, Interrupt, BeginWork, Discard, Fail
<1>5. ASSUME Stop \/ Resume \/ SwitchOff \/ UNCHANGED vars
      PROVE  StateOK'
  BY <1>5 DEF Stop, Resume, SwitchOff, vars
<1>6. ASSUME NEW a \in Replies,
             Store(a) \/ Sends(a) \/ EndPause(a) \/ GoOn(a) \/ CancelWait(a) \/
             Reenter(a) \/ Finish(a)
      PROVE  StateOK'
  BY <1>6 DEF Store, Sent, EndPause, GoOn, CancelWait, Reenter, Finish, Sends
<1>7. ASSUME NEW o \in Ticks \cup Operations, StartOther(o)
      PROVE  StateOK'
  BY <1>7 DEF StartOther
<1>8. ASSUME NEW k \in Ticks,
             BeginTick(k) \/ EndTick(k)
      PROVE  StateOK'
  BY <1>8 DEF BeginTick, EndTick
<1>9. ASSUME NEW o \in Operations, BeginOperation(o)
      PROVE  StateOK'
  BY <1>9 DEF BeginOperation
<1>. QED BY <1>1, <1>2, <1>3, <1>4, <1>5, <1>6, <1>7, <1>8, <1>9
        DEF Next, Dispatching, Generating, Deliver, Sends, Others

-----------------------------------------------------------------------------
(* Deliveries, plans and the clock                                         *)

\* Where a delivery that is over leads.
LEMMA AfterPlace ==
    ASSUME NEW a, AfterDelivery(a)
    PROVE  \E p \in {"finishing", "left", "over", "refinish"} : at' = [at EXCEPT ![a] = p]
BY DEF AfterDelivery, Leave

\* A row is stored for the message after those that were sent, and decided
\* before the reply goes on or ends.
LEMMA DeliveryStep ==
    ASSUME at \in [Actors -> Places], ReplyOK, Delivery, [Next]_vars
    PROVE  Delivery'
<1>. USE ActorAssumption DEF Delivery, ReplyOK, Statuses, Messages, Actors,
                             Replies, Places, Delivering, Working, Waiting,
                             admission, gate, owner, plan, reply, state, vars
<1>1. ASSUME NEW t \in Turns, Admit(t)
      PROVE  Delivery'
  BY <1>1 DEF Admit, Invalidate, Superseded
<1>2. ASSUME NEW t \in Turns, Enter(t)
      PROVE  Delivery'
  BY <1>2 DEF Enter, Claim, Queue
<1>3. ASSUME NEW t \in Turns, Close(t)
      PROVE  Delivery'
  BY <1>3 DEF Close, Forget, ForgetTail
<1>4. ASSUME NEW t \in Turns, Interrupt(t)
      PROVE  Delivery'
  BY <1>4 DEF Interrupt
<1>5. ASSUME Stop
      PROVE  Delivery'
  BY <1>5 DEF Stop, Invalidate
<1>6. ASSUME Resume
      PROVE  Delivery'
  BY <1>6 DEF Resume
<1>7. ASSUME SwitchOff
      PROVE  Delivery'
  BY <1>7 DEF SwitchOff
<1>8. ASSUME NEW t \in Turns, BeginWork(t)
      PROVE  Delivery'
  BY <1>8 DEF BeginWork, Granted
<1>9. ASSUME NEW a \in Replies, EndWork(a)
      PROVE  Delivery'
  <2>1. \E p \in {"storing", "discarding", "finishing"} : at' = [at EXCEPT ![a] = p]
    BY <1>9 DEF EndWork
  <2>. QED BY <1>9, <2>1 DEF EndWork
<1>10. ASSUME NEW t \in Turns, Discard(t)
      PROVE  Delivery'
  BY <1>10 DEF Discard, Leave, Release, Withdraw, Unclaim
<1>11. ASSUME NEW t \in Turns, Fail(t)
      PROVE  Delivery'
  BY <1>11 DEF Fail, Leave, Release, Withdraw, Unclaim
<1>12. ASSUME NEW a \in Replies, Store(a)
      PROVE  Delivery'
  <2>1. CASE a \in cancelled \cap Turns
    <3>1. status' = [status EXCEPT ![a][next[a]] = "failed"]
      BY <1>12, <2>1 DEF Store, MarkFailed, SetStatus
    <3>2. \E p \in {"finishing", "left", "over", "refinish"} : at' = [at EXCEPT ![a] = p]
      BY <1>12, <2>1, AfterPlace DEF Store
    <3>. QED BY <1>12, <3>1, <3>2 DEF Store
  <2>2. CASE a \notin cancelled \cap Turns
    BY SMTT(30), <1>12, <2>2 DEF Store, SetStatus
  <2>. QED BY <2>1, <2>2
<1>13. ASSUME NEW a \in Replies, NEW o \in Outcomes(a), Sent(a, o)
      PROVE  Delivery'
  BY SMTT(30), <1>13 DEF Sent, SetStatus, GoesOn, YieldGate, AfterDelivery, Leave,
               Release, Withdraw, Unclaim, Outcomes
<1>14. ASSUME NEW a \in Replies, EndPause(a)
      PROVE  Delivery'
  BY <1>14 DEF EndPause, Queue
<1>15. ASSUME NEW a \in Replies, GoOn(a)
      PROVE  Delivery'
  <2>1. CASE MayGoOn(a)
    <3>1. /\ next' = [next EXCEPT ![a] = @ + 1] /\ at' = [at EXCEPT ![a] = "storing"]
          /\ UNCHANGED status /\ at[a] = "regate"
      BY <1>15, <2>1 DEF GoOn, Granted
    <3>2. /\ next[a] < Size[a] /\ status[a][next[a]] = "sent"
          /\ next[a] \in Nat /\ Size[a] \in Nat
      BY <3>1
    <3>3. /\ status[a][next[a] + 1] = "none"
          /\ \A i \in Messages(a) : i < next[a] + 1 => status[a][i] = "sent"
      <4>1. next[a] + 1 \in Messages(a) /\ next[a] + 1 > next[a]
        BY <3>2
      <4>2. \A i \in Messages(a) : i < next[a] + 1 => i < next[a] \/ i = next[a]
        BY <3>2
      <4>. QED BY <3>2, <4>1, <4>2
    <3>4. \A i \in Messages(a) : i > next[a] + 1 => status[a][i] = "none"
      BY <3>2
    <3>5. next'[a] = next[a] + 1 /\ at'[a] = "storing" /\ status' = status
      BY <3>1
    <3>6. \A b \in Replies \ {a} : next'[b] = next[b] /\ at'[b] = at[b]
      BY <3>1
    <3>7. \A b \in Replies \ {a} :
             /\ \A i \in Messages(b) : /\ i < next'[b] => status'[b][i] = "sent"
                                       /\ i > next'[b] => status'[b][i] = "none"
             /\ at'[b] \in {"new", "queued", "gate", "working", "storing"} =>
                   status'[b][next'[b]] = "none"
             /\ at'[b] \in {"pacing", "regate"} =>
                   status'[b][next'[b]] = "sent" /\ next'[b] < Size[b]
             /\ status'[b][next'[b]] = "pending" => at'[b] = "sending"
             /\ status'[b][next'[b]] = "unmarked" => b \in Ticks
      BY <3>5, <3>6
    <3>. QED BY <3>3, <3>4, <3>5, <3>7
  <2>2. CASE ~MayGoOn(a)
    BY <1>15, <2>2 DEF GoOn, Granted
  <2>. QED BY <2>1, <2>2
<1>16. ASSUME NEW a \in Replies, CancelWait(a)
      PROVE  Delivery'
  <2>1. \E p \in {"finishing", "left", "over", "refinish"} : at' = [at EXCEPT ![a] = p]
    BY <1>16, AfterPlace DEF CancelWait, Leave
  <2>. QED BY <1>16, <2>1 DEF CancelWait
<1>17. ASSUME NEW a \in Replies, NEW fresh \in BOOLEAN, Publish(a, fresh)
      PROVE  Delivery'
  <2>1. \E p \in {"finishing", "left", "over", "refinish"} : at' = [at EXCEPT ![a] = p]
    BY <1>17, AfterPlace DEF Publish
  <2>. QED BY <1>17, <2>1 DEF Publish
<1>18. ASSUME NEW a \in Replies, Reenter(a)
      PROVE  Delivery'
  BY <1>18 DEF Reenter, Granted
<1>19. ASSUME NEW a \in Replies, Finish(a)
      PROVE  Delivery'
  BY <1>19 DEF Finish, Leave, Release, Withdraw, Unclaim
<1>20. ASSUME NEW a \in Ticks \cup Operations, StartOther(a)
      PROVE  Delivery'
  BY <1>20 DEF StartOther, MayClaim, Claim, Queue
<1>21. ASSUME NEW k \in Ticks, BeginTick(k)
      PROVE  Delivery'
  BY <1>21 DEF BeginTick, Granted, Invalidate
<1>22. ASSUME NEW k \in Ticks, EndTick(k)
      PROVE  Delivery'
  BY <1>22 DEF EndTick
<1>23. ASSUME NEW a \in Operations, BeginOperation(a)
      PROVE  Delivery'
  BY <1>23 DEF BeginOperation, Granted
<1>24. ASSUME NEW a \in Operations, NEW moves \in BOOLEAN, EndOperation(a, moves)
      PROVE  Delivery'
  BY <1>24 DEF EndOperation, Leave, Release, Withdraw, Unclaim
<1>25. ASSUME UNCHANGED vars
      PROVE  Delivery'
  BY <1>25 DEF vars
<1>. HIDE DEF Delivery, ReplyOK
<1>. QED BY <1>1, <1>2, <1>3, <1>4, <1>5, <1>6, <1>7, <1>8, <1>9, <1>10,
            <1>11, <1>12, <1>13, <1>14, <1>15, <1>16, <1>17, <1>18, <1>19,
            <1>20, <1>21, <1>22, <1>23, <1>24, <1>25
        DEF Next, Dispatching, Generating, Deliver, Sends, Others

\* Whoever replies is planned or was told to stop.
LEMMA PlannedStep ==
    ASSUME at \in [Actors -> Places], OwnerOK, PlanOK, Planned, [Next]_vars
    PROVE  Planned'
<1>. USE ActorAssumption DEF Planned, Active, OwnerOK, PlanOK, Actors,
                             Replies, Places, Delivering, Working, Waiting,
                             admission, gate, owner, plan, reply, state, vars
<1>1. ASSUME NEW t \in Turns, Admit(t)
      PROVE  Planned'
  BY <1>1 DEF Admit, Invalidate, Superseded
<1>2. ASSUME NEW t \in Turns, Enter(t)
      PROVE  Planned'
  BY <1>2 DEF Enter, Claim, Queue
<1>3. ASSUME NEW t \in Turns, Close(t)
      PROVE  Planned'
  BY <1>3 DEF Close, Forget, ForgetTail
<1>4. ASSUME NEW t \in Turns, Interrupt(t)
      PROVE  Planned'
  BY <1>4 DEF Interrupt
<1>5. ASSUME Stop
      PROVE  Planned'
  BY <1>5 DEF Stop, Invalidate
<1>6. ASSUME Resume
      PROVE  Planned'
  BY <1>6 DEF Resume
<1>7. ASSUME SwitchOff
      PROVE  Planned'
  BY <1>7 DEF SwitchOff
<1>8. ASSUME NEW t \in Turns, BeginWork(t)
      PROVE  Planned'
  BY <1>8 DEF BeginWork, Granted
<1>9. ASSUME NEW a \in Replies, EndWork(a)
      PROVE  Planned'
  BY <1>9 DEF EndWork, Refresh, Refused
<1>10. ASSUME NEW t \in Turns, Discard(t)
      PROVE  Planned'
  BY <1>10 DEF Discard, Leave, Release, Withdraw, Unclaim
<1>11. ASSUME NEW t \in Turns, Fail(t)
      PROVE  Planned'
  BY <1>11 DEF Fail, Leave, Release, Withdraw, Unclaim
<1>12. ASSUME NEW a \in Replies, Store(a)
      PROVE  Planned'
  <2>1. PICK p \in {"finishing", "refinish", "sending", "left"} :
          at' = [at EXCEPT ![a] = p]
    <3>1. CASE a \in cancelled \cap Turns
      BY <1>12, <3>1 DEF Store, AfterDelivery, Leave
    <3>2. CASE a \notin cancelled \cap Turns
      BY <1>12, <3>2 DEF Store
    <3>. QED BY <3>1, <3>2
  <2>2. at[a] = "storing" /\ UNCHANGED <<owner, plan>>
    BY <1>12 DEF Store
  <2>. QED BY <2>1, <2>2
<1>13. ASSUME NEW a \in Replies, NEW o \in Outcomes(a), Sent(a, o)
      PROVE  Planned'
  BY <1>13 DEF Sent, SetStatus, GoesOn, YieldGate, AfterDelivery, Leave,
               Release, Withdraw, Unclaim
<1>14. ASSUME NEW a \in Replies, EndPause(a)
      PROVE  Planned'
  BY <1>14 DEF EndPause, Queue
<1>15. ASSUME NEW a \in Replies, GoOn(a)
      PROVE  Planned'
  BY <1>15 DEF GoOn, Granted, Refresh, MayGoOn, Refused
<1>16. ASSUME NEW a \in Replies, CancelWait(a)
      PROVE  Planned'
  BY <1>16 DEF CancelWait, AfterDelivery, Leave, Release, Withdraw, Unclaim
<1>17. ASSUME NEW a \in Replies, NEW fresh \in BOOLEAN, Publish(a, fresh)
      PROVE  Planned'
  BY <1>17 DEF Publish, IsCurrent, AfterDelivery, Leave, Release, Withdraw,
               Unclaim
<1>18. ASSUME NEW a \in Replies, Reenter(a)
      PROVE  Planned'
  BY <1>18 DEF Reenter, Granted
<1>19. ASSUME NEW a \in Replies, Finish(a)
      PROVE  Planned'
  BY <1>19 DEF Finish, Leave, Release, Withdraw, Unclaim
<1>20. ASSUME NEW a \in Ticks \cup Operations, StartOther(a)
      PROVE  Planned'
  BY <1>20 DEF StartOther, MayClaim, Claim, Queue
<1>21. ASSUME NEW k \in Ticks, BeginTick(k)
      PROVE  Planned'
  BY <1>21 DEF BeginTick, Granted, Invalidate
<1>22. ASSUME NEW k \in Ticks, EndTick(k)
      PROVE  Planned'
  BY <1>22 DEF EndTick
<1>23. ASSUME NEW a \in Operations, BeginOperation(a)
      PROVE  Planned'
  BY <1>23 DEF BeginOperation, Granted
<1>24. ASSUME NEW a \in Operations, NEW moves \in BOOLEAN, EndOperation(a, moves)
      PROVE  Planned'
  BY <1>24 DEF EndOperation, Leave, Release, Withdraw, Unclaim
<1>25. ASSUME UNCHANGED vars
      PROVE  Planned'
  BY <1>25 DEF vars
<1>. HIDE DEF Planned, OwnerOK, PlanOK
<1>. QED BY <1>1, <1>2, <1>3, <1>4, <1>5, <1>6, <1>7, <1>8, <1>9, <1>10,
            <1>11, <1>12, <1>13, <1>14, <1>15, <1>16, <1>17, <1>18, <1>19,
            <1>20, <1>21, <1>22, <1>23, <1>24, <1>25
        DEF Next, Dispatching, Generating, Deliver, Sends, Others

\* A later message takes the registration and supersedes its owner.
LEMMA RegisteredStep ==
    ASSUME at \in [Actors -> Places], OwnerOK, PlanOK, Planned, Registered, [Next]_vars
    PROVE  Registered'
<1>. USE ActorAssumption DEF Registered, Planned, Active, OwnerOK, PlanOK,
                             Keys, Actors, Replies, Places, Delivering,
                             Working, Waiting, admission, gate, owner, plan,
                             reply, state, vars
<1>1. ASSUME NEW t \in Turns, Admit(t)
      PROVE  Registered'
  BY <1>1 DEF Admit, Invalidate, Superseded
<1>2. ASSUME NEW t \in Turns, Enter(t)
      PROVE  Registered'
  BY <1>2 DEF Enter, Claim, Queue
<1>3. ASSUME NEW t \in Turns, Close(t)
      PROVE  Registered'
  BY <1>3 DEF Close, Forget, ForgetTail
<1>4. ASSUME NEW t \in Turns, Interrupt(t)
      PROVE  Registered'
  BY <1>4 DEF Interrupt
<1>5. ASSUME Stop
      PROVE  Registered'
  BY <1>5 DEF Stop, Invalidate
<1>6. ASSUME Resume
      PROVE  Registered'
  BY <1>6 DEF Resume
<1>7. ASSUME SwitchOff
      PROVE  Registered'
  BY <1>7 DEF SwitchOff
<1>8. ASSUME NEW t \in Turns, BeginWork(t)
      PROVE  Registered'
  BY <1>8 DEF BeginWork, Granted
<1>9. ASSUME NEW a \in Replies, EndWork(a)
      PROVE  Registered'
  BY <1>9 DEF EndWork, Refresh, Refused
<1>10. ASSUME NEW t \in Turns, Discard(t)
      PROVE  Registered'
  BY <1>10 DEF Discard, Leave, Release, Withdraw, Unclaim
<1>11. ASSUME NEW t \in Turns, Fail(t)
      PROVE  Registered'
  BY <1>11 DEF Fail, Leave, Release, Withdraw, Unclaim
<1>12. ASSUME NEW a \in Replies, Store(a)
      PROVE  Registered'
  BY <1>12 DEF Store, MarkFailed, SetStatus, AfterDelivery, Leave, Release,
               Withdraw, Unclaim
<1>13. ASSUME NEW a \in Replies, NEW o \in Outcomes(a), Sent(a, o)
      PROVE  Registered'
  BY <1>13 DEF Sent, SetStatus, GoesOn, YieldGate, AfterDelivery, Leave,
               Release, Withdraw, Unclaim
<1>14. ASSUME NEW a \in Replies, EndPause(a)
      PROVE  Registered'
  BY <1>14 DEF EndPause, Queue
<1>15. ASSUME NEW a \in Replies, GoOn(a)
      PROVE  Registered'
  BY <1>15 DEF GoOn, Granted, Refresh, MayGoOn, Refused
<1>16. ASSUME NEW a \in Replies, CancelWait(a)
      PROVE  Registered'
  BY <1>16 DEF CancelWait, AfterDelivery, Leave, Release, Withdraw, Unclaim
<1>17. ASSUME NEW a \in Replies, NEW fresh \in BOOLEAN, Publish(a, fresh)
      PROVE  Registered'
  BY <1>17 DEF Publish, IsCurrent, AfterDelivery, Leave, Release, Withdraw,
               Unclaim
<1>18. ASSUME NEW a \in Replies, Reenter(a)
      PROVE  Registered'
  BY <1>18 DEF Reenter, Granted
<1>19. ASSUME NEW a \in Replies, Finish(a)
      PROVE  Registered'
  BY <1>19 DEF Finish, Leave, Release, Withdraw, Unclaim
<1>20. ASSUME NEW a \in Ticks \cup Operations, StartOther(a)
      PROVE  Registered'
  BY <1>20 DEF StartOther, MayClaim, Claim, Queue
<1>21. ASSUME NEW k \in Ticks, BeginTick(k)
      PROVE  Registered'
  BY <1>21 DEF BeginTick, Granted, Invalidate
<1>22. ASSUME NEW k \in Ticks, EndTick(k)
      PROVE  Registered'
  BY <1>22 DEF EndTick
<1>23. ASSUME NEW a \in Operations, BeginOperation(a)
      PROVE  Registered'
  BY <1>23 DEF BeginOperation, Granted
<1>24. ASSUME NEW a \in Operations, NEW moves \in BOOLEAN, EndOperation(a, moves)
      PROVE  Registered'
  BY <1>24 DEF EndOperation, Leave, Release, Withdraw, Unclaim
<1>25. ASSUME UNCHANGED vars
      PROVE  Registered'
  BY <1>25 DEF vars
<1>. QED BY <1>1, <1>2, <1>3, <1>4, <1>5, <1>6, <1>7, <1>8, <1>9, <1>10,
            <1>11, <1>12, <1>13, <1>14, <1>15, <1>16, <1>17, <1>18, <1>19,
            <1>20, <1>21, <1>22, <1>23, <1>24, <1>25
        DEF Next, Dispatching, Generating, Deliver, Sends, Others

\* The clock is ahead of every state.
LEMMA StampedStep ==
    ASSUME at \in [Actors -> Places], ReplyOK, StateOK, Stamped, [Next]_vars
    PROVE  Stamped'
<1>. USE ActorAssumption DEF Stamped, ReplyOK, StateOK, Actors, Replies,
                             Places, Delivering, Working, Waiting, admission,
                             gate, owner, plan, reply, state, vars
<1>1. ASSUME NEW t \in Turns, Admit(t)
      PROVE  Stamped'
  BY <1>1 DEF Admit, Invalidate, Superseded
<1>2. ASSUME NEW t \in Turns, Enter(t)
      PROVE  Stamped'
  BY <1>2 DEF Enter, Claim, Queue
<1>3. ASSUME NEW t \in Turns, Close(t)
      PROVE  Stamped'
  BY <1>3 DEF Close, Forget, ForgetTail
<1>4. ASSUME NEW t \in Turns, Interrupt(t)
      PROVE  Stamped'
  BY <1>4 DEF Interrupt
<1>5. ASSUME Stop
      PROVE  Stamped'
  BY <1>5 DEF Stop, Invalidate
<1>6. ASSUME Resume
      PROVE  Stamped'
  BY <1>6 DEF Resume
<1>7. ASSUME SwitchOff
      PROVE  Stamped'
  BY <1>7 DEF SwitchOff
<1>8. ASSUME NEW t \in Turns, BeginWork(t)
      PROVE  Stamped'
  BY <1>8 DEF BeginWork, Granted
<1>9. ASSUME NEW a \in Replies, EndWork(a)
      PROVE  Stamped'
  BY <1>9 DEF EndWork, Refresh, Refused
<1>10. ASSUME NEW t \in Turns, Discard(t)
      PROVE  Stamped'
  BY <1>10 DEF Discard, Leave, Release, Withdraw, Unclaim
<1>11. ASSUME NEW t \in Turns, Fail(t)
      PROVE  Stamped'
  BY <1>11 DEF Fail, Leave, Release, Withdraw, Unclaim
<1>12. ASSUME NEW a \in Replies, Store(a)
      PROVE  Stamped'
  BY <1>12 DEF Store, MarkFailed, SetStatus, AfterDelivery, Leave, Release,
               Withdraw, Unclaim
<1>13. ASSUME NEW a \in Replies, NEW o \in Outcomes(a), Sent(a, o)
      PROVE  Stamped'
  BY <1>13 DEF Sent, SetStatus, GoesOn, YieldGate, AfterDelivery, Leave,
               Release, Withdraw, Unclaim
<1>14. ASSUME NEW a \in Replies, EndPause(a)
      PROVE  Stamped'
  BY <1>14 DEF EndPause, Queue
<1>15. ASSUME NEW a \in Replies, GoOn(a)
      PROVE  Stamped'
  BY <1>15 DEF GoOn, Granted, Refresh, MayGoOn, Refused
<1>16. ASSUME NEW a \in Replies, CancelWait(a)
      PROVE  Stamped'
  BY <1>16 DEF CancelWait, AfterDelivery, Leave, Release, Withdraw, Unclaim
<1>17. ASSUME NEW a \in Replies, NEW fresh \in BOOLEAN, Publish(a, fresh)
      PROVE  Stamped'
  BY <1>17 DEF Publish, IsCurrent, AfterDelivery, Leave, Release, Withdraw,
               Unclaim
<1>18. ASSUME NEW a \in Replies, Reenter(a)
      PROVE  Stamped'
  BY <1>18 DEF Reenter, Granted
<1>19. ASSUME NEW a \in Replies, Finish(a)
      PROVE  Stamped'
  BY <1>19 DEF Finish, Leave, Release, Withdraw, Unclaim
<1>20. ASSUME NEW a \in Ticks \cup Operations, StartOther(a)
      PROVE  Stamped'
  BY <1>20 DEF StartOther, MayClaim, Claim, Queue
<1>21. ASSUME NEW k \in Ticks, BeginTick(k)
      PROVE  Stamped'
  BY <1>21 DEF BeginTick, Granted, Invalidate
<1>22. ASSUME NEW k \in Ticks, EndTick(k)
      PROVE  Stamped'
  BY <1>22 DEF EndTick
<1>23. ASSUME NEW a \in Operations, BeginOperation(a)
      PROVE  Stamped'
  BY <1>23 DEF BeginOperation, Granted
<1>24. ASSUME NEW a \in Operations, NEW moves \in BOOLEAN, EndOperation(a, moves)
      PROVE  Stamped'
  BY <1>24 DEF EndOperation, Leave, Release, Withdraw, Unclaim
<1>25. ASSUME UNCHANGED vars
      PROVE  Stamped'
  BY <1>25 DEF vars
<1>. HIDE DEF Stamped, ReplyOK, StateOK
<1>. QED BY <1>1, <1>2, <1>3, <1>4, <1>5, <1>6, <1>7, <1>8, <1>9, <1>10,
            <1>11, <1>12, <1>13, <1>14, <1>15, <1>16, <1>17, <1>18, <1>19,
            <1>20, <1>21, <1>22, <1>23, <1>24, <1>25
        DEF Next, Dispatching, Generating, Deliver, Sends, Others

-----------------------------------------------------------------------------
(* The order of a chat                                                     *)

\* What the dispatcher reads stays as it is.
Quiet ==
    /\ UNCHANGED admission
    /\ \A t \in Turns : \A p \in {"new", "queued", "over"} : at'[t] = p <=> at[t] = p
Dispatched == \E t \in Turns : Admit(t) \/ Enter(t) \/ Close(t)

\* Leaving the gate neither accepts nor ends a turn.
LEMMA LeaveQuiet ==
    ASSUME at \in [Actors -> Places], NEW a \in Claiming, Leave(a)
    PROVE  \A t \in Turns : \A p \in {"new", "queued", "over"} : at'[t] = p <=> at[t] = p
BY DEF Leave, Claiming, Actors, Replies, Delivering, Working, Waiting

\* Nor does the end of a delivery.
LEMMA AfterDeliveryQuiet ==
    ASSUME at \in [Actors -> Places], NEW a \in Claiming, AfterDelivery(a)
    PROVE  \A t \in Turns : \A p \in {"new", "queued", "over"} : at'[t] = p <=> at[t] = p
<1>1. CASE Leave(a)
  BY <1>1, LeaveQuiet
<1>2. CASE ~Leave(a)
  <2>1. \E p \in {"finishing", "refinish"} : at' = [at EXCEPT ![a] = p]
    BY <1>2 DEF AfterDelivery
  <2>. QED BY <2>1 DEF Claiming, Actors, Delivering, Working, Waiting
<1>. QED BY <1>1, <1>2

\* Only the dispatcher accepts a turn, ends its wait and ends it.
LEMMA QuietStep ==
    ASSUME at \in [Actors -> Places], [Next]_vars
    PROVE  Quiet \/ Dispatched
<1>. USE ActorAssumption DEF Quiet, Dispatched, Claiming, Actors, Replies,
                             Places, Delivering, Working, Waiting, admission,
                             gate, owner, plan, reply, state, vars
<1>1. ASSUME NEW t \in Turns, Admit(t)
      PROVE  Quiet \/ Dispatched
  BY <1>1 DEF Admit, Invalidate, Superseded
<1>2. ASSUME NEW t \in Turns, Enter(t)
      PROVE  Quiet \/ Dispatched
  BY <1>2 DEF Enter, Claim, Queue
<1>3. ASSUME NEW t \in Turns, Close(t)
      PROVE  Quiet \/ Dispatched
  BY <1>3 DEF Close, Forget, ForgetTail
<1>4. ASSUME NEW t \in Turns, Interrupt(t)
      PROVE  Quiet \/ Dispatched
  BY <1>4 DEF Interrupt
<1>5. ASSUME Stop
      PROVE  Quiet \/ Dispatched
  BY <1>5 DEF Stop, Invalidate
<1>6. ASSUME Resume
      PROVE  Quiet \/ Dispatched
  BY <1>6 DEF Resume
<1>7. ASSUME SwitchOff
      PROVE  Quiet \/ Dispatched
  BY <1>7 DEF SwitchOff
<1>8. ASSUME NEW t \in Turns, BeginWork(t)
      PROVE  Quiet \/ Dispatched
  BY <1>8 DEF BeginWork, Granted
<1>9. ASSUME NEW a \in Replies, EndWork(a)
      PROVE  Quiet \/ Dispatched
  BY <1>9 DEF EndWork, Refresh, Refused
<1>10. ASSUME NEW t \in Turns, Discard(t)
      PROVE  Quiet \/ Dispatched
  <2>1. t \in Claiming
    BY <1>10 DEF Discard
  <2>. QED BY <1>10, <2>1, LeaveQuiet DEF Discard
<1>11. ASSUME NEW t \in Turns, Fail(t)
      PROVE  Quiet \/ Dispatched
  <2>1. t \in Claiming
    BY <1>11 DEF Fail
  <2>. QED BY <1>11, <2>1, LeaveQuiet DEF Fail
<1>12. ASSUME NEW a \in Replies, Store(a)
      PROVE  Quiet \/ Dispatched
  <2>1. a \in Claiming
    BY <1>12 DEF Store
  <2>2. CASE AfterDelivery(a)
    BY <1>12, <2>1, <2>2, AfterDeliveryQuiet DEF Store
  <2>3. CASE ~AfterDelivery(a)
    BY <1>12, <2>3 DEF Store
  <2>. QED BY <2>2, <2>3
<1>13. ASSUME NEW a \in Replies, NEW o \in Outcomes(a), Sent(a, o)
      PROVE  Quiet \/ Dispatched
  <2>1. a \in Claiming
    BY <1>13 DEF Sent
  <2>2. CASE AfterDelivery(a)
    BY <1>13, <2>1, <2>2, AfterDeliveryQuiet DEF Sent
  <2>3. CASE ~AfterDelivery(a)
    BY <1>13, <2>3 DEF Sent
  <2>. QED BY <2>2, <2>3
<1>14. ASSUME NEW a \in Replies, EndPause(a)
      PROVE  Quiet \/ Dispatched
  BY <1>14 DEF EndPause, Queue
<1>15. ASSUME NEW a \in Replies, GoOn(a)
      PROVE  Quiet \/ Dispatched
  BY <1>15 DEF GoOn, Granted, Refresh, MayGoOn, Refused
<1>16. ASSUME NEW a \in Replies, CancelWait(a)
      PROVE  Quiet \/ Dispatched
  <2>1. a \in Claiming
    BY <1>16 DEF CancelWait
  <2>. QED BY <1>16, <2>1, LeaveQuiet, AfterDeliveryQuiet DEF CancelWait
<1>17. ASSUME NEW a \in Replies, NEW fresh \in BOOLEAN, Publish(a, fresh)
      PROVE  Quiet \/ Dispatched
  <2>1. a \in Claiming
    BY <1>17 DEF Publish
  <2>2. CASE AfterDelivery(a)
    BY <1>17, <2>1, <2>2, AfterDeliveryQuiet DEF Publish
  <2>3. CASE ~AfterDelivery(a)
    BY <1>17, <2>3 DEF Publish
  <2>. QED BY <2>2, <2>3
<1>18. ASSUME NEW a \in Replies, Reenter(a)
      PROVE  Quiet \/ Dispatched
  BY <1>18 DEF Reenter, Granted
<1>19. ASSUME NEW a \in Replies, Finish(a)
      PROVE  Quiet \/ Dispatched
  <2>1. a \in Claiming
    BY <1>19 DEF Finish
  <2>. QED BY <1>19, <2>1, LeaveQuiet DEF Finish
<1>20. ASSUME NEW a \in Ticks \cup Operations, StartOther(a)
      PROVE  Quiet \/ Dispatched
  BY <1>20 DEF StartOther, MayClaim, Claim, Queue
<1>21. ASSUME NEW k \in Ticks, BeginTick(k)
      PROVE  Quiet \/ Dispatched
  BY <1>21 DEF BeginTick, Granted, Invalidate
<1>22. ASSUME NEW k \in Ticks, EndTick(k)
      PROVE  Quiet \/ Dispatched
  BY <1>22 DEF EndTick
<1>23. ASSUME NEW a \in Operations, BeginOperation(a)
      PROVE  Quiet \/ Dispatched
  BY <1>23 DEF BeginOperation, Granted
<1>24. ASSUME NEW a \in Operations, NEW moves \in BOOLEAN, EndOperation(a, moves)
      PROVE  Quiet \/ Dispatched
  <2>1. a \in Claiming
    BY <1>24 DEF EndOperation
  <2>. QED BY <1>24, <2>1, LeaveQuiet DEF EndOperation
<1>25. ASSUME UNCHANGED vars
      PROVE  Quiet \/ Dispatched
  BY <1>25 DEF vars
<1>. QED BY <1>1, <1>2, <1>3, <1>4, <1>5, <1>6, <1>7, <1>8, <1>9, <1>10,
            <1>11, <1>12, <1>13, <1>14, <1>15, <1>16, <1>17, <1>18, <1>19,
            <1>20, <1>21, <1>22, <1>23, <1>24, <1>25
        DEF Next, Dispatching, Generating, Deliver, Sends, Others

\* An accepted turn joins the end of the accepted ones.
LEMMA AdmitLast ==
    ASSUME AdmissionOK, NEW t \in Turns, Admit(t)
    PROVE  LET n == Len(accepted) + 1 IN
           /\ n \in Nat \ {0}
           /\ DOMAIN accepted = 1..(n - 1) /\ DOMAIN accepted' = 1..n
           /\ accepted'[n] = t
           /\ \A i \in 1..(n - 1) : accepted'[i] = accepted[i]
BY DEF AdmissionOK, Admit

\* The parts of the invariant that a chat's order rests on.
Ordered == AcceptedOnce /\ InLine /\ Behind /\ Tailed

\* The orders only look at what Quiet keeps.
LEMMA QuietOrder ==
    ASSUME at \in [Actors -> Places], AdmissionOK, Ordered, Quiet
    PROVE  Ordered'
<1>. USE DEF Quiet, Ordered, AdmissionOK, admission, Over, SameChat
<1>1. \A i \in DOMAIN accepted : accepted[i] \in Turns
  OBVIOUS
<1>2. AcceptedOnce'
  BY <1>1 DEF AcceptedOnce
<1>3. InLine'
  BY <1>1 DEF InLine
<1>4. Behind'
  BY <1>1 DEF Behind, FirstOfChat, WaitsFor
<1>5. Tailed'
  BY <1>1 DEF Tailed, LastOfChat
<1>. QED BY <1>2, <1>3, <1>4, <1>5

\* An accepted turn waits for its chat's tail.
LEMMA AdmitOrder ==
    ASSUME at \in [Actors -> Places], AdmissionOK, Ordered, NEW t \in Turns, Admit(t)
    PROVE  Ordered'
<1>. DEFINE Old == DOMAIN accepted
<1>. USE ActorAssumption DEF Over, SameChat
<1>0. PICK n \in Nat \ {0} : /\ Old = 1..(n - 1) /\ DOMAIN accepted' = 1..n
                            /\ accepted'[n] = t
                            /\ \A i \in Old : accepted'[i] = accepted[i]
  BY AdmitLast
<1>1. /\ n \in Nat /\ n \notin Old /\ DOMAIN accepted' = Old \cup {n}
      /\ \A i \in Old : i \in Nat /\ i < n
      /\ accepted'[n] = t
      /\ \A i \in Old : accepted'[i] = accepted[i]
  <2>. HIDE DEF Old
  <2>. QED BY <1>0
<1>2. \A i \in Old : accepted[i] \in Turns /\ accepted[i] # t
  BY DEF AcceptedOnce, Admit, AdmissionOK, Ordered
<1>3. /\ at[t] = "new" /\ at' = [at EXCEPT ![t] = "queued"]
      /\ tails' = [tails EXCEPT ![ChatOf[t]] = t]
      /\ behind' = [behind EXCEPT ![t] = ({tails[ChatOf[t]]} \ {Nobody})
                        \cup {k \in reports : ChatOf[k] = ChatOf[t]}]
  BY DEF Admit
<1>4. /\ \A i \in Old : at'[accepted[i]] = at[accepted[i]]
      /\ \A u \in Turns \ {t} : at'[u] = at[u]
      /\ at'[t] = "queued"
      /\ \A i \in Old : behind'[accepted[i]] = behind[accepted[i]]
      /\ tails[ChatOf[t]] # Nobody => tails[ChatOf[t]] \in behind'[t]
      /\ ChatOf[t] \in Chats /\ tails'[ChatOf[t]] = t
      /\ \A c \in Chats \ {ChatOf[t]} : tails'[c] = tails[c]
  BY <1>2, <1>3 DEF Actors, Replies, AdmissionOK
<1>5. /\ \A u \in Turns : at[u] # "new" <=> \E i \in Old : accepted[i] = u
      /\ \A i, j \in Old : accepted[i] = accepted[j] => i = j
      /\ InLine /\ Behind /\ Tailed
  BY DEF Ordered, AcceptedOnce
<1>6. t # Nobody
  BY DEF Actors, Replies
<1>. HIDE DEF Old
<1>7. AcceptedOnce'
  <2>1. \A u \in Turns : at'[u] # "new" <=> \E i \in Old \cup {n} : accepted'[i] = u
    BY <1>1, <1>2, <1>4, <1>5
  <2>2. \A i, j \in Old \cup {n} : accepted'[i] = accepted'[j] => i = j
    BY <1>1, <1>2, <1>5
  <2>. QED BY <1>1, <2>1, <2>2 DEF AcceptedOnce
<1>8. InLine'
  <2>. SUFFICES ASSUME NEW i \in Old \cup {n}, NEW j \in Old \cup {n}, i < j,
                       SameChat(i, j)', at'[accepted'[j]] # "queued"
                PROVE  Over(i)'
    BY <1>1 DEF InLine
  <2>1. j \in Old
    BY <1>1, <1>4
  <2>2. i \in Old
    BY <1>1, <2>1
  <2>3. SameChat(i, j) /\ at[accepted[j]] # "queued"
    BY <1>1, <1>4, <2>1, <2>2
  <2>4. Over(i)
    BY <1>5, <2>1, <2>2, <2>3 DEF InLine, Old
  <2>. QED BY <1>1, <1>4, <2>2, <2>4
<1>9. Behind'
  <2>1. ASSUME NEW j \in Old, FirstOfChat(j)
        PROVE  FirstOfChat(j)'
    <3>. SUFFICES ASSUME NEW i \in Old \cup {n}, i < j, SameChat(i, j)'
                  PROVE  Over(i)'
      BY <1>1 DEF FirstOfChat
    <3>1. i \in Old
      BY <1>1
    <3>2. Over(i)
      BY <1>1, <2>1, <3>1 DEF FirstOfChat, Old
    <3>. QED BY <1>1, <1>4, <3>1, <3>2
  <2>2. ASSUME NEW j \in Old, NEW p \in Old, WaitsFor(j, p)
        PROVE  WaitsFor(j, p)'
    <3>1. \A i \in Old : i < j /\ SameChat(i, j) => i <= p
      BY <2>2 DEF WaitsFor, Old
    <3>2. \A i \in Old \cup {n} : i < j /\ SameChat(i, j)' => i <= p
      BY <1>1, <3>1
    <3>3. p < j /\ SameChat(p, j) /\ accepted[p] \in behind[accepted[j]]
      BY <2>2 DEF WaitsFor
    <3>. QED BY <1>1, <1>4, <3>2, <3>3 DEF WaitsFor
  <2>3. FirstOfChat(n)' \/ \E p \in Old \cup {n} : WaitsFor(n, p)'
    <3>1. CASE tails[ChatOf[t]] = Nobody
      <4>1. \A i \in Old : ChatOf[accepted[i]] = ChatOf[t] => Over(i)
        BY <1>4, <1>5, <3>1 DEF Tailed, Old
      <4>2. ASSUME NEW i \in Old \cup {n}, i < n, SameChat(i, n)'
            PROVE  Over(i)'
        BY <1>1, <1>4, <4>1, <4>2
      <4>. QED BY <1>1, <4>2 DEF FirstOfChat
    <3>2. CASE tails[ChatOf[t]] # Nobody
      <4>1. PICK p \in Old : accepted[p] = tails[ChatOf[t]] /\ LastOfChat(p, ChatOf[t])
        BY <1>4, <1>5, <3>2 DEF Tailed, Old
      <4>2. /\ ChatOf[accepted[p]] = ChatOf[t]
            /\ \A i \in Old : ChatOf[accepted[i]] = ChatOf[t] => i <= p
        BY <4>1 DEF LastOfChat, Old
      <4>3. \A i \in Old \cup {n} : i < n /\ SameChat(i, n)' => i <= p
        BY <1>1, <4>2
      <4>4. p < n /\ SameChat(p, n)' /\ accepted'[p] \in behind'[accepted'[n]]
        BY <1>1, <1>4, <3>2, <4>1, <4>2
      <4>. QED BY <1>1, <4>3, <4>4 DEF WaitsFor
    <3>. QED BY <3>1, <3>2
  <2>4. \A j \in Old : FirstOfChat(j) \/ \E p \in Old : WaitsFor(j, p)
    BY <1>5 DEF Behind, Old
  <2>. QED BY <1>1, <2>1, <2>2, <2>3, <2>4 DEF Behind
<1>10. Tailed'
  <2>1. ASSUME NEW c \in Chats, tails'[c] = Nobody, NEW i \in Old \cup {n},
               ChatOf[accepted'[i]] = c
        PROVE  Over(i)'
    <3>1. c # ChatOf[t]
      BY <1>4, <1>6, <2>1
    <3>2. i \in Old /\ tails[c] = Nobody /\ ChatOf[accepted[i]] = c
      BY <1>1, <1>4, <2>1, <3>1
    <3>3. Over(i)
      BY <1>5, <3>2 DEF Tailed, Old
    <3>. QED BY <1>1, <1>4, <3>2, <3>3
  <2>2. ASSUME NEW c \in Chats, tails'[c] # Nobody
        PROVE  \E p \in Old \cup {n} : accepted'[p] = tails'[c] /\ LastOfChat(p, c)'
    <3>1. CASE c = ChatOf[t]
      BY <1>1, <1>4, <3>1 DEF LastOfChat
    <3>2. CASE c # ChatOf[t]
      <4>1. tails'[c] = tails[c]
        BY <1>4, <3>2
      <4>2. PICK p \in Old : accepted[p] = tails[c] /\ LastOfChat(p, c)
        BY <1>5, <2>2, <4>1 DEF Tailed, Old
      <4>3. /\ ChatOf[accepted[p]] = c
            /\ \A i \in Old : ChatOf[accepted[i]] = c => i <= p
        BY <4>2 DEF LastOfChat, Old
      <4>4. \A i \in Old \cup {n} : ChatOf[accepted'[i]] = c => i <= p
        BY <1>1, <3>2, <4>3
      <4>. QED BY <1>1, <4>1, <4>2, <4>3, <4>4 DEF LastOfChat
    <3>. QED BY <3>1, <3>2
  <2>. QED BY <1>1, <2>1, <2>2 DEF Tailed
<1>. QED BY <1>7, <1>8, <1>9, <1>10 DEF Ordered

\* A turn enters the gate when all turns accepted before it in its chat are
\* over: it awaited the one just before it, which had awaited the others.
LEMMA EnterOrder ==
    ASSUME at \in [Actors -> Places], AdmissionOK, Ordered, NEW t \in Turns, Enter(t)
    PROVE  Ordered'
<1>. DEFINE Acc == DOMAIN accepted
<1>. USE ActorAssumption DEF Over, SameChat
<1>1. /\ at[t] = "queued" /\ \A a \in behind[t] : at[a] = "over"
      /\ at' = [at EXCEPT ![t] = "gate"]
      /\ UNCHANGED <<tails, behind, accepted>>
  BY DEF Enter, Claim, Queue, admission
<1>2. /\ at'[t] = "gate" /\ \A u \in Turns \ {t} : at'[u] = at[u]
  BY <1>1 DEF Actors, Replies
<1>3. \A i \in Acc : accepted[i] \in Turns /\ i \in Nat
  BY DEF AdmissionOK
<1>4. \A i \in Acc : Over(i)' <=> Over(i)
  BY <1>1, <1>2, <1>3
<1>5. AcceptedOnce /\ InLine /\ Behind /\ Tailed
  BY DEF Ordered
<1>6. ASSUME NEW j \in Acc, accepted[j] = t
      PROVE  FirstOfChat(j)
  <2>1. CASE \E p \in Acc : WaitsFor(j, p)
    <3>1. PICK p \in Acc : WaitsFor(j, p)
      BY <2>1
    <3>2. /\ accepted[p] \in behind[t] /\ SameChat(p, j)
          /\ \A i \in Acc : i < j /\ SameChat(i, j) => i <= p
      BY <1>6, <3>1 DEF WaitsFor
    <3>3. at[accepted[p]] = "over"
      BY <1>1, <3>2
    <3>4. \A i \in Acc : i < p /\ SameChat(i, p) => Over(i)
      BY <1>5, <3>3 DEF InLine
    <3>5. ASSUME NEW i \in Acc, i < j, SameChat(i, j)
          PROVE  Over(i)
      <4>1. i <= p /\ SameChat(i, p)
        BY <3>2, <3>5
      <4>2. i = p \/ i < p
        BY <1>3, <4>1
      <4>. QED BY <3>3, <3>4, <4>1, <4>2
    <3>. QED BY <3>5 DEF FirstOfChat
  <2>. QED BY <1>5, <2>1 DEF Behind
<1>7. AcceptedOnce'
  BY <1>1, <1>2, <1>3, <1>5 DEF AcceptedOnce
<1>8. InLine'
  <2>1. ASSUME NEW i \in Acc, NEW j \in Acc, i < j, SameChat(i, j),
               at'[accepted[j]] # "queued"
        PROVE  Over(i)
    <3>1. CASE accepted[j] = t
      BY <1>6, <2>1, <3>1 DEF FirstOfChat
    <3>2. CASE accepted[j] # t
      BY <1>2, <1>3, <1>5, <2>1, <3>2 DEF InLine
    <3>. QED BY <3>1, <3>2
  <2>. QED BY <1>1, <1>4, <2>1 DEF InLine
<1>9. Behind'
  BY <1>1, <1>4, <1>5 DEF Behind, FirstOfChat, WaitsFor
<1>10. Tailed'
  BY <1>1, <1>4, <1>5 DEF Tailed, LastOfChat
<1>. QED BY <1>7, <1>8, <1>9, <1>10 DEF Ordered

\* A turn that ends leaves its chat without a tail only as its last one.
LEMMA CloseOrder ==
    ASSUME at \in [Actors -> Places], AdmissionOK, Ordered, NEW t \in Turns, Close(t)
    PROVE  Ordered'
<1>. DEFINE Acc == DOMAIN accepted
<1>. USE ActorAssumption DEF Over, SameChat
<1>1. /\ at[t] = "left" /\ at' = [at EXCEPT ![t] = "over"]
      /\ tails' = [tails EXCEPT ![ChatOf[t]] = IF @ = t THEN Nobody ELSE @]
      /\ UNCHANGED <<behind, accepted>>
  BY DEF Close, ForgetTail
<1>2. /\ at'[t] = "over" /\ \A u \in Turns \ {t} : at'[u] = at[u]
      /\ \A c \in Chats : tails'[c] = tails[c] \/ (tails[c] = t /\ tails'[c] = Nobody)
      /\ t # Nobody
  BY <1>1 DEF Actors, Replies, AdmissionOK
<1>3. \A i \in Acc : accepted[i] \in Turns /\ i \in Nat
  BY DEF AdmissionOK
<1>4. \A i \in Acc : Over(i) => Over(i)'
  BY <1>1, <1>2, <1>3
<1>5. AcceptedOnce /\ InLine /\ Behind /\ Tailed
  BY DEF Ordered
<1>6. AcceptedOnce'
  BY <1>1, <1>2, <1>3, <1>5 DEF AcceptedOnce
<1>7. InLine'
  <2>1. \A j \in Acc : at'[accepted[j]] # "queued" => at[accepted[j]] # "queued"
    BY <1>1, <1>2, <1>3
  <2>. QED BY <1>1, <1>4, <1>5, <2>1 DEF InLine
<1>8. Behind'
  <2>1. \A j \in Acc : FirstOfChat(j) => FirstOfChat(j)'
    BY <1>1, <1>4 DEF FirstOfChat
  <2>2. \A j, p \in Acc : WaitsFor(j, p) => WaitsFor(j, p)'
    BY <1>1 DEF WaitsFor
  <2>. QED BY <1>1, <1>5, <2>1, <2>2 DEF Behind
<1>9. Tailed'
  <2>1. ASSUME NEW c \in Chats, tails'[c] = Nobody, NEW i \in Acc, ChatOf[accepted[i]] = c
        PROVE  Over(i)'
    <3>1. CASE tails[c] = Nobody
      BY <1>4, <1>5, <2>1, <3>1 DEF Tailed
    <3>2. CASE tails[c] = t
      <4>1. PICK p \in Acc : accepted[p] = t /\ LastOfChat(p, c)
        BY <1>2, <1>5, <3>2 DEF Tailed
      <4>2. i <= p /\ SameChat(i, p)
        BY <2>1, <4>1 DEF LastOfChat
      <4>3. i < p => Over(i)
        BY <1>1, <1>5, <4>1, <4>2 DEF InLine
      <4>4. i = p => Over(i)'
        BY <1>1, <1>2, <4>1
      <4>5. i < p \/ i = p
        BY <1>3, <4>2
      <4>. QED BY <1>4, <4>3, <4>4, <4>5
    <3>. QED BY <1>2, <2>1, <3>1, <3>2
  <2>2. ASSUME NEW c \in Chats, tails'[c] # Nobody
        PROVE  \E p \in Acc : accepted[p] = tails'[c] /\ LastOfChat(p, c)
    <3>1. tails'[c] = tails[c]
      BY <1>2, <2>2
    <3>. QED BY <1>5, <2>2, <3>1 DEF Tailed
  <2>3. \A p \in Acc : \A c \in Chats : LastOfChat(p, c)' <=> LastOfChat(p, c)
    BY <1>1 DEF LastOfChat
  <2>. QED BY <1>1, <2>1, <2>2, <2>3 DEF Tailed
<1>. QED BY <1>6, <1>7, <1>8, <1>9 DEF Ordered

\* Every step keeps the order of a chat.
LEMMA OrderStep ==
    ASSUME at \in [Actors -> Places], AdmissionOK, Ordered, [Next]_vars
    PROVE  Ordered'
BY QuietStep, QuietOrder, AdmitOrder, EnterOrder, CloseOrder DEF Dispatched

\* How a step changes the rows.
Stored ==
    \/ rows' = rows
    \/ \E a \in Replies : at[a] = "storing" /\ rows' = Append(rows, <<a, next[a]>>)

\* Rows are only added, by a reply that stores a message.
LEMMA StoredStep ==
    ASSUME at \in [Actors -> Places], [Next]_vars
    PROVE  Stored
<1>. USE ActorAssumption DEF Stored, admission, gate, owner, plan, reply,
                             state, vars
<1>1. ASSUME NEW a \in Replies, Store(a)
      PROVE  Stored
  BY <1>1 DEF Store
<1>2. ASSUME NEW t \in Turns,
             Admit(t) \/ Enter(t) \/ Close(t) \/ Interrupt(t) \/
             BeginWork(t) \/ Discard(t) \/ Fail(t)
      PROVE  Stored
  BY <1>2 DEF Admit, Enter, Close, Interrupt, BeginWork, Discard, Fail
<1>3. ASSUME Stop \/ Resume \/ SwitchOff \/ UNCHANGED vars
      PROVE  Stored
  BY <1>3 DEF Stop, Resume, SwitchOff, vars
<1>4. ASSUME NEW a \in Replies,
             EndWork(a) \/ Sends(a) \/ EndPause(a) \/ GoOn(a) \/
             CancelWait(a) \/ (\E fresh \in BOOLEAN : Publish(a, fresh)) \/
             Reenter(a) \/ Finish(a)
      PROVE  Stored
  BY <1>4 DEF EndWork, Sent, EndPause, GoOn, CancelWait, Publish, Reenter,
              Finish, Sends
<1>5. ASSUME NEW o \in Ticks \cup Operations, StartOther(o)
      PROVE  Stored
  BY <1>5 DEF StartOther
<1>6. ASSUME NEW k \in Ticks,
             BeginTick(k) \/ EndTick(k)
      PROVE  Stored
  BY <1>6 DEF BeginTick, EndTick
<1>7. ASSUME NEW o \in Operations,
             BeginOperation(o) \/
             (\E moves \in BOOLEAN : EndOperation(o, moves))
      PROVE  Stored
  BY <1>7 DEF BeginOperation, EndOperation
<1>. QED BY <1>1, <1>2, <1>3, <1>4, <1>5, <1>6, <1>7
        DEF Next, Dispatching, Generating, Deliver, Sends, Others

\* An invalid plan stays invalid.
LEMMA GrowStep ==
    ASSUME at \in [Actors -> Places], [Next]_vars
    PROVE  invalidated \subseteq invalidated'
<1>. USE ActorAssumption DEF admission, gate, owner, plan, reply, state, vars
<1>1. ASSUME NEW t \in Turns, Admit(t)
      PROVE  invalidated \subseteq invalidated'
  BY <1>1 DEF Admit, Invalidate
<1>2. ASSUME Stop
      PROVE  invalidated \subseteq invalidated'
  BY <1>2 DEF Stop, Invalidate
<1>3. ASSUME NEW a \in Replies, EndWork(a)
      PROVE  invalidated \subseteq invalidated'
  BY <1>3 DEF EndWork, Refresh
<1>4. ASSUME NEW a \in Replies, GoOn(a)
      PROVE  invalidated \subseteq invalidated'
  BY <1>4 DEF GoOn, Refresh
<1>5. ASSUME NEW k \in Ticks, BeginTick(k)
      PROVE  invalidated \subseteq invalidated'
  BY <1>5 DEF BeginTick, Granted, Invalidate
<1>6. ASSUME NEW t \in Turns,
             Enter(t) \/ Close(t) \/ Interrupt(t) \/ BeginWork(t) \/
             Discard(t) \/ Fail(t)
      PROVE  invalidated \subseteq invalidated'
  BY <1>6 DEF Enter, Close, Interrupt, BeginWork, Discard, Fail
<1>7. ASSUME Resume \/ SwitchOff \/ UNCHANGED vars
      PROVE  invalidated \subseteq invalidated'
  BY <1>7 DEF Resume, SwitchOff, vars
<1>8. ASSUME NEW a \in Replies,
             Store(a) \/ Sends(a) \/ EndPause(a) \/ CancelWait(a) \/
             (\E fresh \in BOOLEAN : Publish(a, fresh)) \/ Reenter(a) \/
             Finish(a)
      PROVE  invalidated \subseteq invalidated'
  BY <1>8 DEF Store, Sent, EndPause, CancelWait, Publish, Reenter, Finish,
              Sends
<1>9. ASSUME NEW o \in Ticks \cup Operations, StartOther(o)
      PROVE  invalidated \subseteq invalidated'
  BY <1>9 DEF StartOther
<1>10. ASSUME NEW k \in Ticks, EndTick(k)
      PROVE  invalidated \subseteq invalidated'
  BY <1>10 DEF EndTick
<1>11. ASSUME NEW o \in Operations,
              BeginOperation(o) \/
              (\E moves \in BOOLEAN : EndOperation(o, moves))
      PROVE  invalidated \subseteq invalidated'
  BY <1>11 DEF BeginOperation, EndOperation
<1>. QED BY <1>1, <1>2, <1>3, <1>4, <1>5, <1>6, <1>7, <1>8, <1>9, <1>10,
            <1>11
        DEF Next, Dispatching, Generating, Deliver, Sends, Others

\* Accepted turns keep their places in the order and never wait anew.
LEMMA AcceptedStep ==
    ASSUME at \in [Actors -> Places], AdmissionOK, [Next]_vars
    PROVE  /\ \A i \in DOMAIN accepted :
                  i \in DOMAIN accepted' /\ accepted'[i] = accepted[i]
           /\ \A t \in Turns : /\ at[t] \notin {"new", "queued"} =>
                                      at'[t] \notin {"new", "queued"}
                               /\ at[t] = "over" => at'[t] = "over"
           /\ accepted' = accepted \/ \E t \in Turns : Admit(t)
<1>1. CASE Quiet
  BY <1>1 DEF Quiet, admission
<1>2. ASSUME NEW t \in Turns, Admit(t)
      PROVE  /\ \A i \in DOMAIN accepted :
                    i \in DOMAIN accepted' /\ accepted'[i] = accepted[i]
             /\ at[t] = "new" /\ at' = [at EXCEPT ![t] = "queued"]
  <2>1. at[t] = "new" /\ at' = [at EXCEPT ![t] = "queued"]
    BY <1>2 DEF Admit
  <2>. QED BY <1>2, <2>1, AdmitLast
<1>3. ASSUME NEW t \in Turns, Enter(t) \/ Close(t)
      PROVE  /\ UNCHANGED accepted /\ at[t] # "over"
             /\ at' = [at EXCEPT ![t] = "gate"] \/ at' = [at EXCEPT ![t] = "over"]
  BY <1>3 DEF Enter, Claim, Queue, Close, admission
<1>. QED BY <1>1, <1>2, <1>3, QuietStep DEF Dispatched, Actors, Replies

\* A row is added while all earlier turns of the chat are over.
LEMMA RowsStep ==
    ASSUME TypeOK, Ordered, Rowed, RowedInOrder, [Next]_vars
    PROVE  Rowed' /\ RowedInOrder'
<1>. USE ActorAssumption DEF Over, SameChat
<1>1. /\ at \in [Actors -> Places] /\ AdmissionOK /\ rows \in Seq(Replies \X Nat)
      /\ \A a \in Replies : <<a, next[a]>> \in Replies \X Nat
  BY DEF TypeOK, ReplyOK
<1>3. ASSUME NEW i \in DOMAIN rows'
      PROVE  \/ i \in DOMAIN rows /\ rows'[i] = rows[i]
             \/ /\ \A j \in DOMAIN rows' : j <= i
                /\ rows'[i][1] \in Replies /\ at[rows'[i][1]] = "storing"
  <2>1. CASE UNCHANGED rows
    BY <1>3, <2>1
  <2>2. ASSUME NEW a \in Replies, at[a] = "storing", rows' = Append(rows, <<a, next[a]>>)
        PROVE  \/ i \in DOMAIN rows /\ rows'[i] = rows[i]
               \/ /\ \A j \in DOMAIN rows' : j <= i
                  /\ rows'[i][1] \in Replies /\ at[rows'[i][1]] = "storing"
    <3>. DEFINE r == <<a, next[a]>>
    <3>1. r[1] = a /\ r \in Replies \X Nat
      BY <1>1
    <3>. HIDE DEF r
    <3>2. /\ DOMAIN rows' = 1..(Len(rows) + 1) /\ DOMAIN rows = 1..Len(rows)
          /\ Len(rows) \in Nat
          /\ rows'[Len(rows) + 1] = r /\ \A k \in 1..Len(rows) : rows'[k] = rows[k]
      BY <1>1, <2>2, <3>1 DEF r
    <3>3. CASE i = Len(rows) + 1
      BY <2>2, <3>1, <3>2, <3>3
    <3>4. CASE i \in 1..Len(rows)
      BY <3>2, <3>4
    <3>. QED BY <1>3, <3>2, <3>3, <3>4
  <2>. QED BY <1>1, <2>1, <2>2, StoredStep DEF Stored
<1>4. \A i \in DOMAIN rows : i \in Nat
  BY <1>1
<1>5. \A i \in DOMAIN rows' : i \in Nat
  <2>1. ASSUME NEW a \in Replies, rows' = Append(rows, <<a, next[a]>>)
        PROVE  DOMAIN rows' = 1..(Len(rows) + 1) /\ Len(rows) \in Nat
    BY <1>1, <2>1
  <2>. QED BY <1>1, <1>4, <2>1, StoredStep DEF Stored
<1>6. /\ \A i \in DOMAIN accepted : i \in DOMAIN accepted' /\ accepted'[i] = accepted[i]
      /\ \A t \in Turns : at[t] \notin {"new", "queued"} => at'[t] \notin {"new", "queued"}
  BY <1>1, AcceptedStep
<1>7. Rowed'
  <2>1. ASSUME NEW i \in DOMAIN rows', rows'[i][1] \in Turns
        PROVE  at[rows'[i][1]] \notin {"new", "queued"}
    BY <1>3, <2>1 DEF Rowed
  <2>. QED BY <1>6, <2>1 DEF Rowed
<1>8. RowedInOrder'
  <2>1. AcceptedOnce /\ InLine /\ AcceptedOnce'
    BY <1>1, OrderStep DEF Ordered
  <2>2. \A k \in DOMAIN accepted : accepted[k] \in Turns /\ k \in Nat
    BY <1>1 DEF AdmissionOK
  <2>3. ASSUME NEW i \in DOMAIN rows', NEW k \in DOMAIN accepted', rows'[i][1] = accepted'[k]
        PROVE  /\ k \in DOMAIN accepted /\ accepted'[k] = accepted[k]
               /\ at[accepted[k]] \notin {"new", "queued"}
    <3>1. PICK t \in Turns : t = accepted'[k]
      <4>1. AdmissionOK'
        BY <1>1, AdmissionType DEF TypeOK
      <4>. QED BY <4>1 DEF AdmissionOK
    <3>2. at[t] \notin {"new", "queued"}
      BY <1>3, <2>3, <3>1 DEF Rowed
    <3>3. PICK l \in DOMAIN accepted : accepted[l] = t
      BY <2>1, <3>1, <3>2 DEF AcceptedOnce
    <3>4. l = k
      BY <1>6, <2>1, <2>3, <3>1, <3>3 DEF AcceptedOnce
    <3>. QED BY <1>6, <3>1, <3>2, <3>3, <3>4
  <2>. SUFFICES ASSUME NEW i \in DOMAIN rows', NEW j \in DOMAIN rows',
                       NEW k \in DOMAIN accepted', NEW l \in DOMAIN accepted',
                       i < j, SameChat(k, l)',
                       rows'[i][1] = accepted'[k], rows'[j][1] = accepted'[l]
                PROVE  k <= l
    BY DEF RowedInOrder
  <2>4. /\ k \in DOMAIN accepted /\ accepted'[k] = accepted[k]
        /\ l \in DOMAIN accepted /\ accepted'[l] = accepted[l]
        /\ at[accepted[k]] # "queued" /\ SameChat(k, l)
    BY <2>3
  <2>5. i \in DOMAIN rows /\ rows'[i] = rows[i]
    BY <1>3, <1>5
  <2>6. CASE j \in DOMAIN rows /\ rows'[j] = rows[j]
    BY <2>4, <2>5, <2>6 DEF RowedInOrder
  <2>7. CASE at[accepted[l]] = "storing"
    <3>1. ~(l < k)
      BY <2>1, <2>4, <2>7 DEF InLine
    <3>. QED BY <2>2, <2>4, <3>1
  <2>. QED BY <1>3, <2>4, <2>6, <2>7
<1>. QED BY <1>7, <1>8

\* A sender's newer turn supersedes the older one when it is accepted: the older
\* one is registered, or was superseded or stopped before.
LEMMA SupersededStep ==
    ASSUME TypeOK, Ordered, Registered, SupersededInvalid, [Next]_vars
    PROVE  SupersededInvalid'
<1>. USE ActorAssumption
<1>1. at \in [Actors -> Places] /\ AdmissionOK /\ \A k \in DOMAIN accepted : accepted[k] \in Turns
  BY DEF TypeOK, AdmissionOK
<1>2. invalidated \subseteq invalidated'
  BY <1>1, GrowStep
<1>3. \A t \in Turns : at[t] = "over" => at'[t] = "over"
  BY <1>1, AcceptedStep
<1>4. CASE accepted' = accepted
  BY <1>1, <1>2, <1>3, <1>4 DEF SupersededInvalid
<1>5. ASSUME NEW t \in Turns, Admit(t) PROVE SupersededInvalid'
  <2>. DEFINE Old == DOMAIN accepted
  <2>1. PICK n \in Nat \ {0} : /\ Old = 1..(n - 1) /\ DOMAIN accepted' = 1..n
                               /\ accepted'[n] = t
                               /\ \A i \in Old : accepted'[i] = accepted[i]
    BY <1>1, <1>5, AdmitLast
  <2>2. /\ n \in Nat /\ n \notin Old /\ DOMAIN accepted' = Old \cup {n}
        /\ \A i \in Old : i \in Nat /\ i < n
    <3>. HIDE DEF Old
    <3>. QED BY <2>1
  <2>3. Superseded(t) \subseteq invalidated'
    BY <1>5 DEF Admit, Invalidate
  <2>4. ASSUME NEW i \in Old, Key(accepted[i]) = Key(t), at[accepted[i]] # "over"
        PROVE  accepted[i] \in invalidated'
    <3>1. at[accepted[i]] # "new" /\ accepted[i] \in Turns /\ accepted[i] # Nobody
      BY <1>1 DEF Ordered, AcceptedOnce, Actors, Replies
    <3>2. accepted[i] \in Active
      BY <2>4, <3>1 DEF Active
    <3>3. CASE accepted[i] \in invalidated
      BY <1>2, <3>3
    <3>4. CASE accepted[i] \notin invalidated
      <4>1. latest[Key(accepted[i])] = accepted[i]
        BY <3>1, <3>2, <3>4 DEF Registered
      <4>2. accepted[i] \in Superseded(t)
        BY <2>4, <3>1, <4>1 DEF Superseded
      <4>. QED BY <2>3, <4>2
    <3>. QED BY <3>3, <3>4
  <2>5. SUFFICES ASSUME NEW i \in Old \cup {n}, NEW j \in Old \cup {n}, i < j,
                        Key(accepted'[i]) = Key(accepted'[j]), at'[accepted'[i]] # "over"
                 PROVE  accepted'[i] \in invalidated'
    BY <2>2 DEF SupersededInvalid, Key
  <2>6. i \in Old /\ accepted'[i] = accepted[i] /\ at[accepted[i]] # "over"
    <3>1. i \in Old
      BY <2>2, <2>5
    <3>. QED BY <1>1, <1>3, <2>1, <2>5, <3>1
  <2>7. CASE j \in Old
    BY <1>2, <2>1, <2>5, <2>6, <2>7 DEF SupersededInvalid
  <2>8. CASE j = n
    BY <2>1, <2>4, <2>5, <2>6, <2>8
  <2>. QED BY <2>7, <2>8
<1>. QED BY <1>1, <1>4, <1>5, AcceptedStep

-----------------------------------------------------------------------------
(* The invariant                                                           *)

\* Nobody is at work at first.
LEMMA InitInvariant ==
    ASSUME Init
    PROVE  IInv
<1>. USE ActorAssumption, FiniteAssumption DEF Init, Actors, Replies
<1>1. TypeOK
  <2>1. at \in [Actors -> Places] /\ claims \in Nat
    BY DEF Places
  <2>2. /\ tails = [c \in Chats |-> Nobody] /\ behind = [t \in Turns |-> {}]
        /\ accepted = <<>> /\ waiters = <<>> /\ locked = FALSE /\ held = {}
        /\ latest = [key \in Keys |-> Nobody] /\ plans = {} /\ reports = {}
        /\ stopped = FALSE /\ stops = 0
    OBVIOUS
  <2>. HIDE DEF Init
  <2>7. locked \in BOOLEAN /\ stopped \in BOOLEAN
    BY ONLY <2>2, Zenon
  <2>3. AdmissionOK /\ GateOK
    <3>1. AdmissionOK
      BY <2>2 DEF AdmissionOK
    <3>2. waiters \in Seq(Actors) /\ held \subseteq Actors
      BY <2>2
    <3>. QED BY <2>7, <3>1, <3>2 DEF GateOK
  <2>6. OwnerOK
    <3>1. latest \in [Keys -> Turns \cup {Nobody}] /\ stops \in 0..MaxStops
      BY <2>2
    <3>. QED BY <2>2, <2>7, <3>1, Zenon DEF OwnerOK
  <2>. USE DEF Init
  <2>4. PlanOK /\ StateOK
    BY DEF PlanOK, StateOK
  <2>5. ReplyOK
    BY DEF ReplyOK, Statuses, Messages
  <2>. QED BY <2>1, <2>2, <2>3, <2>4, <2>5, <2>6 DEF TypeOK
<1>2. Exclusive
  BY DEF Exclusive, Working
<1>3. ClaimsCount
  <2>1. Claiming = {}
    BY DEF Claiming, Working, Waiting, Delivering
  <2>. QED BY <2>1, FS_EmptySet DEF ClaimsCount
<1>4. Delivery
  BY DEF Delivery, Messages
<1>5. Planned /\ Registered
  BY DEF Planned, Registered, Active
<1>6. Stamped
  BY DEF Stamped, Delivering
<1>7. Ordered
  BY DEF Ordered, AcceptedOnce, InLine, Behind, Tailed
<1>8. Rowed /\ RowedInOrder /\ SupersededInvalid
  BY DEF Rowed, RowedInOrder, SupersededInvalid
<1>. QED BY <1>1, <1>2, <1>3, <1>4, <1>5, <1>6, <1>7, <1>8 DEF IInv, Ordered

\* Every step keeps the invariant.
LEMMA StepInvariant ==
    ASSUME IInv, [Next]_vars
    PROVE  IInv'
<1>1. /\ TypeOK /\ Exclusive /\ ClaimsCount
      /\ Delivery /\ Planned /\ Registered /\ Stamped
      /\ Ordered /\ Rowed /\ RowedInOrder /\ SupersededInvalid
  BY DEF IInv, Ordered
<1>2. /\ at \in [Actors -> Places] /\ claims \in Nat
      /\ AdmissionOK /\ GateOK /\ OwnerOK /\ PlanOK /\ ReplyOK /\ StateOK
  BY <1>1 DEF TypeOK
<1>3. ClaimsCount' /\ claims' \in Nat
  BY <1>1, ClaimStep, EffectMatch
<1>4. TypeOK'
  <2>1. at' \in [Actors -> Places]
    BY <1>2, PlaceType
  <2>2. AdmissionOK' /\ OwnerOK' /\ PlanOK'
    BY <1>2, AdmissionType, OwnerType, PlanType
  <2>3. GateOK' /\ StateOK' /\ ReplyOK'
    BY <1>1, <1>2, GateType, StateType, ReplyType
  <2>. QED BY <1>3, <2>1, <2>2, <2>3 DEF TypeOK
<1>5. Exclusive'
  BY <1>1, GateStep
<1>6. Delivery' /\ Stamped'
  BY <1>1, <1>2, DeliveryStep, StampedStep
<1>7. Planned' /\ Registered'
  BY <1>1, <1>2, PlannedStep, RegisteredStep
<1>8. Ordered'
  BY <1>1, <1>2, OrderStep
<1>9. Rowed' /\ RowedInOrder' /\ SupersededInvalid'
  BY <1>1, RowsStep, SupersededStep
<1>. QED BY <1>3, <1>4, <1>5, <1>6, <1>7, <1>8, <1>9 DEF IInv, Ordered

\* The invariant holds in every state.
THEOREM Invariant == Spec => []IInv
BY InitInvariant, StepInvariant, PTL DEF Spec

\* Every variable of the model has its type, so the claims never fall below
\* zero.
THEOREM TypeCorrect == Spec => []TypeOK
<1>1. IInv => TypeOK
  BY DEF IInv
<1>. QED BY <1>1, Invariant, PTL

\* The role's lock keeps its work serial: whoever generates, stores, sends or
\* settles accounts has it, and nobody else does.
THEOREM GateExcludes == Spec => []ExclusiveGate
<1>1. ASSUME Exclusive PROVE ExclusiveGate
  <2>1. CASE held = {}
    BY <1>1, <2>1, FS_EmptySet DEF Exclusive, ExclusiveGate
  <2>2. CASE held # {}
    <3>1. PICK a : held = {a}
      BY <1>1, <2>2 DEF Exclusive
    <3>. QED BY <1>1, <3>1, FS_Singleton DEF Exclusive, ExclusiveGate
  <2>. QED BY <2>1, <2>2
<1>2. IInv => ExclusiveGate
  BY <1>1 DEF IInv
<1>. QED BY <1>2, Invariant, PTL

\* What "busy" reads counts everyone who has, awaits or yielded the gate.
THEOREM ClaimsCounted == Spec => []ClaimsCount
<1>1. IInv => ClaimsCount
  BY DEF IInv
<1>. QED BY <1>1, Invariant, PTL

\* What a reply sent is a prefix of it.
THEOREM SendsPrefix == Spec => []PrefixSent
<1>1. ASSUME IInv PROVE PrefixSent
  <2>1. Delivery /\ ReplyOK
    BY <1>1 DEF IInv, TypeOK
  <2>. SUFFICES ASSUME NEW a \in Replies, NEW i \in Messages(a), NEW j \in Messages(a),
                       j < i, status[a][i] # "none"
                PROVE  status[a][j] = "sent"
    BY DEF PrefixSent
  <2>2. next[a] \in Nat /\ i \in Nat /\ j \in Nat
    BY <2>1, ActorAssumption DEF ReplyOK, Messages
  <2>3. i <= next[a]
    BY <2>1, <2>2 DEF Delivery
  <2>. QED BY <2>1, <2>2, <2>3 DEF Delivery
<1>. QED BY <1>1, Invariant, PTL

\* A turn that ends leaves no row undecided, a tick at most the one whose send a
\* plugin's CancelledError left unmarked.
THEOREM EndsDecided == Spec => []NothingPending
<1>1. ASSUME IInv PROVE NothingPending
  <2>1. Delivery /\ ReplyOK
    BY <1>1 DEF IInv, TypeOK
  <2>. SUFFICES ASSUME NEW a \in Replies, at[a] \in {"left", "over"}, NEW i \in Messages(a)
                PROVE  /\ status[a][i] # "pending"
                       /\ status[a][i] = "unmarked" => a \in Ticks /\ i = next[a]
    BY DEF NothingPending
  <2>2. next[a] \in Nat /\ i \in Nat
    BY <2>1, ActorAssumption DEF ReplyOK, Messages
  <2>3. i < next[a] \/ i = next[a] \/ i > next[a]
    BY <2>2
  <2>. QED BY <2>1, <2>3 DEF Delivery
<1>. QED BY <1>1, Invariant, PTL

\* A sender's new message stops the older reply.
THEOREM NewSupersedes == Spec => []SupersededInvalid
<1>1. IInv => SupersededInvalid
  BY DEF IInv
<1>. QED BY <1>1, Invariant, PTL

\* A chat's history has the replies in the order of its messages.
THEOREM HistoryOrdered == Spec => []RowsInOrder
<1>1. ASSUME IInv PROVE RowsInOrder
  <2>1. AcceptedOnce /\ Rowed /\ RowedInOrder
    BY <1>1 DEF IInv
  <2>2. ASSUME NEW i \in DOMAIN rows, rows[i][1] \in Turns
        PROVE  /\ IndexIn(rows[i][1]) \in DOMAIN accepted
               /\ accepted[IndexIn(rows[i][1])] = rows[i][1]
    <3>1. at[rows[i][1]] # "new"
      BY <2>1, <2>2 DEF Rowed
    <3>2. \E k \in DOMAIN accepted : accepted[k] = rows[i][1]
      BY <2>1, <2>2, <3>1 DEF AcceptedOnce
    <3>. QED BY <3>2 DEF IndexIn
  <2>. SUFFICES ASSUME NEW i \in DOMAIN rows, NEW j \in DOMAIN rows, i < j,
                       rows[i][1] \in Turns, rows[j][1] \in Turns,
                       ChatOf[rows[i][1]] = ChatOf[rows[j][1]]
                PROVE  IndexIn(rows[i][1]) <= IndexIn(rows[j][1])
    BY DEF RowsInOrder
  <2>3. /\ IndexIn(rows[i][1]) \in DOMAIN accepted /\ IndexIn(rows[j][1]) \in DOMAIN accepted
        /\ accepted[IndexIn(rows[i][1])] = rows[i][1]
        /\ accepted[IndexIn(rows[j][1])] = rows[j][1]
    BY <2>2
  <2>. QED BY <2>1, <2>3 DEF RowedInOrder, SameChat
<1>. QED BY <1>1, Invariant, PTL

-----------------------------------------------------------------------------
(* What a step may not do                                                  *)

\* Only work that found the role idle claims the gate without waiting.
LEMMA ImpatientStep ==
    ASSUME TypeOK, [Next]_vars
    PROVE  \A x \in Impatient : at[x] = "new" /\ at'[x] = "gate" => claims = 0
<1>. USE ActorAssumption DEF TypeOK, MayClaim, Busy, Actors, Replies, Places,
                             Delivering, Working, Waiting, admission, gate,
                             owner, plan, reply, state, vars
<1>1. ASSUME NEW t \in Turns, Admit(t)
      PROVE  \A x \in Impatient : at[x] = "new" /\ at'[x] = "gate" => claims = 0
  BY <1>1 DEF Admit, Invalidate, Superseded
<1>2. ASSUME NEW t \in Turns, Enter(t)
      PROVE  \A x \in Impatient : at[x] = "new" /\ at'[x] = "gate" => claims = 0
  BY <1>2 DEF Enter, Claim, Queue
<1>3. ASSUME NEW t \in Turns, Close(t)
      PROVE  \A x \in Impatient : at[x] = "new" /\ at'[x] = "gate" => claims = 0
  BY <1>3 DEF Close, Forget, ForgetTail
<1>4. ASSUME NEW t \in Turns, Interrupt(t)
      PROVE  \A x \in Impatient : at[x] = "new" /\ at'[x] = "gate" => claims = 0
  BY <1>4 DEF Interrupt
<1>5. ASSUME Stop
      PROVE  \A x \in Impatient : at[x] = "new" /\ at'[x] = "gate" => claims = 0
  BY <1>5 DEF Stop, Invalidate
<1>6. ASSUME Resume
      PROVE  \A x \in Impatient : at[x] = "new" /\ at'[x] = "gate" => claims = 0
  BY <1>6 DEF Resume
<1>7. ASSUME SwitchOff
      PROVE  \A x \in Impatient : at[x] = "new" /\ at'[x] = "gate" => claims = 0
  BY <1>7 DEF SwitchOff
<1>8. ASSUME NEW t \in Turns, BeginWork(t)
      PROVE  \A x \in Impatient : at[x] = "new" /\ at'[x] = "gate" => claims = 0
  BY <1>8 DEF BeginWork, Granted
<1>9. ASSUME NEW a \in Replies, EndWork(a)
      PROVE  \A x \in Impatient : at[x] = "new" /\ at'[x] = "gate" => claims = 0
  BY <1>9 DEF EndWork, Refresh, Refused
<1>10. ASSUME NEW t \in Turns, Discard(t)
      PROVE  \A x \in Impatient : at[x] = "new" /\ at'[x] = "gate" => claims = 0
  BY <1>10 DEF Discard, Leave, Release, Withdraw, Unclaim
<1>11. ASSUME NEW t \in Turns, Fail(t)
      PROVE  \A x \in Impatient : at[x] = "new" /\ at'[x] = "gate" => claims = 0
  BY <1>11 DEF Fail, Leave, Release, Withdraw, Unclaim
<1>12. ASSUME NEW a \in Replies, Store(a)
      PROVE  \A x \in Impatient : at[x] = "new" /\ at'[x] = "gate" => claims = 0
  BY <1>12, AfterPlace DEF Store
<1>13. ASSUME NEW a \in Replies, NEW o \in Outcomes(a), Sent(a, o)
      PROVE  \A x \in Impatient : at[x] = "new" /\ at'[x] = "gate" => claims = 0
  BY <1>13, AfterPlace DEF Sent
<1>14. ASSUME NEW a \in Replies, EndPause(a)
      PROVE  \A x \in Impatient : at[x] = "new" /\ at'[x] = "gate" => claims = 0
  BY <1>14 DEF EndPause, Queue
<1>15. ASSUME NEW a \in Replies, GoOn(a)
      PROVE  \A x \in Impatient : at[x] = "new" /\ at'[x] = "gate" => claims = 0
  BY <1>15 DEF GoOn, Granted, Refresh, MayGoOn, Refused
<1>16. ASSUME NEW a \in Replies, CancelWait(a)
      PROVE  \A x \in Impatient : at[x] = "new" /\ at'[x] = "gate" => claims = 0
  BY <1>16, AfterPlace DEF CancelWait, Leave
<1>17. ASSUME NEW a \in Replies, NEW fresh \in BOOLEAN, Publish(a, fresh)
      PROVE  \A x \in Impatient : at[x] = "new" /\ at'[x] = "gate" => claims = 0
  BY <1>17, AfterPlace DEF Publish
<1>18. ASSUME NEW a \in Replies, Reenter(a)
      PROVE  \A x \in Impatient : at[x] = "new" /\ at'[x] = "gate" => claims = 0
  BY <1>18 DEF Reenter, Granted
<1>19. ASSUME NEW a \in Replies, Finish(a)
      PROVE  \A x \in Impatient : at[x] = "new" /\ at'[x] = "gate" => claims = 0
  BY <1>19 DEF Finish, Leave, Release, Withdraw, Unclaim
<1>20. ASSUME NEW a \in Ticks \cup Operations, StartOther(a)
      PROVE  \A x \in Impatient : at[x] = "new" /\ at'[x] = "gate" => claims = 0
  BY <1>20 DEF StartOther, MayClaim, Claim, Queue
<1>21. ASSUME NEW k \in Ticks, BeginTick(k)
      PROVE  \A x \in Impatient : at[x] = "new" /\ at'[x] = "gate" => claims = 0
  BY <1>21 DEF BeginTick, Granted, Invalidate
<1>22. ASSUME NEW k \in Ticks, EndTick(k)
      PROVE  \A x \in Impatient : at[x] = "new" /\ at'[x] = "gate" => claims = 0
  BY <1>22 DEF EndTick
<1>23. ASSUME NEW a \in Operations, BeginOperation(a)
      PROVE  \A x \in Impatient : at[x] = "new" /\ at'[x] = "gate" => claims = 0
  BY <1>23 DEF BeginOperation, Granted
<1>24. ASSUME NEW a \in Operations, NEW moves \in BOOLEAN, EndOperation(a, moves)
      PROVE  \A x \in Impatient : at[x] = "new" /\ at'[x] = "gate" => claims = 0
  BY <1>24 DEF EndOperation, Leave, Release, Withdraw, Unclaim
<1>25. ASSUME UNCHANGED vars
      PROVE  \A x \in Impatient : at[x] = "new" /\ at'[x] = "gate" => claims = 0
  BY <1>25 DEF vars
<1>. QED BY <1>1, <1>2, <1>3, <1>4, <1>5, <1>6, <1>7, <1>8, <1>9, <1>10,
            <1>11, <1>12, <1>13, <1>14, <1>15, <1>16, <1>17, <1>18, <1>19,
            <1>20, <1>21, <1>22, <1>23, <1>24, <1>25
        DEF Next, Dispatching, Generating, Deliver, Sends, Others

\* A message is begun only right after its plan was looked at.
LEMMA SilentStep ==
    ASSUME TypeOK, Planned, [Next]_vars
    PROVE  \A x \in Replies :
               at[x] # "storing" /\ at'[x] = "storing" => x \notin invalidated' /\ ~stopped
<1>. USE ActorAssumption DEF TypeOK, Planned, Active, Actors, Replies,
                             Places, Delivering, Working, Waiting, admission,
                             gate, owner, plan, reply, state, vars
<1>1. ASSUME NEW t \in Turns, Admit(t)
      PROVE  \A x \in Replies :
               at[x] # "storing" /\ at'[x] = "storing" => x \notin invalidated' /\ ~stopped
  BY <1>1 DEF Admit, Invalidate, Superseded
<1>2. ASSUME NEW t \in Turns, Enter(t)
      PROVE  \A x \in Replies :
               at[x] # "storing" /\ at'[x] = "storing" => x \notin invalidated' /\ ~stopped
  BY <1>2 DEF Enter, Claim, Queue
<1>3. ASSUME NEW t \in Turns, Close(t)
      PROVE  \A x \in Replies :
               at[x] # "storing" /\ at'[x] = "storing" => x \notin invalidated' /\ ~stopped
  BY <1>3 DEF Close, Forget, ForgetTail
<1>4. ASSUME NEW t \in Turns, Interrupt(t)
      PROVE  \A x \in Replies :
               at[x] # "storing" /\ at'[x] = "storing" => x \notin invalidated' /\ ~stopped
  BY <1>4 DEF Interrupt
<1>5. ASSUME Stop
      PROVE  \A x \in Replies :
               at[x] # "storing" /\ at'[x] = "storing" => x \notin invalidated' /\ ~stopped
  BY <1>5 DEF Stop, Invalidate
<1>6. ASSUME Resume
      PROVE  \A x \in Replies :
               at[x] # "storing" /\ at'[x] = "storing" => x \notin invalidated' /\ ~stopped
  BY <1>6 DEF Resume
<1>7. ASSUME SwitchOff
      PROVE  \A x \in Replies :
               at[x] # "storing" /\ at'[x] = "storing" => x \notin invalidated' /\ ~stopped
  BY <1>7 DEF SwitchOff
<1>8. ASSUME NEW t \in Turns, BeginWork(t)
      PROVE  \A x \in Replies :
               at[x] # "storing" /\ at'[x] = "storing" => x \notin invalidated' /\ ~stopped
  BY <1>8 DEF BeginWork, Granted
<1>9. ASSUME NEW a \in Replies, EndWork(a)
      PROVE  \A x \in Replies :
               at[x] # "storing" /\ at'[x] = "storing" => x \notin invalidated' /\ ~stopped
  BY <1>9 DEF EndWork, Refresh, Refused
<1>10. ASSUME NEW t \in Turns, Discard(t)
      PROVE  \A x \in Replies :
               at[x] # "storing" /\ at'[x] = "storing" => x \notin invalidated' /\ ~stopped
  BY <1>10 DEF Discard, Leave, Release, Withdraw, Unclaim
<1>11. ASSUME NEW t \in Turns, Fail(t)
      PROVE  \A x \in Replies :
               at[x] # "storing" /\ at'[x] = "storing" => x \notin invalidated' /\ ~stopped
  BY <1>11 DEF Fail, Leave, Release, Withdraw, Unclaim
<1>12. ASSUME NEW a \in Replies, Store(a)
      PROVE  \A x \in Replies :
               at[x] # "storing" /\ at'[x] = "storing" => x \notin invalidated' /\ ~stopped
  BY <1>12, AfterPlace DEF Store
<1>13. ASSUME NEW a \in Replies, NEW o \in Outcomes(a), Sent(a, o)
      PROVE  \A x \in Replies :
               at[x] # "storing" /\ at'[x] = "storing" => x \notin invalidated' /\ ~stopped
  BY <1>13, AfterPlace DEF Sent
<1>14. ASSUME NEW a \in Replies, EndPause(a)
      PROVE  \A x \in Replies :
               at[x] # "storing" /\ at'[x] = "storing" => x \notin invalidated' /\ ~stopped
  BY <1>14 DEF EndPause, Queue
<1>15. ASSUME NEW a \in Replies, GoOn(a)
      PROVE  \A x \in Replies :
               at[x] # "storing" /\ at'[x] = "storing" => x \notin invalidated' /\ ~stopped
  BY <1>15 DEF GoOn, Granted, Refresh, MayGoOn, Refused
<1>16. ASSUME NEW a \in Replies, CancelWait(a)
      PROVE  \A x \in Replies :
               at[x] # "storing" /\ at'[x] = "storing" => x \notin invalidated' /\ ~stopped
  BY <1>16, AfterPlace DEF CancelWait, Leave
<1>17. ASSUME NEW a \in Replies, NEW fresh \in BOOLEAN, Publish(a, fresh)
      PROVE  \A x \in Replies :
               at[x] # "storing" /\ at'[x] = "storing" => x \notin invalidated' /\ ~stopped
  BY <1>17, AfterPlace DEF Publish
<1>18. ASSUME NEW a \in Replies, Reenter(a)
      PROVE  \A x \in Replies :
               at[x] # "storing" /\ at'[x] = "storing" => x \notin invalidated' /\ ~stopped
  BY <1>18 DEF Reenter, Granted
<1>19. ASSUME NEW a \in Replies, Finish(a)
      PROVE  \A x \in Replies :
               at[x] # "storing" /\ at'[x] = "storing" => x \notin invalidated' /\ ~stopped
  BY <1>19 DEF Finish, Leave, Release, Withdraw, Unclaim
<1>20. ASSUME NEW a \in Ticks \cup Operations, StartOther(a)
      PROVE  \A x \in Replies :
               at[x] # "storing" /\ at'[x] = "storing" => x \notin invalidated' /\ ~stopped
  BY <1>20 DEF StartOther, MayClaim, Claim, Queue
<1>21. ASSUME NEW k \in Ticks, BeginTick(k)
      PROVE  \A x \in Replies :
               at[x] # "storing" /\ at'[x] = "storing" => x \notin invalidated' /\ ~stopped
  BY <1>21 DEF BeginTick, Granted, Invalidate
<1>22. ASSUME NEW k \in Ticks, EndTick(k)
      PROVE  \A x \in Replies :
               at[x] # "storing" /\ at'[x] = "storing" => x \notin invalidated' /\ ~stopped
  BY <1>22 DEF EndTick
<1>23. ASSUME NEW a \in Operations, BeginOperation(a)
      PROVE  \A x \in Replies :
               at[x] # "storing" /\ at'[x] = "storing" => x \notin invalidated' /\ ~stopped
  BY <1>23 DEF BeginOperation, Granted
<1>24. ASSUME NEW a \in Operations, NEW moves \in BOOLEAN, EndOperation(a, moves)
      PROVE  \A x \in Replies :
               at[x] # "storing" /\ at'[x] = "storing" => x \notin invalidated' /\ ~stopped
  BY <1>24 DEF EndOperation, Leave, Release, Withdraw, Unclaim
<1>25. ASSUME UNCHANGED vars
      PROVE  \A x \in Replies :
               at[x] # "storing" /\ at'[x] = "storing" => x \notin invalidated' /\ ~stopped
  BY <1>25 DEF vars
<1>. QED BY <1>1, <1>2, <1>3, <1>4, <1>5, <1>6, <1>7, <1>8, <1>9, <1>10,
            <1>11, <1>12, <1>13, <1>14, <1>15, <1>16, <1>17, <1>18, <1>19,
            <1>20, <1>21, <1>22, <1>23, <1>24, <1>25
        DEF Next, Dispatching, Generating, Deliver, Sends, Others

\* A state is published over the one it was derived from.
LEMMA ForwardStep ==
    ASSUME ReplyOK, StateOK, Stamped, [Next]_vars
    PROVE  last' >= last /\ mood' >= mood
<1>. USE ActorAssumption DEF ReplyOK, StateOK, Stamped, Delivering,
                             admission, gate, owner, plan, reply, state, vars
<1>1. ASSUME NEW a \in Replies, NEW fresh \in BOOLEAN, Publish(a, fresh)
      PROVE  last' >= last /\ mood' >= mood
  BY <1>1 DEF Publish, IsCurrent
<1>2. ASSUME NEW a \in Operations, NEW moves \in BOOLEAN, EndOperation(a, moves)
      PROVE  last' >= last /\ mood' >= mood
  BY <1>2 DEF EndOperation, Leave, Release, Withdraw, Unclaim
<1>3. ASSUME NEW t \in Turns,
             Admit(t) \/ Enter(t) \/ Close(t) \/ Interrupt(t) \/
             BeginWork(t) \/ Discard(t) \/ Fail(t)
      PROVE  last' >= last /\ mood' >= mood
  BY <1>3 DEF Admit, Enter, Close, Interrupt, BeginWork, Discard, Fail
<1>4. ASSUME Stop \/ Resume \/ SwitchOff \/ UNCHANGED vars
      PROVE  last' >= last /\ mood' >= mood
  BY <1>4 DEF Stop, Resume, SwitchOff, vars
<1>5. ASSUME NEW a \in Replies,
             EndWork(a) \/ Store(a) \/ Sends(a) \/ EndPause(a) \/ GoOn(a) \/
             CancelWait(a) \/ Reenter(a) \/ Finish(a)
      PROVE  last' >= last /\ mood' >= mood
  BY <1>5 DEF EndWork, Store, Sent, EndPause, GoOn, CancelWait, Reenter,
              Finish, Sends
<1>6. ASSUME NEW o \in Ticks \cup Operations, StartOther(o)
      PROVE  last' >= last /\ mood' >= mood
  BY <1>6 DEF StartOther
<1>7. ASSUME NEW k \in Ticks,
             BeginTick(k) \/ EndTick(k)
      PROVE  last' >= last /\ mood' >= mood
  BY <1>7 DEF BeginTick, EndTick
<1>8. ASSUME NEW o \in Operations, BeginOperation(o)
      PROVE  last' >= last /\ mood' >= mood
  BY <1>8 DEF BeginOperation
<1>. QED BY <1>1, <1>2, <1>3, <1>4, <1>5, <1>6, <1>7, <1>8
        DEF Next, Dispatching, Generating, Deliver, Sends, Others

\* Work that refuses to wait starts only while nobody claims the gate.
THEOREM ImpatienceYields == Spec => ImpatientYields
<1>1. ASSUME IInv, [Next]_vars
      PROVE  \A o \in Impatient : at[o] = "new" /\ at'[o] = "gate" => Claiming = {}
  <2>1. TypeOK /\ ClaimsCount
    BY <1>1 DEF IInv
  <2>2. IsFiniteSet(Claiming)
    BY FiniteAssumption, FS_Subset DEF Claiming
  <2>3. claims = 0 => Claiming = {}
    BY <2>1, <2>2, FS_EmptySet DEF ClaimsCount
  <2>. QED BY <1>1, <2>1, <2>3, ImpatientStep
<1>. QED BY <1>1, Invariant, PTL DEF ImpatientYields, Spec

\* No message is begun for a plan that was superseded, switched off or stopped.
THEOREM StaysSilent == Spec => SilentOnceInvalid
<1>1. ASSUME IInv, [Next]_vars
      PROVE  \A a \in Replies : at[a] # "storing" /\ at'[a] = "storing" =>
                a \notin invalidated' /\ ~stopped
  BY <1>1, SilentStep DEF IInv
<1>. QED BY <1>1, Invariant, PTL DEF SilentOnceInvalid, Spec

\* The role's mood and its last turn's time never go back.
THEOREM StateForward == Spec => StateMovesForward
<1>1. ASSUME IInv, [Next]_vars
      PROVE  last' >= last /\ mood' >= mood
  BY <1>1, ForwardStep DEF IInv, TypeOK
<1>. QED BY <1>1, Invariant, PTL DEF StateMovesForward, Spec

=============================================================================
