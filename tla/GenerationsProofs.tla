------------------------- MODULE GenerationsProofs -------------------------
(***************************************************************************)
(* Proofs about Generations for every set of candidates and operations.    *)
(*                                                                         *)
(* The invariant IInv adds to the properties what the protocol knows about *)
(* the candidate in hand: nothing refers to a candidate before it is       *)
(* prepared (Known), a pending candidate is neither published nor retired  *)
(* (PublisherOK), a retention belongs to one publication (RetentionOK).    *)
(* That every step adds or removes one owner of a generation together with *)
(* its reference is the lemma Counting.                                    *)
(* WholeInv adds to it the stages of the publication, the barrier and the  *)
(* exit: what the bridge serves, what a handover may meet, and what is     *)
(* left when the process ends.                                             *)
(***************************************************************************)
EXTENDS Generations, FiniteSetTheorems, TLAPS

PreparedSet == {c \in Candidates : number[c] > 0}

\* Nothing refers to a candidate that was never prepared, and the flags of a
\* candidate are raised in order.
Known ==
    /\ published \subseteq PreparedSet
    /\ retired \subseteq PreparedSet
    /\ tracked \subseteq published
    /\ pins \subseteq published
    /\ publisher.accepted \subseteq published
    /\ \A w \in Ops : lease[w] \in published \cup {None}
    /\ \A h \in Holders : retention[h] \subseteq published
    /\ drained \subseteq closed
    /\ closed \subseteq retired

Pending == publisher.pc \in {"preparing", "ready", "barrier", "handover", "unwinding"}

\* The candidate in hand.
PublisherOK ==
    /\ Pending => publisher.candidate \in PreparedSet \ (published \cup retired)
    /\ publisher.pc = "published" => publisher.candidate \in published \ pins
    /\ publisher.pc = "discarding" => publisher.candidate \in closed \ published
    /\ managerClosed => publisher.pc = "idle"

\* Who may hold a retention.
RetentionOK ==
    /\ exit = "running" => retention[Exit] = {}
    /\ \A c \in Candidates :
          retention[c] # {} => \/ c \in published
                               \/ publisher.pc = "handover" /\ c = publisher.candidate

IInv ==
    /\ TypeOK
    /\ ReferencesMatch
    /\ Known
    /\ PublisherOK
    /\ RetentionOK
    /\ CurrentServes
    /\ LeasedStayOpen

-----------------------------------------------------------------------------
(* Counting owners                                                         *)

\* From S with count n to T with count m by at most one element.
Counted(S, n, T, m) ==
    \/ T = S /\ m = n
    \/ \E x : x \notin S /\ T = S \cup {x} /\ m = n + 1
    \/ \E x : x \in S /\ T = S \ {x} /\ m = n - 1

\* A count that follows its set by at most one element stays its cardinality.
LEMMA CountedMatch ==
    ASSUME NEW S, NEW T, NEW n, NEW m,
           IsFiniteSet(S), n = Cardinality(S), Counted(S, n, T, m)
    PROVE  m = Cardinality(T) /\ IsFiniteSet(T)
<1>1. CASE T = S /\ m = n
  BY <1>1
<1>2. CASE \E x : x \notin S /\ T = S \cup {x} /\ m = n + 1
  BY <1>2, FS_AddElement
<1>3. CASE \E x : x \in S /\ T = S \ {x} /\ m = n - 1
  BY <1>3, FS_RemoveElement
<1>. QED BY <1>1, <1>2, <1>3 DEF Counted

\* The owners of a generation are finitely many.
LEMMA OwnersFinite ==
    ASSUME NEW c \in Candidates
    PROVE  /\ IsFiniteSet(Owners(c))
           /\ IsFiniteSet(PersistentOwners(c))
<1>1. IsFiniteSet(Holders)
  BY FiniteAssumption, FS_AddElement DEF Holders
<1>2. IsFiniteSet({h \in Holders : c \in retention[h]})
  BY <1>1, FS_Subset
<1>3. IsFiniteSet({w \in Ops : lease[w] = c})
  BY FiniteAssumption, FS_Subset
<1>4. IsFiniteSet(IF c \in pins THEN {Bridge} ELSE {})
  BY FS_Singleton, FS_EmptySet
<1>5. IsFiniteSet(PersistentOwners(c))
  BY <1>2, <1>4, FS_Union DEF PersistentOwners
<1>. QED BY <1>3, <1>5, FS_Union DEF Owners

\* Owners are determined by the leases, the retentions and the pins.
LEMMA OwnersSame ==
    ASSUME UNCHANGED <<lease, retention, pins>>, NEW c
    PROVE  /\ Owners(c)' = Owners(c)
           /\ PersistentOwners(c)' = PersistentOwners(c)
BY DEF Owners, PersistentOwners

\* What a step does to the owners and the counters of one generation.
CountedStep(c) ==
    /\ Counted(Owners(c), references[c], Owners(c)', references'[c])
    /\ Counted(PersistentOwners(c), persistent[c],
               PersistentOwners(c)', persistent'[c])

\* An action that leaves leases, retentions, pins and counters alone.
LEMMA CountSame ==
    ASSUME UNCHANGED <<lease, retention, pins, references, persistent>>, NEW c
    PROVE  CountedStep(c)
BY OwnersSame DEF CountedStep, Counted

\* Acquiring adds the operation to the owners of one generation.
LEMMA CountAcquire ==
    ASSUME TypeOK, NEW w \in Ops, NEW d \in Candidates, NEW c \in Candidates,
           Acquire(w, d)
    PROVE  CountedStep(c)
<1>1. PersistentOwners(c)' = PersistentOwners(c) /\ persistent' = persistent
  BY DEF Acquire, PersistentOwners, retaining, bridge
<1>2. w \notin PersistentOwners(c)
  BY NamesAssumption DEF PersistentOwners
<1>3. CASE c = d
  <2>1. {v \in Ops : lease'[v] = c} = {v \in Ops : lease[v] = c} \cup {w}
    BY <1>3 DEF Acquire, TypeOK
  <2>2. Owners(c)' = Owners(c) \cup {w}
    BY <1>1, <2>1 DEF Owners
  <2>3. w \notin Owners(c)
    BY <1>2, NamesAssumption DEF Owners, Acquire
  <2>4. references'[c] = references[c] + 1
    BY <1>3 DEF Acquire, AddReference, TypeOK
  <2>. QED BY <1>1, <2>2, <2>3, <2>4 DEF CountedStep, Counted
<1>4. CASE c # d
  <2>1. {v \in Ops : lease'[v] = c} = {v \in Ops : lease[v] = c}
    BY <1>4, NamesAssumption DEF Acquire, TypeOK
  <2>2. Owners(c)' = Owners(c)
    BY <1>1, <2>1 DEF Owners
  <2>3. references'[c] = references[c]
    BY <1>4 DEF Acquire, AddReference, TypeOK
  <2>. QED BY <1>1, <2>2, <2>3 DEF CountedStep, Counted
<1>. QED BY <1>3, <1>4

\* Releasing removes the operation from the owners of its generation.
LEMMA CountRelease ==
    ASSUME TypeOK, NEW w \in Ops, NEW c \in Candidates, Release(w)
    PROVE  CountedStep(c)
<1>1. PersistentOwners(c)' = PersistentOwners(c) /\ persistent' = persistent
  BY DEF Release, PersistentOwners, retaining, bridge
<1>2. w \notin PersistentOwners(c)
  BY NamesAssumption DEF PersistentOwners
<1>3. CASE c = lease[w]
  <2>1. {v \in Ops : lease'[v] = c} = {v \in Ops : lease[v] = c} \ {w}
    BY <1>3, NamesAssumption DEF Release, TypeOK
  <2>2. Owners(c)' = Owners(c) \ {w}
    BY <1>1, <1>2, <2>1 DEF Owners
  <2>3. w \in Owners(c)
    BY <1>3 DEF Owners
  <2>4. references'[c] = references[c] - 1
    BY <1>3 DEF Release, DropReference, TypeOK
  <2>. QED BY <1>1, <2>2, <2>3, <2>4 DEF CountedStep, Counted
<1>4. CASE c # lease[w]
  <2>1. {v \in Ops : lease'[v] = c} = {v \in Ops : lease[v] = c}
    BY <1>4, NamesAssumption DEF Release, TypeOK
  <2>2. Owners(c)' = Owners(c)
    BY <1>1, <2>1 DEF Owners
  <2>3. references'[c] = references[c]
    BY <1>4 DEF Release, DropReference, TypeOK
  <2>. QED BY <1>1, <2>2, <2>3 DEF CountedStep, Counted
<1>. QED BY <1>3, <1>4

\* Taking a retention adds its holder to the owners of what it retains.
LEMMA CountRetention ==
    ASSUME TypeOK, NEW h \in Holders, NEW S \in SUBSET Candidates,
           NEW c \in Candidates, retention[h] = {}, Retention(h, S),
           UNCHANGED <<lease, pins>>
    PROVE  CountedStep(c)
<1>1. retention' = [retention EXCEPT ![h] = Acquirable(S)]
  BY DEF Retention
<1>2. {w \in Ops : lease'[w] = c} = {w \in Ops : lease[w] = c}
  OBVIOUS
<1>3. h \notin Ops /\ h # Bridge
  BY NamesAssumption DEF Holders
<1>4. CASE c \in Acquirable(S)
  <2>1. {k \in Holders : c \in retention'[k]} = {k \in Holders : c \in retention[k]} \cup {h}
    BY <1>1, <1>4 DEF TypeOK
  <2>2. PersistentOwners(c)' = PersistentOwners(c) \cup {h}
    BY <2>1 DEF PersistentOwners
  <2>3. Owners(c)' = Owners(c) \cup {h}
    BY <1>2, <2>2 DEF Owners
  <2>4. h \notin PersistentOwners(c)
    BY <1>3 DEF PersistentOwners
  <2>5. h \notin Owners(c)
    BY <1>3, <2>4 DEF Owners
  <2>6. references'[c] = references[c] + 1 /\ persistent'[c] = persistent[c] + 1
    BY <1>4 DEF Retention, Hold
  <2>. QED BY <2>2, <2>3, <2>4, <2>5, <2>6 DEF CountedStep, Counted
<1>5. CASE c \notin Acquirable(S)
  <2>1. {k \in Holders : c \in retention'[k]} = {k \in Holders : c \in retention[k]}
    BY <1>1, <1>5 DEF TypeOK
  <2>2. PersistentOwners(c)' = PersistentOwners(c)
    BY <2>1 DEF PersistentOwners
  <2>3. Owners(c)' = Owners(c)
    BY <1>2, <2>2 DEF Owners
  <2>4. references'[c] = references[c] /\ persistent'[c] = persistent[c]
    BY <1>5 DEF Retention, Hold, TypeOK
  <2>. QED BY <2>2, <2>3, <2>4 DEF CountedStep, Counted
<1>. QED BY <1>4, <1>5

\* Releasing a retention removes its holder from the owners of what it held.
LEMMA CountUnretain ==
    ASSUME TypeOK, NEW h \in Holders, NEW c \in Candidates, Unretain(h),
           UNCHANGED <<lease, pins>>
    PROVE  CountedStep(c)
<1>1. retention' = [retention EXCEPT ![h] = {}]
  BY DEF Unretain
<1>2. {w \in Ops : lease'[w] = c} = {w \in Ops : lease[w] = c}
  OBVIOUS
<1>3. h \notin Ops /\ h # Bridge
  BY NamesAssumption DEF Holders
<1>4. CASE c \in retention[h]
  <2>1. {k \in Holders : c \in retention'[k]} = {k \in Holders : c \in retention[k]} \ {h}
    BY <1>1, <1>4 DEF TypeOK
  <2>2. PersistentOwners(c)' = PersistentOwners(c) \ {h}
    BY <1>3, <2>1 DEF PersistentOwners
  <2>3. Owners(c)' = Owners(c) \ {h}
    BY <1>2, <1>3, <2>2 DEF Owners
  <2>4. h \in PersistentOwners(c) /\ h \in Owners(c)
    BY <1>4 DEF PersistentOwners, Owners
  <2>5. references'[c] = references[c] - 1 /\ persistent'[c] = persistent[c] - 1
    BY <1>4 DEF Unretain
  <2>. QED BY <2>2, <2>3, <2>4, <2>5 DEF CountedStep, Counted
<1>5. CASE c \notin retention[h]
  <2>1. {k \in Holders : c \in retention'[k]} = {k \in Holders : c \in retention[k]}
    BY <1>1, <1>5 DEF TypeOK
  <2>2. PersistentOwners(c)' = PersistentOwners(c)
    BY <2>1 DEF PersistentOwners
  <2>3. Owners(c)' = Owners(c)
    BY <1>2, <2>2 DEF Owners
  <2>4. references'[c] = references[c] /\ persistent'[c] = persistent[c]
    BY <1>5 DEF Unretain, TypeOK
  <2>. QED BY <2>2, <2>3, <2>4 DEF CountedStep, Counted
<1>. QED BY <1>4, <1>5

\* The bridge's pin adds or removes the bridge.
LEMMA CountPin ==
    ASSUME IInv, NEW c \in Candidates,
           PublishService \/ \E d \in Candidates : ReleasePin(d)
    PROVE  CountedStep(c)
<1>1. {w \in Ops : lease'[w] = c} = {w \in Ops : lease[w] = c}
  BY DEF PublishService, ReleasePin, leases
<1>2. {h \in Holders : c \in retention'[h]} = {h \in Holders : c \in retention[h]}
  BY DEF PublishService, ReleasePin, retaining
<1>3. Bridge \notin Ops \cup Holders
  BY NamesAssumption
<1>4. CASE PublishService
  <2>. DEFINE d == publisher.candidate
  <2>1. d \in Candidates \ pins /\ pins' = pins \cup {d}
    BY <1>4 DEF PublishService, IInv, PublisherOK, Known, TypeOK
  <2>2. /\ references' = [references EXCEPT ![d] = @ + 1]
        /\ persistent' = [persistent EXCEPT ![d] = @ + 1]
    BY <1>4 DEF PublishService, AddReference
  <2>3. CASE c = d
    <3>1. PersistentOwners(c)' = PersistentOwners(c) \cup {Bridge}
      BY <1>2, <2>1, <2>3 DEF PersistentOwners
    <3>2. Owners(c)' = Owners(c) \cup {Bridge}
      BY <1>1, <3>1 DEF Owners
    <3>3. Bridge \notin Owners(c) /\ Bridge \notin PersistentOwners(c)
      BY <1>3, <2>1, <2>3 DEF Owners, PersistentOwners
    <3>4. references'[c] = references[c] + 1 /\ persistent'[c] = persistent[c] + 1
      BY <2>2, <2>3 DEF IInv, TypeOK
    <3>. QED BY <3>1, <3>2, <3>3, <3>4 DEF CountedStep, Counted
  <2>4. CASE c # d
    <3>1. PersistentOwners(c)' = PersistentOwners(c)
      BY <1>2, <2>1, <2>4 DEF PersistentOwners
    <3>2. Owners(c)' = Owners(c)
      BY <1>1, <3>1 DEF Owners
    <3>3. references'[c] = references[c] /\ persistent'[c] = persistent[c]
      BY <2>2, <2>4 DEF IInv, TypeOK
    <3>. QED BY <3>1, <3>2, <3>3 DEF CountedStep, Counted
  <2>. QED BY <2>3, <2>4
<1>5. CASE \E d \in Candidates : ReleasePin(d)
  <2>1. PICK d \in Candidates : ReleasePin(d)
    BY <1>5
  <2>2. /\ references' = [references EXCEPT ![d] = @ - 1]
        /\ persistent' = [persistent EXCEPT ![d] = @ - 1]
        /\ pins' = pins \ {d} /\ d \in pins
    BY <2>1 DEF ReleasePin, DropReference
  <2>3. CASE c = d
    <3>1. PersistentOwners(c)' = PersistentOwners(c) \ {Bridge}
      BY <1>2, <1>3, <2>2, <2>3 DEF PersistentOwners
    <3>2. Owners(c)' = Owners(c) \ {Bridge}
      BY <1>1, <1>3, <3>1 DEF Owners
    <3>3. Bridge \in Owners(c) /\ Bridge \in PersistentOwners(c)
      BY <2>2, <2>3 DEF Owners, PersistentOwners
    <3>4. references'[c] = references[c] - 1 /\ persistent'[c] = persistent[c] - 1
      BY <2>2, <2>3 DEF IInv, TypeOK
    <3>. QED BY <3>1, <3>2, <3>3, <3>4 DEF CountedStep, Counted
  <2>4. CASE c # d
    <3>1. PersistentOwners(c)' = PersistentOwners(c)
      BY <1>2, <2>2, <2>4 DEF PersistentOwners
    <3>2. Owners(c)' = Owners(c)
      BY <1>1, <3>1 DEF Owners
    <3>3. references'[c] = references[c] /\ persistent'[c] = persistent[c]
      BY <2>2, <2>4 DEF IInv, TypeOK
    <3>. QED BY <3>1, <3>2, <3>3 DEF CountedStep, Counted
  <2>. QED BY <2>3, <2>4
<1>. QED BY <1>4, <1>5

\* A candidate about to take a retention holds none yet.
LEMMA NoRetentionYet ==
    ASSUME IInv, Pending, publisher.pc # "handover"
    PROVE  retention[publisher.candidate] = {} /\ publisher.candidate \in Holders
BY DEF IInv, Pending, PublisherOK, RetentionOK, PreparedSet, Holders

Plain == UNCHANGED <<lease, retention, pins, references, persistent>>

\* Every step moves the counters together with the owners.
LEMMA Counting ==
    ASSUME IInv, [Next]_vars, NEW c \in Candidates
    PROVE  CountedStep(c)
<1>. USE DEF leases, bridge, retaining
<1>1. ASSUME NEW w \in Turns, Admit(w) PROVE CountedStep(c)
  BY <1>1, CountAcquire DEF Admit, IInv, TypeOK, Ops
<1>2. ASSUME NEW w \in Ops, NEW d \in Candidates, Request(w, d) PROVE CountedStep(c)
  BY <1>2, CountAcquire DEF Request, IInv
<1>3. ASSUME NEW p \in Turns, NEW w \in Turns, Retain(p, w) PROVE CountedStep(c)
  <2>1. w \in Ops /\ lease[p] \in Candidates
    BY <1>3 DEF Retain, IInv, TypeOK, Ops
  <2>. QED BY <1>3, <2>1, CountAcquire DEF Retain, IInv
<1>4. ASSUME NEW p \in Turns, NEW w \in Turns, Report(p, w) PROVE CountedStep(c)
  BY <1>4, CountAcquire DEF Report, IInv, TypeOK, Ops
<1>5. ASSUME NEW w \in Ops, Release(w) PROVE CountedStep(c)
  BY <1>5, CountRelease DEF IInv
<1>6. ASSUME NEW d \in Candidates,
             FinishClose(d) \/ RetirePrevious(d) \/ BarrierWait(d) \/ Prepare(d)
      PROVE  CountedStep(c)
  <2>1. Plain
    BY <1>6 DEF FinishClose, RetirePrevious, BarrierWait, Prepare, Plain
  <2>. QED BY <2>1, CountSame DEF Plain
<1>7. ASSUME NEW h \in Holders, NEW d \in Candidates, Drained(h, d) PROVE CountedStep(c)
  <2>1. Plain
    BY <1>7 DEF Drained, Plain
  <2>. QED BY <2>1, CountSame DEF Plain
<1>8. ASSUME NEW d \in Candidates, RetireTransports(d) PROVE CountedStep(c)
  BY <1>8, CountUnretain DEF RetireTransports, IInv, Holders
<1>9. CASE PublishService \/ \E d \in Candidates : ReleasePin(d)
  BY <1>9, CountPin
<1>10. CASE \/ Prepared \/ Discarded \/ AbandonDiscard \/ PublishHandover \/ Unwind
            \/ PublishCancelled \/ Discard \/ EndBridge \/ CloseAll
            \/ CloseShared \/ UNCHANGED vars
  <2>1. Plain
    BY <1>10 DEF Prepared, Discarded, AbandonDiscard, PublishHandover, Unwind, PublishCancelled,
                 Discard, EndBridge, CloseAll, CloseShared, Plain, vars
  <2>. QED BY <2>1, CountSame DEF Plain
<1>11. ASSUME NEW x \in BOOLEAN, NEW r \in BOOLEAN, BeginPublish(x, r)
       PROVE  CountedStep(c)
  <2>1. UNCHANGED <<lease, pins>>
    BY <1>11 DEF BeginPublish
  <2>2. CASE r /\ ~x
    <3>1. Retention(publisher.candidate, tracked)
      BY <1>11, <2>2 DEF BeginPublish
    <3>2. retention[publisher.candidate] = {} /\ publisher.candidate \in Holders
      BY <1>11, NoRetentionYet DEF BeginPublish, Pending
    <3>. QED BY <2>1, <3>1, <3>2, CountRetention DEF IInv, TypeOK
  <2>3. CASE ~(r /\ ~x)
    <3>1. Plain
      BY <1>11, <2>1, <2>3 DEF BeginPublish, Plain
    <3>. QED BY <3>1, CountSame DEF Plain
  <2>. QED BY <2>2, <2>3
<1>12. ASSUME NEW r \in BOOLEAN, PassBarrier(r) PROVE CountedStep(c)
  <2>1. UNCHANGED <<lease, pins>>
    BY <1>12 DEF PassBarrier
  <2>2. CASE r
    <3>1. Retention(publisher.candidate, publisher.accepted)
      BY <1>12, <2>2 DEF PassBarrier
    <3>2. retention[publisher.candidate] = {} /\ publisher.candidate \in Holders
      BY <1>12, NoRetentionYet DEF PassBarrier, Pending
    <3>3. publisher.accepted \in SUBSET Candidates
      BY DEF IInv, TypeOK
    <3>. QED BY <2>1, <3>1, <3>2, <3>3, CountRetention DEF IInv
  <2>3. CASE ~r
    <3>1. Plain
      BY <1>12, <2>1, <2>3 DEF PassBarrier, Plain
    <3>. QED BY <3>1, CountSame DEF Plain
  <2>. QED BY <2>2, <2>3
<1>13. CASE AbortPublish
  <2>1. Unretain(publisher.candidate) /\ UNCHANGED <<lease, pins>>
    BY <1>13 DEF AbortPublish
  <2>2. publisher.candidate \in Holders
    BY <1>13 DEF AbortPublish, IInv, PublisherOK, Pending, PreparedSet, Holders
  <2>. QED BY <2>1, <2>2, CountUnretain DEF IInv
<1>14. CASE Shutdown
  <2>1. Retention(Exit, tracked) /\ UNCHANGED <<lease, pins>>
    BY <1>14 DEF Shutdown
  <2>2. retention[Exit] = {} /\ Exit \in Holders
    BY <1>14 DEF Shutdown, IInv, RetentionOK, Holders
  <2>. QED BY <2>1, <2>2, CountRetention DEF IInv, TypeOK
<1>15. CASE ReleaseRetained
  <2>1. Unretain(Exit) /\ UNCHANGED <<lease, pins>> /\ Exit \in Holders
    BY <1>15 DEF ReleaseRetained, Holders
  <2>. QED BY <2>1, CountUnretain DEF IInv
<1>. QED
  BY <1>1, <1>2, <1>3, <1>4, <1>5, <1>6, <1>7, <1>8, <1>9, <1>10, <1>11, <1>12,
     <1>13, <1>14, <1>15
  DEF Next, Operations, Retiring, Publishing, Failing, Exiting, Terminated

-----------------------------------------------------------------------------
(* The inductive step                                                      *)

\* TypeOK, except that the counters are only known to be integers.
Typed ==
    /\ number \in [Candidates -> Nat]
    /\ references \in [Candidates -> Int]
    /\ persistent \in [Candidates -> Int]
    /\ blocked \subseteq Candidates /\ published \subseteq Candidates
    /\ retired \subseteq Candidates /\ forced \subseteq Candidates
    /\ closed \subseteq Candidates /\ drained \subseteq Candidates
    /\ tracked \subseteq Candidates /\ retirements \subseteq Candidates
    /\ stopped \subseteq Candidates /\ pins \subseteq Candidates
    /\ retiring \subseteq Candidates /\ exiting \subseteq Candidates
    /\ current \in Candidates /\ entry \in Candidates
    /\ admission \in BOOLEAN /\ bridgeOpen \in BOOLEAN
    /\ lease \in [Ops -> Candidates \cup {None}]
    /\ requests \subseteq Ops
    /\ retention \in [Holders -> SUBSET Candidates]
    /\ awaited \in [Holders -> SUBSET Candidates]
    /\ publisher \in [pc : PublisherStates, candidate : Candidates \cup {None},
                      accepted : SUBSET Candidates, awaited : SUBSET Candidates,
                      exclusive : BOOLEAN]
    /\ exit \in ExitStates

PublisherType == [pc : PublisherStates, candidate : Candidates \cup {None},
                  accepted : SUBSET Candidates, awaited : SUBSET Candidates,
                  exclusive : BOOLEAN]

\* Every step keeps the types.
LEMMA TypeStep ==
    ASSUME IInv, [Next]_vars
    PROVE  Typed'
<1>. USE DEF OpenAdmission, ResumeReplies, IInv, TypeOK, Typed, flags, leases, bridge, retaining, manager, process
<1>1. ASSUME NEW w \in Ops, NEW d \in Candidates, Acquire(w, d),
             requests' = requests \/ requests' = requests \cup {w}
      PROVE  Typed'
  BY <1>1 DEF Acquire, AddReference
<1>2. ASSUME NEW w \in Turns, Admit(w) PROVE Typed'
  BY <1>2, <1>1 DEF Admit, Ops
<1>3. ASSUME NEW w \in Ops, NEW d \in Candidates, Request(w, d) PROVE Typed'
  BY <1>3, <1>1 DEF Request
<1>4. ASSUME NEW p \in Turns, NEW w \in Turns, Retain(p, w) PROVE Typed'
  <2>1. w \in Ops /\ lease[p] \in Candidates
    BY <1>4 DEF Retain, Ops
  <2>. QED BY <2>1, <1>4, <1>1 DEF Retain
<1>5. ASSUME NEW p \in Turns, NEW w \in Turns, Report(p, w) PROVE Typed'
  BY <1>5, <1>1 DEF Report, Ops
<1>6. ASSUME NEW w \in Ops, Release(w) PROVE Typed'
  BY <1>6 DEF Release, DropReference, CloseIfIdle
<1>7. ASSUME NEW c \in Candidates, FinishClose(c) PROVE Typed'
  BY <1>7 DEF FinishClose
<1>8. ASSUME NEW c \in Candidates, RetirePrevious(c) PROVE Typed'
  BY <1>8 DEF RetirePrevious, CloseIfIdle
<1>9. ASSUME NEW c \in Candidates, RetireTransports(c) PROVE Typed'
  BY <1>9 DEF RetireTransports, Unretain, CloseIfIdle, Holders
<1>10. ASSUME NEW c \in Candidates, ReleasePin(c) PROVE Typed'
  BY <1>10 DEF ReleasePin, DropReference, CloseIfIdle
<1>11. ASSUME NEW h \in Holders, NEW c \in Candidates, Drained(h, c) PROVE Typed'
  BY <1>11 DEF Drained
<1>12. ASSUME NEW c \in Candidates, Prepare(c) PROVE Typed'
  <2>1. IdlePublisher \in PublisherType
    BY DEF IdlePublisher, PublisherStates, PublisherType
  <2>2. publisher' \in PublisherType
    BY <1>12, <2>1 DEF Prepare, PublisherStates, PublisherType
  <2>. QED BY <1>12, <2>2 DEF Prepare, PublisherType
<1>13. ASSUME Prepared PROVE Typed'
  BY <1>13 DEF Prepared, PublisherStates
<1>14. ASSUME Discarded \/ AbandonDiscard PROVE Typed'
  <2>1. Discarded => Typed'
    BY DEF Discarded, IdlePublisher, PublisherStates
  <2>2. AbandonDiscard => Typed'
    BY DEF AbandonDiscard, IdlePublisher, PublisherStates
  <2>. QED BY <1>14, <2>1, <2>2
<1>15. ASSUME Discard PROVE Typed'
  BY <1>15 DEF Discard, RetireCandidate, CloseIfIdle, PublisherStates, PublisherOK,
               Pending, PreparedSet
<1>16. ASSUME NEW x \in BOOLEAN, NEW r \in BOOLEAN, BeginPublish(x, r) PROVE Typed'
  <2>1. publisher' \in PublisherType
    BY <1>16 DEF BeginPublish, PublisherStates, PublisherType
  <2>2. /\ references' \in [Candidates -> Int] /\ persistent' \in [Candidates -> Int]
        /\ retention' \in [Holders -> SUBSET Candidates]
    BY <1>16 DEF BeginPublish, Retention, Hold, Acquirable
  <2>. QED BY <1>16, <2>1, <2>2 DEF BeginPublish, PublisherType
<1>17. ASSUME NEW c \in Candidates, BarrierWait(c) PROVE Typed'
  BY <1>17 DEF BarrierWait, PublisherStates
<1>18. ASSUME NEW r \in BOOLEAN, PassBarrier(r) PROVE Typed'
  BY <1>18 DEF PassBarrier, Retention, Hold, Acquirable, PublisherStates,
               PublisherOK, Pending, PreparedSet, Holders
<1>19. ASSUME PublishHandover PROVE Typed'
  BY <1>19 DEF PublishHandover, PublishPointer, PublisherStates, PublisherOK,
               Pending, PreparedSet, Holders
<1>20. ASSUME AbortPublish PROVE Typed'
  <2>1. publisher.candidate \in Holders
    BY <1>20 DEF AbortPublish, PublisherOK, Pending, PreparedSet, Holders
  <2>2. publisher' \in PublisherType
    BY <1>20, <2>1 DEF AbortPublish, PublisherStates, PublisherType
  <2>3. /\ references' \in [Candidates -> Int] /\ persistent' \in [Candidates -> Int]
        /\ retention' \in [Holders -> SUBSET Candidates]
    BY <1>20, <2>1 DEF AbortPublish, Unretain
  <2>4. closed' \subseteq Candidates /\ retention[publisher.candidate] \subseteq Candidates
    BY <1>20, <2>1 DEF AbortPublish, CloseIfIdle
  <2>. QED BY <1>20, <2>2, <2>3, <2>4, SMTT(30) DEF AbortPublish, PublisherType
<1>21. ASSUME Unwind PROVE Typed'
  BY <1>21 DEF Unwind, RetireCandidate, CloseIfIdle, PublisherStates, PublisherOK,
               Pending, PreparedSet
<1>22. ASSUME PublishService PROVE Typed'
  BY <1>22 DEF PublishService, AddReference, IdlePublisher, PublisherStates, PublisherOK
<1>23. ASSUME PublishCancelled \/ EndBridge \/ CloseShared \/ UNCHANGED vars PROVE Typed'
  <2>1. PublishCancelled => Typed'
    BY DEF PublishCancelled, IdlePublisher, PublisherStates
  <2>2. EndBridge => Typed'
    <3>1. EndBridge => bridgeOpen' \in BOOLEAN
      BY Zenon DEF EndBridge
    <3>. QED BY <3>1 DEF EndBridge
  <2>3. CloseShared => Typed'
    BY DEF CloseShared, ExitStates
  <2>4. UNCHANGED vars => Typed'
    BY DEF vars
  <2>. QED BY <1>23, <2>1, <2>2, <2>3, <2>4
<1>24. ASSUME Shutdown PROVE Typed'
  BY <1>24 DEF Shutdown, Retention, Hold, Acquirable, ExitStates, Holders
<1>25. ASSUME ReleaseRetained PROVE Typed'
  BY <1>25 DEF ReleaseRetained, Unretain, CloseIfIdle, ExitStates, Holders
<1>26. ASSUME CloseAll PROVE Typed'
  BY <1>26 DEF CloseAll, CloseIfIdle, ExitStates
<1>. QED
  BY <1>2, <1>3, <1>4, <1>5, <1>6, <1>7, <1>8, <1>9, <1>10, <1>11, <1>12, <1>13,
     <1>14, <1>15, <1>16, <1>17, <1>18, <1>19, <1>20, <1>21, <1>22, <1>23, <1>24,
     <1>25, <1>26
  DEF Next, Operations, Retiring, Publishing, Failing, Exiting, Terminated

\* The counters still count the owners, so they are naturals again.
LEMMA MatchStep ==
    ASSUME IInv, [Next]_vars
    PROVE  ReferencesMatch' /\ TypeOK'
<1>1. ASSUME NEW c \in Candidates
      PROVE  /\ references'[c] = Cardinality(Owners(c)')
             /\ persistent'[c] = Cardinality(PersistentOwners(c)')
             /\ references'[c] \in Nat /\ persistent'[c] \in Nat
  <2>1. /\ references[c] = Cardinality(Owners(c))
        /\ persistent[c] = Cardinality(PersistentOwners(c))
    BY DEF IInv, ReferencesMatch
  <2>2. CountedStep(c)
    BY Counting
  <2>3. /\ references'[c] = Cardinality(Owners(c)') /\ IsFiniteSet(Owners(c)')
        /\ persistent'[c] = Cardinality(PersistentOwners(c)')
        /\ IsFiniteSet(PersistentOwners(c)')
    BY <2>1, <2>2, OwnersFinite, CountedMatch DEF CountedStep
  <2>. QED BY <2>3, FS_CardinalityType
<1>2. ReferencesMatch'
  BY <1>1 DEF ReferencesMatch
<1>3. Typed'
  BY TypeStep
<1>4. references' \in [Candidates -> Nat] /\ persistent' \in [Candidates -> Nat]
  BY <1>1, <1>3 DEF Typed
<1>. QED BY <1>2, <1>3, <1>4 DEF Typed, TypeOK

\* Only a generation that accepts work gains a reference, and only one that
\* nobody holds any more starts to close.
LEMMA ReferenceStep ==
    ASSUME IInv, [Next]_vars, NEW c \in Candidates
    PROVE  /\ references'[c] > references[c] => MayAcquire(c)
           /\ c \in closed' \ closed => references'[c] = 0 /\ c \in retired'
<1>. DEFINE Goal == /\ references'[c] > references[c] => MayAcquire(c)
                    /\ c \in closed' \ closed => references'[c] = 0 /\ c \in retired'
<1>. USE DEF IInv, TypeOK
<1>1. ASSUME NEW w \in Ops, NEW d \in Candidates, Acquire(w, d) PROVE Goal
  BY <1>1 DEF Acquire, AddReference, flags
<1>2. ASSUME NEW w \in Turns, Admit(w) PROVE Goal
  BY <1>2, <1>1 DEF Admit, Ops
<1>3. ASSUME NEW w \in Ops, NEW d \in Candidates, Request(w, d) PROVE Goal
  BY <1>3, <1>1 DEF Request
<1>4. ASSUME NEW p \in Turns, NEW w \in Turns, Retain(p, w) \/ Report(p, w) PROVE Goal
  <2>1. w \in Ops /\ (Retain(p, w) => lease[p] \in Candidates)
    BY DEF Retain, Ops
  <2>. QED BY <2>1, <1>4, <1>1 DEF Retain, Report
<1>5. ASSUME NEW w \in Ops, Release(w) PROVE Goal
  BY <1>5 DEF Release, DropReference, CloseIfIdle
<1>6. ASSUME NEW d \in Candidates,
             RetirePrevious(d) \/ ReleasePin(d) \/ FinishClose(d) PROVE Goal
  BY <1>6 DEF RetirePrevious, ReleasePin, FinishClose, DropReference, CloseIfIdle
<1>7. ASSUME NEW d \in Candidates, RetireTransports(d) PROVE Goal
  BY <1>7 DEF RetireTransports, Unretain, CloseIfIdle
<1>8. ASSUME NEW d \in Candidates,
             BarrierWait(d) \/ Prepare(d) \/ \E h \in Holders : Drained(h, d) PROVE Goal
  BY <1>8 DEF BarrierWait, Prepare, Drained, flags
<1>9. ASSUME NEW x \in BOOLEAN, NEW r \in BOOLEAN, BeginPublish(x, r) PROVE Goal
  BY <1>9 DEF BeginPublish, Retention, Hold, Acquirable, flags
<1>10. ASSUME NEW r \in BOOLEAN, PassBarrier(r) PROVE Goal
  BY <1>10 DEF PassBarrier, Retention, Hold, Acquirable, flags
<1>11. CASE PublishHandover \/ Prepared \/ Discarded \/ AbandonDiscard \/ PublishCancelled
            \/ EndBridge \/ CloseShared \/ UNCHANGED vars
  BY <1>11 DEF PublishHandover, PublishPointer, Prepared, Discarded, AbandonDiscard,
               PublishCancelled, EndBridge, CloseShared, vars, flags
<1>12. CASE AbortPublish
  BY <1>12 DEF AbortPublish, Unretain, CloseIfIdle
<1>13. CASE Discard \/ Unwind \/ CloseAll
  BY <1>13 DEF Discard, Unwind, RetireCandidate, CloseAll, CloseIfIdle
<1>14. CASE PublishService
  BY <1>14 DEF PublishService, AddReference, flags, PublisherOK
<1>15. CASE Shutdown
  BY <1>15 DEF Shutdown, Retention, Hold, Acquirable, flags
<1>16. CASE ReleaseRetained
  BY <1>16 DEF ReleaseRetained, Unretain, CloseIfIdle
<1>. QED
  BY <1>2, <1>3, <1>4, <1>5, <1>6, <1>7, <1>8, <1>9, <1>10, <1>11, <1>12, <1>13,
     <1>14, <1>15, <1>16
  DEF Next, Operations, Retiring, Publishing, Failing, Exiting, Terminated

\* A closed generation keeps its count of zero, hence its empty set of owners.
LEMMA LeasedStep ==
    ASSUME IInv, [Next]_vars
    PROVE  LeasedStayOpen'
<1>. SUFFICES ASSUME NEW c \in closed' PROVE Owners(c)' = {}
  BY DEF LeasedStayOpen
<1>1. c \in Candidates /\ references[c] \in Nat /\ references'[c] \in Nat
  BY MatchStep DEF IInv, TypeOK
<1>2. references'[c] = 0
  <2>1. CASE c \in closed
    <3>1. references[c] = 0
      BY <2>1, <1>1, FS_EmptySet DEF IInv, LeasedStayOpen, ReferencesMatch
    <3>2. ~(references'[c] > references[c])
      BY <2>1, <1>1, ReferenceStep DEF MayAcquire
    <3>. QED BY <3>1, <3>2, <1>1
  <2>2. CASE c \notin closed
    BY <2>2, <1>1, ReferenceStep
  <2>. QED BY <2>1, <2>2
<1>3. references'[c] = Cardinality(Owners(c)')
  BY <1>1, MatchStep DEF ReferencesMatch
<1>4. IsFiniteSet(Owners(c)')
  <2>1. CountedStep(c) /\ IsFiniteSet(Owners(c))
    BY <1>1, Counting, OwnersFinite
  <2>. QED
    BY <2>1, <1>1, CountedMatch DEF CountedStep, IInv, ReferencesMatch
<1>. QED BY <1>2, <1>3, <1>4, FS_EmptySet

\* Flags and references stay with prepared candidates.
LEMMA KnownStep ==
    ASSUME IInv, [Next]_vars
    PROVE  Known'
<1>. USE DEF IInv, TypeOK, Known, PreparedSet
<1>1. ASSUME NEW w \in Ops, NEW d \in published, Acquire(w, d) PROVE Known'
  BY <1>1 DEF Acquire, flags, manager, bridge, retaining
<1>2. ASSUME NEW w \in Turns, Admit(w) PROVE Known'
  BY <1>2, <1>1 DEF Admit, Ops, CurrentServes
<1>3. ASSUME NEW w \in Ops, NEW d \in Candidates, Request(w, d) PROVE Known'
  BY <1>3, <1>1 DEF Request
<1>4. ASSUME NEW p \in Turns, NEW w \in Turns, Retain(p, w) PROVE Known'
  <2>1. w \in Ops /\ lease[p] \in published
    BY <1>4 DEF Retain, Ops
  <2>. QED BY <2>1, <1>4, <1>1 DEF Retain
<1>5. ASSUME NEW p \in Turns, NEW w \in Turns, Report(p, w) PROVE Known'
  BY <1>5, <1>1 DEF Report, Ops, CurrentServes
<1>6. ASSUME NEW w \in Ops, Release(w) PROVE Known'
  BY <1>6 DEF Release, CloseIfIdle, manager, bridge, retaining
<1>7. ASSUME NEW c \in Candidates,
             FinishClose(c) \/ RetirePrevious(c) \/ ReleasePin(c) PROVE Known'
  BY <1>7 DEF FinishClose, RetirePrevious, ReleasePin, CloseIfIdle,
              leases, bridge, retaining, manager
<1>8. ASSUME NEW c \in Candidates, RetireTransports(c) PROVE Known'
  BY <1>8 DEF RetireTransports, Unretain, CloseIfIdle, leases, bridge, manager, Holders
<1>9. ASSUME NEW c \in Candidates,
             BarrierWait(c) \/ \E h \in Holders : Drained(h, c) PROVE Known'
  BY <1>9 DEF BarrierWait, Drained, flags, leases, bridge, retaining, manager
<1>10. ASSUME NEW c \in Candidates, Prepare(c) PROVE Known'
  <2>1. PreparedSet \subseteq PreparedSet'
    BY <1>10 DEF Prepare
  <2>2. publisher'.accepted = {}
    BY <1>10 DEF Prepare, IdlePublisher
  <2>3. UNCHANGED <<published, retired, closed, drained, tracked, pins, lease, retention>>
    BY <1>10 DEF Prepare, flags, leases, bridge, retaining, manager
  <2>. QED BY <2>1, <2>2, <2>3
<1>11. CASE Prepared \/ Discarded \/ AbandonDiscard \/ PublishCancelled \/ EndBridge \/ CloseShared
            \/ UNCHANGED vars
  <2>1. UNCHANGED <<number, published, retired, closed, drained, tracked, pins,
                    lease, retention>>
    BY <1>11 DEF Prepared, Discarded, AbandonDiscard, PublishCancelled, EndBridge, CloseShared,
                 vars, flags, leases, bridge, retaining, manager
  <2>2. publisher'.accepted \in {publisher.accepted, {}}
    BY <1>11 DEF Prepared, Discarded, AbandonDiscard, PublishCancelled, EndBridge, CloseShared,
                 vars, IdlePublisher
  <2>. QED BY <2>1, <2>2
<1>12. CASE Discard \/ Unwind
  BY <1>12 DEF Discard, Unwind, RetireCandidate, CloseIfIdle, PublisherOK, Pending,
               leases, bridge, retaining, manager
<1>13. ASSUME NEW x \in BOOLEAN, NEW r \in BOOLEAN, BeginPublish(x, r) PROVE Known'
  <2>1. \A h \in Holders : retention'[h] \subseteq published
    BY <1>13 DEF BeginPublish, Retention, Acquirable
  <2>2. publisher'.accepted = tracked
    BY <1>13 DEF BeginPublish
  <2>. QED BY <1>13, <2>1, <2>2 DEF BeginPublish, flags, leases, bridge, manager
<1>14. ASSUME NEW r \in BOOLEAN, PassBarrier(r) PROVE Known'
  <2>1. \A h \in Holders : retention'[h] \subseteq published
    BY <1>14 DEF PassBarrier, Retention, Acquirable
  <2>2. publisher'.accepted = publisher.accepted
    BY <1>14 DEF PassBarrier
  <2>. QED BY <1>14, <2>1, <2>2 DEF PassBarrier, flags, leases, bridge, manager
<1>15. CASE PublishHandover
  BY <1>15 DEF PublishHandover, PublishPointer, PublisherOK, Pending, CurrentServes,
               leases, bridge, retaining
<1>16. CASE AbortPublish
  BY <1>16 DEF AbortPublish, Unretain, CloseIfIdle, PublisherOK, Pending,
               leases, bridge, retaining, manager
<1>17. CASE PublishService
  BY <1>17 DEF PublishService, PublisherOK, IdlePublisher, flags, leases, retaining,
               manager
<1>18. CASE Shutdown
  BY <1>18 DEF Shutdown, Retention, Acquirable, flags, leases, bridge, manager
<1>19. CASE ReleaseRetained
  BY <1>19 DEF ReleaseRetained, Unretain, CloseIfIdle, leases, bridge, manager
<1>20. CASE CloseAll
  BY <1>20 DEF CloseAll, CloseIfIdle, leases, bridge, retaining, manager
<1>. QED
  BY <1>2, <1>3, <1>4, <1>5, <1>6, <1>7, <1>8, <1>9, <1>10, <1>11, <1>12, <1>13,
     <1>14, <1>15, <1>16, <1>17, <1>18, <1>19, <1>20
  DEF Next, Operations, Retiring, Publishing, Failing, Exiting, Terminated

\* What a step does to the state that Lifetimes sees besides the owners.
LEMMA PhaseStep ==
    ASSUME IInv, [Next]_vars
    PROVE  /\ closed \subseteq closed' /\ drained \subseteq drained'
           /\ drained' \ drained \subseteq closed
           /\ managerClosed => managerClosed'
           /\ current' # current => ~managerClosed /\ ~managerClosed'
           /\ \/ number' = number
              \/ /\ \A c \in Candidates : number[c] > 0 => number'[c] > 0
                 /\ UNCHANGED <<lease, retention, pins, closed, drained>>
<1>. DEFINE Goal == /\ closed \subseteq closed' /\ drained \subseteq drained'
                    /\ drained' \ drained \subseteq closed
                    /\ managerClosed => managerClosed'
                    /\ current' # current => ~managerClosed /\ ~managerClosed'
                    /\ \/ number' = number
                       \/ /\ \A c \in Candidates : number[c] > 0 => number'[c] > 0
                          /\ UNCHANGED <<lease, retention, pins, closed, drained>>
<1>. USE DEF flags, manager, process, managerClosed, CloseIfIdle
<1>1. CASE Operations \/ UNCHANGED vars \/ EndBridge
  BY <1>1 DEF Operations, Admit, Request, Retain, Report, Acquire, EndBridge, vars
<1>2. CASE (\E w \in Ops : Release(w)) \/ Retiring
  BY <1>2 DEF Release, Retiring, FinishClose, RetirePrevious, RetireTransports,
              ReleasePin, Drained
<1>3. CASE Failing
  BY <1>3 DEF Failing, Discard, AbortPublish, RetireCandidate
<1>4. ASSUME NEW d \in Candidates, Prepare(d) PROVE Goal
  BY <1>4 DEF Prepare, leases, bridge, retaining, IInv, TypeOK
<1>5. CASE Publishing
  <2>1. CASE PublishHandover
    BY <2>1 DEF PublishHandover, PublishPointer
  <2>2. CASE ~PublishHandover
    BY <1>5, <2>2 DEF Publishing, Prepared, Discarded, AbandonDiscard, BeginPublish, BarrierWait,
                      PassBarrier, Unwind, RetireCandidate, PublishService,
                      PublishCancelled
  <2>. QED BY <2>1, <2>2
<1>6. CASE Exiting
  BY <1>6 DEF Exiting, Shutdown, ReleaseRetained, CloseAll, CloseShared
<1>. QED BY <1>1, <1>2, <1>3, <1>4, <1>5, <1>6 DEF Next, Terminated

\* retire() of a candidate that never served finds nobody holding it: it starts
\* to close at once.
LEMMA DiscardCloses ==
    ASSUME IInv, Discard \/ Unwind
    PROVE  publisher.candidate \in closed' \ published'
<1>. USE DEF IInv, TypeOK, PublisherOK, Pending
<1>1. publisher.candidate \in Candidates \ published
  BY DEF Discard, Unwind, PreparedSet
<1>2. Owners(publisher.candidate) = {}
  BY <1>1, NamesAssumption DEF Known, Owners, PersistentOwners, PreparedSet
<1>3. references[publisher.candidate] = 0
  BY <1>1, <1>2, FS_EmptySet DEF ReferencesMatch
<1>4. publisher.candidate \in retired' /\ references' = references /\ published' = published
  BY DEF Discard, Unwind, RetireCandidate
<1>5. Retirable(publisher.candidate)
  BY <1>1 DEF Retirable
<1>. QED BY <1>1, <1>3, <1>4, <1>5 DEF Discard, Unwind, RetireCandidate, CloseIfIdle

\* A pending candidate stays out of the published and retired generations.
LEMMA PublisherStep ==
    ASSUME IInv, [Next]_vars
    PROVE  PublisherOK'
<1>. USE DEF IInv, TypeOK, PublisherOK, Pending, PreparedSet, managerClosed, process
<1>0. closed \subseteq closed'
  BY PhaseStep
<1>1. CASE UNCHANGED <<number, published, retired, publisher, pins, exit>>
  BY <1>0, <1>1
<1>2. ASSUME NEW w \in Ops, NEW d \in Candidates,
             Acquire(w, d) \/ Request(w, d) PROVE PublisherOK'
  BY <1>2, <1>1 DEF Request, Acquire, flags, bridge
<1>3. ASSUME NEW w \in Turns, NEW p \in Turns,
             Admit(w) \/ Retain(p, w) \/ Report(p, w) PROVE PublisherOK'
  BY <1>3, <1>1 DEF Admit, Retain, Report, Acquire, flags, bridge
<1>4. CASE (\E w \in Ops : Release(w)) \/ Retiring \/ UNCHANGED vars
  <2>1. UNCHANGED <<number, published, retired, publisher, exit>> /\ pins' \subseteq pins
    BY <1>4 DEF Release, Retiring, FinishClose, RetirePrevious, RetireTransports,
                ReleasePin, Drained, vars, flags, bridge
  <2>. QED BY <1>0, <2>1
<1>5. ASSUME NEW c \in Candidates, Prepare(c) PROVE PublisherOK'
  <2>1. publisher'.pc = "preparing" /\ publisher'.candidate = c
    BY <1>5 DEF Prepare, IdlePublisher
  <2>2. UNCHANGED <<published, retired, exit>> /\ number[c] = 0 /\ number'[c] > 0
        /\ ~managerClosed
    BY <1>5 DEF Prepare, flags
  <2>3. c \notin published \cup retired
    BY <2>2 DEF Known
  <2>. QED BY <2>1, <2>2, <2>3
<1>6. CASE Prepared \/ (\E c \in Candidates : BarrierWait(c))
           \/ (\E r \in BOOLEAN : PassBarrier(r))
           \/ (\E x, r \in BOOLEAN : BeginPublish(x, r)) \/ AbortPublish
  <2>1. UNCHANGED <<number, published, retired, exit>>
    BY <1>6 DEF Prepared, BarrierWait, PassBarrier, BeginPublish, AbortPublish, flags
  <2>2. Pending
    BY <1>6 DEF Prepared, BarrierWait, PassBarrier, BeginPublish, AbortPublish
  <2>3. publisher'.candidate = publisher.candidate /\ publisher'.pc \notin {"idle", "published", "discarding"}
    <3>1. (\E x, r \in BOOLEAN : BeginPublish(x, r)) => /\ publisher'.candidate = publisher.candidate
                                                  /\ publisher'.pc \in {"barrier", "handover"}
      BY DEF BeginPublish
    <3>. QED BY <1>6, <3>1 DEF Prepared, BarrierWait, PassBarrier, AbortPublish
  <2>. QED BY <2>1, <2>2, <2>3
<1>7. CASE Discard \/ Unwind
  <2>1. publisher'.pc = "discarding" /\ publisher.pc # "idle" /\ exit' = exit
        /\ publisher'.candidate = publisher.candidate
    BY <1>7 DEF Discard, Unwind, RetireCandidate
  <2>. QED BY <1>7, <2>1, DiscardCloses
<1>8. CASE Discarded \/ AbandonDiscard \/ PublishService \/ PublishCancelled
  <2>1. publisher'.pc = "idle"
    BY <1>8 DEF Discarded, AbandonDiscard, PublishService, PublishCancelled, IdlePublisher
  <2>. QED BY <2>1
<1>9. CASE PublishHandover
  BY <1>9 DEF PublishHandover, PublishPointer, Known, bridge
<1>10. CASE EndBridge
  BY <1>10, <1>1 DEF EndBridge, flags
<1>11. CASE Exiting
  <2>1. publisher' = publisher /\ publisher.pc = "idle"
    BY <1>11 DEF Exiting, Shutdown, ReleaseRetained, CloseAll, CloseShared
  <2>. QED BY <2>1
<1>. QED
  BY <1>2, <1>3, <1>4, <1>5, <1>6, <1>7, <1>8, <1>9, <1>10, <1>11
  DEF Next, Operations, Publishing, Failing, Terminated

\* A retention belongs to a publication that is under way or committed.
LEMMA RetentionStep ==
    ASSUME IInv, [Next]_vars
    PROVE  RetentionOK'
<1>. USE NamesAssumption
     DEF IInv, TypeOK, RetentionOK, PublisherOK, Pending, PreparedSet, Holders,
         managerClosed, retaining, process
<1>1. ASSUME exit' = exit, published' = published, publisher' = publisher,
             \A h \in Holders : retention'[h] \in {retention[h], {}}
      PROVE  RetentionOK'
  BY <1>1
<1>2. ASSUME NEW w \in Ops, NEW d \in Candidates,
             Acquire(w, d) \/ Request(w, d) PROVE RetentionOK'
  BY <1>2, <1>1 DEF Request, Acquire, flags
<1>3. ASSUME NEW w \in Turns, NEW p \in Turns,
             Admit(w) \/ Retain(p, w) \/ Report(p, w) PROVE RetentionOK'
  BY <1>3, <1>1 DEF Admit, Retain, Report, Acquire, flags
<1>4. CASE (\E w \in Ops : Release(w)) \/ Retiring \/ EndBridge \/ UNCHANGED vars
  <2>1. UNCHANGED <<published, publisher, exit>>
    BY <1>4 DEF Release, Retiring, FinishClose, RetirePrevious, RetireTransports,
                ReleasePin, Drained, EndBridge, vars, flags
  <2>2. \A h \in Holders : retention'[h] \in {retention[h], {}}
    BY ZenonT(60), <1>4 DEF Release, Retiring, FinishClose, RetirePrevious, RetireTransports,
                ReleasePin, Drained, EndBridge, vars, Unretain
  <2>. QED BY <2>1, <2>2, <1>1
<1>5. CASE \/ (\E c \in Candidates : Prepare(c) \/ BarrierWait(c))
           \/ Prepared \/ Discarded \/ AbandonDiscard \/ Discard \/ Unwind \/ PublishService
           \/ PublishCancelled
  <2>1. UNCHANGED <<published, retention, exit>> /\ publisher.pc # "handover"
    BY <1>5 DEF Prepare, BarrierWait, Prepared, Discarded, AbandonDiscard, Discard, Unwind,
                RetireCandidate, PublishService, PublishCancelled, flags
  <2>. QED BY <2>1
<1>6. ASSUME NEW x \in BOOLEAN, NEW r \in BOOLEAN, BeginPublish(x, r) PROVE RetentionOK'
  <2>1. UNCHANGED <<published, exit>> /\ publisher'.candidate = publisher.candidate
        /\ publisher.candidate \in Candidates
        /\ (publisher'.pc = "handover" \/ retention' = retention)
        /\ publisher.pc # "handover"
    BY <1>6 DEF BeginPublish, flags
  <2>2. \A h \in Holders \ {publisher.candidate} : retention'[h] = retention[h]
    BY <1>6 DEF BeginPublish, Retention
  <2>. QED BY <2>1, <2>2
<1>7. ASSUME NEW r \in BOOLEAN, PassBarrier(r) PROVE RetentionOK'
  <2>1. UNCHANGED <<published, exit>> /\ publisher'.candidate = publisher.candidate
        /\ publisher.candidate \in Candidates
        /\ publisher'.pc = "handover" /\ publisher.pc # "handover"
    BY <1>7 DEF PassBarrier, flags
  <2>2. \A h \in Holders \ {publisher.candidate} : retention'[h] = retention[h]
    BY <1>7 DEF PassBarrier, Retention
  <2>. QED BY <2>1, <2>2
<1>8. CASE PublishHandover
  BY <1>8 DEF PublishHandover, PublishPointer
<1>9. CASE AbortPublish
  <2>1. UNCHANGED <<published, exit>> /\ publisher.candidate \in Candidates
    BY <1>9 DEF AbortPublish
  <2>2. retention' = [retention EXCEPT ![publisher.candidate] = {}]
    BY <1>9 DEF AbortPublish, Unretain
  <2>. QED BY <2>1, <2>2
<1>10. CASE Exiting
  <2>1. UNCHANGED <<published, publisher>> /\ exit' # "running"
    BY <1>10 DEF Exiting, Shutdown, ReleaseRetained, CloseAll, CloseShared, flags
  <2>2. \A c \in Candidates : retention'[c] = retention[c]
    BY <1>10 DEF Exiting, Shutdown, ReleaseRetained, CloseAll, CloseShared,
                 Retention, Unretain
  <2>. QED BY <2>1, <2>2
<1>. QED
  BY <1>2, <1>3, <1>4, <1>5, <1>6, <1>7, <1>8, <1>9, <1>10
  DEF Next, Operations, Publishing, Failing, Terminated

\* The pointer names an open, tracked generation.
LEMMA CurrentStep ==
    ASSUME IInv, [Next]_vars
    PROVE  CurrentServes'
<1>. USE DEF IInv, CurrentServes, managerClosed, process, manager, flags
<1>1. CASE Operations \/ UNCHANGED vars \/ EndBridge
  BY <1>1 DEF Operations, Admit, Request, Retain, Report, Acquire, EndBridge, vars
<1>2. CASE (\E w \in Ops : Release(w)) \/ Retiring
  BY <1>2 DEF Release, Retiring, FinishClose, RetirePrevious, RetireTransports,
              ReleasePin, Drained, CloseIfIdle
<1>3. CASE (\E c \in Candidates : Prepare(c)) \/ Failing
  BY ZenonT(60), <1>3 DEF Prepare, Failing, Discard, AbortPublish, RetireCandidate, CloseIfIdle,
              PublisherOK, Pending
<1>4. CASE Publishing
  <2>1. CASE Unwind
    BY <2>1 DEF Unwind, RetireCandidate, CloseIfIdle, PublisherOK, Pending
  <2>2. CASE PublishHandover
    BY <2>2 DEF PublishHandover, PublishPointer, PublisherOK, Pending, Known
  <2>3. CASE ~(Unwind \/ PublishHandover)
    BY <1>4, <2>3 DEF Publishing, Prepared, Discarded, AbandonDiscard, BeginPublish, BarrierWait,
                      PassBarrier, PublishService, PublishCancelled
  <2>. QED BY <2>1, <2>2, <2>3
<1>5. CASE Exiting
  BY <1>5 DEF Exiting, Shutdown, ReleaseRetained, CloseAll, CloseShared
<1>. QED BY <1>1, <1>2, <1>3, <1>4, <1>5 DEF Next, Terminated

-----------------------------------------------------------------------------
(* The invariant and its consequences                                      *)

\* At process start the bridge holds the only lease, on the first generation.
LEMMA InitInvariant == Init => IInv
<1>. SUFFICES ASSUME Init PROVE IInv
  OBVIOUS
<1>. USE NamesAssumption DEF Init
<1>1. TypeOK
  BY DEF TypeOK, IdlePublisher, PublisherStates, ExitStates, Holders
<1>2. ReferencesMatch
  <2>. SUFFICES ASSUME NEW c \in Candidates
                PROVE  /\ references[c] = Cardinality(Owners(c))
                       /\ persistent[c] = Cardinality(PersistentOwners(c))
    BY DEF ReferencesMatch
  <2>1. CASE c = Boot
    <3>1. PersistentOwners(c) = {Bridge} /\ Owners(c) = {Bridge}
      BY <2>1 DEF PersistentOwners, Owners, Holders, Ops
    <3>. QED BY <2>1, <3>1, FS_Singleton
  <2>2. CASE c # Boot
    <3>1. PersistentOwners(c) = {} /\ Owners(c) = {}
      BY <2>2 DEF PersistentOwners, Owners, Holders, Ops
    <3>. QED BY <2>2, <3>1, FS_EmptySet
  <2>. QED BY <2>1, <2>2
<1>3. Known /\ PublisherOK /\ RetentionOK
  BY DEF Known, PublisherOK, Pending, RetentionOK, PreparedSet, IdlePublisher,
         managerClosed, Holders
<1>4. CurrentServes /\ LeasedStayOpen
  BY DEF CurrentServes, LeasedStayOpen
<1>. QED BY <1>1, <1>2, <1>3, <1>4 DEF IInv

\* Every step keeps the invariant.
LEMMA StepInvariant == IInv /\ [Next]_vars => IInv'
BY MatchStep, KnownStep, PublisherStep, RetentionStep, CurrentStep, LeasedStep DEF IInv

\* The inductive invariant holds in every reachable state.
THEOREM Invariant == Spec => []IInv
<1>1. Init => IInv
  BY InitInvariant
<1>2. IInv /\ [Next]_vars => IInv'
  BY StepInvariant
<1>. QED BY <1>1, <1>2, PTL DEF Spec

\* Every variable keeps its type; in particular no counter of generations.py
\* falls below zero.
THEOREM TypeCorrect == Spec => []TypeOK
<1>1. IInv => TypeOK
  BY DEF IInv
<1>. QED BY <1>1, Invariant, PTL

\* RuntimeCandidate._references and _persistent_references are at all times
\* the numbers of unreleased leases, whatever publications fail or overlap.
THEOREM Counters == Spec => []ReferencesMatch
<1>1. IInv => ReferencesMatch
  BY DEF IInv
<1>. QED BY <1>1, Invariant, PTL

\* RuntimeCandidate.close_if_idle() never closes a generation under an owner.
THEOREM Leased == Spec => []LeasedStayOpen
<1>1. IInv => LeasedStayOpen
  BY DEF IInv
<1>. QED BY <1>1, Invariant, PTL

\* GenerationManager.acquire() always finds a generation that accepts work.
THEOREM Serving == Spec => []CurrentServes
<1>1. IInv => CurrentServes
  BY DEF IInv
<1>. QED BY <1>1, Invariant, PTL

-----------------------------------------------------------------------------
(* Refinement of Lifetimes                                                 *)

\* A candidate that was not prepared has no owner.
LEMMA AbsentUnowned ==
    ASSUME IInv, NEW c \in Candidates, Owners(c) # {}
    PROVE  number[c] > 0
BY NamesAssumption DEF IInv, TypeOK, Known, PreparedSet, Owners, PersistentOwners

\* Owners change only while a generation is open.
LEMMA OwnersStep ==
    ASSUME IInv, [Next]_vars, NEW c \in Candidates, Owners(c)' # Owners(c)
    PROVE  c \notin closed /\ number[c] > 0
<1>1. CountedStep(c) /\ references[c] \in Nat /\ references'[c] \in Nat
  BY Counting, MatchStep DEF IInv, TypeOK
<1>2. c \notin closed
  <2>1. CASE \E x : x \notin Owners(c) /\ references'[c] = references[c] + 1
    BY <2>1, <1>1, ReferenceStep DEF MayAcquire
  <2>2. CASE \E x : x \in Owners(c)
    BY <2>2 DEF IInv, LeasedStayOpen
  <2>. QED BY <1>1, <2>1, <2>2 DEF CountedStep, Counted
<1>3. number[c] > 0
  <2>1. CASE Owners(c) # {}
    BY <2>1, AbsentUnowned
  <2>2. CASE Owners(c) = {}
    <3>1. Owners(c)' # {} /\ IInv'
      BY <2>2, StepInvariant
    <3>2. number'[c] > 0
      BY <3>1, NamesAssumption
      DEF IInv, TypeOK, Known, PreparedSet, Owners, PersistentOwners
    <3>3. number' = number
      BY PhaseStep DEF Owners, PersistentOwners
    <3>. QED BY <3>2, <3>3
  <2>. QED BY <2>1, <2>2
<1>. QED BY <1>2, <1>3

\* Every step of the protocol is a step of the abstract lifetimes.
LEMMA LifetimeStep ==
    ASSUME IInv, IInv', [Next]_vars
    PROVE  Lifetime!Step
<1>1. ASSUME NEW c \in Candidates PROVE Lifetime!Advance(c)
  <2>1. CASE c \in drained
    BY <2>1, <1>1, PhaseStep DEF Lifetime!Advance, Phase
  <2>2. CASE c \in closed \ drained
    BY <2>2, <1>1, PhaseStep DEF Lifetime!Advance, Phase
  <2>3. CASE c \notin closed
    <3>1. c \notin drained /\ c \notin drained' /\ number[c] \in Nat /\ number'[c] \in Nat
      BY <2>3, <1>1, PhaseStep DEF IInv, Known, TypeOK
    <3>2. CASE c \in closed'
      <4>1. number' = number /\ number[c] > 0
        BY <3>2, <2>3, <1>1, PhaseStep DEF IInv, Known, PreparedSet
      <4>2. Owners(c)' = {} /\ (~managerClosed' => c # current')
        BY <3>2 DEF IInv, LeasedStayOpen, CurrentServes
      <4>. QED BY <1>1, <2>3, <3>1, <3>2, <4>1, <4>2 DEF Lifetime!Advance, Phase
    <3>3. CASE c \notin closed'
      <4>1. CASE number[c] > 0
        BY <4>1, <1>1, <2>3, <3>1, <3>3, PhaseStep DEF Lifetime!Advance, Phase
      <4>2. CASE number[c] = 0
        <5>1. Owners(c)' = {}
          BY <4>2, <1>1, OwnersStep, AbsentUnowned
        <5>. QED BY <5>1, <4>2, <1>1, <2>3, <3>1, <3>3 DEF Lifetime!Advance, Phase
      <4>. QED BY <4>1, <4>2, <3>1
    <3>. QED BY <3>2, <3>3
  <2>. QED BY <2>1, <2>2, <2>3
<1>2. ASSUME NEW c \in Candidates PROVE Lifetime!OwnersChange(c)
  <2>1. CASE Owners(c)' # Owners(c)
    <3>1. c \notin closed /\ c \notin drained /\ number[c] > 0
      BY <2>1, OwnersStep DEF IInv, Known
    <3>. QED BY <3>1, <1>2 DEF Lifetime!OwnersChange, Phase
  <2>2. CASE Owners(c)' = Owners(c)
    BY <2>2, <1>2 DEF Lifetime!OwnersChange
  <2>. QED BY <2>1, <2>2
<1>3. Lifetime!Serve
  <2>1. current' \in Candidates
    BY DEF IInv, TypeOK
  <2>2. CASE current' # current
    <3>1. ~managerClosed /\ ~managerClosed'
      BY <2>2, PhaseStep
    <3>2. current' \notin closed' /\ current' \notin drained' /\ number'[current'] > 0
      BY <3>1 DEF IInv, CurrentServes, Known, PreparedSet
    <3>. QED BY <3>1, <3>2, <2>1 DEF Lifetime!Serve, Phase
  <2>. QED BY <2>2 DEF Lifetime!Serve
<1>4. /\ [c \in Candidates |-> Phase(c)]' \in [Candidates -> Lifetime!Phases]
      /\ [c \in Candidates |-> Owners(c)]'
            \in [Candidates -> SUBSET (Ops \cup Holders \cup {Bridge})]
      /\ current' \in Candidates
      /\ ~managerClosed' => ~managerClosed
  <2>1. \A c \in Candidates : Phase(c)' \in Lifetime!Phases
    BY DEF Phase, Lifetime!Phases
  <2>2. \A c \in Candidates : Owners(c)' \subseteq Ops \cup Holders \cup {Bridge}
    BY DEF Owners, PersistentOwners
  <2>. QED BY <2>1, <2>2, PhaseStep DEF IInv, TypeOK
<1>. QED BY <1>1, <1>2, <1>3, <1>4 DEF Lifetime!Step

\* The counted, cooperative protocol of generations.py, reload.py, the bridge
\* and shutdown.py implements the abstract lifetimes of generations.
THEOREM Implementation == Spec => ImplementsLifetimes
<1>1. Init => Lifetime!Init
  <2>. SUFFICES ASSUME Init PROVE Lifetime!Init
    OBVIOUS
  <2>1. \A c \in Candidates : Phase(c) = IF c = Boot THEN "open" ELSE "absent"
    BY DEF Init, Phase
  <2>2. \A c \in Candidates \ {Boot} : Owners(c) = {}
    BY NamesAssumption DEF Init, Owners, PersistentOwners, Holders
  <2>3. \A c \in Candidates : Owners(c) \subseteq Ops \cup Holders \cup {Bridge}
    BY DEF Owners, PersistentOwners
  <2>. QED BY <2>1, <2>2, <2>3, NamesAssumption DEF Init, Lifetime!Init, managerClosed
<1>2. IInv /\ IInv' /\ [Next]_vars => [Lifetime!Step]_(Lifetime!vars)
  BY LifetimeStep
<1>. QED BY <1>1, <1>2, Invariant, PTL DEF Spec, Lifetime!Spec, ImplementsLifetimes

-----------------------------------------------------------------------------
(* The bridge's entry, the barrier and the exit                            *)

\* A publication is current until the bridge serves it; the entry that the
\* bridge serves is pinned.
EntryOK ==
    /\ publisher.pc = "published" => publisher.candidate = current
    /\ bridgeOpen => entry \in pins
    /\ bridgeOpen /\ publisher.pc # "published" => entry = current

\* A generation whose work the barrier has awaited stays without work while
\* the gate is closed; an operation of the published one may spawn more.
BarrierOK ==
    /\ publisher.pc = "handover" => publisher.awaited = {}
    /\ publisher.pc \in {"barrier", "handover"} /\ publisher.exclusive =>
          /\ ~admission
          /\ \A w \in Turns :
                lease[w] \notin publisher.accepted \ (publisher.awaited \cup {current})

\* What is known of every candidate that was prepared: it was published and is
\* tracked until it is drained, or it is in hand, or it is closing or closed.
Accounted ==
    /\ TrackedUntilDrained
    /\ \A c \in PreparedSet \ (published \cup closed) :
          publisher.pc # "idle" /\ c = publisher.candidate
    /\ \A c \in Candidates :
          retention[c] # {} => \/ c \in retiring
                               \/ publisher.pc = "handover" /\ c = publisher.candidate

\* The stages of the exit: the bridge is gone, then the work, then every
\* retention, then every generation.
ExitOK ==
    /\ managerClosed => ~bridgeOpen /\ pins = {}
    /\ exit = "draining" => \A w \in Ops : lease[w] \in awaited[Exit] \cup {None}
    /\ exit \in {"released", "closing", "done"} =>
          /\ retiring = {} /\ retention[Exit] = {}
          /\ \A w \in Ops : lease[w] = None
    /\ exit \in {"closing", "done"} => published \ drained \subseteq exiting
    /\ exit = "done" => exiting \subseteq drained

\* A state without work on a generation has no operation that leases it.
LEMMA NoWorkNoLease ==
    ASSUME IInv, NEW c \in Candidates, NoWork(c), NEW w \in Ops
    PROVE  lease[w] # c
<1>. SUFFICES ASSUME lease[w] = c PROVE FALSE
  OBVIOUS
<1>. DEFINE S == Owners(c)
            T == PersistentOwners(c)
<1>1. w \in S /\ T \subseteq S
  BY DEF Owners
<1>2. w \notin T
  BY NamesAssumption DEF PersistentOwners, Holders, Ops
<1>3. IsFiniteSet(S) /\ Cardinality(S) = Cardinality(T)
  BY OwnersFinite DEF IInv, ReferencesMatch, NoWork
<1>. HIDE DEF S, T
<1>4. T \subseteq S \ {w}
  BY <1>1, <1>2
<1>5. IsFiniteSet(S \ {w}) /\ Cardinality(S \ {w}) = Cardinality(S) - 1
  BY <1>1, <1>3, FS_RemoveElement
<1>6. Cardinality(T) <= Cardinality(S \ {w})
  BY <1>4, <1>5, FS_Subset
<1>7. Cardinality(S) \in Nat
  BY <1>3, FS_CardinalityType
<1>. QED BY <1>3, <1>5, <1>6, <1>7

\* The bridge's entry follows the pointer.
LEMMA EntryStep ==
    ASSUME IInv, EntryOK, [Next]_vars
    PROVE  EntryOK'
<1>. USE DEF IInv, TypeOK, EntryOK, bridge, manager, flags, process
<1>1. CASE \/ Operations \/ (\E w \in Ops : Release(w)) \/ Exiting \/ UNCHANGED vars
           \/ \E c \in Candidates : FinishClose(c) \/ RetirePrevious(c) \/ RetireTransports(c)
           \/ \E h \in Holders : \E c \in Candidates : Drained(h, c)
  <2>1. UNCHANGED <<publisher, current, bridgeOpen, entry, pins>>
    BY <1>1 DEF Operations, Admit, Request, Retain, Report, Acquire, Release, Exiting, Shutdown,
                ReleaseRetained, CloseAll, CloseShared, FinishClose, RetirePrevious,
                RetireTransports, Drained, vars
  <2>. QED BY <2>1
<1>2. ASSUME NEW c \in Candidates, ReleasePin(c) PROVE EntryOK'
  BY <1>2 DEF ReleasePin
<1>3. CASE \/ (\E c \in Candidates : Prepare(c) \/ BarrierWait(c))
           \/ Prepared \/ Discarded \/ AbandonDiscard \/ Discard \/ Unwind \/ AbortPublish
           \/ (\E x, r \in BOOLEAN : BeginPublish(x, r)) \/ \E r \in BOOLEAN : PassBarrier(r)
  <2>1. UNCHANGED <<current, bridgeOpen, entry, pins>>
    BY <1>3 DEF Prepare, BarrierWait, Prepared, Discarded, AbandonDiscard, Discard, Unwind, AbortPublish,
                BeginPublish, PassBarrier, RetireCandidate
  <2>2. publisher.pc # "published" /\ publisher'.pc # "published"
    <3>0. ASSUME NEW c \in Candidates, Prepare(c)
          PROVE  publisher.pc # "published" /\ publisher'.pc # "published"
      BY <3>0 DEF Prepare, IdlePublisher
    <3>1. CASE (\E c \in Candidates : BarrierWait(c)) \/ Prepared \/ Discarded \/ AbandonDiscard
      BY <3>1 DEF BarrierWait, Prepared, Discarded, AbandonDiscard, IdlePublisher
    <3>2. CASE Discard \/ Unwind \/ AbortPublish
      BY <3>2 DEF Discard, Unwind, AbortPublish, RetireCandidate
    <3>3. CASE (\E x, r \in BOOLEAN : BeginPublish(x, r)) \/ \E r \in BOOLEAN : PassBarrier(r)
      BY <3>3 DEF BeginPublish, PassBarrier
    <3>. QED BY <1>3, <3>0, <3>1, <3>2, <3>3
  <2>. QED BY <2>1, <2>2
<1>4. CASE PublishHandover
  BY <1>4 DEF PublishHandover, PublishPointer
<1>5. CASE PublishService
  BY <1>5 DEF PublishService, IdlePublisher
<1>6. CASE PublishCancelled
  BY <1>6 DEF PublishCancelled, IdlePublisher
<1>7. CASE EndBridge
  BY <1>7 DEF EndBridge
<1>. QED BY <1>1, <1>2, <1>3, <1>4, <1>5, <1>6, <1>7 DEF Next, Retiring, Publishing, Failing, Terminated

\* What a step does to the operations' leases.
LEMMA LeaseStep ==
    ASSUME IInv, [Next]_vars
    PROVE  \/ lease' = lease
           \/ \E w \in Ops : /\ lease' = [lease EXCEPT ![w] = None]
                             /\ UNCHANGED <<publisher, admission, current, awaited, exit>>
           \/ \E w \in Ops, d \in Candidates :
                /\ lease' = [lease EXCEPT ![w] = d]
                /\ UNCHANGED <<publisher, admission, current, published, awaited, exit, drained>>
                /\ \/ d = current /\ ~managerClosed
                   \/ \E p \in Turns : d = lease[p]
                   \/ d \in pins /\ (w \notin Turns \/ admission)
<1>. USE DEF IInv, TypeOK, bridge, leases, retaining, manager, flags, process, Ops
<1>. DEFINE Taken == \E w \in Ops, d \in Candidates :
                /\ lease' = [lease EXCEPT ![w] = d]
                /\ UNCHANGED <<publisher, admission, current, published, awaited, exit, drained>>
                /\ \/ d = current /\ ~managerClosed
                   \/ \E p \in Turns : d = lease[p]
                   \/ d \in pins /\ (w \notin Turns \/ admission)
            Dropped == \E w \in Ops : /\ lease' = [lease EXCEPT ![w] = None]
                             /\ UNCHANGED <<publisher, admission, current, awaited, exit>>
<1>1. ASSUME NEW w \in Turns, Admit(w) PROVE Taken
  BY <1>1 DEF Admit, Acquire
<1>2. ASSUME NEW w \in Ops, NEW d \in Candidates, Request(w, d) PROVE Taken
  BY <1>2, NamesAssumption DEF Request, Acquire
<1>3. ASSUME NEW p \in Turns, NEW w \in Turns, Retain(p, w) PROVE Taken
  <2>1. lease[p] \in Candidates
    BY <1>3 DEF Retain
  <2>2. /\ lease' = [lease EXCEPT ![w] = lease[p]]
        /\ UNCHANGED <<publisher, admission, current, published, awaited, exit, drained>>
    BY <1>3 DEF Retain, Acquire
  <2>. QED BY <2>1, <2>2
<1>4. ASSUME NEW p \in Turns, NEW w \in Turns, Report(p, w) PROVE Taken
  BY <1>4 DEF Report, Acquire
<1>5. ASSUME NEW w \in Ops, Release(w) PROVE Dropped
  BY <1>5 DEF Release
<1>6. ASSUME Retiring \/ Publishing \/ Failing \/ Exiting \/ EndBridge \/ UNCHANGED vars
           \/ \E c \in Candidates : Prepare(c)
      PROVE  lease' = lease
  BY <1>6 DEF Retiring, FinishClose, RetirePrevious, RetireTransports, ReleasePin, Drained,
              Publishing, Prepared, Discarded, AbandonDiscard, BeginPublish, BarrierWait, PassBarrier,
              PublishHandover, Unwind, PublishService, PublishCancelled, RetireCandidate,
              Failing, Discard, AbortPublish, Exiting, Shutdown, ReleaseRetained, CloseAll,
              CloseShared, EndBridge, Prepare, vars
<1>7. lease' = lease \/ Dropped \/ Taken
  <2>. HIDE DEF Taken, Dropped, IInv, TypeOK, bridge, leases, retaining, manager, flags, process
  <2>. QED BY <1>1, <1>2, <1>3, <1>4, <1>5, <1>6 DEF Next, Operations, Terminated
<1>. QED BY <1>7

\* The gate stays closed, and the work awaited stays over, until the handover.
LEMMA BarrierStep ==
    ASSUME IInv, BarrierOK, [Next]_vars
    PROVE  BarrierOK'
<1>. USE DEF IInv, TypeOK, BarrierOK
<1>1. CASE UNCHANGED <<publisher, admission, current>>
  <2>. SUFFICES ASSUME publisher.pc \in {"barrier", "handover"}, publisher.exclusive,
                       NEW v \in Turns
                PROVE  lease'[v] \notin publisher.accepted \ (publisher.awaited \cup {current})
    BY <1>1
  <2>1. lease[v] \notin publisher.accepted \ (publisher.awaited \cup {current}) /\ ~admission
        /\ v \in Ops
    BY DEF Ops
  <2>2. ASSUME NEW w \in Ops, NEW d \in Candidates \cup {None}, lease' = [lease EXCEPT ![w] = d],
               d = current \/ d = None \/ (\E p \in Turns : d = lease[p]) \/ w \notin Turns
        PROVE  lease'[v] \notin publisher.accepted \ (publisher.awaited \cup {current})
    <3>1. CASE w = v
      BY <2>2, <3>1, NamesAssumption DEF Ops
    <3>2. CASE w # v
      BY <2>1, <2>2, <3>2
    <3>. QED BY <3>1, <3>2
  <2>. QED BY <2>1, <2>2, LeaseStep
<1>2. CASE UNCHANGED <<lease, current>>
  <2>1. CASE UNCHANGED <<publisher, admission>>
    BY <1>1, <1>2, <2>1
  <2>. USE DEF manager
  <2>2. ASSUME NEW x \in BOOLEAN, NEW r \in BOOLEAN, BeginPublish(x, r) PROVE BarrierOK'
    BY <1>2, <2>2 DEF BeginPublish
  <2>3. ASSUME NEW c \in Candidates, BarrierWait(c) PROVE BarrierOK'
    <3>1. \A w \in Turns : lease[w] # c
      BY <2>3, NoWorkNoLease DEF BarrierWait, Ops
    <3>2. publisher.pc = "barrier" /\ publisher' = [publisher EXCEPT !.awaited = @ \ {c}]
          /\ admission' = admission
      BY <2>3 DEF BarrierWait
    <3>. QED BY <1>2, <3>1, <3>2
  <2>4. ASSUME NEW r \in BOOLEAN, PassBarrier(r) PROVE BarrierOK'
    <3>1. publisher.pc = "barrier" /\ publisher' = [publisher EXCEPT !.pc = "handover"]
          /\ admission' = admission /\ publisher.awaited = {}
      BY <2>4 DEF PassBarrier
    <3>. QED BY <1>2, <3>1
  <2>5. CASE publisher'.pc \notin {"barrier", "handover"}
    BY <2>5
  <2>6. \/ UNCHANGED <<publisher, admission>>
        \/ publisher'.pc \notin {"barrier", "handover"}
        \/ (\E x, r \in BOOLEAN : BeginPublish(x, r)) \/ (\E c \in Candidates : BarrierWait(c))
        \/ (\E r \in BOOLEAN : PassBarrier(r))
    <3>1. CASE Operations \/ (\E w \in Ops : Release(w)) \/ Retiring \/ Exiting \/ EndBridge
               \/ UNCHANGED vars
      BY <3>1 DEF Operations, Admit, Request, Retain, Report, Acquire, Release, Retiring,
                  FinishClose, RetirePrevious, RetireTransports, ReleasePin, Drained, Exiting,
                  Shutdown, ReleaseRetained, CloseAll, CloseShared, EndBridge, vars
    <3>0. ASSUME NEW c \in Candidates, Prepare(c) PROVE publisher'.pc = "preparing"
      BY <3>0 DEF Prepare, IdlePublisher
    <3>2. CASE Prepared \/ Discarded \/ AbandonDiscard
      BY <3>2 DEF Prepared, Discarded, AbandonDiscard, IdlePublisher
    <3>3. CASE Failing \/ Unwind
      BY <3>3 DEF Failing, Discard, AbortPublish, Unwind, RetireCandidate
    <3>4. CASE PublishHandover \/ PublishService \/ PublishCancelled
      BY <3>4 DEF PublishHandover, PublishService, PublishCancelled, IdlePublisher
    <3>. QED BY <3>0, <3>1, <3>2, <3>3, <3>4 DEF Next, Publishing, Terminated
  <2>. QED BY <2>1, <2>2, <2>3, <2>4, <2>5, <2>6
<1>3. CASE current' # current
  <2>1. PublishHandover
    BY <1>3 DEF Next, Operations, Admit, Request, Retain, Report, Acquire, Release, Retiring,
                FinishClose, RetirePrevious, RetireTransports, ReleasePin, Drained, Exiting,
                Shutdown, ReleaseRetained, CloseAll, CloseShared, EndBridge, vars, Prepare, Failing,
                Discard, AbortPublish, Publishing, Prepared, Discarded, AbandonDiscard, BeginPublish, BarrierWait,
                PassBarrier, Unwind, PublishService, PublishCancelled, RetireCandidate, Terminated,
                manager
  <2>. QED BY <2>1 DEF PublishHandover
<1>. QED BY <1>1, <1>2, <1>3, LeaseStep

\* Which steps touch the candidate in hand, the pointer and the exit.
LEMMA Kinds ==
    ASSUME IInv, [Next]_vars
    PROVE  \/ UNCHANGED <<number, published, publisher, current, exit, exiting, bridgeOpen>>
           \/ /\ UNCHANGED <<current, exit, exiting, bridgeOpen, published, lease>>
              /\ \/ \E c \in Candidates : Prepare(c) \/ BarrierWait(c)
                 \/ Prepared \/ Discarded \/ AbandonDiscard \/ Failing \/ Unwind
                 \/ \E x, r \in BOOLEAN : BeginPublish(x, r)
                 \/ \E r \in BOOLEAN : PassBarrier(r)
                 \/ PublishService \/ PublishCancelled
           \/ PublishHandover \/ EndBridge \/ Exiting
<1>. USE DEF leases, bridge, flags, manager, process, retaining
<1>1. CASE Operations \/ (\E w \in Ops : Release(w)) \/ Retiring \/ UNCHANGED vars
  BY <1>1 DEF Operations, Admit, Request, Retain, Report, Acquire, Release, Retiring, FinishClose,
              RetirePrevious, RetireTransports, ReleasePin, Drained, vars
<1>2. ASSUME NEW c \in Candidates, Prepare(c)
      PROVE  UNCHANGED <<current, exit, exiting, bridgeOpen, published, lease>>
  BY <1>2 DEF Prepare
<1>3. CASE Publishing \/ Failing
  BY <1>3 DEF Publishing, Prepared, Discarded, AbandonDiscard, BeginPublish, BarrierWait, PassBarrier, Unwind,
              PublishService, PublishCancelled, RetireCandidate, Failing, Discard, AbortPublish
<1>. QED BY <1>1, <1>2, <1>3 DEF Next, Terminated

\* Nothing that was published or drained is forgotten.
LEMMA Kept ==
    ASSUME IInv, [Next]_vars
    PROVE  /\ published \subseteq published' /\ drained \subseteq drained'
           /\ TrackedUntilDrained => TrackedUntilDrained'
<1>. USE DEF leases, bridge, flags, manager, process, retaining, TrackedUntilDrained
<1>1. drained \subseteq drained'
  BY PhaseStep
<1>2. CASE published' = published /\ tracked' = tracked
  BY <1>1, <1>2
<1>3. ASSUME NEW c \in Candidates, FinishClose(c)
      PROVE  published' = published /\ (TrackedUntilDrained => TrackedUntilDrained')
  BY <1>3 DEF FinishClose
<1>4. CASE PublishHandover
  BY <1>1, <1>4 DEF PublishHandover, PublishPointer
<1>5. CASE (\E w \in Ops : Release(w)) \/ UNCHANGED vars \/ EndBridge \/ Exiting
           \/ \E c \in Candidates : Prepare(c) \/ RetirePrevious(c) \/ RetireTransports(c) \/ ReleasePin(c)
           \/ \E h \in Holders : \E g \in Candidates : Drained(h, g)
  <2>1. published' = published /\ tracked' = tracked
    BY <1>5 DEF Release, vars, EndBridge, Exiting, Shutdown, ReleaseRetained, CloseAll, CloseShared,
                Prepare, RetirePrevious, RetireTransports, ReleasePin, Drained
  <2>. QED BY <1>2, <2>1
<1>6. CASE Operations
  <2>1. published' = published /\ tracked' = tracked
    BY <1>6 DEF Operations, Admit, Request, Retain, Report, Acquire
  <2>. QED BY <1>2, <2>1
<1>7. CASE \/ (\E c \in Candidates : BarrierWait(c)) \/ Failing \/ Prepared \/ Discarded \/ AbandonDiscard \/ Unwind
           \/ (\E x, r \in BOOLEAN : BeginPublish(x, r)) \/ (\E r \in BOOLEAN : PassBarrier(r))
           \/ PublishService \/ PublishCancelled
  <2>1. published' = published /\ tracked' = tracked
    BY <1>7 DEF Prepared, Discarded, AbandonDiscard, BeginPublish, BarrierWait, PassBarrier, Unwind, PublishService,
                PublishCancelled, RetireCandidate, Failing, Discard, AbortPublish
  <2>. QED BY <1>2, <2>1
<1>. QED BY <1>1, <1>3, <1>4, <1>5, <1>6, <1>7 DEF Next, Retiring, Publishing, Terminated

\* A candidate stays accounted for.
LEMMA CandidateStep ==
    ASSUME IInv, Accounted, [Next]_vars, NEW c \in Candidates,
           number'[c] > 0, c \notin published', c \notin closed'
    PROVE  publisher'.pc # "idle" /\ c = publisher'.candidate
<1>. USE DEF IInv, TypeOK, Accounted, PreparedSet
<1>1. c \notin published /\ c \notin closed
  BY Kept, PhaseStep
<1>2. CASE UNCHANGED <<number, publisher>>
  BY <1>1, <1>2
<1>3. ASSUME NEW d \in Candidates, Prepare(d)
      PROVE  publisher'.pc # "idle" /\ c = publisher'.candidate
  <2>1. /\ number' = [number EXCEPT ![d] = number[current] + 1] /\ publisher.pc = "idle"
        /\ publisher' = [IdlePublisher EXCEPT !.pc = "preparing", !.candidate = d]
    BY <1>3 DEF Prepare
  <2>2. c = d
    BY <1>1, <2>1
  <2>. QED BY <2>1, <2>2 DEF IdlePublisher
<1>4. ASSUME number' = number
      PROVE  publisher.pc # "idle" /\ c = publisher.candidate
  BY <1>1, <1>4
<1>5. ASSUME number' = number, publisher'.pc # "idle", publisher'.candidate = publisher.candidate
      PROVE  publisher'.pc # "idle" /\ c = publisher'.candidate
  BY <1>4, <1>5
<1>6. CASE Discarded \/ AbandonDiscard \/ PublishService \/ PublishCancelled
  <2>1. number' = number
    BY <1>6 DEF Discarded, AbandonDiscard, PublishService, PublishCancelled
  <2>2. publisher.candidate \in published \cup closed
    BY <1>6 DEF Discarded, AbandonDiscard, PublishService, PublishCancelled, PublisherOK
  <2>. QED BY <1>1, <1>4, <2>1, <2>2
<1>7. CASE Failing \/ Unwind
  <2>1. number' = number /\ publisher'.pc \in {"discarding", "unwinding"}
        /\ publisher'.candidate = publisher.candidate
    BY <1>7 DEF Failing, Discard, AbortPublish, Unwind, RetireCandidate
  <2>. QED BY <1>5, <2>1
<1>8. CASE PublishHandover \/ Prepared
  <2>1. number' = number /\ publisher'.pc \in {"ready", "published"}
        /\ publisher'.candidate = publisher.candidate
    BY <1>8 DEF PublishHandover, Prepared
  <2>. QED BY <1>5, <2>1
<1>9. ASSUME NEW x \in BOOLEAN, NEW r \in BOOLEAN, BeginPublish(x, r)
      PROVE  publisher'.pc # "idle" /\ c = publisher'.candidate
  <2>1. number' = number /\ publisher'.pc \in {"barrier", "handover"}
        /\ publisher'.candidate = publisher.candidate
    BY <1>9 DEF BeginPublish
  <2>. QED BY <1>5, <2>1
<1>10. CASE (\E d \in Candidates : BarrierWait(d)) \/ (\E r \in BOOLEAN : PassBarrier(r))
  <2>1. number' = number /\ publisher'.pc \in {"barrier", "handover"}
        /\ publisher'.candidate = publisher.candidate
    BY <1>10 DEF BarrierWait, PassBarrier
  <2>. QED BY <1>5, <2>1
<1>11. CASE EndBridge \/ Exiting
  BY <1>2, <1>11 DEF EndBridge, Exiting, Shutdown, ReleaseRetained, CloseAll, CloseShared
<1>. QED BY <1>2, <1>3, <1>6, <1>7, <1>8, <1>9, <1>10, <1>11, Kinds

\* A retention is the candidate's in hand, or belongs to channels that retire.
LEMMA RetiringStep ==
    ASSUME IInv, Accounted, [Next]_vars, NEW c \in Candidates, retention'[c] # {}
    PROVE  \/ c \in retiring'
           \/ publisher'.pc = "handover" /\ c = publisher'.candidate
<1>. DEFINE Goal == c \in retiring' \/ (publisher'.pc = "handover" /\ c = publisher'.candidate)
<1>. USE DEF IInv, TypeOK, retaining, Holders
<1>1. ASSUME retention[c] # {}
      PROVE  c \in retiring \/ (publisher.pc = "handover" /\ c = publisher.candidate)
  BY <1>1 DEF Accounted
<1>2. CASE UNCHANGED <<retention, retiring, publisher>>
  BY <1>1, <1>2
<1>3. ASSUME retention' = retention, retiring' = retiring, publisher.pc # "handover" PROVE Goal
  BY <1>1, <1>3
<1>4. CASE \/ Operations \/ (\E w \in Ops : Release(w)) \/ EndBridge \/ UNCHANGED vars
           \/ \E d \in Candidates : FinishClose(d) \/ RetirePrevious(d) \/ ReleasePin(d)
           \/ \E h \in Holders : \E d \in Candidates : Drained(h, d)
  <2>1. UNCHANGED <<retention, retiring, publisher>>
    BY <1>4 DEF Operations, Admit, Request, Retain, Report, Acquire, Release, EndBridge, vars,
                FinishClose, RetirePrevious, ReleasePin, Drained
  <2>. QED BY <1>2, <2>1
<1>5. ASSUME NEW d \in Candidates, RetireTransports(d) PROVE Goal
  <2>1. /\ retention' = [retention EXCEPT ![d] = {}] /\ retiring' = retiring \ {d}
        /\ publisher' = publisher
    BY <1>5 DEF RetireTransports, Unretain
  <2>2. c # d /\ retention[c] # {}
    BY <2>1
  <2>. QED BY <1>1, <2>1, <2>2
<1>6. CASE \/ (\E d \in Candidates : Prepare(d) \/ BarrierWait(d))
           \/ Prepared \/ Discarded \/ AbandonDiscard \/ Discard \/ Unwind \/ PublishService \/ PublishCancelled
  <2>1. retention' = retention /\ retiring' = retiring /\ publisher.pc # "handover"
    BY <1>6 DEF Prepare, BarrierWait, Prepared, Discarded, AbandonDiscard, Discard, Unwind, RetireCandidate,
                PublishService, PublishCancelled
  <2>. QED BY <1>3, <2>1
<1>7. ASSUME NEW x \in BOOLEAN, NEW r \in BOOLEAN, BeginPublish(x, r) PROVE Goal
  <2>1. /\ retiring' = retiring /\ publisher.pc = "ready"
        /\ publisher'.candidate = publisher.candidate
        /\ retention' = retention \/ publisher'.pc = "handover"
        /\ \A h \in Holders \ {publisher.candidate} : retention'[h] = retention[h]
    BY <1>7 DEF BeginPublish, Retention
  <2>. QED BY <1>1, <2>1
<1>8. ASSUME NEW r \in BOOLEAN, PassBarrier(r) PROVE Goal
  <2>1. /\ retiring' = retiring /\ publisher.pc = "barrier"
        /\ publisher'.candidate = publisher.candidate /\ publisher'.pc = "handover"
        /\ \A h \in Holders \ {publisher.candidate} : retention'[h] = retention[h]
    BY <1>8 DEF PassBarrier, Retention
  <2>. QED BY <1>1, <2>1
<1>9. CASE PublishHandover
  <2>1. /\ retention' = retention /\ retiring \subseteq retiring'
        /\ retention[publisher.candidate] # {} => publisher.candidate \in retiring'
    BY <1>9 DEF PublishHandover
  <2>. QED BY <1>1, <2>1
<1>10. CASE AbortPublish
  <2>1. /\ retiring' = retiring
        /\ retention' = [retention EXCEPT ![publisher.candidate] = {}]
    BY <1>10 DEF AbortPublish, Unretain
  <2>. QED BY <1>1, <2>1
<1>11. CASE Exiting
  <2>1. UNCHANGED <<retiring, publisher>> /\ retention'[c] = retention[c]
    BY <1>11, NamesAssumption DEF Exiting, Shutdown, ReleaseRetained, CloseAll, CloseShared,
                                  Retention, Unretain
  <2>. QED BY <1>1, <2>1
<1>. QED BY <1>4, <1>5, <1>6, <1>7, <1>8, <1>9, <1>10, <1>11
         DEF Next, Retiring, Publishing, Failing, Terminated

\* Every step keeps the accounts.
LEMMA AccountedStep ==
    ASSUME IInv, Accounted, [Next]_vars
    PROVE  Accounted'
<1>1. TrackedUntilDrained'
  BY Kept DEF Accounted
<1>2. \A c \in PreparedSet' \ (published' \cup closed') :
         publisher'.pc # "idle" /\ c = publisher'.candidate
  BY CandidateStep DEF PreparedSet
<1>. QED BY <1>1, <1>2, RetiringStep DEF Accounted

\* Once the manager closed, operations only spawn others and end.
LEMMA ClosedKinds ==
    ASSUME IInv, ExitOK, managerClosed, [Next]_vars
    PROVE  \/ \E p, w \in Turns : Retain(p, w)
           \/ \E w \in Ops : Release(w)
           \/ \E c \in Candidates : FinishClose(c) \/ RetirePrevious(c) \/ RetireTransports(c)
           \/ \E h \in Holders : \E c \in Candidates : Drained(h, c)
           \/ ReleaseRetained \/ CloseAll \/ CloseShared \/ UNCHANGED vars
<1>1. publisher.pc = "idle" /\ ~bridgeOpen /\ pins = {}
  BY DEF IInv, PublisherOK, ExitOK
<1>2. ~Publishing /\ ~Failing /\ ~EndBridge /\ ~Shutdown
  BY <1>1 DEF Publishing, Prepared, Discarded, AbandonDiscard, BeginPublish, BarrierWait, PassBarrier, PublishHandover,
              Unwind, PublishService, PublishCancelled, Failing, Discard, AbortPublish, EndBridge,
              Shutdown, managerClosed
<1>3. /\ \A w \in Turns : ~Admit(w) /\ \A p \in Turns : ~Report(p, w)
      /\ \A w \in Ops, c \in Candidates : ~Request(w, c)
      /\ \A c \in Candidates : ~Prepare(c) /\ ~ReleasePin(c)
  BY <1>1 DEF Admit, Report, Request, Prepare, ReleasePin
<1>. QED BY <1>2, <1>3 DEF Next, Operations, Retiring, Exiting, Terminated

\* The exit holds every generation that still works.
LEMMA ShutdownStep ==
    ASSUME IInv, Accounted, Shutdown
    PROVE  ExitOK'
<1>. USE DEF IInv, TypeOK
<1>1. /\ exit' = "draining" /\ awaited'[Exit] = tracked
      /\ UNCHANGED <<bridgeOpen, pins, lease>> /\ ~bridgeOpen /\ pins = {}
  BY DEF Shutdown, bridge, leases, Holders
<1>2. ASSUME NEW w \in Ops, lease[w] # None PROVE lease[w] \in tracked
  <2>1. lease[w] \in published /\ lease[w] \in Candidates
    BY <1>2 DEF Known
  <2>2. w \in Owners(lease[w])
    BY DEF Owners
  <2>3. lease[w] \notin drained
    BY <2>2 DEF LeasedStayOpen, Known
  <2>. QED BY <2>1, <2>3 DEF Accounted, TrackedUntilDrained
<1>. QED BY <1>1, <1>2 DEF ExitOK, managerClosed

\* Every step keeps what the stages of the exit promise.
LEMMA ExitStep ==
    ASSUME IInv, Accounted, ExitOK, [Next]_vars
    PROVE  ExitOK'
<1>. USE DEF IInv, TypeOK
<1>1. CASE ~managerClosed
  <2>1. CASE Shutdown
    BY <2>1, ShutdownStep
  <2>2. CASE ~Shutdown
    <3>1. exit = "running"
      BY <1>1 DEF managerClosed
    <3>2. exit' = "running"
      BY <2>2, <3>1, Kinds DEF PublishHandover, EndBridge, Exiting, ReleaseRetained, CloseAll,
                               CloseShared, process
    <3>. QED BY <3>2 DEF ExitOK, managerClosed
  <2>. QED BY <2>1, <2>2
<1>2. CASE managerClosed
  <2>. USE <1>2 DEF managerClosed, leases, bridge, flags, manager, process, retaining
  <2>1. publisher.pc = "idle" /\ ~bridgeOpen /\ pins = {}
    BY DEF PublisherOK, ExitOK
  <2>2. ASSUME NEW p \in Turns, NEW w \in Turns, Retain(p, w) PROVE ExitOK'
    <3>1. /\ lease' = [lease EXCEPT ![w] = lease[p]] /\ lease[p] # None /\ w \in Ops /\ p \in Ops
          /\ UNCHANGED <<bridgeOpen, pins, exit, exiting, awaited, retiring, retention, published, drained>>
      BY <2>2 DEF Retain, Acquire, Ops
    <3>. QED BY <2>1, <3>1 DEF ExitOK
  <2>3. ASSUME NEW w \in Ops, Release(w) PROVE ExitOK'
    <3>1. /\ lease' = [lease EXCEPT ![w] = None]
          /\ UNCHANGED <<bridgeOpen, pins, exit, exiting, awaited, retiring, retention, published, drained>>
      BY <2>3 DEF Release
    <3>. QED BY <2>1, <3>1 DEF ExitOK
  <2>4. ASSUME NEW c \in Candidates, FinishClose(c) \/ RetirePrevious(c) \/ RetireTransports(c)
        PROVE  ExitOK'
    <3>1. /\ UNCHANGED <<bridgeOpen, pins, exit, exiting, awaited, lease, published>>
          /\ drained \subseteq drained' /\ retiring' \subseteq retiring
          /\ retention'[Exit] \in {retention[Exit], {}}
      BY <2>4, NamesAssumption DEF FinishClose, RetirePrevious, RetireTransports, Unretain, Holders
    <3>. QED BY <2>1, <3>1 DEF ExitOK
  <2>5. ASSUME NEW h \in Holders, NEW c \in Candidates, Drained(h, c) PROVE ExitOK'
    <3>1. /\ UNCHANGED <<bridgeOpen, pins, exit, exiting, lease, published, drained, retiring, retention>>
          /\ awaited' = [awaited EXCEPT ![h] = @ \ {c}]
      BY <2>5 DEF Drained
    <3>2. \A w \in Ops : lease[w] # c
      <4>1. CASE c \in retention[h]
        BY <2>5, <4>1, NoWorkNoLease DEF Drained
      <4>2. CASE c \notin retention[h]
        <5>1. c \in closed
          BY <2>5, <4>2 DEF Drained, Known
        <5>. QED BY <5>1 DEF LeasedStayOpen, Owners
      <4>. QED BY <4>1, <4>2
    <3>3. exit = "draining" => \A w \in Ops : lease[w] \in awaited'[Exit] \cup {None}
      BY <3>1, <3>2 DEF ExitOK, Holders
    <3>. QED BY <2>1, <3>1, <3>3 DEF ExitOK
  <2>6. CASE ReleaseRetained
    <3>1. /\ UNCHANGED <<bridgeOpen, pins, lease, retiring>> /\ exit' = "released" /\ exit = "draining"
          /\ awaited[Exit] = {} /\ retiring = {} /\ retention'[Exit] = {}
      BY <2>6 DEF ReleaseRetained, Unretain, Holders
    <3>. QED BY <2>1, <3>1 DEF ExitOK
  <2>7. CASE CloseAll
    <3>1. /\ UNCHANGED <<bridgeOpen, pins, lease, retiring, retention, published, drained>>
          /\ exit' = "closing" /\ exit = "released" /\ exiting' = tracked
      BY <2>7 DEF CloseAll
    <3>. QED BY <2>1, <3>1 DEF ExitOK, Accounted, TrackedUntilDrained
  <2>8. CASE CloseShared
    <3>1. /\ UNCHANGED <<bridgeOpen, pins, lease, retiring, retention, published, drained, exiting>>
          /\ exit' = "done" /\ exit = "closing" /\ exiting \subseteq drained
      BY <2>8 DEF CloseShared
    <3>. QED BY <2>1, <3>1 DEF ExitOK
  <2>9. CASE UNCHANGED vars
    BY <2>9 DEF vars, ExitOK
  <2>. QED BY <2>2, <2>3, <2>4, <2>5, <2>6, <2>7, <2>8, <2>9, ClosedKinds
<1>. QED BY <1>1, <1>2

\* The protocol's invariant, and what the bridge, the barrier and the exit add.
WholeInv == IInv /\ EntryOK /\ BarrierOK /\ Accounted /\ ExitOK

\* It holds at process start.
LEMMA InitWhole == Init => WholeInv
<1>. SUFFICES ASSUME Init PROVE WholeInv
  OBVIOUS
<1>. USE NamesAssumption DEF Init, IdlePublisher
<1>1. IInv
  BY InitInvariant
<1>2. EntryOK /\ BarrierOK
  BY DEF EntryOK, BarrierOK
<1>3. Accounted
  BY DEF Accounted, TrackedUntilDrained, PreparedSet, Holders
<1>4. ExitOK
  BY DEF ExitOK, managerClosed
<1>. QED BY <1>1, <1>2, <1>3, <1>4 DEF WholeInv

\* WholeInv holds in every reachable state.
THEOREM WholeInvariant == Spec => []WholeInv
<1>1. WholeInv /\ [Next]_vars => WholeInv'
  BY StepInvariant, EntryStep, BarrierStep, AccountedStep, ExitStep DEF WholeInv
<1>. QED BY <1>1, InitWhole, PTL DEF Spec

\* shutdown.py closes the shared HTTP resources last: no operation is left, every
\* generation that ever served has released its own, and a candidate that never
\* did is at least closing (a discard the bridge's end cut short leaves it so).
THEOREM SharedLast == Spec => []SharedCloseLast
<1>1. WholeInv => SharedCloseLast
  <2>. SUFFICES ASSUME WholeInv, exit = "done", NEW c \in Candidates
                PROVE  /\ Owners(c) = {}
                       /\ number[c] > 0 => c \in closed
                       /\ c \in published => c \in drained
    BY DEF SharedCloseLast
  <2>. USE DEF WholeInv, managerClosed
  <2>1. /\ publisher.pc = "idle" /\ pins = {} /\ retiring = {} /\ retention[Exit] = {}
        /\ \A w \in Ops : lease[w] = None
        /\ published \subseteq drained
    BY DEF IInv, PublisherOK, ExitOK
  <2>2. \A h \in Holders : retention[h] = {}
    BY <2>1 DEF Accounted, Holders
  <2>3. Owners(c) = {}
    BY <2>1, <2>2, NamesAssumption DEF Owners, PersistentOwners
  <2>4. number[c] > 0 => c \in closed
    BY <2>1 DEF Accounted, PreparedSet, IInv, Known
  <2>. QED BY <2>1, <2>3, <2>4
<1>. QED BY <1>1, WholeInvariant, PTL

\* RuntimeBridgeService serves, and pins, the published generation whenever no
\* publication is on its way (desktop_bridge/runtime/service.py).
THEOREM BridgeCurrent == Spec => []BridgeServesCurrent
<1>1. WholeInv => BridgeServesCurrent
  BY DEF WholeInv, EntryOK, BridgeServesCurrent
<1>. QED BY <1>1, WholeInvariant, PTL

\* runtime_work_barrier() has quieted every replaced generation by the time the
\* channels change hands exclusively (channel_barrier.py).
THEOREM Quiescent == Spec => []RetiredQuiescent
<1>1. WholeInv => RetiredQuiescent
  BY DEF WholeInv, BarrierOK, RetiredQuiescent
<1>. QED BY <1>1, WholeInvariant, PTL

\* A published generation leaves GenerationManager._tracked only once its
\* resources are released, so shutdown waits for each.
THEOREM Tracked == Spec => []TrackedUntilDrained
<1>1. WholeInv => TrackedUntilDrained
  BY DEF WholeInv, Accounted
<1>. QED BY <1>1, WholeInvariant, PTL
-----------------------------------------------------------------------------
(* Replies and plugins of the published generation                         *)

\* A publication on its way stopped the replies of what it found tracked, the
\* published generation among it; nothing else stops any.
StoppedOK ==
    /\ stopped \subseteq published /\ tracked \subseteq published
    /\ IF publisher.pc \in {"barrier", "handover", "unwinding"}
         THEN current \in publisher.accepted
         ELSE current \notin stopped

\* Replies stop when a publication begins and go on when it was undone.
LEMMA StoppedStep ==
    ASSUME IInv, StoppedOK, [Next]_vars
    PROVE  StoppedOK'
<1>. USE DEF IInv, TypeOK, StoppedOK, leases, bridge, flags, manager, process, retaining
<1>1. CASE UNCHANGED <<stopped, published, current, publisher>> /\ tracked' \subseteq tracked
  BY <1>1
<1>2. CASE Operations \/ (\E w \in Ops : Release(w)) \/ Retiring \/ EndBridge \/ Exiting
           \/ UNCHANGED vars
  <2>1. ASSUME NEW c \in Candidates, FinishClose(c)
        PROVE  UNCHANGED <<stopped, published, current, publisher>> /\ tracked' \subseteq tracked
    BY <2>1 DEF FinishClose
  <2>2. CASE Operations \/ (\E w \in Ops : Release(w)) \/ EndBridge \/ UNCHANGED vars
    BY <2>2 DEF Operations, Admit, Request, Retain, Report, Acquire, Release, EndBridge, vars
  <2>3. CASE Exiting
    BY <2>3 DEF Exiting, Shutdown, ReleaseRetained, CloseAll, CloseShared
  <2>4. ASSUME \/ \E c \in Candidates :
                    RetirePrevious(c) \/ RetireTransports(c) \/ ReleasePin(c)
               \/ \E h \in Holders : \E c \in Candidates : Drained(h, c)
        PROVE  UNCHANGED <<stopped, published, current, publisher, tracked>>
    BY <2>4 DEF RetirePrevious, RetireTransports, ReleasePin, Drained
  <2>. QED BY <1>1, <1>2, <2>1, <2>2, <2>3, <2>4 DEF Retiring
<1>3. ASSUME NEW c \in Candidates, Prepare(c) PROVE StoppedOK'
  BY <1>3 DEF Prepare, IdlePublisher
<1>4. CASE Prepared \/ Discarded \/ AbandonDiscard \/ Discard
  BY <1>4 DEF Prepared, Discarded, AbandonDiscard, Discard, RetireCandidate, IdlePublisher
<1>5. ASSUME NEW x \in BOOLEAN, NEW r \in BOOLEAN, BeginPublish(x, r) PROVE StoppedOK'
  <2>1. current \in tracked /\ UNCHANGED <<published, tracked, current>>
        /\ stopped' = stopped \cup tracked /\ publisher'.accepted = tracked
        /\ publisher'.pc \in {"barrier", "handover"}
    BY <1>5 DEF BeginPublish, CurrentServes
  <2>. QED BY <2>1
<1>6. CASE (\E c \in Candidates : BarrierWait(c)) \/ (\E r \in BOOLEAN : PassBarrier(r))
           \/ AbortPublish
  <2>1. UNCHANGED <<stopped, published, tracked, current>>
        /\ publisher'.accepted = publisher.accepted
        /\ {publisher.pc, publisher'.pc} \subseteq {"barrier", "handover", "unwinding"}
    BY <1>6 DEF BarrierWait, PassBarrier, AbortPublish
  <2>. QED BY <2>1
<1>7. CASE PublishHandover
  <2>1. publisher.candidate \notin published /\ publisher'.pc = "published"
        /\ published' = published \cup {publisher.candidate}
        /\ tracked' = tracked \cup {publisher.candidate}
        /\ current' = publisher.candidate /\ stopped' = stopped
    BY <1>7 DEF PublishHandover, PublishPointer, PublisherOK, Pending
  <2>. QED BY <2>1
<1>8. CASE Unwind
  <2>1. stopped' = stopped \ publisher.accepted /\ publisher'.pc = "discarding"
        /\ UNCHANGED <<published, tracked, current>> /\ publisher.pc = "unwinding"
    BY <1>8 DEF Unwind, ResumeReplies, RetireCandidate
  <2>. QED BY <2>1
<1>9. CASE PublishService \/ PublishCancelled
  BY <1>9 DEF PublishService, PublishCancelled, IdlePublisher
<1>. QED BY <1>2, <1>3, <1>4, <1>5, <1>6, <1>7, <1>8, <1>9
         DEF Next, Publishing, Failing, Terminated

\* ChannelSequenceOwner.resume(): whatever became of a publication, the replies
\* of the generation that is published go on when it is over.
THEOREM Resumed == Spec => []RepliesResume
<1>1. Init => StoppedOK
  BY DEF Init, IdlePublisher, StoppedOK
<1>2. IInv /\ StoppedOK /\ [Next]_vars => StoppedOK'
  BY StoppedStep
<1>3. StoppedOK => RepliesResume
  BY DEF StoppedOK, RepliesResume
<1>. QED BY <1>1, <1>2, <1>3, Invariant, PTL DEF Spec

\* Only a candidate that nobody published learns that its plugins stay, and
\* only a published one that unloads is retired before the exit.
LEMMA UnloadStep ==
    ASSUME IInv, RetiredUnload, [Next]_vars
    PROVE  RetiredUnload'
<1>. USE DEF IInv, TypeOK, RetiredUnload, leases, bridge, flags, manager, process, retaining
<1>1. ASSUME UNCHANGED <<published, retired, blocked, forced>> PROVE RetiredUnload'
  BY <1>1
<1>2. CASE Operations \/ (\E w \in Ops : Release(w)) \/ Retiring \/ EndBridge \/ UNCHANGED vars
  BY <1>1, <1>2 DEF Operations, Admit, Request, Retain, Report, Acquire, Release, EndBridge, vars,
     Retiring, FinishClose, RetirePrevious, RetireTransports, ReleasePin, Drained
<1>3. ASSUME NEW c \in Candidates, Prepare(c) PROVE RetiredUnload'
  BY <1>3 DEF Prepare, Known, PreparedSet
<1>4. CASE \/ Prepared \/ Discarded \/ AbandonDiscard \/ AbortPublish \/ PublishService \/ PublishCancelled
           \/ (\E c \in Candidates : BarrierWait(c)) \/ (\E r \in BOOLEAN : PassBarrier(r))
           \/ (\E x, r \in BOOLEAN : BeginPublish(x, r))
  BY <1>1, <1>4 DEF Prepared, Discarded, AbandonDiscard, AbortPublish, PublishService, PublishCancelled,
     BarrierWait, PassBarrier, BeginPublish
<1>5. CASE Discard \/ Unwind
  <2>1. UNCHANGED <<published, blocked, forced>> /\ publisher.candidate \notin published
        /\ retired' = retired \cup {publisher.candidate}
    BY <1>5 DEF Discard, Unwind, RetireCandidate, PublisherOK, Pending
  <2>. QED BY <2>1
<1>6. CASE PublishHandover
  <2>1. /\ publisher.candidate \notin retired /\ current \notin blocked
        /\ publisher.candidate # current
        /\ published' = published \cup {publisher.candidate}
        /\ retired' = retired \cup {current} /\ UNCHANGED <<blocked, forced>>
    BY <1>6 DEF PublishHandover, PublishPointer, AssertHotUnloadable, PublisherOK, Pending,
       CurrentServes
  <2>. QED BY <2>1
<1>7. CASE Exiting
  BY <1>7 DEF Exiting, Shutdown, ReleaseRetained, CloseAll, CloseShared
<1>. QED BY <1>2, <1>3, <1>4, <1>5, <1>6, <1>7 DEF Next, Publishing, Failing, Terminated

\* RuntimeCandidate.assert_retirable(): a generation whose plugins cannot be
\* unloaded is not replaced while the process goes on.
THEOREM Unloading == Spec => []RetiredUnload
<1>1. Init => RetiredUnload
  BY DEF Init, RetiredUnload
<1>2. IInv /\ RetiredUnload /\ [Next]_vars => RetiredUnload'
  BY UnloadStep
<1>. QED BY <1>1, <1>2, Invariant, PTL DEF Spec
=============================================================================
