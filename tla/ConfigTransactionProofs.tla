---------------------- MODULE ConfigTransactionProofs -----------------------
(***************************************************************************)
(* Proofs about ConfigTransaction for every set of contents.               *)
(*                                                                         *)
(* The strengthening Stage says, for each place a commit, a rollback or a  *)
(* recovery can be at, what the two files and the journal hold: from the   *)
(* first write to the commit point the journal holds the pair before.      *)
(***************************************************************************)
EXTENDS ConfigTransaction, TLAPS

Written == journal = Prepared

Stage ==
    /\ pc \in Committing \cup Restoring \cup {"cleanup"} =>
          work.config \in Configs /\ work.config0 \in Configs
    /\ pc \in {"journal", "config"} => config = work.config0 /\ roles = work.roles0
    /\ pc = "journal" => journal = NoJournal
    /\ pc \in {"config", "roles", "mark"} \cup Restoring => Written
    /\ pc = "roles" => config = work.config /\ roles = work.roles0
    /\ pc = "roles" => work.roles # Unchanged
    /\ pc \in {"mark", "cleanup"} => config = work.config /\ roles = NewRoles
    /\ pc = "cleanup" => journal = [Prepared EXCEPT !.state = "committed"]
    /\ pc \in {"restoreRoles", "dropJournal"} => config = work.config0
    /\ pc = "dropJournal" => roles = work.roles0
    /\ pc \in {"recoverConfig", "recoverRoles"} => journal.state = "prepared"
    /\ pc \in {"recoverRoles", "recovered"} /\ journal.state = "prepared" =>
          config = journal.config
    /\ pc = "recovered" /\ journal.state = "prepared" => roles = journal.roles
    /\ pc = "load" \/ journal.state = "none" => journal = NoJournal
    /\ pc \in Committing \cup Restoring => text = saved.config \/ behind
    /\ pending # Absent => pc = "idle" /\ pending = saved.config

\* A failed rollback leaves the journal of the pair before it.
Stuck == /\ journal.state = "prepared" => journal.config \in Configs
         /\ overwritten => \/ journal.state = "prepared"
                           \/ journal.state = "none" /\ pc \in {"load", "down"}
         /\ pc \in Committing \cup Restoring \cup {"cleanup"} => ~overwritten

IInv == TypeOK /\ Stage /\ Stuck /\ Recoverable /\ DerivesFromCommitted

LEMMA InitInvariant == Init => IInv
<1>. SUFFICES ASSUME Init PROVE IInv
  OBVIOUS
<1>. USE DEF Init, NoJournal, NoWork, Committing, Restoring, Recovering
<1>1. TypeOK
  BY DEF TypeOK, Journals, ConfigContents, RoleContents
<1>2. Stage /\ Stuck /\ Recoverable /\ DerivesFromCommitted
  BY DEF Stage, Stuck, Recoverable, DerivesFromCommitted, Effective
<1>. QED BY <1>1, <1>2 DEF IInv

\* Every write, failure, crash and recovery keeps the invariant.
LEMMA StepInvariant == IInv /\ [Next]_vars => IInv'
<1>. SUFFICES ASSUME IInv, [Next]_vars PROVE IInv'
  OBVIOUS
<1>. USE ContentsAssumption
     DEF IInv, TypeOK, Stage, Stuck, Recoverable, DerivesFromCommitted, Effective,
         application, NoJournal, NoWork, Journals, ConfigContents, RoleContents, Committing,
         Restoring, Recovering, Prepared, NewRoles, Written, files, ghosts
<1>1. ASSUME NEW c \in Configs, NEW r \in Roles \cup {Unchanged}, Commit(c, r)
      PROVE  IInv'
  BY <1>1 DEF Commit
<1>2. ASSUME NEW r \in Roles, SaveRoles(r) PROVE IInv'
  <2>1. overwritten' \in BOOLEAN /\ (overwritten' <=> journal.state = "prepared")
    <3>1. overwritten => journal.state = "prepared"
      BY <1>2 DEF SaveRoles
    <3>. QED BY <1>2, <3>1, Zenon DEF SaveRoles
  <2>2. Stage'
    BY <1>2, <2>1 DEF SaveRoles
  <2>6. TypeOK'
    BY <1>2, <2>1 DEF SaveRoles
  <2>3. Stuck'
    BY <1>2, <2>1 DEF SaveRoles
  <2>4. Recoverable'
    BY <1>2, <2>1 DEF SaveRoles
  <2>5. DerivesFromCommitted'
    BY <1>2, <2>1 DEF SaveRoles
  <2>. QED BY <2>2, <2>3, <2>4, <2>5, <2>6
<1>3. CASE Refuse
  BY <1>3 DEF Refuse
<1>4. CASE WriteJournal
  BY <1>4 DEF WriteJournal
<1>5. CASE WriteConfig
  BY <1>5 DEF WriteConfig
<1>6. CASE WriteRoles
  BY <1>6 DEF WriteRoles
<1>7. CASE MarkCommitted
  BY <1>7 DEF MarkCommitted
<1>8. ASSUME NEW swaps \in BOOLEAN, Succeed(swaps) PROVE IInv'
  <2>0. /\ behind' \in BOOLEAN /\ text' \in Configs /\ pending' \in ConfigContents
        /\ pending' # Absent => pending' = saved'.config
    BY ZenonT(60), <1>8 DEF Succeed
  <2>1. TypeOK' /\ Stage'
    BY <1>8, <2>0 DEF Succeed
  <2>2. Stuck' /\ Recoverable'
    BY <1>8 DEF Succeed
  <2>3. DerivesFromCommitted'
    BY <1>8 DEF Succeed
  <2>. QED BY <2>1, <2>2, <2>3
<1>9. CASE WriteFails
  <2>1. TypeOK'
    BY <1>9 DEF WriteFails
  <2>2. Stage'
    BY <1>9 DEF WriteFails
  <2>3. Stuck'
    BY <1>9 DEF WriteFails
  <2>4. Recoverable'
    BY <1>9 DEF WriteFails
  <2>5. DerivesFromCommitted'
    BY <1>9 DEF WriteFails
  <2>. QED BY <2>1, <2>2, <2>3, <2>4, <2>5
<1>10. CASE RestoreConfig
  BY <1>10 DEF RestoreConfig
<1>11. CASE RestoreRoles
  BY <1>11 DEF RestoreRoles
<1>12. CASE DropJournal
  <2>1. TypeOK'
    BY <1>12 DEF DropJournal
  <2>2. Stage'
    BY <1>12 DEF DropJournal
  <2>3. Stuck'
    BY <1>12 DEF DropJournal
  <2>4. Recoverable'
    BY <1>12 DEF DropJournal
  <2>5. DerivesFromCommitted'
    BY <1>12 DEF DropJournal
  <2>. QED BY <2>1, <2>2, <2>3, <2>4, <2>5
<1>13. CASE RestoreFails
  <2>1. TypeOK'
    BY <1>13 DEF RestoreFails
  <2>2. Stage'
    BY <1>13 DEF RestoreFails
  <2>3. Stuck'
    BY <1>13 DEF RestoreFails
  <2>4. Recoverable'
    BY <1>13 DEF RestoreFails
  <2>5. DerivesFromCommitted'
    BY <1>13 DEF RestoreFails
  <2>. QED BY <2>1, <2>2, <2>3, <2>4, <2>5
<1>14. CASE Crash
  <2>1. TypeOK'
    BY <1>14 DEF Crash
  <2>2. Stage'
    BY <1>14 DEF Crash
  <2>3. Stuck'
    BY <1>14 DEF Crash
  <2>4. Recoverable'
    BY <1>14 DEF Crash
  <2>5. DerivesFromCommitted'
    BY <1>14 DEF Crash
  <2>. QED BY <2>1, <2>2, <2>3, <2>4, <2>5
<1>15. CASE Start
  <2>1. TypeOK'
    BY <1>15 DEF Start
  <2>2. Stage'
    BY <1>15 DEF Start
  <2>3. Stuck'
    BY <1>15 DEF Start
  <2>4. Recoverable'
    BY <1>15 DEF Start
  <2>5. DerivesFromCommitted'
    BY <1>15 DEF Start
  <2>. QED BY <2>1, <2>2, <2>3, <2>4, <2>5
<1>16. CASE RecoverConfig
  BY <1>16 DEF RecoverConfig
<1>17. CASE RecoverRoles
  BY <1>17 DEF RecoverRoles
<1>18. CASE RemoveJournal
  BY <1>18 DEF RemoveJournal
<1>19. CASE Load
  <2>1. TypeOK'
    BY ZenonT(60), <1>19 DEF Load
  <2>2. Stage'
    BY <1>19 DEF Load
  <2>3. Stuck' /\ Recoverable' /\ DerivesFromCommitted'
    BY <1>19 DEF Load
  <2>. QED BY <2>1, <2>2, <2>3
<1>20. CASE UNCHANGED vars
  <2>1. TypeOK' /\ Stage'
    BY <1>20 DEF vars
  <2>2. Stuck' /\ Recoverable' /\ DerivesFromCommitted'
    BY <1>20 DEF vars
  <2>. QED BY <2>1, <2>2
<1>21. CASE TakeOver
  <2>1. behind' \in BOOLEAN /\ text' = saved.config
    BY <1>21 DEF TakeOver
  <2>2. TypeOK'
    BY <1>21, <2>1 DEF TakeOver
  <2>3. Stage' /\ Stuck' /\ Recoverable' /\ DerivesFromCommitted'
    BY <1>21, <2>1 DEF TakeOver
  <2>. QED BY <2>2, <2>3
<1>22. CASE Interrupted
  BY <1>22 DEF Interrupted
<1>. QED
  BY <1>1, <1>2, <1>3, <1>4, <1>5, <1>6, <1>7, <1>8, <1>9, <1>10, <1>11, <1>12,
     <1>13, <1>14, <1>15, <1>16, <1>17, <1>18, <1>19, <1>20, <1>21, <1>22
  DEF Next, Committed, Undone, Starting

\* The inductive invariant holds in every reachable state.
THEOREM Invariant == Spec => []IInv
<1>1. Init => IInv
  BY InitInvariant
<1>2. IInv /\ [Next]_vars => IInv'
  BY StepInvariant
<1>. QED BY <1>1, <1>2, PTL DEF Spec

\* Every variable keeps its type.
THEOREM TypeCorrect == Spec => []TypeOK
<1>1. IInv => TypeOK
  BY DEF IInv
<1>. QED BY <1>1, Invariant, PTL

\* recover() finds the last committed pair after a crash at any point.
THEOREM CrashSafe == Spec => []Recoverable
<1>1. IInv => Recoverable
  BY DEF IInv
<1>. QED BY <1>1, Invariant, PTL

\* RuntimeSettingsApplication.config_text is the committed text between commits,
\* however they ended, but for a generation swap interrupted after its commit.
THEOREM DerivesFresh == Spec => []DerivesFromCommitted
<1>1. IInv => DerivesFromCommitted
  BY DEF IInv
<1>. QED BY <1>1, Invariant, PTL

-----------------------------------------------------------------------------
(* Refinement of AtomicSettings                                            *)

\* Before the commit point, and during a rollback, a step leaves the effective
\* pair and the commit's wishes alone.
LEMMA AtomicStep ==
    ASSUME IInv, IInv', [Next]_vars
    PROVE  [Atomic!Next]_(Atomic!vars)
<1>. USE ContentsAssumption
     DEF IInv, TypeOK, InCommit, Committing, Restoring, Atomic!End,
         Atomic!Next
<1>1. ASSUME NEW c \in Configs, NEW r \in Roles \cup {Unchanged}, Commit(c, r)
      PROVE  Atomic!Begin
  <2>1. Effective' = Effective
    BY <1>1 DEF Commit, Effective, NoJournal
  <2>2. [config |-> work'.config, roles |-> NewRoles'] \in Atomic!Pairs
    BY <1>1 DEF Commit, Atomic!Pairs, ConfigContents, RoleContents, NewRoles
  <2>. QED BY <1>1, <2>1, <2>2 DEF Commit, Atomic!Begin, ghosts
<1>2. ASSUME NEW r \in Roles, SaveRoles(r)
      PROVE  Atomic!SaveRoles \/ UNCHANGED Atomic!vars
  <2>1. CASE journal.state = "prepared"
    BY <1>2, <2>1 DEF SaveRoles, Effective, Atomic!vars
  <2>2. CASE journal.state # "prepared"
    BY <1>2, <2>2 DEF SaveRoles, Effective, Atomic!SaveRoles, RoleContents
  <2>. QED BY <2>1, <2>2
<1>3. CASE MarkCommitted
  <2>1. Effective' = [config |-> work.config, roles |-> NewRoles]
    BY <1>3 DEF MarkCommitted, Effective, Prepared, Stage
  <2>. QED BY <1>3, <2>1 DEF MarkCommitted, NewRoles, Atomic!Take
<1>4. ASSUME NEW swaps \in BOOLEAN, Succeed(swaps) PROVE Atomic!Succeed
  <2>1. Effective' = Effective
    BY <1>4 DEF Succeed, Effective, NoJournal, Prepared, Stage
  <2>. QED BY <1>4, <2>1 DEF Succeed, Atomic!Succeed
<1>5. CASE Refuse \/ DropJournal \/ RestoreFails \/ (WriteFails /\ pc = "journal")
  <2>1. Effective' = Effective
    BY <1>5 DEF Refuse, DropJournal, RestoreFails, WriteFails, Effective, NoJournal,
                Prepared, Stage, Written, files
  <2>2. outcome' = "failure" /\ pc' = "idle" /\ pc # "cleanup"
    BY <1>5 DEF Refuse, DropJournal, RestoreFails, WriteFails
  <2>. QED BY <2>1, <2>2 DEF Atomic!Fail
<1>6. CASE Crash
  <2>1. Effective' = Effective /\ pc' = "down" /\ outcome' = "none"
    BY <1>6 DEF Crash, Effective, files
  <2>. QED BY <2>1 DEF Atomic!Crash
<1>7. CASE \/ WriteJournal \/ WriteConfig \/ WriteRoles \/ RestoreConfig \/ RestoreRoles
           \/ (WriteFails /\ pc # "journal")
  <2>1. Effective' = Effective
    <3>1. CASE WriteJournal
      BY <3>1 DEF WriteJournal, Effective, Prepared, Stage, NoJournal
    <3>2. CASE ~WriteJournal
      <4>1. journal.state = "prepared" /\ journal' = journal
        BY <1>7, <3>2 DEF WriteConfig, WriteRoles, RestoreConfig, RestoreRoles,
                          WriteFails, Prepared, Stage, Written, files
      <4>. QED BY <4>1 DEF Effective
    <3>. QED BY <3>1, <3>2
  <2>2. UNCHANGED <<work, outcome>> /\ pc' # "cleanup" /\ pc # "cleanup"
        /\ pc \in Committing \cup Restoring /\ pc' \in Committing \cup Restoring
    BY <1>7 DEF WriteJournal, WriteConfig, WriteRoles, RestoreConfig, RestoreRoles,
                WriteFails, ghosts
  <2>. QED BY <2>1, <2>2 DEF Atomic!vars, NewRoles
<1>8. CASE Starting
  <2>1. Effective' = Effective
    BY <1>8 DEF Starting, Start, RecoverConfig, RecoverRoles, RemoveJournal, Load,
                Effective, NoJournal, Stage, files
  <2>2. pc \notin Committing \cup Restoring \cup {"cleanup"}
        /\ pc' \notin Committing \cup Restoring \cup {"cleanup"} /\ outcome' = outcome
    BY <1>8 DEF Starting, Start, RecoverConfig, RecoverRoles, RemoveJournal, Load, ghosts,
                Journals
  <2>. QED BY <2>1, <2>2 DEF Atomic!vars
<1>9. CASE TakeOver \/ Interrupted \/ UNCHANGED vars
  BY <1>9 DEF TakeOver, Interrupted, vars, files, ghosts, Effective, NewRoles, Atomic!vars
<1>. QED
  BY <1>1, <1>2, <1>3, <1>4, <1>5, <1>6, <1>7, <1>8, <1>9
  DEF Next, Committed, Undone, Atomic!Next

\* The journal makes the two files one pair that changes at once.
THEOREM Implementation == Spec => ImplementsAtomicSettings
<1>1. Init => Atomic!Init
  BY ContentsAssumption
  DEF Init, Atomic!Init, Atomic!Pairs, Effective, NoJournal,
      ConfigContents, RoleContents, InCommit, Committing, Restoring
<1>2. IInv /\ IInv' /\ [Next]_vars => [Atomic!Next]_(Atomic!vars)
  BY AtomicStep
<1>. QED BY <1>1, <1>2, Invariant, PTL DEF Spec, Atomic!Spec, ImplementsAtomicSettings
=============================================================================
