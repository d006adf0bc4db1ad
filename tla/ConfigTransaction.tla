------------------------- MODULE ConfigTransaction --------------------------
(***************************************************************************)
(* The commit of a settings application: the configuration file and the    *)
(* role records, journalled so that a crash or a failed write leaves both  *)
(* as they were (apps/backend/desktop_bridge/config_transaction.py), with  *)
(* the committed text that runtime/apply.py derives the next write from,   *)
(* the role store that shares roles.json and the recovery of main.py.      *)
(*                                                                         *)
(* A commit is synchronous on the event loop: nothing but a crash comes    *)
(* between its writes, and each write happens whole or fails               *)
(* (shiori_sdk/files: temporary file and rename).  A change in place takes *)
(* the committed text over in the same step; a generation swap commits     *)
(* inside publish() and takes it over only when publish() returns.         *)
(***************************************************************************)
CONSTANTS
    Configs,    \* contents of the configuration file
    Roles,      \* contents of roles.json
    Absent,     \* a file that does not exist
    Unchanged   \* roles_payload = None: the role records stay as they are

ASSUME ContentsAssumption ==
    /\ Absent \notin Configs /\ Absent \notin Roles
    /\ Unchanged \notin Roles

(* An operator introduced as a "Fault" is a plausible defect that takes the
   place of the operator that follows it when the properties are tested.     *)

VARIABLES
    config, roles,   \* the two files
    journal,         \* .runtime-config-transaction.json
    pc,              \* where the process is in commit(), recover() or neither
    work,            \* arguments of the commit and the files before it
    text,            \* RuntimeSettingsApplication.config_text
    pending,         \* committed by a generation swap whose publish() goes on
    behind,          \* such a publish() raised since the text was last set
    outcome,         \* of the last commit
    saved,           \* the contents last stored by a commit or the role store
    overwritten      \* a role store save met a journal waiting for recovery

files == <<config, roles, journal>>
ghosts == <<outcome, saved, overwritten>>
application == <<text, pending, behind>>
vars == <<files, pc, work, application, ghosts>>

ConfigContents == Configs \cup {Absent}
RoleContents == Roles \cup {Absent}
Journals == [state : {"none", "prepared", "committed"},
             config : ConfigContents, roles : RoleContents]

Committing == {"journal", "config", "roles", "mark"}
Restoring == {"restoreConfig", "restoreRoles", "dropJournal"}
Recovering == {"recoverConfig", "recoverRoles", "recovered"}

NoWork == [config |-> Absent, roles |-> Unchanged,
           config0 |-> Absent, roles0 |-> Absent]

\* The journal while its file does not exist.
NoJournal == [state |-> "none", config |-> Absent, roles |-> Absent]
Prepared == [state |-> "prepared", config |-> work.config0, roles |-> work.roles0]

\* The process is started on a workspace with a configuration file.
Init ==
    /\ config \in Configs /\ roles \in RoleContents
    /\ journal = NoJournal /\ pc = "idle" /\ work = NoWork
    /\ text = config /\ pending = Absent /\ behind = FALSE
    /\ outcome = "none" /\ overwritten = FALSE
    /\ saved = [config |-> config, roles |-> roles]

\* The role records after the commit.
NewRoles == IF work.roles = Unchanged THEN work.roles0 ELSE work.roles

-----------------------------------------------------------------------------
(* commit()                                                                *)

\* One application at a time holds the apply lock until its publish() ended.
\* A leftover committed journal is removed first, a prepared one refuses.
Commit(c, r) ==
    /\ pc = "idle" /\ pending = Absent
    /\ journal.state # "prepared"
    /\ journal' = NoJournal
    /\ pc' = "journal"
    /\ work' = [config |-> c, roles |-> r, config0 |-> config, roles0 |-> roles]
    /\ UNCHANGED <<config, roles, application, ghosts>>

\* "runtime configuration requires transaction recovery", or the leftover
\* journal cannot be removed.
Refuse ==
    /\ pc = "idle" /\ pending = Absent /\ journal.state # "none"
    /\ outcome' = "failure"
    /\ UNCHANGED <<files, pc, work, application, saved, overwritten>>

\* Fault: the journal is written once, as if the commit were already done.
WriteJournalOnce ==
    /\ pc = "journal"
    /\ journal' = [Prepared EXCEPT !.state = "committed"]
    /\ pc' = "config"
    /\ UNCHANGED <<config, roles, work, application, ghosts>>

WriteJournal ==
    /\ pc = "journal"
    /\ journal' = Prepared
    /\ pc' = "config"
    /\ UNCHANGED <<config, roles, work, application, ghosts>>

WriteConfig ==
    /\ pc = "config"
    /\ config' = work.config
    /\ pc' = IF work.roles = Unchanged THEN "mark" ELSE "roles"
    /\ UNCHANGED <<roles, journal, work, application, ghosts>>

WriteRoles ==
    /\ pc = "roles"
    /\ roles' = work.roles
    /\ pc' = "mark"
    /\ UNCHANGED <<config, journal, work, application, ghosts>>

\* The commit point.
MarkCommitted ==
    /\ pc = "mark"
    /\ journal' = [Prepared EXCEPT !.state = "committed"]
    /\ pc' = "cleanup"
    /\ saved' = [config |-> work.config,
                 roles |-> NewRoles]
    /\ UNCHANGED <<config, roles, work, application, outcome, overwritten>>

\* commit() returns, whether or not its journal could be removed.  _commit()
\* takes the text over at once, a generation swap leaves it for the end of its
\* publish(), which goes on with awaits of its own.
Succeed(swaps) ==
    /\ pc = "cleanup"
    /\ journal' \in {journal, NoJournal}
    /\ pc' = "idle" /\ work' = NoWork
    /\ outcome' = "success"
    /\ IF swaps
         THEN pending' = work.config /\ UNCHANGED <<text, behind>>
         ELSE text' = work.config /\ behind' = FALSE /\ UNCHANGED pending
    /\ UNCHANGED <<config, roles, saved, overwritten>>

\* publish() returned: the swap's text becomes the committed one.
TakeOver ==
    /\ pc = "idle" /\ pending # Absent
    /\ text' = pending
    /\ pending' = Absent /\ behind' = FALSE
    /\ UNCHANGED <<files, pc, work, ghosts>>

\* publish() raised after its commit, or the bridge's end cancelled it: the
\* files stay committed and the application keeps the text before them.
Interrupted ==
    /\ pc = "idle" /\ pending # Absent
    /\ pending' = Absent /\ behind' = TRUE
    /\ UNCHANGED <<files, pc, work, text, ghosts>>

\* A write of commit() raised: nothing was written yet, or both files are put
\* back before the failure propagates.
WriteFails ==
    /\ pc \in Committing
    /\ IF pc = "journal"
         THEN pc' = "idle" /\ work' = NoWork /\ outcome' = "failure"
         ELSE pc' = "restoreConfig" /\ UNCHANGED <<work, outcome>>
    /\ UNCHANGED <<files, application, saved, overwritten>>

RestoreConfig ==
    /\ pc = "restoreConfig"
    /\ config' = work.config0
    /\ pc' = "restoreRoles"
    /\ UNCHANGED <<roles, journal, work, application, ghosts>>

RestoreRoles ==
    /\ pc = "restoreRoles"
    /\ roles' = work.roles0
    /\ pc' = "dropJournal"
    /\ UNCHANGED <<config, journal, work, application, ghosts>>

DropJournal ==
    /\ pc = "dropJournal"
    /\ journal' = NoJournal
    /\ pc' = "idle" /\ work' = NoWork /\ outcome' = "failure"
    /\ UNCHANGED <<config, roles, application, saved, overwritten>>

\* Fault: the journal is removed whatever became of the restoring writes.
RestoreAbandoned ==
    /\ pc \in Restoring
    /\ journal' = NoJournal
    /\ pc' = "idle" /\ work' = NoWork /\ outcome' = "failure"
    /\ UNCHANGED <<config, roles, application, saved, overwritten>>

\* A restoring write raised as well: the prepared journal stays.
RestoreFails ==
    /\ pc \in Restoring
    /\ pc' = "idle" /\ work' = NoWork /\ outcome' = "failure"
    /\ UNCHANGED <<files, application, saved, overwritten>>

-----------------------------------------------------------------------------
(* The role store, crashes and the next start                              *)

SaveRoles(r) ==
    /\ pc = "idle"
    /\ roles' = r /\ saved' = [saved EXCEPT !.roles = r]
    /\ overwritten' = (overwritten \/ journal.state = "prepared")
    /\ UNCHANGED <<config, journal, pc, work, application, outcome>>

\* The process dies, or its start fails, at any point.
Crash ==
    /\ pc # "down"
    /\ pc' = "down" /\ work' = NoWork /\ outcome' = "none"
    /\ pending' = Absent
    /\ UNCHANGED <<files, text, behind, saved, overwritten>>

\* serve_bridge() recovers before it loads the configuration.
Start ==
    /\ pc = "down"
    /\ pc' = CASE journal.state = "none" -> "load"
               [] journal.state = "prepared" -> "recoverConfig"
               [] journal.state = "committed" -> "recovered"
    /\ UNCHANGED <<files, work, application, ghosts>>

RecoverConfig ==
    /\ pc = "recoverConfig"
    /\ config' = journal.config
    /\ pc' = "recoverRoles"
    /\ UNCHANGED <<roles, journal, work, application, ghosts>>

RecoverRoles ==
    /\ pc = "recoverRoles"
    /\ roles' = journal.roles
    /\ pc' = "recovered"
    /\ UNCHANGED <<config, journal, work, application, ghosts>>

RemoveJournal ==
    /\ pc = "recovered"
    /\ journal' = NoJournal
    /\ pc' = "load"
    /\ UNCHANGED <<config, roles, work, application, ghosts>>

\* The configuration and the application's text are loaded; what a save lost
\* to the journal is lost for good.
Load ==
    /\ pc = "load"
    /\ pc' = "idle"
    /\ text' = config /\ behind' = FALSE
    /\ saved' = [saved EXCEPT !.roles = roles]
    /\ overwritten' = FALSE
    /\ UNCHANGED <<files, work, pending, outcome>>

-----------------------------------------------------------------------------
Committed ==
    \/ WriteJournal \/ WriteConfig \/ WriteRoles \/ MarkCommitted
    \/ \E swaps \in BOOLEAN : Succeed(swaps)
    \/ TakeOver \/ Interrupted

Undone == RestoreConfig \/ RestoreRoles \/ DropJournal

Starting == Start \/ RecoverConfig \/ RecoverRoles \/ RemoveJournal \/ Load

Next ==
    \/ \E c \in Configs : \E r \in Roles \cup {Unchanged} : Commit(c, r)
    \/ \E r \in Roles : SaveRoles(r)
    \/ Refuse \/ Committed
    \/ WriteFails \/ Undone \/ RestoreFails
    \/ Crash \/ Starting

Spec == Init /\ [][Next]_vars

-----------------------------------------------------------------------------
(* Properties                                                              *)

\* Every variable has its type.
TypeOK ==
    /\ config \in Configs /\ roles \in RoleContents
    /\ journal \in Journals
    /\ pc \in Committing \cup Restoring \cup Recovering
             \cup {"idle", "cleanup", "down", "load"}
    /\ work \in [config : ConfigContents, roles : Roles \cup {Unchanged},
                 config0 : ConfigContents, roles0 : RoleContents]
    /\ text \in Configs /\ pending \in ConfigContents /\ behind \in BOOLEAN
    /\ outcome \in {"none", "success", "failure"}
    /\ saved \in [config : Configs, roles : RoleContents]
    /\ overwritten \in BOOLEAN

\* What the next start would load from the files as they are.
Effective ==
    IF journal.state = "prepared"
    THEN [config |-> journal.config, roles |-> journal.roles]
    ELSE [config |-> config, roles |-> roles]

\* Between commits the two files are a pair that was committed, or the journal
\* restores one.  A crash at any point, in a commit, its rollback or an earlier recovery,
\* leaves files from which the last committed pair is restored ("Restores the
\* last committed files before runtime configuration is loaded"), except role
\* records stored while a rollback that failed waits for the next start.
Recoverable ==
    /\ Effective.config = saved.config
    /\ Effective.roles = saved.roles \/ overwritten

\* The text the next derived write starts from is the committed one, unless a
\* generation swap was interrupted between its commit and the end of publish():
\* no other outcome of a commit makes that write drop what was committed.
DerivesFromCommitted ==
    pc = "idle" /\ pending = Absent /\ ~behind => text = saved.config

\* recover() gives back everything committed before, the role records too.
LastCommittedRestored == pc = "load" => roles = saved.roles

InCommit == pc \in Committing \cup Restoring \cup {"cleanup"}

\* The journalled writes implement a pair that changes at once.
Atomic == INSTANCE AtomicSettings WITH
    Config <- ConfigContents, Role <- RoleContents,
    pair <- Effective,
    wanted <- IF InCommit THEN {[config |-> work.config, roles |-> NewRoles]} ELSE {},
    stage <- IF pc = "cleanup" THEN "taken" ELSE IF InCommit THEN "wanted" ELSE "idle",
    outcome <- outcome

\* Every crash, failure and restart is a step of the abstract pair or none.
ImplementsAtomicSettings == Atomic!Spec
=============================================================================
