---------------------------- MODULE Generations ----------------------------
(***************************************************************************)
(* The generations of the runtime: reference-counted versions of the core  *)
(* (apps/backend/bootstrap/runtime/generations.py), the prepare / publish  *)
(* protocol that replaces one by the next (reload.py), the barrier around  *)
(* an exclusive channel handover (channel_barrier.py), the bridge's pin on *)
(* the generation it serves (desktop_bridge/runtime/service.py) and the    *)
(* ordered shutdown of the process (shutdown.py).                          *)
(*                                                                         *)
(* Everything runs on one asyncio loop, so an action is the code between   *)
(* two awaits.  The settings lock serialises applications: there is one    *)
(* publisher.  main.py ends the bridge (which cancels the publisher and    *)
(* releases its pins) before it calls shutdown().                          *)
(***************************************************************************)
EXTENDS Integers, FiniteSets

CONSTANTS
    Candidates,  \* RuntimeCandidate objects the process may ever prepare
    Boot,        \* the candidate adopted at process start
    Turns,       \* operations admitted to a generation, and their children
    Exempts,     \* admission-exempt bridge requests (cancel, list, health)
    Bridge,      \* names the bridge as the owner of a pin
    Exit,        \* names the process's shutdown as the owner of a retention
    None

Ops == Turns \cup Exempts

\* A RuntimeRetention belongs to the publication of one candidate or to Exit.
Holders == Candidates \cup {Exit}

ASSUME NamesAssumption ==
    /\ Boot \in Candidates
    /\ None \notin Candidates
    /\ Exit \notin Candidates
    /\ Bridge \notin Ops \cup Holders
    /\ Ops \cap Holders = {}
    /\ Turns \cap Exempts = {}

ASSUME FiniteAssumption == IsFiniteSet(Candidates) /\ IsFiniteSet(Ops)

VARIABLES
    number,       \* RuntimeCandidate.generation; 0 before the candidate exists
    references,   \* every unreleased lease on the candidate
    persistent,   \* those of idle owners: the bridge pin and retentions
    blocked,      \* candidates with a plugin that is not hot-unloadable
    published, retired, forced, closed, drained,  \* flags, as sets
    tracked,      \* GenerationManager._tracked
    retirements,  \* manager.retire()'s close tasks that have not started
    stopped,      \* candidates whose reply_sequences are stopped
    current,      \* the published pointer
    admission,    \* the admission gate, TRUE when open
    lease,        \* the generation an operation's lease pins
    requests,     \* operations that are requests of the bridge
    pins,         \* generations the bridge holds a service entry for
    entry,        \* the generation of the bridge's current entry
    bridgeOpen,   \* FALSE once the bridge's stream ended
    retention,    \* generations a RuntimeRetention holds leases on
    awaited,      \* generations whose work a retention still waits for
    retiring,     \* publications whose removed channels are still draining
    publisher,    \* the settings application in progress
    exit,         \* the process's shutdown
    exiting       \* generations close_all waits for

flags     == <<published, retired, forced, closed, drained>>
leases    == <<lease, requests>>
bridge    == <<pins, entry, bridgeOpen>>
retaining == <<retention, awaited, retiring>>
manager   == <<tracked, retirements, current>>
process   == <<exit, exiting>>
vars == <<number, references, persistent, blocked, flags, stopped, manager,
          admission, leases, bridge, retaining, publisher, process>>

PublisherStates == {"idle", "preparing", "ready", "barrier", "handover",
                    "unwinding", "discarding", "published"}
ExitStates == {"running", "draining", "released", "closing", "done"}

IdlePublisher == [pc |-> "idle", candidate |-> None, accepted |-> {},
                  awaited |-> {}, exclusive |-> FALSE]

managerClosed == exit # "running"

Init ==
    /\ number = [c \in Candidates |-> IF c = Boot THEN 1 ELSE 0]
    /\ references = [c \in Candidates |-> IF c = Boot THEN 1 ELSE 0]
    /\ persistent = references
    /\ blocked \in {{}, {Boot}}
    /\ published = {Boot} /\ tracked = {Boot} /\ current = Boot
    /\ retired = {} /\ forced = {} /\ closed = {} /\ drained = {}
    /\ retirements = {} /\ stopped = {}
    /\ admission = TRUE
    /\ lease = [w \in Ops |-> None] /\ requests = {}
    /\ pins = {Boot} /\ entry = Boot /\ bridgeOpen = TRUE
    /\ retention = [h \in Holders |-> {}]
    /\ awaited = [h \in Holders |-> {}]
    /\ retiring = {}
    /\ publisher = IdlePublisher
    /\ exit = "running" /\ exiting = {}

-----------------------------------------------------------------------------
(* RuntimeCandidate                                                        *)

(* An operator introduced as a "Fault" is a plausible defect that takes the
   place of the operator that follows it when the properties are tested.     *)

\* acquire() refuses a closed generation, and a retired one nobody holds.
MayAcquire(c) == c \notin closed /\ ~(c \in retired /\ references[c] = 0)

AddReference(c) == references' = [references EXCEPT ![c] = @ + 1]

DropReference(c) == references' = [references EXCEPT ![c] = @ - 1]

\* The owners of the persistent leases on c: the bridge and retentions.
PersistentOwners(c) ==
    {h \in Holders : c \in retention[h]} \cup (IF c \in pins THEN {Bridge} ELSE {})

\* The owners of every unreleased lease on c.
Owners(c) == {w \in Ops : lease[w] = c} \cup PersistentOwners(c)

AssertHotUnloadable(c) == c \notin blocked

\* assert_retirable(): a published generation that is not forced must unload.
Retirable(c) == c \in published \ forced' => AssertHotUnloadable(c)

\* Fault: a retired generation closes whoever holds it.
CloseWhenRetired(S) == closed' = closed \cup {c \in S : c \in retired' /\ Retirable(c)}

\* close_if_idle() up to its await, for every c of S: a retired generation
\* nobody holds any more starts closing.
CloseIfIdle(S) ==
    closed' = closed \cup {c \in S : /\ c \in retired'
                                     /\ references'[c] = 0
                                     /\ Retirable(c)}

\* Fault: the wait counts the leases of idle owners.
NoReference(c) == references[c] = 0

\* wait_for_work(): accepted operations, without the idle owners.
NoWork(c) == references[c] = persistent[c]

\* The close task ends: resources are released and on_closed untracks c.
FinishClose(c) ==
    /\ c \in closed \ drained
    /\ drained' = drained \cup {c}
    /\ tracked' = IF c # current THEN tracked \ {c} ELSE tracked
    /\ UNCHANGED <<number, references, persistent, blocked, published, retired,
                   forced, closed, stopped, retirements, current, admission,
                   leases, bridge, retaining, publisher, process>>

-----------------------------------------------------------------------------
(* Leases of operations                                                    *)

Acquire(w, c) ==
    /\ lease[w] = None
    /\ MayAcquire(c)
    /\ lease' = [lease EXCEPT ![w] = c]
    /\ AddReference(c)
    /\ UNCHANGED <<number, persistent, blocked, flags, stopped, manager,
                   admission, bridge, retaining, publisher, process>>

\* A channel message or a direct operation: the gate is open (an exclusive
\* handover also pauses channel intake) and the published generation is taken.
Admit(w) ==
    /\ w \in Turns
    /\ ~managerClosed /\ admission
    /\ Acquire(w, current)
    /\ UNCHANGED requests

\* RuntimeLease.retain(): a child pins its parent's generation.
Retain(parent, w) ==
    /\ {parent, w} \subseteq Turns
    /\ lease[parent] # None
    /\ Acquire(w, lease[parent])
    /\ UNCHANGED requests

\* A finished background job queues its role report: publish_inbound() leases
\* the published generation for it and the dispatcher does not gate an item
\* that already carries a lease.
Report(job, w) ==
    /\ {job, w} \subseteq Turns
    /\ lease[job] # None
    /\ ~managerClosed
    /\ Acquire(w, current)
    /\ UNCHANGED requests

\* A bridge request retains an entry's lease: the current entry's, or the one
\* that owns a chat turn.  Only exempt requests pass a closed gate.
Request(w, c) ==
    /\ bridgeOpen
    /\ w \in Exempts \/ (admission /\ ~managerClosed)
    /\ c \in pins
    /\ c = entry \/ \E t \in Turns \cap requests : lease[t] = c
    /\ Acquire(w, c)
    /\ requests' = requests \cup {w}

Release(w) ==
    /\ lease[w] # None
    /\ lease' = [lease EXCEPT ![w] = None]
    /\ requests' = requests \ {w}
    /\ DropReference(lease[w])
    /\ UNCHANGED <<number, persistent, blocked, published, retired, forced,
                   drained, stopped, manager, admission, bridge, retaining,
                   publisher, process>>
    /\ CloseIfIdle({lease[w]})

-----------------------------------------------------------------------------
(* RuntimeRetention                                                        *)

Acquirable(S) == {c \in S : MayAcquire(c)}

\* The references and persistent references after holder h takes (Hold) or
\* gives up (Unhold) its leases.
Hold(S) ==
    /\ references' = [c \in Candidates |->
                        references[c] + IF c \in Acquirable(S) THEN 1 ELSE 0]
    /\ persistent' = [c \in Candidates |->
                        persistent[c] + IF c \in Acquirable(S) THEN 1 ELSE 0]

Retention(h, S) == retention' = [retention EXCEPT ![h] = Acquirable(S)] /\ Hold(S)

Unretain(h) ==
    /\ references' = [c \in Candidates |->
                        references[c] - IF c \in retention[h] THEN 1 ELSE 0]
    /\ persistent' = [c \in Candidates |->
                        persistent[c] - IF c \in retention[h] THEN 1 ELSE 0]
    /\ retention' = [retention EXCEPT ![h] = {}]

\* drain(): one generation's accepted work is over, or it finished closing.
Drained(h, c) ==
    /\ c \in awaited[h]
    /\ IF c \in retention[h] THEN NoWork(c) ELSE c \in drained
    /\ awaited' = [awaited EXCEPT ![h] = @ \ {c}]
    /\ UNCHANGED <<number, references, persistent, blocked, flags, stopped,
                   manager, admission, leases, bridge, retention, retiring,
                   publisher, process>>

\* Fault: the retention is not released once the channels are stopped.
RetireTransportsOnly(c) ==
    /\ c \in retiring
    /\ awaited[c] = {}
    /\ retiring' = retiring \ {c}
    /\ UNCHANGED <<number, references, persistent, blocked, flags, stopped,
                   manager, admission, leases, bridge, retention, awaited,
                   publisher, process>>

\* The removed channels of c's publication are stopped and their capabilities
\* released.
RetireTransports(c) ==
    /\ c \in retiring
    /\ awaited[c] = {}
    /\ retiring' = retiring \ {c}
    /\ Unretain(c)
    /\ UNCHANGED <<number, blocked, published, retired, forced, drained,
                   stopped, manager, admission, leases, bridge, awaited,
                   publisher, process>>
    /\ CloseIfIdle(retention[c])

\* The task manager.retire() spawned runs.
RetirePrevious(c) ==
    /\ c \in retirements
    /\ retirements' = retirements \ {c}
    /\ UNCHANGED <<number, references, persistent, blocked, published, retired,
                   forced, drained, stopped, tracked, current, admission,
                   leases, bridge, retaining, publisher, process>>
    /\ CloseIfIdle({c})

-----------------------------------------------------------------------------
(* The publisher: prepare, publish, discard                                *)

\* prepare() chooses the next generation number; building and starting the
\* core takes many awaits, at the end of which the candidate is "ready".
Prepare(c) ==
    /\ bridgeOpen /\ publisher.pc = "idle"
    /\ ~managerClosed
    /\ AssertHotUnloadable(current)
    /\ number[c] = 0
    /\ number' = [number EXCEPT ![c] = number[current] + 1]
    /\ blocked' \in {blocked, blocked \cup {c}}
    /\ publisher' = [IdlePublisher EXCEPT !.pc = "preparing", !.candidate = c]
    /\ UNCHANGED <<references, persistent, flags, stopped, manager, admission,
                   leases, bridge, retaining, process>>

Prepared ==
    /\ publisher.pc = "preparing"
    /\ publisher' = [publisher EXCEPT !.pc = "ready"]
    /\ UNCHANGED <<number, references, persistent, blocked, flags, stopped,
                   manager, admission, leases, bridge, retaining, process>>

\* retire() of a candidate that was never published closes it.
RetireCandidate ==
    /\ retired' = retired \cup {publisher.candidate}
    /\ publisher' = [publisher EXCEPT !.pc = "discarding"]
    /\ UNCHANGED <<published, forced, drained>>
    /\ CloseIfIdle({publisher.candidate})

\* prepare() failed, or the service, commit or a cancellation did before the
\* publication took any step that needs undoing.
Discard ==
    /\ publisher.pc \in {"preparing", "ready"}
    /\ UNCHANGED <<number, references, persistent, blocked, stopped, manager,
                   admission, leases, bridge, retaining, process>>
    /\ RetireCandidate

Discarded ==
    /\ publisher.pc = "discarding"
    /\ publisher.candidate \in drained
    /\ publisher' = IdlePublisher
    /\ UNCHANGED <<number, references, persistent, blocked, flags, stopped,
                   manager, admission, leases, bridge, retaining, process>>

\* The bridge ended while discard() waited: the close task is shielded and
\* goes on, but nobody tracks the candidate, and the publisher is gone.
AbandonDiscard ==
    /\ publisher.pc = "discarding"
    /\ ~bridgeOpen
    /\ publisher' = IdlePublisher
    /\ UNCHANGED <<number, references, persistent, blocked, flags, stopped,
                   manager, admission, leases, bridge, retaining, process>>

\* publish() refuses a consumed or outdated candidate.
NotStale(c) ==
    /\ c \notin closed \cup published
    /\ number[c] = number[current] + 1

\* _publish_pointer(): the durable commit, the pointer and the retirement of
\* the previous generation happen without an await between them.
PublishPointer(c) ==
    /\ ~managerClosed
    /\ AssertHotUnloadable(current)
    /\ published' = published \cup {c}
    /\ current' = c
    /\ tracked' = tracked \cup {c}
    /\ retired' = retired \cup {current}
    /\ retirements' = retirements \cup {current}
    /\ UNCHANGED <<forced, closed, drained>>

\* runtime_work_barrier() leaves the gate open, restore_sequences() lets the
\* accepted generations' reply batches go on.
\* Fault: the gate stays as it is.
KeepAdmission == UNCHANGED admission
OpenAdmission == admission' = TRUE
ResumeReplies == stopped' = stopped \ publisher.accepted

\* publish() up to its first await.  An exclusive handover closes the gate and
\* waits for accepted work; a shared one goes straight to the channels.
BeginPublish(exclusive, removes) ==
    /\ publisher.pc = "ready"
    /\ ~managerClosed
    /\ AssertHotUnloadable(current)
    /\ NotStale(publisher.candidate)
    /\ stopped' = stopped \cup tracked
    /\ publisher' = [publisher EXCEPT
                        !.pc = IF exclusive THEN "barrier" ELSE "handover",
                        !.accepted = tracked,
                        !.awaited = IF exclusive THEN tracked ELSE {},
                        !.exclusive = exclusive]
    /\ admission' = ~exclusive
    /\ IF removes /\ ~exclusive
         THEN Retention(publisher.candidate, tracked)
         ELSE UNCHANGED <<references, persistent, retention>>
    /\ UNCHANGED <<number, blocked, flags, manager, leases, bridge, awaited,
                   retiring, process>>

\* Fault: the barrier does not wait for the generation's work.
BarrierSkip(c) ==
    /\ publisher.pc = "barrier"
    /\ c \in publisher.awaited
    /\ publisher' = [publisher EXCEPT !.awaited = @ \ {c}]
    /\ UNCHANGED <<number, references, persistent, blocked, flags, stopped,
                   manager, admission, leases, bridge, retaining, process>>

\* One accepted generation's wait_for_work() returns.
BarrierWait(c) ==
    /\ publisher.pc = "barrier"
    /\ c \in publisher.awaited
    /\ NoWork(c)
    /\ publisher' = [publisher EXCEPT !.awaited = @ \ {c}]
    /\ UNCHANGED <<number, references, persistent, blocked, flags, stopped,
                   manager, admission, leases, bridge, retaining, process>>

\* Outbound is drained too and the channels are about to change hands.
PassBarrier(removes) ==
    /\ publisher.pc = "barrier"
    /\ publisher.awaited = {}
    /\ publisher' = [publisher EXCEPT !.pc = "handover"]
    /\ IF removes THEN Retention(publisher.candidate, publisher.accepted)
                  ELSE UNCHANGED <<references, persistent, retention>>
    /\ UNCHANGED <<number, blocked, flags, stopped, manager, admission, leases,
                   bridge, awaited, retiring, process>>

\* The channels changed hands and committed; a retention now belongs to the
\* retirement of the removed channels.
PublishHandover ==
    LET c == publisher.candidate IN
    /\ publisher.pc = "handover"
    /\ PublishPointer(c)
    /\ IF retention[c] # {}
         THEN /\ retiring' = retiring \cup {c}
              /\ awaited' = [awaited EXCEPT ![c] = publisher.accepted]
         ELSE UNCHANGED <<retiring, awaited>>
    /\ OpenAdmission
    /\ publisher' = [publisher EXCEPT !.pc = "published"]
    /\ UNCHANGED <<number, references, persistent, blocked, stopped, leases,
                   bridge, retention, process>>

\* The barrier, the handover or the commit failed or was cancelled.
AbortPublish ==
    /\ publisher.pc \in {"barrier", "handover"}
    /\ Unretain(publisher.candidate)
    /\ publisher' = [publisher EXCEPT !.pc = "unwinding",
                        !.awaited = retention[publisher.candidate]]
    /\ UNCHANGED <<number, blocked, published, retired, forced, drained,
                   stopped, manager, admission, leases, bridge, awaited,
                   retiring, process>>
    /\ CloseIfIdle(retention[publisher.candidate])

\* The released generations' close tasks ended, or the end of the bridge cuts
\* the wait short: reopen what publish() closed and discard the candidate.
Unwind ==
    /\ publisher.pc = "unwinding"
    /\ publisher.awaited \cap closed \subseteq drained \/ ~bridgeOpen
    /\ OpenAdmission
    /\ ResumeReplies
    /\ UNCHANGED <<number, references, persistent, blocked, manager, leases,
                   bridge, retaining, process>>
    /\ RetireCandidate

\* Fault: the bridge goes on serving the entry it had.
PublishServiceStale ==
    LET c == publisher.candidate IN
    /\ publisher.pc = "published"
    /\ bridgeOpen /\ ~managerClosed
    /\ MayAcquire(c)
    /\ pins' = pins \cup {c} /\ entry' = entry
    /\ AddReference(c)
    /\ persistent' = [persistent EXCEPT ![c] = @ + 1]
    /\ publisher' = IdlePublisher
    /\ UNCHANGED <<number, blocked, flags, stopped, manager, admission, leases,
                   bridgeOpen, retaining, process>>

\* publish_service(): the bridge pins the generation it now serves.
PublishService ==
    LET c == publisher.candidate IN
    /\ publisher.pc = "published"
    /\ bridgeOpen /\ ~managerClosed
    /\ MayAcquire(c)
    /\ pins' = pins \cup {c} /\ entry' = c
    /\ AddReference(c)
    /\ persistent' = [persistent EXCEPT ![c] = @ + 1]
    /\ publisher' = IdlePublisher
    /\ UNCHANGED <<number, blocked, flags, stopped, manager, admission, leases,
                   bridgeOpen, retaining, process>>

\* The bridge ended while the application waited for process resources: the
\* publication stands, the service entry is never made.
PublishCancelled ==
    /\ publisher.pc = "published"
    /\ ~bridgeOpen
    /\ publisher' = IdlePublisher
    /\ UNCHANGED <<number, references, persistent, blocked, flags, stopped,
                   manager, admission, leases, bridge, retaining, process>>

-----------------------------------------------------------------------------
(* The bridge's entries and the process's exit                             *)

\* _release_entry(): a replaced entry without requests gives up its pin; when
\* the bridge ends every entry does.
ReleasePin(c) ==
    /\ c \in pins
    /\ c # entry \/ (~bridgeOpen /\ publisher.pc = "idle")
    /\ \A w \in requests : lease[w] # c
    /\ pins' = pins \ {c}
    /\ DropReference(c)
    /\ persistent' = [persistent EXCEPT ![c] = @ - 1]
    /\ UNCHANGED <<number, blocked, published, retired, forced, drained,
                   stopped, manager, admission, leases, entry, bridgeOpen,
                   retaining, publisher, process>>
    /\ CloseIfIdle({c})

EndBridge ==
    /\ bridgeOpen
    /\ bridgeOpen' = FALSE
    /\ UNCHANGED <<number, references, persistent, blocked, flags, stopped,
                   manager, admission, leases, pins, entry, retaining,
                   publisher, process>>

\* shutdown(): no more acquisitions, every open generation is held.
Shutdown ==
    /\ exit = "running"
    /\ ~bridgeOpen /\ pins = {} /\ publisher.pc = "idle"
    /\ exit' = "draining"
    /\ Retention(Exit, tracked)
    /\ awaited' = [awaited EXCEPT ![Exit] = tracked]
    /\ UNCHANGED <<number, blocked, flags, stopped, manager, admission, leases,
                   bridge, retiring, publisher, exiting>>

\* Accepted work drained and the channels stopped, retired ones included.
ReleaseRetained ==
    /\ exit = "draining"
    /\ awaited[Exit] = {} /\ retiring = {}
    /\ exit' = "released"
    /\ Unretain(Exit)
    /\ UNCHANGED <<number, blocked, published, retired, forced, drained,
                   stopped, manager, admission, leases, bridge, awaited,
                   retiring, publisher, exiting>>
    /\ CloseIfIdle(retention[Exit])

\* close_all(force=True)
CloseAll ==
    /\ exit = "released"
    /\ exit' = "closing"
    /\ exiting' = tracked
    /\ forced' = forced \cup tracked
    /\ retired' = retired \cup tracked
    /\ UNCHANGED <<number, references, persistent, blocked, published, drained,
                   stopped, manager, admission, leases, bridge, retaining,
                   publisher>>
    /\ CloseIfIdle(tracked)

\* Fault: the shared resources close without waiting for the generations.
CloseSharedAtOnce ==
    /\ exit = "closing"
    /\ exit' = "done"
    /\ UNCHANGED <<number, references, persistent, blocked, flags, stopped,
                   manager, admission, leases, bridge, retaining, publisher,
                   exiting>>

\* Every generation's resources are closed; the shared ones follow.
CloseShared ==
    /\ exit = "closing"
    /\ exiting \subseteq drained
    /\ retirements = {}
    /\ exit' = "done"
    /\ UNCHANGED <<number, references, persistent, blocked, flags, stopped,
                   manager, admission, leases, bridge, retaining, publisher,
                   exiting>>

Terminated == exit = "done" /\ UNCHANGED vars

-----------------------------------------------------------------------------
Operations ==
    \/ \E w \in Turns : Admit(w)
    \/ \E w \in Ops : \E c \in Candidates : Request(w, c)
    \/ \E p, w \in Turns : Retain(p, w)
    \/ \E p, w \in Turns : Report(p, w)

Retiring ==
    \/ \E c \in Candidates : FinishClose(c)
    \/ \E c \in Candidates : RetirePrevious(c)
    \/ \E c \in Candidates : RetireTransports(c)
    \/ \E c \in Candidates : ReleasePin(c)
    \/ \E h \in Holders : \E c \in Candidates : Drained(h, c)

Publishing ==
    \/ Prepared
    \/ Discarded
    \/ AbandonDiscard
    \/ \E x, r \in BOOLEAN : BeginPublish(x, r)
    \/ \E c \in Candidates : BarrierWait(c)
    \/ \E r \in BOOLEAN : PassBarrier(r)
    \/ PublishHandover
    \/ Unwind
    \/ PublishService
    \/ PublishCancelled

Failing == Discard \/ AbortPublish

Exiting == Shutdown \/ ReleaseRetained \/ CloseAll \/ CloseShared

Next ==
    \/ Operations
    \/ \E w \in Ops : Release(w)
    \/ \E c \in Candidates : Prepare(c)
    \/ Retiring
    \/ Publishing
    \/ Failing
    \/ EndBridge
    \/ Exiting
    \/ Terminated

Spec == Init /\ [][Next]_vars

(* Fairness.  Every await in these paths ends: close tasks, retirement tasks
   and the publisher's steps are scheduled by the loop, and an operation
   releases its lease in a finally or a context manager.  wait_for_work() is
   woken by the release that empties the generation and rechecks before the
   loop reads another bridge request, hence strong fairness for the waits.
   Nothing is assumed of new work, of failures or of the bridge ending.      *)
Fairness ==
    /\ \A w \in Ops : WF_vars(Release(w))
    /\ \A c \in Candidates :
          /\ WF_vars(FinishClose(c))
          /\ WF_vars(RetirePrevious(c))
          /\ WF_vars(RetireTransports(c))
          /\ SF_vars(ReleasePin(c))
          /\ SF_vars(BarrierWait(c))
          /\ \A h \in Holders : SF_vars(Drained(h, c))
    /\ WF_vars(Prepared) /\ WF_vars(Discarded) /\ WF_vars(Unwind)
    /\ WF_vars(\E x, r \in BOOLEAN : BeginPublish(x, r))
    /\ WF_vars(\E r \in BOOLEAN : PassBarrier(r))
    /\ WF_vars(PublishHandover)
    /\ WF_vars(PublishService) /\ WF_vars(PublishCancelled)
    /\ WF_vars(Exiting)

FairSpec == Spec /\ Fairness

-----------------------------------------------------------------------------
(* Properties                                                              *)

\* The abstract lifetime of the generations that the counters, flags, close
\* tasks and the publication protocol implement.
Phase(c) ==
    CASE c \in drained -> "closed"
      [] c \in closed \ drained -> "closing"
      [] c \notin closed \cup drained /\ number[c] > 0 -> "open"
      [] OTHER -> "absent"

Lifetime == INSTANCE Lifetimes WITH
    Generation <- Candidates, Owner <- Ops \cup Holders \cup {Bridge}, First <- Boot,
    phase <- [c \in Candidates |-> Phase(c)],
    owners <- [c \in Candidates |-> Owners(c)],
    serving <- current, running <- ~managerClosed

\* Reference counting implements lifetimes: a generation closes once, never
\* under an owner, and the pointer always serves an open one.
ImplementsLifetimes == Lifetime!Spec

\* Every variable has its type.
TypeOK ==
    /\ number \in [Candidates -> Nat]
    /\ references \in [Candidates -> Nat]
    /\ persistent \in [Candidates -> Nat]
    /\ blocked \subseteq Candidates /\ published \subseteq Candidates
    /\ retired \subseteq Candidates /\ forced \subseteq Candidates
    /\ closed \subseteq Candidates /\ drained \subseteq Candidates
    /\ tracked \subseteq Candidates /\ retirements \subseteq Candidates
    /\ stopped \subseteq Candidates /\ pins \subseteq Candidates
    /\ retiring \subseteq Candidates /\ exiting \subseteq Candidates
    /\ current \in Candidates /\ entry \in Candidates
    /\ admission \in BOOLEAN /\ bridgeOpen \in BOOLEAN
    /\ lease \in [Ops -> Candidates \cup {None}]
    /\ requests \subseteq Ops
    /\ retention \in [Holders -> SUBSET Candidates]
    /\ awaited \in [Holders -> SUBSET Candidates]
    /\ publisher \in [pc : PublisherStates, candidate : Candidates \cup {None},
                      accepted : SUBSET Candidates, awaited : SUBSET Candidates,
                      exclusive : BOOLEAN]
    /\ exit \in ExitStates

\* The counters of a candidate count exactly its unreleased leases: no path of
\* publication, rollback, retirement or exit forgets or repeats one.
ReferencesMatch ==
    \A c \in Candidates :
        /\ references[c] = Cardinality(Owners(c))
        /\ persistent[c] = Cardinality(PersistentOwners(c))

\* close_if_idle() never closes a generation somebody still holds, and nobody
\* acquires one that is closing ("closes only after the final lease exits").
LeasedStayOpen == \A c \in closed : Owners(c) = {}

\* acquire() on the published pointer cannot be refused while the manager is
\* open: the pointer always names a tracked generation that accepts work.
CurrentServes ==
    ~managerClosed => /\ current \in published \cap tracked
                      /\ current \notin retired \cup closed

\* A generation leaves manager._tracked only when its resources are released,
\* so shutdown observes every close it has to wait for.
TrackedUntilDrained == published \ drained \subseteq tracked

\* When the shared HTTP resources close, no operation is left, every generation
\* that ever served has released its own resources, and every candidate that
\* never did is at least closing: only the close of a discard that the end of
\* the bridge cut short outlives the exit (shutdown.py, generations.py).
SharedCloseLast ==
    exit = "done" => \A c \in Candidates :
        /\ Owners(c) = {}
        /\ number[c] > 0 => c \in closed
        /\ c \in published => c \in drained

\* A generation is retired for replacement only if its plugins hot-unload;
\* others end with the process.
RetiredUnload == published \cap retired \cap blocked \subseteq forced

\* While the bridge is open and no publication is on its way, the bridge
\* serves, and pins, the published generation.
BridgeServesCurrent ==
    bridgeOpen /\ publisher.pc # "published" => entry = current /\ entry \in pins

\* When channels change hands exclusively, no replaced generation works any
\* more: its replies cannot meet the new connection.
RetiredQuiescent ==
    publisher.pc = "handover" /\ publisher.exclusive =>
        \A w \in Turns : lease[w] \notin publisher.accepted \ {current}

\* channel_barrier.py: "Quiesces accepted runtime work before replacing
\* process-global channel identity" -- of the published generation as well.
BarrierQuiescent ==
    publisher.pc = "handover" /\ publisher.exclusive =>
        \A w \in Turns : lease[w] \notin publisher.accepted

\* ChannelSequenceOwner.resume(): a failed replacement restores ordinary reply
\* batches of the published generation.
RepliesResume == publisher.pc = "idle" => current \notin stopped

\* ChannelSequenceOwner.stop(): "Refuse old-runtime batches" -- a replaced
\* generation's owner stays stopped.
ReplacedStayStopped ==
    publisher.pc = "idle" => (published \ {current}) \cap retired \subseteq stopped

NoTurns == \A w \in Turns : lease[w] = None

\* A retired generation releases its resources once the turns end for good.
\* (Turns on another generation may delay it: the retention of a publication
\* that removed channels holds every generation it drains.)
RetiredCloses ==
    \A c \in Candidates : <>[](c \in retired /\ NoTurns) => <>(c \in drained)

\* An exclusive handover does not keep the gate closed forever once the
\* accepted turns end, whether it commits, fails or is cancelled.
AdmissionReopens == <>[]NoTurns => []<>admission

\* After the bridge ended and the turns are over, the process exits.
ShutdownCompletes == <>[](~bridgeOpen /\ NoTurns) => <>(exit = "done")
=============================================================================
