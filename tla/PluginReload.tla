---------------------------- MODULE PluginReload ----------------------------
(***************************************************************************)
(* The plugins of one runtime generation and the transitions that replace  *)
(* them in place (agent/plugin_host/kernel.py, reload.py, closures.py,     *)
(* admission.py, plugin_setup.py and the SDK's kernel): loading, a reload  *)
(* with a new table, enabling, disabling, a failed renderer entry and the  *)
(* generation's end, while calls enter the plugins through their gates     *)
(* (call_gate.py) and the plugins keep process resources                   *)
(* (infra/process/resources.py).                                           *)
(*                                                                         *)
(* Transitions are serialised by a lock; they await calls that end, setup  *)
(* functions and cleanups, and calls come and go at every await.  A call   *)
(* that entered a plugin may call its providers from there.                *)
(*                                                                         *)
(* A setup function or a cleanup may end in an exception that is no        *)
(* Exception, as a CancelledError of the plugin's own; nothing of the      *)
(* transition but the retention is undone then.                            *)
(***************************************************************************)
EXTENDS Integers

CONSTANTS
    Plugins,
    Rank,       \* Kernel._rank: a plugin's place in the setup order
    Needs,      \* the providers a plugin requires
    Depends,    \* those of them that its manifest names as plugins
    Wants,      \* the providers it uses if they are there
    Gated,      \* plugins with a renderer entry, which may fail later
    Calls,
    MaxOps,     \* bound: how often tables change
    Fragile,    \* bound: after so many changes nothing is interrupted any more
    Starts      \* bound: the plugins that the file may turn on at first

Providers(p) == Needs[p] \cup Wants[p]

\* The planner puts providers before their consumers; plugins that use each
\* other optionally, which it allows, are left out.
ASSUME PluginAssumption ==
    /\ Plugins # {} /\ Gated \subseteq Plugins /\ Starts \subseteq SUBSET Plugins
    /\ MaxOps \in Nat /\ Fragile \in Nat
    /\ Needs \in [Plugins -> SUBSET Plugins] /\ Wants \in [Plugins -> SUBSET Plugins]
    /\ \A p \in Plugins : Depends[p] \subseteq Needs[p]
    /\ Rank \in [Plugins -> Nat] /\ \A p, q \in Plugins : Rank[p] = Rank[q] => p = q
    /\ \A p \in Plugins : \A q \in Providers(p) : Rank[q] < Rank[p]

VARIABLES
    tables,     \* PluginGenerationSettings.plugin_configs: the live tables
    saved,      \* the tables of the configuration file
    status,     \* Kernel._status
    unclean,    \* plugins whose failed setup left cleanup errors
    instances,  \* PluginKernel._instances: the plugins that have an instance
    sealed,     \* instances whose gate admits no new call
    runs,       \* the table's version an instance was set up with
    links,      \* which instance of a provider an instance read in its setup
    resources,  \* plugins whose process resource is there
    broken,     \* instances whose cleanup was interrupted: their scope is closing
    torn,       \* ghost: targets whose table was exchanged, then neither committed nor put back
    stuck,      \* ghost: gates that interrupted transitions left sealed
    inside,     \* the plugins a call is in, from consumer to provider
    orphaned,   \* those of them whose instance was disposed of meanwhile
    retired,    \* PluginKernel._retired
    op,         \* the transition that has the lock
    todo,       \* the plugins its stage has still to do
    queue,      \* the plugins to be set up for the first of them
    ops

settings == <<tables, saved, ops, torn>>
kernel == <<status, unclean, instances, runs, links, resources, broken, stuck>>
calls == <<inside, orphaned>>
progress == <<op, todo, queue>>
vars == <<settings, kernel, sealed, calls, retired, progress>>

Stages == {"idle", "drain", "dispose", "activate", "undo", "remove", "restore", "settle"}

\* Nothing has the transition lock.  "drained" are the plugins that are only
\* set up again, "current" is the record being activated.
NoOp == [kind |-> "none", stage |-> "idle", target |-> CHOOSE p \in Plugins : TRUE, closure |-> {},
         drained |-> {}, new |-> [on |-> FALSE, version |-> 0], old |-> [on |-> FALSE, version |-> 0],
         current |-> {}, failed |-> FALSE]

Idle == op.stage = "idle"

\* The first of S to be set up, and the last, which is the first to go.
First(p, S) == p \in S /\ \A q \in S : Rank[p] <= Rank[q]
Last(p, S) == p \in S /\ \A q \in S : Rank[q] <= Rank[p]

(* An operator introduced as a "Fault" is a plausible defect that takes the
   place of the operator that follows it when the properties are tested.     *)

-----------------------------------------------------------------------------
(* Views and closures                                                      *)

Runnable(p) == tables[p].on

\* plugin_view()
View(p) ==
    CASE ~tables[p].on -> "DISABLED"
      [] tables[p].on /\ status[p] = "FAILED" /\ p \in unclean -> "RESTART_REQUIRED"
      [] tables[p].on /\ status[p] \in {"none", "STOPPED"} -> "BLOCKED"
      [] OTHER -> status[p]

\* active_plugin_ids: those whose scope is not closing.
Active == {p \in instances \ broken : status[p] = "ACTIVE"}

\* graph.dependents(): the target and those of the pool that depend on it.
Dependents(target, pool, uses) ==
    {p \in Plugins : \A S \in SUBSET Plugins :
        target \in S /\ (\A q \in pool : uses[q] \cap S # {} => q \in S) => p \in S}

Uses == [p \in Plugins |-> Providers(p)]

\* Fault: optional consumers keep what they read of the provider.
RunningDependentsHard(target) == Dependents(target, instances, Needs)
\* Kernel.closure(optional=True) of what runs.
RunningDependents(target) == Dependents(target, instances, Uses)

\* enable_closure(): blocked dependents too.
EnableClosure(target) ==
    Dependents(target, Active \cup {p \in Plugins : View(p) = "BLOCKED"}, Uses)

\* disable_closure()
DisableClosure(target) ==
    IF View(target) = "ACTIVE" THEN RunningDependents(target) ELSE {target}

\* What a toggle itself takes down.
Toggled(target) == Dependents(target, instances, Needs)

\* The active plugins a toggle neither turns on nor off.
Staying(target, closure) == {p \in closure : View(p) = "ACTIVE"} \ Toggled(target)

-----------------------------------------------------------------------------
(* Calls                                                                   *)

CallsIn(p) == {k \in Calls : p \in inside[k] \ orphaned[k]}

\* Where a call is now: in the last provider it called.
At(k, p) == p \in inside[k] /\ \A q \in inside[k] : q \notin Providers(p)

Admits(p) == p \in instances \ (sealed \cup broken)

\* _call_through(): a call is admitted by an open gate.
Call(k, p) ==
    /\ inside[k] = {} /\ Admits(p)
    /\ inside' = [inside EXCEPT ![k] = {p}]
    /\ UNCHANGED <<orphaned, settings, kernel, sealed, retired, progress>>

\* A call in p calls a provider that p holds.
CallProvider(k, p, q) ==
    /\ At(k, p) /\ q \in Providers(p) /\ Admits(q)
    /\ p \notin orphaned[k] /\ links[p][q] = "current"
    /\ inside' = [inside EXCEPT ![k] = @ \cup {q}]
    /\ UNCHANGED <<orphaned, settings, kernel, sealed, retired, progress>>

Return(k, p) ==
    /\ At(k, p)
    /\ inside' = [inside EXCEPT ![k] = @ \ {p}]
    /\ orphaned' = [orphaned EXCEPT ![k] = @ \ {p}]
    /\ UNCHANGED <<settings, kernel, sealed, retired, progress>>

-----------------------------------------------------------------------------
(* Steps of a transition                                                   *)

\* Fault: only the target's resource is held.
HoldsTarget(p) == p = op.target
\* retain(): resources of the closure outlive their detaching instances.
Holds(p) == op.kind \in {"reload", "enable", "disable"} /\ p \in op.closure

\* What an instance that is not there holds.
Nothing == [q \in Plugins |-> "none"]

\* Whoever holds the instance of p holds an old one.
Cut(p, how) ==
    links' = [c \in Plugins |->
                IF c \in instances' THEN [links[c] EXCEPT ![p] = IF @ = "current" THEN how ELSE @]
                ELSE Nothing]

\* The instance of p is gone: its gate retires, its scope is closed, whoever
\* is in it is in an old instance.
Gone(p) ==
    /\ instances' = instances \ {p}
    /\ sealed' = sealed \ {p} /\ stuck' = stuck \ {p}
    /\ broken' = broken \ {p} /\ runs' = [runs EXCEPT ![p] = 0]
    /\ orphaned' = [k \in Calls |-> orphaned[k] \cup (inside[k] \cap {p})]
    /\ resources' = IF Holds(p) THEN resources ELSE resources \ {p}

\* A cleanup of p is interrupted: its gate has retired and its keys are
\* withdrawn, its scope stays, perhaps with the resource's attachment.
Breaks(p) ==
    /\ broken' = broken \cup {p}
    /\ resources' \in {resources} \cup IF Holds(p) THEN {} ELSE {resources \ {p}}
    /\ UNCHANGED <<instances, sealed, orphaned, runs>>

\* _dispose_record(): what has no scope keeps its status.
Dispose(p) ==
    IF p \in instances
    THEN /\ Gone(p) /\ Cut(p, "stale")
         /\ status' = [status EXCEPT ![p] = "STOPPED"]
         /\ UNCHANGED unclean
    ELSE UNCHANGED <<kernel, sealed, orphaned>>

\* wants_start()
WantsStart(p) == Runnable(p) /\ p \notin instances /\ View(p) # "RESTART_REQUIRED"

\* plan_activations(): p and the plugins it depends on.
Selected(p) ==
    {q \in Plugins : \A S \in SUBSET Plugins :
        p \in S /\ (\A r \in S : Runnable(r) => Depends[r] \subseteq S) => q \in S}

Planned(p) == {q \in Plugins : WantsStart(q) /\ (q \in Selected(p) \/ status[q] = "none")}

\* A transition ends and gives the lock back.
End == op' = NoOp /\ todo' = {} /\ queue' = {}

Enter(stage, plugins) == op' = [op EXCEPT !.stage = stage] /\ todo' = plugins /\ queue' = {}

\* terminate_all() releases whatever has a scope.
Release ==
    /\ retired' = TRUE
    /\ op' = [NoOp EXCEPT !.kind = "terminate", !.stage = "dispose"]
    /\ todo' = Plugins /\ queue' = {}

\* The exception leaves the transition: _replace() only ends the retention,
\* nobody puts the old table back or reopens a gate; what could not be loaded
\* is released.
Escape ==
    /\ ops <= Fragile
    /\ stuck' = sealed'
    /\ torn' = torn \cup IF op.stage \in {"activate", "remove"} /\ op.kind # "load" THEN {op.target} ELSE {}
    /\ \/ op.kind = "load" /\ Release
       \/ op.kind = "terminate" /\ End /\ UNCHANGED retired
       \/ op.kind \notin {"load", "terminate"} /\ Enter("settle", {}) /\ UNCHANGED retired
    /\ UNCHANGED <<tables, saved, ops>>

-----------------------------------------------------------------------------
(* Draining                                                                *)

\* Fault: all gates are sealed at once.
SealAll(p) == sealed' = sealed \cup op.drained
\* seal(): one plugin after another, dependents first.
Seal(p) == sealed' = sealed \cup {p}

SealNext(p) ==
    /\ op.stage = "drain" /\ Last(p, todo) /\ p \notin sealed
    /\ Seal(p)
    /\ UNCHANGED <<settings, kernel, calls, retired, progress>>

\* wait_idle()
IsIdle(p) == CallsIn(p) = {}

\* The next plugin is idle; after the last one the replacement begins.
Drained(p) ==
    /\ op.stage = "drain" /\ Last(p, todo) /\ p \in sealed /\ IsIdle(p)
    /\ \/ todo # {p} /\ todo' = todo \ {p} /\ UNCHANGED <<op, queue>>
       \/ todo = {p} /\ Enter("dispose", op.closure)
    /\ UNCHANGED <<settings, kernel, sealed, calls, retired>>

\* Fault: only the plugin that was busy admits calls again.
ReopenLast == sealed' = {p \in sealed : ~Last(p, todo)}
\* drain_closure()'s except clause.
Reopen == sealed' = sealed \ op.drained

\* The drain times out, an on_drain callback fails or the caller gives up.
Abandon ==
    /\ op.stage = "drain"
    /\ Reopen /\ stuck' = stuck \ op.drained
    /\ End
    /\ UNCHANGED <<settings, status, unclean, instances, runs, links, resources, broken, calls, retired>>

-----------------------------------------------------------------------------
(* Replacement                                                             *)

\* Fault: a failed replacement leaves the new table.
SwapForward(table) ==
    tables' = IF op.stage = "dispose" THEN [tables EXCEPT ![op.target] = table] ELSE tables
\* ConfigTables.swap()
Swap(table) == tables' = [tables EXCEPT ![op.target] = table]

\* The next instance is disposed of, dependents first; after the last one the
\* other table applies.
DisposeNext(p) ==
    /\ op.stage \in {"dispose", "remove"} /\ Last(p, todo)
    /\ Dispose(p)
    /\ \/ todo # {p} /\ todo' = todo \ {p} /\ UNCHANGED <<op, queue, tables>>
       \/ todo = {p} /\ op.kind = "terminate" /\ End /\ UNCHANGED tables
       \/ /\ todo = {p} /\ op.kind # "terminate" /\ op.stage = "dispose"
          /\ Enter("activate", op.closure) /\ Swap(op.new)
       \/ /\ todo = {p} /\ op.stage = "remove"
          /\ Enter("restore", op.closure) /\ Swap(op.old)
    /\ UNCHANGED <<saved, ops, torn, inside, retired>>

\* A cleanup is interrupted: status and tables stay.
CleanupCancelled(p) ==
    /\ op.stage \in {"dispose", "remove"} /\ Last(p, todo) /\ p \in instances
    /\ Breaks(p) /\ Cut(p, "stale") /\ Escape
    /\ UNCHANGED <<status, unclean, inside>>

Activating == op.stage \in {"activate", "restore"}

\* strict: a reloaded plugin that does not become ACTIVE fails the transition.
Diverged ==
    \/ op.failed
    \/ /\ op.kind = "reload" /\ op.stage = "activate"
       /\ \E p \in op.current : View(p) # "ACTIVE"

\* The view of the last record is read, the next one's activation planned.
PlanNext(p) ==
    /\ Activating /\ queue = {} /\ First(p, todo)
    /\ op' = [op EXCEPT !.current = {p}, !.failed = Diverged]
    /\ queue' = Planned(p)
    /\ todo' = todo \ {p}
    /\ UNCHANGED <<settings, kernel, sealed, calls, retired>>

\* activate_plugins() sets up the first of the plan, whose required providers
\* are all there.
Missing(p) == Needs[p] \ Active

\* The next of the plan.
Upcoming(p) == Activating /\ First(p, queue)

\* Fault: a plugin that failed is tried again until it starts.
Retrying(p) == queue
\* Each planned plugin is tried once.
Untried(p) == queue \ {p}

Block(p) ==
    /\ Upcoming(p) /\ Missing(p) # {}
    /\ status' = [status EXCEPT ![p] = "BLOCKED"]
    /\ queue' = queue \ {p}
    /\ UNCHANGED <<settings, unclean, instances, runs, links, resources, broken, stuck, sealed, calls, retired, op, todo>>

\* The instance and its gate exist before the setup runs; it reads its
\* providers and acquires its resource.
BeginSetup(p) ==
    /\ Upcoming(p) /\ Missing(p) = {} /\ p \notin instances
    /\ instances' = instances \cup {p}
    /\ status' = [status EXCEPT ![p] = "SETUP"]
    /\ unclean' = unclean \ {p}
    /\ runs' = [runs EXCEPT ![p] = tables[p].version]
    /\ links' = [links EXCEPT ![p] = [q \in Plugins |->
                   IF q \in Providers(p) \cap Active THEN "current" ELSE "none"]]
    /\ resources' = resources \cup {p}
    /\ UNCHANGED <<settings, broken, stuck, sealed, calls, retired, progress>>

SetupDone(p) ==
    /\ Upcoming(p) /\ p \in instances /\ status[p] = "SETUP"
    /\ status' = [status EXCEPT ![p] = "ACTIVE"]
    /\ queue' = queue \ {p}
    /\ UNCHANGED <<settings, unclean, instances, runs, links, resources, broken, stuck, sealed, calls, retired, op, todo>>

\* The setup raises: what it registered is released, perhaps not without errors.
Rejected(p, clean) ==
    /\ Upcoming(p) /\ p \in instances /\ status[p] = "SETUP"
    /\ Gone(p) /\ Cut(p, "stale")
    /\ status' = [status EXCEPT ![p] = "FAILED"]
    /\ unclean' = unclean \cup IF clean THEN {} ELSE {p}
    /\ UNCHANGED inside

\* It raises an Exception: the plugin is FAILED, the plan goes on.
SetupFails(p, clean) ==
    /\ Rejected(p, clean)
    /\ queue' = Untried(p)
    /\ UNCHANGED <<settings, retired, op, todo>>

\* It raises another one, which goes on when the scope is released.
SetupCancelled(p, clean) == Rejected(p, clean) /\ Escape

\* The release of a failed setup is interrupted: the plugin keeps the status it
\* had before the setup.
ReleaseCancelled(p) ==
    /\ Upcoming(p) /\ p \in instances /\ status[p] = "SETUP"
    /\ Breaks(p) /\ Cut(p, "stale") /\ Escape
    /\ \E before \in {"STOPPED", "FAILED"} : status' = [status EXCEPT ![p] = before]
    /\ UNCHANGED <<unclean, inside>>

Activated == Activating /\ queue = {} /\ todo = {}

LoadEnds ==
    /\ Activated /\ op.kind = "load"
    /\ End
    /\ UNCHANGED <<settings, kernel, sealed, calls, retired>>

\* commit(): the file is written as soon as the closure is set up.
Commit ==
    /\ Activated /\ op.stage = "activate" /\ op.kind # "load" /\ ~Diverged
    /\ saved' = [saved EXCEPT ![op.target] = op.new]
    /\ torn' = torn \ {op.target}
    /\ Enter("settle", {})
    /\ UNCHANGED <<tables, ops, kernel, sealed, calls, retired>>

\* The closure or the commit failed: what runs of it is sealed.
CommitFails ==
    /\ Activated /\ op.stage = "activate" /\ op.kind # "load"
    /\ sealed' = sealed \cup (instances \cap op.closure)
    /\ Enter("undo", {})
    /\ UNCHANGED <<settings, kernel, calls, retired>>

\* _seal_and_wait(): until the calls end or the time is over.
Undo ==
    /\ op.stage = "undo"
    /\ Enter("remove", op.closure)
    /\ UNCHANGED <<settings, kernel, sealed, calls, retired>>

Restored ==
    /\ Activated /\ op.stage = "restore"
    /\ Enter("settle", {})
    /\ UNCHANGED <<settings, kernel, sealed, calls, retired>>

\* end_retention(): resources that nobody acquired again are closed, with
\* those whose attachment an interrupted cleanup has released.
Settle ==
    /\ op.stage = "settle"
    /\ \E released \in SUBSET (op.closure \cap broken) :
           resources' = resources \ ((op.closure \ instances) \cup released)
    /\ End
    /\ UNCHANGED <<settings, status, unclean, instances, runs, links, broken, stuck, sealed, calls, retired>>

-----------------------------------------------------------------------------
(* Transitions                                                             *)

\* The lock is free and the generation not at its end.
MayChange == Idle /\ ~retired /\ ops < MaxOps

Begin(kind, target, closure, drained, new) ==
    /\ op' = [kind |-> kind, stage |-> IF drained = {} THEN "dispose" ELSE "drain", target |-> target,
              closure |-> closure, drained |-> drained, new |-> new, old |-> tables[target],
              current |-> {}, failed |-> FALSE]
    /\ todo' = IF drained = {} THEN closure ELSE drained
    /\ ops' = ops + 1 /\ queue' = {}
    /\ UNCHANGED <<tables, saved, torn, kernel, sealed, calls, retired>>

\* reload()
Reload(t) ==
    /\ MayChange /\ View(t) = "ACTIVE"
    /\ Begin("reload", t, RunningDependents(t), RunningDependents(t), [on |-> TRUE, version |-> ops + 1])

\* A disabled plugin's table is only stored.
Store(t) ==
    /\ MayChange /\ View(t) = "DISABLED"
    /\ tables' = [tables EXCEPT ![t].version = ops + 1]
    /\ saved' = [saved EXCEPT ![t] = tables'[t]]
    /\ ops' = ops + 1
    /\ torn' = torn \ {t}
    /\ UNCHANGED <<kernel, sealed, calls, retired, progress>>

\* set_enabled() on: refused while a provider can only be retried by a new
\* generation.
Enable(t) ==
    /\ MayChange /\ View(t) = "DISABLED"
    /\ \A q \in Depends[t] : View(q) \in {"ACTIVE", "DISABLED"}
    /\ Begin("enable", t, EnableClosure(t), Staying(t, EnableClosure(t)), [tables[t] EXCEPT !.on = TRUE])

\* set_enabled() off: what goes down is not drained.
Disable(t) ==
    /\ MayChange /\ View(t) \in {"ACTIVE", "FAILED", "BLOCKED"}
    /\ Begin("disable", t, DisableClosure(t), Staying(t, DisableClosure(t)), [tables[t] EXCEPT !.on = FALSE])

\* fail_renderer_entry(): nothing but the plugin itself is released; consumers
\* keep what they hold of it.
RendererFails(p, clean) ==
    /\ Idle /\ p \in Active \cap Gated
    /\ Gone(p) /\ Cut(p, "withdrawn")
    /\ status' = [status EXCEPT ![p] = "FAILED"]
    /\ unclean' = unclean \cup IF clean THEN {} ELSE {p}
    /\ UNCHANGED <<settings, inside, retired, progress>>

\* The release is interrupted.
RendererCancelled(p) ==
    /\ Idle /\ p \in Active \cap Gated /\ ops <= Fragile
    /\ Breaks(p) /\ Cut(p, "withdrawn")
    /\ UNCHANGED <<settings, status, unclean, stuck, inside, retired, progress>>

\* terminate_all(), called again for what an interrupted one has left.
Terminate ==
    /\ Idle /\ (retired => instances # {})
    /\ Release
    /\ UNCHANGED <<settings, kernel, sealed, calls>>

\* load_all() begins with what the file says.
Init ==
    /\ \E on \in Starts : tables = [p \in Plugins |-> [on |-> p \in on, version |-> 0]]
    /\ saved = tables
    /\ status = [p \in Plugins |-> "none"] /\ unclean = {} /\ instances = {}
    /\ sealed = {} /\ runs = [p \in Plugins |-> 0]
    /\ links = [p \in Plugins |-> Nothing]
    /\ resources = {} /\ broken = {} /\ torn = {} /\ stuck = {}
    /\ inside = [k \in Calls |-> {}] /\ orphaned = [k \in Calls |-> {}]
    /\ retired = FALSE /\ ops = 0
    /\ op = [NoOp EXCEPT !.kind = "load", !.stage = "activate"]
    /\ todo = {} /\ queue = {p \in Plugins : tables[p].on}

Step ==
    \/ \E p \in Plugins :
        \/ SealNext(p) \/ Drained(p) \/ DisposeNext(p) \/ CleanupCancelled(p)
        \/ PlanNext(p) \/ Block(p) \/ BeginSetup(p) \/ SetupDone(p) \/ ReleaseCancelled(p)
        \/ \E clean \in BOOLEAN : SetupFails(p, clean) \/ SetupCancelled(p, clean)
    \/ Abandon \/ LoadEnds \/ Commit \/ CommitFails \/ Undo \/ Restored \/ Settle

Requests ==
    \/ \E t \in Plugins : Reload(t)
    \/ \E t \in Plugins : Store(t)
    \/ \E t \in Plugins : Enable(t)
    \/ \E t \in Plugins : Disable(t)
    \/ \E p \in Plugins, clean \in BOOLEAN : RendererFails(p, clean)
    \/ \E p \in Plugins : RendererCancelled(p)
    \/ Terminate

Calling ==
    \/ \E k \in Calls, p \in Plugins : Call(k, p)
    \/ \E k \in Calls, p, q \in Plugins : CallProvider(k, p, q)
    \/ \E k \in Calls, p \in Plugins : Return(k, p)

Next == Step \/ Requests \/ Calling

Spec == Init /\ [][Next]_vars

\* A transition's own steps go on: its waits have a time limit, setup functions
\* and cleanups end.  No call has to end and no change to come.
FairSpec == Spec /\ WF_vars(Step)

-----------------------------------------------------------------------------
(* Properties                                                              *)

Table == [on : BOOLEAN, version : 0..MaxOps]

Operation == [kind : {"none", "load", "reload", "enable", "disable", "terminate"}, stage : Stages,
              target : Plugins, closure : SUBSET Plugins, drained : SUBSET Plugins, new : Table,
              old : Table, current : SUBSET Plugins, failed : BOOLEAN]

\* Every variable has its type; only an instance has a gate, and a scope.
TypeOK ==
    /\ tables \in [Plugins -> Table] /\ saved \in [Plugins -> Table] /\ ops \in 0..MaxOps
    /\ status \in [Plugins -> {"none", "SETUP", "ACTIVE", "FAILED", "BLOCKED", "STOPPED"}]
    /\ unclean \subseteq Plugins /\ instances \subseteq Plugins /\ sealed \subseteq instances
    /\ runs \in [Plugins -> 0..MaxOps]
    /\ links \in [Plugins -> [Plugins -> {"none", "current", "stale", "withdrawn"}]]
    /\ resources \subseteq Plugins
    /\ broken \subseteq instances /\ torn \subseteq Plugins /\ stuck \subseteq sealed
    /\ inside \in [Calls -> SUBSET Plugins] /\ orphaned \in [Calls -> SUBSET Plugins]
    /\ retired \in BOOLEAN /\ op \in Operation
    /\ todo \subseteq Plugins /\ queue \subseteq Plugins

\* What a transition takes down without a drain.
Undrained == IF op.kind = "reload" THEN {} ELSE Toggled(op.target)

\* While a closure is drained, a call that was accepted still reaches every
\* provider: no provider is sealed before its consumers are idle.  Left out are
\* plugins whose cleanup was interrupted, and gates sealed since an interrupted
\* transition.
ProvidersStayOpen ==
    op.stage = "drain" =>
        \A k \in Calls, p \in Plugins \ (Undrained \cup broken) :
            k \in CallsIn(p) => \A q \in Providers(p) \ stuck : links[p][q] = "current" => Admits(q)

\* Between two transitions the live tables are the file's, whatever failed or
\* was interrupted, but for the target of a transition interrupted after the
\* exchange, until a later one commits it; and every active plugin was set up
\* with its live table.
LiveConfig ==
    Idle => /\ \A p \in Plugins \ torn : tables[p] = saved[p]
            /\ \A p \in Active : tables[p].on /\ runs[p] = tables[p].version

\* The plugins that use t, directly or through others, whatever runs.
Below(t) == Dependents(t, Plugins, Uses)

\* What a plugin requires depends on nothing that its other providers depend
\* on, but for that plugin itself.
Apart ==
    \A t, c \in Plugins : \A r \in Needs[c] \ {t} :
        \A q \in Providers(c) \ {r} : ~({r, q} \subseteq Below(t))

\* Between two transitions no active plugin holds an instance that a transition
\* disposed of, and it holds every provider that it requires (where Apart
\* holds).  Left out are what a renderer entry's failure withdrew, whose
\* consumers stay, and plugins torn by an interrupted transition, which another
\* one may start beside its closure.
HoldsCurrent ==
    Idle => \A p \in Active \ torn :
        /\ \A q \in Needs[p] : links[p][q] \in {"current", "withdrawn"}
        /\ \A q \in Providers(p) : links[p][q] # "stale"

\* Between two transitions, given up, rolled back or complete, every instance
\* is active and admits calls; after an interrupted one, but for the gates and
\* the scope that it left.
OpenWhenActive == Idle => sealed = stuck /\ instances \ broken = Active

\* The process resource of a plugin that is only set up again is not closed,
\* unless it does not come back, or its cleanup was interrupted.
ResourcesSurvive ==
    [][\A p \in op.drained :
          p \in resources \ resources' => op.stage = "settle" /\ p \notin instances \ broken]_vars

\* Every transition ends: drains time out, no plugin is retried for ever.
TransitionsEnd == ~Idle ~> Idle
=============
