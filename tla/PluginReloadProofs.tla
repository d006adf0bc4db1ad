------------------------- MODULE PluginReloadProofs -------------------------
(***************************************************************************)
(* Proofs about PluginReload for any plugins, providers, ranks and calls.  *)
(*                                                                         *)
(* The argument: a transition works on one closure, from the highest rank  *)
(* down when it drains and disposes, and up when it sets up.  What is      *)
(* behind is sealed and idle (DrainOrder) or gone (Cleared), so a provider *)
(* is touched only when nobody that counts uses it, and both tables can be *)
(* exchanged when no instance of the closure is left (Config).  A          *)
(* transition that is interrupted leaves at most its target's table torn,  *)
(* one scope closing and its gates sealed, which the parts of the          *)
(* invariant name as torn, broken and stuck.                               *)
(*                                                                         *)
(* That consumers never keep a disposed instance needs more, for a plan    *)
(* also starts what its plugin requires, beside the closure: Apart says    *)
(* that such a plugin uses nothing of the closure (SelectedApart).         *)
(***************************************************************************)
EXTENDS PluginReload, TLAPS

Changes == {"reload", "enable", "disable"}

\* What belongs to a transition, and what is left when there is none.
Shape ==
    /\ op.kind = "none" <=> Idle
    /\ op.kind = "none" => todo = {} /\ queue = {}
    /\ op.kind = "load" => op.stage = "activate" /\ todo = {}
    /\ op.kind = "terminate" => op.stage = "dispose"
    /\ op.kind \notin Changes => op.closure = {} /\ op.drained = {}
    /\ op.kind \in Changes =>
          /\ op.target \in op.closure /\ op.drained \subseteq op.closure
          /\ todo \subseteq op.closure
    /\ op.kind \in Changes \cup {"load"} => ~retired
    /\ ~Activating => queue = {}
    /\ op.stage = "drain" => todo \subseteq op.drained
    /\ op.stage \in {"undo", "settle"} => todo = {}

\* An instance is active, or the one that is being set up, or its cleanup was
\* interrupted.
Setups ==
    /\ \A p \in Plugins : status[p] \in {"SETUP", "ACTIVE"} => p \in instances
    /\ \A p \in instances : status[p] \in {"SETUP", "ACTIVE"} \/ (p \in broken /\ status[p] # "none")
    /\ \A p \in instances : status[p] = "SETUP" =>
          p \notin broken /\ Activating /\ First(p, queue) /\ Missing(p) = {}
    /\ \A p \in queue \cap instances : status[p] = "SETUP"

\* A drain finds an instance of each plugin that it has to seal.
Drainable == op.stage = "drain" => todo \subseteq instances

\* The types, which need the two facts above: what a drain seals has a gate
\* because it runs.
Typed == TypeOK /\ Drainable /\ Setups

\* Which gates are sealed at each stage, beside those of interrupted
\* transitions.
Gates ==
    /\ op.stage \in {"idle", "activate", "restore", "settle"} => sealed \subseteq stuck
    /\ op.stage = "drain" => sealed \subseteq op.drained \cup stuck
    /\ op.stage \in {"dispose", "remove"} => sealed \subseteq todo \cup stuck
    /\ op.stage = "undo" => sealed \subseteq op.closure \cup stuck

\* What is left of the closure while it is disposed of.
Cleared ==
    op.stage \in {"dispose", "remove"} =>
        instances \subseteq todo \cup IF op.kind = "terminate" THEN {} ELSE Plugins \ op.closure

\* The plugins whose live table is not the file's.
Differing == torn \cup IF op.stage \in {"activate", "undo", "remove"} /\ op.kind \in Changes
                       THEN {op.target} ELSE {}

\* Which tables apply, and that every instance runs with its own.
Config ==
    /\ \A p \in instances : tables[p].on /\ runs[p] = tables[p].version
    /\ \A p \in queue : tables[p].on
    /\ \A p \in Plugins \ Differing : tables[p] = saved[p]
    /\ op.stage \in {"activate", "undo", "remove"} /\ op.kind \in Changes => tables[op.target] = op.new
    /\ op.stage \in {"drain", "dispose", "activate", "undo", "remove"} /\ op.kind \in Changes =>
          op.old = saved[op.target] \/ op.target \in torn

\* A link that is current leads from an instance to an active provider.
Linked ==
    \A p, q \in Plugins : links[p][q] = "current" => p \in instances /\ q \in Providers(p) \cap Active

\* A call that is not orphaned is in an instance.
Accepted == \A k \in Calls : inside[k] \ orphaned[k] \subseteq instances

\* A drain is through with the plugins after those it has still to do.
DrainOrder ==
    op.stage = "drain" =>
        /\ op.drained \ todo \subseteq sealed
        /\ \A p \in op.drained \ todo : CallsIn(p) = {} /\ \A q \in todo : Rank[q] < Rank[p]
        /\ \A p \in (sealed \ stuck) \cap todo : Last(p, todo)

\* Every running consumer of a drained plugin is drained, or taken down.
DrainClosed ==
    op.stage = "drain" =>
        \A p \in instances \ (Undrained \cup broken) :
            Providers(p) \cap op.drained # {} => p \in op.drained

IInv ==
    /\ Typed /\ Shape /\ Gates /\ Cleared /\ Config /\ Linked /\ Accepted
    /\ DrainOrder /\ DrainClosed

-----------------------------------------------------------------------------
(* Types                                                                   *)

\* The closures are made of plugins; what depends on an instance and runs is
\* an instance.
LEMMA DependentsIn ==
  ASSUME NEW t \in Plugins, NEW pool \in SUBSET Plugins, NEW uses \in [Plugins -> SUBSET Plugins]
  PROVE  Dependents(t, pool, uses) \subseteq pool \cup {t}
  <1>1. pool \cup {t} \in SUBSET Plugins
    OBVIOUS
  <1> QED
    BY <1>1 DEF Dependents

\* What a plugin uses is a set of plugins.
LEMMA UsesTyped == Uses \in [Plugins -> SUBSET Plugins]
  BY PluginAssumption DEF Uses, Providers

\* The record of no transition is a transition's record.
LEMMA IdleTyped == NoOp \in Operation /\ NoOp.stage = "idle"
  <1>1. NoOp.target \in Plugins
    BY PluginAssumption DEF NoOp
  <1> QED
    BY <1>1, PluginAssumption DEF NoOp, Operation, Table, Stages

\* Loading starts with everything of its type.
LEMMA InitTyped == Init => Typed
  <1> SUFFICES ASSUME Init PROVE Typed
    OBVIOUS
  <1>1. op \in Operation /\ op.stage = "activate"
    BY IdleTyped DEF Init, Operation, Stages
  <1>2. [on : BOOLEAN, version : {0}] \subseteq Table
    BY PluginAssumption DEF Table
  <1>3. tables \in [Plugins -> Table] /\ saved \in [Plugins -> Table]
    <2>1. PICK on \in Starts : tables = [p \in Plugins |-> [on |-> p \in on, version |-> 0]]
      BY DEF Init
    <2>2. \A p \in Plugins : [on |-> p \in on, version |-> 0] \in [on : BOOLEAN, version : {0}]
      OBVIOUS
    <2> QED
      BY <1>2, <2>1, <2>2 DEF Init
  <1>4. 0 \in 0..MaxOps
    BY PluginAssumption
  <1>5. TypeOK
    BY <1>1, <1>3, <1>4 DEF Init, TypeOK, Nothing
  <1> QED
    BY <1>1, <1>5 DEF Init, Typed, Drainable, Setups, Active

\* A transition of one plugin begins, with its closure and what it drains of it.
Opening(kind, t, closure, drained, new) ==
    /\ Idle /\ ~retired /\ ops < MaxOps
    /\ kind \in Changes /\ t \in closure /\ closure \subseteq Plugins
    /\ drained \subseteq closure \cap instances /\ new \in Table
    /\ Begin(kind, t, closure, drained, new)

\* A plugin belongs to its own closures.
LEMMA TargetIn ==
  ASSUME NEW t \in Plugins, NEW pool, NEW uses
  PROVE  t \in Dependents(t, pool, uses) /\ Dependents(t, pool, uses) \subseteq Plugins
  BY DEF Dependents

\* A reload takes and drains what runs of the target and its consumers.
LEMMA ReloadOpens ==
  ASSUME Typed, NEW t \in Plugins, Reload(t)
  PROVE  LET closure == RunningDependents(t)
         IN  Opening("reload", t, closure, closure, [on |-> TRUE, version |-> ops + 1])
  <1>1. t \in instances
    BY DEF Typed, TypeOK, Setups, Reload, View
  <1>2. RunningDependents(t) \subseteq instances \cup {t}
    BY DependentsIn, UsesTyped DEF RunningDependents, Typed, TypeOK
  <1>3. [on |-> TRUE, version |-> ops + 1] \in Table
    BY PluginAssumption DEF Typed, TypeOK, Table, Reload, MayChange
  <1> QED
    BY <1>1, <1>2, <1>3, TargetIn DEF RunningDependents, Reload, MayChange, Opening, Changes

\* A table stays a table when the plugin is switched, or stored anew.
LEMMA TableSwitched ==
  ASSUME NEW table \in Table, NEW on \in BOOLEAN
  PROVE  [table EXCEPT !.on = on] \in Table
  BY DEF Table

\* Store gives a plugin's table its next version.
LEMMA TableStored ==
  ASSUME NEW table \in Table, NEW n \in 0..MaxOps, n < MaxOps
  PROVE  [table EXCEPT !.version = n + 1] \in Table
  BY PluginAssumption DEF Table

\* Whatever is shown as active has an instance.
LEMMA ViewedActive ==
  ASSUME Typed, NEW p \in Plugins, View(p) = "ACTIVE"
  PROVE  p \in instances
  <1>1. status[p] = "ACTIVE"
    BY DEF View
  <1> QED
    BY <1>1 DEF Typed, Setups

\* Enabling takes the active and blocked consumers, and drains those that stay.
LEMMA EnableOpens ==
  ASSUME Typed, NEW t \in Plugins, Enable(t)
  PROVE  LET closure == EnableClosure(t)
         IN  Opening("enable", t, closure, Staying(t, closure), [tables[t] EXCEPT !.on = TRUE])
  <1>1. [tables[t] EXCEPT !.on = TRUE] \in Table
    BY TableSwitched DEF Typed, TypeOK
  <1>2. EnableClosure(t) \subseteq Plugins /\ t \in EnableClosure(t)
    BY TargetIn DEF EnableClosure
  <1>3. Staying(t, EnableClosure(t)) \subseteq EnableClosure(t) \cap instances
    BY <1>2, ViewedActive DEF Staying
  <1> QED
    BY <1>1, <1>2, <1>3 DEF Enable, MayChange, Opening, Changes

\* Disabling takes the running consumers, and drains those that stay.
LEMMA DisableOpens ==
  ASSUME Typed, NEW t \in Plugins, Disable(t)
  PROVE  LET closure == DisableClosure(t)
         IN  Opening("disable", t, closure, Staying(t, closure), [tables[t] EXCEPT !.on = FALSE])
  <1>1. [tables[t] EXCEPT !.on = FALSE] \in Table
    BY TableSwitched DEF Typed, TypeOK
  <1>2. DisableClosure(t) \subseteq Plugins /\ t \in DisableClosure(t)
    BY TargetIn DEF DisableClosure, RunningDependents
  <1>3. Staying(t, DisableClosure(t)) \subseteq DisableClosure(t) \cap instances
    BY <1>2, ViewedActive DEF Staying
  <1> QED
    BY <1>1, <1>2, <1>3 DEF Disable, MayChange, Opening, Changes

\* Each of the three begins one transition.
LEMMA Openings ==
  ASSUME Typed, NEW t \in Plugins, Reload(t) \/ Enable(t) \/ Disable(t)
  PROVE  \E kind, closure, drained, new : Opening(kind, t, closure, drained, new)
  BY ReloadOpens, EnableOpens, DisableOpens

\* A transition that begins has its type, and seals instances only.
LEMMA OpeningTyped ==
  ASSUME TypeOK, NEW kind, NEW t \in Plugins, NEW closure, NEW drained, NEW new,
         Opening(kind, t, closure, drained, new)
  PROVE  TypeOK' /\ Drainable'
  <1>1. op' \in Operation
    BY DEF Opening, Begin, TypeOK, Operation, Stages, Changes
  <1>2. ops' \in 0..MaxOps
    BY PluginAssumption DEF Opening, Begin, TypeOK
  <1> QED
    BY <1>1, <1>2 DEF Opening, Begin, Drainable, TypeOK, kernel, calls

\* The next stage has the record of the transition.
LEMMA EnterTyped ==
  ASSUME op \in Operation, NEW stage \in Stages, NEW plugins, Enter(stage, plugins)
  PROVE  op' \in Operation /\ op'.stage = stage
  <1>1. op' = [op EXCEPT !.stage = stage]
    BY DEF Enter
  <1> QED
    BY <1>1 DEF Operation

\* Losing an instance keeps the types.
LEMMA GoneTyped ==
  ASSUME TypeOK, NEW p \in Plugins, Gone(p)
  PROVE  /\ instances' \subseteq Plugins /\ sealed' \subseteq instances'
         /\ broken' \subseteq instances' /\ stuck' \subseteq sealed'
         /\ runs' \in [Plugins -> 0..MaxOps]
         /\ orphaned' \in [Calls -> SUBSET Plugins] /\ resources' \subseteq Plugins
  <1>1. runs' \in [Plugins -> 0..MaxOps]
    BY PluginAssumption DEF TypeOK, Gone
  <1>2. orphaned' \in [Calls -> SUBSET Plugins]
    BY DEF TypeOK, Gone
  <1> QED
    BY <1>1, <1>2 DEF TypeOK, Gone

\* So does an interrupted cleanup.
LEMMA BreaksTyped ==
  ASSUME TypeOK, NEW p \in instances, Breaks(p)
  PROVE  /\ UNCHANGED <<instances, sealed, orphaned, runs>>
         /\ broken' \subseteq instances' /\ resources' \subseteq Plugins
  BY DEF TypeOK, Breaks

\* So do the links that are cut.
LEMMA CutTyped ==
  ASSUME TypeOK, NEW p \in Plugins, NEW how \in {"stale", "withdrawn"}, Cut(p, how)
  PROVE  links' \in [Plugins -> [Plugins -> {"none", "current", "stale", "withdrawn"}]]
  <1> DEFINE Kinds == {"none", "current", "stale", "withdrawn"}
  <1>1. \A c \in Plugins : links[c] \in [Plugins -> Kinds]
    BY DEF TypeOK
  <1>2. \A c \in Plugins : [links[c] EXCEPT ![p] = IF @ = "current" THEN how ELSE @]
          \in [Plugins -> Kinds]
    BY <1>1
  <1>3. Nothing \in [Plugins -> Kinds]
    BY DEF Nothing
  <1> HIDE DEF Kinds
  <1>4. links' \in [Plugins -> [Plugins -> Kinds]]
    BY <1>2, <1>3 DEF Cut
  <1> QED
    BY <1>4 DEF Kinds

\* An interrupted transition leaves types, and nothing to be set up.
LEMMA EscapeTyped ==
  ASSUME TypeOK, Escape
  PROVE  /\ op' \in Operation /\ op'.stage # "drain" /\ ~Activating'
         /\ todo' \subseteq Plugins /\ queue' = {}
         /\ torn' \subseteq Plugins /\ retired' \in BOOLEAN /\ stuck' = sealed'
         /\ UNCHANGED <<tables, saved, ops>>
  <1>1. CASE Release
    BY <1>1, IdleTyped DEF Escape, Release, TypeOK, Operation, Stages, Activating
  <1>2. CASE End /\ UNCHANGED retired
    BY <1>2, IdleTyped DEF Escape, End, TypeOK, Operation, Activating
  <1>3. CASE Enter("settle", {}) /\ UNCHANGED retired
    BY <1>3 DEF Escape, Enter, TypeOK, Operation, Stages, Activating
  <1> QED
    BY <1>1, <1>2, <1>3 DEF Escape

\* Every step keeps the types, and what a drain has to do has a gate.
LEMMA Typing ==
  ASSUME Typed, [Next]_vars
  PROVE  TypeOK' /\ Drainable'
  <1> USE PluginAssumption, IdleTyped DEF Typed, Drainable, TypeOK
  <1>1. ASSUME NEW k \in Calls, NEW p \in Plugins, Call(k, p) PROVE TypeOK' /\ Drainable'
    BY <1>1 DEF Call, settings, kernel, progress
  <1>2. ASSUME NEW k \in Calls, NEW p \in Plugins, NEW q \in Plugins, CallProvider(k, p, q)
        PROVE  TypeOK' /\ Drainable'
    BY <1>2 DEF CallProvider, Admits, settings, kernel, progress
  <1>3. ASSUME NEW k \in Calls, NEW p \in Plugins, Return(k, p) PROVE TypeOK' /\ Drainable'
    BY <1>3 DEF Return, settings, kernel, progress
  <1>4. ASSUME NEW p \in Plugins, SealNext(p) PROVE TypeOK' /\ Drainable'
    BY <1>4 DEF SealNext, Seal, Last, settings, kernel, progress, calls
  <1>5. ASSUME NEW p \in Plugins, Drained(p) PROVE TypeOK' /\ Drainable'
    <2>1. op' \in Operation /\ todo' \subseteq Plugins /\ queue' \subseteq Plugins
          /\ (op'.stage = "drain" => todo' \subseteq todo /\ op.stage = "drain")
      <3>1. CASE todo' = todo \ {p} /\ UNCHANGED <<op, queue>>
        BY <1>5, <3>1 DEF Drained
      <3>2. CASE Enter("dispose", op.closure)
        <4>1. op' \in Operation /\ op'.stage = "dispose"
          BY ONLY <3>2, EnterTyped, TypeOK DEF TypeOK, Stages
        <4> QED
          BY <3>2, <4>1 DEF Enter, Operation
      <3> QED
        BY <1>5, <3>1, <3>2 DEF Drained
    <2> QED
      BY <1>5, <2>1 DEF Drained, settings, kernel, calls
  <1>6. ASSUME NEW p \in Plugins, DisposeNext(p) PROVE TypeOK' /\ Drainable'
    <2>1. op' \in Operation /\ op'.stage # "drain" /\ todo' \subseteq Plugins /\ queue' \subseteq Plugins
      <3>1. CASE UNCHANGED <<op, queue>> /\ todo' = todo \ {p}
        BY <1>6, <3>1 DEF DisposeNext
      <3>2. CASE End
        BY <3>2 DEF End
      <3>3. CASE Enter("activate", op.closure) \/ Enter("restore", op.closure)
        <4>1. op' \in Operation /\ op'.stage \in {"activate", "restore"}
          BY ONLY <3>3, EnterTyped, TypeOK DEF TypeOK, Stages
        <4> QED
          BY <3>3, <4>1 DEF Enter, Operation
      <3> QED
        BY <1>6, <3>1, <3>2, <3>3 DEF DisposeNext
    <2>2. tables' \in [Plugins -> Table]
      BY <1>6 DEF DisposeNext, Swap, Operation
    <2>3. /\ instances' \subseteq Plugins /\ sealed' \subseteq instances'
          /\ broken' \subseteq instances' /\ stuck' \subseteq sealed'
          /\ status' \in [Plugins -> {"none", "SETUP", "ACTIVE", "FAILED", "BLOCKED", "STOPPED"}]
          /\ links' \in [Plugins -> [Plugins -> {"none", "current", "stale", "withdrawn"}]]
          /\ orphaned' \in [Calls -> SUBSET Plugins]
          /\ unclean' \subseteq Plugins /\ resources' \subseteq Plugins /\ runs' \in [Plugins -> 0..MaxOps]
      <3>1. CASE p \in instances
        <4>1. /\ Gone(p) /\ Cut(p, "stale")
              /\ status' = [status EXCEPT ![p] = "STOPPED"] /\ unclean' = unclean
          BY <1>6, <3>1 DEF DisposeNext, Dispose
        <4>2. links' \in [Plugins -> [Plugins -> {"none", "current", "stale", "withdrawn"}]]
          BY <4>1, CutTyped
        <4> QED
          BY <4>1, <4>2, GoneTyped
      <3>2. CASE p \notin instances
        <4>1. UNCHANGED <<kernel, sealed, orphaned>>
          BY <1>6, <3>2 DEF DisposeNext, Dispose
        <4> QED
          BY <4>1 DEF kernel
      <3> QED
        BY <3>1, <3>2
    <2>4. UNCHANGED <<saved, ops, torn, inside, retired>>
      BY <1>6 DEF DisposeNext
    <2> QED
      BY <2>1, <2>2, <2>3, <2>4
  <1>7. ASSUME NEW p \in Plugins, PlanNext(p) PROVE TypeOK' /\ Drainable'
    BY <1>7 DEF PlanNext, Activating, Planned, Diverged, settings, kernel, calls, Operation
  <1>8. ASSUME NEW p \in Plugins, Block(p) PROVE TypeOK' /\ Drainable'
    BY <1>8 DEF Block, settings, calls
  <1>9. ASSUME NEW p \in Plugins, BeginSetup(p) PROVE TypeOK' /\ Drainable'
    BY <1>9 DEF BeginSetup, Upcoming, Activating, settings, calls, progress, Table
  <1>10. ASSUME NEW p \in Plugins, SetupDone(p) PROVE TypeOK' /\ Drainable'
    BY <1>10 DEF SetupDone, settings, calls
  <1>11. ASSUME NEW p \in Plugins, NEW clean \in BOOLEAN, SetupFails(p, clean) PROVE TypeOK' /\ Drainable'
    <2>1. /\ Gone(p) /\ Cut(p, "stale") /\ status' = [status EXCEPT ![p] = "FAILED"]
          /\ unclean' \subseteq unclean \cup {p} /\ inside' = inside /\ Activating
          /\ queue' \subseteq queue /\ UNCHANGED <<settings, retired, op, todo>>
      BY <1>11 DEF SetupFails, Rejected, Upcoming, Untried
    <2>2. links' \in [Plugins -> [Plugins -> {"none", "current", "stale", "withdrawn"}]]
      BY <2>1, CutTyped
    <2> QED
      BY <2>1, <2>2, GoneTyped DEF settings, Activating
  <1>12. ASSUME Abandon PROVE TypeOK' /\ Drainable'
    BY <1>12 DEF Abandon, Reopen, End, settings, kernel, calls
  <1>13. ASSUME LoadEnds PROVE TypeOK' /\ Drainable'
    BY <1>13 DEF LoadEnds, End, settings, kernel, calls
  <1>14. ASSUME Commit PROVE TypeOK' /\ Drainable'
    BY <1>14 DEF Commit, Enter, kernel, calls, Operation, Stages
  <1>15. ASSUME CommitFails PROVE TypeOK' /\ Drainable'
    BY <1>15 DEF CommitFails, Enter, settings, kernel, calls, Operation, Stages
  <1>16. ASSUME Undo PROVE TypeOK' /\ Drainable'
    BY <1>16 DEF Undo, Enter, settings, kernel, calls, Operation, Stages
  <1>17. ASSUME Restored PROVE TypeOK' /\ Drainable'
    BY <1>17 DEF Restored, Enter, settings, kernel, calls, Operation, Stages
  <1>18. ASSUME Settle PROVE TypeOK' /\ Drainable'
    BY <1>18 DEF Settle, End, settings, calls
  <1>19. ASSUME NEW t \in Plugins, Reload(t) \/ Enable(t) \/ Disable(t) PROVE TypeOK' /\ Drainable'
    BY <1>19, Openings, OpeningTyped
  <1>20. ASSUME NEW t \in Plugins, Store(t) PROVE TypeOK' /\ Drainable'
    <2>1. [tables[t] EXCEPT !.version = ops + 1] \in Table /\ [saved[t] EXCEPT !.version = ops + 1] \in Table
      BY <1>20, TableStored DEF Store, MayChange
    <2>2. tables' \in [Plugins -> Table] /\ saved' \in [Plugins -> Table] /\ ops' \in 0..MaxOps
      BY <1>20, <2>1 DEF Store, MayChange
    <2> QED
      BY <1>20, <2>2 DEF Store, MayChange, Idle, kernel, calls, progress
  <1>21. ASSUME NEW p \in Plugins, NEW clean \in BOOLEAN, RendererFails(p, clean) PROVE TypeOK' /\ Drainable'
    <2>1. /\ Gone(p) /\ Cut(p, "withdrawn") /\ status' = [status EXCEPT ![p] = "FAILED"]
          /\ unclean' \subseteq unclean \cup {p} /\ inside' = inside /\ Idle
          /\ UNCHANGED <<settings, retired, progress>>
      BY <1>21 DEF RendererFails
    <2>2. links' \in [Plugins -> [Plugins -> {"none", "current", "stale", "withdrawn"}]]
      BY <2>1, CutTyped
    <2> QED
      BY <2>1, <2>2, GoneTyped DEF settings, progress, Idle
  <1>22. ASSUME Terminate PROVE TypeOK' /\ Drainable'
    BY <1>22 DEF Terminate, Release, settings, kernel, calls, Operation, Stages
  <1>23. ASSUME NEW p \in Plugins, CleanupCancelled(p)
       PROVE  TypeOK' /\ Drainable'
    <2>1. p \in instances /\ Breaks(p) /\ Cut(p, "stale") /\ Escape /\ UNCHANGED <<status, unclean, inside>>
      BY <1>23 DEF CleanupCancelled
    <2>2. links' \in [Plugins -> [Plugins -> {"none", "current", "stale", "withdrawn"}]]
      BY <2>1, CutTyped
    <2> QED
      BY <2>1, <2>2, BreaksTyped, EscapeTyped
  <1>24. ASSUME NEW p \in Plugins, NEW clean \in BOOLEAN, SetupCancelled(p, clean)
       PROVE  TypeOK' /\ Drainable'
    <2>1. /\ Gone(p) /\ Cut(p, "stale") /\ status' = [status EXCEPT ![p] = "FAILED"]
          /\ unclean' \subseteq unclean \cup {p} /\ inside' = inside /\ Escape
      BY <1>24 DEF SetupCancelled, Rejected
    <2>2. links' \in [Plugins -> [Plugins -> {"none", "current", "stale", "withdrawn"}]]
      BY <2>1, CutTyped
    <2> QED
      BY <2>1, <2>2, GoneTyped, EscapeTyped
  <1>25. ASSUME NEW p \in Plugins, ReleaseCancelled(p)
       PROVE  TypeOK' /\ Drainable'
    <2>1. /\ p \in instances /\ Breaks(p) /\ Cut(p, "stale") /\ Escape /\ UNCHANGED <<unclean, inside>>
          /\ \E before \in {"STOPPED", "FAILED"} : status' = [status EXCEPT ![p] = before]
      BY <1>25 DEF ReleaseCancelled
    <2>2. links' \in [Plugins -> [Plugins -> {"none", "current", "stale", "withdrawn"}]]
      BY <2>1, CutTyped
    <2>3. status' \in [Plugins -> {"none", "SETUP", "ACTIVE", "FAILED", "BLOCKED", "STOPPED"}]
      BY <2>1
    <2> QED
      BY <2>1, <2>2, <2>3, BreaksTyped, EscapeTyped
  <1>26. ASSUME NEW p \in Plugins, RendererCancelled(p)
       PROVE  TypeOK' /\ Drainable'
    <2>1. /\ p \in instances /\ Breaks(p) /\ Cut(p, "withdrawn") /\ Idle
          /\ UNCHANGED <<settings, status, unclean, stuck, inside, retired, progress>>
      BY <1>26 DEF RendererCancelled, Active
    <2>2. links' \in [Plugins -> [Plugins -> {"none", "current", "stale", "withdrawn"}]]
      BY <2>1, CutTyped
    <2> QED
      BY <2>1, <2>2, BreaksTyped DEF settings, progress, Idle
  <1>27. CASE UNCHANGED vars
    BY <1>27 DEF vars, settings, kernel, calls, progress
  <1> QED
    BY ONLY [Next]_vars, <1>1, <1>2, <1>3, <1>4, <1>5, <1>6, <1>7, <1>8, <1>9, <1>10, <1>11,
       <1>12, <1>13, <1>14, <1>15, <1>16, <1>17, <1>18, <1>19, <1>20, <1>21, <1>22,
       <1>23, <1>24, <1>25, <1>26, <1>27
       DEF Next, Step, Requests, Calling

\* The next plugin to be set up is unique.
LEMMA FirstUnique ==
  ASSUME NEW S \in SUBSET Plugins, NEW p, NEW q, First(p, S), First(q, S)
  PROVE  p = q
  <1>1. p \in Plugins /\ q \in Plugins /\ Rank[p] <= Rank[q] /\ Rank[q] <= Rank[p]
    BY DEF First
  <1> QED
    BY <1>1, PluginAssumption

\* At most the next of the queue is being set up.
LEMMA OneSetup ==
  ASSUME Typed, NEW p \in Plugins, First(p, queue), NEW q \in instances, status[q] = "SETUP"
  PROVE  q = p /\ Missing(p) = {}
  <1>1. First(q, queue) /\ Missing(q) = {} /\ queue \in SUBSET Plugins
    BY DEF Typed, TypeOK, Setups
  <1> QED
    BY <1>1, FirstUnique

\* Every step keeps the instances active, but for the one being set up.
LEMMA SettingUp ==
  ASSUME Typed, [Next]_vars
  PROVE  Setups'
  <1> USE PluginAssumption DEF Typed, TypeOK, Setups, Active, Missing, First
  <1>1. ASSUME NEW k \in Calls, NEW p \in Plugins, Call(k, p)
       PROVE  Setups'
    BY <1>1 DEF Call, settings, kernel, progress, Activating
  <1>2. ASSUME NEW k \in Calls, NEW p \in Plugins, NEW q \in Plugins, CallProvider(k, p, q)
       PROVE  Setups'
    BY <1>2 DEF CallProvider, settings, kernel, progress, Activating
  <1>3. ASSUME NEW k \in Calls, NEW p \in Plugins, Return(k, p)
       PROVE  Setups'
    BY <1>3 DEF Return, settings, kernel, progress, Activating
  <1>4. ASSUME NEW p \in Plugins, SealNext(p)
       PROVE  Setups'
    BY <1>4 DEF SealNext, Seal, settings, kernel, progress, calls, Activating
  <1>5. ASSUME NEW p \in Plugins, Drained(p)
       PROVE  Setups'
    BY <1>5 DEF Drained, Enter, settings, kernel, calls, Activating
  <1>6. ASSUME NEW p \in Plugins, DisposeNext(p)
       PROVE  Setups'
    <2>1. instances' = instances \ {p} /\ ~Activating
      BY <1>6 DEF DisposeNext, Dispose, Gone, Cut, kernel, Activating
    <2>2. \A q \in Plugins \ {p} : status'[q] = status[q]
      BY <1>6 DEF DisposeNext, Dispose, kernel
    <2>3. p \in instances => status'[p] = "STOPPED"
      BY <1>6 DEF DisposeNext, Dispose
    <2>4. p \notin instances => status'[p] = status[p]
      BY <1>6 DEF DisposeNext, Dispose, kernel
    <2>5. queue' = queue \/ queue' = {}
      BY <1>6 DEF DisposeNext, End, Enter
    <2>6. broken \ {p} \subseteq broken' /\ (p \notin instances => broken' = broken)
      BY <1>6 DEF DisposeNext, Dispose, Gone, kernel
    <2>7. queue = {} => queue' = {}
      BY <2>5
    <2>8. \A q \in instances : status[q] # "SETUP"
      BY <2>1
    <2> QED
      BY <2>1, <2>2, <2>3, <2>4, <2>5, <2>6, <2>8
  <1>7. ASSUME NEW p \in Plugins, PlanNext(p)
       PROVE  Setups'
    BY <1>7 DEF PlanNext, Activating, Planned, settings, kernel, calls, WantsStart
  <1>8. ASSUME NEW p \in Plugins, Block(p)
       PROVE  Setups'
    BY <1>8, OneSetup DEF Block, Upcoming, Activating, settings, calls
  <1>9. ASSUME NEW p \in Plugins, BeginSetup(p)
       PROVE  Setups'
    BY <1>9, OneSetup DEF BeginSetup, Upcoming, Activating, settings, calls, progress
  <1>10. ASSUME NEW p \in Plugins, SetupDone(p)
       PROVE  Setups'
    BY <1>10, OneSetup DEF SetupDone, Upcoming, Activating, settings, calls
  <1>11. ASSUME NEW p \in Plugins, NEW clean \in BOOLEAN, SetupFails(p, clean)
       PROVE  Setups'
    BY <1>11, OneSetup DEF SetupFails, Rejected, Upcoming, Activating, Gone, Cut, Untried, settings
  <1>12. ASSUME Abandon
       PROVE  Setups'
    BY <1>12 DEF Abandon, Reopen, End, settings, kernel, calls, NoOp, Activating
  <1>13. ASSUME LoadEnds
       PROVE  Setups'
    BY <1>13 DEF LoadEnds, Activated, Activating, End, settings, kernel, calls, NoOp
  <1>14. ASSUME Commit
       PROVE  Setups'
    BY <1>14 DEF Commit, Activated, Activating, Enter, kernel, calls
  <1>15. ASSUME CommitFails
       PROVE  Setups'
    BY <1>15 DEF CommitFails, Activated, Activating, Enter, settings, kernel, calls
  <1>16. ASSUME Undo
       PROVE  Setups'
    BY <1>16 DEF Undo, Enter, settings, kernel, calls, Activating
  <1>17. ASSUME Restored
       PROVE  Setups'
    BY <1>17 DEF Restored, Activated, Activating, Enter, settings, kernel, calls
  <1>18. ASSUME Settle
       PROVE  Setups'
    BY <1>18 DEF Settle, End, settings, calls, NoOp, Activating
  <1>19. ASSUME NEW t \in Plugins, NEW kind, NEW closure, NEW drained, NEW new,
              Opening(kind, t, closure, drained, new)
       PROVE  Setups'
    BY <1>19 DEF Opening, Begin, kernel, calls, Idle, Activating
  <1>20. ASSUME NEW t \in Plugins, Store(t)
       PROVE  Setups'
    BY <1>20 DEF Store, MayChange, kernel, calls, progress, Activating
  <1>21. ASSUME NEW p \in Plugins, NEW clean \in BOOLEAN, RendererFails(p, clean)
       PROVE  Setups'
    BY <1>21 DEF RendererFails, Gone, Cut, settings, progress, Idle, Activating
  <1>22. ASSUME Terminate
       PROVE  Setups'
    BY <1>22 DEF Terminate, Release, settings, kernel, calls, Idle, Activating
  <1>23. ASSUME NEW p \in Plugins, CleanupCancelled(p)
       PROVE  Setups'
    <2>1. /\ UNCHANGED <<status, instances>> /\ broken \subseteq broken' /\ Escape
          /\ op.stage \in {"dispose", "remove"}
      BY <1>23 DEF CleanupCancelled, Breaks
    <2>2. \A q \in instances : status[q] # "SETUP"
      BY <2>1 DEF Activating
    <2> QED
      BY <2>1, <2>2, EscapeTyped
  <1>24. ASSUME NEW p \in Plugins, NEW clean \in BOOLEAN, SetupCancelled(p, clean)
       PROVE  Setups'
    <2>1. /\ First(p, queue) /\ Escape /\ instances' = instances \ {p} /\ broken' = broken \ {p}
          /\ status' = [status EXCEPT ![p] = "FAILED"]
      BY <1>24 DEF SetupCancelled, Rejected, Upcoming, Gone
    <2>2. \A q \in instances' : status'[q] # "SETUP" /\ status'[q] = status[q]
      BY <2>1, OneSetup
    <2> QED
      BY <2>1, <2>2, EscapeTyped
  <1>25. ASSUME NEW p \in Plugins, ReleaseCancelled(p)
       PROVE  Setups'
    <2>1. /\ First(p, queue) /\ Escape /\ instances' = instances /\ broken' = broken \cup {p}
          /\ \E before \in {"STOPPED", "FAILED"} : status' = [status EXCEPT ![p] = before]
      BY <1>25 DEF ReleaseCancelled, Upcoming, Breaks
    <2>2. \A q \in instances : status'[q] # "SETUP" /\ (q # p => status'[q] = status[q])
      BY <2>1, OneSetup
    <2> QED
      BY <2>1, <2>2, EscapeTyped
  <1>26. ASSUME NEW p \in Plugins, RendererCancelled(p)
       PROVE  Setups'
    <2>1. /\ UNCHANGED <<status, instances, progress>> /\ broken \subseteq broken' /\ Idle
      BY <1>26 DEF RendererCancelled, Breaks
    <2>2. \A q \in instances : status[q] # "SETUP"
      BY <2>1 DEF Activating, Idle
    <2> QED
      BY <2>1, <2>2 DEF progress
  <1>27. CASE UNCHANGED vars
    BY <1>27 DEF vars, settings, kernel, calls, progress, Activating
  <1> QED
    BY ONLY Typed, [Next]_vars, Openings, <1>1, <1>2, <1>3, <1>4, <1>5, <1>6, <1>7, <1>8,
       <1>9, <1>10, <1>11, <1>12, <1>13, <1>14, <1>15, <1>16, <1>17, <1>18, <1>19, <1>20,
       <1>21, <1>22,
       <1>23, <1>24, <1>25, <1>26, <1>27
       DEF Next, Step, Requests, Calling

\* The types are inductive.
LEMMA TypedStep == Typed /\ [Next]_vars => Typed'
  BY Typing, SettingUp DEF Typed

\* The types hold in every reachable state.
THEOREM Types == Spec => []Typed
  BY InitTyped, TypedStep, PTL DEF Spec

-----------------------------------------------------------------------------
(* The parts of the invariant                                              *)

\* What the record of no transition says.
LEMMA Resting == NoOp.kind = "none" /\ NoOp.stage = "idle" /\ NoOp.closure = {} /\ NoOp.drained = {}
  BY DEF NoOp

\* An interrupted transition leaves the shape of one.
LEMMA EscapeShape ==
  ASSUME TypeOK, Shape, Escape, ~Idle
  PROVE  Shape'
  <1> USE Resting DEF Shape, Idle, Changes, Activating
  <1>1. CASE op.kind = "load" /\ Release
    <2>1. op'.kind = "terminate" /\ op'.stage = "dispose" /\ op'.closure = {} /\ op'.drained = {}
      BY <1>1 DEF Release, NoOp
    <2> QED
      BY <1>1, <2>1 DEF Release
  <1>2. CASE End
    BY <1>2 DEF End
  <1>3. CASE op.kind \notin {"load", "terminate"} /\ Enter("settle", {}) /\ UNCHANGED retired
    <2>1. op'.stage = "settle" /\ op'.kind = op.kind /\ op'.closure = op.closure
          /\ op'.drained = op.drained /\ op'.target = op.target
      BY <1>3 DEF Enter, TypeOK, Operation
    <2>2. op.kind # "none"
      OBVIOUS
    <2> QED
      BY <1>3, <2>1, <2>2 DEF Enter
  <1> QED
    BY <1>1, <1>2, <1>3 DEF Escape

\* Every step keeps the shape of the transition.
LEMMA Shaping ==
  ASSUME Typed, Shape, [Next]_vars
  PROVE  Shape'
  <1> USE Resting DEF Typed, TypeOK, Operation, Stages, Shape, Idle, Changes, Activating
  <1>1. ASSUME NEW k \in Calls, NEW p \in Plugins, Call(k, p)
       PROVE  Shape'
    BY <1>1 DEF Call, settings, kernel, progress
  <1>2. ASSUME NEW k \in Calls, NEW p \in Plugins, NEW q \in Plugins, CallProvider(k, p, q)
       PROVE  Shape'
    BY <1>2 DEF CallProvider, settings, kernel, progress
  <1>3. ASSUME NEW k \in Calls, NEW p \in Plugins, Return(k, p)
       PROVE  Shape'
    BY <1>3 DEF Return, settings, kernel, progress
  <1>4. ASSUME NEW p \in Plugins, SealNext(p)
       PROVE  Shape'
    BY <1>4 DEF SealNext, Seal, settings, kernel, progress, calls
  <1>5. ASSUME NEW p \in Plugins, Drained(p)
       PROVE  Shape'
    BY <1>5 DEF Drained, Enter, settings, kernel, calls, Last
  <1>6. ASSUME NEW p \in Plugins, DisposeNext(p)
       PROVE  Shape'
    BY <1>6 DEF DisposeNext, Dispose, Gone, Cut, Enter, End, Swap, kernel, Last
  <1>7. ASSUME NEW p \in Plugins, PlanNext(p)
       PROVE  Shape'
    BY <1>7 DEF PlanNext, Activating, Planned, settings, kernel, calls, First
  <1>8. ASSUME NEW p \in Plugins, Block(p)
       PROVE  Shape'
    BY <1>8 DEF Block, Upcoming, Activating, settings, calls
  <1>9. ASSUME NEW p \in Plugins, BeginSetup(p)
       PROVE  Shape'
    BY <1>9 DEF BeginSetup, Upcoming, Activating, settings, calls, progress
  <1>10. ASSUME NEW p \in Plugins, SetupDone(p)
       PROVE  Shape'
    BY <1>10 DEF SetupDone, Upcoming, Activating, settings, calls
  <1>11. ASSUME NEW p \in Plugins, NEW clean \in BOOLEAN, SetupFails(p, clean)
       PROVE  Shape'
    BY <1>11 DEF SetupFails, Rejected, Upcoming, Activating, Gone, Cut, Untried, settings
  <1>12. ASSUME Abandon
       PROVE  Shape'
    BY <1>12 DEF Abandon, Reopen, End, settings, kernel, calls
  <1>13. ASSUME LoadEnds
       PROVE  Shape'
    BY <1>13 DEF LoadEnds, Activated, Activating, End, settings, kernel, calls
  <1>14. ASSUME Commit
       PROVE  Shape'
    BY <1>14 DEF Commit, Activated, Activating, Enter, kernel, calls
  <1>15. ASSUME CommitFails
       PROVE  Shape'
    BY <1>15 DEF CommitFails, Activated, Activating, Enter, settings, kernel, calls
  <1>16. ASSUME Undo
       PROVE  Shape'
    BY <1>16 DEF Undo, Enter, settings, kernel, calls
  <1>17. ASSUME Restored
       PROVE  Shape'
    BY <1>17 DEF Restored, Activated, Activating, Enter, settings, kernel, calls
  <1>18. ASSUME Settle
       PROVE  Shape'
    BY <1>18 DEF Settle, End, settings, calls
  <1>19. ASSUME NEW t \in Plugins, NEW kind, NEW closure, NEW drained, NEW new,
              Opening(kind, t, closure, drained, new)
       PROVE  Shape'
    BY <1>19 DEF Opening, Begin, kernel, calls
  <1>20. ASSUME NEW t \in Plugins, Store(t)
       PROVE  Shape'
    BY <1>20 DEF Store, MayChange, kernel, calls, progress
  <1>21. ASSUME NEW p \in Plugins, NEW clean \in BOOLEAN, RendererFails(p, clean)
       PROVE  Shape'
    BY <1>21 DEF RendererFails, Gone, Cut, settings, progress
  <1>22. ASSUME Terminate
       PROVE  Shape'
    BY <1>22 DEF Terminate, Release, settings, kernel, calls, NoOp
  <1>23. ASSUME NEW p \in Plugins, CleanupCancelled(p)
       PROVE  Shape'
    BY <1>23, EscapeShape DEF CleanupCancelled
  <1>24. ASSUME NEW p \in Plugins, NEW clean \in BOOLEAN, SetupCancelled(p, clean)
       PROVE  Shape'
    BY <1>24, EscapeShape DEF SetupCancelled, Rejected, Upcoming
  <1>25. ASSUME NEW p \in Plugins, ReleaseCancelled(p)
       PROVE  Shape'
    BY <1>25, EscapeShape DEF ReleaseCancelled, Upcoming
  <1>26. ASSUME NEW p \in Plugins, RendererCancelled(p)
       PROVE  Shape'
    BY <1>26 DEF RendererCancelled, Breaks, Cut, settings, progress
  <1>27. CASE UNCHANGED vars
    BY <1>27 DEF vars, settings, kernel, calls, progress
  <1> QED
    BY ONLY ZenonT(60), Typed, [Next]_vars, Openings, <1>1, <1>2, <1>3, <1>4, <1>5, <1>6, <1>7, <1>8,
       <1>9, <1>10, <1>11, <1>12, <1>13, <1>14, <1>15, <1>16, <1>17, <1>18, <1>19, <1>20,
       <1>21, <1>22,
       <1>23, <1>24, <1>25, <1>26, <1>27
       DEF Next, Step, Requests, Calling

\* Every step keeps gates sealed at their stages only.
LEMMA Gating ==
  ASSUME Typed, Shape, Gates, [Next]_vars
  PROVE  Gates'
  <1> USE Resting DEF Typed, TypeOK, Operation, Stages, Shape, Gates, Idle, Changes, Activating
  <1>1. ASSUME NEW k \in Calls, NEW p \in Plugins, Call(k, p)
       PROVE  Gates'
    BY <1>1 DEF Call, settings, kernel, progress
  <1>2. ASSUME NEW k \in Calls, NEW p \in Plugins, NEW q \in Plugins, CallProvider(k, p, q)
       PROVE  Gates'
    BY <1>2 DEF CallProvider, settings, kernel, progress
  <1>3. ASSUME NEW k \in Calls, NEW p \in Plugins, Return(k, p)
       PROVE  Gates'
    BY <1>3 DEF Return, settings, kernel, progress
  <1>4. ASSUME NEW p \in Plugins, SealNext(p)
       PROVE  Gates'
    BY <1>4 DEF SealNext, Seal, settings, kernel, progress, calls, Last
  <1>5. ASSUME NEW p \in Plugins, Drained(p)
       PROVE  Gates'
    BY <1>5 DEF Drained, Enter, settings, kernel, calls, Last
  <1>6. ASSUME NEW p \in Plugins, DisposeNext(p)
       PROVE  Gates'
    BY <1>6 DEF DisposeNext, Dispose, Gone, Cut, Enter, End, Swap, kernel, Last
  <1>7. ASSUME NEW p \in Plugins, PlanNext(p)
       PROVE  Gates'
    BY <1>7 DEF PlanNext, Activating, Planned, settings, kernel, calls
  <1>8. ASSUME NEW p \in Plugins, Block(p)
       PROVE  Gates'
    BY <1>8 DEF Block, Upcoming, Activating, settings, calls
  <1>9. ASSUME NEW p \in Plugins, BeginSetup(p)
       PROVE  Gates'
    BY <1>9 DEF BeginSetup, Upcoming, Activating, settings, calls, progress
  <1>10. ASSUME NEW p \in Plugins, SetupDone(p)
       PROVE  Gates'
    BY <1>10 DEF SetupDone, Upcoming, Activating, settings, calls
  <1>11. ASSUME NEW p \in Plugins, NEW clean \in BOOLEAN, SetupFails(p, clean)
       PROVE  Gates'
    BY <1>11 DEF SetupFails, Rejected, Upcoming, Activating, Gone, Cut, Untried, settings
  <1>12. ASSUME Abandon
       PROVE  Gates'
    BY <1>12 DEF Abandon, Reopen, End, settings, kernel, calls
  <1>13. ASSUME LoadEnds
       PROVE  Gates'
    BY <1>13 DEF LoadEnds, Activated, Activating, End, settings, kernel, calls
  <1>14. ASSUME Commit
       PROVE  Gates'
    BY <1>14 DEF Commit, Activated, Activating, Enter, kernel, calls
  <1>15. ASSUME CommitFails
       PROVE  Gates'
    BY <1>15 DEF CommitFails, Activated, Activating, Enter, settings, kernel, calls
  <1>16. ASSUME Undo
       PROVE  Gates'
    BY <1>16 DEF Undo, Enter, settings, kernel, calls
  <1>17. ASSUME Restored
       PROVE  Gates'
    BY <1>17 DEF Restored, Activated, Activating, Enter, settings, kernel, calls
  <1>18. ASSUME Settle
       PROVE  Gates'
    BY <1>18 DEF Settle, End, settings, calls
  <1>19. ASSUME NEW t \in Plugins, NEW kind, NEW closure, NEW drained, NEW new,
              Opening(kind, t, closure, drained, new)
       PROVE  Gates'
    BY <1>19 DEF Opening, Begin, kernel, calls
  <1>20. ASSUME NEW t \in Plugins, Store(t)
       PROVE  Gates'
    BY <1>20 DEF Store, MayChange, kernel, calls, progress
  <1>21. ASSUME NEW p \in Plugins, NEW clean \in BOOLEAN, RendererFails(p, clean)
       PROVE  Gates'
    BY <1>21 DEF RendererFails, Gone, Cut, settings, progress
  <1>22. ASSUME Terminate
       PROVE  Gates'
    BY <1>22 DEF Terminate, Release, settings, kernel, calls, NoOp
  <1>23. ASSUME NEW p \in Plugins, CleanupCancelled(p)
       PROVE  Gates'
    BY <1>23 DEF CleanupCancelled, Breaks, Cut, Escape, Release, Enter, End, NoOp
  <1>24. ASSUME NEW p \in Plugins, NEW clean \in BOOLEAN, SetupCancelled(p, clean)
       PROVE  Gates'
    BY <1>24 DEF SetupCancelled, Rejected, Upcoming, Activating, Gone, Cut, Escape, Release, Enter, End, NoOp
  <1>25. ASSUME NEW p \in Plugins, ReleaseCancelled(p)
       PROVE  Gates'
    BY <1>25 DEF ReleaseCancelled, Upcoming, Activating, Breaks, Cut, Escape, Release, Enter, End, NoOp
  <1>26. ASSUME NEW p \in Plugins, RendererCancelled(p)
       PROVE  Gates'
    BY <1>26 DEF RendererCancelled, Breaks, Cut, settings, progress
  <1>27. CASE UNCHANGED vars
    BY <1>27 DEF vars, settings, kernel, calls, progress
  <1> QED
    BY ONLY Typed, [Next]_vars, Openings, <1>1, <1>2, <1>3, <1>4, <1>5, <1>6, <1>7, <1>8,
       <1>9, <1>10, <1>11, <1>12, <1>13, <1>14, <1>15, <1>16, <1>17, <1>18, <1>19, <1>20,
       <1>21, <1>22,
       <1>23, <1>24, <1>25, <1>26, <1>27
       DEF Next, Step, Requests, Calling

\* Disposing goes through the whole closure.
LEMMA Clearing ==
  ASSUME Typed, Shape, Cleared, [Next]_vars
  PROVE  Cleared'
  <1> USE Resting DEF Typed, TypeOK, Operation, Stages, Shape, Cleared, Idle, Changes, Activating
  <1>1. ASSUME NEW k \in Calls, NEW p \in Plugins, Call(k, p)
       PROVE  Cleared'
    BY <1>1 DEF Call, settings, kernel, progress
  <1>2. ASSUME NEW k \in Calls, NEW p \in Plugins, NEW q \in Plugins, CallProvider(k, p, q)
       PROVE  Cleared'
    BY <1>2 DEF CallProvider, settings, kernel, progress
  <1>3. ASSUME NEW k \in Calls, NEW p \in Plugins, Return(k, p)
       PROVE  Cleared'
    BY <1>3 DEF Return, settings, kernel, progress
  <1>4. ASSUME NEW p \in Plugins, SealNext(p)
       PROVE  Cleared'
    BY <1>4 DEF SealNext, Seal, settings, kernel, progress, calls, Last
  <1>5. ASSUME NEW p \in Plugins, Drained(p)
       PROVE  Cleared'
    BY <1>5 DEF Drained, Enter, settings, kernel, calls, Last
  <1>6. ASSUME NEW p \in Plugins, DisposeNext(p)
       PROVE  Cleared'
    BY <1>6 DEF DisposeNext, Dispose, Gone, Cut, Enter, End, Swap, kernel, Last
  <1>7. ASSUME NEW p \in Plugins, PlanNext(p)
       PROVE  Cleared'
    BY <1>7 DEF PlanNext, Activating, Planned, settings, kernel, calls
  <1>8. ASSUME NEW p \in Plugins, Block(p)
       PROVE  Cleared'
    BY <1>8 DEF Block, Upcoming, Activating, settings, calls
  <1>9. ASSUME NEW p \in Plugins, BeginSetup(p)
       PROVE  Cleared'
    BY <1>9 DEF BeginSetup, Upcoming, Activating, settings, calls, progress
  <1>10. ASSUME NEW p \in Plugins, SetupDone(p)
       PROVE  Cleared'
    BY <1>10 DEF SetupDone, Upcoming, Activating, settings, calls
  <1>11. ASSUME NEW p \in Plugins, NEW clean \in BOOLEAN, SetupFails(p, clean)
       PROVE  Cleared'
    BY <1>11 DEF SetupFails, Rejected, Upcoming, Activating, Gone, Cut, Untried, settings
  <1>12. ASSUME Abandon
       PROVE  Cleared'
    BY <1>12 DEF Abandon, Reopen, End, settings, kernel, calls
  <1>13. ASSUME LoadEnds
       PROVE  Cleared'
    BY <1>13 DEF LoadEnds, Activated, Activating, End, settings, kernel, calls
  <1>14. ASSUME Commit
       PROVE  Cleared'
    BY <1>14 DEF Commit, Activated, Activating, Enter, kernel, calls
  <1>15. ASSUME CommitFails
       PROVE  Cleared'
    BY <1>15 DEF CommitFails, Activated, Activating, Enter, settings, kernel, calls
  <1>16. ASSUME Undo
       PROVE  Cleared'
    BY <1>16 DEF Undo, Enter, settings, kernel, calls
  <1>17. ASSUME Restored
       PROVE  Cleared'
    BY <1>17 DEF Restored, Activated, Activating, Enter, settings, kernel, calls
  <1>18. ASSUME Settle
       PROVE  Cleared'
    BY <1>18 DEF Settle, End, settings, calls
  <1>19. ASSUME NEW t \in Plugins, NEW kind, NEW closure, NEW drained, NEW new,
              Opening(kind, t, closure, drained, new)
       PROVE  Cleared'
    BY <1>19 DEF Opening, Begin, kernel, calls
  <1>20. ASSUME NEW t \in Plugins, Store(t)
       PROVE  Cleared'
    BY <1>20 DEF Store, MayChange, kernel, calls, progress
  <1>21. ASSUME NEW p \in Plugins, NEW clean \in BOOLEAN, RendererFails(p, clean)
       PROVE  Cleared'
    BY <1>21 DEF RendererFails, Gone, Cut, settings, progress
  <1>22. ASSUME Terminate
       PROVE  Cleared'
    BY <1>22 DEF Terminate, Release, settings, kernel, calls, NoOp
  <1>23. ASSUME NEW p \in Plugins, CleanupCancelled(p)
       PROVE  Cleared'
    BY <1>23 DEF CleanupCancelled, Breaks, Cut, Escape, Release, Enter, End, NoOp
  <1>24. ASSUME NEW p \in Plugins, NEW clean \in BOOLEAN, SetupCancelled(p, clean)
       PROVE  Cleared'
    BY <1>24 DEF SetupCancelled, Rejected, Upcoming, Activating, Gone, Cut, Escape, Release, Enter, End, NoOp
  <1>25. ASSUME NEW p \in Plugins, ReleaseCancelled(p)
       PROVE  Cleared'
    BY <1>25 DEF ReleaseCancelled, Upcoming, Activating, Breaks, Cut, Escape, Release, Enter, End, NoOp
  <1>26. ASSUME NEW p \in Plugins, RendererCancelled(p)
       PROVE  Cleared'
    BY <1>26 DEF RendererCancelled, Breaks, Cut, settings, progress
  <1>27. CASE UNCHANGED vars
    BY <1>27 DEF vars, settings, kernel, calls, progress
  <1> QED
    BY ONLY Typed, [Next]_vars, Openings, <1>1, <1>2, <1>3, <1>4, <1>5, <1>6, <1>7, <1>8,
       <1>9, <1>10, <1>11, <1>12, <1>13, <1>14, <1>15, <1>16, <1>17, <1>18, <1>19, <1>20,
       <1>21, <1>22,
       <1>23, <1>24, <1>25, <1>26, <1>27
       DEF Next, Step, Requests, Calling

\* What an interrupted transition leaves: the tables as they are, and nothing
\* to be set up.
LEMMA Escaping ==
  ASSUME Typed, Shape, Escape, op.stage # "undo"
  PROVE  /\ UNCHANGED <<tables, saved>> /\ queue' = {}
         /\ Differing \subseteq Differing'
         /\ op'.stage \in {"settle", "idle"} \/ (op'.stage = "dispose" /\ op'.kind = "terminate")
  BY Resting DEF Typed, TypeOK, Operation, Escape, Enter, End, Release, NoOp, Shape, Changes, Differing

\* Every step keeps the tables with the file and the instances with the tables.
LEMMA Configuring ==
  ASSUME Typed, Shape, Setups, Cleared, Config, [Next]_vars
  PROVE  Config'
  <1> USE Resting DEF Typed, TypeOK, Setups, Operation, Stages, Shape, Cleared, Config,
     Differing, Idle, Changes, Activating
  <1>1. ASSUME NEW k \in Calls, NEW p \in Plugins, Call(k, p)
       PROVE  Config'
    BY <1>1 DEF Call, settings, kernel, progress
  <1>2. ASSUME NEW k \in Calls, NEW p \in Plugins, NEW q \in Plugins, CallProvider(k, p, q)
       PROVE  Config'
    BY <1>2 DEF CallProvider, settings, kernel, progress
  <1>3. ASSUME NEW k \in Calls, NEW p \in Plugins, Return(k, p)
       PROVE  Config'
    BY <1>3 DEF Return, settings, kernel, progress
  <1>4. ASSUME NEW p \in Plugins, SealNext(p)
       PROVE  Config'
    BY <1>4 DEF SealNext, Seal, settings, kernel, progress, calls
  <1>5. ASSUME NEW p \in Plugins, Drained(p)
       PROVE  Config'
    BY <1>5 DEF Drained, Enter, settings, kernel, calls
  <1>6. ASSUME NEW p \in Plugins, DisposeNext(p)
       PROVE  Config'
    <2>1. /\ instances' = instances \ {p} /\ UNCHANGED <<saved, torn>>
          /\ \A q \in instances' : runs'[q] = runs[q]
      BY <1>6 DEF DisposeNext, Dispose, Gone, kernel
    <2>2. CASE todo # {p} /\ todo' = todo \ {p} /\ UNCHANGED <<op, queue, tables>>
      BY <2>1, <2>2
    <2>3. CASE todo = {p} /\ op.kind = "terminate" /\ End /\ UNCHANGED tables
      BY <1>6, <2>1, <2>3 DEF End, DisposeNext
    <2>4. CASE /\ todo = {p} /\ op.kind # "terminate" /\ op.stage = "dispose"
               /\ Enter("activate", op.closure) /\ Swap(op.new)
      <3>1. op.kind \in Changes /\ op.target \notin instances' /\ op' = [op EXCEPT !.stage = "activate"]
        BY <1>6, <2>1, <2>4 DEF DisposeNext, Enter, Last
      <3>2. tables' = [tables EXCEPT ![op.target] = op.new] /\ queue' = {}
            /\ Differing = torn /\ Differing' = torn \cup {op.target}
        BY <2>1, <2>4, <3>1 DEF Enter, Swap
      <3>3. \A q \in instances' : tables'[q].on /\ runs'[q] = tables'[q].version
        BY <2>1, <3>1, <3>2
      <3>4. \A q \in Plugins \ Differing' : tables'[q] = saved'[q]
        BY <2>1, <3>2
      <3> QED
        BY <2>1, <2>4, <3>1, <3>2, <3>3, <3>4
    <2>5. CASE todo = {p} /\ op.stage = "remove" /\ Enter("restore", op.closure) /\ Swap(op.old)
      <3>1. op.kind \in Changes /\ op.target \notin instances' /\ op' = [op EXCEPT !.stage = "restore"]
        BY <1>6, <2>1, <2>5 DEF DisposeNext, Enter, Last
      <3>2. tables' = [tables EXCEPT ![op.target] = op.old] /\ queue' = {}
            /\ Differing = torn \cup {op.target} /\ Differing' = torn
        BY <2>1, <2>5, <3>1 DEF Enter, Swap
      <3>3. \A q \in instances' : tables'[q].on /\ runs'[q] = tables'[q].version
        BY <2>1, <3>1, <3>2
      <3>4. \A q \in Plugins \ Differing' : tables'[q] = saved'[q]
        BY <2>1, <2>5, <3>1, <3>2
      <3> QED
        BY <2>1, <2>5, <3>1, <3>2, <3>3, <3>4
    <2> QED
      BY <1>6, <2>2, <2>3, <2>4, <2>5 DEF DisposeNext
  <1>7. ASSUME NEW p \in Plugins, PlanNext(p)
       PROVE  Config'
    BY <1>7 DEF PlanNext, Activating, Planned, settings, kernel, calls, WantsStart, Runnable, First
  <1>8. ASSUME NEW p \in Plugins, Block(p)
       PROVE  Config'
    BY <1>8 DEF Block, Upcoming, Activating, settings, calls
  <1>9. ASSUME NEW p \in Plugins, BeginSetup(p)
       PROVE  Config'
    BY <1>9 DEF BeginSetup, Upcoming, Activating, settings, calls, progress, First
  <1>10. ASSUME NEW p \in Plugins, SetupDone(p)
       PROVE  Config'
    BY <1>10 DEF SetupDone, Upcoming, Activating, settings, calls, First
  <1>11. ASSUME NEW p \in Plugins, NEW clean \in BOOLEAN, SetupFails(p, clean)
       PROVE  Config'
    BY <1>11 DEF SetupFails, Rejected, Upcoming, Activating, Gone, Cut, Untried, settings
  <1>12. ASSUME Abandon
       PROVE  Config'
    BY <1>12 DEF Abandon, Reopen, End, settings, kernel, calls
  <1>13. ASSUME LoadEnds
       PROVE  Config'
    BY <1>13 DEF LoadEnds, Activated, Activating, End, settings, kernel, calls
  <1>14. ASSUME Commit
       PROVE  Config'
    BY <1>14 DEF Commit, Activated, Activating, Enter, kernel, calls
  <1>15. ASSUME CommitFails
       PROVE  Config'
    BY <1>15 DEF CommitFails, Activated, Activating, Enter, settings, kernel, calls
  <1>16. ASSUME Undo
       PROVE  Config'
    BY <1>16 DEF Undo, Enter, settings, kernel, calls
  <1>17. ASSUME Restored
       PROVE  Config'
    BY <1>17 DEF Restored, Activated, Activating, Enter, settings, kernel, calls
  <1>18. ASSUME Settle
       PROVE  Config'
    BY <1>18 DEF Settle, End, settings, calls
  <1>19. ASSUME NEW t \in Plugins, NEW kind, NEW closure, NEW drained, NEW new,
              Opening(kind, t, closure, drained, new)
       PROVE  Config'
    BY <1>19 DEF Opening, Begin, kernel, calls
  <1>20. ASSUME NEW t \in Plugins, Store(t)
       PROVE  Config'
    BY <1>20 DEF Store, MayChange, kernel, calls, progress, View
  <1>21. ASSUME NEW p \in Plugins, NEW clean \in BOOLEAN, RendererFails(p, clean)
       PROVE  Config'
    BY <1>21 DEF RendererFails, Gone, Cut, settings, progress
  <1>22. ASSUME Terminate
       PROVE  Config'
    BY <1>22 DEF Terminate, Release, settings, kernel, calls, NoOp
  <1>23. ASSUME NEW p \in Plugins, CleanupCancelled(p)
       PROVE  Config'
    <2>1. op.stage # "undo" /\ Escape
      BY <1>23 DEF CleanupCancelled, Breaks
    <2>2. instances' \subseteq instances /\ \A q \in instances' : runs'[q] = runs[q]
      BY <1>23 DEF CleanupCancelled, Breaks
    <2>3. /\ UNCHANGED <<tables, saved>> /\ queue' = {} /\ Differing \subseteq Differing'
          /\ op'.stage \in {"settle", "idle"} \/ (op'.stage = "dispose" /\ op'.kind = "terminate")
      BY <2>1, Escaping
    <2> QED
      BY ONLY Config, <2>2, <2>3 DEF Config, Changes
  <1>24. ASSUME NEW p \in Plugins, NEW clean \in BOOLEAN, SetupCancelled(p, clean)
       PROVE  Config'
    <2>1. op.stage # "undo" /\ Escape
      BY <1>24 DEF SetupCancelled, Rejected, Upcoming, Activating, Gone
    <2>2. instances' \subseteq instances /\ \A q \in instances' : runs'[q] = runs[q]
      BY <1>24 DEF SetupCancelled, Rejected, Upcoming, Activating, Gone
    <2>3. /\ UNCHANGED <<tables, saved>> /\ queue' = {} /\ Differing \subseteq Differing'
          /\ op'.stage \in {"settle", "idle"} \/ (op'.stage = "dispose" /\ op'.kind = "terminate")
      BY <2>1, Escaping
    <2> QED
      BY ONLY Config, <2>2, <2>3 DEF Config, Changes
  <1>25. ASSUME NEW p \in Plugins, ReleaseCancelled(p)
       PROVE  Config'
    <2>1. op.stage # "undo" /\ Escape
      BY <1>25 DEF ReleaseCancelled, Upcoming, Activating, Breaks
    <2>2. instances' \subseteq instances /\ \A q \in instances' : runs'[q] = runs[q]
      BY <1>25 DEF ReleaseCancelled, Upcoming, Activating, Breaks
    <2>3. /\ UNCHANGED <<tables, saved>> /\ queue' = {} /\ Differing \subseteq Differing'
          /\ op'.stage \in {"settle", "idle"} \/ (op'.stage = "dispose" /\ op'.kind = "terminate")
      BY <2>1, Escaping
    <2> QED
      BY ONLY Config, <2>2, <2>3 DEF Config, Changes
  <1>26. ASSUME NEW p \in Plugins, RendererCancelled(p)
       PROVE  Config'
    BY <1>26 DEF RendererCancelled, Breaks, Cut, settings, progress
  <1>27. CASE UNCHANGED vars
    BY <1>27 DEF vars, settings, kernel, calls, progress
  <1> QED
    BY ONLY Typed, [Next]_vars, Openings, <1>1, <1>2, <1>3, <1>4, <1>5, <1>6, <1>7, <1>8,
       <1>9, <1>10, <1>11, <1>12, <1>13, <1>14, <1>15, <1>16, <1>17, <1>18, <1>19, <1>20,
       <1>21, <1>22,
       <1>23, <1>24, <1>25, <1>26, <1>27
       DEF Next, Step, Requests, Calling

\* Cutting the links to what goes leaves the others on active providers.
LEMMA CutLinks ==
  ASSUME Typed, Linked, NEW p \in Plugins, NEW how \in {"stale", "withdrawn"}, Cut(p, how),
         instances' \subseteq instances, Active \ {p} \subseteq Active'
  PROVE  Linked'
  <1>1. SUFFICES ASSUME NEW c \in Plugins, NEW q \in Plugins, links'[c][q] = "current"
                 PROVE  c \in instances' /\ q \in Providers(c) \cap Active'
    BY DEF Linked
  <1>2. c \in instances' /\ q # p /\ links[c][q] = "current"
    BY <1>1 DEF Cut, Nothing, Typed, TypeOK
  <1> QED
    BY <1>2 DEF Linked

\* Every step keeps current links on active providers.
LEMMA Linking ==
  ASSUME Typed, Linked, [Next]_vars
  PROVE  Linked'
  <1> USE Resting DEF Typed, TypeOK, Setups, Active, Linked, Idle, Activating
  <1>1. ASSUME NEW k \in Calls, NEW p \in Plugins, Call(k, p)
       PROVE  Linked'
    BY <1>1 DEF Call, settings, kernel, progress
  <1>2. ASSUME NEW k \in Calls, NEW p \in Plugins, NEW q \in Plugins, CallProvider(k, p, q)
       PROVE  Linked'
    BY <1>2 DEF CallProvider, settings, kernel, progress
  <1>3. ASSUME NEW k \in Calls, NEW p \in Plugins, Return(k, p)
       PROVE  Linked'
    BY <1>3 DEF Return, settings, kernel, progress
  <1>4. ASSUME NEW p \in Plugins, SealNext(p)
       PROVE  Linked'
    BY <1>4 DEF SealNext, Seal, settings, kernel, progress, calls
  <1>5. ASSUME NEW p \in Plugins, Drained(p)
       PROVE  Linked'
    BY <1>5 DEF Drained, Enter, settings, kernel, calls
  <1>6. ASSUME NEW p \in Plugins, DisposeNext(p)
       PROVE  Linked'
    <2>1. CASE p \in instances
      <3>1. Gone(p) /\ Cut(p, "stale") /\ \A q \in Plugins \ {p} : status'[q] = status[q]
        BY <1>6, <2>1 DEF DisposeNext, Dispose
      <3>2. instances' \subseteq instances /\ Active \ {p} \subseteq Active'
        BY <3>1 DEF Gone
      <3> QED
        BY <3>1, <3>2, CutLinks
    <2>2. CASE p \notin instances
      BY <1>6, <2>2 DEF DisposeNext, Dispose, kernel
    <2> QED
      BY <2>1, <2>2
  <1>7. ASSUME NEW p \in Plugins, PlanNext(p)
       PROVE  Linked'
    BY <1>7 DEF PlanNext, Activating, Planned, settings, kernel, calls
  <1>8. ASSUME NEW p \in Plugins, Block(p)
       PROVE  Linked'
    <2>1. p \notin instances
      BY <1>8, OneSetup DEF Block, Upcoming, First, Setups, Active
    <2>2. Active' = Active
      BY <1>8, <2>1 DEF Block, Active
    <2> QED
      BY <1>8, <2>2 DEF Block
  <1>9. ASSUME NEW p \in Plugins, BeginSetup(p)
       PROVE  Linked'
    BY <1>9 DEF BeginSetup, Upcoming, Activating, settings, calls, progress, First
  <1>10. ASSUME NEW p \in Plugins, SetupDone(p)
       PROVE  Linked'
    BY <1>10 DEF SetupDone, Upcoming, Activating, settings, calls
  <1>11. ASSUME NEW p \in Plugins, NEW clean \in BOOLEAN, SetupFails(p, clean)
       PROVE  Linked'
    <2>1. Gone(p) /\ Cut(p, "stale") /\ \A q \in Plugins \ {p} : status'[q] = status[q]
      BY <1>11 DEF SetupFails, Rejected
    <2>2. instances' \subseteq instances /\ Active \ {p} \subseteq Active'
      BY <2>1 DEF Gone
    <2> QED
      BY <2>1, <2>2, CutLinks
  <1>12. ASSUME Abandon
       PROVE  Linked'
    BY <1>12 DEF Abandon, Reopen, End, settings, kernel, calls
  <1>13. ASSUME LoadEnds
       PROVE  Linked'
    BY <1>13 DEF LoadEnds, Activated, Activating, End, settings, kernel, calls
  <1>14. ASSUME Commit
       PROVE  Linked'
    BY <1>14 DEF Commit, Activated, Activating, Enter, kernel, calls
  <1>15. ASSUME CommitFails
       PROVE  Linked'
    BY <1>15 DEF CommitFails, Activated, Activating, Enter, settings, kernel, calls
  <1>16. ASSUME Undo
       PROVE  Linked'
    BY <1>16 DEF Undo, Enter, settings, kernel, calls
  <1>17. ASSUME Restored
       PROVE  Linked'
    BY <1>17 DEF Restored, Activated, Activating, Enter, settings, kernel, calls
  <1>18. ASSUME Settle
       PROVE  Linked'
    BY <1>18 DEF Settle, End, settings, calls
  <1>19. ASSUME NEW t \in Plugins, NEW kind, NEW closure, NEW drained, NEW new,
              Opening(kind, t, closure, drained, new)
       PROVE  Linked'
    BY <1>19 DEF Opening, Begin, kernel, calls
  <1>20. ASSUME NEW t \in Plugins, Store(t)
       PROVE  Linked'
    BY <1>20 DEF Store, MayChange, kernel, calls, progress
  <1>21. ASSUME NEW p \in Plugins, NEW clean \in BOOLEAN, RendererFails(p, clean)
       PROVE  Linked'
    <2>1. Gone(p) /\ Cut(p, "withdrawn") /\ \A q \in Plugins \ {p} : status'[q] = status[q]
      BY <1>21 DEF RendererFails
    <2>2. instances' \subseteq instances /\ Active \ {p} \subseteq Active'
      BY <2>1 DEF Gone
    <2> QED
      BY <2>1, <2>2, CutLinks
  <1>22. ASSUME Terminate
       PROVE  Linked'
    BY <1>22 DEF Terminate, Release, settings, kernel, calls
  <1>23. ASSUME NEW p \in Plugins, CleanupCancelled(p)
       PROVE  Linked'
    <2>1. Breaks(p) /\ Cut(p, "stale") /\ \A q \in Plugins \ {p} : status'[q] = status[q]
      BY <1>23 DEF CleanupCancelled
    <2>2. instances' \subseteq instances /\ Active \ {p} \subseteq Active'
      BY <2>1 DEF Breaks
    <2> QED
      BY <2>1, <2>2, CutLinks
  <1>24. ASSUME NEW p \in Plugins, NEW clean \in BOOLEAN, SetupCancelled(p, clean)
       PROVE  Linked'
    <2>1. Gone(p) /\ Cut(p, "stale") /\ \A q \in Plugins \ {p} : status'[q] = status[q]
      BY <1>24 DEF SetupCancelled, Rejected
    <2>2. instances' \subseteq instances /\ Active \ {p} \subseteq Active'
      BY <2>1 DEF Gone
    <2> QED
      BY <2>1, <2>2, CutLinks
  <1>25. ASSUME NEW p \in Plugins, ReleaseCancelled(p)
       PROVE  Linked'
    <2>1. Breaks(p) /\ Cut(p, "stale") /\ \A q \in Plugins \ {p} : status'[q] = status[q]
      BY <1>25 DEF ReleaseCancelled
    <2>2. instances' \subseteq instances /\ Active \ {p} \subseteq Active'
      BY <2>1 DEF Breaks
    <2> QED
      BY <2>1, <2>2, CutLinks
  <1>26. ASSUME NEW p \in Plugins, RendererCancelled(p)
       PROVE  Linked'
    <2>1. Breaks(p) /\ Cut(p, "withdrawn") /\ \A q \in Plugins \ {p} : status'[q] = status[q]
      BY <1>26 DEF RendererCancelled
    <2>2. instances' \subseteq instances /\ Active \ {p} \subseteq Active'
      BY <2>1 DEF Breaks
    <2> QED
      BY <2>1, <2>2, CutLinks
  <1>27. CASE UNCHANGED vars
    BY <1>27 DEF vars, settings, kernel, calls, progress
  <1> QED
    BY ONLY Typed, [Next]_vars, Openings, <1>1, <1>2, <1>3, <1>4, <1>5, <1>6, <1>7, <1>8,
       <1>9, <1>10, <1>11, <1>12, <1>13, <1>14, <1>15, <1>16, <1>17, <1>18, <1>19, <1>20,
       <1>21, <1>22,
       <1>23, <1>24, <1>25, <1>26, <1>27
       DEF Next, Step, Requests, Calling

\* Every step keeps calls in instances, or orphaned.
LEMMA Accepting ==
  ASSUME Typed, Accepted, [Next]_vars
  PROVE  Accepted'
  <1> USE DEF Typed, TypeOK, Accepted
  <1>1. ASSUME NEW k \in Calls, NEW p \in Plugins, Call(k, p)
       PROVE  Accepted'
    BY <1>1 DEF Call, settings, kernel, progress, Admits
  <1>2. ASSUME NEW k \in Calls, NEW p \in Plugins, NEW q \in Plugins, CallProvider(k, p, q)
       PROVE  Accepted'
    BY <1>2 DEF CallProvider, settings, kernel, progress, Admits
  <1>3. ASSUME NEW k \in Calls, NEW p \in Plugins, Return(k, p)
       PROVE  Accepted'
    BY <1>3 DEF Return, settings, kernel, progress
  <1>4. ASSUME NEW p \in Plugins, SealNext(p)
       PROVE  Accepted'
    BY <1>4 DEF SealNext, Seal, settings, kernel, progress, calls
  <1>5. ASSUME NEW p \in Plugins, Drained(p)
       PROVE  Accepted'
    BY <1>5 DEF Drained, Enter, settings, kernel, calls
  <1>6. ASSUME NEW p \in Plugins, DisposeNext(p)
       PROVE  Accepted'
    BY <1>6 DEF DisposeNext, Dispose, Gone, Cut, Enter, End, Swap, kernel
  <1>7. ASSUME NEW p \in Plugins, PlanNext(p)
       PROVE  Accepted'
    BY <1>7 DEF PlanNext, Activating, Planned, settings, kernel, calls
  <1>8. ASSUME NEW p \in Plugins, Block(p)
       PROVE  Accepted'
    BY <1>8 DEF Block, Upcoming, Activating, settings, calls
  <1>9. ASSUME NEW p \in Plugins, BeginSetup(p)
       PROVE  Accepted'
    BY <1>9 DEF BeginSetup, Upcoming, Activating, settings, calls, progress
  <1>10. ASSUME NEW p \in Plugins, SetupDone(p)
       PROVE  Accepted'
    BY <1>10 DEF SetupDone, Upcoming, Activating, settings, calls
  <1>11. ASSUME NEW p \in Plugins, NEW clean \in BOOLEAN, SetupFails(p, clean)
       PROVE  Accepted'
    BY <1>11 DEF SetupFails, Rejected, Upcoming, Activating, Gone, Cut, Untried, settings
  <1>12. ASSUME Abandon
       PROVE  Accepted'
    BY <1>12 DEF Abandon, Reopen, End, settings, kernel, calls
  <1>13. ASSUME LoadEnds
       PROVE  Accepted'
    BY <1>13 DEF LoadEnds, Activated, Activating, End, settings, kernel, calls
  <1>14. ASSUME Commit
       PROVE  Accepted'
    BY <1>14 DEF Commit, Activated, Activating, Enter, kernel, calls
  <1>15. ASSUME CommitFails
       PROVE  Accepted'
    BY <1>15 DEF CommitFails, Activated, Activating, Enter, settings, kernel, calls
  <1>16. ASSUME Undo
       PROVE  Accepted'
    BY <1>16 DEF Undo, Enter, settings, kernel, calls
  <1>17. ASSUME Restored
       PROVE  Accepted'
    BY <1>17 DEF Restored, Activated, Activating, Enter, settings, kernel, calls
  <1>18. ASSUME Settle
       PROVE  Accepted'
    BY <1>18 DEF Settle, End, settings, calls
  <1>19. ASSUME NEW t \in Plugins, NEW kind, NEW closure, NEW drained, NEW new,
              Opening(kind, t, closure, drained, new)
       PROVE  Accepted'
    BY <1>19 DEF Opening, Begin, kernel, calls
  <1>20. ASSUME NEW t \in Plugins, Store(t)
       PROVE  Accepted'
    BY <1>20 DEF Store, MayChange, kernel, calls, progress
  <1>21. ASSUME NEW p \in Plugins, NEW clean \in BOOLEAN, RendererFails(p, clean)
       PROVE  Accepted'
    BY <1>21 DEF RendererFails, Gone, Cut, settings, progress
  <1>22. ASSUME Terminate
       PROVE  Accepted'
    BY <1>22 DEF Terminate, Release, settings, kernel, calls
  <1>23. ASSUME NEW p \in Plugins, CleanupCancelled(p)
       PROVE  Accepted'
    BY <1>23 DEF CleanupCancelled, Breaks, Cut, Escape, Release, Enter, End, NoOp
  <1>24. ASSUME NEW p \in Plugins, NEW clean \in BOOLEAN, SetupCancelled(p, clean)
       PROVE  Accepted'
    BY <1>24 DEF SetupCancelled, Rejected, Upcoming, Activating, Gone, Cut, Escape, Release, Enter, End, NoOp
  <1>25. ASSUME NEW p \in Plugins, ReleaseCancelled(p)
       PROVE  Accepted'
    BY <1>25 DEF ReleaseCancelled, Upcoming, Activating, Breaks, Cut, Escape, Release, Enter, End, NoOp
  <1>26. ASSUME NEW p \in Plugins, RendererCancelled(p)
       PROVE  Accepted'
    BY <1>26 DEF RendererCancelled, Breaks, Cut, settings, progress
  <1>27. CASE UNCHANGED vars
    BY <1>27 DEF vars, settings, kernel, calls, progress
  <1> QED
    BY ONLY Typed, [Next]_vars, Openings, <1>1, <1>2, <1>3, <1>4, <1>5, <1>6, <1>7, <1>8,
       <1>9, <1>10, <1>11, <1>12, <1>13, <1>14, <1>15, <1>16, <1>17, <1>18, <1>19, <1>20,
       <1>21, <1>22,
       <1>23, <1>24, <1>25, <1>26, <1>27
       DEF Next, Step, Requests, Calling

\* The next plugin to be disposed of is unique, and the others come before it.
LEMMA LastUnique ==
  ASSUME NEW S \in SUBSET Plugins, NEW p, NEW q, Last(p, S), Last(q, S)
  PROVE  p = q
  <1>1. p \in Plugins /\ q \in Plugins /\ Rank[p] <= Rank[q] /\ Rank[q] <= Rank[p]
    BY DEF Last
  <1> QED
    BY <1>1, PluginAssumption

\* What is not the last of S comes before it.
LEMMA LastAbove ==
  ASSUME NEW S \in SUBSET Plugins, NEW p, Last(p, S), NEW q \in S, q # p
  PROVE  Rank[q] < Rank[p]
  <1>1. p \in Plugins /\ q \in Plugins /\ Rank[q] <= Rank[p]
    BY DEF Last
  <1>2. Rank[p] \in Nat /\ Rank[q] \in Nat /\ Rank[p] # Rank[q]
    BY <1>1, PluginAssumption
  <1> QED
    BY <1>1, <1>2

\* What a drain is through with stays sealed and idle.
LEMMA Ordering ==
  ASSUME Typed, Shape, Gates, DrainOrder, [Next]_vars
  PROVE  DrainOrder'
  <1> USE Resting DEF Typed, TypeOK, Operation, Stages, Shape, Gates, DrainOrder, CallsIn,
     Idle, Activating, Changes
  <1>1. ASSUME NEW k \in Calls, NEW p \in Plugins, Call(k, p)
       PROVE  DrainOrder'
    BY <1>1 DEF Call, settings, kernel, progress, Admits
  <1>2. ASSUME NEW k \in Calls, NEW p \in Plugins, NEW q \in Plugins, CallProvider(k, p, q)
       PROVE  DrainOrder'
    BY <1>2 DEF CallProvider, settings, kernel, progress, Admits
  <1>3. ASSUME NEW k \in Calls, NEW p \in Plugins, Return(k, p)
       PROVE  DrainOrder'
    BY <1>3 DEF Return, settings, kernel, progress
  <1>4. ASSUME NEW p \in Plugins, SealNext(p)
       PROVE  DrainOrder'
    <2>1. sealed' = sealed \cup {p} /\ UNCHANGED <<op, todo, inside, orphaned, stuck>>
          /\ op.stage = "drain" /\ Last(p, todo)
      BY <1>4 DEF SealNext, Seal, kernel, progress, calls
    <2> QED
      BY <2>1 DEF DrainOrder, CallsIn
  <1>5. ASSUME NEW p \in Plugins, Drained(p)
       PROVE  DrainOrder'
    <2>1. CASE todo # {p} /\ todo' = todo \ {p} /\ UNCHANGED <<op, queue>>
      <3>1. \A q \in todo' : Rank[q] < Rank[p]
        <4>1. SUFFICES ASSUME NEW q \in todo, q # p PROVE Rank[q] < Rank[p]
          BY <2>1
        <4> QED
          BY <1>5, <4>1, LastAbove DEF Drained
      <3>2. \A q \in (sealed \ stuck) \cap todo : q = p
        BY <1>5, LastUnique DEF Drained, DrainOrder, Typed, TypeOK
      <3>3. CallsIn(p) = {} /\ p \in sealed /\ p \in todo /\ op.stage = "drain"
        BY <1>5 DEF Drained, IsIdle, Last
      <3>4. op' = op /\ sealed' = sealed /\ stuck' = stuck /\ inside' = inside /\ orphaned' = orphaned
        BY <1>5, <2>1 DEF Drained, kernel, calls
      <3>5. op.drained \ todo' \subseteq (op.drained \ todo) \cup {p}
        BY <2>1
      <3>6. \A q \in op.drained \ todo' : CallsIn(q) = {} /\ \A r \in todo' : Rank[r] < Rank[q]
        BY <2>1, <3>1, <3>3, <3>5 DEF DrainOrder
      <3>7. (sealed \ stuck) \cap todo' = {}
        BY <2>1, <3>2
      <3>8. op.drained \ todo' \subseteq sealed
        BY <3>3, <3>5 DEF DrainOrder
      <3> QED
        BY <3>4, <3>6, <3>7, <3>8 DEF DrainOrder, CallsIn
    <2>2. CASE todo = {p} /\ Enter("dispose", op.closure)
      BY <2>2 DEF Enter, DrainOrder, Typed, TypeOK, Operation
    <2> QED
      BY <1>5, <2>1, <2>2 DEF Drained
  <1>6. ASSUME NEW p \in Plugins, DisposeNext(p)
       PROVE  DrainOrder'
    BY <1>6 DEF DisposeNext, Dispose, Gone, Cut, Enter, End, Swap, kernel
  <1>7. ASSUME NEW p \in Plugins, PlanNext(p)
       PROVE  DrainOrder'
    BY <1>7 DEF PlanNext, Activating, Planned, settings, kernel, calls
  <1>8. ASSUME NEW p \in Plugins, Block(p)
       PROVE  DrainOrder'
    BY <1>8 DEF Block, Upcoming, Activating, settings, calls
  <1>9. ASSUME NEW p \in Plugins, BeginSetup(p)
       PROVE  DrainOrder'
    BY <1>9 DEF BeginSetup, Upcoming, Activating, settings, calls, progress
  <1>10. ASSUME NEW p \in Plugins, SetupDone(p)
       PROVE  DrainOrder'
    BY <1>10 DEF SetupDone, Upcoming, Activating, settings, calls
  <1>11. ASSUME NEW p \in Plugins, NEW clean \in BOOLEAN, SetupFails(p, clean)
       PROVE  DrainOrder'
    BY <1>11 DEF SetupFails, Rejected, Upcoming, Activating, Gone, Cut, Untried, settings
  <1>12. ASSUME Abandon
       PROVE  DrainOrder'
    BY <1>12 DEF Abandon, Reopen, End, settings, kernel, calls
  <1>13. ASSUME LoadEnds
       PROVE  DrainOrder'
    BY <1>13 DEF LoadEnds, Activated, Activating, End, settings, kernel, calls
  <1>14. ASSUME Commit
       PROVE  DrainOrder'
    BY <1>14 DEF Commit, Activated, Activating, Enter, kernel, calls
  <1>15. ASSUME CommitFails
       PROVE  DrainOrder'
    BY <1>15 DEF CommitFails, Activated, Activating, Enter, settings, kernel, calls
  <1>16. ASSUME Undo
       PROVE  DrainOrder'
    BY <1>16 DEF Undo, Enter, settings, kernel, calls
  <1>17. ASSUME Restored
       PROVE  DrainOrder'
    BY <1>17 DEF Restored, Activated, Activating, Enter, settings, kernel, calls
  <1>18. ASSUME Settle
       PROVE  DrainOrder'
    BY <1>18 DEF Settle, End, settings, calls
  <1>19. ASSUME NEW t \in Plugins, NEW kind, NEW closure, NEW drained, NEW new,
              Opening(kind, t, closure, drained, new)
       PROVE  DrainOrder'
    BY <1>19 DEF Opening, Begin, kernel, calls
  <1>20. ASSUME NEW t \in Plugins, Store(t)
       PROVE  DrainOrder'
    BY <1>20 DEF Store, MayChange, kernel, calls, progress
  <1>21. ASSUME NEW p \in Plugins, NEW clean \in BOOLEAN, RendererFails(p, clean)
       PROVE  DrainOrder'
    BY <1>21 DEF RendererFails, Gone, Cut, settings, progress
  <1>22. ASSUME Terminate
       PROVE  DrainOrder'
    BY <1>22 DEF Terminate, Release, settings, kernel, calls, NoOp
  <1>23. ASSUME NEW p \in Plugins, CleanupCancelled(p)
       PROVE  DrainOrder'
    BY <1>23 DEF CleanupCancelled, Breaks, Cut, Escape, Release, Enter, End, NoOp
  <1>24. ASSUME NEW p \in Plugins, NEW clean \in BOOLEAN, SetupCancelled(p, clean)
       PROVE  DrainOrder'
    BY <1>24 DEF SetupCancelled, Rejected, Upcoming, Activating, Gone, Cut, Escape, Release, Enter, End, NoOp
  <1>25. ASSUME NEW p \in Plugins, ReleaseCancelled(p)
       PROVE  DrainOrder'
    BY <1>25 DEF ReleaseCancelled, Upcoming, Activating, Breaks, Cut, Escape, Release, Enter, End, NoOp
  <1>26. ASSUME NEW p \in Plugins, RendererCancelled(p)
       PROVE  DrainOrder'
    BY <1>26 DEF RendererCancelled, Breaks, Cut, settings, progress
  <1>27. CASE UNCHANGED vars
    BY <1>27 DEF vars, settings, kernel, calls, progress
  <1> QED
    BY ONLY Typed, [Next]_vars, Openings, <1>1, <1>2, <1>3, <1>4, <1>5, <1>6, <1>7, <1>8,
       <1>9, <1>10, <1>11, <1>12, <1>13, <1>14, <1>15, <1>16, <1>17, <1>18, <1>19, <1>20,
       <1>21, <1>22,
       <1>23, <1>24, <1>25, <1>26, <1>27
       DEF Next, Step, Requests, Calling

\* A closure is closed: what uses a member of it and may belong to it does.
LEMMA DependentsClosed ==
  ASSUME NEW t \in Plugins, NEW pool \in SUBSET Plugins, NEW uses \in [Plugins -> SUBSET Plugins],
         NEW p \in pool, uses[p] \cap Dependents(t, pool, uses) # {}
  PROVE  p \in Dependents(t, pool, uses)
  BY DEF Dependents

\* The closures that a transition of t takes while nothing else is under way.
LEMMA ClosuresClosed ==
  ASSUME Typed, Config, Idle, NEW t \in Plugins, NEW p \in instances \ broken
  PROVE  /\ p \in Active /\ View(p) = "ACTIVE"
         /\ Providers(p) \cap RunningDependents(t) # {} => p \in RunningDependents(t)
         /\ Providers(p) \cap EnableClosure(t) # {} => p \in EnableClosure(t)
         /\ View(t) = "ACTIVE" /\ Providers(p) \cap DisableClosure(t) # {} => p \in DisableClosure(t)
  <1>1. p \in Active /\ Uses[p] = Providers(p) /\ instances \in SUBSET Plugins
    BY DEF Typed, TypeOK, Setups, Idle, Activating, Active, Uses
  <1>2. Active \cup {q \in Plugins : View(q) = "BLOCKED"} \in SUBSET Plugins
    BY <1>1 DEF Active
  <1>3. Providers(p) \cap RunningDependents(t) # {} => p \in RunningDependents(t)
    BY <1>1, UsesTyped, DependentsClosed DEF RunningDependents
  <1>4. Providers(p) \cap EnableClosure(t) # {} => p \in EnableClosure(t)
    BY <1>1, <1>2, UsesTyped, DependentsClosed DEF EnableClosure
  <1>5. View(p) = "ACTIVE"
    BY <1>1 DEF View, Active, Config
  <1>6. ASSUME View(t) = "ACTIVE", Providers(p) \cap DisableClosure(t) # {} PROVE p \in DisableClosure(t)
    <2>1. DisableClosure(t) = RunningDependents(t)
      BY <1>6 DEF DisableClosure
    <2> QED
      BY <1>3, <1>6, <2>1
  <1> QED
    BY <1>1, <1>3, <1>4, <1>5, <1>6

\* A drain begins with all of the closure that stays up.
LEMMA DrainsClosed ==
  ASSUME Typed, Config, NEW t \in Plugins, Reload(t) \/ Enable(t) \/ Disable(t)
  PROVE  DrainClosed'
  <1>1. Idle /\ instances' = instances /\ broken' = broken
    BY DEF Reload, Enable, Disable, MayChange, Begin, kernel
  <1>2. CASE Reload(t)
    <2>1. op'.drained = RunningDependents(t)
      BY <1>2 DEF Reload, Begin
    <2> QED
      BY <1>1, <2>1, ClosuresClosed DEF DrainClosed
  <1>3. ASSUME NEW closure, op'.drained = Staying(t, closure), op'.kind # "reload", op'.target = t,
               op'.stage = "drain" =>
                   \A p \in instances \ broken : Providers(p) \cap closure # {} => p \in closure
        PROVE  DrainClosed'
    <2>1. Undrained' = Toggled(t)
      BY <1>1, <1>3 DEF Undrained, Toggled
    <2>2. SUFFICES ASSUME op'.stage = "drain", NEW p \in instances \ (Toggled(t) \cup broken),
                          Providers(p) \cap Staying(t, closure) # {}
                   PROVE  p \in Staying(t, closure)
      BY <1>1, <1>3, <2>1 DEF DrainClosed
    <2>3. p \in closure
      BY <1>3, <2>2 DEF Staying
    <2>4. View(p) = "ACTIVE"
      BY <1>1, ClosuresClosed
    <2> QED
      BY <2>2, <2>3, <2>4 DEF Staying
  <1>4. CASE Enable(t)
    <2>1. op'.drained = Staying(t, EnableClosure(t)) /\ op'.kind # "reload" /\ op'.target = t
      BY <1>4 DEF Enable, Begin
    <2> QED
      BY <1>1, <1>3, <2>1, ClosuresClosed
  <1>5. CASE Disable(t)
    <2>1. op'.drained = Staying(t, DisableClosure(t)) /\ op'.kind # "reload" /\ op'.target = t
      BY <1>5 DEF Disable, Begin
    <2>2. ASSUME op'.stage = "drain" PROVE View(t) = "ACTIVE"
      <3>1. Staying(t, DisableClosure(t)) # {}
        BY <1>5, <2>2 DEF Disable, Begin
      <3>2. t \in Toggled(t)
        BY TargetIn DEF Toggled
      <3> QED
        BY <3>1, <3>2 DEF DisableClosure, Staying
    <2> QED
      BY <1>1, <1>3, <2>1, <2>2, ClosuresClosed
  <1> QED
    BY <1>2, <1>4, <1>5

\* A drain keeps all consumers that stay up.
LEMMA Draining ==
  ASSUME Typed, Shape, Config, DrainClosed, [Next]_vars
  PROVE  DrainClosed'
  <1> USE Resting DEF Typed, TypeOK, Operation, Stages, Shape, DrainClosed, Undrained,
     Toggled, Idle, Activating
  <1>1. ASSUME NEW k \in Calls, NEW p \in Plugins, Call(k, p)
       PROVE  DrainClosed'
    BY <1>1 DEF Call, settings, kernel, progress
  <1>2. ASSUME NEW k \in Calls, NEW p \in Plugins, NEW q \in Plugins, CallProvider(k, p, q)
       PROVE  DrainClosed'
    BY <1>2 DEF CallProvider, settings, kernel, progress
  <1>3. ASSUME NEW k \in Calls, NEW p \in Plugins, Return(k, p)
       PROVE  DrainClosed'
    BY <1>3 DEF Return, settings, kernel, progress
  <1>4. ASSUME NEW p \in Plugins, SealNext(p)
       PROVE  DrainClosed'
    BY <1>4 DEF SealNext, Seal, settings, kernel, progress, calls
  <1>5. ASSUME NEW p \in Plugins, Drained(p)
       PROVE  DrainClosed'
    BY <1>5 DEF Drained, Enter, settings, kernel, calls
  <1>6. ASSUME NEW p \in Plugins, DisposeNext(p)
       PROVE  DrainClosed'
    BY <1>6 DEF DisposeNext, Dispose, Gone, Cut, Enter, End, Swap, kernel
  <1>7. ASSUME NEW p \in Plugins, PlanNext(p)
       PROVE  DrainClosed'
    BY <1>7 DEF PlanNext, Activating, Planned, settings, kernel, calls
  <1>8. ASSUME NEW p \in Plugins, Block(p)
       PROVE  DrainClosed'
    BY <1>8 DEF Block, Upcoming, Activating, settings, calls
  <1>9. ASSUME NEW p \in Plugins, BeginSetup(p)
       PROVE  DrainClosed'
    BY <1>9 DEF BeginSetup, Upcoming, Activating, settings, calls, progress
  <1>10. ASSUME NEW p \in Plugins, SetupDone(p)
       PROVE  DrainClosed'
    BY <1>10 DEF SetupDone, Upcoming, Activating, settings, calls
  <1>11. ASSUME NEW p \in Plugins, NEW clean \in BOOLEAN, SetupFails(p, clean)
       PROVE  DrainClosed'
    BY <1>11 DEF SetupFails, Rejected, Upcoming, Activating, Gone, Cut, Untried, settings
  <1>12. ASSUME Abandon
       PROVE  DrainClosed'
    BY <1>12 DEF Abandon, Reopen, End, settings, kernel, calls
  <1>13. ASSUME LoadEnds
       PROVE  DrainClosed'
    BY <1>13 DEF LoadEnds, Activated, Activating, End, settings, kernel, calls
  <1>14. ASSUME Commit
       PROVE  DrainClosed'
    BY <1>14 DEF Commit, Activated, Activating, Enter, kernel, calls
  <1>15. ASSUME CommitFails
       PROVE  DrainClosed'
    BY <1>15 DEF CommitFails, Activated, Activating, Enter, settings, kernel, calls
  <1>16. ASSUME Undo
       PROVE  DrainClosed'
    BY <1>16 DEF Undo, Enter, settings, kernel, calls
  <1>17. ASSUME Restored
       PROVE  DrainClosed'
    BY <1>17 DEF Restored, Activated, Activating, Enter, settings, kernel, calls
  <1>18. ASSUME Settle
       PROVE  DrainClosed'
    BY <1>18 DEF Settle, End, settings, calls
  <1>19. ASSUME NEW t \in Plugins, Reload(t) \/ Enable(t) \/ Disable(t)
       PROVE  DrainClosed'
    BY <1>19, DrainsClosed
  <1>20. ASSUME NEW t \in Plugins, Store(t)
       PROVE  DrainClosed'
    BY <1>20 DEF Store, MayChange, kernel, calls, progress
  <1>21. ASSUME NEW p \in Plugins, NEW clean \in BOOLEAN, RendererFails(p, clean)
       PROVE  DrainClosed'
    BY <1>21 DEF RendererFails, Gone, Cut, settings, progress
  <1>22. ASSUME Terminate
       PROVE  DrainClosed'
    BY <1>22 DEF Terminate, Release, settings, kernel, calls, NoOp
  <1>23. ASSUME NEW p \in Plugins, CleanupCancelled(p)
       PROVE  DrainClosed'
    BY <1>23 DEF CleanupCancelled, Breaks, Cut, Escape, Release, Enter, End, NoOp
  <1>24. ASSUME NEW p \in Plugins, NEW clean \in BOOLEAN, SetupCancelled(p, clean)
       PROVE  DrainClosed'
    BY <1>24 DEF SetupCancelled, Rejected, Upcoming, Activating, Gone, Cut, Escape, Release, Enter, End, NoOp
  <1>25. ASSUME NEW p \in Plugins, ReleaseCancelled(p)
       PROVE  DrainClosed'
    <2>1. op'.stage # "drain"
      BY <1>25 DEF ReleaseCancelled, Escape, Release, Enter, End, NoOp
    <2> QED
      BY <2>1
  <1>26. ASSUME NEW p \in Plugins, RendererCancelled(p)
       PROVE  DrainClosed'
    BY <1>26 DEF RendererCancelled, Breaks, Cut, settings, progress
  <1>27. CASE UNCHANGED vars
    BY <1>27 DEF vars, settings, kernel, calls, progress
  <1> QED
    BY ONLY [Next]_vars, <1>1, <1>2, <1>3, <1>4, <1>5, <1>6, <1>7, <1>8, <1>9, <1>10, <1>11,
       <1>12, <1>13, <1>14, <1>15, <1>16, <1>17, <1>18, <1>19, <1>20, <1>21, <1>22,
       <1>23, <1>24, <1>25, <1>26, <1>27
       DEF Next, Step, Requests, Calling

-----------------------------------------------------------------------------
(* The theorems                                                            *)

\* How a process resource is closed.
Loses == \A p \in resources \ resources' :
             ~Holds(p) \/ (op.stage = "settle" /\ p \notin instances \ broken)

\* Resources are closed with their instance, or at the end of a retention.
LEMMA Losses ==
  ASSUME Typed, [Next]_vars
  PROVE  Loses
  <1> USE DEF Typed, TypeOK, Operation, Loses
  <1>1. ASSUME NEW k \in Calls, NEW p \in Plugins, Call(k, p)
       PROVE  Loses
    BY <1>1 DEF Call, settings, kernel, progress
  <1>2. ASSUME NEW k \in Calls, NEW p \in Plugins, NEW q \in Plugins, CallProvider(k, p, q)
       PROVE  Loses
    BY <1>2 DEF CallProvider, settings, kernel, progress
  <1>3. ASSUME NEW k \in Calls, NEW p \in Plugins, Return(k, p)
       PROVE  Loses
    BY <1>3 DEF Return, settings, kernel, progress
  <1>4. ASSUME NEW p \in Plugins, SealNext(p)
       PROVE  Loses
    BY <1>4 DEF SealNext, Seal, settings, kernel, progress, calls
  <1>5. ASSUME NEW p \in Plugins, Drained(p)
       PROVE  Loses
    BY <1>5 DEF Drained, Enter, settings, kernel, calls
  <1>6. ASSUME NEW p \in Plugins, DisposeNext(p)
       PROVE  Loses
    BY <1>6 DEF DisposeNext, Dispose, Gone, kernel
  <1>7. ASSUME NEW p \in Plugins, PlanNext(p)
       PROVE  Loses
    BY <1>7 DEF PlanNext, Activating, Planned, settings, kernel, calls
  <1>8. ASSUME NEW p \in Plugins, Block(p)
       PROVE  Loses
    BY <1>8 DEF Block, Upcoming, Activating, settings, calls
  <1>9. ASSUME NEW p \in Plugins, BeginSetup(p)
       PROVE  Loses
    BY <1>9 DEF BeginSetup, Upcoming, Activating, settings, calls, progress
  <1>10. ASSUME NEW p \in Plugins, SetupDone(p)
       PROVE  Loses
    BY <1>10 DEF SetupDone, Upcoming, Activating, settings, calls
  <1>11. ASSUME NEW p \in Plugins, NEW clean \in BOOLEAN, SetupFails(p, clean)
       PROVE  Loses
    BY <1>11 DEF SetupFails, Rejected, Gone
  <1>12. ASSUME Abandon
       PROVE  Loses
    BY <1>12 DEF Abandon, Reopen, End, settings, kernel, calls
  <1>13. ASSUME LoadEnds
       PROVE  Loses
    BY <1>13 DEF LoadEnds, Activated, Activating, End, settings, kernel, calls
  <1>14. ASSUME Commit
       PROVE  Loses
    BY <1>14 DEF Commit, Activated, Activating, Enter, kernel, calls
  <1>15. ASSUME CommitFails
       PROVE  Loses
    BY <1>15 DEF CommitFails, Activated, Activating, Enter, settings, kernel, calls
  <1>16. ASSUME Undo
       PROVE  Loses
    BY <1>16 DEF Undo, Enter, settings, kernel, calls
  <1>17. ASSUME Restored
       PROVE  Loses
    BY <1>17 DEF Restored, Activated, Activating, Enter, settings, kernel, calls
  <1>18. ASSUME Settle
       PROVE  Loses
    BY <1>18 DEF Settle, End, settings, calls
  <1>19. ASSUME NEW t \in Plugins, NEW kind, NEW closure, NEW drained, NEW new,
              Opening(kind, t, closure, drained, new)
       PROVE  Loses
    BY <1>19 DEF Opening, Begin, kernel, calls
  <1>20. ASSUME NEW t \in Plugins, Store(t)
       PROVE  Loses
    BY <1>20 DEF Store, MayChange, kernel, calls, progress
  <1>21. ASSUME NEW p \in Plugins, NEW clean \in BOOLEAN, RendererFails(p, clean)
       PROVE  Loses
    BY <1>21 DEF RendererFails, Gone
  <1>22. ASSUME Terminate
       PROVE  Loses
    BY <1>22 DEF Terminate, Release, settings, kernel, calls
  <1>23. ASSUME NEW p \in Plugins, CleanupCancelled(p)
       PROVE  Loses
    BY <1>23 DEF CleanupCancelled, Breaks, Cut, Escape, Release, Enter, End, NoOp
  <1>24. ASSUME NEW p \in Plugins, NEW clean \in BOOLEAN, SetupCancelled(p, clean)
       PROVE  Loses
    BY <1>24 DEF SetupCancelled, Rejected, Upcoming, Activating, Gone, Cut, Escape, Release, Enter, End, NoOp
  <1>25. ASSUME NEW p \in Plugins, ReleaseCancelled(p)
       PROVE  Loses
    BY <1>25 DEF ReleaseCancelled, Upcoming, Activating, Breaks, Cut, Escape, Release, Enter, End, NoOp
  <1>26. ASSUME NEW p \in Plugins, RendererCancelled(p)
       PROVE  Loses
    BY <1>26 DEF RendererCancelled, Breaks, Cut, settings, progress
  <1>27. CASE UNCHANGED vars
    BY <1>27 DEF vars, settings, kernel, calls, progress
  <1> QED
    BY ONLY Typed, [Next]_vars, Openings, <1>1, <1>2, <1>3, <1>4, <1>5, <1>6, <1>7, <1>8,
       <1>9, <1>10, <1>11, <1>12, <1>13, <1>14, <1>15, <1>16, <1>17, <1>18, <1>19, <1>20,
       <1>21, <1>22,
       <1>23, <1>24, <1>25, <1>26, <1>27
       DEF Next, Step, Requests, Calling

\* The invariant holds when loading begins.
LEMMA InitInv == Init => IInv
  <1> SUFFICES ASSUME Init PROVE IInv
    OBVIOUS
  <1>1. Typed
    BY InitTyped
  <1>2. op.kind = "load" /\ op.stage = "activate" /\ op.closure = {} /\ op.drained = {}
    BY DEF Init, NoOp
  <1>3. Shape /\ Gates /\ Cleared /\ DrainOrder /\ DrainClosed
    BY <1>2 DEF Init, Shape, Gates, Cleared, DrainOrder, DrainClosed, Idle, Activating, Changes
  <1>4. Config /\ Linked /\ Accepted
    BY <1>2 DEF Init, Config, Differing, Linked, Accepted, Nothing, Changes
  <1> QED
    BY <1>1, <1>3, <1>4 DEF IInv

\* Every step keeps the invariant.
LEMMA Inductive == IInv /\ [Next]_vars => IInv'
  BY TypedStep, Shaping, Gating, Clearing, Configuring, Linking, Accepting, Ordering, Draining
  DEF IInv, Typed

\* The invariant holds in every reachable state.
THEOREM Invariant == Spec => []IInv
  BY InitInv, Inductive, PTL DEF Spec

\* Every variable has its type, and only an instance has a sealed gate.
THEOREM TypeCorrect == Spec => []TypeOK
  <1>1. IInv => TypeOK
    BY DEF IInv, Typed
  <1> QED
    BY Invariant, <1>1, PTL

\* drain_closure() seals a provider only when the consumers that it drains are
\* idle: a call that was accepted reaches every provider.
THEOREM DrainsInOrder == Spec => []ProvidersStayOpen
  <1>1. ASSUME IInv, op.stage = "drain", NEW k \in Calls, NEW p \in Plugins \ (Undrained \cup broken),
               k \in CallsIn(p), NEW q \in Providers(p) \ stuck, links[p][q] = "current"
        PROVE  Admits(q)
    <2>1. p \in instances /\ q \in Plugins
      BY <1>1, PluginAssumption DEF IInv, Accepted, CallsIn, Providers
    <2>2. q \in instances \ broken
      BY <1>1, <2>1 DEF IInv, Linked, Active
    <2>3. Rank[q] < Rank[p] /\ Rank[p] \in Nat /\ Rank[q] \in Nat
      BY <2>1, PluginAssumption
    <2>4. ASSUME q \in sealed PROVE FALSE
      <3>1. q \in op.drained
        BY <1>1, <2>4 DEF IInv, Gates
      <3>2. p \in op.drained
        BY <1>1, <2>1, <3>1 DEF IInv, DrainClosed
      <3>3. p \in todo
        BY <1>1, <3>2 DEF IInv, DrainOrder
      <3>4. q \in todo
        BY <1>1, <2>3, <3>1, <3>3 DEF IInv, DrainOrder
      <3>5. Rank[p] <= Rank[q]
        BY <1>1, <2>4, <3>3, <3>4 DEF IInv, DrainOrder, Last
      <3> QED
        BY <2>3, <3>5
    <2> QED
      BY <2>2, <2>4 DEF Admits
  <1>2. IInv => ProvidersStayOpen
    BY <1>1 DEF ProvidersStayOpen
  <1> QED
    BY Invariant, <1>2, PTL

\* reload.py's _replace() leaves the live tables those of the file, whatever
\* fails in it, but for a target it was interrupted at, which nobody rolls back;
\* and every active plugin was set up with its live table.
THEOREM ConfigLive == Spec => []LiveConfig
  <1>1. IInv => LiveConfig
    BY DEF IInv, Config, Differing, LiveConfig, Active, Idle
  <1> QED
    BY Invariant, <1>1, PTL

\* Whether a transition is given up, rolled back or complete, every instance is
\* active afterwards and its gate open; after an interrupted one, but for the
\* gates and the scope it left.
THEOREM GatesOpen == Spec => []OpenWhenActive
  <1>1. IInv => OpenWhenActive
    BY DEF IInv, Typed, TypeOK, Setups, Gates, OpenWhenActive, Active, Idle, Activating
  <1> QED
    BY Invariant, <1>1, PTL

\* retain(): the process resources of what is only set up again outlive the
\* exchange of the instances.
THEOREM ResourcesKept == Spec => ResourcesSurvive
  <1>1. ASSUME IInv, [Next]_vars, NEW p \in op.drained, p \in resources \ resources'
        PROVE  op.stage = "settle" /\ p \notin instances \ broken
    <2>1. op.kind \in Changes /\ p \in op.closure
      BY <1>1 DEF IInv, Shape
    <2>2. Holds(p)
      BY <2>1 DEF Holds, Changes
    <2> QED
      BY <1>1, <2>2, Losses DEF Loses, IInv
  <1>2. IInv /\ [Next]_vars =>
          [\A p \in op.drained :
             p \in resources \ resources' => op.stage = "settle" /\ p \notin instances \ broken]_vars
    BY <1>1
  <1> QED
    BY Invariant, <1>2, PTL DEF Spec, ResourcesSurvive

-----------------------------------------------------------------------------
(* Current links                                                           *)

\* The closure of a transition depends on its target, each member through
\* another one.
Grown == op.kind \in Changes =>
    /\ op.closure \subseteq Below(op.target)
    /\ \A r \in op.closure \ {op.target} : Providers(r) \cap op.closure # {}

\* Who holds a member of the closure belongs to it, but for what another
\* transition's interruption left.
Upward == op.kind \in Changes /\ op.stage \in {"drain", "dispose", "activate", "undo", "remove"} =>
    \A c \in instances, q \in op.closure :
        links[c][q] = "current" => c \in op.closure \cup torn \cup broken

\* What a plan starts beside the closure uses nothing of it, but for torn plugins.
Outside == op.stage = "activate" =>
    \A s \in queue \ torn : s \in op.closure \/ Providers(s) \cap op.closure = {}

\* The plugins that interrupted transitions left, but for one that is just
\* being set up as the target of another transition.
Unsure == torn \ IF op.stage = "activate" THEN {op.target} ELSE {}

\* A plugin that is switched on and was never tried is about to be, or torn.
Seen ==
    /\ ~retired => \A p \in Plugins \ Unsure : tables[p].on /\ status[p] = "none" =>
           \/ op.kind = "load" /\ p \in queue
           \/ op.stage = "activate" /\ p = op.target /\ p \in todo \cup queue
    /\ op.kind \in Changes /\ op.stage \in {"drain", "dispose", "activate", "undo", "remove"} /\ op.old.on =>
           status[op.target] # "none" \/ op.target \in torn

\* No instance holds one that was disposed of, or lacks what it requires.
Held == \A p \in instances \ (broken \cup Unsure) :
          /\ \A q \in Needs[p] : links[p][q] \in {"current", "withdrawn"}
          /\ \A q \in Providers(p) : links[p][q] # "stale"

HInv == IInv /\ Grown /\ Upward /\ Outside /\ Seen /\ Held

\* A closure depends on its target.
LEMMA DependentsBelow ==
  ASSUME NEW t \in Plugins, NEW pool \in SUBSET Plugins
  PROVE  Dependents(t, pool, Uses) \subseteq Below(t)
  BY DEF Dependents, Below

\* Every other member of a closure uses a member.
LEMMA DependentsGrown ==
  ASSUME NEW t \in Plugins, NEW pool \in SUBSET Plugins,
         NEW r \in Dependents(t, pool, Uses), r # t
  PROVE  Providers(r) \cap Dependents(t, pool, Uses) # {}
  <1> DEFINE D == Dependents(t, pool, Uses)
             S == D \ {r}
  <1>1. D \subseteq Plugins /\ t \in S /\ S \in SUBSET Plugins
    BY TargetIn
  <1>2. SUFFICES ASSUME Providers(r) \cap D = {} PROVE FALSE
    OBVIOUS
  <1>3. ASSUME NEW q \in pool, Uses[q] \cap S # {} PROVE q \in S
    <2>1. q \in D
      BY <1>3, UsesTyped, DependentsClosed
    <2>2. q # r
      BY <1>2, <1>3, <2>1, <1>1 DEF Uses
    <2> QED
      BY <2>1, <2>2
  <1>4. r \in S
    <2> HIDE DEF S
    <2> QED
      BY <1>1, <1>3 DEF Dependents
  <1> QED
    BY <1>4

\* What uses a plugin that depends on t depends on t.
LEMMA BelowClosed ==
  ASSUME NEW t \in Plugins, NEW p \in Plugins, Providers(p) \cap Below(t) # {}
  PROVE  p \in Below(t)
  <1>1. Uses[p] = Providers(p)
    BY DEF Uses
  <1> QED
    BY <1>1, UsesTyped, DependentsClosed DEF Below

\* What depends on t comes after it.
LEMMA BelowAfter ==
  ASSUME NEW t \in Plugins, NEW p \in Below(t)
  PROVE  Rank[t] <= Rank[p]
  <1> DEFINE S == {q \in Plugins : Rank[t] <= Rank[q]}
  <1>1. t \in S /\ S \in SUBSET Plugins
    BY PluginAssumption
  <1>2. ASSUME NEW q \in Plugins, Uses[q] \cap S # {} PROVE q \in S
    <2>1. PICK r \in S : r \in Providers(q)
      BY <1>2 DEF Uses
    <2>2. Rank[r] < Rank[q] /\ Rank[t] <= Rank[r] /\ Rank[r] \in Nat /\ Rank[q] \in Nat /\ Rank[t] \in Nat
      BY <2>1, PluginAssumption
    <2> QED
      BY <2>2
  <1>3. p \in S
    <2> HIDE DEF S
    <2> QED
      BY <1>1, <1>2 DEF Below, Dependents
  <1> QED
    BY <1>3

\* The closures of t's transitions.
GrownFrom(t, closure) ==
    /\ closure \subseteq Below(t)
    /\ \A r \in closure \ {t} : Providers(r) \cap closure # {}

\* All closures have that form.
LEMMA ClosuresGrown ==
  ASSUME Typed, NEW t \in Plugins
  PROVE  GrownFrom(t, RunningDependents(t)) /\ GrownFrom(t, EnableClosure(t))
         /\ GrownFrom(t, DisableClosure(t))
  <1>1. ASSUME NEW pool \in SUBSET Plugins PROVE GrownFrom(t, Dependents(t, pool, Uses))
    BY DependentsBelow, DependentsGrown DEF GrownFrom
  <1>2. GrownFrom(t, RunningDependents(t))
    BY <1>1 DEF RunningDependents, Typed, TypeOK
  <1>3. Active \cup {p \in Plugins : View(p) = "BLOCKED"} \in SUBSET Plugins
    BY DEF Active, Typed, TypeOK
  <1>4. GrownFrom(t, EnableClosure(t))
    BY <1>1, <1>3 DEF EnableClosure
  <1>5. GrownFrom(t, {t})
    BY TargetIn DEF GrownFrom, Below
  <1> QED
    BY <1>2, <1>4, <1>5 DEF DisableClosure

\* A plan for a member of the closure starts members of it, and plugins that
\* do not depend on the target.
LEMMA SelectedApart ==
  ASSUME Apart, NEW t \in Plugins, NEW closure \in SUBSET Plugins, t \in closure, GrownFrom(t, closure),
         NEW p \in closure, NEW s \in Selected(p)
  PROVE  s \in closure \/ Providers(s) \cap closure = {}
  <1> DEFINE S == closure \cup (Plugins \ Below(t))
  <1>1. S \in SUBSET Plugins /\ p \in S
    OBVIOUS
  <1>2. ASSUME NEW r \in S, NEW n \in Depends[r] PROVE n \in S
    <2>0. /\ r \in Plugins /\ n \in Plugins /\ n \in Needs[r] /\ n \in Providers(r)
          /\ Rank[n] < Rank[r]
      BY <1>2, PluginAssumption DEF Providers
    <2>1. CASE r \notin Below(t)
      BY <2>0, <2>1, BelowClosed
    <2>2. CASE r = t
      <3>1. ASSUME n \in Below(t) PROVE FALSE
        BY <2>0, <2>2, <3>1, BelowAfter, PluginAssumption
      <3> QED
        BY <2>0, <3>1
    <2>3. CASE r \in closure \ {t}
      <3>1. PICK q \in closure : q \in Providers(r)
        BY <2>3 DEF GrownFrom
      <3>2. CASE n = q \/ n = t
        BY <3>1, <3>2
      <3>3. CASE n # q /\ n # t
        BY <2>0, <3>1, <3>3 DEF Apart, GrownFrom
      <3> QED
        BY <3>2, <3>3
    <2> QED
      BY <1>2, <2>1, <2>2, <2>3
  <1>3. s \in S
    <2> HIDE DEF S
    <2> QED
      BY <1>1, <1>2 DEF Selected
  <1> QED
    BY <1>3, BelowClosed DEF GrownFrom, Selected

\* What the transition of t has is one of its closures.
LEMMA Chosen ==
  ASSUME Typed, NEW t \in Plugins, Reload(t) \/ Enable(t) \/ Disable(t)
  PROVE  /\ op'.closure \in {RunningDependents(t), EnableClosure(t), DisableClosure(t)}
         /\ op'.target = t /\ op'.kind \in Changes /\ op'.old = tables[t] /\ Idle
         /\ op'.stage \in {"drain", "dispose"} /\ queue' = {} /\ ~retired
         /\ UNCHANGED <<tables, instances, links, status, torn, broken, retired>>
  BY DEF Reload, Enable, Disable, MayChange, Begin, Changes, kernel, settings

\* A transition keeps the closure it began with.
LEMMA Growing ==
  ASSUME Typed, Shape, Grown, [Next]_vars
  PROVE  Grown'
  <1> USE Resting DEF Typed, TypeOK, Operation, Shape, Grown, Changes, Idle, Activating
  <1>1. ASSUME NEW k \in Calls, NEW p \in Plugins, Call(k, p)
       PROVE  Grown'
    BY <1>1 DEF Call, settings, kernel, progress
  <1>2. ASSUME NEW k \in Calls, NEW p \in Plugins, NEW q \in Plugins, CallProvider(k, p, q)
       PROVE  Grown'
    BY <1>2 DEF CallProvider, settings, kernel, progress
  <1>3. ASSUME NEW k \in Calls, NEW p \in Plugins, Return(k, p)
       PROVE  Grown'
    BY <1>3 DEF Return, settings, kernel, progress
  <1>4. ASSUME NEW p \in Plugins, SealNext(p)
       PROVE  Grown'
    BY <1>4 DEF SealNext, Seal, settings, kernel, progress, calls
  <1>5. ASSUME NEW p \in Plugins, Drained(p)
       PROVE  Grown'
    BY <1>5 DEF Drained, Enter, settings, kernel, calls
  <1>6. ASSUME NEW p \in Plugins, DisposeNext(p)
       PROVE  Grown'
    BY <1>6 DEF DisposeNext, Dispose, Gone, Cut, Enter, End, Swap, kernel
  <1>7. ASSUME NEW p \in Plugins, PlanNext(p)
       PROVE  Grown'
    BY <1>7 DEF PlanNext, Activating, Planned, settings, kernel, calls
  <1>8. ASSUME NEW p \in Plugins, Block(p)
       PROVE  Grown'
    BY <1>8 DEF Block, Upcoming, Activating, settings, calls
  <1>9. ASSUME NEW p \in Plugins, BeginSetup(p)
       PROVE  Grown'
    BY <1>9 DEF BeginSetup, Upcoming, Activating, settings, calls, progress
  <1>10. ASSUME NEW p \in Plugins, SetupDone(p)
       PROVE  Grown'
    BY <1>10 DEF SetupDone, Upcoming, Activating, settings, calls
  <1>11. ASSUME NEW p \in Plugins, NEW clean \in BOOLEAN, SetupFails(p, clean)
       PROVE  Grown'
    BY <1>11 DEF SetupFails, Rejected, Upcoming, Activating, Gone, Cut, Untried, settings
  <1>12. ASSUME Abandon
       PROVE  Grown'
    BY <1>12 DEF Abandon, Reopen, End, settings, kernel, calls
  <1>13. ASSUME LoadEnds
       PROVE  Grown'
    BY <1>13 DEF LoadEnds, Activated, Activating, End, settings, kernel, calls
  <1>14. ASSUME Commit
       PROVE  Grown'
    BY <1>14 DEF Commit, Activated, Activating, Enter, kernel, calls
  <1>15. ASSUME CommitFails
       PROVE  Grown'
    BY <1>15 DEF CommitFails, Activated, Activating, Enter, settings, kernel, calls
  <1>16. ASSUME Undo
       PROVE  Grown'
    BY <1>16 DEF Undo, Enter, settings, kernel, calls
  <1>17. ASSUME Restored
       PROVE  Grown'
    BY <1>17 DEF Restored, Activated, Activating, Enter, settings, kernel, calls
  <1>18. ASSUME Settle
       PROVE  Grown'
    BY <1>18 DEF Settle, End, settings, calls
  <1>19. ASSUME NEW t \in Plugins, Reload(t) \/ Enable(t) \/ Disable(t)
       PROVE  Grown'
    BY <1>19, Chosen, ClosuresGrown DEF GrownFrom
  <1>20. ASSUME NEW t \in Plugins, Store(t)
       PROVE  Grown'
    BY <1>20 DEF Store, MayChange, kernel, calls, progress
  <1>21. ASSUME NEW p \in Plugins, NEW clean \in BOOLEAN, RendererFails(p, clean)
       PROVE  Grown'
    BY <1>21 DEF RendererFails, Gone, Cut, settings, progress
  <1>22. ASSUME Terminate
       PROVE  Grown'
    BY <1>22 DEF Terminate, Release, settings, kernel, calls, NoOp
  <1>23. ASSUME NEW p \in Plugins, CleanupCancelled(p)
       PROVE  Grown'
    BY <1>23 DEF CleanupCancelled, Breaks, Cut, Escape, Release, Enter, End, NoOp
  <1>24. ASSUME NEW p \in Plugins, NEW clean \in BOOLEAN, SetupCancelled(p, clean)
       PROVE  Grown'
    BY <1>24 DEF SetupCancelled, Rejected, Upcoming, Activating, Gone, Cut, Escape, Release, Enter, End, NoOp
  <1>25. ASSUME NEW p \in Plugins, ReleaseCancelled(p)
       PROVE  Grown'
    BY <1>25 DEF ReleaseCancelled, Upcoming, Activating, Breaks, Cut, Escape, Release, Enter, End, NoOp
  <1>26. ASSUME NEW p \in Plugins, RendererCancelled(p)
       PROVE  Grown'
    BY <1>26 DEF RendererCancelled, Breaks, Cut, settings, progress
  <1>27. CASE UNCHANGED vars
    BY <1>27 DEF vars, settings, kernel, calls, progress
  <1> QED
    BY ONLY [Next]_vars, <1>1, <1>2, <1>3, <1>4, <1>5, <1>6, <1>7, <1>8, <1>9, <1>10, <1>11,
       <1>12, <1>13, <1>14, <1>15, <1>16, <1>17, <1>18, <1>19, <1>20, <1>21, <1>22,
       <1>23, <1>24, <1>25, <1>26, <1>27
       DEF Next, Step, Requests, Calling

\* Setups do not add outer consumers to the closure.
LEMMA Rising ==
  ASSUME Typed, Shape, Config, Linked, Upward, Outside, [Next]_vars
  PROVE  Upward'
  <1> USE Resting DEF Typed, TypeOK, Setups, Operation, Shape, Linked, Upward, Outside,
     Changes, Idle, Activating, Active
  <1>1. ASSUME NEW k \in Calls, NEW p \in Plugins, Call(k, p)
       PROVE  Upward'
    BY <1>1 DEF Call, settings, kernel, progress
  <1>2. ASSUME NEW k \in Calls, NEW p \in Plugins, NEW q \in Plugins, CallProvider(k, p, q)
       PROVE  Upward'
    BY <1>2 DEF CallProvider, settings, kernel, progress
  <1>3. ASSUME NEW k \in Calls, NEW p \in Plugins, Return(k, p)
       PROVE  Upward'
    BY <1>3 DEF Return, settings, kernel, progress
  <1>4. ASSUME NEW p \in Plugins, SealNext(p)
       PROVE  Upward'
    BY <1>4 DEF SealNext, Seal, settings, kernel, progress, calls
  <1>5. ASSUME NEW p \in Plugins, Drained(p)
       PROVE  Upward'
    <2>1. /\ op'.kind = op.kind /\ op'.closure = op.closure /\ op.stage = "drain"
          /\ UNCHANGED <<instances, links, torn, broken>>
      BY <1>5 DEF Drained, Enter, settings, kernel
    <2> QED
      BY <2>1
  <1>6. ASSUME NEW p \in Plugins, DisposeNext(p)
       PROVE  Upward'
    <2>1. /\ op.stage \in {"dispose", "remove"} /\ torn' = torn
          /\ \A c \in instances' : c \in instances /\ (c \in broken => c \in broken')
      BY <1>6 DEF DisposeNext, Dispose, Gone, kernel
    <2>2. \A c, q \in Plugins : links'[c][q] = "current" => links[c][q] = "current"
      <3>1. CASE p \in instances
        <4>1. Cut(p, "stale")
          BY <1>6, <3>1 DEF DisposeNext, Dispose
        <4>2. ASSUME NEW c \in Plugins, NEW q \in Plugins, links'[c][q] = "current"
              PROVE  links[c][q] = "current"
          BY ONLY <4>1, <4>2, Typed DEF Cut, Nothing, Typed, TypeOK
        <4> QED
          BY <4>2
      <3>2. CASE p \notin instances
        BY <1>6, <3>2 DEF DisposeNext, Dispose, kernel
      <3> QED
        BY <3>1, <3>2
    <2>3. (op'.kind = op.kind /\ op'.closure = op.closure) \/ op' = NoOp
      BY <1>6 DEF DisposeNext, Enter, End
    <2>4. CASE op.kind \in Changes
      <3>1. op.closure \subseteq Plugins /\ instances \subseteq Plugins
        OBVIOUS
      <3> QED
        BY <2>1, <2>2, <2>3, <2>4, <3>1
    <2> QED
      BY <2>1, <2>3, <2>4
  <1>7. ASSUME NEW p \in Plugins, PlanNext(p)
       PROVE  Upward'
    BY <1>7 DEF PlanNext, Activating, Planned, settings, kernel, calls
  <1>8. ASSUME NEW p \in Plugins, Block(p)
       PROVE  Upward'
    BY <1>8 DEF Block, Upcoming, Activating, settings, calls
  <1>9. ASSUME NEW p \in Plugins, BeginSetup(p)
       PROVE  Upward'
    BY <1>9 DEF BeginSetup, Upcoming, Activating, settings, calls, progress, First
  <1>10. ASSUME NEW p \in Plugins, SetupDone(p)
       PROVE  Upward'
    BY <1>10 DEF SetupDone, Upcoming, Activating, settings, calls
  <1>11. ASSUME NEW p \in Plugins, NEW clean \in BOOLEAN, SetupFails(p, clean)
       PROVE  Upward'
    BY <1>11 DEF SetupFails, Rejected, Upcoming, Activating, Gone, Cut, Untried, settings
  <1>12. ASSUME Abandon
       PROVE  Upward'
    BY <1>12 DEF Abandon, Reopen, End, settings, kernel, calls
  <1>13. ASSUME LoadEnds
       PROVE  Upward'
    BY <1>13 DEF LoadEnds, Activated, Activating, End, settings, kernel, calls
  <1>14. ASSUME Commit
       PROVE  Upward'
    BY <1>14 DEF Commit, Activated, Activating, Enter, kernel, calls
  <1>15. ASSUME CommitFails
       PROVE  Upward'
    BY <1>15 DEF CommitFails, Activated, Activating, Enter, settings, kernel, calls
  <1>16. ASSUME Undo
       PROVE  Upward'
    BY <1>16 DEF Undo, Enter, settings, kernel, calls
  <1>17. ASSUME Restored
       PROVE  Upward'
    BY <1>17 DEF Restored, Activated, Activating, Enter, settings, kernel, calls
  <1>18. ASSUME Settle
       PROVE  Upward'
    BY <1>18 DEF Settle, End, settings, calls
  <1>19. ASSUME NEW t \in Plugins, Reload(t) \/ Enable(t) \/ Disable(t)
       PROVE  Upward'
    <2>1. ASSUME NEW c \in instances \ broken, NEW q \in op'.closure, links[c][q] = "current"
          PROVE  c \in op'.closure
      <3>0. RunningDependents(t) \subseteq Plugins /\ EnableClosure(t) \subseteq Plugins
            /\ DisableClosure(t) \subseteq Plugins
        BY TargetIn DEF RunningDependents, EnableClosure, DisableClosure
      <3>1. c \in Plugins /\ q \in Plugins
        <4>1. op'.closure \in {RunningDependents(t), EnableClosure(t), DisableClosure(t)}
          BY ONLY <1>19 DEF Reload, Enable, Disable, Begin
        <4>2. instances \subseteq Plugins
          OBVIOUS
        <4> QED
          BY ONLY <2>1, <3>0, <4>1, <4>2
      <3>6. Idle
        BY ONLY <1>19 DEF Reload, Enable, Disable, MayChange
      <3>5. q \in Providers(c) /\ q \in instances \ broken /\ Idle
        BY <2>1, <3>1, <3>6 DEF Linked, Active
      <3>2. CASE Reload(t)
        <4>1. op'.closure = RunningDependents(t)
          BY <3>2 DEF Reload, Begin
        <4> QED
          BY <2>1, <3>5, <4>1, ClosuresClosed
      <3>3. CASE Enable(t)
        <4>1. op'.closure = EnableClosure(t)
          BY <3>3 DEF Enable, Begin
        <4> QED
          BY <2>1, <3>5, <4>1, ClosuresClosed
      <3>4. CASE Disable(t)
        <4>1. op'.closure = DisableClosure(t)
          BY <3>4 DEF Disable, Begin
        <4>2. View(q) = "ACTIVE"
          BY <3>5, ClosuresClosed
        <4>3. View(t) = "ACTIVE"
          <5>1. ASSUME View(t) # "ACTIVE" PROVE FALSE
            <6>1. DisableClosure(t) = {t}
              BY <5>1 DEF DisableClosure
            <6> QED
              BY ONLY <2>1, <4>1, <4>2, <5>1, <6>1
          <5> QED
            BY <5>1
        <4> QED
          BY <2>1, <3>5, <4>1, <4>3, ClosuresClosed
      <3> QED
        BY <1>19, <3>2, <3>3, <3>4
    <2> QED
      BY <1>19, <2>1, Chosen
  <1>20. ASSUME NEW t \in Plugins, Store(t)
       PROVE  Upward'
    BY <1>20 DEF Store, MayChange, kernel, calls, progress
  <1>21. ASSUME NEW p \in Plugins, NEW clean \in BOOLEAN, RendererFails(p, clean)
       PROVE  Upward'
    BY <1>21 DEF RendererFails, Gone, Cut, settings, progress
  <1>22. ASSUME Terminate
       PROVE  Upward'
    BY <1>22 DEF Terminate, Release, settings, kernel, calls, NoOp
  <1>23. ASSUME NEW p \in Plugins, CleanupCancelled(p)
       PROVE  Upward'
    <2>1. op.stage # "undo" /\ Escape
      BY <1>23 DEF CleanupCancelled
    <2>2. op'.stage \in {"settle", "idle"} \/ op'.kind = "terminate"
      BY <2>1, Escaping
    <2> QED
      BY ONLY <2>2 DEF Upward, Changes
  <1>24. ASSUME NEW p \in Plugins, NEW clean \in BOOLEAN, SetupCancelled(p, clean)
       PROVE  Upward'
    <2>1. op.stage # "undo" /\ Escape
      BY <1>24 DEF SetupCancelled, Rejected, Upcoming
    <2>2. op'.stage \in {"settle", "idle"} \/ op'.kind = "terminate"
      BY <2>1, Escaping
    <2> QED
      BY ONLY <2>2 DEF Upward, Changes
  <1>25. ASSUME NEW p \in Plugins, ReleaseCancelled(p)
       PROVE  Upward'
    <2>1. op.stage # "undo" /\ Escape
      BY <1>25 DEF ReleaseCancelled, Upcoming
    <2>2. op'.stage \in {"settle", "idle"} \/ op'.kind = "terminate"
      BY <2>1, Escaping
    <2> QED
      BY ONLY <2>2 DEF Upward, Changes
  <1>26. ASSUME NEW p \in Plugins, RendererCancelled(p)
       PROVE  Upward'
    BY <1>26 DEF RendererCancelled, Breaks, Cut, settings, progress
  <1>27. CASE UNCHANGED vars
    BY <1>27 DEF vars, settings, kernel, calls, progress
  <1> QED
    BY ONLY [Next]_vars, <1>1, <1>2, <1>3, <1>4, <1>5, <1>6, <1>7, <1>8, <1>9, <1>10, <1>11,
       <1>12, <1>13, <1>14, <1>15, <1>16, <1>17, <1>18, <1>19, <1>20, <1>21, <1>22,
       <1>23, <1>24, <1>25, <1>26, <1>27
       DEF Next, Step, Requests, Calling

\* Plans start nothing beside the closure that uses a member of it.
LEMMA Planning ==
  ASSUME Apart, Typed, Shape, Grown, Seen, Outside, [Next]_vars
  PROVE  Outside'
  <1> USE Resting DEF Typed, TypeOK, Operation, Shape, Outside, Idle, Activating, Changes
  <1>1. ASSUME NEW k \in Calls, NEW p \in Plugins, Call(k, p)
       PROVE  Outside'
    BY <1>1 DEF Call, settings, kernel, progress
  <1>2. ASSUME NEW k \in Calls, NEW p \in Plugins, NEW q \in Plugins, CallProvider(k, p, q)
       PROVE  Outside'
    BY <1>2 DEF CallProvider, settings, kernel, progress
  <1>3. ASSUME NEW k \in Calls, NEW p \in Plugins, Return(k, p)
       PROVE  Outside'
    BY <1>3 DEF Return, settings, kernel, progress
  <1>4. ASSUME NEW p \in Plugins, SealNext(p)
       PROVE  Outside'
    BY <1>4 DEF SealNext, Seal, settings, kernel, progress, calls
  <1>5. ASSUME NEW p \in Plugins, Drained(p)
       PROVE  Outside'
    BY <1>5 DEF Drained, Enter, settings, kernel, calls
  <1>6. ASSUME NEW p \in Plugins, DisposeNext(p)
       PROVE  Outside'
    BY <1>6 DEF DisposeNext, Dispose, Gone, Cut, Enter, End, Swap, kernel
  <1>7. ASSUME NEW p \in Plugins, PlanNext(p)
       PROVE  Outside'
    <2>1. CASE op.kind = "load"
      BY <1>7, <2>1 DEF PlanNext, Changes
    <2>2. CASE op.kind \in Changes /\ op.stage = "activate"
      <3>1. GrownFrom(op.target, op.closure) /\ op.target \in op.closure /\ p \in op.closure
        BY <1>7, <2>2 DEF PlanNext, First, GrownFrom, Grown
      <3>2. ASSUME NEW s \in Planned(p) \ torn PROVE s \in op.closure \/ Providers(s) \cap op.closure = {}
        <4>1. CASE s \in Selected(p)
          BY <3>1, <4>1, SelectedApart
        <4>2. CASE status[s] = "none"
          <5>1. tables[s].on /\ queue = {} /\ ~retired /\ op.kind # "load"
            BY <1>7, <2>2, <3>2 DEF PlanNext, Planned, WantsStart, Runnable
          <5>2. s \in Plugins \ Unsure
            BY <3>2 DEF Planned, Unsure
          <5> QED
            BY <3>1, <4>2, <5>1, <5>2 DEF Seen
        <4> QED
          BY <3>2, <4>1, <4>2 DEF Planned
      <3> QED
        BY <1>7, <3>2 DEF PlanNext, settings
    <2> QED
      BY <1>7, <2>1, <2>2 DEF PlanNext, Idle, Changes
  <1>8. ASSUME NEW p \in Plugins, Block(p)
       PROVE  Outside'
    BY <1>8 DEF Block, Upcoming, Activating, settings, calls
  <1>9. ASSUME NEW p \in Plugins, BeginSetup(p)
       PROVE  Outside'
    BY <1>9 DEF BeginSetup, Upcoming, Activating, settings, calls, progress
  <1>10. ASSUME NEW p \in Plugins, SetupDone(p)
       PROVE  Outside'
    BY <1>10 DEF SetupDone, Upcoming, Activating, settings, calls
  <1>11. ASSUME NEW p \in Plugins, NEW clean \in BOOLEAN, SetupFails(p, clean)
       PROVE  Outside'
    BY <1>11 DEF SetupFails, Rejected, Upcoming, Activating, Gone, Cut, Untried, settings
  <1>12. ASSUME Abandon
       PROVE  Outside'
    BY <1>12 DEF Abandon, Reopen, End, settings, kernel, calls
  <1>13. ASSUME LoadEnds
       PROVE  Outside'
    BY <1>13 DEF LoadEnds, Activated, Activating, End, settings, kernel, calls
  <1>14. ASSUME Commit
       PROVE  Outside'
    BY <1>14 DEF Commit, Activated, Activating, Enter, kernel, calls
  <1>15. ASSUME CommitFails
       PROVE  Outside'
    BY <1>15 DEF CommitFails, Activated, Activating, Enter, settings, kernel, calls
  <1>16. ASSUME Undo
       PROVE  Outside'
    BY <1>16 DEF Undo, Enter, settings, kernel, calls
  <1>17. ASSUME Restored
       PROVE  Outside'
    BY <1>17 DEF Restored, Activated, Activating, Enter, settings, kernel, calls
  <1>18. ASSUME Settle
       PROVE  Outside'
    BY <1>18 DEF Settle, End, settings, calls
  <1>19. ASSUME NEW t \in Plugins, Reload(t) \/ Enable(t) \/ Disable(t)
       PROVE  Outside'
    BY <1>19, Chosen
  <1>20. ASSUME NEW t \in Plugins, Store(t)
       PROVE  Outside'
    BY <1>20 DEF Store, MayChange, kernel, calls, progress
  <1>21. ASSUME NEW p \in Plugins, NEW clean \in BOOLEAN, RendererFails(p, clean)
       PROVE  Outside'
    BY <1>21 DEF RendererFails, Gone, Cut, settings, progress
  <1>22. ASSUME Terminate
       PROVE  Outside'
    BY <1>22 DEF Terminate, Release, settings, kernel, calls, NoOp
  <1>23. ASSUME NEW p \in Plugins, CleanupCancelled(p)
       PROVE  Outside'
    BY <1>23 DEF CleanupCancelled, Breaks, Cut, Escape, Release, Enter, End, NoOp
  <1>24. ASSUME NEW p \in Plugins, NEW clean \in BOOLEAN, SetupCancelled(p, clean)
       PROVE  Outside'
    BY <1>24 DEF SetupCancelled, Rejected, Upcoming, Activating, Gone, Cut, Escape, Release, Enter, End, NoOp
  <1>25. ASSUME NEW p \in Plugins, ReleaseCancelled(p)
       PROVE  Outside'
    BY <1>25 DEF ReleaseCancelled, Upcoming, Activating, Breaks, Cut, Escape, Release, Enter, End, NoOp
  <1>26. ASSUME NEW p \in Plugins, RendererCancelled(p)
       PROVE  Outside'
    BY <1>26 DEF RendererCancelled, Breaks, Cut, settings, progress
  <1>27. CASE UNCHANGED vars
    BY <1>27 DEF vars, settings, kernel, calls, progress
  <1> QED
    BY ONLY [Next]_vars, <1>1, <1>2, <1>3, <1>4, <1>5, <1>6, <1>7, <1>8, <1>9, <1>10, <1>11,
       <1>12, <1>13, <1>14, <1>15, <1>16, <1>17, <1>18, <1>19, <1>20, <1>21, <1>22,
       <1>23, <1>24, <1>25, <1>26, <1>27
       DEF Next, Step, Requests, Calling

\* An interrupted transition leaves its target torn, or ends the generation.
LEMMA EscapeSeen ==
  ASSUME Typed, Shape, Seen, Escape, op.stage # "undo",
         \A q \in Plugins : status'[q] = "none" => status[q] = "none"
  PROVE  Seen'
  <1>1. tables' = tables
    BY DEF Escape
  <1>2. CASE op.kind = "load"
    <2>1. retired' = TRUE /\ op'.kind = "terminate"
      BY <1>2 DEF Escape, Release, NoOp
    <2> QED
      BY <2>1 DEF Seen, Changes
  <1>3. CASE op.kind = "terminate"
    <2>1. op' = NoOp /\ retired' = retired /\ torn \subseteq torn' /\ op.stage = "dispose"
      BY <1>3 DEF Escape, End, Shape
    <2> QED
      BY <1>1, <1>3, <2>1, Resting DEF Seen, Unsure, Changes
  <1>4. CASE op.kind \notin {"load", "terminate"}
    <2>1. op' = [op EXCEPT !.stage = "settle"] /\ retired' = retired
      BY <1>4 DEF Escape, Enter
    <2>2. torn' = torn \cup IF op.stage \in {"activate", "remove"} THEN {op.target} ELSE {}
      BY <1>4 DEF Escape
    <2>3. op'.stage = "settle" /\ Unsure' = torn'
      BY <2>1 DEF Typed, TypeOK, Operation, Unsure
    <2> QED
      BY <1>1, <1>4, <2>1, <2>2, <2>3 DEF Seen, Unsure
  <1> QED
    BY <1>2, <1>3, <1>4

\* Only the target of a transition can be switched on without having been tried.
LEMMA Seeing ==
  ASSUME Typed, Shape, Setups, Seen, [Next]_vars
  PROVE  Seen'
  <1> USE Resting DEF Typed, TypeOK, Setups, Operation, Table, Shape, Seen, Unsure, Idle,
     Activating, Changes
  <1>1. ASSUME NEW k \in Calls, NEW p \in Plugins, Call(k, p)
       PROVE  Seen'
    BY <1>1 DEF Call, settings, kernel, progress
  <1>2. ASSUME NEW k \in Calls, NEW p \in Plugins, NEW q \in Plugins, CallProvider(k, p, q)
       PROVE  Seen'
    BY <1>2 DEF CallProvider, settings, kernel, progress
  <1>3. ASSUME NEW k \in Calls, NEW p \in Plugins, Return(k, p)
       PROVE  Seen'
    BY <1>3 DEF Return, settings, kernel, progress
  <1>4. ASSUME NEW p \in Plugins, SealNext(p)
       PROVE  Seen'
    BY <1>4 DEF SealNext, Seal, settings, kernel, progress, calls
  <1>5. ASSUME NEW p \in Plugins, Drained(p)
       PROVE  Seen'
    BY <1>5 DEF Drained, Enter, settings, kernel, calls
  <1>6. ASSUME NEW p \in Plugins, DisposeNext(p)
       PROVE  Seen'
    <2>1. /\ \A q \in Plugins : status'[q] = "none" => status[q] = "none"
          /\ UNCHANGED <<torn, retired>>
      BY <1>6 DEF DisposeNext, Dispose, kernel
    <2>2. op.stage \in {"dispose", "remove"} /\ queue = {}
      BY <1>6 DEF DisposeNext
    <2>3. ~retired => \A q \in Plugins \ torn : ~(tables[q].on /\ status[q] = "none")
      BY <2>2
    <2>4. CASE UNCHANGED <<op, queue, tables>>
      BY <2>1, <2>2, <2>3, <2>4
    <2>5. CASE End /\ UNCHANGED tables
      BY <2>1, <2>3, <2>5 DEF End
    <2>6. CASE op.kind # "terminate" /\ op.stage = "dispose" /\ Enter("activate", op.closure) /\ Swap(op.new)
      <3>1. op.kind \in Changes /\ op.target \in op.closure
        BY <2>6
      <3>2. op'.stage = "activate" /\ op'.target = op.target /\ op'.old = op.old /\ op'.kind = op.kind
            /\ todo' = op.closure
        BY <2>6 DEF Enter
      <3>3. \A q \in Plugins \ {op.target} : tables'[q] = tables[q]
        BY <2>6 DEF Swap
      <3> QED
        BY <2>1, <2>2, <2>3, <3>1, <3>2, <3>3
    <2>7. CASE op.stage = "remove" /\ Enter("restore", op.closure) /\ Swap(op.old)
      <3>1. op.kind \in Changes /\ Unsure' = torn
        BY <2>1, <2>7 DEF Enter
      <3>2. op'.stage = "restore" /\ op'.target = op.target /\ op'.old = op.old /\ op'.kind = op.kind
        BY <2>7 DEF Enter
      <3>3. (\A q \in Plugins \ {op.target} : tables'[q] = tables[q]) /\ tables'[op.target] = op.old
        BY <2>7 DEF Swap
      <3>4. (op.old.on => status[op.target] # "none" \/ op.target \in torn) /\ op.target \in Plugins
        BY <2>7, <3>1
      <3>5. ~retired => \A q \in Plugins \ torn : ~(tables'[q].on /\ status'[q] = "none")
        BY ONLY <2>1, <2>3, <3>3, <3>4
      <3> QED
        <4>1. op'.stage = "restore" /\ retired' = retired /\ Unsure' = torn
          BY <2>1, <3>1, <3>2
        <4> QED
          BY ONLY <3>5, <4>1 DEF Seen
    <2> QED
      BY <1>6, <2>4, <2>5, <2>6, <2>7 DEF DisposeNext
  <1>7. ASSUME NEW p \in Plugins, PlanNext(p)
       PROVE  Seen'
    BY <1>7 DEF PlanNext, Activating, Planned, settings, kernel, calls, WantsStart, View,
       Runnable, Selected, First
  <1>8. ASSUME NEW p \in Plugins, Block(p)
       PROVE  Seen'
    BY <1>8 DEF Block, Upcoming, Activating, settings, calls, First
  <1>9. ASSUME NEW p \in Plugins, BeginSetup(p)
       PROVE  Seen'
    BY <1>9 DEF BeginSetup, Upcoming, Activating, settings, calls, progress, First
  <1>10. ASSUME NEW p \in Plugins, SetupDone(p)
       PROVE  Seen'
    BY <1>10 DEF SetupDone, Upcoming, Activating, settings, calls, First
  <1>11. ASSUME NEW p \in Plugins, NEW clean \in BOOLEAN, SetupFails(p, clean)
       PROVE  Seen'
    BY <1>11 DEF SetupFails, Rejected, Upcoming, Activating, Gone, Cut, Untried, settings, First
  <1>12. ASSUME Abandon
       PROVE  Seen'
    BY <1>12 DEF Abandon, Reopen, End, settings, kernel, calls
  <1>13. ASSUME LoadEnds
       PROVE  Seen'
    BY <1>13 DEF LoadEnds, Activated, Activating, End, settings, kernel, calls
  <1>14. ASSUME Commit
       PROVE  Seen'
    BY <1>14 DEF Commit, Activated, Activating, Enter, kernel, calls
  <1>15. ASSUME CommitFails
       PROVE  Seen'
    BY <1>15 DEF CommitFails, Activated, Activating, Enter, settings, kernel, calls
  <1>16. ASSUME Undo
       PROVE  Seen'
    BY <1>16 DEF Undo, Enter, settings, kernel, calls
  <1>17. ASSUME Restored
       PROVE  Seen'
    BY <1>17 DEF Restored, Activated, Activating, Enter, settings, kernel, calls
  <1>18. ASSUME Settle
       PROVE  Seen'
    BY <1>18 DEF Settle, End, settings, calls
  <1>19. ASSUME NEW t \in Plugins, Reload(t) \/ Enable(t) \/ Disable(t)
       PROVE  Seen'
    <2>1. ~retired /\ Unsure = torn /\ Unsure' = torn /\ op.kind # "load" /\ op.stage # "activate"
      BY <1>19, Chosen
    <2>2. \A q \in Plugins \ torn : ~(tables[q].on /\ status[q] = "none")
      BY <2>1
    <2> QED
      BY <1>19, <2>1, <2>2, Chosen
  <1>20. ASSUME NEW t \in Plugins, Store(t)
       PROVE  Seen'
    BY <1>20 DEF Store, MayChange, kernel, calls, progress, View
  <1>21. ASSUME NEW p \in Plugins, NEW clean \in BOOLEAN, RendererFails(p, clean)
       PROVE  Seen'
    BY <1>21 DEF RendererFails, Gone, Cut, settings, progress
  <1>22. ASSUME Terminate
       PROVE  Seen'
    BY <1>22 DEF Terminate, Release, settings, kernel, calls, NoOp
  <1>23. ASSUME NEW p \in Plugins, CleanupCancelled(p)
       PROVE  Seen'
    <2>1. op.stage # "undo" /\ Escape /\ \A q \in Plugins : status'[q] = "none" => status[q] = "none"
      BY <1>23 DEF CleanupCancelled
    <2> QED
      BY <2>1, EscapeSeen
  <1>24. ASSUME NEW p \in Plugins, NEW clean \in BOOLEAN, SetupCancelled(p, clean)
       PROVE  Seen'
    <2>1. op.stage # "undo" /\ Escape /\ \A q \in Plugins : status'[q] = "none" => status[q] = "none"
      BY <1>24 DEF SetupCancelled, Rejected, Upcoming
    <2> QED
      BY <2>1, EscapeSeen
  <1>25. ASSUME NEW p \in Plugins, ReleaseCancelled(p)
       PROVE  Seen'
    <2>1. op.stage # "undo" /\ Escape /\ \A q \in Plugins : status'[q] = "none" => status[q] = "none"
      BY <1>25 DEF ReleaseCancelled, Upcoming
    <2> QED
      BY <2>1, EscapeSeen
  <1>26. ASSUME NEW p \in Plugins, RendererCancelled(p)
       PROVE  Seen'
    BY <1>26 DEF RendererCancelled, Breaks, Cut, settings, progress
  <1>27. CASE UNCHANGED vars
    BY <1>27 DEF vars, settings, kernel, calls, progress
  <1> QED
    BY ONLY [Next]_vars, <1>1, <1>2, <1>3, <1>4, <1>5, <1>6, <1>7, <1>8, <1>9, <1>10, <1>11,
       <1>12, <1>13, <1>14, <1>15, <1>16, <1>17, <1>18, <1>19, <1>20, <1>21, <1>22,
       <1>23, <1>24, <1>25, <1>26, <1>27
       DEF Next, Step, Requests, Calling

\* No instance that stays holds what goes.
LEMMA NothingLeft ==
  ASSUME Typed, Shape, Cleared, Linked, Upward, NEW p \in Plugins, p \in instances,
         op.stage \in {"dispose", "remove"}, Last(p, todo),
         NEW c \in instances \ (broken \cup Unsure \cup {p})
  PROVE  links[c][p] # "current"
  <1>1. SUFFICES ASSUME links[c][p] = "current" PROVE FALSE
    OBVIOUS
  <1>2. c \in Plugins /\ p \in Providers(c)
    BY <1>1 DEF Typed, TypeOK, Linked
  <1>3. Rank[p] < Rank[c] /\ Rank[p] \in Nat /\ Rank[c] \in Nat
    BY <1>2, PluginAssumption
  <1>4. c \notin todo
    BY <1>3 DEF Last
  <1>5. op.kind \in Changes
    BY <1>4 DEF Shape, Cleared, Typed, TypeOK, Operation, Changes, Idle
  <1>6. p \in op.closure
    BY <1>5 DEF Shape, Last
  <1>7. c \in op.closure
    BY <1>1, <1>5, <1>6 DEF Upward, Unsure
  <1> QED
    BY <1>4, <1>5, <1>7 DEF Cleared, Changes

\* Cutting the links to what goes leaves nothing stale with those who stay.
LEMMA CutHeld ==
  ASSUME Typed, Held, NEW p \in Plugins, NEW how \in {"stale", "withdrawn"}, Cut(p, how),
         instances' \subseteq instances, broken \ {p} \subseteq broken',
         p \in instances' => p \in broken',
         Unsure \cap instances' \subseteq Unsure',
         how = "stale" => \A c \in instances \ (broken \cup Unsure \cup {p}) : links[c][p] # "current"
  PROVE  Held'
  <1>1. SUFFICES ASSUME NEW c \in instances' \ (broken' \cup Unsure')
                 PROVE  /\ \A q \in Needs[c] : links'[c][q] \in {"current", "withdrawn"}
                        /\ \A q \in Providers(c) : links'[c][q] # "stale"
    BY DEF Held
  <1>2. c \in instances \ (broken \cup Unsure \cup {p})
    OBVIOUS
  <1>3. c \in Plugins /\ Needs[c] \subseteq Plugins /\ Providers(c) \subseteq Plugins
    BY <1>2, PluginAssumption DEF Typed, TypeOK, Providers
  <1>4. links'[c] = [links[c] EXCEPT ![p] = IF @ = "current" THEN how ELSE @]
    BY <1>1, <1>3 DEF Cut
  <1>5. \A q \in Plugins : q # p => links'[c][q] = links[c][q]
    BY <1>3, <1>4 DEF Typed, TypeOK
  <1>6. links'[c][p] = links[c][p] \/ (how = "withdrawn" /\ links'[c][p] = how)
    BY <1>2, <1>3, <1>4 DEF Typed, TypeOK
  <1> QED
    BY <1>2, <1>3, <1>5, <1>6 DEF Held

\* A step that changes neither instances nor links, and makes nobody sure.
LEMMA KeptHeld ==
  ASSUME Held, UNCHANGED <<links, instances, broken>>, Unsure \subseteq Unsure'
  PROVE  Held'
  BY DEF Held

\* Every step leaves the links of the instances that stay.
LEMMA Holding ==
  ASSUME IInv, Upward, Held, [Next]_vars
  PROVE  Held'
  <1>1. ASSUME NEW k \in Calls, NEW p \in Plugins, Call(k, p)
       PROVE  Held'
    BY <1>1 DEF Call, settings, kernel, progress, Held, Unsure
  <1>2. ASSUME NEW k \in Calls, NEW p \in Plugins, NEW q \in Plugins, CallProvider(k, p, q)
       PROVE  Held'
    BY <1>2 DEF CallProvider, settings, kernel, progress, Held, Unsure
  <1>3. ASSUME NEW k \in Calls, NEW p \in Plugins, Return(k, p)
       PROVE  Held'
    BY <1>3 DEF Return, settings, kernel, progress, Held, Unsure
  <1>4. ASSUME NEW p \in Plugins, SealNext(p)
       PROVE  Held'
    BY <1>4 DEF SealNext, Seal, settings, kernel, progress, calls, Held, Unsure
  <1>5. ASSUME NEW p \in Plugins, Drained(p)
       PROVE  Held'
    <2>1. UNCHANGED <<links, instances, broken, torn>> /\ op.stage = "drain"
      BY <1>5 DEF Drained, settings, kernel
    <2>2. Unsure = torn
      BY <2>1 DEF Unsure
    <2>3. Unsure' = torn' \/ op' = op
      BY <1>5 DEF Drained, Enter, Unsure, IInv, Typed, TypeOK, Operation
    <2> QED
      BY <2>1, <2>2, <2>3, KeptHeld DEF IInv, Unsure
  <1>6. ASSUME NEW p \in Plugins, DisposeNext(p)
       PROVE  Held'
    <2>1. op.stage \in {"dispose", "remove"} /\ Last(p, todo) /\ torn' = torn /\ Unsure = torn
      BY <1>6 DEF DisposeNext, Unsure
    <2>2. instances' = instances \ {p}
      BY <1>6 DEF DisposeNext, Dispose, Gone, kernel
    <2>3. ASSUME NEW c \in torn \cap instances' PROVE c \in Unsure'
      <3>1. CASE op'.stage # "activate"
        BY <2>1, <2>3, <3>1 DEF Unsure
      <3>2. CASE op'.stage = "activate"
        <4>1. /\ todo = {p} /\ op.kind # "terminate" /\ op.stage = "dispose"
              /\ op' = [op EXCEPT !.stage = "activate"]
          BY <1>6, <3>2, Resting DEF DisposeNext, Enter, End, IInv, Typed, TypeOK, Operation
        <4>2. op.kind \in Changes
          BY <4>1 DEF IInv, Shape, Typed, TypeOK, Operation, Changes, Idle
        <4>3. op.target \notin instances'
          BY <2>2, <4>1, <4>2 DEF IInv, Shape, Cleared
        <4>4. op'.target = op.target
          BY <4>1 DEF IInv, Typed, TypeOK, Operation
        <4> QED
          BY <2>1, <2>3, <4>3, <4>4 DEF Unsure
      <3> QED
        BY <3>1, <3>2
    <2>4. CASE p \in instances
      <3>1. Gone(p) /\ Cut(p, "stale")
        BY <1>6, <2>4 DEF DisposeNext, Dispose
      <3>2. \A c \in instances \ (broken \cup Unsure \cup {p}) : links[c][p] # "current"
        BY <2>1, <2>4, NothingLeft DEF IInv
      <3>3. broken' = broken \ {p}
        BY <3>1 DEF Gone
      <3>4. Unsure \cap instances' \subseteq Unsure'
        BY <2>1, <2>3
      <3> QED
        BY <2>2, <3>1, <3>2, <3>3, <3>4, CutHeld DEF IInv
    <2>5. CASE p \notin instances
      <3>1. links' = links /\ broken' = broken /\ instances' = instances
        BY <1>6, <2>5 DEF DisposeNext, Dispose, kernel
      <3> QED
        BY <2>1, <2>3, <3>1 DEF Held
    <2> QED
      BY <2>4, <2>5
  <1>7. ASSUME NEW p \in Plugins, PlanNext(p)
       PROVE  Held'
    BY <1>7 DEF PlanNext, Activating, Planned, settings, kernel, calls, Held, Unsure
  <1>8. ASSUME NEW p \in Plugins, Block(p)
       PROVE  Held'
    BY <1>8 DEF Block, Upcoming, Activating, settings, calls, Held, Unsure
  <1>9. ASSUME NEW p \in Plugins, BeginSetup(p)
       PROVE  Held'
    <2>1. Needs[p] \subseteq Active /\ Needs[p] \subseteq Providers(p) /\ Providers(p) \subseteq Plugins
      BY <1>9, PluginAssumption DEF BeginSetup, Missing, Providers
    <2>2. \A q \in Plugins : links'[p][q] = IF q \in Providers(p) \cap Active THEN "current" ELSE "none"
      BY <1>9 DEF BeginSetup, IInv, Typed, TypeOK
    <2>3. \A c \in instances : links'[c] = links[c]
      BY <1>9 DEF BeginSetup, IInv, Typed, TypeOK
    <2>4. instances' = instances \cup {p} /\ broken' = broken /\ Unsure' = Unsure
      BY <1>9 DEF BeginSetup, progress, settings, Unsure
    <2> QED
      BY <2>1, <2>2, <2>3, <2>4 DEF Held
  <1>10. ASSUME NEW p \in Plugins, SetupDone(p)
       PROVE  Held'
    BY <1>10 DEF SetupDone, Upcoming, Activating, settings, calls, Held, Unsure
  <1>11. ASSUME NEW p \in Plugins, NEW clean \in BOOLEAN, SetupFails(p, clean)
       PROVE  Held'
    <2>1. Gone(p) /\ Cut(p, "stale") /\ p \in instances /\ status[p] = "SETUP"
      BY <1>11 DEF SetupFails, Rejected
    <2>2. \A c \in instances : links[c][p] # "current"
      BY <2>1 DEF IInv, Linked, Active, Typed, TypeOK
    <2>3. Unsure \subseteq Unsure'
      BY <1>11 DEF SetupFails, settings, Unsure
    <2> QED
      BY <2>1, <2>2, <2>3, CutHeld DEF Gone, IInv
  <1>12. ASSUME Abandon
       PROVE  Held'
    <2>1. UNCHANGED <<links, instances, broken, torn>> /\ op.stage = "drain" /\ op' = NoOp
      BY <1>12 DEF Abandon, End, settings
    <2>2. Unsure = torn /\ Unsure' = torn'
      BY <2>1, Resting DEF Unsure
    <2> QED
      BY <2>1, <2>2, KeptHeld
  <1>13. ASSUME LoadEnds
       PROVE  Held'
    <2>1. UNCHANGED <<links, instances, broken, torn>> /\ op' = NoOp
      BY <1>13 DEF LoadEnds, End, settings, kernel
    <2>2. Unsure \subseteq torn /\ Unsure' = torn'
      BY <2>1, Resting DEF Unsure
    <2> QED
      BY <2>1, <2>2, KeptHeld
  <1>14. ASSUME Commit
       PROVE  Held'
    BY <1>14 DEF Commit, Activated, Activating, Enter, kernel, calls, Held, Unsure
  <1>15. ASSUME CommitFails
       PROVE  Held'
    BY <1>15 DEF CommitFails, Activated, Activating, Enter, settings, kernel, calls, Held, Unsure
  <1>16. ASSUME Undo
       PROVE  Held'
    BY <1>16 DEF Undo, Enter, settings, kernel, calls, Held, Unsure
  <1>17. ASSUME Restored
       PROVE  Held'
    BY <1>17 DEF Restored, Activated, Activating, Enter, settings, kernel, calls, Held, Unsure
  <1>18. ASSUME Settle
       PROVE  Held'
    <2>1. UNCHANGED <<links, instances, broken, torn>> /\ op.stage = "settle" /\ op' = NoOp
      BY <1>18 DEF Settle, End, settings
    <2>2. Unsure = torn /\ Unsure' = torn'
      BY <2>1, Resting DEF Unsure
    <2> QED
      BY <2>1, <2>2, KeptHeld
  <1>19. ASSUME NEW t \in Plugins, NEW kind, NEW closure, NEW drained, NEW new,
              Opening(kind, t, closure, drained, new)
       PROVE  Held'
    <2>1. UNCHANGED <<links, instances, broken, torn>>
      BY <1>19 DEF Opening, Begin, kernel
    <2>2. op'.stage \in {"drain", "dispose"}
      BY <1>19 DEF Opening, Begin
    <2>3. Unsure \subseteq torn /\ Unsure' = torn'
      BY <2>2 DEF Unsure
    <2> QED
      BY <2>1, <2>3, KeptHeld
  <1>20. ASSUME NEW t \in Plugins, Store(t)
       PROVE  Held'
    <2>1. UNCHANGED <<links, instances, broken, op>> /\ torn' = torn \ {t} /\ View(t) = "DISABLED"
      BY <1>20 DEF Store, kernel, progress
    <2>2. t \notin instances
      <3>1. ~tables[t].on
        BY <2>1 DEF View, IInv, Typed, TypeOK
      <3> QED
        BY <3>1 DEF IInv, Config
    <2>3. \A c \in instances' : c \in Unsure => c \in Unsure'
      BY <2>1, <2>2 DEF Unsure
    <2> QED
      BY ONLY <2>1, <2>3, Held DEF Held
  <1>21. ASSUME NEW p \in Plugins, NEW clean \in BOOLEAN, RendererFails(p, clean)
       PROVE  Held'
    <2>1. Gone(p) /\ Cut(p, "withdrawn") /\ Unsure' = Unsure
      BY <1>21 DEF RendererFails, settings, progress, Unsure
    <2> QED
      BY <2>1, CutHeld DEF Gone, IInv
  <1>22. ASSUME Terminate
       PROVE  Held'
    BY <1>22 DEF Terminate, Release, settings, kernel, calls, Held, Unsure
  <1>23. ASSUME NEW p \in Plugins, CleanupCancelled(p)
       PROVE  Held'
    <2>1. Breaks(p) /\ Cut(p, "stale") /\ Escape /\ p \in instances
          /\ op.stage \in {"dispose", "remove"} /\ Last(p, todo)
      BY <1>23 DEF CleanupCancelled
    <2>2. \A c \in instances \ (broken \cup Unsure \cup {p}) : links[c][p] # "current"
      BY <2>1, NothingLeft DEF IInv
    <2>3. Unsure \subseteq Unsure'
      <3>1. torn \subseteq torn' /\ op'.stage # "activate"
        BY <2>1, Escaping DEF IInv, Escape
      <3> QED
        BY <3>1 DEF Unsure
    <2> QED
      BY <2>1, <2>2, <2>3, CutHeld DEF Breaks, IInv
  <1>24. ASSUME NEW p \in Plugins, NEW clean \in BOOLEAN, SetupCancelled(p, clean)
       PROVE  Held'
    <2>1. Gone(p) /\ Cut(p, "stale") /\ p \in instances /\ status[p] = "SETUP"
      BY <1>24 DEF SetupCancelled, Rejected
    <2>2. \A c \in instances : links[c][p] # "current"
      BY <2>1 DEF IInv, Linked, Active, Typed, TypeOK
    <2>3. Unsure \subseteq Unsure'
      <3>1. op.stage \in {"activate", "restore"} /\ Escape
        BY <1>24 DEF SetupCancelled, Rejected, Upcoming, Activating
      <3>2. op'.stage # "activate" /\ torn \subseteq torn'
        BY <3>1, Escaping DEF IInv, Escape
      <3> QED
        BY <3>2 DEF Unsure
    <2> QED
      BY <2>1, <2>2, <2>3, CutHeld DEF Gone, IInv
  <1>25. ASSUME NEW p \in Plugins, ReleaseCancelled(p)
       PROVE  Held'
    <2>1. Breaks(p) /\ Cut(p, "stale") /\ p \in instances /\ status[p] = "SETUP"
      BY <1>25 DEF ReleaseCancelled
    <2>2. \A c \in instances : links[c][p] # "current"
      BY <2>1 DEF IInv, Linked, Active, Typed, TypeOK
    <2>3. Unsure \subseteq Unsure'
      <3>1. op.stage \in {"activate", "restore"} /\ Escape
        BY <1>25 DEF ReleaseCancelled, Upcoming, Activating
      <3>2. op'.stage # "activate" /\ torn \subseteq torn'
        BY <3>1, Escaping DEF IInv, Escape
      <3> QED
        BY <3>2 DEF Unsure
    <2> QED
      BY <2>1, <2>2, <2>3, CutHeld DEF Breaks, IInv
  <1>26. ASSUME NEW p \in Plugins, RendererCancelled(p)
       PROVE  Held'
    <2>1. Breaks(p) /\ Cut(p, "withdrawn") /\ Unsure' = Unsure
      BY <1>26 DEF RendererCancelled, settings, progress, Unsure
    <2> QED
      BY <2>1, CutHeld DEF Breaks, IInv
  <1>27. CASE UNCHANGED vars
    BY <1>27 DEF vars, settings, kernel, calls, progress, Held, Unsure
  <1> QED
    BY ONLY IInv, [Next]_vars, Openings, <1>1, <1>2, <1>3, <1>4, <1>5, <1>6, <1>7, <1>8,
       <1>9, <1>10, <1>11, <1>12, <1>13, <1>14, <1>15, <1>16, <1>17, <1>18, <1>19, <1>20,
       <1>21, <1>22,
       <1>23, <1>24, <1>25, <1>26, <1>27
       DEF Next, Step, Requests, Calling, IInv

\* All of this holds when loading begins.
LEMMA InitHolds == Init => HInv
  <1> SUFFICES ASSUME Init PROVE HInv
    OBVIOUS
  <1>1. IInv /\ op.kind = "load" /\ op.closure = {}
    BY InitInv DEF Init, NoOp
  <1> QED
    BY <1>1 DEF Init, HInv, Grown, Upward, Outside, Seen, Unsure, Held, Changes

\* And every step keeps it.
LEMMA HoldsInductive ==
  ASSUME Apart
  PROVE  HInv /\ [Next]_vars => HInv'
  BY Inductive, Growing, Rising, Planning, Seeing, Holding DEF HInv, IInv, Typed

\* Where required plugins are apart, no active plugin keeps a provider that a
\* transition disposed of or lacks one that it requires, but for plugins that
\* an interrupted transition left.
THEOREM LinksCurrent ==
  ASSUME Apart
  PROVE  Spec => []HoldsCurrent
  <1>1. HInv => HoldsCurrent
    BY DEF HInv, Held, Unsure, HoldsCurrent, Active, Idle
  <1>2. HInv /\ [Next]_vars => HInv'
    BY HoldsInductive
  <1> QED
    BY <1>1, <1>2, InitHolds, PTL DEF Spec
=============================================================================
