------------------------------ MODULE Accounts ------------------------------
(***************************************************************************)
(* The accounts of one channel plugin: the file the plugin saves them in,  *)
(* the in-memory copy of each generation's plugin instance (QQ, the plugin *)
(* whose accounts hold a connection of their own), the host's index of     *)
(* each generation (core/accounts), the publication of a generation, and   *)
(* the deletion of an account across its awaits.                           *)
(*                                                                         *)
(* An account reference is created by one login, for one platform account  *)
(* and one role, and names both.  A generation holds one instance of the   *)
(* plugin: in-generation reload refuses plugins with channels, so the      *)
(* token of an instance is its generation.                                 *)
(***************************************************************************)
EXTENDS Naturals, FiniteSets

CONSTANTS
    Refs,            \* config references, one for each login ever made
    AccountOf,       \* the platform account a reference logged in to
    RoleOf,          \* the role that owns it
    Saved,           \* the references saved before the first start
    MaxGeneration,   \* bound: generations prepared, by reloads and restarts
    None

ASSUME RefsAssumption ==
    /\ IsFiniteSet(Refs) /\ Saved \subseteq Refs
    /\ DOMAIN AccountOf = Refs /\ DOMAIN RoleOf = Refs
    /\ MaxGeneration \in Nat \ {0} /\ None \notin Refs

Generation == 1 .. MaxGeneration

VARIABLES
    store,       \* the plugin's file: the references it would load
    made,        \* references some login has created
    deleted,     \* references whose deletion has returned
    phase,       \* phase[g]: the plugin instance of generation g
    configs,     \* configs[g]: its copy of the file, with its temporary logins
    logins,      \* the published instance's logins that are not verified yet
    ids,         \* ids[g]: the references it has registered and serves
    sockets,     \* sockets[g]: its open connections
    index,       \* index[g]: the host's records of the generation
    online,      \* online[g]: those last reported online
    published,   \* the generation whose index the host reads
    deletion     \* the deletion that holds the delete lock, or None

instance == <<phase, configs, logins, ids, sockets>>
accounts == <<store, made, deleted, instance, index, online, published, deletion>>

Unused == {g \in Generation : phase[g] = "none"}
NextGeneration == CHOOSE g \in Unused : \A h \in Unused : g <= h

Same(x) == {y \in Refs : AccountOf[y] = AccountOf[x]}
Deleting(x) == deletion # None /\ x \in Same(deletion.ref)

\* AccountRegistry._ownership_refusal(): a platform account has one reference
\* and one role, and a role one account with the plugin.
Refused(x, records) ==
    \E y \in records \ {x} : AccountOf[y] = AccountOf[x] \/ RoleOf[y] = RoleOf[x]

\* What register_saved() accepts of the saved references, in whatever order
\* the file lists them.
Accepted(saved) ==
    {s \in SUBSET saved :
        /\ \A x \in s : ~Refused(x, s)
        /\ \A x \in saved \ s : Refused(x, s)}

Dropped(f, x) == [g \in Generation |-> f[g] \ Same(x)]

InitAccounts ==
    /\ store = Saved /\ made = Saved /\ deleted = {} /\ logins = {}
    /\ published = 1 /\ deletion = None
    /\ phase = [g \in Generation |-> IF g = 1 THEN "started" ELSE "none"]
    /\ \E s \in Accepted(Saved) :
        LET at(t) == [g \in Generation |-> IF g = 1 THEN t ELSE {}] IN
        configs = at(Saved) /\ ids = at(s) /\ index = at(s)
    /\ sockets = [g \in Generation |-> {}] /\ online = sockets

-----------------------------------------------------------------------------
(* A generation's instance of the plugin                                   *)

\* The runtime of a candidate is built: it reads the saved accounts.
Setup(g) ==
    /\ Unused # {} /\ g = NextGeneration
    /\ \A h \in Generation : h > published => phase[h] \in {"none", "gone"}
    /\ phase' = [phase EXCEPT ![g] = "setup"]
    /\ configs' = [configs EXCEPT ![g] = store]
    /\ UNCHANGED <<store, made, deleted, logins, ids, sockets, index,
                   online, published, deletion>>

\* Fault: register() does not ask whether the account is being deleted.
RegisterAnyhow(g) ==
    /\ phase[g] = "setup"
    /\ \E s \in Accepted(configs[g]) :
        /\ phase' = [phase EXCEPT ![g] = "ready"]
        /\ ids' = [ids EXCEPT ![g] = s] /\ index' = [index EXCEPT ![g] = s]
    /\ UNCHANGED <<store, made, deleted, configs, logins, sockets, online,
                   published, deletion>>

\* load() goes on after the awaits of its pruning and registers what it read.
\* An account that is being deleted fails the plugin's setup, whose effects
\* release what it had registered.
RegisterSaved(g) ==
    /\ phase[g] = "setup"
    /\ \E s \in Accepted(configs[g]) :
        IF \E x \in s : Deleting(x)
        THEN phase' = [phase EXCEPT ![g] = "failed"] /\ UNCHANGED <<ids, index>>
        ELSE /\ phase' = [phase EXCEPT ![g] = "ready"]
             /\ ids' = [ids EXCEPT ![g] = s] /\ index' = [index EXCEPT ![g] = s]
    /\ UNCHANGED <<store, made, deleted, configs, logins, sockets, online,
                   published, deletion>>

Gone(f, gs) == [g \in Generation |-> IF g \in gs THEN {} ELSE f[g]]

\* A candidate is given up: its plugin is disposed and its index dropped.
Discard(g) ==
    /\ g > published /\ phase[g] \in {"setup", "ready", "failed"}
    /\ phase' = [phase EXCEPT ![g] = "gone"]
    /\ configs' = Gone(configs, {g}) /\ ids' = Gone(ids, {g})
    /\ index' = Gone(index, {g})
    /\ UNCHANGED <<store, made, deleted, logins, sockets, online, published,
                   deletion>>

\* The exclusive handover, which the plugin's own connections require, with
\* every accepted operation drained: the old channel stops and drops its
\* temporary logins, the new one starts, its index is published and the old
\* generation's dropped.
Publish(g) ==
    /\ g > published /\ phase[g] \in {"ready", "failed"} /\ deletion = None
    /\ published' = g /\ logins' = {}
    /\ phase' = [phase EXCEPT ![published] = "gone",
                              ![g] = IF @ = "ready" THEN "started" ELSE @]
    /\ configs' = Gone(configs, {published}) /\ ids' = Gone(ids, {published})
    /\ sockets' = Gone(sockets, {published})
    /\ index' = Gone(index, {published}) /\ online' = Gone(online, {published})
    /\ UNCHANGED <<store, made, deleted, deletion>>

\* The process dies and starts again: only the file survives.
Restart(g) ==
    /\ Unused # {} /\ g = NextGeneration
    /\ LET at(s) == [h \in Generation |-> IF h = g THEN s ELSE {}] IN
       /\ phase' = [h \in Generation |-> IF h = g THEN "started"
                                         ELSE IF h < g THEN "gone" ELSE phase[h]]
       /\ published' = g /\ deletion' = None /\ logins' = {}
       /\ configs' = at(store)
       /\ \E s \in Accepted(store) : ids' = at(s) /\ index' = at(s)
       /\ sockets' = at({}) /\ online' = at({})
    /\ UNCHANGED <<store, made, deleted>>

-----------------------------------------------------------------------------
(* Connections                                                             *)

\* report(): ignored for an account being deleted, refused once it is not
\* listed (a task that meets the refusal ends).
Report(g, x, on) ==
    online' = IF Deleting(x) THEN online
              ELSE [online EXCEPT ![g] = IF on THEN @ \cup {x} ELSE @ \ {x}]

\* What save() writes of an instance's copy: temporary logins stay in memory.
Verified(f, g, temporary) == f[g] \ temporary

\* accounts.begin, in the mutation lane that a deletion holds too: the instance
\* holds a temporary login; nothing is registered and nothing saved.
BeginLogin(x) ==
    /\ phase[published] = "started" /\ deletion = None /\ x \notin made
    /\ \A y \in index[published] : RoleOf[y] # RoleOf[x]
    /\ made' = made \cup {x} /\ logins' = logins \cup {x}
    /\ configs' = [configs EXCEPT ![published] = @ \cup {x}]
    /\ UNCHANGED <<store, deleted, phase, ids, sockets, index, online, published,
                   deletion>>

\* accounts.cancel, in the same lane: the login is forgotten and the rest of
\* the copy written.
CancelLogin(x) ==
    /\ x \in logins /\ deletion = None
    /\ logins' = logins \ {x}
    /\ configs' = [configs EXCEPT ![published] = @ \ {x}]
    /\ store' = Verified(configs', published, logins')
    /\ UNCHANGED <<made, deleted, phase, ids, sockets, index, online, published,
                   deletion>>

\* _reconnect() and _activate(), once the platform confirmed who is logged in:
\* a saved account is registered again, a temporary login for the first time,
\* the instance's whole copy is written and the account reported online.  A
\* task of its own does it, outside the mutation lane and beside a deletion:
\* only register() asks whether this account is being deleted.
Activate(g, x) ==
    /\ phase[g] = "started"
    /\ x \in configs[g] \ sockets[g]
    /\ x \in logins \/ x \in ids[g] \cap index[g]
    /\ ~Refused(x, index[g]) /\ ~Deleting(x)
    /\ \A y \in Verified(configs, g, logins) \ {x} : AccountOf[y] # AccountOf[x]
    /\ logins' = logins \ {x}
    /\ store' = Verified(configs, g, logins')
    /\ ids' = [ids EXCEPT ![g] = @ \cup {x}]
    /\ sockets' = [sockets EXCEPT ![g] = @ \cup {x}]
    /\ index' = [index EXCEPT ![g] = @ \cup {x}]
    /\ Report(g, x, TRUE)
    /\ UNCHANGED <<made, deleted, phase, configs, published, deletion>>

\* An open connection is lost.
Disconnected(g, x) ==
    /\ x \in sockets[g]
    /\ sockets' = [sockets EXCEPT ![g] = @ \ {x}]
    /\ Report(g, x, FALSE)
    /\ UNCHANGED <<store, made, deleted, phase, configs, logins, ids, index,
                   published, deletion>>

-----------------------------------------------------------------------------
(* Deletion                                                                *)

\* delete() takes the published generation's handler and freezes the account.
BeginDelete(x) ==
    /\ deletion = None /\ phase[published] = "started"
    /\ x \in index[published]
    /\ deletion' = [ref |-> x, generation |-> published, pc |-> "disconnect"]
    /\ UNCHANGED <<store, made, deleted, instance, index, online, published>>

\* disconnect_account(): the instance forgets the account first.
Disconnect ==
    /\ deletion # None /\ deletion.pc = "disconnect"
    /\ LET g == deletion.generation
           without(f) == [f EXCEPT ![g] = @ \ {deletion.ref}] IN
       /\ ids' = without(ids)
       /\ sockets' = without(sockets)
    /\ deletion' = [deletion EXCEPT !.pc = "purge"]
    /\ UNCHANGED <<store, made, deleted, phase, configs, logins, index, online,
                   published>>

\* purge_account() writes the instance's copy without the account.
Purge ==
    /\ deletion # None /\ deletion.pc = "purge"
    /\ LET g == deletion.generation IN
       /\ configs' = [configs EXCEPT ![g] = @ \ {deletion.ref}]
       /\ store' = IF deletion.ref \in configs[g] THEN Verified(configs', g, logins)
                   ELSE store
    /\ deletion' = [deletion EXCEPT !.pc = "forget"]
    /\ UNCHANGED <<made, deleted, phase, logins, ids, sockets, index, online,
                   published>>

\* A step of the plan raises: the account stays listed and the freeze ends.
DeleteFails ==
    /\ deletion # None /\ deletion.pc \in {"disconnect", "purge"}
    /\ \/ deletion.pc = "purge" /\ UNCHANGED <<ids, sockets>>
       \/ /\ deletion.pc = "disconnect"
          /\ LET g == deletion.generation
                 without(f) == [f EXCEPT ![g] = @ \ {deletion.ref}] IN
             /\ ids' = without(ids)
             /\ sockets' \in {sockets, without(sockets)}
    /\ deletion' = None
    /\ UNCHANGED <<store, made, deleted, phase, configs, logins, index, online,
                   published>>

\* forget() drops the account from every generation's index.
Forget ==
    /\ deletion # None /\ deletion.pc = "forget"
    /\ index' = Dropped(index, deletion.ref)
    /\ online' = Dropped(online, deletion.ref)
    /\ deleted' = deleted \cup {deletion.ref}
    /\ deletion' = None
    /\ UNCHANGED <<store, made, instance, published>>

SubsetsOfRefs(f) == f \in [Generation -> SUBSET Refs]

\* Every variable of the accounts holds a value of its kind.
AccountsTypeOK ==
    /\ store \subseteq Refs /\ made \subseteq Refs /\ deleted \subseteq Refs
    /\ logins \subseteq Refs
    /\ SubsetsOfRefs(configs) /\ SubsetsOfRefs(ids) /\ SubsetsOfRefs(sockets)
    /\ SubsetsOfRefs(index) /\ SubsetsOfRefs(online)
    /\ phase \in [Generation -> {"none", "setup", "ready", "failed", "started", "gone"}]
    /\ published \in Generation
    /\ deletion # None =>
        deletion \in [ref : Refs, generation : Generation,
                      pc : {"disconnect", "purge", "forget"}]

=============================================================================
