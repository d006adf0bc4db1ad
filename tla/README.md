# A verification project for the Shiori backend

TLA+ models of the concurrent core of the Shiori agent's backend
(`src/apps/backend`), the TLC configurations that check them on small instances,
and TLAPS proofs of their main safety properties for every instance.

The backend is one Python process with one asyncio event loop. Code between two
`await`s is never interrupted, so **an action of a module is the code between two
awaits**, and everything that is hard happens at the awaits: another task runs, the
task is cancelled, a transport fails, the settings are replaced, the process ends.
Paths below are relative to `src/apps/backend/` unless they begin with `src/`.

## 1. Inventory

### Modelled

| Component | State it keeps | Operations | Talks to |
|---|---|---|---|
| **Runtime generations** `bootstrap/runtime/generations.py` | per generation: reference and persistent counters, `published`, `retired`, `forced`, `closed`, the close task; the manager's pointer, `_tracked`, `_closed` | acquire, retain, release, retire, `close_if_idle`, `wait_for_work`, retentions (hold, drain, release), `close_all` | everything that runs a turn holds a lease; reload and shutdown drive it |
| **Reload** `bootstrap/runtime/reload.py`, `channel_barrier.py` | the candidate in hand, the admission gate | `prepare`, `publish`, `discard`, `_publish_pointer`, the exclusive barrier and its roll-back | generations, channel host, reply sequences, bus (join) |
| **Process shutdown** `bootstrap/runtime/shutdown.py` | phase of the exit | drain, stop channels, release, close generations, close shared resources | generations |
| **Bridge service entries** `desktop_bridge/runtime/service.py` | current and retired entries, each with a pin and its requests | route a request, publish a new service, retire an entry, close | generations, desktop chat |
| **Settings application** `desktop_bridge/runtime/apply.py` | settings lock, committed text, memo | apply: prepare, commit, publish, publish the service; a change of one plugin's table | reload, transaction, bridge, plugin kernel |
| **Settings file transaction** `desktop_bridge/config_transaction.py` | configuration file, `roles.json`, journal | `commit`, roll-back, `recover` | the role store writes the same file |
| **Message bus, outbound** `bus/queue.py`, `acknowledged.py` | queue with join count, getter task, lane per channel, acknowledgement futures | publish, deliver and await, withdraw, dispatch, reap, abandon, retry | transports, channel host (transport lock), turns |
| **Channel host** `bootstrap/channel_host.py` | transports per channel, the transport lock | exchange transports, retire removed channels | bus, generations |
| **Role gate** `core/roles/role_runtime.py`, `turn_gate.py` | turn lock and claims per role, lease of a turn | enter, refuse when busy, wait outside the gate | turns, ticks, plugin turns |
| **Turn dispatcher** `bootstrap/runtime/dispatcher.py` | tail and waits per chat | accept a turn behind the chat's earlier ones and its reports | gate, sequences |
| **Reply sequences** `agent/turns/channel_sequence*.py`, `reply_sequence*.py`, `reply_interruption.py`, `proactive_sequence.py` | a plan per accepted turn, registrations per chat and sender, stop flag, message rows | admit, supersede, stop, resume, store, send, pause, publish the role's state | gate, bus, session, account delivery |
| **Desktop chat turns** `desktop_bridge/chat_service.py`, `chat_turn_state.py`, `chat_requests.py`, `request_dispatcher.py`; `agent/looping/core/interrupts.py` | the latest turn of a session and service, the runner of each turn, the loop's task and interrupt snapshots, the mutation lane | send, retry, cancel, supersede, settle, save, publish the terminal event, finish late, close | bridge entries, agent loop, background reports, session store |
| **Accounts** `core/accounts/`, with the QQ plugin's `accounts_runtime.py`, `accounts_settings.py` | the saved accounts, each instance's copy of them, the index of each generation, connections, the deletion in progress | load, register, report, log in, disconnect, delete, publish and drop an index | generations, account delivery |
| **Account delivery** `agent/account_delivery/`, `core/accounts/delivery_ledger.py` | the ledger, the turn's explicit sends, the pinned access of a batch, message rows | resolve, send, mark, batch parts, the reply a turn still owes | accounts, the platform |
| **Plugin kernel and host** `agent/plugin_host/`, `src/packages/sdk/python/shiori_sdk/kernel/` | live tables, status and instance of each plugin, call gates, the transition lock | load, reload, enable, disable, renderer failure, terminate; calls through the gates | settings application, process resources |
| **Schedules** `src/plugins/schedule/backend/scheduler.py`, with `agent/schedule_host.py`, `desktop_bridge/app_service.py` | jobs in memory and in `schedules.json`, ids in flight, attempt tasks, the tick, assistant rows by delivery key | create, update, cancel, withdraw a deleted role's jobs, tick, execute and reschedule, close, recover | role gate and turns, session store, role events, process resources |
| **Process resources** `infra/process/resources.py` | attachments by owner and key | acquire, retain over a reload, release, retire | plugin kernel |

What is hard in them, and what makes each correct:

* *Generations*: a counter is touched from a dozen paths (operations, children,
  reports, bridge pins, retentions, roll-backs, exit). The counters must match the
  leases, nothing closes under a lease, the pointer always serves, shared
  resources close last, and everything closes in the end.
* *Reload*: five awaits between the candidate and the bridge's entry, each of which
  can fail or be cancelled. The gate reopens, replies resume, channels change
  hands only when no replaced generation works.
* *Settings transaction*: two files and a journal, with crashes and failed writes at
  every step. The pair changes at once.
* *Outbound*: a dispatcher, a getter, lanes that end, fail or are cancelled, a lock
  shared with handovers, a retry after a backoff. Each channel is a line, and each
  message is settled once; withdrawn and unauthorised messages are not sent.
* *Role turns*: a reply yields the role's gate between two messages, and comes back
  to a world in which it may be superseded, stopped, outdated or cancelled.
* *Desktop turns*: a cancellation means something else at every await of a runner, and
  a turn may be owned by a service that has been replaced. Every accepted turn gets one
  terminal event and one reply, and a message stored for a turn gets its turn.
* *Accounts and deliveries*: a message leaves the process before anybody can record what
  became of it, and the account it went through may be deleted or replaced meanwhile. The
  ledger and the rows say no more than what happened.
* *Plugins*: a transition replaces a closure of plugins while calls run through them, and
  can fail at every setup, cleanup and commit. Tables, file and instances agree
  again, no call reaches a disposed instance, and the lock is given back.
* *Schedules*: between an attempt's message and the file lie a cancellation, a failed save or a
  crash, and meanwhile the job may be edited, withdrawn or handed to the next service. A withdrawn
  job stays gone and silent, no job is lost, no attempt runs beside another of its job, and no
  occurrence that ended is begun again.

### Not modelled

Every other part of the repository is listed in `PROJECT.json` with the reason. In short:

* state that a later extension should take (section 2): channel host start and
  roll-back, plugin packages, settings memo and revisions, event bus, compaction,
  session store, background subagents;
* sequential pipelines and text (agent phases, prompting, tools, memory, role cards):
  no state of their own that two tasks share; a turn's generation is one step of
  `RoleTurns` and `DesktopTurns` that may succeed, fail or be interrupted;
* external or presentation: channel adapters, model providers, MCP, the Electron
  application, the web site, feature plugins. These are most of the
  repository's lines, so the models cover a few percent of it, chosen for where the
  concurrency is.

## 2. Plan

Modules in the order of writing; the first eight groups exist.

1. `Lifetimes` (abstract), `Generations`, `GenerationsProofs`: the backbone every
   operation hangs on.
2. `AtomicSettings` (abstract), `ConfigTransaction`, `ConfigTransactionProofs`.
3. `ChannelLines` (abstract), `Outbound`, `OutboundProofs`.
4. `RoleTurns`, `RoleTurnsProofs`.
5. `DesktopTurns`, `DesktopTurnsProofs`.
6. `Accounts`, `AccountDelivery` (which extends it), `AccountDeliveryProofs`.
7. `PluginReload`, `PluginReloadProofs`.
8. `Schedules`, `SchedulesProofs`.
9. `ChannelHandover`: start, roll-back and restart of the single channels,
   composed with the transport lock of `Outbound`.
10. `PluginPackages`, whose abstract specification is `AtomicSettings` again.
11. `SettingsApply`: memo, revision conflict and the text, composing
    `ConfigTransaction` and the publisher of `Generations`.
12. `EventBus`, `Compaction` with the session's cached state.

Every safety invariant and action property that a passing run checks is a theorem by now, and so are
the three refinements. Worth stating and proving next: abstract specifications for `PluginReload` (a set
of plugins whose tables change at once, as `AtomicSettings` is for the files) and for `RoleTurns` (a
gate that gives the role to one turn at a time), and an `Implementation` theorem for each.

## 3. The modules and the code

### Generations

One module for generations, publication, bridge entries and exit, because the
counters are only interesting when all of their clients are present.

* `number`, `references`, `persistent` and the flag sets are the fields of
  `RuntimeCandidate`; `lease` says which generation an operation's
  `RuntimeLease` pins; `pins` and `entry` are the bridge's; `retention` and `awaited` are
  a `RuntimeRetention`'s leases and the waits of its `drain()`.
* `close_if_idle()` runs in every release, so `CloseIfIdle(S)` is a conjunct of every
  action that drops a reference; the close task ends later, in `FinishClose`.
* An operation enters by `Admit` (through the gate), `Retain` (a child of a turn),
  `Report` (a finished background job queues a turn on the published generation: the
  item carries its own lease and the dispatcher does not gate it) or `Request` (the bridge;
  the exempt methods pass a closed gate).
* The publisher is a program counter over the awaits of `SettingsApplication._apply`
  and `publish`: `preparing`, `ready`, `barrier`, `handover`, `published`, and
  `unwinding`, `discarding` on failure. `BeginPublish` is `publish()` up to its first await, with
  the refusals of a closed manager and a stale candidate. `PublishHandover` holds the
  durable commit, the pointer and the predecessor's retirement, which the code does
  without an await.
* The barrier waits for each generation on its own (`BarrierWait`), as
  `asyncio.gather` over `wait_for_work()` does.
* The end of the bridge cancels requests that wait: `Unwind` stops waiting for what it closed, and
  `AbandonDiscard` leaves a discarded candidate to its shielded close task, which nobody tracks.
* `Shutdown`, `ReleaseRetained`, `CloseAll` and `CloseShared` are the exit. `main.py`
  ends the bridge first, hence its guard.

Simplifications: a publication whose candidate already is the published one is only a
commit of the files and is in `ConfigTransaction`; `start_channels()` always returns a
host, so the branch without one is left out; background groups have no coroutine at this
commit. One cancellation may here cut short the roll-back and the discard after it, which only adds behaviours. Left out
are exceptions out of a resource's drain (`reload.py:172`) that are no `Exception` while the bridge is
open, and a cancellation in the pass of the loop in which the releases of a retention were created
and have not run yet. `Lifetimes` is the abstract specification: generations that open and close
once, never under an owner, and a pointer to an open one.

### ConfigTransaction

Each write of `commit()`, `_restore()` and `recover()` is an action, and a crash can
come before any of them; nothing else can, because `commit()` is synchronous. The SDK writes a file whole or not at
all (temporary file and rename). `text` is the copy
from which `apply.py` derives its next write. A change of one plugin takes it over with the commit; a swap of
generations only when `publish()` returned (`TakeOver`), and never when it raised or was cancelled after
its commit (`Interrupted`): `pending` is the text on its way, `behind` says that one was dropped. `SaveRoles` is the role store, which
shares `roles.json` and never looks at the journal. `saved` and `overwritten` are history
variables of the properties. `AtomicSettings` is the abstract pair.

### Outbound

`queue`, `fetched` (the getter task) and `unfinished` (what `join()` awaits) are the
queue; `lane[ch]` is the table entry with its task's place, its backlog and the
attempt in progress; `abandoned` are cancelled lane tasks no longer in the table.
`Dispatch` is one turn of the dispatcher's loop: reap, then route. `Abandon` is the
`finally` path that gives everything back to the queue's front. The transport lock is
shared by lanes and `BeginHandover`/`EndHandover`, after which the channel's transports
are an arbitrary set. Ordinary messages go through `Deliver`, `CallReturns`, `BackoffEnds`, `Retry`,
`RetryReturns` and `NoticeReturns`, acknowledged ones through `DeliverAcknowledged` and
`AcknowledgedReturns`. `final` records who accepted or definitely refused a message.

Left out: a second cancellation while `dispatch_outbound()` gathers its abandoned lanes;
plugins that start or stop their own account connections without the transport
lock; the inbound queue. The order of the callbacks within one round is arbitrary here. The
lock is granted to any waiter (asyncio's is FIFO), which only adds behaviours.

`ChannelLines` is the abstract specification: a line per channel.

### RoleTurns

One role: dispatcher, gate, plans and deliveries. `at` is where an actor is;
`locked`, `waiters`, `held` and `claims` are the gate; `tails` and `behind` the dispatcher;
`latest`, `plans`, `reports`, `stopped` the channel sequence owner; `status` and `rows` the stored messages; `mood`
and `last` the state of the session that the last message of a reply publishes, with
the `seen` and `stamp` a reply compares them to.

Actors are turns of accepted channel messages, proactive ticks (they send a reply of
several messages the same way and register it as a report to the chat) and other
operations. `Impatient` operations are entered with `reject_busy`.

A delivery is `Store`, `Sent`, then a pause without the lock (`EndPause`), the gate
again (`GoOn`), and the next message or, after the last, `Publish`. A cancellation is delivered where the code can
observe it: in a wait (`CancelWait`), after the row is stored (`Store`), in the generation (`Fail`).

Left out: desktop sequences (`DesktopTurns` has the turns around them), single messages with media, reports of background jobs as
turns, removal of a role, closing, the dispatcher's own shutdown. Sends of ticks go through
the account of the role: row stored as pending, send, mark; they are not
withdrawn by an interruption. A plugin's own CancelledError passes the except clauses of a tick's send
and leaves its row `unmarked` (`Outcomes`). A lock that nobody holds is granted in a step of its own
although the code does not pause there.

### DesktopTurns

One role session. `turn[t]` is a `DesktopChatTurn` with its runner: `stage` is the await
the runner is at, `task` whether the task still runs, ended (`done`) or also had its
callbacks (`over`). `inner` is the task of `AgentLoop.process_direct()`; `latest` is
`_tasks_by_session` of each generation's service, which also holds turns *borrowed* from
an older one; `lane` is the request in the bridge's mutation lane.

* `Request` and `Open` are a request's arrival and its routing; `Store` or
  `StoreFails` the persistence of the user's message, which may also fail when its row is stored (the thread's
  projection, presence, affection): the row stays, chat.send answers an error, and `failed` has it; `Start` is `start_chat_turn()` with
  `Supersede` before it, `Retry` a chat.retry, `Cancel` and `Answer` a chat.cancel and the
  end of the cleanup it awaits.
* A runner goes `FirstStep`, `Begin` (its predecessor ended), `InnerEnds`, `Sync`, `Settle`,
  `Save`, `Flush`, `TaskDone`. `CancelTask` says what a cancellation does at each of
  these: a task that never ran just ends (and `FinishLate` ends its turn), a wait is
  interrupted, the agent loop's task is passed the cancellation, and a claimed turn absorbs it.
* `Interrupt` is `request_interrupt()` with its fallback to the session's only other work, a
  background report.
* `Publish` publishes a generation's service; `Close` ends the bridge's stream, and `CloseService` is
  `aclose()` of one service after the other.

Simplifications: failing emissions, streamed deltas and the order of events within a
flush are left out; so are the awaits on background reports in `start_chat_turn()`; an
interrupted background report ends at once. `Flush` forgets what nobody reads of an ended turn, which keeps the state
space small.

### Accounts and AccountDelivery

`Accounts` has the file the QQ plugin saves (`store`), the copy each generation's instance took of
it (`configs`), the references it registered and serves (`ids`), its connections (`sockets`), and the
host's index and live reports of each generation (`index`, `online`). A reference is one
login; it names a platform account and a role. `Setup` reads the file, `RegisterSaved` is `load()`
after its awaits, `BeginLogin` and `CancelLogin` a temporary login (`logins`), which is in the instance's copy and not in what it
saves (`Verified`); `Activate` a connection whose identity the platform confirmed, of a saved account or a temporary
login: it registers, writes the whole copy and reports. The connections are tasks of their own
(`_reconnect()`), outside the lane that a login's begin and a deletion share, so `Activate` asks only what
`register()` asks. `BeginDelete` .. `Forget` are the stages of a deletion, with the awaits of the plugin in
between, and `Restart` a start of the process after it died.

`AccountDelivery` extends it with the ledger, what the platform made of each message (`wire`,
external: it takes or refuses a message at any later time), the calls in flight, and two
senders: a turn whose tool sends (`CallTool`, `ToolAnswered`, `ToolUncertain`, `CancelTurn`, `EndTurn`)
and a proactive batch (`Resolve`, `StoreRow`, `SendPart`, `PartAnswered`, `PartCancelled`, `MarkRow`).
A call ends with a `Receipt`, `Uncertain`, or in an `Error`: any other exception, after which `send()` marks the attempt
failed whatever the platform made of it (`errors` keeps which). A message that reached the platform as a whole or
in part is accepted on the `wire`.
`HandOver` is `send()` up to the plugin's await: ledger row, access check and call have no await
between them. `Die` is a crash: what was awaited is lost, what was handed over is not.

Simplifications: a generation has one instance of the plugin, because in-generation reload
refuses plugins with channels; failing SQLite writes, the removal of a role, response rules, avatars, a failed handover of connections and the notice of a
stream that timed out are left out. A publication waits for the turn and the batch: both hold leases.

### PluginReload

The plugins of one generation. `tables` are the live configuration tables and `saved` the file's;
`status`, `unclean`, `instances` the kernel's records; `runs` is the table's version an instance
was set up with, `links` which instance of a provider it read; `sealed` the gates that admit no
call; `inside[k]` the plugins a call is in, from consumer to provider, and `orphaned` those whose
instance was disposed of under it. `broken` are instances whose cleanup was interrupted, which keep a closing
scope; `torn` and `stuck` are history variables: tables exchanged and then neither committed nor put back, and gates that
stayed sealed, both left by an interrupted transition.

A transition (`op`, `todo`, `queue`) goes through its stages, from the plugin with the highest `Rank` of a
set down or from the lowest up (`Kernel._rank`; `Last`, `First`): `drain` (`SealNext`, `Drained`, or
`Abandon`), `dispose` (dependents first), `activate` (`PlanNext`, then `Block` or `BeginSetup` with
`SetupDone` or `SetupFails`), then `Commit`; on failure `undo`, `remove`, `restore`; and `settle`,
where retained resources that nobody took again are closed. `Reload`, `Store`, `Enable`, `Disable`,
`Terminate` begin one; `RendererFails` is atomic.

A setup or a cleanup may also end in an exception that is no `Exception`, such as a CancelledError of the plugin's own
(`SetupCancelled`, `ReleaseCancelled`, `CleanupCancelled`, `RendererCancelled`). `Escape` is what `_replace()` then does: it
ends the retention and lets the exception go, with tables, statuses and gates as they are.

A toggle drains only those that stay (`Staying`); what it takes down itself is not drained, since "disabling
cancels in-flight work" (`reload.py`). `ProvidersStayOpen` therefore speaks of everybody
but those (`Undrained`): a call of theirs may be refused by a provider that was sealed already, also when
the drain is then given up and the plugin goes on.

Simplifications: replaces and conflicts relations, duplicate providers, trust screening,
events (and what their handlers raise), `on_replaced` notifications, mutual optional injection (which the planner
allows), toggles that change nothing, and calls of an orphaned instance into its providers are left out; plugins with
channels, which only a new generation changes, are in `Generations` and `Accounts`.
A setup function may take any number of awaits but is one stage, since it holds the lock. What a plugin
requires (`Needs`, its inject keys) is told apart from what its manifest names as plugins (`Depends`), which
alone `Enable` and `Selected` follow. `runs` and `links` of an absent instance are reset.

### Schedules

`jobs[s]`, `inFlight[s]` and `task[s]` are a `SchedulerService`'s `_jobs`, `_in_flight` and the attempts
it started; a cancelled one has left `_active_tasks`. `file` is `schedules.json`, `rows` the assistant
rows of the desktop session under the delivery key of a job and a nominal time. `created`,
`withdrawn` and `ended` are history variables. A `version` stands for the identity of the job object
that `_execute_and_reschedule()` compares; `AttemptsApart` (theorem `OneAttempt`) says why one slot per job is enough.

`CreateJob`, `UpdateJob` and `CancelJob` are the requests of tools, RPC and other plugins, each one
synchronous; `DeleteRole` and `CancelRoleJobs` the two ends of the `RoleDeleted` event. `Tick` is one
round of the loop. An attempt runs through `Begin` (or `NeverBegins`, when it was cancelled before its
first step), `TurnCommits` or `Deliver`, and ends in `EndAttempt` (its work returned or failed, a suppressed
cancellation included; the save may fail) or `EndCancelled`. `Close` runs to the gather, `Closed` after it.
`Crash` keeps the file; `Start` is the next service with `load_and_recover()`, in the same process when
the plugin was switched off and on, or in the next one.

Simplifications: time is counted in units and a cron expression is a period; disabled jobs, an
unreadable file, a listener whose error ends the tick, the latency window behind `lead`, deliveries to other
channels than the desktop, and requests to a service after another took its place are left out.

## 4. What the runs show

| Run | Instance | Shows |
|---|---|---|
| `generations` | 3 candidates, 2 turns, 1 exempt request | closes, the bridge's entry, the barrier and the order of the exit are right in every state, and all refine `Lifetimes` |
| `generations_live` | 2 candidates | retired generations close, the gate reopens, the exit completes |
| `config_transaction` | 3 contents of each file | crash safety, refinement of `AtomicSettings` |
| `outbound` | 3 messages, 2 channels (one with 2 transports), 1 handover, failing lanes | withdrawn messages, no repetition, refinement of `ChannelLines` |
| `outbound_live` | 2 guarded messages, 1 channel, cancelled callbacks | settlement, answers, no call after a revocation |
| `role_turns` | a turn, a tick, an impatient operation, 1 stop, `/stop` | the gate, decided rows, state that never goes back, and that all work ends |
| `desktop_turns` | 3 turns (one may be a retry), 2 services, 1 background report, the bridge's end | one terminal event, one worker, one reply, stored messages that start unless their send failed, settled snapshots, and that every turn ends |
| `desktop_turns_cancel` | 1 turn, 1 background report | **finding**: a cancel interrupts other work |
| `accounts` | 2 references of a role, 2 generations, 1 tool, a batch of 2 | ledger and rows are truthful, a batch stays with its account, no second reply, deletions freeze their account |
| `accounts_deleted` | 3 references of 2 roles, 2 generations | **finding**: a deleted account comes back |
| `plugin_reload` | a provider (with a renderer entry), an optional and a hard consumer, 1 call, 2 changes, interruptions up to the first | live providers, the live tables, current links (the run evaluates `Apart`, the hypothesis of `LinksCurrent`), gates that reopen, retained resources, and that transitions end |
| `schedules` | a job of every trigger and tier and a bystander, 2 services, 2 units of time, 1 edit | withdrawn jobs that stay gone and silent, early occurrences, and a file that loses no job |

The modules also state properties that no run spends its time on. They hold under the constants
of the runs, and all but `DispatcherEnds`, which is a liveness property, are proved: `ReferencesMatch`, `LeasedStayOpen`, `CurrentServes`, `TrackedUntilDrained`, `RetiredUnload`,
`RepliesResume` of `Generations`; `DerivesFromCommitted` of `ConfigTransaction`; `JoinCounts`,
`RunningSubscribed`, `DispatcherEnds` of `Outbound`; `ClaimsCount`, `PrefixSent`, `SilentOnceInvalid`,
`SupersededInvalid`, `RowsInOrder`, `ImpatientYields` of `RoleTurns`; `CancelSpares` of `DesktopTurns`; `AttemptsApart` of `Schedules`; and each module's `TypeOK`.

### Bounds

* *Three candidates*: two successive replacements, so that a replaced generation may
  still drain while the next publication runs, fails or is cancelled. A fourth only
  repeats a role. *Two turns*: a parent and its child, or a job and its
  report. *One exempt request*: it passes the closed gate while turns are held.
* *Three contents*: before, wanted, and one stored in between. A proof covers the rest.
* *Three messages on two channels*: one in delivery, one behind it and one beside
  them; one handover (`MaxHandovers`) is one exchange during a backoff or a wait.
  `outbound` excludes cancelled callbacks because these break the order
  (`InOrder`, see the divergences); `outbound_live` includes them, and excludes failing lanes
  because a failed lane leaves its caller without an answer (see the hazards).
* *A turn and a tick to one chat, with two messages each, and an impatient operation*: one
  pause, in which anything may happen, beside each kind of competitor. `MaxStops`
  bounds the handovers that stop replies, `Interruptible` names the turns for which `/stop` may
  come. What needs more turns of a chat (supersession, the order of the history) is proved for
  any number.
* *Three desktop turns*: the one that works, one that waits for it and one that supersedes
  both; only the third may be a retry, and every turn is sent when it is
  not. `MaxReloads` = 1 gives the borrowed turn of an old service. `MaxClosing` = 2 bounds the
  turns accepted when the bridge ends, so that closing meets a worker and a waiter of two services.
  The finding needs one turn and one service.
* *Two accounts of a role, two generations*: a batch can lose its account and find another, an
  instance be replaced or fail, and the process die once and start again. Both accounts are of the one role, so a new login
  begins only when the role has no account and does not meet a deletion there; that case is explored in the prefixes of
  `accounts_deleted`, and `DeletionsFreeze` covers it. That finding needs one reference more,
  of another role, because only its login makes the stale copy be written.
* *Two changes of the plugins*: a transition after a failed or an interrupted one, with what that left behind.
  Interruptions come until the first change is over (`Fragile`), so that the second meets what they leave. The file
  turns all plugins on or none at first (`Starts`), from which one change leads to the mixed ones. The provider has the
  renderer entry, as novelai has, which story requires. The proofs cover any plugins that are `Apart` and any initial tables.
* *Two services, a job and a bystander, two units of time*: an attempt that outlives its service meets the
  next one, and a save meant for one job meets the other. The lead is one unit, so that a soft job
  runs before its time, and the grace none, so that a missed "at" expires; the period is two, the
  interval one. The proofs cover any jobs, services, periods and leads.

Deadlock is checked where the system never comes to rest (`generations`, `config_transaction`,
`outbound`). In `role_turns`, `desktop_turns`, `accounts`, `plugin_reload` and `schedules` all work may really
be over, or the bounds used up.

### Fairness

Liveness is checked under the fairness the event loop gives: a ready task runs (weak
fairness of the steps of a task that is under way). In `Generations`, `wait_for_work()` is woken by the
release that empties the generation, and reads the counter before the
loop takes another request, hence strong fairness of the waits.
In `Outbound`, asyncio's lock is FIFO and every holder releases it, hence strong
fairness of a lane that waits for it; the dispatcher wakes at least every second; a
callback ends, because its channel bounds it. In
`RoleTurns` the model, the tools and the platform answer or time out; weak
fairness of each actor's next step suffices because the lock's queue is explicit. In
`DesktopTurns` the request in the lane, each runner and the agent loop's task go on (tools that
ignore a cancellation end in the end), and so does the closing of the services. In `PluginReload` a transition
goes on: setups and cleanups return and a drain times out, hence weak fairness of
`Step`; that calls end is not assumed.
No fairness is assumed of new work, failures, cancellations, handovers, publications or the
end of the bridge.

The properties are conditional where the code is: `RetiredCloses` holds when the turns
end for good (a retention of a publication that removed channels keeps every generation
it drains, so turns elsewhere may delay a close).

## 5. Findings

Two disagreements of the code with its own documentation have a run that is expected to be violated.

* **`CancelExact`.** `desktop_bridge/chat_service.py:203` interrupts "exactly one active renderer chat turn
  when its identity matches"; a cancel that arrives when the turn has just left the agent loop
  interrupts a background report of the role, and the completed turn is reported cancelled.
* **`DeletedStaysGone`.** `core/accounts/runtime_state.py:82` drops a deleted account "from every
  generation's index"; a candidate that read the saved accounts before the deletion registers it again,
  and writes its stale copy to the file at the next login.

Further disagreements are stated in the modules, or were met while modelling, and have no run of their own:

* `InOrder` (`Outbound`, refuted by TLC with `CallbackCancels` and one channel): `bus/queue.py:188` promises
  strict order in a channel; a callback that ends cancelled makes a fetched message overtake the backlog
  given back.
* `ClosedIdle` (`Schedules`, refuted): `src/plugins/schedule/backend/scheduler.py:324` "Stops ticking and cancels running jobs"; `close()`
  cancels the tick only after it gathered the attempts (`scheduler.py:336-340`), and a cancelled
  job is due again meanwhile. The attempt started then belongs to a closed service; when the plugin is switched on
  again in the same process, its end stores the old service's jobs over the new one's file. That is
  the exception (`StrayEnds`) in `WithdrawnStaysGone` and `StoreKeeps`.
* By reading (`Schedules`): `docs/knowledge/modules/scheduling.md` says an early soft run does not hit the
  same occurrence again. `load_and_recover()` (`scheduler.py:514`) moves a cron job back to the next instant
  after the clock, so a start between the early run and its nominal time repeats it; hence
  `OccurrenceOnce` speaks of one service.
* `BarrierQuiescent` (`Generations`, refuted by TLC): `channel_barrier.py:1` promises quiescence before
  channels are replaced. A job of a retired generation may report into the published one after the
  barrier saw that one idle.
* `ReplacedStayStopped` (`Generations`, refuted): `channel_sequence.py:208` refuses the batches of an old
  runtime; the roll-back of a later publication (`reload.py:130`) resumes them.
* `LastCommittedRestored` (`ConfigTransaction`, refuted): `config_transaction.py:24` restores the last
  committed files; after a failed roll-back the role records stored since are lost.
* By model checking (`PluginReload`): `agent/plugin_host/kernel.py:407` sets consumers up again "so
  none keeps the provider state it read before". When the commit of a disabling fails, a FAILED plugin of
  the closure is set up again and may start now, and so may a FAILED provider that the plan of a
  hard dependent tries again: consumers set up earlier in that transition do not read it. That every
  active plugin reads the current instance of each active provider is therefore not a property of the module.
* `HoldsCurrent` when a plugin's providers are not apart (`Needs` of x = {t}, of c = {t, x}; refuted by TLC):
  while x is FAILED and c BLOCKED, t is enabled. The closure is t and c (a FAILED dependent is in none,
  `closures.py:63-77`), but `plan_activations()` for c also sets up what c requires (`admission.py:175-185`),
  so x starts with the new t. When the commit then fails, the roll-back disposes only of the closure
  (`reload.py:304`): x stays ACTIVE with a disposed t, and t off. `kernel.py:413` says
  "when it raises, the previous tables and states are restored", and the SDK's `kernel/graph.py:148` that a consumer
  is set up again "so none keeps the old instance". `Apart` holds of the plugins in the repository (story requires novelai,
  which only optionally uses others).
* `renderer_gate.py:90-92` releases a plugin whose renderer entry failed alone: a consumer that runs keeps the
  instance disposed of, although the SDK's `kernel/graph.py:148` sets consumers up again "so none keeps the old instance".
  novelai has such an entry and story requires it. `HoldsCurrent` names these instances `withdrawn` and excepts them.
* `PluginReload`, the exceptions of `LiveConfig` and `OpenWhenActive`: `agent/plugin_host/reload.py:277` says "a failed
  transition restores every closure plugin to its previous state". A setup or a cleanup that ends in an exception which is no `Exception`
  (the SDK's `kernel/kernel.py:222-224`, `kernel/scope.py:150`) passes `_replace()`, which has no clause for it: the new
  table stays in memory while the file has the old one, gates that the roll-back sealed stay sealed, and a half released
  scope stays.
* `SharedCloseLast` (`Generations`): `bootstrap/runtime/shutdown.py` closes the shared HTTP resources after the
  generations. A discard that the end of the bridge cancels leaves its close task (`generations.py:80`) to nobody;
  `close_all()` does not wait for it. The property therefore asks of a candidate that never served only that it
  is closing.
* `DerivesFromCommitted` (`ConfigTransaction`): `desktop_bridge/runtime/apply.py:382` takes the text over after `publish()`.
  A swap that is cancelled, or raises, between its commit and that line leaves the old text, and the next derived
  write starts from it and drops what was committed.
* `NothingPending` (`RoleTurns`) and `RowsTruthful` (`AccountDelivery`): a CancelledError of the plugin's own passes both except
  clauses of `agent/turns/proactive_sequence.py:157-172`, and the row stays pending for good.
* `StoredStarts` (`DesktopTurns`): when an effect after the row fails (`desktop_bridge/app_service.py:198-203`), chat.send answers an
  error although the message is in the history; no turn answers it.
* `LedgerTruthful`, `RowsTruthful` and `NoSecondReply` (`AccountDelivery`): `core/accounts/delivery_ledger.py` has for its
  `mark_failed()` "Record a definite failure; uncertain transport outcomes stay pending". `agent/account_delivery/service.py:389`
  marks failed after any exception that is none of the uncertain ones, and the plugins raise such after something arrived: the QQ
  plugin when the mention was sent and the forward is refused (`accounts_actions.py:318-328`), the Telegram plugin after the first
  chunks of a long text (`utils/sending.py:116-138`). So "failed" says that the plugin gave up, not that nothing arrived, and the
  turn may then reply a second time.
* By reading: `set_enabled()` skips its update of `previously_active_plugins` when its caller is cancelled
  while the transition goes on.

## 6. Proofs

Nothing is assumed but the named assumptions on constants (`NamesAssumption`,
`FiniteAssumption`, `ContentsAssumption`, `ChannelAssumption`, `ActorAssumption`, `TurnsAssumption`,
`RefsAssumption`, `SendsAssumption`, `PluginAssumption`, `SchedulesAssumption`), which TLC evaluates in the
runs. Two theorems have a hypothesis of their own, named below: `Implementation` of `OutboundProofs` and
`LinksCurrent` (`Apart`) of `PluginReloadProofs`.

**GenerationsProofs.** Theorem `Invariant` establishes `IInv`, an inductive invariant of
the specification for any number of candidates and operations. `ReferencesMatch` is not inductive
alone: a candidate that a step prepares must not have owners yet (`Known`), the
publisher's candidate must be neither published nor pinned (`PublisherOK`), and a
retention taken twice would be lost (`RetentionOK`). The lemma `Counting` says that
each action changes the owners of each generation by at most one element and the
counter with them; `CountedMatch` turns that into cardinalities. `LeasedStayOpen` then follows
because `close_if_idle()` reads a counter that is a cardinality. Corollaries:
`TypeCorrect`, `Counters`, `Leased`, `Serving`. `WholeInv` adds the stages of the publication and of
the exit: what the bridge pins at each of them (`EntryOK`, for `BridgeCurrent`); that no turn leases a
replaced generation whose work the barrier saw end, as the gate is closed and a child needs its parent's
lease (`BarrierOK`, for `Quiescent`); where every prepared candidate is until its resources are
released or its discard was cut short (`Accounted`, of which `Tracked` is a part); and what each step of the exit leaves
(`ExitOK`, with `Accounted` for `SharedLast`). `StoppedOK` (only published generations have their
replies stopped, and a publication on its way accepted the current one) gives `Resumed`;
`Unloading` shows that a blocked unload keeps its generation from being retired before the exit.
`Implementation` proves the refinement of `Lifetimes`: for every
action, phases only move forward (`PhaseStep`), owners change only while open (`OwnersStep`).

**ConfigTransactionProofs.** `Stage` says, for each place a commit, a roll-back or a
recovery can be at, what the three files hold; `Stuck` what a failed roll-back
leaves. With them `Recoverable` is inductive. Corollaries: `TypeCorrect`, `CrashSafe`, `DerivesFresh`;
`Implementation` is the refinement of `AtomicSettings`, with the commit point at the journal's second write.

**OutboundProofs.** What waits for a channel is spread over its lane's backlog, the fetched message and the queue,
so the argument is about sequences: `Of(ch, s)` picks a channel's messages out of a sequence, `Line` puts
the places together, and the lemmas say what appending, taking, giving back and flattening do to
them. The library cannot instantiate an induction operator here, so `Induction` is derived from the
well-foundedness of `<` on sets. Every action then is a `LineMove`: it appends a message to its channel's line,
takes the first one, leaves the lines alone, or lets the fetched message pass those
a cancelled lane gave back (`LinesMove`). With `CallbackCancels = FALSE` the last one cannot happen, and
`Implementation` is the refinement of `ChannelLines`; with it the refinement is false (`InOrder` in the divergences),
hence the hypothesis. The inductive invariant `IInv` adds that a message is in one place
(`PlacesOK`), that the join count is the number of unsettled messages (`JoinIsExact`, for
which `Channels` is finite), and what a lane's attempt knows of its message, its
authority and the transport lock, from which `NeverReplayed`, `WithdrawalHolds`,
`RevocationHolds` and `RunsSubscribed` follow.

**RoleTurnsProofs.** Every invariant and action property of `RoleTurns` is proved, for
any finite set of actors (`FiniteAssumption`, which counting claims needs) and
replies of any length; the type invariant is one more. Its inductive invariant `IInv`
has a part per mechanism, and a lemma per part shows that each action preserves it:
  - `Exclusive` is the gate without counting. For `ClaimsCount` every action has an
    *effect* on the set of claimants (one joins, one leaves, none does; `ClaimStep`), and
    `EffectMatch` carries the counter along with the set's cardinality.
  - `Delivery` says which rows are decided in each place of a reply; `PrefixSent` and
    `NothingPending` follow from it.
  - `Planned` and `Registered`: a reply under way is planned or invalid, and a valid turn is
    its sender's registration. The second is why accepting a message supersedes the right
    turn (`SupersededInvalid`); the first why nothing is begun while the owner is stopped
    (`SilentOnceInvalid`).
  - `Stamped`: clocks and states are ordered as `StateMovesForward` needs.
  - The order of a chat is the part no single state variable shows. A turn waits only for
    the chat's tail, and the tail is dropped when its turn ends, so "a turn leaves the
    queue after all earlier turns of its chat ended" (`InLine`) needs two companions: the
    turn awaited is the one accepted just before, or nothing earlier is left (`Behind`), and a
    missing tail means an idle chat, a tail the chat's last turn (`Tailed`). Only
    acceptance, entry and the end of a turn matter to them (`QuietStep`), one lemma each.
    `RowsInOrder` follows with `Rowed` and `RowedInOrder`.

**DesktopTurnsProofs.** Turns are accepted in one order, and each runner waits for one predecessor. That this is
enough is not visible in any state variable: the last accepted turn is the latest of its service and of the lane's
until it is released (`LastKnown`), so the next one waits for it and through it for all before
(`Chained`, `Alone`). Over that order `Record` ties the stage of a turn to its tasks, and the
properties follow: `WorkAlone`, `AnsweredOnce`, `RepliedOnce`, `StoredStart`, `SnapshotSettled`, and
`CancelStops`, which says that only its own cancel or the end of the bridge interrupts a turn's agent loop.

**AccountDeliveryProofs.** `AccountsTyped` types the accounts; over it `Inv` is inductive for any
accounts, roles, generations, tools and batches of any length. `LedgerTruthful` alone is not inductive: a
message whose answer is awaited must be pending in the ledger and handed over (`Flights`), or
the answer would overwrite a settled attempt. `BatchInv` ties the place of the batch to its rows
and to the access it resolved: what was handed over went through the account of that access, which
gives `BatchThroughOne`, and a part is marked with what its own attempt ended in, which gives `RowsTruthful`.
`TurnInv` says that a turn knows of each explicit send that did not end in an error (`NoSecondReply`). `DeletionsFreeze` needs the
types only: a deletion freezes all references of the platform account (`SameDeleted`), and each
operation that lists or reports an account, the reconnection beside the mutation lane included, asks for that.

**PluginReloadProofs.** For any plugins, providers and ranks. A transition works through its closure from the highest rank
down and from the lowest up, and `IInv` says for each stage what is behind it: sealed and idle (`DrainOrder`),
gone (`Cleared`), or running with its own table (`Config`), with the one instance that may not be
active yet (`Setups`). That a provider is not sealed under a call (`DrainsInOrder`) needs that the drained
set has every running consumer of its members (`DrainClosed`), which the closures give because they are
least fixed points (`DependentsClosed`). `ConfigLive`, `GatesOpen` and `ResourcesKept` follow. Interruptions may leave a transition in any stage, so each
part of `IInv` says it of all but the plugins in `torn`, `stuck` and `broken`, and the actions that interrupt have to show
that nothing else is left over. `LinksCurrent`
(`HoldsCurrent`) has the hypothesis `Apart`: a plan also starts what its plugin
requires, beside the closure, and only when that uses nothing of the closure (`SelectedApart`) is there nobody left
who holds what a roll-back disposes of. Without it TLC refutes the property (section 5).

**SchedulesProofs.** Every property of `Schedules` is proved, for any jobs, roles, services, periods, leads and
edits. `Inv` adds to the types: `ServiceOrder`, only the current service ticks, and a service that is
not current runs attempts only when it is closed, so whatever such an attempt stores is a stray end;
`Pinned`, the attempt of a known job is in flight for that job's version and time, which an edit
cannot change because it refuses jobs in flight; and `Spent`, a job is past every occurrence that
ended, which needs `SettledLater`: rescheduling goes strictly forward, by the division
lemmas `NextCronAfter` and `AdvanceAfter`. `OccurrenceOnce` is `Spent` at the next tick; `WithdrawnStaysGone` and
`StoreKeeps` follow from `ServiceOrder`. `AttemptsApart` is `Pinned` again: an attempt of a job that is known is in
flight, and a tick takes no job in flight. `WithdrawnStaysSilent` needs one invariant more (`Remembered`): the current service
knows the job of every attempt that was not asked to stop, so the attempt of a withdrawn job was.

Only model-checked: the liveness properties (`AdmissionReopens`, `RetiredCloses`, `ShutdownCompletes`, `EachSettles`,
`CallerAnswered`, `WorkEnds`, `TurnsEnd`, `TransitionsEnd` of the runs, and `DispatcherEnds` which no run checks),
because fairness and ENABLED are out of the prover's reach. Every other property of a passing run is a theorem,
`ImplementsLines` and `HoldsCurrent` under the hypotheses of `Implementation` and `LinksCurrent`.
