----------------------------- MODULE Schedules -----------------------------
(***************************************************************************)
(* The schedule plugin's scheduler (plugins/schedule/backend/scheduler.py) *)
(* and the deliveries of its jobs (agent/schedule_host.py,                 *)
(* desktop_bridge/app_service.py): jobs in memory and in schedules.json,   *)
(* the tick that starts an attempt for each due job, the attempts' awaits, *)
(* the edits and withdrawals that arrive meanwhile, the service closing,   *)
(* and crashes, after which the next service recovers the file.            *)
(*                                                                         *)
(* One asyncio loop: an action is the code between two awaits.  Time is    *)
(* counted in units; the microsecond that rescheduling adds is one unit.   *)
(* A save that fails before memory is replaced changes nothing and needs   *)
(* no action; the one after an attempt, where memory has changed already,  *)
(* is a choice of that attempt's end.                                      *)
(***************************************************************************)
EXTENDS Integers, Functions

CONSTANTS
    Jobs,        \* ids that create_job() may draw
    Roles, RoleOf,
    Forms,       \* triggers and tiers a request may ask for, by job
    Period,      \* a cron expression's instants are the multiples of Period
    Interval,    \* interval_seconds of an "every" job without cron
    Leads,       \* what LatencyTracker.lead may answer
    Grace,       \* GRACE_SECONDS
    AtTimes,     \* the instants an "at" or "after" may name, by job
    MaxTime,     \* bound: the clock
    MaxEdits,    \* bound: updates, by job
    MaxServices  \* bound: services one after another, over all processes

ASSUME SchedulesAssumption ==
    /\ RoleOf \in [Jobs -> Roles]
    /\ Forms \in [Jobs -> SUBSET [trigger : {"at", "cron", "interval"},
                                 tier : {"instant", "soft"}]]
    /\ Period \in Nat \ {0} /\ Interval \in Nat \ {0}
    /\ Leads \subseteq Nat /\ Grace \in Nat /\ MaxTime \in Nat
    /\ AtTimes \in [Jobs -> SUBSET Nat] /\ MaxEdits \in [Jobs -> Nat]
    /\ MaxServices \in Nat \ {0}

Services == 1..MaxServices
Times    == 0..MaxTime
Fires    == 0..(MaxTime + Period + Interval)

VARIABLES
    now,        \* the wall clock
    roles,      \* roles that exist
    deleted,    \* RoleDeleted events on their way
    file,       \* schedules.json: the jobs stored, by id
    current,    \* the service the plugin uses
    status,     \* of each service
    jobs,       \* SchedulerService._jobs
    inFlight,   \* SchedulerService._in_flight
    task,       \* the attempt of a job; cancelled ones are not _active_tasks
    waiting,    \* the attempts close() gathers
    rows,       \* assistant rows stored under the key of a job and a fire time
    created,    \* history: ids drawn
    withdrawn,  \* history: jobs cancelled by a request or a role's deletion
    ended       \* history: occurrences whose attempt the current service ended

world   == <<now, roles, deleted>>
service == <<current, status>>
known   == <<file, jobs>>
work    == <<inFlight, task, waiting>>
history == <<created, withdrawn, ended>>
vars    == <<world, service, known, work, rows, history>>

NoTask   == [stage |-> "none", version |-> 0, fire |-> 0, tier |-> "instant",
             cancelled |-> FALSE]
NoJobs   == [j \in {} |-> NoTask]

Init ==
    /\ now = 0 /\ roles = Roles /\ deleted = {}
    /\ file = NoJobs /\ current = 1
    /\ status = [s \in Services |-> IF s = 1 THEN "on" ELSE "new"]
    /\ jobs = [s \in Services |-> NoJobs]
    /\ inFlight = [s \in Services |-> {}]
    /\ task = [s \in Services |-> [j \in Jobs |-> NoTask]]
    /\ waiting = [s \in Services |-> {}]
    /\ rows = [j \in Jobs |-> [f \in Fires |-> 0]]
    /\ created = {} /\ withdrawn = {} /\ ended = {}

(***************************************************************************)
(* Fire times.  A cron job fires at the first instant not before "after";  *)
(* an interval is added to its last nominal time until that is past.       *)
(***************************************************************************)
NextCron(after) == Period * ((after + (Period - 1)) \div Period)

AdvanceEvery(job, after) ==
    LET past == IF after < job.fire_at THEN 0 ELSE after - job.fire_at
    IN  IF job.trigger = "cron" THEN NextCron(after)
        ELSE job.fire_at + Interval + Interval * (past \div Interval)

\* The instant of an "at" may have passed.
FirstFires(j, trigger) ==
    CASE trigger = "at"       -> AtTimes[j]
      [] trigger = "cron"     -> {NextCron(now)}
      [] trigger = "interval" -> {now + Interval}

\* The job object an attempt was started for is the one in memory.
IsCurrent(s, j) == /\ j \in DOMAIN jobs[s]
                   /\ jobs[s][j].version = task[s][j].version

(***************************************************************************)
(* Requests: tools, the plugin's RPC and SCHEDULER.  They check no status, *)
(* so a turn of a generation that is leaving may still reach a closed      *)
(* service as long as no other has taken its place.                        *)
(***************************************************************************)
Reachable(s) == s = current /\ status[s] \in {"on", "closing", "closed"}

ReplaceJobs(s, next) ==
    /\ file' = next
    /\ jobs' = [jobs EXCEPT ![s] = next]

BuildJob(form, fire_at, version) ==
    [trigger |-> form.trigger, tier |-> form.tier, fire_at |-> fire_at, version |-> version]

CreateJob(s, j) ==
    /\ Reachable(s) /\ j \notin created
    /\ \E form \in Forms[j] : \E f \in FirstFires(j, form.trigger) :
         ReplaceJobs(s, [i \in DOMAIN jobs[s] \cup {j} |->
                            IF i = j THEN BuildJob(form, f, 0) ELSE jobs[s][i]])
    /\ created' = created \cup {j}
    /\ UNCHANGED <<world, service, work, rows, withdrawn, ended>>

Editable(s, j) ==
    /\ j \in DOMAIN jobs[s] /\ j \notin inFlight[s]
    /\ task[s][j].stage = "none" \/ task[s][j].cancelled

UpdateJob(s, j) ==
    /\ Reachable(s) /\ Editable(s, j) /\ jobs[s][j].version < MaxEdits[j]
    /\ \E form \in Forms[j] : \E f \in FirstFires(j, form.trigger) :
         ReplaceJobs(s, [jobs[s] EXCEPT ![j] = BuildJob(form, f, @.version + 1)])
    /\ UNCHANGED <<world, service, work, rows, history>>

\* task.cancel(), where there is an attempt.
Cancelled(t) == [t EXCEPT !.cancelled = t.stage # "none"]

\* Fault: the running work goes on.
CancelJobsStored(s, gone) ==
    /\ ReplaceJobs(s, Restrict(jobs[s], DOMAIN jobs[s] \ gone))
    /\ inFlight' = [inFlight EXCEPT ![s] = @ \ gone]
    /\ withdrawn' = withdrawn \cup gone
    /\ UNCHANGED task

\* Stored first, then the running work is cancelled.
CancelJobs(s, gone) ==
    /\ ReplaceJobs(s, Restrict(jobs[s], DOMAIN jobs[s] \ gone))
    /\ task' = [task EXCEPT ![s] = [j \in Jobs |->
           IF j \in gone THEN Cancelled(task[s][j]) ELSE task[s][j]]]
    /\ inFlight' = [inFlight EXCEPT ![s] = @ \ gone]
    /\ withdrawn' = withdrawn \cup gone

CancelJob(s, j) ==
    /\ Reachable(s) /\ j \in DOMAIN jobs[s]
    /\ CancelJobs(s, {j})
    /\ UNCHANGED <<world, service, waiting, rows, created, ended>>

\* A role is deleted and its event enqueued; the plugin's handler withdraws the
\* role's jobs.  An event that stays here is one whose handler failed or that
\* found no listener.
DeleteRole(r) ==
    /\ r \in roles
    /\ roles' = roles \ {r} /\ deleted' = deleted \cup {r}
    /\ UNCHANGED <<now, service, known, work, rows, history>>

CancelRoleJobs(r) ==
    LET gone == {j \in DOMAIN jobs[current] : RoleOf[j] = r}
    IN  /\ r \in deleted /\ status[current] = "on"
        /\ deleted' = deleted \ {r}
        /\ IF gone = {} THEN UNCHANGED <<known, inFlight, task, withdrawn>>
                        ELSE CancelJobs(current, gone)
        /\ UNCHANGED <<now, roles, service, waiting, rows, created, ended>>

(***************************************************************************)
(* The tick, which goes on until close() has gathered the attempts.        *)
(***************************************************************************)
ActualTrigger(job, lead) ==
    IF job.tier = "instant" THEN job.fire_at ELSE job.fire_at - lead

DueJobs(s, lead) ==
    {j \in DOMAIN jobs[s] \ inFlight[s] : ActualTrigger(jobs[s][j], lead) <= now}

StartAttempt(s, j) == [stage |-> "created", version |-> jobs[s][j].version,
                       fire |-> jobs[s][j].fire_at, tier |-> jobs[s][j].tier,
                       cancelled |-> FALSE]

Tick(s) ==
    /\ status[s] \in {"on", "closing"}
    /\ \E lead \in Leads :
         LET due == DueJobs(s, lead)
         IN  /\ due # {}
             /\ inFlight' = [inFlight EXCEPT ![s] = @ \cup due]
             /\ task' = [task EXCEPT ![s] = [j \in Jobs |->
                    IF j \in due THEN StartAttempt(s, j) ELSE @[j]]]
    /\ UNCHANGED <<world, service, known, waiting, rows, history>>

(***************************************************************************)
(* An attempt.  "created" has not run; "turn" awaits a soft job's turn and *)
(* "deliver" an instant job's push; when its row is "stored" nothing else  *)
(* is: the push of a soft job's reply announces the turn's row.            *)
(***************************************************************************)
Awaiting == {"turn", "deliver", "stored"}

Stage(s, j, stage) == task' = [task EXCEPT ![s][j].stage = stage]

\* The block the attempt always leaves through, unless it never began.
Leave(s, j) ==
    /\ task' = [task EXCEPT ![s][j] = NoTask]
    /\ inFlight' = [inFlight EXCEPT ![s] = @ \ {j}]
    /\ waiting' = [waiting EXCEPT ![s] = @ \ {j}]

\* Fault: the next time is reckoned from the clock alone.
SettledFromNow(s, j) ==
    IF jobs[s][j].trigger = "at" THEN Restrict(jobs[s], DOMAIN jobs[s] \ {j})
    ELSE [jobs[s] EXCEPT ![j].fire_at = AdvanceEvery(jobs[s][j], now + 1)]

Settled(s, j) ==
    LET job == jobs[s][j]
        after == (IF now > job.fire_at THEN now ELSE job.fire_at) + 1
    IN  IF job.trigger = "at" THEN Restrict(jobs[s], DOMAIN jobs[s] \ {j})
        ELSE [jobs[s] EXCEPT ![j].fire_at = AdvanceEvery(job, after)]

\* Fault: the end of an attempt goes by the job it was given.
RescheduleRevives(s, j) ==
    LET next == IF j \in DOMAIN jobs[s] THEN Settled(s, j)
                ELSE [i \in DOMAIN jobs[s] \cup {j} |->
                        IF i = j THEN [trigger |-> "cron", tier |-> task[s][j].tier,
                                       fire_at |-> NextCron(now + 1),
                                       version |-> task[s][j].version]
                        ELSE jobs[s][i]]
    IN  jobs' = [jobs EXCEPT ![s] = next] /\ file' \in {file, next}

Reschedule(s, j) ==
    IF IsCurrent(s, j)
    THEN /\ jobs' = [jobs EXCEPT ![s] = Settled(s, j)]
         /\ file' \in {file, Settled(s, j)}
    ELSE UNCHANGED <<jobs, file>>

Begin(s, j) ==
    /\ task[s][j].stage = "created" /\ ~task[s][j].cancelled
    /\ IF IsCurrent(s, j)
       THEN /\ Stage(s, j, IF task[s][j].tier = "soft" THEN "turn" ELSE "deliver")
            /\ UNCHANGED <<inFlight, waiting>>
       ELSE Leave(s, j)
    /\ UNCHANGED <<world, service, known, rows, history>>

\* Cancelled before its first step: no line of it runs, _in_flight keeps the id.
NeverBegins(s, j) ==
    /\ task[s][j].stage = "created" /\ task[s][j].cancelled
    /\ task' = [task EXCEPT ![s][j] = NoTask]
    /\ waiting' = [waiting EXCEPT ![s] = @ \ {j}]
    /\ UNCHANGED <<world, service, known, inFlight, rows, history>>

AddRow(j, f) == rows' = [rows EXCEPT ![j][f] = IF @ = 2 THEN 2 ELSE @ + 1]

TurnCommits(s, j) ==
    /\ task[s][j].stage = "turn"
    /\ AddRow(j, task[s][j].fire)
    /\ Stage(s, j, "stored")
    /\ UNCHANGED <<world, service, known, inFlight, waiting, history>>

StorePush(j, f) == IF rows[j][f] > 0 THEN UNCHANGED rows ELSE AddRow(j, f)

Deliver(s, j) ==
    /\ task[s][j].stage = "deliver"
    /\ StorePush(j, task[s][j].fire)
    /\ Stage(s, j, "stored")
    /\ UNCHANGED <<world, service, known, inFlight, waiting, history>>

Occurrence(s, j) == <<j, task[s][j].version, task[s][j].fire>>

\* The work returned or failed, having suppressed a cancellation perhaps.
EndAttempt(s, j) ==
    /\ task[s][j].stage \in Awaiting
    /\ Leave(s, j) /\ Reschedule(s, j)
    /\ ended' = IF s = current THEN ended \cup {Occurrence(s, j)} ELSE ended
    /\ UNCHANGED <<world, service, rows, created, withdrawn>>

\* Fault: a cancelled attempt is settled like one that ended.
EndCancelledSettled(s, j) ==
    /\ task[s][j].stage \in Awaiting /\ task[s][j].cancelled
    /\ Leave(s, j) /\ Reschedule(s, j)
    /\ UNCHANGED <<world, service, rows, history>>

EndCancelled(s, j) ==
    /\ task[s][j].stage \in Awaiting /\ task[s][j].cancelled
    /\ Leave(s, j)
    /\ UNCHANGED <<world, service, known, rows, history>>

Attempt(s, j) ==
    Begin(s, j) \/ NeverBegins(s, j) \/ TurnCommits(s, j)
        \/ Deliver(s, j) \/ EndAttempt(s, j) \/ EndCancelled(s, j)

(***************************************************************************)
(* The service's life.                                                     *)
(***************************************************************************)
Live(s) == {j \in Jobs : task[s][j].stage # "none"}

Tracked(s) == {j \in Live(s) : ~task[s][j].cancelled}

\* With nothing to gather close() goes on to cancel the tick in the same step.
Close(s) ==
    /\ status[s] = "on"
    /\ status' = [status EXCEPT ![s] = IF Tracked(s) = {} THEN "closed" ELSE "closing"]
    /\ waiting' = [waiting EXCEPT ![s] = Tracked(s)]
    /\ task' = [task EXCEPT ![s] = [j \in Jobs |-> Cancelled(task[s][j])]]
    /\ UNCHANGED <<world, current, known, inFlight, rows, history>>

Closed(s) ==
    /\ status[s] = "closing" /\ waiting[s] = {}
    /\ status' = [status EXCEPT ![s] = "closed"]
    /\ UNCHANGED <<world, current, known, work, rows, history>>

\* The process dies: what is in memory is gone.
Crash ==
    /\ current < MaxServices
    /\ \E s \in Services : status[s] \in {"on", "closing"} \/ Live(s) # {}
    /\ status' = [s \in Services |-> IF s <= current THEN "dead" ELSE "new"]
    /\ jobs' = [s \in Services |-> NoJobs]
    /\ inFlight' = [s \in Services |-> {}]
    /\ task' = [s \in Services |-> [j \in Jobs |-> NoTask]]
    /\ waiting' = [s \in Services |-> {}]
    /\ deleted' = {}
    /\ UNCHANGED <<now, roles, current, file, rows, history>>

\* load_and_recover(): orphans and one-time jobs missed by more than the grace
\* are dropped, recurring ones move to their next time.
Expired(job) == job.trigger = "at" /\ now - job.fire_at > Grace

RecoveredFire(job) ==
    IF job.trigger = "cron" \/ (job.trigger = "interval" /\ job.fire_at <= now)
    THEN AdvanceEvery(job, now) ELSE job.fire_at

Recovered ==
    [j \in {i \in DOMAIN file : RoleOf[i] \in roles /\ ~Expired(file[i])} |->
        [file[j] EXCEPT !.fire_at = RecoveredFire(file[j])]]

Start(s) ==
    /\ s = current + 1 /\ s \in Services /\ status[current] \in {"closed", "dead"}
    /\ current' = s
    /\ status' = [status EXCEPT ![s] = "on"]
    /\ ReplaceJobs(s, Recovered)
    /\ ended' = {}
    /\ UNCHANGED <<world, work, rows, created, withdrawn>>

Advance ==
    /\ now < MaxTime
    /\ now' = now + 1
    /\ UNCHANGED <<roles, deleted, service, known, work, rows, history>>

Next ==
    \/ \E s \in Services, j \in Jobs :
         CreateJob(s, j) \/ UpdateJob(s, j) \/ CancelJob(s, j) \/ Attempt(s, j)
    \/ \E r \in Roles : DeleteRole(r) \/ CancelRoleJobs(r)
    \/ \E s \in Services : Tick(s) \/ Close(s) \/ Closed(s) \/ Start(s)
    \/ Crash
    \/ Advance

Spec == Init /\ [][Next]_vars

-----------------------------------------------------------------------------
Triggers == {"at", "cron", "interval"}
Tiers    == {"instant", "soft"}
Job      == [trigger : Triggers, tier : Tiers, fire_at : Nat, version : Nat]
Task     == [stage : {"none", "created"} \cup Awaiting, version : Nat, fire : Nat,
             tier : Tiers, cancelled : BOOLEAN]

TypeOK ==
    /\ now \in Times /\ roles \subseteq Roles /\ deleted \subseteq Roles
    /\ file \in [DOMAIN file -> Job] /\ DOMAIN file \subseteq created
    /\ current \in Services
    /\ status \in [Services -> {"new", "on", "closing", "closed", "dead"}]
    /\ DOMAIN jobs = Services
    /\ \A s \in Services : jobs[s] \in [DOMAIN jobs[s] -> Job] /\ DOMAIN jobs[s] \subseteq created
    /\ inFlight \in [Services -> SUBSET Jobs] /\ waiting \in [Services -> SUBSET Jobs]
    /\ task \in [Services -> [Jobs -> Task]]
    /\ rows \in [Jobs -> [Fires -> 0..2]]
    /\ created \subseteq Jobs /\ withdrawn \subseteq created
    /\ ended \in SUBSET (created \X Nat \X Nat)

\* An attempt that close() left running, or of an earlier service, ends here.
StrayEnds == \E s \in Services, j \in Jobs :
    /\ status[s] = "closed"
    /\ task[s][j].stage # "none" /\ task'[s][j].stage = "none"

\* What close() promises (scheduler.py:324): it stops ticking and cancels the
\* running jobs.  It does not: the tick is stopped last and starts attempts
\* while close() gathers the others.
ClosedIdle == \A s \in Services : status[s] = "closed" => Tracked(s) = {}

\* A withdrawn job is gone from memory and file in the same step and comes back
\* to neither: no attempt that suppressed its cancellation, no failed save, no
\* crash and no recovery brings it back.  Only an attempt of a closed service
\* can, when it stores the jobs that service knew, and the file then passes it
\* on to the next service.
NoneRevived == \A j \in withdrawn' :
    /\ j \in DOMAIN file' =>
         (j \in withdrawn /\ j \in DOMAIN file \cup DOMAIN jobs[current]) \/ StrayEnds
    /\ j \in (DOMAIN jobs[current])' =>
         /\ j \in withdrawn
         /\ j \in DOMAIN jobs[current] \/ (current' # current /\ j \in DOMAIN file)

WithdrawnStaysGone == [][NoneRevived]_vars

\* A withdrawn job's message is stored only by an attempt that was asked to stop
\* and did not, or by one that a closed service left running; no attempt that
\* was queued, and none that a tick, an update or a recovery starts, speaks for
\* it, unless an attempt of a closed service has brought the job back.
NoneSpoken == \A j \in withdrawn : rows'[j] # rows[j] =>
    \/ j \in DOMAIN jobs[current]
    \/ \E s \in Services : /\ task[s][j].stage \in {"turn", "deliver"}
                           /\ task[s][j].cancelled \/ status[s] = "closed"

WithdrawnStaysSilent == [][NoneSpoken]_vars

\* Within one service a job has one attempt at a time: a withdrawal and close()
\* leave cancelled attempts running, edits move the time they were started for,
\* and no tick starts another beside them.
NoneBeside == \A s \in Services : \A j \in inFlight'[s] \ inFlight[s] : task[s][j].stage = "none"

AttemptsApart == [][NoneBeside]_vars

\* Within one service an occurrence whose attempt ended is not started again: a
\* soft job runs before its nominal time and must not fire until it comes.
NoneRefired == \A s \in Services, j \in Jobs :
    task[s][j].stage = "none" /\ task'[s][j].stage = "created" => Occurrence(s, j)' \notin ended

OccurrenceOnce == [][NoneRefired]_vars

\* A job leaves the file because it was withdrawn, because its one attempt came
\* to its end (in that step, or before one whose save failed), or because
\* recovery found its role gone or its time long past; never because close()
\* cancelled its attempt, or with the save that another job's attempt makes.
NoneLost == \A j \in DOMAIN file \ DOMAIN file' :
    \/ j \in withdrawn' \/ StrayEnds
    \/ current' = current /\ j \notin DOMAIN jobs[current]
    \/ j \in Live(current) /\ j \notin Live(current)' /\ Occurrence(current, j) \in ended'
    \/ current' # current /\ (RoleOf[j] \notin roles \/ Expired(file[j]))

StoreKeeps == [][NoneLost]_vars
=============================================================================
