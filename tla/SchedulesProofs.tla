-------------------------- MODULE SchedulesProofs --------------------------
(***************************************************************************)
(* The scheduler keeps withdrawals, occurrences and jobs straight, for any *)
(* number of jobs, roles, edits and services, any period and any lead.     *)
(***************************************************************************)
EXTENDS Schedules, TLAPS

\* Only the current service is on or closing, and one that never started or
\* died with its process runs nothing.
ServiceOrder ==
    /\ \A s \in Services : s # current => status[s] \in {"new", "closed", "dead"}
    /\ \A s \in Services : s > current => status[s] = "new"
    /\ \A s \in Services, j \in Jobs :
         status[s] \in {"new", "dead"} => task[s][j].stage = "none"

\* The attempt of a known job is in flight, for that job's version and time.
Pinned == \A s \in Services, j \in Jobs : task[s][j].stage # "none" =>
    /\ j \in created
    /\ j \in DOMAIN jobs[s] =>
         /\ j \in inFlight[s]
         /\ task[s][j].version = jobs[s][j].version
         /\ task[s][j].fire = jobs[s][j].fire_at

\* A job is always past the occurrences that ended.
Spent == \A j \in DOMAIN jobs[current], v \in Nat, f \in Nat : <<j, v, f>> \in ended =>
    \/ v < jobs[current][j].version
    \/ v = jobs[current][j].version /\ f < jobs[current][j].fire_at

Inv == TypeOK /\ ServiceOrder /\ Pinned /\ Spent

JobMap(m) == m \in [DOMAIN m -> Job] /\ DOMAIN m \subseteq created

KnownTyped == JobMap(file) /\ DOMAIN jobs = Services /\ \A s \in Services : JobMap(jobs[s])

WorkTyped ==
    /\ now \in Times /\ roles \subseteq Roles /\ deleted \subseteq Roles
    /\ current \in Services
    /\ status \in [Services -> {"new", "on", "closing", "closed", "dead"}]
    /\ inFlight \in [Services -> SUBSET Jobs] /\ waiting \in [Services -> SUBSET Jobs]
    /\ task \in [Services -> [Jobs -> Task]]
    /\ rows \in [Jobs -> [Fires -> 0..2]]
    /\ created \subseteq Jobs /\ withdrawn \subseteq created
    /\ ended \in SUBSET (created \X Nat \X Nat)

-----------------------------------------------------------------------------
(* Fire times *)

LEMMA Division ==
    ASSUME NEW a \in Nat, NEW p \in Nat \ {0}
    PROVE  a \div p \in Nat /\ p * (a \div p) \in Nat /\ p * (a \div p) <= a
           /\ a < p * (a \div p) + p
  OBVIOUS

LEMMA NextCronAfter ==
    ASSUME NEW after \in Nat
    PROVE  NextCron(after) \in Nat /\ NextCron(after) >= after
<1> DEFINE a == after + (Period - 1)
<1>1. Period \in Nat \ {0} /\ a \in Nat
  BY SchedulesAssumption
<1>2. Period * (a \div Period) \in Nat /\ a < Period * (a \div Period) + Period
  BY <1>1, Division
<1>3. NextCron(after) = Period * (a \div Period)
  BY DEF NextCron
<1> HIDE DEF a
<1>4. after = a - (Period - 1)
  BY <1>1 DEF a
<1> DEFINE n == Period * (a \div Period)
<1>5. n \in Nat /\ a < n + Period
  BY <1>2
<1> HIDE DEF n
<1>6. NextCron(after) = n
  BY <1>3 DEF n
<1> QED
  BY <1>1, <1>4, <1>5, <1>6

LEMMA AdvanceAfter ==
    ASSUME NEW job \in Job, NEW after \in Nat
    PROVE  AdvanceEvery(job, after) \in Nat /\ AdvanceEvery(job, after) >= after
<1>1. job.fire_at \in Nat /\ Interval \in Nat \ {0}
  BY SchedulesAssumption DEF Job
<1>2. CASE job.trigger = "cron"
  BY <1>2, NextCronAfter DEF AdvanceEvery
<1>3. CASE job.trigger # "cron"
  <2> DEFINE past == IF after < job.fire_at THEN 0 ELSE after - job.fire_at
             n == Interval * (past \div Interval)
  <2>1. past \in Nat /\ after <= job.fire_at + past
    BY <1>1
  <2> HIDE DEF past
  <2>2. n \in Nat /\ past < n + Interval
    BY <1>1, <2>1, Division
  <2> HIDE DEF n
  <2>3. AdvanceEvery(job, after) = job.fire_at + Interval + n
    BY <1>3 DEF AdvanceEvery, past, n
  <2> QED
    BY <1>1, <2>1, <2>2, <2>3
<1> QED
  BY <1>2, <1>3

LEMMA FirstFiresNat ==
    ASSUME TypeOK, NEW j \in Jobs, NEW t \in Triggers
    PROVE  FirstFires(j, t) \subseteq Nat
<1>1. now \in Nat /\ AtTimes[j] \subseteq Nat /\ Interval \in Nat
  BY SchedulesAssumption DEF TypeOK, Times
<1>2. NextCron(now) \in Nat
  BY <1>1, NextCronAfter
<1>3. CASE t = "at"
  BY <1>1, <1>3 DEF FirstFires
<1>4. CASE t = "cron"
  BY <1>2, <1>4 DEF FirstFires
<1>5. CASE t = "interval"
  BY <1>1, <1>5 DEF FirstFires
<1> QED
  BY <1>3, <1>4, <1>5 DEF Triggers

LEMMA FormKinds ==
    ASSUME NEW j \in Jobs, NEW form \in Forms[j]
    PROVE  form.trigger \in Triggers /\ form.tier \in Tiers
  BY SchedulesAssumption DEF Triggers, Tiers

\* What an attempt's end makes of the jobs: its own is gone or strictly later.
LEMMA SettledLater ==
    ASSUME TypeOK, NEW s \in Services, NEW j \in DOMAIN jobs[s]
    PROVE  /\ JobMap(Settled(s, j))
           /\ DOMAIN Settled(s, j) \subseteq DOMAIN jobs[s]
           /\ DOMAIN jobs[s] \ DOMAIN Settled(s, j) \subseteq {j}
           /\ \A i \in DOMAIN Settled(s, j) \ {j} : Settled(s, j)[i] = jobs[s][i]
           /\ j \in DOMAIN Settled(s, j) =>
                /\ Settled(s, j)[j].version = jobs[s][j].version
                /\ Settled(s, j)[j].fire_at > jobs[s][j].fire_at
<1> DEFINE job == jobs[s][j]
           after == (IF now > job.fire_at THEN now ELSE job.fire_at) + 1
           a == AdvanceEvery(job, after)
<1>1. JobMap(jobs[s]) /\ job \in Job /\ now \in Nat
  BY DEF TypeOK, JobMap, Times
<1>2. after \in Nat /\ after > job.fire_at
  BY <1>1 DEF Job
<1>3. a \in Nat /\ a > job.fire_at
  <2>1. a \in Nat /\ a >= after
    BY <1>1, <1>2, AdvanceAfter
  <2>2. job.fire_at \in Nat
    BY <1>1 DEF Job
  <2> HIDE DEF a, after, job
  <2> QED
    BY <1>2, <2>1, <2>2
<1>4. CASE job.trigger = "at"
  <2>1. Settled(s, j) = [i \in DOMAIN jobs[s] \ {j} |-> jobs[s][i]]
    BY <1>4 DEF Settled, Restrict
  <2> QED
    BY <1>1, <2>1 DEF JobMap
<1>5. CASE job.trigger # "at"
  <2>1. Settled(s, j) = [jobs[s] EXCEPT ![j] = [job EXCEPT !.fire_at = a]]
    BY <1>5 DEF Settled
  <2> HIDE DEF a
  <2>2. [job EXCEPT !.fire_at = a] \in Job
    BY <1>1, <1>3 DEF Job
  <2>3. /\ [job EXCEPT !.fire_at = a].fire_at = a
        /\ [job EXCEPT !.fire_at = a].version = job.version
    BY <1>1 DEF Job
  <2> QED
    BY <1>1, <1>3, <2>1, <2>2, <2>3 DEF JobMap
<1> QED
  BY <1>4, <1>5

LEMMA RecoveredKnown ==
    ASSUME TypeOK
    PROVE  JobMap(Recovered) /\ DOMAIN Recovered \subseteq DOMAIN file
<1> SUFFICES ASSUME NEW j \in DOMAIN Recovered
             PROVE  Recovered[j] \in Job
  BY DEF Recovered, JobMap, TypeOK
<1>1. file[j] \in Job /\ now \in Nat
  BY DEF TypeOK, Recovered, Times
<1>2. RecoveredFire(file[j]) \in Nat
  BY <1>1, AdvanceAfter DEF RecoveredFire, Job
<1>3. Recovered[j] = [file[j] EXCEPT !.fire_at = RecoveredFire(file[j])]
  BY DEF Recovered
<1> HIDE DEF Recovered
<1> QED
  BY <1>1, <1>2, <1>3 DEF Job

-----------------------------------------------------------------------------
(* The kinds of values *)

\* Memory and file hold jobs whose ids were drawn.
LEMMA KnownStep == TypeOK /\ [Next]_vars => KnownTyped'
<1> SUFFICES ASSUME TypeOK, [Next]_vars PROVE KnownTyped'
  OBVIOUS
<1>0. KnownTyped /\ created \subseteq Jobs
  BY DEF TypeOK, KnownTyped, JobMap
<1>a. ASSUME UNCHANGED <<known, created>> PROVE KnownTyped'
  BY <1>0, <1>a DEF KnownTyped, JobMap, known
<1>b. ASSUME NEW s \in Services, NEW next, ReplaceJobs(s, next), created \subseteq created',
             next \in [DOMAIN next -> Job], DOMAIN next \subseteq created'
      PROVE  KnownTyped'
  BY <1>0, <1>b DEF KnownTyped, JobMap, ReplaceJobs
<1>c. ASSUME NEW s \in Services, NEW j \in Jobs, Reschedule(s, j), created' = created
      PROVE  KnownTyped'
  <2>1. CASE IsCurrent(s, j)
    <3>1. JobMap(Settled(s, j))
      BY <2>1, SettledLater DEF IsCurrent
    <3>2. jobs' = [jobs EXCEPT ![s] = Settled(s, j)] /\ file' \in {file, Settled(s, j)}
      BY <1>c, <2>1 DEF Reschedule
    <3> QED
      BY <1>0, <1>c, <3>1, <3>2 DEF KnownTyped, JobMap
  <2>2. CASE ~IsCurrent(s, j)
    BY <1>a, <1>c, <2>2 DEF Reschedule, known
  <2> QED
    BY <2>1, <2>2
<1>1. ASSUME NEW s \in Services, NEW j \in Jobs, CreateJob(s, j) PROVE KnownTyped'
  <2>1. PICK form \in Forms[j] : \E f \in FirstFires(j, form.trigger) :
           ReplaceJobs(s, [i \in DOMAIN jobs[s] \cup {j} |->
                            IF i = j THEN BuildJob(form, f, 0) ELSE jobs[s][i]])
    BY <1>1 DEF CreateJob
  <2>2. PICK f \in FirstFires(j, form.trigger) :
           ReplaceJobs(s, [i \in DOMAIN jobs[s] \cup {j} |->
                            IF i = j THEN BuildJob(form, f, 0) ELSE jobs[s][i]])
    BY <2>1
  <2>3. BuildJob(form, f, 0) \in Job
    BY FormKinds, FirstFiresNat DEF Job, BuildJob
  <2>4. created' = created \cup {j}
    BY <1>1 DEF CreateJob
  <2>5. jobs[s] \in [DOMAIN jobs[s] -> Job] /\ DOMAIN jobs[s] \subseteq created
    BY <1>0 DEF KnownTyped, JobMap
  <2> QED
    BY <1>b, <2>2, <2>3, <2>4, <2>5
<1>2. ASSUME NEW s \in Services, NEW j \in Jobs, UpdateJob(s, j) PROVE KnownTyped'
  <2>1. PICK form \in Forms[j] : \E f \in FirstFires(j, form.trigger) :
           ReplaceJobs(s, [jobs[s] EXCEPT ![j] = BuildJob(form, f, jobs[s][j].version + 1)])
    BY <1>2 DEF UpdateJob
  <2>2. PICK f \in FirstFires(j, form.trigger) :
           ReplaceJobs(s, [jobs[s] EXCEPT ![j] = BuildJob(form, f, jobs[s][j].version + 1)])
    BY <2>1
  <2>3. created' = created /\ j \in DOMAIN jobs[s]
    BY <1>2 DEF UpdateJob, history, Editable
  <2>4. jobs[s] \in [DOMAIN jobs[s] -> Job] /\ DOMAIN jobs[s] \subseteq created
    BY <1>0 DEF KnownTyped, JobMap
  <2>5. BuildJob(form, f, jobs[s][j].version + 1) \in Job
    BY <2>3, <2>4, FormKinds, FirstFiresNat DEF Job, BuildJob
  <2> QED
    BY <1>b, <2>2, <2>3, <2>4, <2>5
<1>d. ASSUME NEW s \in Services, NEW gone, CancelJobs(s, gone), created' = created
      PROVE  KnownTyped'
  <2>1. ReplaceJobs(s, [i \in DOMAIN jobs[s] \ gone |-> jobs[s][i]])
    BY <1>d DEF CancelJobs, Restrict
  <2>2. jobs[s] \in [DOMAIN jobs[s] -> Job] /\ DOMAIN jobs[s] \subseteq created
    BY <1>0 DEF KnownTyped, JobMap
  <2> QED
    BY <1>b, <1>d, <2>1, <2>2
<1>3. ASSUME NEW s \in Services, NEW j \in Jobs, CancelJob(s, j) PROVE KnownTyped'
  BY <1>3, <1>d DEF CancelJob
<1>4. ASSUME NEW r \in Roles, CancelRoleJobs(r) PROVE KnownTyped'
  BY <1>4, <1>a, <1>d DEF CancelRoleJobs, TypeOK
<1>5. ASSUME NEW s \in Services, NEW j \in Jobs, EndAttempt(s, j) PROVE KnownTyped'
  BY <1>5, <1>c DEF EndAttempt
<1>6. ASSUME NEW s \in Services, Start(s) PROVE KnownTyped'
  <2>1. ReplaceJobs(s, Recovered) /\ created' = created
    BY <1>6 DEF Start
  <2> QED
    BY <1>b, <2>1, RecoveredKnown DEF JobMap
<1>7. ASSUME Crash PROVE KnownTyped'
  BY <1>0, <1>7 DEF Crash, KnownTyped, JobMap, history, NoJobs
<1>8. ASSUME NEW s \in Services, NEW j \in Jobs,
             Begin(s, j) \/ NeverBegins(s, j) \/ TurnCommits(s, j) \/ Deliver(s, j)
                 \/ EndCancelled(s, j)
      PROVE  KnownTyped'
  BY <1>8, <1>a DEF Begin, NeverBegins, TurnCommits, Deliver, EndCancelled, history
<1>9. ASSUME NEW s \in Services, Tick(s) \/ Close(s) \/ Closed(s) PROVE KnownTyped'
  BY <1>9, <1>a DEF Tick, Close, Closed, history
<1>10. ASSUME Advance \/ \E r \in Roles : DeleteRole(r) PROVE KnownTyped'
  BY <1>10, <1>a DEF Advance, DeleteRole, history
<1>11. CASE UNCHANGED vars
  BY <1>11, <1>a DEF vars, history
<1> QED
  BY <1>1, <1>2, <1>3, <1>4, <1>5, <1>6, <1>7, <1>8, <1>9, <1>10, <1>11 DEF Next, Attempt

LEMMA TypeParts == TypeOK <=> WorkTyped /\ KnownTyped
  BY DEF TypeOK, WorkTyped, KnownTyped, JobMap

\* What one attempt's end and a second row do to the work.
LEMMA WorkParts ==
    ASSUME TypeOK, NEW s \in Services, NEW j \in Jobs
    PROVE  /\ NoTask \in Task
           /\ task[s][j] \in Task
           /\ j \in DOMAIN jobs[s] => StartAttempt(s, j) \in Task
           /\ \A f \in Nat : AddRow(j, f) => rows' \in [Jobs -> [Fires -> 0..2]]
<1>1. j \in DOMAIN jobs[s] => jobs[s][j] \in Job
  BY DEF TypeOK
<1>2. NoTask \in Task /\ task[s][j] \in Task
  BY DEF NoTask, Task, TypeOK, Tiers, Awaiting
<1>3. j \in DOMAIN jobs[s] => StartAttempt(s, j) \in Task
  BY <1>1 DEF StartAttempt, Task, Job, Awaiting
<1>4. ASSUME NEW f \in Nat, AddRow(j, f) PROVE rows' \in [Jobs -> [Fires -> 0..2]]
  <2>1. rows' = [rows EXCEPT ![j][f] = IF rows[j][f] = 2 THEN 2 ELSE rows[j][f] + 1]
    BY <1>4 DEF AddRow
  <2>2. rows \in [Jobs -> [Fires -> 0..2]]
    BY DEF TypeOK
  <2>3. CASE f \in Fires
    <3>1. rows[j][f] \in 0..2
      BY <2>2, <2>3
    <3> DEFINE n == IF rows[j][f] = 2 THEN 2 ELSE rows[j][f] + 1
    <3>2. n \in 0..2
      BY <3>1
    <3> HIDE DEF n
    <3> QED
      BY <2>1, <2>2, <2>3, <3>2 DEF n
  <2>4. CASE f \notin Fires
    <3> DEFINE n == IF rows[j][f] = 2 THEN 2 ELSE rows[j][f] + 1
    <3>1. rows' = [rows EXCEPT ![j][f] = n]
      BY <2>1
    <3> HIDE DEF n
    <3>2. [rows[j] EXCEPT ![f] = n] \in [Fires -> 0..2]
      BY <2>2, <2>4
    <3> QED
      BY <2>2, <3>1, <3>2
  <2> QED
    BY <2>3, <2>4
<1> QED
  BY <1>2, <1>3, <1>4

LEMMA CancelledTask ==
    ASSUME NEW t \in Task
    PROVE  /\ Cancelled(t) \in Task
           /\ Cancelled(t).stage = t.stage
           /\ Cancelled(t).version = t.version
           /\ Cancelled(t).fire = t.fire
<1>1. t \in [stage : {"none", "created"} \cup Awaiting, version : Nat, fire : Nat,
             tier : Tiers, cancelled : BOOLEAN]
  BY DEF Task
<1>2. ASSUME NEW c \in BOOLEAN
      PROVE  [t EXCEPT !.cancelled = c] \in [stage : {"none", "created"} \cup Awaiting,
             version : Nat, fire : Nat, tier : Tiers, cancelled : BOOLEAN]
  BY <1>1, Zenon
<1>3. Cancelled(t) \in Task
  BY <1>2 DEF Task, Cancelled
<1> QED
  BY <1>1, <1>3 DEF Cancelled

LEMMA WorkStep == TypeOK /\ Pinned /\ [Next]_vars => WorkTyped'
<1> SUFFICES ASSUME TypeOK, Pinned, [Next]_vars PROVE WorkTyped'
  OBVIOUS
<1>0. WorkTyped
  BY TypeParts
<1> USE <1>0 DEF WorkTyped
<1>1. ASSUME NEW s \in Services, NEW j \in Jobs, CreateJob(s, j) PROVE WorkTyped'
  BY <1>1 DEF CreateJob, world, service, work
<1>2. ASSUME NEW s \in Services, NEW j \in Jobs, UpdateJob(s, j) PROVE WorkTyped'
  BY <1>2 DEF UpdateJob, world, service, work, history
<1>3. ASSUME NEW s \in Services, NEW gone \in SUBSET created, CancelJobs(s, gone)
      PROVE  /\ task' \in [Services -> [Jobs -> Task]]
             /\ inFlight' \in [Services -> SUBSET Jobs]
             /\ withdrawn' \subseteq created
  <2>1. task' = [task EXCEPT ![s] = [j \in Jobs |->
           IF j \in gone THEN Cancelled(task[s][j]) ELSE task[s][j]]]
    BY <1>3 DEF CancelJobs
  <2>2. [j \in Jobs |-> IF j \in gone THEN Cancelled(task[s][j]) ELSE task[s][j]]
          \in [Jobs -> Task]
    BY CancelledTask
  <2> QED
    BY <1>3, <2>1, <2>2 DEF CancelJobs
<1>4. ASSUME NEW s \in Services, NEW j \in Jobs, CancelJob(s, j) PROVE WorkTyped'
  <2>1. CancelJobs(s, {j}) /\ {j} \in SUBSET created
    BY <1>4 DEF CancelJob, TypeOK
  <2> QED
    BY <1>3, <1>4, <2>1 DEF CancelJob, world, service
<1>5. ASSUME NEW r \in Roles, CancelRoleJobs(r) PROVE WorkTyped'
  <2> DEFINE gone == {j \in DOMAIN jobs[current] : RoleOf[j] = r}
  <2>1. gone \in SUBSET created
    BY DEF TypeOK
  <2>2. \/ UNCHANGED <<known, inFlight, task, withdrawn>>
        \/ CancelJobs(current, gone)
    BY <1>5 DEF CancelRoleJobs
  <2>3. UNCHANGED <<now, roles, service, waiting, rows, created, ended>> /\ deleted' = deleted \ {r}
    BY <1>5 DEF CancelRoleJobs
  <2> HIDE DEF gone
  <2> QED
    BY <1>3, <2>1, <2>2, <2>3 DEF service
<1>6. ASSUME NEW s \in Services, Tick(s) PROVE WorkTyped'
  <2>1. PICK lead \in Leads :
           LET due == DueJobs(s, lead)
           IN  /\ inFlight' = [inFlight EXCEPT ![s] = @ \cup due]
               /\ task' = [task EXCEPT ![s] = [j \in Jobs |->
                    IF j \in due THEN StartAttempt(s, j) ELSE @[j]]]
    BY <1>6 DEF Tick
  <2>2. DueJobs(s, lead) \subseteq DOMAIN jobs[s] /\ DOMAIN jobs[s] \subseteq Jobs
    BY DEF DueJobs, TypeOK
  <2>3. [j \in Jobs |-> IF j \in DueJobs(s, lead) THEN StartAttempt(s, j) ELSE task[s][j]]
          \in [Jobs -> Task]
    BY <2>2, WorkParts
  <2> QED
    BY <1>6, <2>1, <2>2, <2>3 DEF Tick, world, service, history
<1>7. ASSUME NEW s \in Services, NEW j \in Jobs, Leave(s, j)
      PROVE  /\ task' \in [Services -> [Jobs -> Task]]
             /\ inFlight' \in [Services -> SUBSET Jobs]
             /\ waiting' \in [Services -> SUBSET Jobs]
  BY <1>7, WorkParts DEF Leave
<1>8. ASSUME NEW s \in Services, NEW j \in Jobs, NEW stage \in Awaiting, Stage(s, j, stage)
      PROVE  task' \in [Services -> [Jobs -> Task]]
  <2>1. [task[s][j] EXCEPT !.stage = stage] \in Task
    BY WorkParts DEF Task
  <2> QED
    BY <1>8, <2>1 DEF Stage
<1>9. ASSUME NEW s \in Services, NEW j \in Jobs, Begin(s, j) PROVE WorkTyped'
  BY <1>7, <1>8, <1>9 DEF Begin, world, service, history, Awaiting
<1>10. ASSUME NEW s \in Services, NEW j \in Jobs, NeverBegins(s, j) PROVE WorkTyped'
  BY <1>10, WorkParts DEF NeverBegins, world, service, history
<1>11. ASSUME NEW s \in Services, NEW j \in Jobs, TurnCommits(s, j) \/ Deliver(s, j)
       PROVE  WorkTyped'
  <2>1. task[s][j].fire \in Nat
    BY DEF Task
  <2>2. rows' \in [Jobs -> [Fires -> 0..2]]
    BY <1>11, <2>1, WorkParts DEF TurnCommits, Deliver, StorePush
  <2> QED
    BY <1>8, <1>11, <2>2 DEF TurnCommits, Deliver, world, service, history, Awaiting
<1>12. ASSUME NEW s \in Services, NEW j \in Jobs, EndAttempt(s, j) PROVE WorkTyped'
  <2>1. Occurrence(s, j) \in created \X Nat \X Nat
    <3>1. j \in created
      BY <1>12 DEF Pinned, EndAttempt, Awaiting
    <3>2. task[s][j].version \in Nat /\ task[s][j].fire \in Nat
      BY DEF Task
    <3> QED
      BY <3>1, <3>2 DEF Occurrence
  <2> QED
    BY <1>7, <1>12, <2>1 DEF EndAttempt, world, service
<1>13. ASSUME NEW s \in Services, NEW j \in Jobs, EndCancelled(s, j) PROVE WorkTyped'
  BY <1>7, <1>13 DEF EndCancelled, world, service, history
<1>14. ASSUME NEW s \in Services, Close(s) PROVE WorkTyped'
  <2>1. [j \in Jobs |-> Cancelled(task[s][j])] \in [Jobs -> Task]
    BY CancelledTask
  <2>2. Tracked(s) \in SUBSET Jobs
    BY DEF Tracked, Live
  <2>3. task' = [task EXCEPT ![s] = [j \in Jobs |-> Cancelled(task[s][j])]]
    BY <1>14 DEF Close
  <2> QED
    BY <1>14, <2>1, <2>2, <2>3 DEF Close, world, history
<1>15. ASSUME NEW s \in Services, Closed(s) PROVE WorkTyped'
  BY <1>15 DEF Closed, world, work, history
<1>16. ASSUME NEW s \in Services, Start(s) PROVE WorkTyped'
  BY <1>16 DEF Start, world, work
<1>17. ASSUME Crash PROVE WorkTyped'
  <2>1. task' \in [Services -> [Jobs -> Task]]
    BY <1>17, WorkParts DEF Crash
  <2> QED
    BY <1>17, <2>1 DEF Crash, history
<1>18. ASSUME Advance PROVE WorkTyped'
  BY <1>18, SchedulesAssumption DEF Advance, service, work, history, Times
<1>19. ASSUME NEW r \in Roles, DeleteRole(r) PROVE WorkTyped'
  BY <1>19 DEF DeleteRole, service, work, history
<1>20. CASE UNCHANGED vars
  BY <1>20 DEF vars, world, service, work, history
<1> QED
  BY <1>1, <1>2, <1>4, <1>5, <1>6, <1>9, <1>10, <1>11, <1>12, <1>13, <1>14, <1>15, <1>16,
     <1>17, <1>18, <1>19, <1>20 DEF Next, Attempt

-----------------------------------------------------------------------------
(* The inductive invariant *)

\* A step of an attempt goes on with it or clears it, and touches no other.
LEMMA AttemptLocal ==
    ASSUME TypeOK, NEW s \in Services, NEW j \in Jobs, Attempt(s, j)
    PROVE  /\ task[s][j].stage # "none"
           /\ UNCHANGED <<world, service, created, withdrawn>>
           /\ \A t \in Services, i \in Jobs : t # s \/ i # j =>
                task'[t][i] = task[t][i] /\ (i \in inFlight'[t] <=> i \in inFlight[t])
           /\ \/ /\ task'[s][j].stage \in Awaiting
                 /\ task'[s][j].version = task[s][j].version
                 /\ task'[s][j].fire = task[s][j].fire
                 /\ UNCHANGED <<inFlight, jobs, file, ended>>
              \/ task'[s][j] = NoTask
           /\ UNCHANGED <<jobs, file, ended>> \/ EndAttempt(s, j)
<1>1. /\ task \in [Services -> [Jobs -> Task]] /\ inFlight \in [Services -> SUBSET Jobs]
      /\ task[s][j] \in Task
  BY DEF TypeOK
<1>2. ASSUME Leave(s, j)
      PROVE  /\ task'[s][j] = NoTask
             /\ \A t \in Services, i \in Jobs : t # s \/ i # j =>
                  task'[t][i] = task[t][i] /\ (i \in inFlight'[t] <=> i \in inFlight[t])
  BY <1>1, <1>2 DEF Leave
<1>3. ASSUME NEW stage \in Awaiting, Stage(s, j, stage)
      PROVE  /\ task'[s][j].stage = stage
             /\ task'[s][j].version = task[s][j].version
             /\ task'[s][j].fire = task[s][j].fire
             /\ \A t \in Services, i \in Jobs : t # s \/ i # j => task'[t][i] = task[t][i]
  BY <1>1, <1>3 DEF Stage, Task
<1>4. CASE Begin(s, j)
  <2>1. UNCHANGED <<world, service, created, withdrawn, jobs, file, ended>>
        /\ task[s][j].stage # "none"
    BY <1>4 DEF Begin, known, history
  <2>2. \/ Leave(s, j)
        \/ \E stage \in Awaiting : Stage(s, j, stage) /\ UNCHANGED inFlight
    BY <1>4 DEF Begin, Awaiting
  <2> QED
    BY <1>2, <1>3, <2>1, <2>2
<1>5. CASE NeverBegins(s, j)
  BY <1>1, <1>5 DEF NeverBegins, known, history
<1>6. CASE TurnCommits(s, j)
  BY <1>3, <1>6 DEF TurnCommits, known, history, Awaiting
<1>7. CASE Deliver(s, j)
  BY <1>3, <1>7 DEF Deliver, known, history, Awaiting
<1>8. CASE EndAttempt(s, j)
  BY <1>2, <1>8 DEF EndAttempt, Awaiting
<1>9. CASE EndCancelled(s, j)
  BY <1>2, <1>9 DEF EndCancelled, Awaiting, known, history
<1> QED
  BY <1>4, <1>5, <1>6, <1>7, <1>8, <1>9 DEF Attempt

\* Cancelling leaves an attempt where it is.
LEMMA CancelLocal ==
    ASSUME TypeOK, NEW s \in Services, NEW gone, CancelJobs(s, gone)
    PROVE  /\ \A t \in Services, i \in Jobs :
                /\ task'[t][i].stage = task[t][i].stage
                /\ task'[t][i].version = task[t][i].version
                /\ task'[t][i].fire = task[t][i].fire
                /\ i \in inFlight'[t] <=> i \in inFlight[t] /\ ~(t = s /\ i \in gone)
           /\ file' = jobs'[s]
           /\ DOMAIN jobs'[s] = DOMAIN jobs[s] \ gone
           /\ \A i \in DOMAIN jobs'[s] : jobs'[s][i] = jobs[s][i]
           /\ \A t \in Services \ {s} : jobs'[t] = jobs[t]
           /\ withdrawn' = withdrawn \cup gone
<1>1. task \in [Services -> [Jobs -> Task]] /\ inFlight \in [Services -> SUBSET Jobs]
      /\ DOMAIN jobs = Services
  BY DEF TypeOK
<1>2. task' = [task EXCEPT ![s] = [j \in Jobs |->
           IF j \in gone THEN Cancelled(task[s][j]) ELSE task[s][j]]]
  BY DEF CancelJobs
<1>3. ASSUME NEW t \in Services, NEW i \in Jobs
      PROVE  /\ task'[t][i].stage = task[t][i].stage
             /\ task'[t][i].version = task[t][i].version
             /\ task'[t][i].fire = task[t][i].fire
  <2>1. task'[t][i] = task[t][i] \/ task'[t][i] = Cancelled(task[t][i])
    BY <1>1, <1>2
  <2>2. task[t][i] \in Task
    BY <1>1
  <2> QED
    BY <2>1, <2>2, CancelledTask
<1> QED
  BY <1>1, <1>3 DEF CancelJobs, ReplaceJobs, Restrict

\* Closing leaves every attempt where it is.
LEMMA CloseLocal ==
    ASSUME TypeOK, NEW s \in Services, Close(s)
    PROVE  /\ \A t \in Services, i \in Jobs :
                /\ task'[t][i].stage = task[t][i].stage
                /\ task'[t][i].version = task[t][i].version
                /\ task'[t][i].fire = task[t][i].fire
           /\ UNCHANGED <<jobs, file, inFlight, created, withdrawn, ended>>
<1>1. task \in [Services -> [Jobs -> Task]]
  BY DEF TypeOK
<1>2. task' = [task EXCEPT ![s] = [j \in Jobs |-> Cancelled(task[s][j])]]
  BY DEF Close
<1>3. ASSUME NEW t \in Services, NEW i \in Jobs
      PROVE  /\ task'[t][i].stage = task[t][i].stage
             /\ task'[t][i].version = task[t][i].version
             /\ task'[t][i].fire = task[t][i].fire
  <2>1. task'[t][i] = task[t][i] \/ task'[t][i] = Cancelled(task[t][i])
    BY <1>1, <1>2
  <2>2. task[t][i] \in Task
    BY <1>1
  <2> QED
    BY <2>1, <2>2, CancelledTask
<1> QED
  BY <1>3 DEF Close, known, history

\* A tick starts attempts for known jobs that are not in flight.
LEMMA TickLocal ==
    ASSUME TypeOK, NEW s \in Services, Tick(s)
    PROVE  /\ \A t \in Services, i \in Jobs :
                \/ task'[t][i] = task[t][i] /\ (i \in inFlight'[t] <=> i \in inFlight[t])
                \/ /\ t = s /\ i \in DOMAIN jobs[s] /\ i \notin inFlight[s]
                   /\ i \in inFlight'[s] /\ task'[s][i] = StartAttempt(s, i)
           /\ status[s] \in {"on", "closing"}
           /\ UNCHANGED <<world, service, known, rows, history>>
<1>1. task \in [Services -> [Jobs -> Task]] /\ inFlight \in [Services -> SUBSET Jobs]
  BY DEF TypeOK
<1>2. PICK lead \in Leads :
           LET due == DueJobs(s, lead)
           IN  /\ inFlight' = [inFlight EXCEPT ![s] = @ \cup due]
               /\ task' = [task EXCEPT ![s] = [j \in Jobs |->
                    IF j \in due THEN StartAttempt(s, j) ELSE @[j]]]
  BY DEF Tick
<1> DEFINE due == DueJobs(s, lead)
<1>3. \A i \in due : i \in DOMAIN jobs[s] /\ i \notin inFlight[s]
  BY DEF DueJobs
<1>4. /\ inFlight' = [inFlight EXCEPT ![s] = @ \cup due]
      /\ task' = [task EXCEPT ![s] = [j \in Jobs |->
            IF j \in due THEN StartAttempt(s, j) ELSE task[s][j]]]
  BY <1>2
<1> HIDE DEF due
<1> QED
  BY <1>1, <1>3, <1>4 DEF Tick

LEMMA OrderStep == TypeOK /\ ServiceOrder /\ [Next]_vars => ServiceOrder'
<1> SUFFICES ASSUME TypeOK, ServiceOrder, [Next]_vars PROVE ServiceOrder'
  OBVIOUS
<1>0. /\ current \in Services /\ Services \subseteq Nat
      /\ status \in [Services -> {"new", "on", "closing", "closed", "dead"}]
      /\ task \in [Services -> [Jobs -> Task]]
  BY SchedulesAssumption DEF TypeOK, Services
<1>a. ASSUME UNCHANGED service, \A t \in Services, i \in Jobs :
                task'[t][i].stage = task[t][i].stage \/ status[t] \notin {"new", "dead"}
      PROVE  ServiceOrder'
  BY <1>a DEF ServiceOrder, service
<1>1. ASSUME NEW s \in Services, NEW j \in Jobs, CreateJob(s, j) \/ UpdateJob(s, j)
      PROVE  ServiceOrder'
  BY <1>1, <1>a DEF CreateJob, UpdateJob, work
<1>2. ASSUME NEW s \in Services, NEW j \in Jobs, CancelJob(s, j) PROVE ServiceOrder'
  BY <1>2, <1>a, CancelLocal DEF CancelJob
<1>3. ASSUME NEW r \in Roles, CancelRoleJobs(r) PROVE ServiceOrder'
  BY <1>0, <1>3, <1>a, CancelLocal DEF CancelRoleJobs
<1>4. ASSUME NEW s \in Services, NEW j \in Jobs, Attempt(s, j) PROVE ServiceOrder'
  BY <1>4, <1>a, AttemptLocal DEF ServiceOrder
<1>5. ASSUME NEW s \in Services, Tick(s) PROVE ServiceOrder'
  BY <1>5, <1>a, TickLocal
<1>6. ASSUME NEW s \in Services, Close(s) PROVE ServiceOrder'
  <2>1. current' = current /\ s = current
    BY <1>6 DEF Close, ServiceOrder
  <2>2. status' = [status EXCEPT ![s] = IF Tracked(s) = {} THEN "closed" ELSE "closing"]
    BY <1>6 DEF Close
  <2> QED
    BY <1>0, <1>6, <2>1, <2>2, CloseLocal DEF ServiceOrder
<1>7. ASSUME NEW s \in Services, Closed(s) PROVE ServiceOrder'
  <2>1. current' = current /\ s = current /\ task' = task
    BY <1>7 DEF Closed, ServiceOrder, work
  <2>2. status' = [status EXCEPT ![s] = "closed"]
    BY <1>7 DEF Closed
  <2> QED
    BY <1>0, <1>7, <2>1, <2>2 DEF ServiceOrder
<1>8. ASSUME NEW s \in Services, Start(s) PROVE ServiceOrder'
  <2>1. /\ s = current + 1 /\ current' = s /\ task' = task
        /\ status' = [status EXCEPT ![s] = "on"]
        /\ status[current] \in {"closed", "dead"}
    BY <1>8 DEF Start, work
  <2> QED
    BY <1>0, <2>1 DEF ServiceOrder
<1>9. ASSUME Crash PROVE ServiceOrder'
  <2>1. \A t \in Services, i \in Jobs : task'[t][i].stage = "none"
    BY <1>9 DEF Crash, NoTask
  <2>2. current' = current
        /\ status' = [t \in Services |-> IF t <= current THEN "dead" ELSE "new"]
    BY <1>9 DEF Crash
  <2> QED
    BY <1>0, <2>1, <2>2 DEF ServiceOrder
<1>10. ASSUME NEW r \in Roles, DeleteRole(r) PROVE ServiceOrder'
  BY <1>10, <1>a DEF DeleteRole, work
<1>11. ASSUME Advance PROVE ServiceOrder'
  BY <1>11, <1>a DEF Advance, work
<1>12. CASE UNCHANGED vars
  BY <1>12, <1>a DEF vars, work
<1> QED
  BY <1>1, <1>2, <1>3, <1>4, <1>5, <1>6, <1>7, <1>8, <1>9, <1>10, <1>11, <1>12
     DEF Next, Attempt

\* An attempt's end changes only its own job, and only to a later time.
LEMMA EndLocal ==
    ASSUME TypeOK, NEW s \in Services, NEW j \in Jobs, EndAttempt(s, j)
    PROVE  /\ \A t \in Services \ {s} : jobs'[t] = jobs[t]
           /\ DOMAIN jobs'[s] \subseteq DOMAIN jobs[s]
           /\ DOMAIN jobs[s] \ DOMAIN jobs'[s] \subseteq {j}
           /\ \A i \in DOMAIN jobs'[s] \ {j} : jobs'[s][i] = jobs[s][i]
           /\ j \in DOMAIN jobs'[s] =>
                /\ jobs'[s][j].version = jobs[s][j].version
                /\ \/ jobs'[s][j].fire_at > jobs[s][j].fire_at
                   \/ ~IsCurrent(s, j) /\ jobs'[s][j] = jobs[s][j]
           /\ file' = file \/ file' = jobs'[s]
           /\ task[s][j].stage # "none" /\ task'[s][j] = NoTask
<1>1. DOMAIN jobs = Services /\ task \in [Services -> [Jobs -> Task]]
  BY DEF TypeOK
<1>2. Reschedule(s, j) /\ task[s][j].stage # "none" /\ task'[s][j] = NoTask
  BY <1>1 DEF EndAttempt, Leave, Awaiting
<1>3. CASE IsCurrent(s, j)
  <2>1. jobs' = [jobs EXCEPT ![s] = Settled(s, j)] /\ file' \in {file, Settled(s, j)}
    BY <1>2, <1>3 DEF Reschedule
  <2>2. jobs'[s] = Settled(s, j)
    BY <1>1, <2>1
  <2> QED
    BY <1>1, <1>2, <1>3, <2>1, <2>2, SettledLater DEF IsCurrent
<1>4. CASE ~IsCurrent(s, j)
  <2>1. UNCHANGED <<jobs, file>>
    BY <1>2, <1>4 DEF Reschedule
  <2> QED
    BY <1>1, <1>2, <1>4, <2>1
<1> QED
  BY <1>3, <1>4

\* Where a request puts the jobs of the service it reaches.
LEMMA CreateLocal ==
    ASSUME TypeOK, NEW s \in Services, NEW j \in Jobs, CreateJob(s, j)
    PROVE  /\ s = current /\ j \notin created
           /\ \A t \in Services \ {s} : jobs'[t] = jobs[t]
           /\ DOMAIN jobs'[s] = DOMAIN jobs[s] \cup {j}
           /\ \A i \in DOMAIN jobs[s] \ {j} : jobs'[s][i] = jobs[s][i]
           /\ file' = jobs'[s]
           /\ created' = created \cup {j}
           /\ UNCHANGED <<world, service, work, rows, withdrawn, ended>>
<1>1. DOMAIN jobs = Services
  BY DEF TypeOK
<1>2. PICK form \in Forms[j] : \E f \in FirstFires(j, form.trigger) :
           ReplaceJobs(s, [i \in DOMAIN jobs[s] \cup {j} |->
                            IF i = j THEN BuildJob(form, f, 0) ELSE jobs[s][i]])
  BY DEF CreateJob
<1>3. PICK f \in FirstFires(j, form.trigger) :
           ReplaceJobs(s, [i \in DOMAIN jobs[s] \cup {j} |->
                            IF i = j THEN BuildJob(form, f, 0) ELSE jobs[s][i]])
  BY <1>2
<1> QED
  BY <1>1, <1>3 DEF CreateJob, Reachable, ReplaceJobs

LEMMA UpdateLocal ==
    ASSUME TypeOK, NEW s \in Services, NEW j \in Jobs, UpdateJob(s, j)
    PROVE  /\ s = current /\ j \in DOMAIN jobs[s] /\ j \notin inFlight[s]
           /\ \A t \in Services \ {s} : jobs'[t] = jobs[t]
           /\ DOMAIN jobs'[s] = DOMAIN jobs[s]
           /\ \A i \in DOMAIN jobs[s] \ {j} : jobs'[s][i] = jobs[s][i]
           /\ jobs'[s][j].version = jobs[s][j].version + 1
           /\ file' = jobs'[s]
           /\ UNCHANGED <<world, service, work, rows, history>>
<1>1. DOMAIN jobs = Services /\ jobs[s] \in [DOMAIN jobs[s] -> Job]
  BY DEF TypeOK
<1>2. PICK form \in Forms[j] : \E f \in FirstFires(j, form.trigger) :
           ReplaceJobs(s, [jobs[s] EXCEPT ![j] = BuildJob(form, f, jobs[s][j].version + 1)])
  BY DEF UpdateJob
<1>3. PICK f \in FirstFires(j, form.trigger) :
           ReplaceJobs(s, [jobs[s] EXCEPT ![j] = BuildJob(form, f, jobs[s][j].version + 1)])
  BY <1>2
<1>4. j \in DOMAIN jobs[s] /\ j \notin inFlight[s] /\ s = current
  BY DEF UpdateJob, Editable, Reachable
<1> DEFINE job == BuildJob(form, f, jobs[s][j].version + 1)
<1>5. job.version = jobs[s][j].version + 1
  BY DEF BuildJob
<1>6. file' = [jobs[s] EXCEPT ![j] = job] /\ jobs' = [jobs EXCEPT ![s] = file']
  BY <1>3 DEF ReplaceJobs
<1> HIDE DEF job
<1> QED
  BY <1>1, <1>4, <1>5, <1>6 DEF UpdateJob

LEMMA PinnedStep == Inv /\ [Next]_vars => Pinned'
<1> SUFFICES ASSUME Inv, [Next]_vars PROVE Pinned'
  OBVIOUS
<1> USE DEF Inv
<1>a. ASSUME UNCHANGED <<jobs, inFlight, created>>,
             \A t \in Services, i \in Jobs :
                /\ task'[t][i].stage = task[t][i].stage
                /\ task'[t][i].version = task[t][i].version
                /\ task'[t][i].fire = task[t][i].fire
      PROVE  Pinned'
  BY <1>a DEF Pinned
<1>1. ASSUME NEW s \in Services, NEW j \in Jobs, CreateJob(s, j) PROVE Pinned'
  <2>1. task' = task /\ inFlight' = inFlight
    BY <1>1 DEF CreateJob, work
  <2> QED
    BY <1>1, <2>1, CreateLocal DEF Pinned
<1>2. ASSUME NEW s \in Services, NEW j \in Jobs, UpdateJob(s, j) PROVE Pinned'
  <2>1. task' = task /\ inFlight' = inFlight /\ created' = created
    BY <1>2 DEF UpdateJob, work, history
  <2> QED
    BY <1>2, <2>1, UpdateLocal DEF Pinned
<1>b. ASSUME NEW s \in Services, NEW gone, CancelJobs(s, gone), created' = created
      PROVE  Pinned'
  BY <1>b, CancelLocal DEF Pinned
<1>3. ASSUME NEW s \in Services, NEW j \in Jobs, CancelJob(s, j) PROVE Pinned'
  BY <1>3, <1>b DEF CancelJob
<1>4. ASSUME NEW r \in Roles, CancelRoleJobs(r) PROVE Pinned'
  <2>1. \/ UNCHANGED <<known, inFlight, task, created>>
        \/ CancelJobs(current, {j \in DOMAIN jobs[current] : RoleOf[j] = r})
    BY <1>4 DEF CancelRoleJobs
  <2>2. current \in Services /\ created' = created
    BY <1>4 DEF CancelRoleJobs, TypeOK
  <2> QED
    BY <1>a, <1>b, <2>1, <2>2 DEF known
<1>5. ASSUME NEW s \in Services, NEW j \in Jobs, Attempt(s, j) PROVE Pinned'
  <2>1. NoTask.stage = "none"
    BY DEF NoTask
  <2>2. CASE UNCHANGED <<jobs, file, ended>>
    BY <1>5, <2>1, <2>2, AttemptLocal DEF Pinned
  <2>3. CASE EndAttempt(s, j)
    BY <1>5, <2>1, <2>3, AttemptLocal, EndLocal DEF Pinned
  <2> QED
    BY <1>5, <2>2, <2>3, AttemptLocal
<1>6. ASSUME NEW s \in Services, Tick(s) PROVE Pinned'
  <2>1. \A i \in DOMAIN jobs[s] :
          /\ StartAttempt(s, i).version = jobs[s][i].version
          /\ StartAttempt(s, i).fire = jobs[s][i].fire_at
          /\ i \in created
    BY DEF StartAttempt, TypeOK
  <2> QED
    BY <1>6, <2>1, TickLocal DEF Pinned, known, history
<1>7. ASSUME NEW s \in Services, Close(s) PROVE Pinned'
  BY <1>7, <1>a, CloseLocal
<1>8. ASSUME NEW s \in Services, Start(s) PROVE Pinned'
  <2>1. s > current /\ DOMAIN jobs = Services
    BY <1>8, SchedulesAssumption DEF Start, TypeOK, Services
  <2>2. \A i \in Jobs : task[s][i].stage = "none"
    BY <2>1 DEF ServiceOrder
  <2>3. UNCHANGED <<task, inFlight, created>> /\ \A t \in Services \ {s} : jobs'[t] = jobs[t]
    BY <1>8, <2>1 DEF Start, work, ReplaceJobs
  <2> QED
    BY <2>2, <2>3 DEF Pinned
<1>9. ASSUME Crash PROVE Pinned'
  BY <1>9 DEF Crash, Pinned, NoTask
<1>10. ASSUME NEW s \in Services, Closed(s) PROVE Pinned'
  BY <1>10, <1>a DEF Closed, known, work, history
<1>11. ASSUME NEW r \in Roles, DeleteRole(r) PROVE Pinned'
  BY <1>11, <1>a DEF DeleteRole, known, work, history
<1>12. ASSUME Advance PROVE Pinned'
  BY <1>12, <1>a DEF Advance, known, work, history
<1>13. CASE UNCHANGED vars
  BY <1>13, <1>a DEF vars, known, work, history
<1> QED
  BY <1>1, <1>2, <1>3, <1>4, <1>5, <1>6, <1>7, <1>8, <1>9, <1>10, <1>11, <1>12, <1>13
     DEF Next, Attempt

LEMMA SpentStep == Inv /\ [Next]_vars => Spent'
<1> SUFFICES ASSUME Inv, [Next]_vars PROVE Spent'
  OBVIOUS
<1> USE DEF Inv
<1>0. /\ current \in Services /\ ended \subseteq created \X Nat \X Nat
      /\ \A s \in Services : jobs[s] \in [DOMAIN jobs[s] -> Job] /\ DOMAIN jobs[s] \subseteq Jobs
  BY DEF TypeOK
<1>a. ASSUME UNCHANGED <<current, ended, jobs>> PROVE Spent'
  BY <1>a DEF Spent
<1>1. ASSUME NEW s \in Services, NEW j \in Jobs, CreateJob(s, j) PROVE Spent'
  <2>1. current' = s /\ current = s /\ ended' = ended
    BY <1>1, CreateLocal DEF service
  <2>2. \A v, f : <<j, v, f>> \notin ended
    BY <1>0, <1>1, CreateLocal
  <2> QED
    BY <1>1, <2>1, <2>2, CreateLocal DEF Spent
<1>2. ASSUME NEW s \in Services, NEW j \in Jobs, UpdateJob(s, j) PROVE Spent'
  <2>1. current' = s /\ current = s /\ ended' = ended
    BY <1>2, UpdateLocal DEF service, history
  <2>2. jobs[s][j].version \in Nat
    BY <1>0, <1>2, UpdateLocal DEF Job
  <2>3. jobs'[s][j].version = jobs[s][j].version + 1
    BY <1>2, UpdateLocal
  <2>4. \A i \in DOMAIN jobs[s] \ {j} : jobs'[s][i] = jobs[s][i]
    BY <1>2, UpdateLocal
  <2>5. DOMAIN jobs'[s] = DOMAIN jobs[s]
    BY <1>2, UpdateLocal
  <2> QED
    BY <2>1, <2>2, <2>3, <2>4, <2>5 DEF Spent
<1>b. ASSUME NEW s \in Services, NEW gone, CancelJobs(s, gone), s = current,
             UNCHANGED <<current, ended>>
      PROVE  Spent'
  BY <1>b, CancelLocal DEF Spent
<1>3. ASSUME NEW s \in Services, NEW j \in Jobs, CancelJob(s, j) PROVE Spent'
  BY <1>3, <1>b DEF CancelJob, Reachable, service
<1>4. ASSUME NEW r \in Roles, CancelRoleJobs(r) PROVE Spent'
  <2>1. UNCHANGED jobs \/ CancelJobs(current, {j \in DOMAIN jobs[current] : RoleOf[j] = r})
    BY <1>4 DEF CancelRoleJobs, known
  <2>2. UNCHANGED <<current, ended>>
    BY <1>4 DEF CancelRoleJobs, service
  <2> QED
    BY <1>0, <1>a, <1>b, <2>1, <2>2
<1>5. ASSUME NEW s \in Services, NEW j \in Jobs, Attempt(s, j) PROVE Spent'
  <2>1. current' = current
    BY <1>5, AttemptLocal DEF service
  <2>2. CASE UNCHANGED <<jobs, file, ended>>
    BY <1>a, <2>1, <2>2
  <2>3. CASE EndAttempt(s, j) /\ s # current
    <3>1. jobs'[current] = jobs[current] /\ ended' = ended
      BY <1>0, <2>3, EndLocal DEF EndAttempt
    <3> QED
      BY <2>1, <3>1 DEF Spent
  <2>4. CASE EndAttempt(s, j) /\ s = current
    <3>1. ended' = ended \cup {<<j, task[s][j].version, task[s][j].fire>>}
      BY <2>4 DEF EndAttempt, Occurrence
    <3>2. task[s][j].stage # "none"
      BY <2>4, EndLocal
    <3>3. SUFFICES ASSUME NEW i \in DOMAIN jobs'[s], NEW v \in Nat, NEW f \in Nat,
                          <<i, v, f>> \in ended'
                   PROVE  \/ v < jobs'[s][i].version
                          \/ v = jobs'[s][i].version /\ f < jobs'[s][i].fire_at
      BY <2>1, <2>4 DEF Spent
    <3>4. i \in DOMAIN jobs[s] /\ jobs[s][i] \in Job
      BY <1>0, <2>4, EndLocal
    <3>5. CASE i # j
      <4>1. <<i, v, f>> \in ended
        BY <3>1, <3>3, <3>5
      <4>2. jobs'[s][i] = jobs[s][i]
        BY <2>4, <3>5, EndLocal
      <4> QED
        BY <2>4, <3>4, <4>1, <4>2 DEF Spent
    <3>6. CASE i = j
      <4>1. task[s][j].version = jobs[s][j].version /\ task[s][j].fire = jobs[s][j].fire_at
        BY <3>2, <3>4, <3>6 DEF Pinned
      <4>2. /\ jobs'[s][j].version = jobs[s][j].version
            /\ jobs'[s][j].fire_at > jobs[s][j].fire_at
        BY <2>4, <3>4, <3>6, <4>1, EndLocal DEF IsCurrent
      <4>3. jobs[s][j].version \in Nat /\ jobs[s][j].fire_at \in Nat
        BY <3>4, <3>6 DEF Job
      <4>4. jobs'[s][j].fire_at \in Nat
        <5>1. jobs'[s] \in [DOMAIN jobs'[s] -> Job]
          BY KnownStep DEF KnownTyped, JobMap
        <5> QED
          BY <3>6, <5>1 DEF Job
      <4>5. CASE <<j, v, f>> \in ended
        <5>1. \/ v < jobs[s][j].version
              \/ v = jobs[s][j].version /\ f < jobs[s][j].fire_at
          BY <2>4, <3>4, <3>6, <4>5 DEF Spent
        <5> QED
          BY <3>6, <4>2, <4>3, <4>4, <5>1
      <4>6. CASE v = task[s][j].version /\ f = task[s][j].fire
        BY <3>6, <4>1, <4>2, <4>3, <4>4, <4>6
      <4> QED
        BY <3>1, <3>3, <3>6, <4>5, <4>6
    <3> QED
      BY <3>5, <3>6
  <2> QED
    BY <1>5, <2>2, <2>3, <2>4, AttemptLocal
<1>6. ASSUME NEW s \in Services, Start(s) PROVE Spent'
  BY <1>6 DEF Start, Spent
<1>7. ASSUME Crash PROVE Spent'
  <2>1. jobs' = [t \in Services |-> NoJobs] /\ current' = current
    BY <1>7 DEF Crash
  <2>2. DOMAIN jobs'[current'] = {}
    BY <1>0, <2>1 DEF NoJobs
  <2> QED
    BY <2>2 DEF Spent
<1>8. ASSUME NEW s \in Services, Tick(s) \/ Close(s) \/ Closed(s) PROVE Spent'
  BY <1>8, <1>a DEF Tick, Close, Closed, service, known, history
<1>9. ASSUME Advance \/ \E r \in Roles : DeleteRole(r) PROVE Spent'
  BY <1>9, <1>a DEF Advance, DeleteRole, service, known, history
<1>10. CASE UNCHANGED vars
  BY <1>10, <1>a DEF vars, service, known, history
<1> QED
  BY <1>1, <1>2, <1>3, <1>4, <1>5, <1>6, <1>7, <1>8, <1>9, <1>10 DEF Next, Attempt

\* The invariant of the scheduler.
THEOREM Invariant == Spec => []Inv
<1>1. Init => Inv
  <2> SUFFICES ASSUME Init PROVE Inv
    OBVIOUS
  <2>1. 1 \in Services
    BY SchedulesAssumption DEF Services
  <2>2. NoTask \in Task /\ NoTask.stage = "none" /\ DOMAIN NoJobs = {}
    BY DEF NoTask, Task, Tiers, NoJobs
  <2>3. TypeOK
    BY <2>1, <2>2, SchedulesAssumption DEF Init, TypeOK, Times, NoJobs
  <2>4. ServiceOrder
    BY <2>2, SchedulesAssumption DEF Init, ServiceOrder, Services
  <2> QED
    BY <2>2, <2>3, <2>4 DEF Init, Inv, Pinned, Spent
<1>2. Inv /\ [Next]_vars => Inv'
  <2> SUFFICES ASSUME Inv, [Next]_vars PROVE Inv'
    OBVIOUS
  <2>1. TypeOK'
    <3>1. WorkTyped' /\ KnownTyped'
      BY WorkStep, KnownStep DEF Inv
    <3> QED
      BY <3>1 DEF TypeOK, WorkTyped, KnownTyped, JobMap
  <2> QED
    BY <2>1, OrderStep, PinnedStep, SpentStep DEF Inv
<1> QED
  BY <1>1, <1>2, PTL DEF Spec

\* Every variable has its type.
COROLLARY TypeCorrect == Spec => []TypeOK
<1>1. Inv => TypeOK
  BY DEF Inv
<1> QED
  BY <1>1, Invariant, PTL

-----------------------------------------------------------------------------
(* The properties *)

\* An attempt that ends on a service that is not current is a stray.
LEMMA Stray ==
    ASSUME Inv, NEW s \in Services, NEW j \in Jobs, EndAttempt(s, j), s # current
    PROVE  StrayEnds
<1>1. task[s][j].stage # "none" /\ task'[s][j].stage = "none"
  BY EndLocal DEF Inv, NoTask
<1>2. status[s] = "closed"
  BY <1>1 DEF Inv, ServiceOrder
<1> QED
  BY <1>1, <1>2 DEF StrayEnds

\* An attempt that suppressed its cancellation, a failed save, a crash and a
\* recovery bring no withdrawn job back; only a stray attempt can.
THEOREM WithdrawalsHold == Spec => WithdrawnStaysGone
<1>1. Inv /\ [Next]_vars => [NoneRevived]_vars
  <2> SUFFICES ASSUME Inv, Next PROVE NoneRevived
    OBVIOUS
  <2>0. withdrawn \subseteq created /\ current \in Services
    BY DEF Inv, TypeOK
  <2>a. ASSUME UNCHANGED <<current, withdrawn, file, jobs>> PROVE NoneRevived
    BY <2>a DEF NoneRevived
  <2>1. ASSUME NEW s \in Services, NEW j \in Jobs, CreateJob(s, j) PROVE NoneRevived
    BY <2>0, <2>1, CreateLocal DEF NoneRevived, Inv, service
  <2>2. ASSUME NEW s \in Services, NEW j \in Jobs, UpdateJob(s, j) PROVE NoneRevived
    BY <2>2, UpdateLocal DEF NoneRevived, Inv, service, history
  <2>b. ASSUME NEW gone, CancelJobs(current, gone), current' = current PROVE NoneRevived
    BY <2>0, <2>b, CancelLocal DEF NoneRevived, Inv
  <2>3. ASSUME NEW s \in Services, NEW j \in Jobs, CancelJob(s, j) PROVE NoneRevived
    BY <2>3, <2>b DEF CancelJob, Reachable, service
  <2>4. ASSUME NEW r \in Roles, CancelRoleJobs(r) PROVE NoneRevived
    <3>1. \/ UNCHANGED <<known, withdrawn>>
          \/ CancelJobs(current, {j \in DOMAIN jobs[current] : RoleOf[j] = r})
      BY <2>4 DEF CancelRoleJobs
    <3>2. current' = current
      BY <2>4 DEF CancelRoleJobs, service
    <3> QED
      BY <2>a, <2>b, <3>1, <3>2 DEF known
  <2>5. ASSUME NEW s \in Services, NEW j \in Jobs, Attempt(s, j) PROVE NoneRevived
    <3>1. current' = current /\ withdrawn' = withdrawn
      BY <2>5, AttemptLocal DEF Inv, service
    <3>2. CASE UNCHANGED <<jobs, file, ended>>
      BY <2>a, <3>1, <3>2
    <3>3. CASE EndAttempt(s, j)
      <4>1. CASE s = current
        BY <3>1, <3>3, <4>1, EndLocal DEF NoneRevived, Inv
      <4>2. CASE s # current
        BY <2>0, <3>1, <3>3, <4>2, EndLocal, Stray DEF NoneRevived, Inv
      <4> QED
        BY <4>1, <4>2
    <3> QED
      BY <2>5, <3>2, <3>3, AttemptLocal DEF Inv
  <2>6. ASSUME NEW s \in Services, Start(s) PROVE NoneRevived
    <3>1. /\ file' = Recovered /\ jobs' = [jobs EXCEPT ![s] = Recovered]
          /\ current' = s /\ s # current /\ withdrawn' = withdrawn
      BY <2>0, <2>6, SchedulesAssumption DEF Start, ReplaceJobs, Services
    <3>2. jobs'[s] = Recovered
      BY <3>1 DEF Inv, TypeOK
    <3>3. DOMAIN Recovered \subseteq DOMAIN file
      BY RecoveredKnown DEF Inv
    <3> QED
      BY <3>1, <3>2, <3>3 DEF NoneRevived
  <2>7. ASSUME Crash PROVE NoneRevived
    <3>1. (DOMAIN jobs[current])' = {}
      BY <2>0, <2>7 DEF Crash, NoJobs
    <3> QED
      BY <2>7, <3>1 DEF Crash, NoneRevived, history
  <2>8. ASSUME NEW s \in Services, Tick(s) \/ Close(s) \/ Closed(s) PROVE NoneRevived
    BY <2>8, <2>a DEF Tick, Close, Closed, service, known, history
  <2>9. ASSUME Advance \/ \E r \in Roles : DeleteRole(r) PROVE NoneRevived
    BY <2>9, <2>a DEF Advance, DeleteRole, service, known, history
  <2> QED
    BY <2>1, <2>2, <2>3, <2>4, <2>5, <2>6, <2>7, <2>8, <2>9 DEF Next, Attempt
<1> QED
  BY <1>1, Invariant, PTL DEF Spec, WithdrawnStaysGone

\* A job leaves the file only withdrawn, over, orphaned or expired.
THEOREM JobsAreKept == Spec => StoreKeeps
<1>1. Inv /\ [Next]_vars => [NoneLost]_vars
  <2> SUFFICES ASSUME Inv, Next PROVE NoneLost
    OBVIOUS
  <2>0. current \in Services
    BY DEF Inv, TypeOK
  <2>a. ASSUME UNCHANGED file PROVE NoneLost
    BY <2>a DEF NoneLost
  <2>1. ASSUME NEW s \in Services, NEW j \in Jobs, CreateJob(s, j) PROVE NoneLost
    BY <2>1, CreateLocal DEF NoneLost, Inv, service
  <2>2. ASSUME NEW s \in Services, NEW j \in Jobs, UpdateJob(s, j) PROVE NoneLost
    BY <2>2, UpdateLocal DEF NoneLost, Inv, service
  <2>b. ASSUME NEW gone, CancelJobs(current, gone), current' = current PROVE NoneLost
    BY <2>0, <2>b, CancelLocal DEF NoneLost, Inv
  <2>3. ASSUME NEW s \in Services, NEW j \in Jobs, CancelJob(s, j) PROVE NoneLost
    BY <2>3, <2>b DEF CancelJob, Reachable, service
  <2>4. ASSUME NEW r \in Roles, CancelRoleJobs(r) PROVE NoneLost
    <3>1. UNCHANGED known \/ CancelJobs(current, {j \in DOMAIN jobs[current] : RoleOf[j] = r})
      BY <2>4 DEF CancelRoleJobs
    <3>2. current' = current
      BY <2>4 DEF CancelRoleJobs, service
    <3> QED
      BY <2>a, <2>b, <3>1, <3>2 DEF known
  <2>5. ASSUME NEW s \in Services, NEW j \in Jobs, Attempt(s, j) PROVE NoneLost
    <3>1. CASE UNCHANGED <<jobs, file, ended>>
      BY <2>a, <3>1
    <3>2. CASE EndAttempt(s, j) /\ s # current
      BY <3>2, Stray DEF NoneLost
    <3>3. CASE EndAttempt(s, j) /\ s = current
      <4>1. current' = current
        BY <2>5, AttemptLocal DEF Inv, service
      <4>2. j \in Live(current) /\ j \notin Live(current)' /\ Occurrence(current, j) \in ended'
        BY <2>0, <3>3, <4>1, EndLocal DEF Live, EndAttempt, NoTask, Inv
      <4> QED
        BY <3>3, <4>1, <4>2, EndLocal DEF NoneLost, Inv
    <3> QED
      BY <2>5, <3>1, <3>2, <3>3, AttemptLocal DEF Inv
  <2>6. ASSUME NEW s \in Services, Start(s) PROVE NoneLost
    <3>1. file' = Recovered /\ current' # current
      BY <2>0, <2>6, SchedulesAssumption DEF Start, ReplaceJobs, Services
    <3>2. \A j \in DOMAIN file \ DOMAIN Recovered : RoleOf[j] \notin roles \/ Expired(file[j])
      BY DEF Recovered
    <3> QED
      BY <3>1, <3>2 DEF NoneLost
  <2>7. ASSUME Crash PROVE NoneLost
    BY <2>7, <2>a DEF Crash
  <2>8. ASSUME NEW s \in Services, Tick(s) \/ Close(s) \/ Closed(s) PROVE NoneLost
    BY <2>8, <2>a DEF Tick, Close, Closed, known
  <2>9. ASSUME Advance \/ \E r \in Roles : DeleteRole(r) PROVE NoneLost
    BY <2>9, <2>a DEF Advance, DeleteRole, known
  <2> QED
    BY <2>1, <2>2, <2>3, <2>4, <2>5, <2>6, <2>7, <2>8, <2>9 DEF Next, Attempt
<1> QED
  BY <1>1, Invariant, PTL DEF Spec, StoreKeeps

\* An occurrence whose attempt ended is not started again by its service.
THEOREM FiresOnce == Spec => OccurrenceOnce
<1>1. Inv /\ [Next]_vars => [NoneRefired]_vars
  <2> SUFFICES ASSUME Inv, [Next]_vars, NEW s \in Services, NEW j \in Jobs,
                      task[s][j].stage = "none", task'[s][j].stage = "created"
               PROVE  Occurrence(s, j)' \notin ended
    BY DEF NoneRefired
  <2>1. Tick(s)
    <3>a. ASSUME task' = task PROVE FALSE
      BY <3>a
    <3>b. ASSUME \A t \in Services, i \in Jobs : task'[t][i].stage = task[t][i].stage PROVE FALSE
      BY <3>b
    <3>1. ASSUME NEW t \in Services, NEW i \in Jobs,
                 CreateJob(t, i) \/ UpdateJob(t, i) \/ CancelJob(t, i)
          PROVE  FALSE
      BY <3>1, <3>a, <3>b, CancelLocal DEF CreateJob, UpdateJob, CancelJob, work, Inv
    <3>2. ASSUME NEW r \in Roles, CancelRoleJobs(r) PROVE FALSE
      BY <3>2, <3>a, <3>b, CancelLocal DEF CancelRoleJobs, Inv, TypeOK
    <3>3. ASSUME NEW t \in Services, NEW i \in Jobs, Attempt(t, i) PROVE FALSE
      BY <3>3, AttemptLocal DEF Inv, NoTask
    <3>4. ASSUME NEW t \in Services, Close(t) PROVE FALSE
      BY <3>4, <3>b, CloseLocal DEF Inv
    <3>5. ASSUME NEW t \in Services, Tick(t) PROVE t = s
      BY <3>5, TickLocal DEF Inv
    <3>6. ASSUME NEW t \in Services, Closed(t) \/ Start(t) PROVE FALSE
      BY <3>6, <3>a DEF Closed, Start, work
    <3>7. ASSUME Crash PROVE FALSE
      BY <3>7 DEF Crash, NoTask
    <3>8. ASSUME Advance \/ UNCHANGED vars \/ \E r \in Roles : DeleteRole(r) PROVE FALSE
      BY <3>8, <3>a DEF Advance, DeleteRole, vars, work
    <3> QED
      BY <3>1, <3>2, <3>3, <3>4, <3>5, <3>6, <3>7, <3>8 DEF Next, Attempt
  <2>2. s = current
    BY <2>1, TickLocal DEF Inv, ServiceOrder
  <2>3. j \in DOMAIN jobs[s] /\ task'[s][j] = StartAttempt(s, j)
    BY <2>1, TickLocal DEF Inv
  <2>4. Occurrence(s, j)' = <<j, jobs[s][j].version, jobs[s][j].fire_at>>
    BY <2>3 DEF Occurrence, StartAttempt
  <2>5. jobs[s][j].version \in Nat /\ jobs[s][j].fire_at \in Nat
    BY <2>3 DEF Inv, TypeOK, Job
  <2> QED
    BY <2>2, <2>3, <2>4, <2>5 DEF Inv, Spent
<1> QED
  BY <1>1, Invariant, PTL DEF Spec, OccurrenceOnce

-----------------------------------------------------------------------------
(* Withdrawn jobs *)

\* An attempt that nobody has asked to stop.
Going(t) == t.stage # "none" /\ ~t.cancelled

\* The current service knows the job of every attempt that goes on.
Remembered == \A j \in Jobs : Going(task[current][j]) => j \in DOMAIN jobs[current]

\* Whoever was asked to stop does not go on, and no step of an attempt makes it.
LEMMA Stopped ==
    ASSUME NEW t \in Task
    PROVE  /\ ~Going(Cancelled(t)) /\ ~Going(NoTask)
           /\ \A stage \in Awaiting : Going([t EXCEPT !.stage = stage]) => ~t.cancelled
<1>1. t \in [stage : {"none", "created"} \cup Awaiting, version : Nat, fire : Nat,
             tier : Tiers, cancelled : BOOLEAN]
  BY DEF Task
<1>2. Cancelled(t).cancelled <=> t.stage # "none"
  <2>1. Cancelled(t).cancelled = (t.stage # "none")
    BY <1>1, Zenon DEF Cancelled
  <2> QED
    BY <2>1
<1>3. Cancelled(t).stage = t.stage
  BY CancelledTask
<1>4. ASSUME NEW stage \in Awaiting, Going([t EXCEPT !.stage = stage]) PROVE ~t.cancelled
  BY <1>1, <1>4 DEF Going
<1> QED
  BY <1>2, <1>3, <1>4 DEF Going, NoTask

\* An attempt that goes on after one of its steps went on before.
LEMMA AttemptGoing ==
    ASSUME TypeOK, NEW s \in Services, NEW j \in Jobs, Attempt(s, j), Going(task'[s][j])
    PROVE  Going(task[s][j])
<1>1. task \in [Services -> [Jobs -> Task]] /\ task[s][j] \in Task
  BY DEF TypeOK
<1>2. task[s][j].stage # "none" /\ task'[s][j] # NoTask
  BY AttemptLocal, Stopped, <1>1
<1>3. PICK stage \in Awaiting : Stage(s, j, stage)
  <2>1. ~Leave(s, j)
    BY <1>1, <1>2 DEF Leave
  <2>2. ~NeverBegins(s, j)
    BY <1>1, <1>2 DEF NeverBegins
  <2> QED
    BY <2>1, <2>2 DEF Attempt, Begin, TurnCommits, Deliver, EndAttempt, EndCancelled, Awaiting
<1>4. task'[s][j] = [task[s][j] EXCEPT !.stage = stage]
  BY <1>1, <1>3 DEF Stage
<1> QED
  BY <1>1, <1>2, <1>4, Stopped DEF Going

\* The current service forgets only jobs whose attempts it has asked to stop, or
\* that have ended.
LEMMA RememberStep == Inv /\ Remembered /\ [Next]_vars => Remembered'
<1> SUFFICES ASSUME Inv, Remembered, [Next]_vars PROVE Remembered'
  OBVIOUS
<1> USE DEF Inv
<1>0. task \in [Services -> [Jobs -> Task]] /\ current \in Services /\ DOMAIN jobs = Services
  BY DEF TypeOK
<1>a. ASSUME UNCHANGED <<current, jobs, task>> PROVE Remembered'
  BY <1>a DEF Remembered
<1>b. ASSUME NEW s \in Services, NEW gone, CancelJobs(s, gone), current' = current
      PROVE  Remembered'
  <2>1. \A j \in Jobs : task'[current][j] =
           IF s = current /\ j \in gone THEN Cancelled(task[current][j]) ELSE task[current][j]
    BY <1>0, <1>b DEF CancelJobs
  <2>2. \A j \in DOMAIN jobs[current] : (s = current /\ j \in gone) \/ j \in DOMAIN jobs'[current]
    BY <1>0, <1>b, CancelLocal
  <2> QED
    BY <1>0, <1>b, <2>1, <2>2, Stopped DEF Remembered
<1>1. ASSUME NEW s \in Services, NEW j \in Jobs, CreateJob(s, j) PROVE Remembered'
  BY <1>0, <1>1, CreateLocal DEF Remembered, work, service
<1>2. ASSUME NEW s \in Services, NEW j \in Jobs, UpdateJob(s, j) PROVE Remembered'
  BY <1>0, <1>2, UpdateLocal DEF Remembered, work, service
<1>3. ASSUME NEW s \in Services, NEW j \in Jobs, CancelJob(s, j) PROVE Remembered'
  BY <1>3, <1>b DEF CancelJob, service
<1>4. ASSUME NEW r \in Roles, CancelRoleJobs(r) PROVE Remembered'
  BY <1>0, <1>4, <1>a, <1>b DEF CancelRoleJobs, service, known
<1>5. ASSUME NEW s \in Services, NEW j \in Jobs, Attempt(s, j) PROVE Remembered'
  <2>1. current' = current
    BY <1>5, AttemptLocal DEF service
  <2>2. ASSUME NEW i \in Jobs, Going(task'[current][i])
        PROVE  Going(task[current][i]) /\ ~(s = current /\ i = j /\ EndAttempt(s, j))
    <3>1. CASE s = current /\ i = j
      BY <1>0, <1>5, <2>2, <3>1, AttemptGoing, EndLocal, Stopped
    <3>2. CASE ~(s = current /\ i = j)
      BY <1>0, <1>5, <2>2, <3>2, AttemptLocal
    <3> QED
      BY <3>1, <3>2
  <2>3. CASE EndAttempt(s, j)
    BY <1>0, <2>1, <2>2, <2>3, EndLocal DEF Remembered
  <2>4. CASE jobs' = jobs
    BY <2>1, <2>2, <2>4 DEF Remembered
  <2> QED
    BY <1>5, <2>3, <2>4, AttemptLocal
<1>6. ASSUME NEW s \in Services, Tick(s) PROVE Remembered'
  BY <1>0, <1>6, TickLocal DEF Remembered, service, known
<1>7. ASSUME NEW s \in Services, Close(s) PROVE Remembered'
  <2>1. \A i \in Jobs : \/ task'[current][i] = task[current][i]
                        \/ task'[current][i] = Cancelled(task[current][i])
    BY <1>0, <1>7 DEF Close
  <2> QED
    BY <1>0, <1>7, <2>1, Stopped DEF Close, known, Remembered
<1>8. ASSUME NEW s \in Services, Start(s) PROVE Remembered'
  <2>1. s > current /\ current' = s /\ task' = task
    BY <1>8, SchedulesAssumption DEF Start, TypeOK, Services, work
  <2>2. \A i \in Jobs : task[s][i].stage = "none"
    BY <2>1 DEF ServiceOrder
  <2> QED
    BY <2>1, <2>2 DEF Remembered, Going
<1>9. ASSUME Crash PROVE Remembered'
  BY <1>0, <1>9, Stopped DEF Crash, Remembered, NoTask, Going
<1>10. ASSUME NEW s \in Services, Closed(s) PROVE Remembered'
  BY <1>10, <1>a DEF Closed, known, work
<1>11. ASSUME Advance \/ UNCHANGED vars \/ \E r \in Roles : DeleteRole(r) PROVE Remembered'
  BY <1>11, <1>a DEF Advance, DeleteRole, vars, service, known, work
<1> QED
  BY <1>1, <1>2, <1>3, <1>4, <1>5, <1>6, <1>7, <1>8, <1>9, <1>10, <1>11 DEF Next

\* Nobody speaks for a withdrawn job but who was asked to stop, or whom a closed
\* service left running (scheduler.py's _cancel_jobs() stores first, then
\* cancels what runs; what is queued goes by the job in memory).
THEOREM WithdrawnSilent == Spec => WithdrawnStaysSilent
<1>1. Init => Remembered
  BY SchedulesAssumption DEF Init, Remembered, Going, NoTask, Services
<1>2. Inv /\ Remembered /\ [Next]_vars => [NoneSpoken]_vars
  <2> SUFFICES ASSUME Inv, Remembered, [Next]_vars, NEW j \in Jobs, rows'[j] # rows[j],
                      j \notin DOMAIN jobs[current]
               PROVE  \E s \in Services : /\ task[s][j].stage \in {"turn", "deliver"}
                                          /\ task[s][j].cancelled \/ status[s] = "closed"
    BY DEF NoneSpoken, Inv, TypeOK
  <2>0. rows \in [Jobs -> [Fires -> 0..2]]
    BY DEF Inv, TypeOK
  <2>a. ASSUME rows' = rows PROVE FALSE
    BY <2>a
  <2>b. ASSUME NEW i \in Jobs, NEW g, AddRow(i, g) PROVE i = j
    BY <2>0, <2>b DEF AddRow
  <2>1. PICK s \in Services, i \in Jobs : TurnCommits(s, i) \/ Deliver(s, i)
    <3>1. ASSUME NEW s \in Services, NEW i \in Jobs,
                 CreateJob(s, i) \/ UpdateJob(s, i) \/ CancelJob(s, i) PROVE FALSE
      BY <2>a, <3>1 DEF CreateJob, UpdateJob, CancelJob
    <3>2. ASSUME NEW s \in Services, NEW i \in Jobs,
                 Begin(s, i) \/ NeverBegins(s, i) \/ EndAttempt(s, i) \/ EndCancelled(s, i)
          PROVE FALSE
      BY <2>a, <3>2 DEF Begin, NeverBegins, EndAttempt, EndCancelled
    <3>3. ASSUME NEW r \in Roles, CancelRoleJobs(r) \/ DeleteRole(r) PROVE FALSE
      BY <2>a, <3>3 DEF CancelRoleJobs, DeleteRole
    <3>4. ASSUME NEW s \in Services, Tick(s) \/ Close(s) \/ Closed(s) \/ Start(s) PROVE FALSE
      BY <2>a, <3>4 DEF Tick, Close, Closed, Start
    <3>5. ASSUME Crash \/ Advance \/ UNCHANGED vars PROVE FALSE
      BY <2>a, <3>5 DEF Crash, Advance, vars
    <3> QED
      BY <3>1, <3>2, <3>3, <3>4, <3>5 DEF Next, Attempt
  <2>2. i = j /\ task[s][j].stage \in {"turn", "deliver"}
    BY <2>1, <2>a, <2>b DEF TurnCommits, Deliver, StorePush
  <2>3. CASE s = current
    <3>1. ~Going(task[s][j])
      BY <2>3 DEF Remembered
    <3>2. task[s][j].cancelled
      BY <2>2, <3>1 DEF Going
    <3> QED
      BY <2>2, <3>2
  <2>4. CASE s # current
    BY <2>2, <2>4 DEF Inv, ServiceOrder
  <2> QED
    BY <2>3, <2>4
<1> QED
  BY <1>1, <1>2, RememberStep, Invariant, PTL DEF Spec, WithdrawnStaysSilent

\* No tick starts an attempt beside one of the same job and service, cancelled
\* or not (scheduler.py keeps one place in flight and one task for a job).
THEOREM OneAttempt == Spec => AttemptsApart
<1>1. Inv /\ [Next]_vars => [NoneBeside]_vars
  <2> SUFFICES ASSUME Inv, [Next]_vars, NEW s \in Services, NEW j \in inFlight'[s] \ inFlight[s]
               PROVE  task[s][j].stage = "none"
    BY DEF NoneBeside
  <2>0. inFlight \in [Services -> SUBSET Jobs] /\ TypeOK
    BY DEF Inv, TypeOK
  <2>a. ASSUME inFlight' = inFlight PROVE FALSE
    BY <2>a
  <2>1. ASSUME NEW t \in Services, NEW i \in Jobs,
               CreateJob(t, i) \/ UpdateJob(t, i) \/ CancelJob(t, i)
        PROVE  FALSE
    BY <2>0, <2>1, <2>a DEF CreateJob, UpdateJob, CancelJob, CancelJobs, work
  <2>2. ASSUME NEW r \in Roles, CancelRoleJobs(r) \/ DeleteRole(r) PROVE FALSE
    BY <2>0, <2>2, <2>a DEF CancelRoleJobs, CancelJobs, DeleteRole, work
  <2>3. ASSUME NEW t \in Services, NEW i \in Jobs, Attempt(t, i) PROVE FALSE
    BY <2>0, <2>3, <2>a DEF Attempt, Begin, NeverBegins, TurnCommits, Deliver, EndAttempt,
       EndCancelled, Leave
  <2>4. ASSUME NEW t \in Services, Close(t) \/ Closed(t) \/ Start(t) PROVE FALSE
    BY <2>4, <2>a DEF Close, Closed, Start, work
  <2>5. ASSUME NEW t \in Services, Tick(t) PROVE task[s][j].stage = "none"
    <3>1. PICK lead \in Leads : inFlight' = [inFlight EXCEPT ![t] = @ \cup DueJobs(t, lead)]
      BY <2>5 DEF Tick
    <3>2. j \in DOMAIN jobs[s] /\ j \notin inFlight[s]
      BY <2>0, <3>1 DEF DueJobs
    <3>3. j \in Jobs
      BY <2>0, <3>2 DEF TypeOK
    <3> QED
      BY <3>2, <3>3 DEF Inv, Pinned
  <2>6. ASSUME Crash PROVE FALSE
    BY <2>6 DEF Crash
  <2>7. ASSUME Advance \/ UNCHANGED vars PROVE FALSE
    BY <2>7, <2>a DEF Advance, vars, work
  <2> QED
    BY <2>1, <2>2, <2>3, <2>4, <2>5, <2>6, <2>7 DEF Next
<1> QED
  BY <1>1, Invariant, PTL DEF Spec, AttemptsApart
=============================================================================
