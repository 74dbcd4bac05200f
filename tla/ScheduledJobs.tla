--------------------------- MODULE ScheduledJobs ---------------------------
(***************************************************************************)
(* The job half of n8n's durable scheduler: the scheduled_job table, the   *)
(* materializer of every main (claim due jobs, plan, record, retire,       *)
(* advance, all in one transaction) and provisioning (redefine and seed,   *)
(* remove). The life of a recorded occurrence is ScheduledTasks' subject;  *)
(* here it is only what the writers of this module can see of it.          *)
(*                                                                         *)
(* A pass is two steps, its claim (which locks the jobs) and its commit:   *)
(* the rows it writes become visible together, and planning is a function  *)
(* of the locked rows and of the database time read with the claim.        *)
(***************************************************************************)
EXTENDS Integers, FiniteSets, FiniteSetsExt

CONSTANTS
  Main,          \* mains, each with one materializer loop
  Job,           \* scheduled_job ids (ordered: ties break on the lowest)
  Owner,         \* ownerKey of each job
  NULL,
  Schedules,     \* the schedule definitions a job may have
  Policies,      \* the misfire policies in use
  Window,        \* MaterializerOptions.windowSeconds
  Lookahead,     \* MaterializerOptions.lookaheadSeconds
  MaxPerJob,     \* MaterializerOptions.maxPerJob
  BatchSize,     \* MaterializerOptions.batchSize
  PlanRetry,     \* MaterializerOptions.planRetrySeconds
  Grace,         \* misfireGraceSeconds
  ExecLookahead, \* ExecutorOptions.lookaheadSeconds
  Backoffs,      \* how far a retry is put off, whatever the attempt
  Retention,     \* how long a finished row is kept
  Stale,         \* bound: how long a provision takes from its clock to its commit
  MaxTime,       \* bound: last instant of the database clock
  MaxDisturb     \* bound: aborted passes, unplannable jobs, redefinitions, removals, retries

ASSUME JobAssumption == Job \subseteq Nat /\ NULL \notin Int /\ Owner \in [Job -> STRING]
ASSUME KnobAssumption ==
  /\ {Window, Lookahead, MaxPerJob, BatchSize, PlanRetry, Grace} \subseteq Nat
  /\ {ExecLookahead, Retention, Stale, MaxTime, MaxDisturb} \cup Backoffs \subseteq Nat
  /\ MaxPerJob > 0 /\ BatchSize > 0
\* An hour against seconds, and days against an in-flight call.
ASSUME SlackAssumption == PlanRetry >= Lookahead /\ Retention > Stale
ASSUME ScheduleAssumption ==
  /\ Schedules \subseteq [kind : {"cron", "interval", "one_off"}, at : Nat \ {0}]
  /\ Policies \subseteq {"skip", "coalesce", "coalesce_owner"}

VARIABLES
  now,     \* the database clock
  jobs,    \* the scheduled_job table: a row per job, NULL for none
  tasks,   \* the scheduled_task rows of those jobs
  issued,  \* the ids handed out so far; an id is never handed out twice
  tx,      \* the materializer transaction each main has open, or NULL
  prov,    \* the provision transaction in flight, or NULL
  budget,  \* disturbances left
  settled, \* history: the occurrences that came to an end, run or missed
  owed     \* history: jobs whose latest discarded backlog has no run standing in

vars == <<now, jobs, tasks, issued, tx, prov, budget, settled, owed>>
history == <<settled, owed>>

JobRow == [schedule : Schedules, misfirePolicy : Policies,
           nextRunAt : Nat \cup {NULL}, lastFiredAt : Nat \cup {NULL}]

\* attempted stands for attempts > 0, "finished" for succeeded and failed.
TaskRow == [jobId : Job, scheduledFor : Nat, runAt : Nat, missedAfter : Nat,
            attempted : BOOLEAN, status : {"pending", "running", "finished", "missed"}]
Transaction == [now : Nat, jobs : SUBSET Job]

\* current is the row as findExisting read it, NULL for a rule that is new.
Provision == [job : Job, schedule : Schedules, misfirePolicy : Policies, at : Nat,
              firstRunAt : Nat \cup {NULL}, current : JobRow \cup {NULL}]

ASSUME NullAssumption == NULL \notin JobRow

TypeOK ==
  /\ now \in Nat
  /\ jobs \in [Job -> JobRow \cup {NULL}]
  /\ tasks \subseteq TaskRow
  /\ issued \subseteq Job
  /\ tx \in [Main -> Transaction \cup {NULL}]
  /\ prov \in Provision \cup {NULL}
  /\ budget \in Nat
  /\ settled \subseteq Job \X Nat
  /\ owed \subseteq Job

-----------------------------------------------------------------------------
\* Recurrence. A cron pattern fires at the multiples of its field, an interval
\* counts from the fire before it, a one-off fires once.

cronNextRun(s, after) == (after \div s.at + 1) * s.at

\* Mutant of intervalNextRun: the interval counted the wrong way.
BugIntervalSubtracts(s, after) == after - s.at

intervalNextRun(s, after) == after + s.at
oneOffNextRun(s, after) == IF after < s.at THEN s.at ELSE NULL

computeFirstRunAt(s, from) ==
  CASE s.kind = "cron" -> cronNextRun(s, from)
    [] s.kind = "interval" -> intervalNextRun(s, from)
    [] s.kind = "one_off" -> oneOffNextRun(s, from)

\* The first n fires of a walk, oldest first: first itself, whatever it is, and then
\* the schedule's fires after it; NULL once the schedule is exhausted.
occurrencesFrom(s, first, n) ==
  LET fire[i \in 0..n] ==
        IF i = 0 THEN first
        ELSE IF fire[i-1] = NULL \/ s.kind = "one_off" THEN NULL
        ELSE IF s.kind = "cron" THEN cronNextRun(s, fire[i-1])
        ELSE intervalNextRun(s, fire[i-1])
  IN fire

-----------------------------------------------------------------------------
\* Planning one job at database time t.

\* Mutant of applyMisfirePolicy: the newest overdue instant is judged, not the oldest.
BugJudgesNewest(due, t, policy, truncated) ==
  LET behind == {s \in due : s <= t}
      ahead == due \ behind
  IN IF behind = {} \/ Max(behind) > t - Grace
       THEN [occurrences |-> due, catchUpAt |-> NULL]
     ELSE IF policy = "skip" THEN [occurrences |-> ahead, catchUpAt |-> NULL]
     ELSE IF truncated /\ ahead = {} THEN [occurrences |-> {}, catchUpAt |-> NULL]
     ELSE [occurrences |-> {Max(behind)} \cup ahead, catchUpAt |-> Max(behind)]

applyMisfirePolicy(due, t, policy, truncated) ==
  LET behind == {s \in due : s <= t}
      ahead == due \ behind
  IN IF behind = {} \/ Min(behind) > t - Grace
       THEN [occurrences |-> due, catchUpAt |-> NULL]
     ELSE IF policy = "skip" THEN [occurrences |-> ahead, catchUpAt |-> NULL]
     ELSE IF truncated /\ ahead = {} THEN [occurrences |-> {}, catchUpAt |-> NULL]
     ELSE [occurrences |-> {Max(behind)} \cup ahead, catchUpAt |-> Max(behind)]

planOccurrences(job, t) ==
  LET fire == occurrencesFrom(job.schedule, job.nextRunAt, MaxPerJob)
      walked == {i \in 0..(MaxPerJob - 1) : fire[i] # NULL /\ fire[i] <= t + Window}
      due == {fire[i] : i \in walked}
      next == fire[Cardinality(walked)]
      truncated == next # NULL /\ next <= t + Window
      kept == applyMisfirePolicy(due, t, job.misfirePolicy, truncated)
  IN [occurrences |-> kept.occurrences, skipped |-> due \ kept.occurrences,
      catchUpAt |-> kept.catchUpAt, retireBefore |-> kept.catchUpAt, nextRunAt |-> next,
      lastFiredAt |-> IF due = {} THEN job.lastFiredAt ELSE Max(due)]

\* Mutant of deferredPlan: no delay at all.
BugDeferToNow(job, t) ==
  [occurrences |-> {}, skipped |-> {}, catchUpAt |-> NULL, retireBefore |-> NULL,
   nextRunAt |-> t, lastFiredAt |-> job.lastFiredAt]

\* A job that cannot be planned records nothing and is retried later.
deferredPlan(job, t) ==
  [occurrences |-> {}, skipped |-> {}, catchUpAt |-> NULL, retireBefore |-> NULL,
   nextRunAt |-> t + PlanRetry, lastFiredAt |-> job.lastFiredAt]

\* Mutant of latestThenLowestId: a tie has no winner, so nobody loses it.
BugTieHasNoLoser(plans, k, j) == plans[k].catchUpAt > plans[j].catchUpAt

latestThenLowestId(plans, k, j) ==
  \/ plans[k].catchUpAt > plans[j].catchUpAt
  \/ plans[k].catchUpAt = plans[j].catchUpAt /\ k < j

\* Of an owner's late runs of one pass only the winner's is kept; a loser still
\* advances its clock and still retires what its late run would have superseded.
applyCoalesceOwnerPolicy(plans, rows) ==
  LET members == {j \in DOMAIN plans :
                    plans[j].catchUpAt # NULL /\ rows[j].misfirePolicy = "coalesce_owner"}
      loses(j) == j \in members /\ \E k \in members :
                    Owner[k] = Owner[j] /\ k # j /\ latestThenLowestId(plans, k, j)
      dropLateRun(p) == [p EXCEPT !.occurrences = p.occurrences \ {p.catchUpAt},
                                  !.catchUpAt = NULL]
  IN [j \in DOMAIN plans |-> IF loses(j) THEN dropLateRun(plans[j]) ELSE plans[j]]

\* The plans of one pass over rows, the jobs it claimed as it read them.
passPlans(rows, t, failing) ==
  applyCoalesceOwnerPolicy([j \in DOMAIN rows |-> IF j \in failing THEN deferredPlan(rows[j], t)
                                                  ELSE planOccurrences(rows[j], t)], rows)

toNewOccurrences(plans, t) ==
  UNION {{LET runAt == IF s = plans[j].catchUpAt THEN t ELSE s IN
          [jobId |-> j, scheduledFor |-> s, runAt |-> runAt,
           missedAfter |-> Max({runAt, t}) + Grace,
           attempted |-> FALSE, status |-> "pending"] :
            s \in plans[j].occurrences} : j \in DOMAIN plans}

Live(r) == r.status \in {"pending", "running"}
Key(r) == <<r.jobId, r.scheduledFor>>
SameKey(r, q) == r.jobId = q.jobId /\ r.scheduledFor = q.scheduledFor

\* Mutants of insertIgnoringDuplicates: no unique key, and an upsert.
BugInsertDuplicates(rs, new) == rs \cup new
BugInsertReplaces(rs, new) == {r \in rs : \A q \in new : ~SameKey(r, q)} \cup new

\* Identity is (jobId, scheduledFor): a row already there wins.
insertIgnoringDuplicates(rs, new) == rs \cup {q \in new : \A r \in rs : ~SameKey(r, q)}

updateToMissed(rs, plans) ==
  {IF /\ r.status = "pending" /\ r.jobId \in DOMAIN plans
      /\ plans[r.jobId].retireBefore # NULL /\ r.scheduledFor < plans[r.jobId].retireBefore
     THEN [r EXCEPT !.status = "missed"] ELSE r : r \in rs}

\* Mutant of advanceMany: a job that recorded nothing keeps its clock.
BugAdvanceOnlyRecorded(js, plans) ==
  [j \in Job |-> IF j \in DOMAIN plans /\ plans[j].occurrences # {}
                   THEN [js[j] EXCEPT !.nextRunAt = plans[j].nextRunAt,
                                      !.lastFiredAt = plans[j].lastFiredAt]
                   ELSE js[j]]

advanceMany(js, plans) ==
  [j \in Job |-> IF j \in DOMAIN plans
                   THEN [js[j] EXCEPT !.nextRunAt = plans[j].nextRunAt,
                                      !.lastFiredAt = plans[j].lastFiredAt]
                   ELSE js[j]]

\* Jobs that discarded instants and recorded none at or before t to stand in.
nowOwed(plans, t, rows) ==
  (owed \ {j \in DOMAIN plans : \E s \in plans[j].occurrences : s <= t}) \cup
    {j \in DOMAIN plans : /\ rows[j].misfirePolicy = "coalesce" /\ plans[j].skipped # {}
                          /\ \A s \in plans[j].occurrences : s > t}

\* The history after the rows became rs.
settledBy(rs) == settled \cup {Key(r) : r \in {q \in rs : ~Live(q)}}

-----------------------------------------------------------------------------
Init ==
  /\ now = 0
  /\ jobs = [j \in Job |-> NULL]
  /\ tasks = {}
  /\ issued = {}
  /\ tx = [m \in Main |-> NULL]
  /\ prov = NULL
  /\ budget = MaxDisturb
  /\ settled = {}
  /\ owed = {}

Disturb == budget > 0 /\ budget' = budget - 1
Calm == budget' = budget

Locked(j) == \E m \in Main : tx[m] # NULL /\ j \in tx[m].jobs

\* claimDue: up to BatchSize due jobs, oldest clock first, locked ones skipped.
ClaimDueJobs(m) ==
  LET due == {j \in Job : /\ jobs[j] # NULL /\ ~Locked(j)
                          /\ jobs[j].nextRunAt # NULL
                          /\ jobs[j].nextRunAt <= now + Lookahead}
  IN /\ tx[m] = NULL
     /\ due # {}
     /\ \E claimed \in SUBSET due :
          /\ Cardinality(claimed) = Min({BatchSize, Cardinality(due)})
          /\ \A j \in claimed, k \in due \ claimed : jobs[j].nextRunAt <= jobs[k].nextRunAt
          /\ tx' = [tx EXCEPT ![m] = [now |-> now, jobs |-> claimed]]
  /\ Calm
  /\ UNCHANGED <<now, jobs, tasks, issued, prov, history>>

\* The pass goes through: record, retire what was superseded, advance, commit.
CommitPass(m) ==
  /\ tx[m] # NULL
  /\ \E failing \in SUBSET tx[m].jobs :
       LET rows == [j \in tx[m].jobs |-> jobs[j]]
           plans == passPlans(rows, tx[m].now, failing)
           recorded == insertIgnoringDuplicates(tasks, toNewOccurrences(plans, tx[m].now))
       IN /\ IF failing = {} THEN Calm ELSE Disturb
          /\ tasks' = updateToMissed(recorded, plans)
          /\ jobs' = advanceMany(jobs, plans)
          /\ owed' = nowOwed(plans, tx[m].now, rows)
  /\ settled' = settledBy(tasks')
  /\ tx' = [tx EXCEPT ![m] = NULL]
  /\ UNCHANGED <<now, issued, prov>>

\* The pass was aborted at a checkpoint, or its main died: the transaction rolls back.
RollbackPass(m) ==
  /\ tx[m] # NULL
  /\ Disturb
  /\ tx' = [tx EXCEPT ![m] = NULL]
  /\ UNCHANGED <<now, jobs, tasks, issued, prov, history>>

-----------------------------------------------------------------------------
\* Provisioning one rule (one provision at a time).

\* The first run is computed from the host's clock and the existing row is read; no
\* lock is taken, so a pass may still change the row before the provision writes it.
BeginProvision(j, schedule, policy) ==
  /\ prov = NULL
  /\ jobs[j] # NULL \/ j \notin issued
  /\ prov' = [job |-> j, schedule |-> schedule, misfirePolicy |-> policy, at |-> now,
              firstRunAt |-> computeFirstRunAt(schedule, now), current |-> jobs[j]]
  /\ IF jobs[j] = NULL THEN Calm ELSE Disturb
  /\ UNCHANGED <<now, jobs, tasks, issued, tx, history>>

holdsDefinition(p) ==
  /\ p.schedule = p.current.schedule
  /\ (p.current.nextRunAt # NULL) = (p.firstRunAt # NULL)

\* The rows of job j after row was written over it, its pending tasks withdrawn, and
\* its first window recorded by a pass of its own over the rows read back.
seedInitialOccurrences(j, row) ==
  LET kept == {r \in tasks : ~(r.jobId = j /\ r.status = "pending")}
      rows == [i \in IF row.nextRunAt = NULL THEN {} ELSE {j} |-> row]
      plans == passPlans(rows, now, {})
      recorded == insertIgnoringDuplicates(kept, toNewOccurrences(plans, now))
  IN /\ tasks' = updateToMissed(recorded, plans)
     /\ jobs' = advanceMany([jobs EXCEPT ![j] = row], plans)
     /\ owed' = nowOwed(plans, now, rows) \ ({j} \ DOMAIN plans)

\* A rule that is new is inserted under a fresh id.
Insert ==
  /\ prov # NULL /\ prov.current = NULL
  /\ seedInitialOccurrences(prov.job,
       [schedule |-> prov.schedule, misfirePolicy |-> prov.misfirePolicy,
        nextRunAt |-> prov.firstRunAt, lastFiredAt |-> NULL])
  /\ issued' = issued \cup {prov.job}

\* A rule whose definition or whose clock's liveness changed is rewritten in place.
Redefine ==
  /\ prov # NULL /\ prov.current # NULL /\ jobs[prov.job] # NULL
  /\ ~Locked(prov.job)
  /\ ~holdsDefinition(prov)
  /\ seedInitialOccurrences(prov.job,
       [jobs[prov.job] EXCEPT !.schedule = prov.schedule, !.nextRunAt = prov.firstRunAt,
                              !.misfirePolicy = prov.misfirePolicy])
  /\ UNCHANGED issued

\* An unchanged rule keeps its clock and its tasks and takes the policy only.
UpdateMisfirePolicy ==
  /\ prov # NULL /\ prov.current # NULL /\ jobs[prov.job] # NULL
  /\ ~Locked(prov.job)
  /\ holdsDefinition(prov)
  /\ jobs' = [jobs EXCEPT ![prov.job].misfirePolicy = prov.misfirePolicy]
  /\ UNCHANGED <<tasks, issued, owed>>

CommitProvision ==
  /\ Insert \/ Redefine \/ UpdateMisfirePolicy
  /\ now <= prov.at + Stale
  /\ settled' = settledBy(tasks')
  /\ prov' = NULL
  /\ Calm
  /\ UNCHANGED <<now, tx>>

\* The transaction rolls back, or its rows are gone.
RollbackProvision ==
  /\ prov # NULL
  /\ prov' = NULL
  /\ Calm
  /\ UNCHANGED <<now, jobs, tasks, issued, tx, history>>

\* The rule is gone (provision without it, or deprovision); its tasks cascade.
RemoveJob(j) ==
  /\ jobs[j] # NULL /\ ~Locked(j)
  /\ jobs' = [jobs EXCEPT ![j] = NULL]
  /\ tasks' = {r \in tasks : r.jobId # j}
  /\ owed' = owed \ {j}
  /\ Disturb
  /\ UNCHANGED <<now, issued, tx, prov, settled>>

-----------------------------------------------------------------------------
\* The rows' other writers, as far as this module sees them (see ScheduledTasks).

Rewrite(r, row) == tasks' = (tasks \ {r}) \cup {row}

\* Its first attempt must be claimed before its deadline, a retry may be later.
ClaimTask(r) ==
  /\ r.status = "pending"
  /\ r.runAt <= now + ExecLookahead
  /\ r.attempted \/ r.missedAfter > now
  /\ Rewrite(r, [r EXCEPT !.status = "running"])
  /\ Calm

\* Given back without counting an attempt.
ReleaseTask(r) ==
  /\ r.status = "running"
  /\ Rewrite(r, [r EXCEPT !.status = "pending"])
  /\ Calm

\* The handler threw with attempts left, or the reaper reclaimed an expired lease:
\* the row is queued again after a backoff. How many attempts a row has is left open.
RetryTask(r) ==
  /\ r.status = "running"
  /\ \E delay \in Backoffs :
       Rewrite(r, [r EXCEPT !.status = "pending", !.attempted = TRUE, !.runAt = now + delay])
  /\ Disturb

\* Completed or failed for good, by its executor or by the reaper.
FinishTask(r) ==
  /\ r.status = "running"
  /\ Rewrite(r, [r EXCEPT !.status = "finished"])
  /\ Calm

RetireTask(r) ==
  /\ r.status = "pending" /\ ~r.attempted /\ r.missedAfter <= now
  /\ Rewrite(r, [r EXCEPT !.status = "missed"])
  /\ Calm

PruneTask(r) ==
  /\ ~Live(r) /\ r.scheduledFor + Retention <= now
  /\ tasks' = tasks \ {r}
  /\ Calm

TaskStep(r) ==
  /\ \/ ClaimTask(r) \/ ReleaseTask(r) \/ RetryTask(r) \/ FinishTask(r)
     \/ RetireTask(r) \/ PruneTask(r)
  /\ settled' = settledBy(tasks')
  /\ UNCHANGED <<now, jobs, issued, tx, prov, owed>>

Tick ==
  /\ now < MaxTime
  /\ now' = now + 1
  /\ UNCHANGED <<jobs, tasks, issued, tx, prov, budget, history>>

Next ==
  \/ \E m \in Main : ClaimDueJobs(m) \/ CommitPass(m) \/ RollbackPass(m)
  \/ \E j \in Job : RemoveJob(j)
  \/ \E j \in Job, schedule \in Schedules, policy \in Policies :
       BeginProvision(j, schedule, policy)
  \/ CommitProvision \/ RollbackProvision
  \/ \E r \in tasks : TaskStep(r)
  \/ Tick

Spec == Init /\ [][Next]_vars

\* The materializer loop of every main keeps ticking and its passes end.
FairSpec ==
  /\ Spec
  /\ WF_vars(Tick)
  /\ \A m \in Main : WF_vars(ClaimDueJobs(m)) /\ WF_vars(CommitPass(m))

-----------------------------------------------------------------------------
\* Properties.

\* A job never has two rows for one instant, although two mains, a redefinition and
\* a catch-up run may all come to record it.
OneRowPerInstant == \A r, q \in tasks : SameKey(r, q) => r = q

\* An occurrence that came to an end, run or missed, is never queued again: not by a
\* redefinition that winds the clock back over it, not by a pass that walks the same
\* instants later, nor once retention pruned the row that stood for it. One that is
\* still awaiting a retry may be withdrawn by a redefinition and recorded anew.
SettledNeverRequeued ==
  \A r \in tasks : Live(r) => Key(r) \notin settled

\* The first claim of a run that is not a catch-up run comes less than two grace periods
\* after its instant, whatever the policy: one for the pass to come across it, one for
\* the executor. So a backlog is never replayed, whoever walks it. A run that was
\* attempted before is exempt: its backoff may take it past its deadline.
LatenessBounded ==
  [][\A r \in tasks, q \in tasks' :
       /\ SameKey(r, q) /\ r.status = "pending" /\ q.status = "running"
       /\ ~r.attempted /\ r.runAt = r.scheduledFor
       => now < r.scheduledFor + 2 * Grace]_vars

\* A rule's clock never runs backwards while the rule stays the same: no pass
\* (deferred, truncated or late) and no provision racing one (it decides on a row
\* read before the pass committed) makes a later pass walk an instant twice.
ClockNeverRewinds ==
  [][\A j \in Job :
       /\ jobs[j] # NULL /\ jobs'[j] # NULL /\ jobs[j].nextRunAt # NULL
       /\ jobs'[j].schedule = jobs[j].schedule
       => jobs'[j].nextRunAt = NULL \/ jobs'[j].nextRunAt >= jobs[j].nextRunAt]_vars

\* One pass gives an owner under coalesce_owner at most one late run.
OneLateRunPerOwner ==
  [][\A r, q \in tasks' \ tasks :
       /\ r.status = "pending" /\ r.runAt > r.scheduledFor
       /\ q.status = "pending" /\ q.runAt > q.scheduledFor
       /\ \A p \in tasks : ~SameKey(p, r) /\ ~SameKey(p, q)
       /\ Owner[r.jobId] = Owner[q.jobId]
       /\ jobs[r.jobId].misfirePolicy = "coalesce_owner"
       /\ jobs[q.jobId].misfirePolicy = "coalesce_owner"
       => r = q]_vars

\* A backlog is always drained: the clock of every job gets past the present, however
\* many passes the cap cuts it into and whatever the policy discards.
ClockCatchesUp ==
  \A j \in Job : []<>(jobs[j] = NULL \/ jobs[j].nextRunAt = NULL \/ jobs[j].nextRunAt > now)

-----------------------------------------------------------------------------
\* What the documentation says, and the code does not do.

\* README: coalesce "Records one late run for that job, standing in for the whole
\* backlog"; a capped pass may put it off, but only while backlog is left to walk.
BacklogGetsItsLateRun ==
  \A j \in owed : jobs[j].nextRunAt # NULL /\ jobs[j].nextRunAt <= now

-----------------------------------------------------------------------------
\* The inductive invariant behind the safety theorems.

\* A job a pass has claimed is there, with a clock within the lookahead of the claim.
ClaimsOK ==
  \A m \in Main : tx[m] # NULL => \A j \in tx[m].jobs :
    /\ jobs[j] # NULL /\ jobs[j].nextRunAt # NULL
    /\ jobs[j].nextRunAt <= tx[m].now + Lookahead

\* No job is claimed by two passes.
ClaimsApart ==
  \A m, n \in Main : m # n /\ tx[m] # NULL /\ tx[n] # NULL => tx[m].jobs \cap tx[n].jobs = {}

\* What a provision has read is still so, as far as it decides on it: passes advance a
\* clock, but neither change a definition nor revive a clock that stands.
ProvisionCurrent ==
  prov # NULL =>
    /\ prov.current = NULL => jobs[prov.job] = NULL
    /\ prov.current # NULL /\ jobs[prov.job] # NULL =>
         /\ jobs[prov.job].schedule = prov.current.schedule
         /\ prov.current.nextRunAt = NULL => jobs[prov.job].nextRunAt = NULL

\* A first attempt that is no catch-up run may be claimed for two graces from its
\* instant at most.
DeadlinesTight ==
  \A r \in tasks : ~r.attempted /\ r.runAt = r.scheduledFor
                    => r.missedAfter <= r.scheduledFor + 2 * Grace

IInv == /\ TypeOK /\ OneRowPerInstant /\ ClaimsOK /\ ClaimsApart
        /\ ProvisionCurrent /\ DeadlinesTight

-----------------------------------------------------------------------------
\* And the one behind SettledNeverRequeued, where the cap is no tighter than the window.

\* Fires are an instant apart, so a seeding pass is never cut short by the cap.
CapCoversWindow == MaxPerJob > Window + Stale

\* Every instant recorded so far, whether or not its row is still there.
Known == settled \cup {Key(r) : r \in tasks}

\* They are those of jobs that were there, within the window, and behind a clock that runs.
ClockAhead ==
  \A k \in Known :
    /\ k[1] \in issued /\ k[2] <= now + Window
    /\ jobs[k[1]] # NULL /\ jobs[k[1]].nextRunAt # NULL => k[2] < jobs[k[1]].nextRunAt

\* Retention leaves the ended rows a provision may still wind the clock back over.
SettledKept ==
  /\ \A r \in tasks : ~Live(r) => Key(r) \in settled
  /\ \A k \in settled : jobs[k[1]] # NULL /\ k[2] + Retention > now =>
                          \E r \in tasks : ~Live(r) /\ Key(r) = k

\* A rule that is new has an id of its own.
IdsFresh ==
  /\ \A j \in Job : jobs[j] # NULL => j \in issued
  /\ prov # NULL /\ prov.current = NULL => prov.job \notin issued

\* A provision looks ahead from its clock, a pass back on the claim's.
ClocksRead ==
  /\ prov # NULL /\ prov.firstRunAt # NULL => prov.firstRunAt > prov.at
  /\ \A m \in Main : tx[m] # NULL => tx[m].now <= now

SInv == SettledNeverRequeued /\ ClockAhead /\ SettledKept /\ IdsFresh /\ ClocksRead
=============================================================================
