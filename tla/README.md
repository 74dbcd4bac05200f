# A formal model of n8n's scheduler, engine and task broker

n8n is a workflow automation platform: a TypeScript monorepo whose server
(`packages/cli`) stores workflows, decides when they run and runs them, on one
process or on several mains and workers over one database. This project models
three of its cores, the ones whose correctness rests on an order of steps that
nobody controls:

* the durable scheduler, which decides *when* a run happens and must not lose or
  repeat one while mains crash, stall and restart (`@n8n/scheduler`, its two
  repositories in `@n8n/db`, its host in `cli/src/scheduling`);
* engine v2, which decides *what* runs next inside an execution (`@n8n/engine`);
* the task broker, which decides *where* a code task runs (`cli/src/task-runners`
  and `@n8n/task-runner`).

Paths below are relative to `packages/`.

## 1. Inventory

### The durable scheduler

| Part | State | Operations | Talks to |
|---|---|---|---|
| Executor (`scheduler/src/core/executor`) | `claimedTaskById`, pending timers, `stopping` | claim and schedule, fire, dispatch mutex, marker, terminal write, release, stop | task store, handlers |
| Reaper (`core/reaper`) | none | retire stale pending rows, sweep expired leases | task store |
| Materializer (`core/materializer`) | none (one transaction per pass) | claim due jobs, plan, coalesce, record, retire, advance | job store, task store |
| Recurrence (`core/recurrence`) | none | next run, first run, walk of a schedule | materializer, provisioning |
| Provisioning (`core/provisioning`, `cli/src/scheduling/durable-job-provisioner.ts`) | none (one transaction) | insert, redefine, keep, remove, seed | job store, task store |
| Reconciliation (`core/reconciliation`) | resume cursor | quarantine, recheck, delete, revive | job store, owner resolvers |
| Retention (`core/retention`) | none | delete finished rows per window within a budget | task store |
| Loops (`core/lifecycle`, `core/factory.ts`) | in-flight passes, controllers, timeline | tick, time out, abort, stop | all of the above |
| `scheduled_task` (`db/.../scheduled-task.repository.ts`) | status, attempts, runAt, missedAfter, claimedBy, leaseExpiresAt, leaseEpoch, startedAt, dispatchedAt | one guarded statement per operation | |
| `scheduled_job` (`db/.../scheduled-job.repository.ts`) | schedule, misfire policy, nextRunAt, lastFiredAt, orphanedAt | claim with row locks, advance, rewrite, delete | |

Every main runs every loop. Mains share nothing but the two tables, and each
await of the code is a point where another main, the reaper or the provisioner
may change the row in hand. What is hard is therefore:

* fencing: a stalled owner's late writes against the run that replaced its own
  (lease epoch, host, status), with host ids that survive a restart;
* the effect boundary: `startedAt` (may have run) and `dispatchedAt` (has run)
  against crashes, lost marker writes and the reaper's unlocked read;
* time: leases, deadlines and backoff against handlers that take for ever;
* shutdown: timers, claims in flight and abandoned ticks;
* the clock of a job: several materializers, capped passes over a backlog,
  deferrals, redefinitions that wind the clock back, seeding;
* stale answers: a sweep acts on what a resolver said before other mains published
  or removed an owner, in pages, under a budget, while older passes still run.

What makes each part correct: every occurrence settles and is handed over a bounded
number of times (executor, reaper); one row per instant, nothing rewound, lateness
bounded (materializer, provisioning); no job of a living owner is lost and none of a
dead one stays (reconciliation); every row past its window goes (retention); ticks
keep their cadence and a stop ends the passes (loops).

### Engine v2

| Part | State | Operations | Talks to |
|---|---|---|---|
| Start boundary (`engine/src/execution/start-execution.service.ts`, `graph/`) | none | validate the graph, create the execution, enqueue it | execution store, orchestration queue |
| Orchestration worker (`execution/*-handler.ts`, `settlement.ts`, `completion.ts`) | locals across awaits | claim the execution, plan successors, fail, finish | both stores, both queues |
| Step worker (`execution/step-ready-handler.ts`, `batch-step.ts`) | locals across awaits | claim a step, gather inputs, run, record, announce | both stores, orchestration queue |
| Loops (`graph/loops.ts`, `iteration-mapping.ts`, `loop-ledger.ts`) | none: rows keyed by node and iteration | map edges to rows, tell a loop's last pass | planner, step worker |
| Stores (`engine/src/database`) | `workflow_execution`, `workflow_step_execution` | guarded inserts, compare-and-set transitions | |
| Queues (`engine/src/queue`) | pending messages | publish, dispatch | workers |

There is no plan of an execution: each settled step makes some worker recompute what
its successors' fates are, from rows that other workers are writing. Hard are: two
predecessors of a join settling at once; several reads in one decision; a loop whose
number of passes is only known once it ended; a failure that sweeps the queue while
someone inserts into it; messages delivered twice. Correct means that every planner
decides alike, that a finished execution owes nothing, that no row waits for nobody and
that every accepted graph comes to an end.

### Task broker and runners

| Part | State | Operations | Talks to |
|---|---|---|---|
| Broker (`cli/src/task-runners/task-broker/task-broker.service.ts`) | offers, requests, acceptances awaited, tasks with timers, signs of unresponsiveness | match, accept, time out, fail, cancel, drain | requester, runners |
| WebSocket server (`task-broker-ws-server.ts`) | connections by runner id | add, replace, heartbeat, remove with disconnect analysis, stop | broker |
| Requester (`task-managers/task-requester.ts`) | promises by request and task | start, settle, cancel | broker (same process) |
| Runner (`@n8n/task-runner/src/task-runner.ts`) | open offers, running tasks, drain state | offer, accept, run, abort, drain, exit | broker, over a socket |

Hard are timers that race the answer they wait for, a runner that reconnects under its
id while its old connection is being buried, frames buffered on a dead socket, and
shutdown while tasks are in flight. Correct means that broker, requester and runner
agree on which task is whose, that no slot is held for nobody, and that every request
gets an answer.

### The rest of the repository

Queue mode and multi-main election, concurrency control, workflow publication,
executions with waiting and recovery, the workflow interpreter, webhooks and push,
nodes, front ends, AI modules. `PROJECT.json` lists each of them with the reason it is
not modelled or its place in the plan.

## 2. Modules

| Module | What it is |
|---|---|
| `ScheduledTasks` | executor and reaper of every main over the `scheduled_task` table |
| `OccurrenceLifecycle` | abstract specification: the life of one occurrence without hosts, leases and time |
| `ScheduledJobs` | materializer of every main and the provisioner over both tables |
| `Reconciliation` | owner sweep of every main, owners that come and go, provisioning and quarantine |
| `RetentionLoop` | the loop that repeats a pass, driving the retention pass over finished rows |
| `EngineGraph` | graphs, loops, validation and the pure planning functions of engine v2 |
| `EngineExecution` | one execution: start, planners and step workers over stores and queues |
| `TaskBroker` | broker, WebSocket server, requester and runner processes |
| `Filtering` | a sequence without some of its elements, in a form the provers can unfold |
| `ScheduledTasksProofs`, `ScheduledTasksRefinement` | TLAPS proofs about `ScheduledTasks`: its invariants; its action properties and the refinement |
| `ScheduledJobsProofs`, `ReconciliationProofs`, `EngineExecutionProofs`, `RetentionLoopProofs`, `TaskBrokerProofs` | TLAPS proofs about these modules |
| `CollectionLemmas` | lemmas about sequences, sets, remainders and filtering that the proofs share |
| `MC...` | instances for TLC |

Definitions whose names start with `Bug` are mutants: the definition after them
with one plausible mistake. No specification uses them; they show that each
property can fail.

### ScheduledTasks

`task` is the table. Instants are relative to the database clock (`runIn`,
`missIn`, `leaseLeft`), floored where the code stops telling them apart, so time
is unbounded and `Tick` needs no limit. `fires` are the claims in the memory of
some main, each with the point (`pc`) it reached between two awaits; `tracked` is
`claimedTaskById`, including that it is keyed by task id alone; `reaping` holds
the rows a sweep has read and not yet written; `mode` is the life of a main.

Each SQL statement is one step. `ClaimDueTasks` and `ScheduleClaimed` are
`claimAndSchedule` before and after its await, `HandBackClaim` its aborted path;
`FireTimer`, `SkipNoHandler`, `BeginDispatch`, `ReportDispatched`,
`MarkDispatched`, `HandlerReturns`, `HandlerThrows`, `RecordOutcome`,
`ReleaseClaim` and `FireError` are `runFire` between its awaits;
`RetireMissedPending`, `FindExpiredLease`, `ReapRow` and `SkipReapRow` are the
reaper; `StopLoops`, `StopExecutor`, `Exit` and `Start` are shutdown, crash and
restart under the same host id; `DeleteRow` and `UpdateToMissed` are what the
other components do to a row. A batch is modelled as single-row claims: rows of a
batch do not interact. Timers may fire at any moment after they were armed
(clock skew, a blocked event loop), so no property rests on their punctuality.

`runs`, `lastRun` and `effects` are history variables: handler starts, the epoch
of the latest one, and the epochs whose handler handed its effect off.

### ScheduledJobs

`jobs` and `tasks` are the tables as the writers of this module see them. A pass
is two steps, `ClaimDueJobs` (which takes the row locks and the database time) and
`CommitPass` or `RollbackPass`: nothing else can observe its statements
separately. `CommitPass` chooses which jobs cannot be planned. Planning is a set
of pure operators with the code's names: `planOccurrences`, `applyMisfirePolicy`,
`applyCoalesceOwnerPolicy`, `toNewOccurrences`, `insertIgnoringDuplicates`,
`updateToMissed`, `advanceMany`. `BeginProvision` is the unlocked read (and the
first run computed from the host's clock), `CommitProvision` the writes: `Insert`,
`Redefine` (with the withdrawal of pending rows and the seeding pass) or
`UpdateMisfirePolicy`. The executor, reaper and retention appear as `TaskStep`, one
action per edge of a row's status: `ClaimTask`, `ReleaseTask` (no attempt counted),
`RetryTask` (the handler threw with attempts left, or the reaper reclaimed an expired
lease: the row is pending again after a backoff, and may then be withdrawn by a
redefinition and recorded anew), `FinishTask`, `RetireTask` and `PruneTask`. Of the
attempts only "none or some" is kept (`attempted`); `ScheduledTasks` counts them.
Retries draw on `MaxDisturb` in a run.

`settled` is a history variable: the occurrences whose row came to an end, run or
missed, whether retention has removed the row since or not. `SettledNeverRequeued` says
that none of them is live again. A row that waits for a retry has not ended, so an
occurrence that was started and then withdrawn may well be recorded again, its attempts
forgotten: the code promises no more.

Schedules are integers: a cron expression fires at the multiples of its field, an
interval counts from the fire before it, a one-off fires once.

### Reconciliation

`jobs` is the job table reduced to what the sweep reads: whether the job has a clock
(`nextRunAt`), and the ages of `createdAt` and `orphanedAt`. Instants are ages, with
caps where the code stops telling them apart, so time is unbounded here too. `alive`
is what an owner resolver would answer. `pass` holds the sweeps in flight, several
per main since an abandoned pass goes on, each with the answers it has in hand;
`cursor` is `resumeFrom`, `mayPublish` the test that the pass has not been overtaken;
`prov` is a provisioning transaction; `occ` the next occurrence of a job. `kept` is
a history variable: the jobs whose provisioning committed for an owner that has
existed, and has not been deprovisioned, since the transaction began.

Each statement and each answer of `reconcile` is a step: `StartPass` (the owner
types), `AskPage` (`findOwnerIds` and the resolver), `QuarantineStep` (a transaction:
stop, stamp, withdraw), `Recheck`, `DeleteExpired`, `FindQuarantined` and
`LiftQuarantine` (`revive`, one job at a time), `FinishPass` (publication of the
cursor). `enterType`, `nextPage` and `endPage` are the heads and ends of the nested
loops, with page budget and abort signal. `AbortPass`, `PassError` and `Crash` are
its failures. `BeginProvision`, `FindExisting` and `CommitProvision` are the
provisioner's transaction: the quarantine lift locks the rows it changes, the read
that follows locks nothing (Postgres, READ COMMITTED), and redefinition sets no
`orphanedAt`. `TaskStep` is what materializer and executor do to an occurrence.

### RetentionLoop

Instants are relative to the wall clock (0 is now), so time is unbounded. `slot` is the
timeline's `slotAt`; `alarm` is where the alarm aims and when its timer fires, in hops
of at most `MaxDelay` (setTimeout's limit). `FireAlarm` is `tick`: the next slot is
taken and the alarm armed before the pass is launched or the tick dropped. `pass` are
the passes alive, with `inFlight` false for one that was abandoned at its timeout and
still runs. `issueNext` is the code between two answers of the store (`pruneWindows`,
`pruneWindow`: the head of the loop, budget, abort signal), `afterBatch` what an answer
does. A delete statement is `LockRows` and `CommitDelete`, since on Postgres another
pass meets its row locks and skips them. `RejectStatement`, `HangStatement` and `TimeOut` are
the faults; `Stop` and `StopReturns` the two ends of `stop()`. `grid` and `burst` are
history variables. The pass's `drained` flag only reaches a log line.

### EngineGraph and EngineExecution

`EngineGraph` has the functions of the engine that are pure, with the code's names:
`deriveLoops` over the strongly connected components, `validateLoops` and
`validateExecutableGraph`, `classifyEdge`, `targetKey` and `sourceRow` (which row of a
loop an edge joins), `decideNodeFate`, `decideSuccessors`, `decisionKeys` and
`countExpectedSettledSteps`. Edges are a set; reachability is a closure over it.

`EngineExecution` has the rows (`exec`, `steps` keyed by node and iteration), the
queues, and for each worker the point between two awaits it has reached. The
orchestration worker's handler of a settled step is `HandleSettled` (load, early
returns), `CheckFailed`, `LoadTerminal`, `DecideSuccessors`, `CreateSuccessors`, then
`LoadEnded`, `CountSettled`, `ReadVerdict` and `FinishExecution`; a failure is
`FailExecution` and `SweepQueued`. The step worker is `ClaimStep`, `BeginStep`,
`GatherInputs`, `RecordOutcome` (the executor or `runBatchStep`, and the write) and
`AnnounceStep`. `BeginStep` looks for an executor before anything else (`hasExecutor`):
validation accepts steps of types nothing executes yet (wait, subworkflow), and a host
may have configured no executor for v1 nodes (`ExecutorTypes`); such a step throws after
its claim and its row stays running. Rows are created together with their announcement, in any order of the
announcements: a crash between the two leaves what a `Restart` right after them leaves,
rows whose messages are lost. Lists are their lengths. `Redeliver`
delivers a message again; `HandlerError` is a store call that rejects, `Restart` the
loss of queues and workers.

The build dispatches one message per queue at a time, from memory. The stores are
written for more (the claim, the conflict clause, the share lock are there for racing
and repeated deliveries, and their comments promise to survive them), so the safety run
has two planners and redeliveries, which the in-memory queue does not make.

### TaskBroker

A handler of the broker and the continuations it resolves run to the end before the
next event, so the events are the steps: frames from a runner (`TaskOffered`,
`RunnerAccepts`, `RunnerRejects`, `RunnerDefers`, `TaskEnds`), calls of the requester
(`TaskRequested`, `CancelTask`, `RespondToRunner`), timers (`RequestTimeout`,
`AcceptTimeout`, `TaskTimeout`) and connections (`Connect`, `RemoveConnection`,
`FinishRemoval`, which is `removeConnection` after the disconnect analysis it awaits).
`Settle` is `settleTasks` at the end of each of them. `pool` has the pending offers and
requests and `runnerAcceptRejects`; `conn` distinguishes a connection that is open from
one that is in the map and no longer OPEN. `proc` is the runner process behind an id:
`OfferTick`, `OfferAccepted`, `TaskCancelled`, `ReceivedSettings`, `TaskTimedOut`,
`ExecutionEnds`, `RunnerDrains`, `ProcessDies`. `StartDraining` and `StopRunners` are
the shutdown.

A task is named after the offer it consumes. The requester lives in the broker's
process and answers a ready task at once, so its acceptance, the settings and the armed
task timer are one step with the acceptance, and the branches for a requester that
rejects or is late cannot be reached. Timers may fire at any moment after they were
armed; refreshing one, and the caps on the refreshes, change only the moment. A process
exits when its connection closes; a launcher, which defers the task to a process it
starts, is one of the kinds of process.

### OccurrenceLifecycle

An occurrence waits, is held by a main, is handed to its handler, and ends
succeeded, failed or missed, or its row goes away. It is handed over at most
`MaxAttempts` times, no verdict is revised, and success needs a handler.
`ScheduledTasks` implements it under `stageBar` (`ImplementsLife`).

## 3. Runs

| Run | Instance | Shows |
|---|---|---|
| `tasks` | 2 mains, 1 occurrence, 2 attempts, lease 1 tick, 1 disturbance; about a million states | `IInv`, the safety properties and the refinement |
| `tasks_live` | 1 main, 1 occurrence, 1 disturbance | `EveryOccurrenceSettles` |
| `jobs` | 2 mains, 1 job, cron or interval, coalesce, cap 3, 4 ticks, 2 disturbances; about a million states | one row per instant, no ended occurrence queued again, first claims not late, clocks never rewound |
| `owner_late_runs` | 2 mains, 2 jobs of one owner, coalesce_owner | one late run per owner and pass |
| `jobs_live` | 1 main, 1 job, skip and coalesce, cap 1 | `ClockCatchesUp` |
| `reconcile` | 1 main with 2 passes in flight, 1 owner published twice, 1 job, 1 disturbance; about a million states | `ProvisionedNeverDeleted`, `CursorMovesFromItself` |
| `reconcile_live` | 1 main, 2 owners of 2 types, 1 page of 1 owner per pass | `TypeOK`, `OrphansRetired`, `LivingRevived` |
| `engine` | 2 planners, 1 step worker, every graph of five families, 1 fault | racing planners decide alike, no early end, inputs readable, nothing stranded, steps run once |
| `engine_live` | 1 planner, 2 step workers, the same graphs, no fault | `EveryExecutionEnds` |
| `retention_loop` | 2 passes alive, 1 slot, 2 windows with one row each that come back, batch 1, budget 2, 1 fault | cadence, aborts, stop, both windows drained |
| `broker` | 1 runner id with 2 processes in turn, 2 requests, 2 offers, 2 strikes | agreement of broker, requester and runner; every request answered |
| `backlog_late_run` | smallest instance that shows it | the scheduler's README says otherwise; see section 6 |

Bounds. Two mains are needed for a stale owner, a new owner and a sweeping reaper
to be distinct; a third actor would repeat one of these roles. One occurrence
suffices for `tasks`, since no statement of the executor or reaper relates two
rows except the claim order. Two attempts give a first, a retry and a last
attempt. One lease tick and one backoff tick separate live, expired and refreshed
leases. A disturbance is a crash, a stop, an aborted tick or a rejected
statement: `MaxDisturb` bounds them in a run; the proofs do not depend on it.
Slow handlers, late timers, lost leases, reclaims and row deletion cost no
disturbance. In `jobs` the cap of 3 and 4 ticks are the least with which a
backlog can be older than a grace period and yet have its newest instant inside it. One
backoff of a tick puts a retried row on either side of a provision. With `skip` nothing
but the choice of `applyMisfirePolicy` differs, so it is left to `jobs_live` and to the
proofs, which hold for every set of policies.

In `reconcile` two passes in flight give a stale and a fresh one; passes of one main
differ from passes of two only in the cursor, which has a property of its own. An
owner published twice can vanish and return under a stale answer. `FlightTicks`
bounds the age of a pass or transaction in flight, and `GraceAssumption` says that
the quarantine grace is longer than that: it is what the default grace of one
day against passes of minutes buys, and a pass in flight for as long as the
grace could indeed delete a revived owner's jobs. The run takes the tightest case
the assumption allows. In `reconcile_live` a page of one
owner and a budget of one page make every pass stop short, so the walk is carried by
the cursor alone. The same instance with one disturbance passes as well (420,588
states) but takes several minutes, so it is not kept as a run.

The graphs of the engine runs are every subset of a set of edges over four nodes,
filtered by the code's own validation: branches with a join on two slots, possible
forward cycles and unreachable feeders; a loop with a body, an exit, a join of its end
with the trigger and stray edges in and out; two loops in a row; a body of two nodes with
a branch inside; a step that nothing executes, beside and after one that runs. Trigger outputs of two items make loops take two passes, an empty list
ends them at once, and a non-list input takes the error path. Two planners suffice for a race, since a
decision writes once; a third repeats one of the two roles. One fault separates what survives a repeated
message, a rejected call or a restart from what does not.

In `retention_loop` a budget of two statements against two windows is the least with
which one window can starve the other; occurrences keep finishing, so the first window
never runs empty by itself. Limit 1 with two passes alive is the case of an abandoned pass beside
the one in its slot. In `broker` two offers and two requests let a late answer meet a
second attempt, two processes under one id let a reconnect meet the burial of the old
connection; one process at a time waits to take an id over.

Symmetry over mains, over slots and over workers is used in safety runs only.

Deadlock is checked in the runs of `ScheduledTasks` and `Reconciliation`. `ScheduledJobs` stops at
`MaxTime`, an execution ends, a loop is stopped and requests are answered, so the other
runs do not check it; what must not get stuck there is a liveness property.

Fairness. `EveryOccurrenceSettles` assumes only that time passes, that each loop
keeps ticking on some main that is up, that a stop completes and that a main
comes back. No step of a fire is fair: timers may be lost, handlers may hang,
terminal writes may never come. Releases that count no attempt draw on `MaxDisturb`, so
a row that is released for ever is outside the run. `ClockCatchesUp` assumes that time passes and
that the materializer loop of each main keeps claiming and that its passes end; aborted passes and deferrals
are bounded by `MaxDisturb`. The code justifies both: loops re-arm before each
pass and abandon a pass that hangs, and a pass is a bounded set of statements.
`OrphansRetired` and `LivingRevived` assume that loops keep launching sweeps, that the
statements of a pass and of a provisioning transaction resolve, and that time goes on:
strongly fair, because the `FlightTicks` bound suspends `Tick` while something in
flight is that old. Nothing is assumed of owners or of when they are provisioned.
`EveryExecutionEnds` assumes that each worker takes its next step: the queue's dispatch
loop runs while messages are pending, and an executor is taken to return. An execution
that comes to a step without an executor is excused: nothing takes that row further
(`stuckWithoutExecutor`).
`FinishedRowsGo` and `StopResolves` assume that time passes, that a due alarm fires,
that statements answer unless they hang, and that the timeout of a pass that hangs
fires. `EveryRequestAnswered` assumes of the broker only that its request timers and
task timers fire; runners, sockets and the acceptance timer owe nothing.

## 4. Proofs

Every theorem holds for all values of the constants that satisfy the named
assumptions of the module it is about: any number of mains, jobs, occurrences, graphs,
workers, passes, runners, requests or offers, any knobs. None of the properties is inductive; each module ends
with, or its proofs define, the inductive invariant `IInv`, which TLC checked on the
module's run before it was proved.

| Module | Theorems state | Stays with TLC |
|---|---|---|
| `ScheduledTasksProofs` | type correctness, `IInv`, `HandlerRunsBounded`, `NoFailureAfterDispatch`, `SucceededHasEffect`, `MissedNeverRan`, `HandlerOncePerLease` | |
| `ScheduledTasksRefinement` | `LiveLeaseRespected`, `ReaperNeverRedelivers`, `ImplementsLife` | `EveryOccurrenceSettles` |
| `ScheduledJobsProofs` | `IInv`, `TypeOK`, `OneRowPerInstant`, `ClockNeverRewinds`, `OneLateRunPerOwner`, `LatenessBounded`, `SettledNeverRequeued` | `ClockCatchesUp` |
| `ReconciliationProofs` | `IInv`, `TypeOK`, `ProvisionedNeverDeleted`, `CursorMovesFromItself` | `OrphansRetired`, `LivingRevived` |
| `EngineExecutionProofs` | `IInv`, `TypeOK`, `NothingStranded`, `StepRunsOnce` | `FatesConverge`, `NoEarlyFinish`, `InputsAlwaysReadable`, `EveryExecutionEnds` |
| `RetentionLoopProofs` | `IInv`, `TypeOK`, `NoBurst`, `CadenceKept`, `AbortedIssuesNothing` | `StopResolves`, `FinishedRowsGo` |
| `TaskBrokerProofs` | `IInv`, `TypeOK`, `RequesterInSync`, `OneAttemptPerRequest`, `SlotsAccounted` | `EveryRequestAnswered` |

### ScheduledTasks

Assumptions: `NullAssumption`, `AttemptsAssumption`, `TimeAssumption`,
`BoundAssumption`. That a succeeded row's lease had its effect, say,
depends on which fires may still write the row. `IInv` therefore says

* `OneOwnerPerEpoch`: no two claims in memory carry the same task and epoch;
* `FiresConsistent`: a claim never has an epoch above its row's; a pending row's
  epoch is above every claim's; and when the row runs at the claim's epoch they
  agree on host, attempts and progress;
* `RefsConsistent`: a row the reaper read, still at that epoch, has the attempts
  it read;
* `RowsConsistent`: attempts, starts and markers agree with the status;
* `TrackedIsArmed`: `claimedTaskById` holds armed claims only.

One lemma per group of actions shows that a step preserves it (`ClaimInv`,
`FireStepInv`, `RetireInv`, `ReapInv`, `StopExecutorInv`, `ExitInv`, `TickInv`,
`OutsideWrite`), and `InvStep` puts them together. The refinement maps every step to
a step of one occurrence's life or to a stutter, from the same invariant: `IInv` is
what makes a late terminal write of an older lease a stutter.

That a verdict is never revised is part of `ImplementsLife`, and that a shutdown never
releases a row whose handler started follows from `IInv` (`TrackedIsArmed`,
`FiresConsistent`), so neither is a property of its own.

### ScheduledJobs

Assumptions: `JobAssumption`, `KnobAssumption`, `SlackAssumption`,
`ScheduleAssumption`. `ClaimsOK` and `ClaimsApart` say what the row locks of a pass
buy: the jobs it plans from are still there, due within the lookahead, and nobody
else's. `ProvisionCurrent` says what a provision may still believe of the row it read
without a lock. `DeadlinesTight` bounds the deadline of a row that is no catch-up run by
two graces, which gives `LatenessBounded` at the claim. Underneath are lemmas about the
planning operators: `WalkSteps` (the walk of a schedule, by least counterexample, since
induction over data is out of reach), `MisfirePolicy`, `PlanJob`, `CoalesceOwner`,
`Recorded` and `AdvanceMany`. A clock never rewinds because the planned next run is never
below the job's present one, and because `PlanRetry >= Lookahead` puts a
deferral beyond anything a pass claims.

`SettledNeverRequeued` needs one thing more, `CapCoversWindow`: the cap on the rows of a
pass exceeds the window and the time a provision takes. Fires are at least an instant
apart, so the pass that seeds a rewound clock then plans every instant up to the window
and the clock comes to stand beyond all of them again. Without it the seeding pass may
be cut short, and while the clock works through the rest, the rows it has yet to pass
may be pruned and recorded anew. The default cap (1000) against the default window (60
seconds) satisfies it. `SInv` is inductive: `ClockAhead` (a recorded instant, its row
there or not, is behind the clock of its job), `SettledKept` (retention leaves the ended
rows a provision in flight may still wind the clock back over: `Retention > Stale`),
`IdsFresh` and `ClocksRead`.

### Reconciliation

Assumptions: `OwnerAssumption`, `KnobAssumption`, `NullAssumption` and
`GraceAssumption`. `ProvisionedNeverDeleted` rests on `StampsYoung`: a pass that still
takes the owner of a provisioned job for missing asked before the owner was published, so
the stamp on the job is no older than that pass and one flight. A pass deletes what was
stamped a whole grace before its own start, so `FlightTicks < Grace` suffices; the
proof showed that an earlier assumption of two flights was more than the code needs.
`ProvisionOK` and `KeptOK` relate the transaction in flight and the promise to owners and
rows. `PublishersCurrent` is the reason for `CursorMovesFromItself`.

### EngineExecution

Assumptions: `BoundsAssumption`, `GraphsAssumption` (the edges of a graph are finite) and
`OutputsAssumption` (slots are numbered); `ExecutorsAssumption` (a host can supply an
executor for v1 nodes only) is not needed by any proof. `EventsOK`, kept beside `IInv`, types the
published events: the trigger's row comes before every other row, so the events of an
execution's end name a row that is there. `FailureReported` carries `NothingStranded`:
while rows wait after a failure, the report of it is in the orchestration queue, with a
step worker about to announce it, or with a planner about to sweep; the share lock of
`createSteps` (`creatable`) is what keeps an insert from crossing the sweep.
`TriggerFirst` shows that one planner alone records the trigger, `ClaimsUnique` that a claimed step
is one worker's and that a started one is past every claim. The pure planning
functions enter only through `SuccessorKeys`: whatever rows it is given, the
planner plans finitely many steps of the graph.

`FatesConverge`, `NoEarlyFinish` and `InputsAlwaysReadable` relate what planners decided
from different reads of the table. Their invariants need the meaning of the closures of
`EngineGraph` (loops, reachability, last passes) for every graph, which is induction over
the graph; they stay with TLC, on every graph of the five families.

### RetentionLoop

Assumption: `LoopAssumption`. `TicksAhead` is why there is no burst: one tick leaves the slot ahead
of the clock, and a second leaves the alarm ahead too, since the jitter is less than
the interval. `CadenceKept` is arithmetic of remainders (`RemainderOfSum`,
`RemainderBelow`, in `CollectionLemmas`). `IssueNext` shows that a pass which goes on has
a statement left to spend in its budget and was not told to abort; `IdleIsFresh` that a pass which
returned carries no signal into the next one; `HeldInWindow` that a statement's locks are
in the window it deletes from.

### TaskBroker

Assumption: `BrokerAssumption`. The invariant `IInv` is read by following a task, which
passes its stages once: its offer is on the way, its offer is in the pool, it is an
acceptance awaited, the broker tracks it. Its conjuncts are

* `SyncOK`, which is `RequesterInSync` as a relation of the pending requests, the tracked
  tasks and the requester's promises, and `ShapesOK`, the types, with "only tasks offered
  so far are tracked";
* `PoolOK`: `Sound` says that no offer, request or acceptance is there twice, that no
  task is both offered and being accepted, and that a request is marked exactly when one
  acceptance has it. In the middle of a handler a marked request may be `owed`: its
  acceptance is gone and the request is about to be released. Offers in the pool are
  `Offerable`: their runner has neither started nor answered them;
* `DownOK`: an `offeraccept` frame is sent once, for a task that nothing has come of, and
  while the runner is connected its acceptance is awaited or a `cancel` follows it in
  the same queue (`Sequel`);
* `UpOK`: an offer on its way has not been tracked, taken or answered (`Staged`), and no
  runner holds a task whose end it has reported;
* `ProcOK`, `RemovalsOK`: a runner without a connection holds nothing, its slots are
  within `maxConcurrency`, and what a burial in progress will report is over;
* `SlotsOK`, which is `SlotsAccounted` restated per task.

The properties alone are not inductive. `SlotsAccounted` speaks of what the
runner holds, but a task gets there by a frame sent long before: only `Sequel`, carried
through every timeout, refusal and discarded offer, says that an acceptance the broker
gave up is followed by its cancellation, in that order. `OneAttemptPerRequest` needs to
know that a late `accepted` frame cannot belong to a later attempt, which is what "a task
passes its stages once" says.

The proof has two halves. `SettleTasks` shows that `settleTasks` keeps `Sound` and
`Delivering` from any pool (`matchOne` is its loop body), and `Deregister` that releasing
the acceptances of a runner, with a settlement after each, ends with nothing owed. Both
are recursive functions: `RecursionSolved` and `HandedOn` (`CollectionLemmas`) take a least
counterexample over their steps. Each action is then *calm* (`Calm`: no runner offers or
takes a task in it, and frames to the broker are only consumed) or advances the tasks of
one runner (`BusyRunnerStep`). `StepInv` collects one lemma per action.

`EveryRequestAnswered` is liveness and stays with TLC.

### What the prover cannot do

Liveness under fairness is out of its reach, and so is induction over data. Where a lemma
needs an induction over naturals or finite sets (`WalkSteps`, `WithoutElements`,
`FiniteHasMax`, `HandedOn`) it takes a least counterexample instead.

## 5. What is not modelled

* The instance clocks: timers fire at arbitrary moments, and the host clock a
  provision uses is the database clock read earlier.
* The `enabled` flag and the grace of a job changing under its queued rows.
* Several rules in one provision call, and two provisions at once. `ScheduledJobs`
  has no quarantine and `Reconciliation` no schedules: each sees the other's effect
  on a clock only.
* More than one recorded occurrence per job in `Reconciliation`.
* `recurring_cron` and time zones.
* Payloads, error texts, metrics and tracing; `finishedAt`; the `cancelled`
  status, which nothing writes.
* The deduplication key of executions, the host's backstop behind the scheduler.
* What a retried row forgets: `ScheduledJobs` leaves open how often a row is retried.
* Engine v2: the HTTP server and its authentication, the batching and delivery of
  lifecycle events, the read side, sizes of payloads. A start request that validation
  rejects leaves no state, so only accepted graphs start.
* Task broker: the contents of data, RPC and node type messages (the broker forwards
  them and keeps nothing), the process manager of internal runners and the launcher,
  authentication, the wording of disconnect errors. A third process that connects while
  another waits to take the same id over. Two frames handled in one turn of the event
  loop.
* Queue mode, multi-main election, concurrency control, publication, waiting and
  recovery, and the interpreter: see the plan. The nodes and front ends are I/O and
  user interface.

## 6. Where the code and its documentation differ

The run `backlog_late_run` shows that under `coalesce` a truncated pass can lose the
late run altogether (`misfire.ts:46`), which the scheduler's README (line 197) promises.

The models contain these behaviours too; no run is spent on them, because each can be
read off the action that has it.

* A dispatched occurrence whose handler then throws is retried while attempts remain
  (`executor.ts:307`, `Outcome`); `task-handler.ts:24` says it is not.
* Two handlers of one occurrence overlap when a handler outlives its lease, with no
  partition: the lease is refreshed once, at dispatch (`executor.ts:238`);
  `executor.ts:73` says they cannot.
* `Executor.stop` does not release a claim whose entry an older claim of the same task
  deleted (`executor.ts:198`, `FireTimer`); the row waits out its lease, although
  `executor.ts:341` says stop releases it.
* Quarantine withdraws pending rows only (`scheduled-job.repository.ts:388`,
  `QuarantineStep`): an occurrence claimed ahead of its time still fires, although the
  scheduler's README (line 330) says the job stops firing immediately.
* The instant a failed planning is deferred to is recorded as an occurrence
  (`materialize.ts:227`), although a cron expression may not match it.
* A sweep that holds an older answer can quarantine a job between provision's lift and
  its read; the redefinition then starts the clock of a quarantined row
  (`durable-job-provisioner.ts:278`), although line 225 says such a row has none. The
  claim of due jobs does not look at `orphanedAt`, so the row records occurrences until
  a later sweep lifts it (`LivingRevived`).
* Retention with `maxBatchesPerPass` 1 gives its one statement to the first window every
  pass; the comment at `prune.ts:49` says a later window is not starved out of the pass.
  `MaxBatches` is 2 in the run for that reason.
* An execution can announce its end before a step announces its own: another step's failure
  ends it while a step is between its write and its announcement
  (`step-ready-handler.ts:102` orders one step's two messages only).
* A crash or a rejected call between creating step rows and publishing them strands the
  execution (`step-settled-handler.ts:112` says so, as CAT-2938): `EveryExecutionEnds`
  excuses executions with an error.
* Validation accepts a graph with a wait or subworkflow step, and a start with v1 nodes on
  a host without an executor for them; the step throws after its claim
  (`step-ready-handler.ts:60`), its row stays running and the execution with it. The
  comment at line 51 leaves it to reconciliation (CAT-2938), which does not exist yet.
* When a process waits in `add` for the removal of an older connection of its id, and a
  third registers meanwhile, the waiting one overwrites the live connection
  (`task-broker-ws-server.ts:182`). The model excludes the third process.

## 7. Plan

1. (done) Executor and reaper with the abstract life of an occurrence; materializer
   and provisioning; reconciliation with quarantine and revival.
2. (done) Retention windows, their budget and the loop with slots, timeouts, abandoned
   passes and shutdown.
3. (done) Engine v2's graphs, planning, loops, workers and stores; the task broker with
   runners, connections and drains.
4. Multi-main leader election over Redis keys; concurrency control; publication; wait
   tracking and recovery of executions.
5. (done) Proofs of the safety of the scheduler's modules, the refinement of
   `OccurrenceLifecycle`, the loop, and `NothingStranded` and `StepRunsOnce` of the engine.
6. (done) Proofs of the four safety properties of `TaskBroker`.
7. Proofs: `FatesConverge`, `NoEarlyFinish` and `InputsAlwaysReadable`. They need a theory
   of loops and reachability for every graph, best stated first as lemmas about
   `EngineGraph` from the closures' fixpoint equations.
