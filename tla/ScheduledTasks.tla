--------------------------- MODULE ScheduledTasks ---------------------------
(***************************************************************************)
(* The task half of n8n's durable scheduler: the scheduled_task table, the *)
(* executor of every main (claim, timer, dispatch mutex, handler, terminal *)
(* write, shutdown) and the reaper of every main (retire, sweep).          *)
(*                                                                         *)
(* Every SQL statement is one atomic step and every await of the code lies *)
(* between two steps, so a row may change under a fire that is in flight.  *)
(* Instants are kept relative to the database clock: runIn is runAt - now, *)
(* missIn is missedAfter - now and leaseLeft is leaseExpiresAt - now, each *)
(* floored at the value past which the code no longer tells them apart.    *)
(* A batch of n rows is n single-row claims (or n single-row sweeps): the  *)
(* rows of a batch do not interact and passes of one main may overlap.     *)
(***************************************************************************)
EXTENDS Integers

CONSTANTS
  Host,           \* instance ids, stable across restarts (os.hostname() in Docker)
  Task,           \* ids of scheduled_task rows
  NULL,           \* SQL NULL
  MaxAttempts,    \* job.maxAttempts, copied on every row
  LeaseTicks,     \* ExecutorOptions.leaseSeconds
  LookaheadTicks, \* ExecutorOptions.lookaheadSeconds
  BaseBackoff,    \* DEFAULT_BASE_MS
  MaxBackoff,     \* DEFAULT_MAX_MS
  MisfireGrace,   \* job.misfireGraceSeconds
  MaxRunIn,       \* bound: how far ahead the initial rows are scheduled
  MaxDisturb      \* bound: crashes, stops, aborted ticks and failed writes

ASSUME NullAssumption == NULL \notin Host \cup Int /\ NULL # "stamped"
ASSUME AttemptsAssumption == MaxAttempts \in Nat \ {0}
ASSUME TimeAssumption ==
  /\ LeaseTicks \in Nat /\ LookaheadTicks \in Nat
  /\ BaseBackoff \in Nat /\ MaxBackoff \in Nat
  /\ MisfireGrace \in Nat /\ MaxRunIn \in Nat
ASSUME BoundAssumption == MaxDisturb \in Nat

VARIABLES
  task,     \* the scheduled_task table; status "deleted" means there is no row
  fires,    \* claims held in the memory of some main, from claim to last write
  tracked,  \* claimedTaskById of every main: the armed claim per task, or NULL
  reaping,  \* rows a sweep of each main has read and not yet written
  mode,     \* life of each main's scheduler
  budget,   \* disturbances left
  runs,     \* history: handler starts per task
  lastRun,  \* history: the epoch of the latest handler start, 0 if none
  effects   \* history: epochs whose handler handed its effect off

vars == <<task, fires, tracked, reaping, mode, budget, runs, lastRun, effects>>
memory == <<fires, tracked, reaping, mode>>
history == <<runs, lastRun, effects>>

Terminal == {"succeeded", "failed", "missed"}
Status == {"pending", "running", "deleted"} \cup Terminal

\* A timestamp of which only being null or not is ever read.
Stamp == {NULL, "stamped"}

Row == [status : Status, attempts : Nat, runIn : Nat, missIn : Nat \cup {NULL},
        claimedBy : Host \cup {NULL}, leaseLeft : Int \cup {NULL},
        leaseEpoch : Nat, startedAt : Stamp, dispatchedAt : Stamp]

\* Where a fire is between two awaits. "claimed": the claim committed, its
\* promise has not resolved. "armed": waiting on the timer. "firing": timer
\* fired, beginDispatch not yet executed. "handling": the handler runs.
\* "returned" / "threw": the handler is over, the terminal write is due.
\* "releasing": a releaseClaim is due.
PreStart == {"claimed", "armed", "firing", "releasing"}
Started == {"handling", "returned", "threw"}

\* mark follows dispatchMark: "none" (undefined), "sent" (the markDispatched
\* write is under way), "done" (settled, whether it landed or was rejected).
Fire == [host : Host, id : Task, epoch : Nat, attempts : Nat,
         pc : PreStart \cup Started, mark : {"none", "sent", "done"}]

ExpiredRef == [id : Task, claimedEpoch : Nat, attempts : Nat, dispatchedAt : Stamp]

Mode == {"up", "draining", "stopped", "down"}

TypeOK ==
  /\ task \in [Task -> Row]
  /\ fires \subseteq Fire
  /\ tracked \in [Host -> [Task -> Fire \cup {NULL}]]
  /\ reaping \in [Host -> SUBSET ExpiredRef]
  /\ mode \in [Host -> Mode]
  /\ budget \in Nat
  /\ runs \in [Task -> Nat]
  /\ lastRun \in [Task -> Nat]
  /\ effects \in [Task -> SUBSET Nat]

-----------------------------------------------------------------------------
\* Rows and the statements that change one row.

\* The definitions named Bug... are the mutants of the definition that follows
\* them: the same operation with one plausible mistake. Nothing uses them.

LesserOf(a, b) == IF a <= b THEN a ELSE b

backoff(attempts) ==
  IF attempts < 1 THEN 0 ELSE LesserOf(BaseBackoff * 2^(attempts - 1), MaxBackoff)

\* A row as the materializer inserts it: deadline is runAt + grace, or none.
NewRow(runIn, missIn) ==
  [status |-> "pending", attempts |-> 0, runIn |-> runIn, missIn |-> missIn,
   claimedBy |-> NULL, leaseLeft |-> NULL, leaseEpoch |-> 0,
   startedAt |-> NULL, dispatchedAt |-> NULL]

DeletedRow == [NewRow(0, NULL) EXCEPT !.status = "deleted"]

BugClaimableIgnoresRetries(r) == r.missIn # NULL => r.missIn > 0

claimableSql(r) == (r.missIn # NULL /\ r.attempts = 0) => r.missIn > 0

Claimable(r) ==
  /\ r.status = "pending"
  /\ r.runIn <= LookaheadTicks
  /\ claimableSql(r)

LeaseExpired(r) == r.leaseLeft < 0

BugClaimKeepsEpoch(r, h) ==
  [r EXCEPT !.status = "running", !.claimedBy = h, !.leaseLeft = LeaseTicks]

claimRow(r, h) ==
  [r EXCEPT !.status = "running", !.claimedBy = h, !.leaseLeft = LeaseTicks,
            !.leaseEpoch = r.leaseEpoch + 1]

beginDispatchRow(r) == [r EXCEPT !.startedAt = "stamped", !.leaseLeft = LeaseTicks]
markDispatchedRow(r) == [r EXCEPT !.dispatchedAt = "stamped"]
completeTaskRow(r) == [r EXCEPT !.status = "succeeded"]
failTaskTerminalRow(r) == [r EXCEPT !.status = "failed", !.attempts = r.attempts + 1]

\* claimedBy, leaseExpiresAt, startedAt and dispatchedAt set to null, status pending.
releaseClaimRow(r) ==
  [r EXCEPT !.status = "pending", !.claimedBy = NULL, !.leaseLeft = NULL,
            !.startedAt = NULL, !.dispatchedAt = NULL]

BugRescheduleUncounted(r, delay) == [releaseClaimRow(r) EXCEPT !.runIn = delay]

rescheduleTaskRow(r, delay) ==
  [releaseClaimRow(r) EXCEPT !.runIn = delay, !.attempts = r.attempts + 1]

reclaimExpiredRow(r, delay) ==
  [rescheduleTaskRow(r, delay) EXCEPT !.leaseEpoch = r.leaseEpoch + 1]

BugGuardIgnoresEpoch(f) ==
  task[f.id].status = "running" /\ task[f.id].claimedBy = f.host

BugGuardIgnoresStatus(f) ==
  task[f.id].claimedBy = f.host /\ task[f.id].leaseEpoch = f.epoch

\* runGuardedUpdate's WHERE clause: still running, still ours, same epoch.
Guarded(f) ==
  /\ task[f.id].status = "running"
  /\ task[f.id].claimedBy = f.host
  /\ task[f.id].leaseEpoch = f.epoch

BugReaperTrustsSnapshot(ref, dispatched) ==
  /\ task[ref.id].status = "running"
  /\ task[ref.id].leaseEpoch = ref.claimedEpoch
  /\ task[ref.id].dispatchedAt = dispatched

BugReaperIgnoresMarker(ref, dispatched) ==
  /\ task[ref.id].status = "running"
  /\ task[ref.id].leaseEpoch = ref.claimedEpoch
  /\ LeaseExpired(task[ref.id])

\* runReaperUpdate's WHERE clause, re-asserted when the write executes.
ReaperGuarded(ref, dispatched) ==
  /\ task[ref.id].status = "running"
  /\ task[ref.id].leaseEpoch = ref.claimedEpoch
  /\ LeaseExpired(task[ref.id])
  /\ task[ref.id].dispatchedAt = dispatched

-----------------------------------------------------------------------------
Init ==
  /\ \E runIn \in [Task -> 0..MaxRunIn] : \E bounded \in [Task -> BOOLEAN] :
       task = [t \in Task |->
                 NewRow(runIn[t], IF bounded[t] THEN runIn[t] + MisfireGrace ELSE NULL)]
  /\ fires = {}
  /\ tracked = [h \in Host |-> [t \in Task |-> NULL]]
  /\ reaping = [h \in Host |-> {}]
  /\ mode = [h \in Host |-> "up"]
  /\ budget = MaxDisturb
  /\ runs = [t \in Task |-> 0]
  /\ lastRun = [t \in Task |-> 0]
  /\ effects = [t \in Task |-> {}]

\* A crash, a stop, an aborted tick or a rejected statement.
Disturb == budget > 0 /\ budget' = budget - 1
Calm == budget' = budget

Drop(f) == fires' = fires \ {f}
Move(f, g) == fires' = (fires \ {f}) \cup {g}
UpdateRow(t, r) == task' = [task EXCEPT ![t] = r]

-----------------------------------------------------------------------------
\* The executor of main h.

\* claimDueTasks: oldest runAt first, one atomic statement.
ClaimDueTasks(h, t) ==
  /\ mode[h] = "up"
  /\ Claimable(task[t])
  /\ \A u \in Task : Claimable(task[u]) => task[t].runIn <= task[u].runIn
  /\ UpdateRow(t, claimRow(task[t], h))
  /\ fires' = fires \cup
       {[host |-> h, id |-> t, epoch |-> claimRow(task[t], h).leaseEpoch,
         attempts |-> task[t].attempts, pc |-> "claimed", mark |-> "none"]}
  /\ Calm
  /\ UNCHANGED <<tracked, reaping, mode, history>>

\* The claim resolved in time: track it, then arm its timer.
ScheduleClaimed(f) ==
  /\ f.pc = "claimed"
  /\ mode[f.host] = "up"
  /\ Move(f, [f EXCEPT !.pc = "armed"])
  /\ tracked' = [tracked EXCEPT ![f.host][f.id] = [f EXCEPT !.pc = "armed"]]
  /\ Calm
  /\ UNCHANGED <<task, reaping, mode, history>>

\* The tick was aborted (timed out, or its loop stopped) before the claim resolved.
HandBackClaim(f) ==
  /\ f.pc = "claimed"
  /\ IF mode[f.host] = "up" THEN Disturb ELSE Calm
  /\ Move(f, [f EXCEPT !.pc = "releasing"])
  /\ UNCHANGED <<task, tracked, reaping, mode, history>>

BugTimerKeepsEntry(f) ==
  /\ f.pc = "armed"
  /\ Move(f, [f EXCEPT !.pc = "firing"])
  /\ Calm
  /\ UNCHANGED <<task, tracked, reaping, mode, history>>

\* The timer callback drops the task's entry, whichever claim it belongs to.
FireTimer(f) ==
  /\ f.pc = "armed"
  /\ Move(f, [f EXCEPT !.pc = "firing"])
  /\ tracked' = [tracked EXCEPT ![f.host][f.id] = NULL]
  /\ Calm
  /\ UNCHANGED <<task, reaping, mode, history>>

\* No handler for the type any more (a rolling restart): hand the row back.
SkipNoHandler(f) ==
  /\ f.pc = "firing"
  /\ Disturb
  /\ Move(f, [f EXCEPT !.pc = "releasing"])
  /\ UNCHANGED <<task, tracked, reaping, mode, history>>

\* The pre-dispatch mutex: one winner per lease, which also refreshes the lease.
BeginDispatch(f) ==
  /\ f.pc = "firing"
  /\ IF Guarded(f) /\ task[f.id].startedAt = NULL
       THEN /\ UpdateRow(f.id, beginDispatchRow(task[f.id]))
            /\ Move(f, [f EXCEPT !.pc = "handling"])
            /\ runs' = [runs EXCEPT ![f.id] = runs[f.id] + 1]
            /\ lastRun' = [lastRun EXCEPT ![f.id] = f.epoch]
       ELSE Drop(f) /\ UNCHANGED <<task, runs, lastRun>>
  /\ Calm
  /\ UNCHANGED <<tracked, reaping, mode, effects>>

\* The handler handed its effect off and said so: the marker write is kicked off.
ReportDispatched(f) ==
  /\ f.pc = "handling" /\ f.mark = "none"
  /\ Move(f, [f EXCEPT !.mark = "sent"])
  /\ effects' = [effects EXCEPT ![f.id] = effects[f.id] \cup {f.epoch}]
  /\ Calm
  /\ UNCHANGED <<task, tracked, reaping, mode, runs, lastRun>>

\* The marker write settles, landed or rejected (a rejection is swallowed).
MarkDispatched(f) ==
  /\ f.mark = "sent"
  /\ Move(f, [f EXCEPT !.mark = "done"])
  /\ \/ /\ Calm
        /\ IF Guarded(f) THEN UpdateRow(f.id, markDispatchedRow(task[f.id])) ELSE UNCHANGED task
     \/ Disturb /\ UNCHANGED task
  /\ UNCHANGED <<tracked, reaping, mode, history>>

\* A clean return counts as dispatched; a second markDispatched is a no-op.
HandlerReturns(f) ==
  /\ f.pc = "handling"
  /\ Move(f, [f EXCEPT !.pc = "returned", !.mark = IF f.mark = "none" THEN "sent" ELSE f.mark])
  /\ effects' = [effects EXCEPT ![f.id] = effects[f.id] \cup {f.epoch}]
  /\ Calm
  /\ UNCHANGED <<task, tracked, reaping, mode, runs, lastRun>>

HandlerThrows(f) ==
  /\ f.pc = "handling"
  /\ Move(f, [f EXCEPT !.pc = "threw"])
  /\ Calm
  /\ UNCHANGED <<task, tracked, reaping, mode, history>>

BugLastAttemptOffByOne(attempts) == attempts >= MaxAttempts

LastAttempt(attempts) == attempts + 1 >= MaxAttempts

\* The row a fire's terminal write leaves: the three store calls of runFire.
Outcome(f, r) ==
  IF f.pc = "returned" \/ (LastAttempt(f.attempts) /\ f.mark = "done")
    THEN completeTaskRow(r)
  ELSE IF LastAttempt(f.attempts) THEN failTaskTerminalRow(r)
  ELSE rescheduleTaskRow(r, backoff(f.attempts + 1))

\* The terminal write executes, after the marker settled; 0 rows is benign.
RecordOutcome(f) ==
  /\ f.pc \in {"returned", "threw"} /\ f.mark # "sent"
  /\ IF Guarded(f) THEN UpdateRow(f.id, Outcome(f, task[f.id])) ELSE UNCHANGED task
  /\ Drop(f)
  /\ Calm
  /\ UNCHANGED <<tracked, reaping, mode, history>>

ReleaseClaim(f) ==
  /\ f.pc = "releasing"
  /\ IF Guarded(f) THEN UpdateRow(f.id, releaseClaimRow(task[f.id])) ELSE UNCHANGED task
  /\ Drop(f)
  /\ Calm
  /\ UNCHANGED <<tracked, reaping, mode, history>>

\* A rejected statement ends the fire and leaves the row to the reaper.
FireError(f) ==
  /\ f.pc \in {"firing", "releasing"} \/ (f.pc \in {"returned", "threw"} /\ f.mark # "sent")
  /\ Disturb
  /\ Drop(f)
  /\ UNCHANGED <<task, tracked, reaping, mode, history>>

-----------------------------------------------------------------------------
\* The reaper of main h.

\* retireMissedPending: past its deadline and never attempted.
RetireMissedPending(h, t) ==
  /\ mode[h] = "up"
  /\ task[t].status = "pending" /\ task[t].missIn # NULL /\ task[t].attempts = 0
  /\ task[t].missIn <= 0
  /\ UpdateRow(t, [task[t] EXCEPT !.status = "missed"])
  /\ Calm
  /\ UNCHANGED <<memory, history>>

\* findExpiredLeases: read without locks; the row may change before the write.
FindExpiredLease(h, t) ==
  /\ mode[h] = "up"
  /\ task[t].status = "running" /\ LeaseExpired(task[t])
  /\ LET ref == [id |-> t, claimedEpoch |-> task[t].leaseEpoch,
                 attempts |-> task[t].attempts, dispatchedAt |-> task[t].dispatchedAt]
     IN /\ ref \notin reaping[h]
        /\ reaping' = [reaping EXCEPT ![h] = reaping[h] \cup {ref}]
  /\ Calm
  /\ UNCHANGED <<task, fires, tracked, mode, history>>

\* The row reap leaves for one ref: complete, dead-letter or reclaim.
Reaped(ref, r) ==
  IF ref.dispatchedAt # NULL THEN completeTaskRow(r)
  ELSE IF LastAttempt(ref.attempts) THEN failTaskTerminalRow(r)
  ELSE reclaimExpiredRow(r, backoff(ref.attempts + 1))

ReapRow(h, ref) ==
  /\ ref \in reaping[h]
  /\ IF ReaperGuarded(ref, ref.dispatchedAt)
       THEN UpdateRow(ref.id, Reaped(ref, task[ref.id]))
       ELSE UNCHANGED task
  /\ reaping' = [reaping EXCEPT ![h] = reaping[h] \ {ref}]
  /\ Calm
  /\ UNCHANGED <<fires, tracked, mode, history>>

\* The row's statement threw, or the pass was aborted between two rows.
SkipReapRow(h, ref) ==
  /\ ref \in reaping[h]
  /\ IF mode[h] = "up" THEN Disturb ELSE Calm
  /\ reaping' = [reaping EXCEPT ![h] = reaping[h] \ {ref}]
  /\ UNCHANGED <<task, fires, tracked, mode, history>>

-----------------------------------------------------------------------------
\* Life of a main, the table's other writers, and time.

\* Scheduler.stop, first half: every loop stopped, in-flight passes aborted.
StopLoops(h) ==
  /\ mode[h] = "up"
  /\ Disturb
  /\ mode' = [mode EXCEPT ![h] = "draining"]
  /\ UNCHANGED <<task, fires, tracked, reaping, history>>

Armed(h) == {f \in fires : f.host = h /\ f.pc = "armed"}
TrackedClaims(h) == {tracked[h][t] : t \in {u \in Task : tracked[h][u] # NULL}}

\* Executor.stop: cancel every timer, release every tracked claim.
StopExecutor(h) ==
  /\ mode[h] = "draining"
  /\ mode' = [mode EXCEPT ![h] = "stopped"]
  /\ fires' = (fires \ Armed(h)) \cup
                {[f EXCEPT !.pc = "releasing"] : f \in TrackedClaims(h)}
  /\ tracked' = [tracked EXCEPT ![h] = [t \in Task |-> NULL]]
  /\ Calm
  /\ UNCHANGED <<task, reaping, history>>

\* The process ends: killed at any moment, or exiting after a stop.
Exit(h) ==
  /\ mode[h] # "down"
  /\ IF mode[h] = "stopped" THEN Calm ELSE Disturb
  /\ mode' = [mode EXCEPT ![h] = "down"]
  /\ fires' = {f \in fires : f.host # h}
  /\ tracked' = [tracked EXCEPT ![h] = [t \in Task |-> NULL]]
  /\ reaping' = [reaping EXCEPT ![h] = {}]
  /\ UNCHANGED <<task, history>>

Start(h) ==
  /\ mode[h] = "down"
  /\ mode' = [mode EXCEPT ![h] = "up"]
  /\ Calm
  /\ UNCHANGED <<task, fires, tracked, reaping, history>>

\* The row goes away under whoever holds it: its job was deleted (cascade), its
\* pending rows were withdrawn by an edit, or retention pruned it.
DeleteRow(t) ==
  /\ task[t].status # "deleted"
  /\ UpdateRow(t, DeletedRow)
  /\ Calm
  /\ UNCHANGED <<memory, history>>

\* The materializer's updateToMissed: a catch-up run superseded a pending row.
UpdateToMissed(t) ==
  /\ task[t].status = "pending"
  /\ UpdateRow(t, [task[t] EXCEPT !.status = "missed"])
  /\ Calm
  /\ UNCHANGED <<memory, history>>

CountDown(n, floor) == IF n = NULL THEN NULL ELSE IF n > floor THEN n - 1 ELSE floor

Tick ==
  /\ task' = [t \in Task |->
       [task[t] EXCEPT !.runIn = CountDown(task[t].runIn, 0),
                       !.missIn = CountDown(task[t].missIn, 0),
                       !.leaseLeft = CountDown(task[t].leaseLeft, -1)]]
  /\ Calm
  /\ UNCHANGED <<memory, history>>

FireStep(f) ==
  \/ ScheduleClaimed(f) \/ HandBackClaim(f) \/ FireTimer(f) \/ SkipNoHandler(f)
  \/ BeginDispatch(f) \/ ReportDispatched(f) \/ MarkDispatched(f)
  \/ HandlerReturns(f) \/ HandlerThrows(f) \/ RecordOutcome(f)
  \/ ReleaseClaim(f) \/ FireError(f)

Next ==
  \/ \E h \in Host, t \in Task :
       ClaimDueTasks(h, t) \/ RetireMissedPending(h, t) \/ FindExpiredLease(h, t)
  \/ \E f \in fires : FireStep(f)
  \/ \E h \in Host : \E ref \in reaping[h] : ReapRow(h, ref) \/ SkipReapRow(h, ref)
  \/ \E h \in Host : StopLoops(h) \/ StopExecutor(h) \/ Exit(h) \/ Start(h)
  \/ \E t \in Task : DeleteRow(t) \/ UpdateToMissed(t)
  \/ Tick

Spec == Init /\ [][Next]_vars

\* Only the loops are assumed to keep ticking and mains to come back: no step of
\* a fire is fair, so a timer may never fire and a handler may hang for ever.
Fairness ==
  /\ WF_vars(Tick)
  /\ \A t \in Task :
       /\ WF_vars(\E h \in Host : ClaimDueTasks(h, t))
       /\ WF_vars(\E h \in Host : RetireMissedPending(h, t))
       /\ WF_vars(\E h \in Host : FindExpiredLease(h, t))
       /\ WF_vars(\E h \in Host : \E ref \in reaping[h] : ref.id = t /\ ReapRow(h, ref))
  /\ \A h \in Host :
       WF_vars(StopExecutor(h)) /\ WF_vars(mode[h] = "stopped" /\ Exit(h)) /\ WF_vars(Start(h))

FairSpec == Spec /\ Fairness

-----------------------------------------------------------------------------
\* Properties.

\* The dispatch mutex (beginDispatch) starts a handler at most once per lease, and
\* in lease order: a start always carries an epoch above every earlier start's.
HandlerOncePerLease ==
  [][\A t \in Task : runs'[t] # runs[t] => lastRun'[t] > lastRun[t]]_vars

\* maxAttempts bounds handler starts, not only counted failures: no release, lost
\* lease, crash or rejected write lets an occurrence start once more for free.
HandlerRunsBounded == \A t \in Task : runs[t] <= MaxAttempts

\* An occurrence whose dispatch marker is on record never ends failed, neither by
\* the executor's last attempt nor by a reaper that read the row before the marker.
NoFailureAfterDispatch ==
  \A t \in Task : task[t].status = "failed" => task[t].dispatchedAt = NULL

\* A row is succeeded only if the handler of the very lease on the row handed its
\* effect off: a stale owner never completes the run that replaced its own.
SucceededHasEffect ==
  \A t \in Task : task[t].status = "succeeded" => task[t].leaseEpoch \in effects[t]

\* While a lease has not expired only the fire that holds it ends the run: the
\* reaper's stale snapshot cannot take back a lease that beginDispatch refreshed.
LiveLeaseRespected ==
  [][\A t \in Task :
       /\ task[t].status = "running" /\ ~LeaseExpired(task[t])
       /\ task'[t].status \notin {"running", "deleted"}
       => \E f \in fires \ fires' :
            f.id = t /\ f.host = task[t].claimedBy /\ f.epoch = task[t].leaseEpoch]_vars

\* The reaper never redelivers a dispatched occurrence: only the catch path of the
\* fire that dispatched it may put the row back to pending.
ReaperNeverRedelivers ==
  [][\A t \in Task :
       /\ task[t].status = "running" /\ task[t].dispatchedAt # NULL
       /\ task'[t].status = "pending"
       => \E f \in fires \ fires' :
            f.id = t /\ f.epoch = task[t].leaseEpoch /\ f.pc = "threw"]_vars

\* An occurrence retired as missed with no attempt counted never started a handler.
MissedNeverRan ==
  \A t \in Task : task[t].status = "missed" /\ task[t].attempts = 0 => runs[t] = 0

\* Refinement: the table's rows, seen without hosts, leases and time, follow the
\* life of an occurrence: no verdict skips the handler, none is revised, and the
\* handler is started at most MaxAttempts times.
stageBar == [t \in Task |->
  CASE task[t].status = "pending" -> "waiting"
    [] task[t].status = "deleted" -> "gone"
    [] task[t].status = "running" -> IF task[t].startedAt # NULL THEN "handed" ELSE "held"
    [] OTHER -> task[t].status]

Life == INSTANCE OccurrenceLifecycle WITH stage <- stageBar, starts <- runs

ImplementsLife == Life!LifeSpec

\* Every occurrence reaches a terminal status (or its row is deleted), even if
\* every handler hangs: leases expire, attempts run out, stale rows are retired.
EveryOccurrenceSettles ==
  \A t \in Task : <>(task[t].status \in Terminal \cup {"deleted"})

-----------------------------------------------------------------------------
\* The inductive invariant behind the safety properties.

\* No two claims held in memory, on any mains, carry the same task and epoch.
OneOwnerPerEpoch ==
  \A f, g \in fires : f.id = g.id /\ f.epoch = g.epoch => f = g

\* A claim never runs ahead of its row's epoch; one at the row's own epoch means
\* the row is not pending, and while the row runs the two agree on the owner, the
\* attempt number and how far the fire got.
FireMatchesRow(f, r) ==
  /\ f.epoch <= r.leaseEpoch
  /\ r.status = "pending" => f.epoch < r.leaseEpoch
  /\ r.status = "running" /\ f.epoch = r.leaseEpoch =>
       /\ f.host = r.claimedBy
       /\ f.attempts = r.attempts
       /\ r.startedAt # NULL <=> f.pc \in Started
       /\ f.mark # "done" => r.dispatchedAt = NULL

\* The marker of a fire stands for an effect its handler handed off.
MarkMatchesEffect(f) ==
  /\ f.mark # "none" => f.epoch \in effects[f.id] /\ f.pc \in Started
  /\ f.pc = "returned" => f.mark # "none"

\* A swept row still at the epoch the sweep read has the attempts it read.
RefMatchesRow(ref, r) ==
  /\ ref.claimedEpoch <= r.leaseEpoch
  /\ r.status = "running" /\ ref.claimedEpoch = r.leaseEpoch => ref.attempts = r.attempts

\* Attempts, handler starts and markers of a row agree with its status.
RowConsistent(t) ==
  LET r == task[t] IN
  /\ runs[t] <= MaxAttempts
  /\ r.status # "deleted" => lastRun[t] <= r.leaseEpoch
  /\ r.status \in {"pending", "missed"} =>
       r.attempts < MaxAttempts /\ runs[t] <= r.attempts /\ r.startedAt = NULL /\ r.dispatchedAt = NULL
  /\ r.status = "running" =>
       /\ r.attempts < MaxAttempts
       /\ r.claimedBy # NULL /\ r.leaseLeft # NULL
       /\ IF r.startedAt # NULL THEN runs[t] <= r.attempts + 1
                         ELSE runs[t] <= r.attempts /\ lastRun[t] < r.leaseEpoch
       /\ r.dispatchedAt # NULL => r.startedAt # NULL /\ r.leaseEpoch \in effects[t]
  /\ r.status = "succeeded" => r.leaseEpoch \in effects[t] /\ r.startedAt # NULL
  /\ r.status = "failed" => r.dispatchedAt = NULL

\* claimedTaskById holds armed claims only.
TrackedIsArmed ==
  \A h \in Host, t \in Task : tracked[h][t] # NULL =>
    /\ tracked[h][t] \in fires
    /\ tracked[h][t].host = h /\ tracked[h][t].id = t /\ tracked[h][t].pc = "armed"

FiresConsistent ==
  \A f \in fires :
    MarkMatchesEffect(f) /\ (task[f.id].status # "deleted" => FireMatchesRow(f, task[f.id]))

RefsConsistent ==
  \A h \in Host : \A ref \in reaping[h] :
    task[ref.id].status # "deleted" => RefMatchesRow(ref, task[ref.id])

RowsConsistent == \A t \in Task : RowConsistent(t)

\* Rows, claims in memory, swept rows and histories stay consistent whatever the
\* interleaving: the invariant the safety theorems are derived from.
IInv ==
  /\ TypeOK /\ OneOwnerPerEpoch /\ TrackedIsArmed
  /\ FiresConsistent /\ RefsConsistent /\ RowsConsistent
=============================================================================
