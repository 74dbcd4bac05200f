---------------------- MODULE ScheduledTasksRefinement ----------------------
(***************************************************************************)
(* What one step of ScheduledTasks does to the table, from its inductive   *)
(* invariant: the action properties about leases and redelivery, and the   *)
(* refinement of OccurrenceLifecycle, for any number of mains and tasks.   *)
(***************************************************************************)
EXTENDS ScheduledTasksProofs

-----------------------------------------------------------------------------
\* What a step does to one row, as far as occurrences are concerned.

\* Only columns other than the status and the start stamp change, in any number of rows.
KeepsStages ==
  /\ UNCHANGED runs
  /\ task' \in [Task -> Row]
  /\ \A t \in Task : task'[t].status = task[t].status /\ task'[t].startedAt = task[t].startedAt

\* A pending row is claimed; nobody has started it.
Claims(t, r) == task[t].status = "pending" /\ r.status = "running" /\ r.startedAt = NULL

\* A run ends: succeeded only if its handler was started, or failed, or pending again.
EndsRun(t, r) ==
  /\ task[t].status = "running"
  /\ \/ r.status = "succeeded" /\ task[t].startedAt # NULL
     \/ r.status = "failed"
     \/ r.status = "pending"

\* The fire that holds the lease ends the run, and only after a throw puts a dispatched
\* occurrence back.
OwnerEnds(t, r) ==
  \E f \in fires \ fires' :
    /\ f.id = t /\ f.host = task[t].claimedBy /\ f.epoch = task[t].leaseEpoch
    /\ EndsRun(t, r)
    /\ r.status = "pending" /\ task[t].dispatchedAt # NULL => f.pc = "threw"

\* The reaper ends the run of an expired lease, and puts back none that was dispatched.
ReaperEnds(t, r) ==
  /\ LeaseExpired(task[t])
  /\ EndsRun(t, r)
  /\ r.status = "pending" => task[t].dispatchedAt = NULL

Misses(t, r) == task[t].status = "pending" /\ r.status = "missed"
Deletes(t, r) == task[t].status # "deleted" /\ r.status = "deleted"

Writes(t, r) == r \in Row /\ task' = [task EXCEPT ![t] = r]

\* The handler of the row's lease is started, within the bound on attempts.
StartsHandler(t, r) ==
  /\ Writes(t, r)
  /\ task[t].status = "running" /\ task[t].startedAt = NULL /\ runs[t] < MaxAttempts
  /\ r.status = "running" /\ r.startedAt # NULL
  /\ runs' = [runs EXCEPT ![t] = runs[t] + 1]

ChangesRow(t, r) ==
  /\ Writes(t, r)
  /\ UNCHANGED runs
  /\ Claims(t, r) \/ OwnerEnds(t, r) \/ ReaperEnds(t, r) \/ Misses(t, r) \/ Deletes(t, r)

StepEffect == KeepsStages \/ \E t \in Task, r \in Row : ChangesRow(t, r) \/ StartsHandler(t, r)

-----------------------------------------------------------------------------
\* A step that leaves the table and the histories alone keeps every stage.
LEMMA TableUnchanged ==
  ASSUME TypeOK, UNCHANGED <<task, runs>> PROVE KeepsStages
BY DEF KeepsStages, TypeOK

\* A fire still guarded by its row agrees with it.
LEMMA GuardedFire ==
  ASSUME IInv, NEW f \in fires, Guarded(f)
  PROVE  /\ f.id \in Task /\ task[f.id] \in Row /\ f.attempts \in Nat
         /\ task[f.id].startedAt # NULL <=> f.pc \in Started
         /\ task[f.id].dispatchedAt # NULL => task[f.id].startedAt # NULL
         /\ task[f.id].status = "running"
         /\ f.host = task[f.id].claimedBy /\ f.epoch = task[f.id].leaseEpoch
<1>1. f.id \in Task /\ task[f.id] \in Row /\ f.attempts \in Nat BY FireTypes DEF IInv
<1>2. FireMatchesRow(f, task[f.id]) BY DEF Guarded, IInv, FiresConsistent
<1>3. RowConsistent(f.id) BY <1>1 DEF IInv, RowsConsistent
<1> QED BY <1>1, <1>2, <1>3 DEF Guarded, FireMatchesRow, RowConsistent

\* beginDispatch starts a handler or drops the fire.
LEMMA BeginDispatchEffect ==
  ASSUME IInv, NEW f \in fires, BeginDispatch(f) PROVE StepEffect
<1>1. CASE Guarded(f) /\ task[f.id].startedAt = NULL
  <2> DEFINE t == f.id
             r == beginDispatchRow(task[t])
  <2>1. t \in Task /\ task[t] \in Row /\ task[t].status = "running"
    BY <1>1, GuardedFire
  <2>2. f.host \in Host /\ 0 \in Nat BY FireTypes DEF IInv
  <2>3. r \in Row /\ r.status = task[t].status /\ r.startedAt # NULL
    BY <2>1, <2>2, RowStatements, RowColumns
  <2>4. runs[t] < MaxAttempts
    <3>1. RowConsistent(t) BY <2>1 DEF IInv, RowsConsistent
    <3>2. runs[t] \in Nat /\ task[t].attempts \in Nat BY <2>1 DEF IInv, TypeOK, Row
    <3> QED BY <1>1, <2>1, <3>1, <3>2, AttemptsAssumption DEF RowConsistent
  <2>5. task' = [task EXCEPT ![t] = r] /\ runs' = [runs EXCEPT ![t] = runs[t] + 1]
    BY <1>1 DEF BeginDispatch, UpdateRow
  <2> HIDE DEF r
  <2>6. StartsHandler(t, r) BY <1>1, <2>1, <2>3, <2>4, <2>5 DEF StartsHandler, Writes
  <2> QED BY <2>1, <2>3, <2>6 DEF StepEffect
<1>2. CASE ~(Guarded(f) /\ task[f.id].startedAt = NULL)
  <2>1. UNCHANGED <<task, runs>> BY <1>2 DEF BeginDispatch
  <2> QED BY <2>1, TableUnchanged DEF StepEffect, IInv
<1> QED BY <1>1, <1>2

\* The dispatch marker changes neither the status nor the start stamp.
LEMMA MarkDispatchedEffect ==
  ASSUME IInv, NEW f \in fires, MarkDispatched(f) PROVE StepEffect
<1>0. UNCHANGED runs BY DEF MarkDispatched, history
<1>1. CASE UNCHANGED task BY <1>0, <1>1, TableUnchanged DEF StepEffect, IInv
<1>2. CASE Guarded(f) /\ task' = [task EXCEPT ![f.id] = markDispatchedRow(task[f.id])]
  <2> DEFINE r == markDispatchedRow(task[f.id])
  <2>1. f.id \in Task /\ task[f.id] \in Row /\ f.host \in Host /\ 0 \in Nat
    BY FireTypes DEF IInv
  <2>2. r \in Row /\ r.status = task[f.id].status /\ r.startedAt = task[f.id].startedAt
    BY <2>1, RowStatements, RowColumns
  <2> HIDE DEF r
  <2>3. task' = [task EXCEPT ![f.id] = r] BY <1>2 DEF r
  <2>4. KeepsStages BY <1>0, <2>1, <2>2, <2>3 DEF KeepsStages, IInv, TypeOK
  <2> QED BY <2>4 DEF StepEffect
<1> QED BY <1>1, <1>2 DEF MarkDispatched, UpdateRow

\* A guarded write of a fire that is then dropped.
LEMMA OwnerWriteEffect ==
  ASSUME IInv, NEW f \in fires, fires' = fires \ {f}, UNCHANGED runs, Guarded(f),
         NEW r \in Row, task' = [task EXCEPT ![f.id] = r],
         (r.status = "succeeded" /\ f.pc \in Started) \/ r.status = "failed" \/ r.status = "pending",
         r.status = "pending" /\ f.pc \in Started => f.pc = "threw"
  PROVE  StepEffect
<1>1. /\ f.id \in Task /\ task[f.id].status = "running"
      /\ f.host = task[f.id].claimedBy /\ f.epoch = task[f.id].leaseEpoch
      /\ task[f.id].startedAt # NULL <=> f.pc \in Started
      /\ task[f.id].dispatchedAt # NULL => task[f.id].startedAt # NULL
  BY GuardedFire
<1>2. EndsRun(f.id, r) BY <1>1 DEF EndsRun
<1>3. OwnerEnds(f.id, r)
  <2>1. f \in fires \ fires' OBVIOUS
  <2> QED BY <1>1, <1>2, <2>1 DEF OwnerEnds
<1> QED BY <1>1, <1>3 DEF StepEffect, ChangesRow, Writes

\* The terminal write of a fire.
LEMMA RecordOutcomeEffect ==
  ASSUME IInv, NEW f \in fires, RecordOutcome(f) PROVE StepEffect
<1>0. UNCHANGED runs /\ fires' = fires \ {f} /\ f.pc \in {"returned", "threw"}
  BY DEF RecordOutcome, history, Drop
<1>1. CASE Guarded(f)
  <2> DEFINE q == task[f.id]
             d == backoff(f.attempts + 1)
             r == Outcome(f, q)
  <2>1. q \in Row /\ f.host \in Host /\ f.attempts + 1 \in Nat BY FireTypes DEF IInv
  <2>2. d \in Nat BY <2>1, BackoffType
  <2> HIDE DEF q, d
  <2>3. completeTaskRow(q) \in Row /\ completeTaskRow(q).status = "succeeded"
    BY <2>1, <2>2, RowStatements, RowColumns
  <2>4. failTaskTerminalRow(q) \in Row /\ failTaskTerminalRow(q).status = "failed"
    BY <2>1, <2>2, RowStatements, RowColumns
  <2>5. rescheduleTaskRow(q, d) \in Row /\ rescheduleTaskRow(q, d).status = "pending"
    <3>1. rescheduleTaskRow(q, d) \in Row BY <2>1, <2>2, RowStatements
    <3> QED BY <2>1, <2>2, <3>1, RowColumns
  <2>6. \/ r = completeTaskRow(q) \/ r = failTaskTerminalRow(q)
        \/ r = rescheduleTaskRow(q, d) /\ f.pc # "returned"
    BY DEF Outcome, d
  <2>7. task' = [task EXCEPT ![f.id] = r] BY <1>1 DEF RecordOutcome, UpdateRow, q
  <2> HIDE DEF r
  <2>8. r \in Row /\ (r.status = "succeeded" \/ r.status = "failed" \/ r.status = "pending")
        /\ (r.status = "pending" => f.pc = "threw") /\ f.pc \in Started
    BY <1>0, <2>3, <2>4, <2>5, <2>6 DEF Started
  <2> QED BY <1>0, <1>1, <2>7, <2>8, OwnerWriteEffect
<1>2. CASE ~Guarded(f)
  BY <1>0, <1>2, TableUnchanged DEF RecordOutcome, StepEffect, IInv
<1> QED BY <1>1, <1>2

\* A release puts back a row whose handler was never started.
LEMMA ReleaseClaimEffect ==
  ASSUME IInv, NEW f \in fires, ReleaseClaim(f) PROVE StepEffect
<1>0. UNCHANGED runs /\ fires' = fires \ {f} /\ f.pc \notin Started
  BY DEF ReleaseClaim, history, Drop, Started
<1>1. CASE Guarded(f)
  <2> DEFINE r == releaseClaimRow(task[f.id])
  <2>1. task[f.id] \in Row /\ f.host \in Host /\ 0 \in Nat BY FireTypes DEF IInv
  <2>2. r \in Row /\ r.status = "pending" BY <2>1, RowStatements, RowColumns
  <2>3. task' = [task EXCEPT ![f.id] = r] BY <1>1 DEF ReleaseClaim, UpdateRow
  <2> HIDE DEF r
  <2> QED BY <1>0, <1>1, <2>2, <2>3, OwnerWriteEffect
<1>2. CASE ~Guarded(f)
  BY <1>0, <1>2, TableUnchanged DEF ReleaseClaim, StepEffect, IInv
<1> QED BY <1>1, <1>2

\* A sweep ends the run of an expired lease as its own read of the marker says.
LEMMA ReapRowEffect ==
  ASSUME IInv, NEW h \in Host, NEW ref \in reaping[h], ReapRow(h, ref) PROVE StepEffect
<1>0. UNCHANGED runs BY DEF ReapRow, history
<1>1. CASE ReaperGuarded(ref, ref.dispatchedAt)
  <2> DEFINE q == task[ref.id]
             d == backoff(ref.attempts + 1)
             r == Reaped(ref, q)
  <2>1. ref.id \in Task /\ q \in Row /\ ref.attempts \in Nat
    BY DEF IInv, TypeOK, ExpiredRef
  <2>2. d \in Nat BY <2>1, NatSuccessor, BackoffType
  <2>3. q.status = "running" /\ LeaseExpired(q) /\ q.dispatchedAt = ref.dispatchedAt
    BY <1>1 DEF ReaperGuarded
  <2>4. q.dispatchedAt # NULL => q.startedAt # NULL
    BY <2>1, <2>3 DEF IInv, RowsConsistent, RowConsistent
  <2>5. task' = [task EXCEPT ![ref.id] = r] BY <1>1 DEF ReapRow, UpdateRow
  <2>6. \/ r = completeTaskRow(q) /\ q.dispatchedAt # NULL
        \/ r = failTaskTerminalRow(q)
        \/ r = reclaimExpiredRow(q, d) /\ q.dispatchedAt = NULL
    BY <2>3 DEF Reaped
  <2> HIDE DEF q, d
  <2>7. completeTaskRow(q) \in Row /\ completeTaskRow(q).status = "succeeded"
    BY <2>1, <2>2, RowStatements, RowColumns
  <2>8. failTaskTerminalRow(q) \in Row /\ failTaskTerminalRow(q).status = "failed"
    BY <2>1, <2>2, RowStatements, RowColumns
  <2>9. reclaimExpiredRow(q, d) \in Row /\ reclaimExpiredRow(q, d).status = "pending"
    <3>1. reclaimExpiredRow(q, d) \in Row BY <2>1, <2>2, RowStatements
    <3>2. h \in Host OBVIOUS
    <3> QED BY <2>1, <2>2, <3>1, <3>2, RowColumns
  <2> HIDE DEF r
  <2>10. r \in Row BY <2>6, <2>7, <2>8, <2>9
  <2>11. EndsRun(ref.id, r) /\ (r.status = "pending" => q.dispatchedAt = NULL)
    BY <2>3, <2>4, <2>6, <2>7, <2>8, <2>9 DEF EndsRun, q
  <2>12. ChangesRow(ref.id, r)
    BY <1>0, <2>3, <2>5, <2>10, <2>11 DEF ChangesRow, ReaperEnds, Writes, q
  <2> QED BY <2>1, <2>10, <2>12 DEF StepEffect
<1>2. CASE ~ReaperGuarded(ref, ref.dispatchedAt)
  BY <1>0, <1>2, TableUnchanged DEF ReapRow, StepEffect, IInv
<1> QED BY <1>1, <1>2

\* Every step of the system has one of these effects on the table.
LEMMA EveryStepEffect == IInv /\ [Next]_vars => StepEffect
<1> SUFFICES ASSUME IInv, [Next]_vars PROVE StepEffect OBVIOUS
<1>0. TypeOK /\ 0 \in Nat BY DEF IInv
<1>1. CASE UNCHANGED vars BY <1>0, <1>1, TableUnchanged DEF vars, StepEffect
<1>2. ASSUME NEW h \in Host, NEW t \in Task, ClaimDueTasks(h, t) PROVE StepEffect
  <2> DEFINE r == claimRow(task[t], h)
  <2>1. task[t] \in Row /\ task[t].status = "pending" BY <1>0, <1>2 DEF TypeOK, ClaimDueTasks, Claimable
  <2>2. r \in Row /\ r.status = "running" /\ r.startedAt = task[t].startedAt
    BY <1>0, <2>1, RowStatements, RowColumns
  <2>3. task[t].startedAt = NULL BY <2>1 DEF IInv, RowsConsistent, RowConsistent
  <2>4. task' = [task EXCEPT ![t] = r] /\ UNCHANGED runs
    BY <1>2 DEF ClaimDueTasks, UpdateRow, history
  <2> HIDE DEF r
  <2>5. ChangesRow(t, r) BY <2>1, <2>2, <2>3, <2>4 DEF ChangesRow, Writes, Claims
  <2> QED BY <2>2, <2>5 DEF StepEffect
<1>3. ASSUME NEW t \in Task, UNCHANGED runs, task[t].status = "pending",
             task' = [task EXCEPT ![t] = [task[t] EXCEPT !.status = "missed"]]
      PROVE  StepEffect
  <2> DEFINE r == [task[t] EXCEPT !.status = "missed"]
  <2>1. task[t] \in Row BY <1>0 DEF TypeOK
  <2>2. r \in Row /\ r.status = "missed" BY <2>1 DEF Row, Status, Terminal
  <2> HIDE DEF r
  <2>3. task' = [task EXCEPT ![t] = r] BY <1>3 DEF r
  <2>4. ChangesRow(t, r) BY <1>3, <2>2, <2>3 DEF ChangesRow, Writes, Misses
  <2> QED BY <2>2, <2>4 DEF StepEffect
<1>4. ASSUME NEW h \in Host, NEW t \in Task,
             RetireMissedPending(h, t) \/ FindExpiredLease(h, t)
      PROVE  StepEffect
  <2>1. CASE RetireMissedPending(h, t)
    BY <1>3, <2>1 DEF RetireMissedPending, UpdateRow, history
  <2>2. CASE FindExpiredLease(h, t)
    BY <1>0, <2>2, TableUnchanged DEF FindExpiredLease, history, StepEffect
  <2> QED BY <1>4, <2>1, <2>2
<1>5. ASSUME NEW f \in fires, FireStep(f) PROVE StepEffect
  <2>1. CASE BeginDispatch(f) BY <2>1, BeginDispatchEffect
  <2>2. CASE MarkDispatched(f) BY <2>2, MarkDispatchedEffect
  <2>3. CASE RecordOutcome(f) BY <2>3, RecordOutcomeEffect
  <2>4. CASE ReleaseClaim(f) BY <2>4, ReleaseClaimEffect
  <2>5. ASSUME UNCHANGED <<task, runs>> PROVE StepEffect
    BY <1>0, <2>5, TableUnchanged DEF StepEffect
  <2> QED
    BY <1>5, <2>1, <2>2, <2>3, <2>4, <2>5 DEF FireStep, ScheduleClaimed, HandBackClaim,
       FireTimer, SkipNoHandler, ReportDispatched, HandlerReturns, HandlerThrows, FireError, history
<1>6. ASSUME NEW h \in Host, NEW ref \in reaping[h], ReapRow(h, ref) \/ SkipReapRow(h, ref)
      PROVE  StepEffect
  <2>1. CASE ReapRow(h, ref) BY <2>1, ReapRowEffect
  <2>2. CASE SkipReapRow(h, ref)
    BY <1>0, <2>2, TableUnchanged DEF SkipReapRow, history, StepEffect
  <2> QED BY <1>6, <2>1, <2>2
<1>7. ASSUME NEW h \in Host, StopLoops(h) \/ StopExecutor(h) \/ Exit(h) \/ Start(h)
      PROVE  StepEffect
  <2>1. UNCHANGED <<task, runs>> BY <1>7 DEF StopLoops, StopExecutor, Exit, Start, history
  <2> QED BY <1>0, <2>1, TableUnchanged DEF StepEffect
<1>8. ASSUME NEW t \in Task, DeleteRow(t) \/ UpdateToMissed(t) PROVE StepEffect
  <2>1. CASE DeleteRow(t)
    <3>1. DeletedRow.status = "deleted" BY DEF DeletedRow, NewRow
    <3>2. DeletedRow \in Row
      BY NullAssumption DEF DeletedRow, NewRow, Row, Status, Stamp
    <3>3. task[t].status # "deleted" /\ task' = [task EXCEPT ![t] = DeletedRow] /\ UNCHANGED runs
      BY <2>1 DEF DeleteRow, UpdateRow, history
    <3>4. ChangesRow(t, DeletedRow) BY <3>1, <3>2, <3>3 DEF ChangesRow, Writes, Deletes
    <3> QED BY <3>2, <3>4 DEF StepEffect
  <2>2. CASE UpdateToMissed(t) BY <1>3, <2>2 DEF UpdateToMissed, UpdateRow, history
  <2> QED BY <1>8, <2>1, <2>2
<1>9. CASE Tick
  <2>1. task' \in [Task -> Row] BY <1>0, <1>9, TypeStep DEF TypeOK, Next
  <2>2. ASSUME NEW t \in Task
        PROVE  task'[t].status = task[t].status /\ task'[t].startedAt = task[t].startedAt
    BY <1>0, <1>9 DEF TypeOK, Tick, Row
  <2>3. UNCHANGED runs BY <1>9 DEF Tick, history
  <2> QED BY <2>1, <2>2, <2>3 DEF StepEffect, KeepsStages
<1> QED BY <1>1, <1>2, <1>4, <1>5, <1>6, <1>7, <1>8, <1>9 DEF Next

-----------------------------------------------------------------------------
\* Action properties.

\* A live lease is ended by its holder only: for any number of mains, no sweep that read
\* the row earlier ends a run whose lease beginDispatch has refreshed since.
THEOREM LeaseRespected == Spec => LiveLeaseRespected
<1> DEFINE P(t) ==
      /\ task[t].status = "running" /\ ~LeaseExpired(task[t])
      /\ task'[t].status \notin {"running", "deleted"}
      => \E f \in fires \ fires' :
           f.id = t /\ f.host = task[t].claimedBy /\ f.epoch = task[t].leaseEpoch
<1>1. ASSUME IInv, [Next]_vars, NEW t \in Task PROVE P(t)
  <2> SUFFICES ASSUME task[t].status = "running", ~LeaseExpired(task[t]),
                      task'[t].status \notin {"running", "deleted"}
               PROVE  \E f \in fires \ fires' :
                        f.id = t /\ f.host = task[t].claimedBy /\ f.epoch = task[t].leaseEpoch
    OBVIOUS
  <2>1. ~KeepsStages BY DEF KeepsStages
  <2>2. PICK u \in Task, r \in Row : ChangesRow(u, r) \/ StartsHandler(u, r)
    BY <1>1, <2>1, EveryStepEffect DEF StepEffect
  <2>3. task' = [task EXCEPT ![u] = r] /\ task \in [Task -> Row]
    BY <1>1, <2>2 DEF ChangesRow, StartsHandler, Writes, IInv, TypeOK
  <2>4. u = t /\ task'[t] = r BY <2>3
  <2>5. OwnerEnds(t, r)
    BY <2>2, <2>4 DEF ChangesRow, StartsHandler, Claims, ReaperEnds, Misses, Deletes
  <2> QED BY <2>5 DEF OwnerEnds
<1>2. ASSUME IInv, [Next]_vars PROVE [\A t \in Task : P(t)]_vars BY <1>1, <1>2
<1> QED BY <1>2, Invariance, PTL DEF Spec, LiveLeaseRespected

\* No reaper of any main puts back to pending an occurrence whose dispatch marker is on
\* record; only the fire whose handler threw after it does.
THEOREM NoRedelivery == Spec => ReaperNeverRedelivers
<1> DEFINE P(t) ==
      /\ task[t].status = "running" /\ task[t].dispatchedAt # NULL
      /\ task'[t].status = "pending"
      => \E f \in fires \ fires' : f.id = t /\ f.epoch = task[t].leaseEpoch /\ f.pc = "threw"
<1>1. ASSUME IInv, [Next]_vars, NEW t \in Task PROVE P(t)
  <2> SUFFICES ASSUME task[t].status = "running", task[t].dispatchedAt # NULL,
                      task'[t].status = "pending"
               PROVE  \E f \in fires \ fires' :
                        f.id = t /\ f.epoch = task[t].leaseEpoch /\ f.pc = "threw"
    OBVIOUS
  <2>1. ~KeepsStages BY DEF KeepsStages
  <2>2. PICK u \in Task, r \in Row : ChangesRow(u, r) \/ StartsHandler(u, r)
    BY <1>1, <2>1, EveryStepEffect DEF StepEffect
  <2>3. task' = [task EXCEPT ![u] = r] /\ task \in [Task -> Row]
    BY <1>1, <2>2 DEF ChangesRow, StartsHandler, Writes, IInv, TypeOK
  <2>4. u = t /\ task'[t] = r BY <2>3
  <2>5. OwnerEnds(t, r)
    BY <2>2, <2>4 DEF ChangesRow, StartsHandler, Claims, ReaperEnds, Misses, Deletes
  <2> QED BY <2>4, <2>5 DEF OwnerEnds
<1>2. ASSUME IInv, [Next]_vars PROVE [\A t \in Task : P(t)]_vars BY <1>1, <1>2
<1> QED BY <1>2, Invariance, PTL DEF Spec, ReaperNeverRedelivers

-----------------------------------------------------------------------------
\* Refinement.

\* The stage of one row: stageBar, row by row.
stageOf(r) ==
  CASE r.status = "pending" -> "waiting"
    [] r.status = "deleted" -> "gone"
    [] r.status = "running" -> IF r.startedAt # NULL THEN "handed" ELSE "held"
    [] OTHER -> r.status

\* The mapping is the stage of each row.
LEMMA StageBarByRow == stageBar = [t \in Task |-> stageOf(task[t])]
BY DEF stageBar, stageOf

\* The same after the step.
LEMMA StageBarByRowAfter == stageBar' = [t \in Task |-> stageOf(task'[t])]
BY DEF stageBar, stageOf

\* A row that is written changes its own stage and no other.
LEMMA StageOfWrite ==
  ASSUME TypeOK, NEW t \in Task, NEW r \in Row, Writes(t, r)
  PROVE  /\ stageBar' = [stageBar EXCEPT ![t] = stageOf(r)]
         /\ stageBar[t] = stageOf(task[t])
<1>1. task \in [Task -> Row] /\ task' = [task EXCEPT ![t] = r] BY DEF TypeOK, Writes
<1>2. \A u \in Task : task'[u] = IF u = t THEN r ELSE task[u] BY <1>1
<1>3. stageBar' = [u \in Task |-> IF u = t THEN stageOf(r) ELSE stageOf(task[u])]
  BY <1>2, StageBarByRowAfter
<1> QED BY <1>3, StageBarByRow

\* The initial table is the initial life of every occurrence.
LEMMA LifeInitially == Init => Life!LifeInit
<1> SUFFICES ASSUME Init PROVE Life!LifeInit OBVIOUS
<1>1. \A t \in Task : task[t].status = "pending" BY DEF Init, NewRow
<1>2. stageBar = [t \in Task |-> "waiting"] BY <1>1, StageBarByRow DEF stageOf
<1> QED BY <1>2 DEF Init, Life!LifeInit

\* Every step of the scheduler is a step of some occurrence's life, or none.
LEMMA LifeStepwise == IInv /\ [Next]_vars => [Life!LifeNext]_(Life!lifeVars)
<1> SUFFICES ASSUME IInv, [Next]_vars PROVE Life!LifeNext \/ UNCHANGED Life!lifeVars
  OBVIOUS
<1>0. TypeOK BY DEF IInv
<1>1. CASE KeepsStages
  <2>1. \A t \in Task : stageOf(task'[t]) = stageOf(task[t])
    BY <1>1 DEF KeepsStages, stageOf
  <2>2. stageBar' = stageBar BY <2>1, StageBarByRow, StageBarByRowAfter
  <2> QED BY <1>1, <2>2 DEF KeepsStages, Life!lifeVars
<1>2. ASSUME NEW t \in Task, NEW r \in Row, ChangesRow(t, r) PROVE Life!LifeStep(t)
  <2>1. /\ stageBar' = [stageBar EXCEPT ![t] = stageOf(r)]
        /\ stageBar[t] = stageOf(task[t]) /\ UNCHANGED runs
    BY <1>0, <1>2, StageOfWrite DEF ChangesRow
  <2>2. CASE Claims(t, r)
    <3>1. stageOf(task[t]) = "waiting" /\ stageOf(r) = "held" BY <2>2 DEF Claims, stageOf
    <3> QED BY <2>1, <3>1 DEF Life!LifeStep, Life!Hold, Life!MoveStage
  <2>3. CASE EndsRun(t, r)
    <3>1. stageOf(task[t]) \in {"held", "handed"} BY <2>3 DEF EndsRun, stageOf
    <3>2. CASE r.status = "succeeded" /\ task[t].startedAt # NULL
      <4>1. stageOf(task[t]) = "handed" /\ stageOf(r) = "succeeded"
        BY <2>3, <3>2 DEF EndsRun, stageOf
      <4> QED BY <2>1, <4>1 DEF Life!LifeStep, Life!Succeed, Life!MoveStage
    <3>3. CASE r.status = "failed"
      <4>1. stageOf(r) = "failed" BY <3>3 DEF stageOf
      <4> QED BY <2>1, <3>1, <4>1 DEF Life!LifeStep, Life!Fail, Life!MoveStage
    <3>4. CASE r.status = "pending"
      <4>1. stageOf(r) = "waiting" BY <3>4 DEF stageOf
      <4> QED BY <2>1, <3>1, <4>1 DEF Life!LifeStep, Life!PutBack, Life!MoveStage
    <3> QED BY <2>3, <3>2, <3>3, <3>4 DEF EndsRun
  <2>4. CASE Misses(t, r)
    <3>1. stageOf(task[t]) = "waiting" /\ stageOf(r) = "missed" BY <2>4 DEF Misses, stageOf
    <3> QED BY <2>1, <3>1 DEF Life!LifeStep, Life!Miss, Life!MoveStage
  <2>5. CASE Deletes(t, r)
    <3>1. task[t].status \in Status \ {"deleted"} BY <1>0, <2>5 DEF TypeOK, Row, Deletes
    <3>2. stageOf(task[t]) \in {"waiting", "held", "handed", "succeeded", "failed", "missed"}
      BY <3>1 DEF stageOf, Status, Terminal
    <3>3. stageOf(r) = "gone" BY <2>5 DEF Deletes, stageOf
    <3> QED BY <2>1, <3>2, <3>3 DEF Life!LifeStep, Life!Remove, Life!MoveStage
  <2> QED BY <1>2, <2>2, <2>3, <2>4, <2>5 DEF ChangesRow, OwnerEnds, ReaperEnds
<1>3. ASSUME NEW t \in Task, NEW r \in Row, StartsHandler(t, r) PROVE Life!LifeStep(t)
  <2>1. /\ stageBar' = [stageBar EXCEPT ![t] = stageOf(r)]
        /\ stageBar[t] = stageOf(task[t])
    BY <1>0, <1>3, StageOfWrite DEF StartsHandler
  <2>2. stageOf(task[t]) = "held" /\ stageOf(r) = "handed" BY <1>3 DEF StartsHandler, stageOf
  <2> QED BY <1>3, <2>1, <2>2 DEF StartsHandler, Life!LifeStep, Life!Hand
<1> QED BY <1>1, <1>2, <1>3, EveryStepEffect DEF StepEffect, Life!LifeNext

\* The scheduler's table implements the life of an occurrence, for any number of mains,
\* tasks and attempts and whatever crashes, stops or times out.
THEOREM Refinement == Spec => ImplementsLife
BY LifeInitially, LifeStepwise, Invariance, PTL DEF Spec, ImplementsLife, Life!LifeSpec
=============================================================================
