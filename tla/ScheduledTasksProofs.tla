------------------------ MODULE ScheduledTasksProofs ------------------------
(***************************************************************************)
(* Proofs about ScheduledTasks, for any number of mains, tasks, attempts   *)
(* and disturbances: its type invariant, the inductive invariant IInv, and *)
(* the safety invariants and the action property that follow from it.      *)
(***************************************************************************)
EXTENDS ScheduledTasks, FiniteSetTheorems, TLAPS

-----------------------------------------------------------------------------
\* Operators.

\* Counters stay natural numbers (cited where a leaf mixes them with records).
LEMMA NatSuccessor ==
  ASSUME NEW n \in Nat PROVE n + 1 \in Nat
OBVIOUS

\* A power of two is a natural number: it counts the subsets of 1..n.
LEMMA PowerOfTwo ==
  ASSUME NEW n \in Nat PROVE 2^n \in Nat
<1>1. IsFiniteSet(1..n) /\ Cardinality(1..n) = n
  BY FS_Interval
<1>2. IsFiniteSet(SUBSET (1..n)) /\ Cardinality(SUBSET (1..n)) = 2^n
  BY <1>1, FS_SUBSET
<1> QED BY <1>2, FS_CardinalityType

\* The retry delay the executor and the reaper share is a duration.
LEMMA BackoffType ==
  ASSUME NEW n \in Nat PROVE backoff(n) \in Nat
<1>1. CASE n < 1 BY <1>1 DEF backoff
<1>2. CASE ~(n < 1)
  <2>1. n - 1 \in Nat BY <1>2
  <2>2. 2^(n - 1) \in Nat BY <2>1, PowerOfTwo
  <2> DEFINE raw == BaseBackoff * 2^(n - 1)
  <2>3. raw \in Nat BY <2>2, TimeAssumption
  <2>4. LesserOf(raw, MaxBackoff) \in Nat
    <3> HIDE DEF raw
    <3> QED BY <2>3, TimeAssumption DEF LesserOf
  <2> QED BY <1>2, <2>4 DEF backoff
<1> QED BY <1>1, <1>2

\* Every statement on a row leaves a row.
LEMMA RowStatements ==
  ASSUME NEW r \in Row, NEW h \in Host, NEW n \in Nat
  PROVE  /\ claimRow(r, h) \in Row
         /\ beginDispatchRow(r) \in Row
         /\ markDispatchedRow(r) \in Row
         /\ completeTaskRow(r) \in Row
         /\ failTaskTerminalRow(r) \in Row
         /\ releaseClaimRow(r) \in Row
         /\ rescheduleTaskRow(r, n) \in Row
         /\ reclaimExpiredRow(r, n) \in Row
         /\ [r EXCEPT !.status = "missed"] \in Row
         /\ DeletedRow \in Row
<1> USE DEF Stamp, Status, Terminal
<1> DEFINE a == r.attempts + 1
           e == r.leaseEpoch + 1
<1>1. a \in Nat /\ e \in Nat BY DEF Row
<1>2. LeaseTicks \in Int BY TimeAssumption
<1> HIDE DEF a, e
<1>3. claimRow(r, h) \in Row
  <2>1. [r EXCEPT !.status = "running", !.claimedBy = h, !.leaseLeft = LeaseTicks,
                  !.leaseEpoch = e] \in Row
    BY <1>1, <1>2 DEF Row
  <2> QED BY <2>1 DEF claimRow, e
<1>4. beginDispatchRow(r) \in Row BY <1>2 DEF beginDispatchRow, Row
<1>5. markDispatchedRow(r) \in Row BY DEF markDispatchedRow, Row
<1>6. completeTaskRow(r) \in Row BY DEF completeTaskRow, Row
<1>7. failTaskTerminalRow(r) \in Row
  <2>1. [r EXCEPT !.status = "failed", !.attempts = a] \in Row BY <1>1 DEF Row
  <2> QED BY <2>1 DEF failTaskTerminalRow, a
<1>8. releaseClaimRow(r) \in Row BY DEF releaseClaimRow, Row
<1>9. rescheduleTaskRow(r, n) \in Row
  <2>1. [releaseClaimRow(r) EXCEPT !.runIn = n, !.attempts = a] \in Row BY <1>1, <1>8 DEF Row
  <2> QED BY <2>1 DEF rescheduleTaskRow, a
<1>10. reclaimExpiredRow(r, n) \in Row
  <2>1. [rescheduleTaskRow(r, n) EXCEPT !.leaseEpoch = e] \in Row BY <1>1, <1>9 DEF Row
  <2> QED BY <2>1 DEF reclaimExpiredRow, e
<1>11. [r EXCEPT !.status = "missed"] \in Row BY DEF Row
<1>12. DeletedRow \in Row BY DEF DeletedRow, NewRow, Row
<1> QED BY <1>3, <1>4, <1>5, <1>6, <1>7, <1>8, <1>9, <1>10, <1>11, <1>12

-----------------------------------------------------------------------------
\* Types.

\* Initially every variable has its type.
LEMMA InitType == Init => TypeOK
<1> SUFFICES ASSUME Init PROVE TypeOK OBVIOUS
<1>1. task \in [Task -> Row]
  <2>1. PICK runIn \in [Task -> 0..MaxRunIn], bounded \in [Task -> BOOLEAN] :
          task = [t \in Task |->
                    NewRow(runIn[t], IF bounded[t] THEN runIn[t] + MisfireGrace ELSE NULL)]
    BY Zenon DEF Init
  <2>2. ASSUME NEW i \in Nat, NEW m \in Nat \cup {NULL} PROVE NewRow(i, m) \in Row
    BY DEF NewRow, Row, Stamp, Status, Terminal
  <2>3. ASSUME NEW t \in Task
        PROVE  /\ runIn[t] \in Nat
               /\ (IF bounded[t] THEN runIn[t] + MisfireGrace ELSE NULL) \in Nat \cup {NULL}
    <3>1. runIn[t] \in 0..MaxRunIn OBVIOUS
    <3>2. runIn[t] \in Nat /\ runIn[t] + MisfireGrace \in Nat BY <3>1, TimeAssumption
    <3> QED BY <3>2
  <2> QED BY <2>1, <2>2, <2>3
<1>2. /\ fires \subseteq Fire
      /\ tracked \in [Host -> [Task -> Fire \cup {NULL}]]
      /\ reaping \in [Host -> SUBSET ExpiredRef]
      /\ mode \in [Host -> Mode]
  BY DEF Init, Mode
<1>3. /\ budget \in Nat
      /\ runs \in [Task -> Nat]
      /\ lastRun \in [Task -> Nat]
      /\ effects \in [Task -> SUBSET Nat]
  BY BoundAssumption DEF Init
<1> QED BY <1>1, <1>2, <1>3 DEF TypeOK

\* The budget stays a natural number.
LEMMA BudgetType ==
  ASSUME TypeOK, Disturb \/ Calm PROVE budget' \in Nat
BY DEF TypeOK, Disturb, Calm

\* A fire that moves on stays a fire.
LEMMA FireMoves ==
  ASSUME NEW f \in Fire, NEW p \in PreStart \cup Started, NEW m \in {"none", "sent", "done"}
  PROVE  [f EXCEPT !.pc = p] \in Fire /\ [f EXCEPT !.mark = m] \in Fire
         /\ [f EXCEPT !.pc = p, !.mark = m] \in Fire
BY DEF Fire

\* Every step keeps every variable in its type.
LEMMA TypeStep == TypeOK /\ [Next]_vars => TypeOK'
<1> SUFFICES ASSUME TypeOK, [Next]_vars PROVE TypeOK' OBVIOUS
<1> USE DEF TypeOK
<1>1. CASE UNCHANGED vars BY <1>1 DEF vars
<1>2. ASSUME NEW h \in Host, NEW t \in Task, ClaimDueTasks(h, t) PROVE TypeOK'
  <2>1. claimRow(task[t], h) \in Row BY RowStatements
  <2>2. claimRow(task[t], h).leaseEpoch \in Nat /\ task[t].attempts \in Nat
    BY <2>1 DEF Row
  <2>3. [host |-> h, id |-> t, epoch |-> claimRow(task[t], h).leaseEpoch,
         attempts |-> task[t].attempts, pc |-> "claimed", mark |-> "none"] \in Fire
    BY <2>2 DEF Fire, PreStart
  <2> QED BY <1>2, <2>1, <2>3, BudgetType DEF ClaimDueTasks, UpdateRow, history
<1>3. ASSUME NEW h \in Host, NEW t \in Task, RetireMissedPending(h, t) PROVE TypeOK'
  BY <1>3, RowStatements, BudgetType DEF RetireMissedPending, UpdateRow, memory, history
<1>4. ASSUME NEW h \in Host, NEW t \in Task, FindExpiredLease(h, t) PROVE TypeOK'
  <2>1. [id |-> t, claimedEpoch |-> task[t].leaseEpoch, attempts |-> task[t].attempts,
         dispatchedAt |-> task[t].dispatchedAt] \in ExpiredRef
    BY DEF Row, ExpiredRef
  <2> QED BY <1>4, <2>1, BudgetType DEF FindExpiredLease, history
<1>5. ASSUME NEW f \in fires, FireStep(f) PROVE TypeOK'
  <2> USE FireMoves DEF Move, Drop, UpdateRow, history
  <2>1. f \in Fire /\ f.host \in Host /\ f.id \in Task /\ f.epoch \in Nat /\ f.attempts \in Nat
    BY DEF Fire
  <2>2. task[f.id] \in Row BY <2>1
  <2>3. \A p \in PreStart \cup Started : [f EXCEPT !.pc = p] \in Fire BY <2>1
  <2>4. CASE ScheduleClaimed(f)
    <3>1. [f EXCEPT !.pc = "armed"] \in Fire BY <2>3 DEF PreStart
    <3> QED BY <2>4, <2>1, <3>1, BudgetType DEF ScheduleClaimed
  <2>5. CASE HandBackClaim(f)
    <3>1. [f EXCEPT !.pc = "releasing"] \in Fire BY <2>3 DEF PreStart
    <3> QED BY <2>5, <3>1, BudgetType DEF HandBackClaim
  <2>6. CASE FireTimer(f)
    <3>1. [f EXCEPT !.pc = "firing"] \in Fire BY <2>3 DEF PreStart
    <3> QED BY <2>6, <2>1, <3>1, BudgetType DEF FireTimer
  <2>7. CASE SkipNoHandler(f)
    <3>1. [f EXCEPT !.pc = "releasing"] \in Fire BY <2>3 DEF PreStart
    <3> QED BY <2>7, <3>1, BudgetType DEF SkipNoHandler
  <2>8. CASE BeginDispatch(f)
    <3>1. [f EXCEPT !.pc = "handling"] \in Fire BY <2>3 DEF Started
    <3>2. beginDispatchRow(task[f.id]) \in Row BY <2>1, <2>2, RowStatements
    <3>3. runs[f.id] + 1 \in Nat BY <2>1, NatSuccessor, Zenon
    <3> QED BY <2>8, <2>1, <3>1, <3>2, <3>3, BudgetType DEF BeginDispatch
  <2>9. CASE ReportDispatched(f)
    <3>1. [f EXCEPT !.mark = "sent"] \in Fire BY <2>1 DEF Fire
    <3> QED BY <2>9, <2>1, <3>1, BudgetType DEF ReportDispatched
  <2>10. CASE MarkDispatched(f)
    <3>1. [f EXCEPT !.mark = "done"] \in Fire BY <2>1 DEF Fire
    <3>2. markDispatchedRow(task[f.id]) \in Row BY <2>1, <2>2, RowStatements
    <3> QED BY <2>10, <2>1, <3>1, <3>2, BudgetType DEF MarkDispatched
  <2>11. CASE HandlerReturns(f)
    <3>1. [f EXCEPT !.pc = "returned", !.mark = IF f.mark = "none" THEN "sent" ELSE f.mark] \in Fire
      BY <2>1 DEF Fire, Started
    <3> QED BY <2>11, <2>1, <3>1, BudgetType DEF HandlerReturns
  <2>12. CASE HandlerThrows(f)
    <3>1. [f EXCEPT !.pc = "threw"] \in Fire BY <2>3 DEF Started
    <3> QED BY <2>12, <3>1, BudgetType DEF HandlerThrows
  <2>13. CASE RecordOutcome(f)
    <3>1. f.attempts + 1 \in Nat BY <2>1, NatSuccessor, Zenon
    <3>2. backoff(f.attempts + 1) \in Nat BY <3>1, BackoffType
    <3>3. Outcome(f, task[f.id]) \in Row BY <2>1, <2>2, <3>2, RowStatements DEF Outcome
    <3> QED BY <2>13, <2>1, <3>3, BudgetType DEF RecordOutcome
  <2>14. CASE ReleaseClaim(f)
    <3>1. releaseClaimRow(task[f.id]) \in Row BY <2>1, <2>2, RowStatements
    <3> QED BY <2>14, <2>1, <3>1, BudgetType DEF ReleaseClaim
  <2>15. CASE FireError(f) BY <2>15, BudgetType DEF FireError
  <2> QED BY <1>5, <2>4, <2>5, <2>6, <2>7, <2>8, <2>9, <2>10, <2>11, <2>12, <2>13, <2>14, <2>15
          DEF FireStep
<1>6. ASSUME NEW h \in Host, NEW ref \in reaping[h], ReapRow(h, ref) PROVE TypeOK'
  <2>1. ref.id \in Task /\ ref.attempts \in Nat BY DEF ExpiredRef
  <2>2. ref.attempts + 1 \in Nat BY <2>1
  <2>3. backoff(ref.attempts + 1) \in Nat BY <2>2, BackoffType
  <2>4. Reaped(ref, task[ref.id]) \in Row BY <2>1, <2>3, RowStatements DEF Reaped
  <2> QED BY <1>6, <2>1, <2>4, BudgetType DEF ReapRow, UpdateRow, history
<1>7. ASSUME NEW h \in Host, NEW ref \in reaping[h], SkipReapRow(h, ref) PROVE TypeOK'
  BY <1>7, BudgetType DEF SkipReapRow, history
<1>8. ASSUME NEW h \in Host, StopLoops(h) PROVE TypeOK'
  BY <1>8, BudgetType DEF StopLoops, history, Mode
<1>9. ASSUME NEW h \in Host, StopExecutor(h) PROVE TypeOK'
  <2>1. TrackedClaims(h) \subseteq Fire BY DEF TrackedClaims
  <2>2. \A f \in TrackedClaims(h) : [f EXCEPT !.pc = "releasing"] \in Fire
    BY <2>1, FireMoves DEF PreStart
  <2>3. fires' \subseteq Fire BY <1>9, <2>2 DEF StopExecutor, Armed
  <2> QED BY <1>9, <2>3, BudgetType DEF StopExecutor, history, Mode
<1>10. ASSUME NEW h \in Host, Exit(h) PROVE TypeOK'
  BY <1>10, BudgetType DEF Exit, history, Mode
<1>11. ASSUME NEW h \in Host, Start(h) PROVE TypeOK'
  BY <1>11, BudgetType DEF Start, history, Mode
<1>12. ASSUME NEW t \in Task, DeleteRow(t) PROVE TypeOK'
  <2>1. DeletedRow \in Row BY DEF DeletedRow, NewRow, Row, Stamp, Status, Terminal
  <2> QED BY <1>12, <2>1, BudgetType DEF DeleteRow, UpdateRow, memory, history
<1>13. ASSUME NEW t \in Task, UpdateToMissed(t) PROVE TypeOK'
  <2>1. [task[t] EXCEPT !.status = "missed"] \in Row BY DEF Row, Status, Terminal
  <2> QED BY <1>13, <2>1, BudgetType DEF UpdateToMissed, UpdateRow, memory, history
<1>14. CASE Tick
  <2>1. \A n \in Nat \cup {NULL} : CountDown(n, 0) \in Nat \cup {NULL}
    BY NullAssumption DEF CountDown
  <2>2. \A n \in Int \cup {NULL} : CountDown(n, -1) \in Int \cup {NULL}
    BY NullAssumption DEF CountDown
  <2>3. \A n \in Nat : CountDown(n, 0) \in Nat
    BY NullAssumption DEF CountDown
  <2>4. ASSUME NEW t \in Task
        PROVE [task[t] EXCEPT !.runIn = CountDown(task[t].runIn, 0),
                              !.missIn = CountDown(task[t].missIn, 0),
                              !.leaseLeft = CountDown(task[t].leaseLeft, -1)] \in Row
    BY <2>1, <2>2, <2>3 DEF Row
  <2> QED BY <1>14, <2>4, BudgetType DEF Tick, memory, history
<1> QED
  BY <1>1, <1>2, <1>3, <1>4, <1>5, <1>6, <1>7, <1>8, <1>9, <1>10, <1>11, <1>12, <1>13, <1>14
     DEF Next

\* Every reachable state is well typed, whatever the constants.
THEOREM TypeCorrect == Spec => []TypeOK
BY InitType, TypeStep, PTL DEF Spec

-----------------------------------------------------------------------------
\* The inductive invariant.

\* Replacing a fire by its next stage keeps owners unique per epoch.
LEMMA MoveKeepsOwners ==
  ASSUME OneOwnerPerEpoch, NEW f \in fires, NEW g, g.id = f.id, g.epoch = f.epoch,
         fires' = (fires \ {f}) \cup {g}
  PROVE  OneOwnerPerEpoch'
BY DEF OneOwnerPerEpoch

\* So does dropping any of them.
LEMMA DropKeepsOwners ==
  ASSUME OneOwnerPerEpoch, fires' \subseteq fires
  PROVE  OneOwnerPerEpoch'
BY DEF OneOwnerPerEpoch

\* Changing or dropping a fire that is not armed leaves claimedTaskById right.
LEMMA UnarmedKeepsTracked ==
  ASSUME TrackedIsArmed, UNCHANGED tracked,
         \A e \in fires : e.pc = "armed" => e \in fires'
  PROVE  TrackedIsArmed'
BY DEF TrackedIsArmed

\* A step of the table that spares swept rows' epochs and attempts.
LEMMA RefsKept ==
  ASSUME TypeOK, RefsConsistent, reaping' \in [Host -> SUBSET ExpiredRef],
         \A h \in Host : reaping'[h] \subseteq reaping[h],
         \A t \in Task : \/ task'[t] = task[t]
                        \/ task'[t].status = "deleted"
                        \/ /\ task[t].status # "deleted"
                           /\ task'[t].leaseEpoch \in Nat
                           /\ task'[t].leaseEpoch >= task[t].leaseEpoch
                           /\ \/ task'[t].status # "running"
                              \/ task'[t].leaseEpoch > task[t].leaseEpoch
                              \/ task[t].status = "running" /\ task'[t].attempts = task[t].attempts
  PROVE  RefsConsistent'
<1> SUFFICES ASSUME NEW h \in Host, NEW ref \in reaping'[h], task'[ref.id].status # "deleted"
             PROVE  RefMatchesRow(ref, task'[ref.id])
  BY DEF RefsConsistent
<1>1. ref \in reaping[h] /\ ref.id \in Task /\ ref.claimedEpoch \in Nat
  BY DEF TypeOK, ExpiredRef
<1>2. task[ref.id].leaseEpoch \in Nat BY <1>1 DEF TypeOK, Row
<1>3. task[ref.id].status # "deleted" => RefMatchesRow(ref, task[ref.id])
  BY <1>1 DEF RefsConsistent
<1> QED BY <1>1, <1>2, <1>3 DEF RefMatchesRow

\* What each statement leaves in the columns the invariant reads.
LEMMA RowColumns ==
  ASSUME NEW r \in Row, NEW h \in Host, NEW n \in Nat
  PROVE  /\ LET c == claimRow(r, h) IN
              /\ c.status = "running" /\ c.claimedBy = h /\ c.leaseLeft # NULL
              /\ c.leaseEpoch = r.leaseEpoch + 1 /\ c.attempts = r.attempts
              /\ c.startedAt = r.startedAt /\ c.dispatchedAt = r.dispatchedAt
         /\ LET c == beginDispatchRow(r) IN
              /\ c.status = r.status /\ c.claimedBy = r.claimedBy /\ c.leaseLeft # NULL
              /\ c.leaseEpoch = r.leaseEpoch /\ c.attempts = r.attempts
              /\ c.startedAt # NULL /\ c.dispatchedAt = r.dispatchedAt
         /\ LET c == markDispatchedRow(r) IN
              /\ c.status = r.status /\ c.claimedBy = r.claimedBy /\ c.leaseLeft = r.leaseLeft
              /\ c.leaseEpoch = r.leaseEpoch /\ c.attempts = r.attempts
              /\ c.startedAt = r.startedAt /\ c.dispatchedAt # NULL
         /\ LET c == completeTaskRow(r) IN
              /\ c.status = "succeeded"
              /\ c.leaseEpoch = r.leaseEpoch /\ c.startedAt = r.startedAt
         /\ LET c == failTaskTerminalRow(r) IN
              /\ c.status = "failed"
              /\ c.leaseEpoch = r.leaseEpoch /\ c.dispatchedAt = r.dispatchedAt
         /\ LET c == releaseClaimRow(r) IN
              /\ c.status = "pending" /\ c.leaseEpoch = r.leaseEpoch /\ c.attempts = r.attempts
              /\ c.startedAt = NULL /\ c.dispatchedAt = NULL
         /\ LET c == rescheduleTaskRow(r, n) IN
              /\ c.status = "pending" /\ c.leaseEpoch = r.leaseEpoch
              /\ c.attempts = r.attempts + 1 /\ c.startedAt = NULL /\ c.dispatchedAt = NULL
         /\ LET c == reclaimExpiredRow(r, n) IN
              /\ c.status = "pending" /\ c.leaseEpoch = r.leaseEpoch + 1
              /\ c.attempts = r.attempts + 1 /\ c.startedAt = NULL /\ c.dispatchedAt = NULL
<1>1. LeaseTicks # NULL /\ "stamped" # NULL BY NullAssumption, TimeAssumption
<1> QED
  BY <1>1 DEF claimRow, beginDispatchRow, markDispatchedRow, completeTaskRow,
     failTaskTerminalRow, releaseClaimRow, rescheduleTaskRow, reclaimExpiredRow, Row

\* A claim below the row's epoch is consistent with any row.
LEMMA StaleFire ==
  ASSUME NEW e \in Fire, NEW r \in Row, e.epoch < r.leaseEpoch
  PROVE  FireMatchesRow(e, r)
BY DEF FireMatchesRow, Fire, Row

\* Fires a step leaves alone stay consistent if their rows are unchanged, deleted,
\* now at a higher epoch, or now terminal at an epoch no lower than before.
LEMMA FiresKept ==
  ASSUME TypeOK, TypeOK', FiresConsistent,
         \A t \in Task : effects[t] \subseteq effects'[t],
         NEW e \in fires,
         \/ task'[e.id] = task[e.id]
         \/ task'[e.id].status = "deleted"
         \/ /\ task[e.id].status # "deleted"
            /\ \/ e.epoch < task'[e.id].leaseEpoch
               \/ /\ task'[e.id].leaseEpoch >= task[e.id].leaseEpoch
                  /\ task'[e.id].status \notin {"pending", "running"}
  PROVE  /\ MarkMatchesEffect(e)'
         /\ task'[e.id].status # "deleted" => FireMatchesRow(e, task'[e.id])
<1>1. e \in Fire /\ e.id \in Task /\ e.epoch \in Nat BY DEF TypeOK, Fire
<1>2. /\ MarkMatchesEffect(e)
      /\ task[e.id].status # "deleted" => FireMatchesRow(e, task[e.id])
  BY DEF FiresConsistent
<1>3. MarkMatchesEffect(e)' BY <1>1, <1>2 DEF MarkMatchesEffect
<1>4. task[e.id] \in Row /\ task'[e.id] \in Row BY <1>1 DEF TypeOK
<1>5. task[e.id].leaseEpoch \in Nat /\ task'[e.id].leaseEpoch \in Nat BY <1>4 DEF Row
<1>6. CASE task'[e.id] = task[e.id] \/ task'[e.id].status = "deleted" BY <1>6, <1>2, <1>3
<1>7. CASE e.epoch < task'[e.id].leaseEpoch BY <1>7, <1>1, <1>3, <1>4, StaleFire
<1>8. CASE /\ task[e.id].status # "deleted"
           /\ task'[e.id].leaseEpoch >= task[e.id].leaseEpoch
           /\ task'[e.id].status \notin {"pending", "running"}
  <2>1. e.epoch <= task[e.id].leaseEpoch BY <1>8, <1>2 DEF FireMatchesRow
  <2>2. e.epoch <= task'[e.id].leaseEpoch BY <1>8, <2>1, <1>1, <1>5
  <2> QED BY <1>8, <1>3, <2>2 DEF FireMatchesRow
<1> QED BY <1>6, <1>7, <1>8

\* Rows a step leaves alone, histories included, stay consistent.
LEMMA RowsKept ==
  ASSUME RowsConsistent, NEW u \in Task,
         task'[u] = task[u], runs'[u] = runs[u], lastRun'[u] = lastRun[u],
         effects[u] \subseteq effects'[u]
  PROVE  RowConsistent(u)'
BY DEF RowsConsistent, RowConsistent

\* The part of the invariant that speaks of claims, swept rows and rows.
Consistent == OneOwnerPerEpoch /\ FiresConsistent /\ RefsConsistent /\ RowsConsistent

\* Forgetting claims or swept rows keeps everything consistent.
LEMMA Forgetting ==
  ASSUME IInv, TypeOK', fires' \subseteq fires, \A h \in Host : reaping'[h] \subseteq reaping[h],
         UNCHANGED <<task, runs, lastRun, effects>>
  PROVE  Consistent'
<1>1. OneOwnerPerEpoch' BY DropKeepsOwners DEF IInv
<1>2. FiresConsistent'
  <2> SUFFICES ASSUME NEW e \in fires'
               PROVE  /\ MarkMatchesEffect(e)'
                      /\ task'[e.id].status # "deleted" => FireMatchesRow(e, task'[e.id])
    BY DEF FiresConsistent
  <2> QED BY FiresKept DEF IInv
<1>3. RefsConsistent' BY RefsKept DEF IInv, TypeOK
<1>4. RowsConsistent' BY RowsKept DEF IInv, RowsConsistent
<1> QED BY <1>1, <1>2, <1>3, <1>4 DEF Consistent

\* A fire moving on without touching the table keeps everything consistent.
LEMMA FireAdvances ==
  ASSUME IInv, TypeOK', NEW f \in fires, NEW g, fires' = (fires \ {f}) \cup {g},
         g.id = f.id, g.epoch = f.epoch, g.host = f.host, g.attempts = f.attempts,
         f.pc \in Started <=> g.pc \in Started,
         g.mark # "done" => f.mark # "done",
         MarkMatchesEffect(g)',
         \A t \in Task : effects[t] \subseteq effects'[t],
         UNCHANGED <<task, reaping, runs, lastRun>>
  PROVE  Consistent'
<1>1. OneOwnerPerEpoch' BY MoveKeepsOwners DEF IInv
<1>2. FiresConsistent'
  <2> SUFFICES ASSUME NEW e \in fires'
               PROVE  /\ MarkMatchesEffect(e)'
                      /\ task'[e.id].status # "deleted" => FireMatchesRow(e, task'[e.id])
    BY DEF FiresConsistent
  <2>1. CASE e # g
    <3>1. e \in fires BY <2>1
    <3> QED BY <3>1, FiresKept DEF IInv
  <2>2. CASE e = g
    <3>1. task[f.id].status # "deleted" => FireMatchesRow(f, task[f.id])
      BY DEF IInv, FiresConsistent
    <3>2. task[f.id].status # "deleted" => FireMatchesRow(g, task[f.id])
      BY <3>1 DEF FireMatchesRow
    <3> QED BY <2>2, <3>2
  <2> QED BY <2>1, <2>2
<1>3. RefsConsistent' BY RefsKept DEF IInv, TypeOK
<1>4. RowsConsistent' BY RowsKept DEF IInv, RowsConsistent
<1> QED BY <1>1, <1>2, <1>3, <1>4 DEF Consistent

\* A guarded write meets no other claim at the row's epoch, so it only has to keep
\* its own row and its own fire (gone, or moved on to g) consistent.
LEMMA GuardedWrite ==
  ASSUME IInv, TypeOK', NEW f \in fires, Guarded(f), NEW r \in Row,
         task' = [task EXCEPT ![f.id] = r],
         r.leaseEpoch = task[f.id].leaseEpoch,
         r.status = "running" => r.attempts = task[f.id].attempts,
         NEW g, g.id = f.id, g.epoch = f.epoch,
         \/ fires' = fires \ {f}
         \/ fires' = (fires \ {f}) \cup {g} /\ MarkMatchesEffect(g)' /\ FireMatchesRow(g, r),
         UNCHANGED <<reaping, effects>>,
         \A u \in Task : u # f.id => runs'[u] = runs[u] /\ lastRun'[u] = lastRun[u],
         RowConsistent(f.id)'
  PROVE  Consistent'
<1>1. f.id \in Task /\ f.epoch \in Nat BY DEF IInv, TypeOK, Fire
<1>2. task[f.id].leaseEpoch = f.epoch /\ task[f.id].status = "running" BY DEF Guarded
<1>3. task'[f.id] = r /\ \A u \in Task : u # f.id => task'[u] = task[u]
  BY <1>1 DEF IInv, TypeOK
<1>4. OneOwnerPerEpoch'
  <2>1. CASE fires' = fires \ {f} BY <2>1, DropKeepsOwners DEF IInv
  <2>2. CASE fires' = (fires \ {f}) \cup {g} BY <2>2, MoveKeepsOwners DEF IInv
  <2> QED BY <2>1, <2>2
<1>5. FiresConsistent'
  <2> SUFFICES ASSUME NEW e \in fires'
               PROVE  /\ MarkMatchesEffect(e)'
                      /\ task'[e.id].status # "deleted" => FireMatchesRow(e, task'[e.id])
    BY DEF FiresConsistent
  <2>1. CASE e \in fires /\ e # f
    <3>1. e.id \in Task /\ e.epoch \in Nat BY <2>1 DEF IInv, TypeOK, Fire
    <3>2. CASE e.id # f.id
      <4>1. task'[e.id] = task[e.id] BY <3>1, <3>2, <1>3
      <4> QED BY <2>1, <4>1, FiresKept DEF IInv
    <3>3. CASE e.id = f.id
      <4>1. e.epoch # f.epoch BY <2>1, <3>3 DEF IInv, OneOwnerPerEpoch
      <4>2. e.epoch <= task[e.id].leaseEpoch
        BY <2>1, <3>3, <1>2 DEF IInv, FiresConsistent, FireMatchesRow
      <4>3. e.epoch < task'[e.id].leaseEpoch BY <3>1, <3>3, <4>1, <4>2, <1>1, <1>2, <1>3
      <4> QED BY <2>1, <3>3, <4>3, <1>2, FiresKept DEF IInv
    <3> QED BY <3>2, <3>3
  <2>2. CASE fires' = (fires \ {f}) \cup {g} /\ MarkMatchesEffect(g)' /\ FireMatchesRow(g, r) /\ e = g
    BY <2>2, <1>3
  <2> QED BY <2>1, <2>2
<1>6. RefsConsistent'
  <2>1. r.leaseEpoch \in Nat BY DEF Row
  <2>2. ASSUME NEW t \in Task
        PROVE  \/ task'[t] = task[t]
               \/ /\ task[t].status # "deleted"
                  /\ task'[t].leaseEpoch \in Nat /\ task'[t].leaseEpoch >= task[t].leaseEpoch
                  /\ \/ task'[t].status # "running"
                     \/ task[t].status = "running" /\ task'[t].attempts = task[t].attempts
    <3>1. CASE t # f.id BY <3>1, <1>3
    <3>2. CASE t = f.id BY <3>2, <1>2, <1>3, <2>1
    <3> QED BY <3>1, <3>2
  <2> QED BY <2>2, RefsKept DEF IInv, TypeOK
<1>7. RowsConsistent'
  <2> SUFFICES ASSUME NEW u \in Task PROVE RowConsistent(u)' BY DEF RowsConsistent
  <2>1. CASE u # f.id BY <2>1, <1>3, RowsKept DEF IInv
  <2> QED BY <2>1
<1> QED BY <1>4, <1>5, <1>6, <1>7 DEF Consistent

\* A write by no fire (claim, reaper, retirement, deletion) leaves the claims in
\* memory behind: it raises the epoch, ends the run or deletes the row.
LEMMA TableWrite ==
  ASSUME IInv, TypeOK', NEW t \in Task, NEW r \in Row, task' = [task EXCEPT ![t] = r],
         task[t].status # "deleted",
         \/ r.status = "deleted"
         \/ r.leaseEpoch > task[t].leaseEpoch
         \/ r.leaseEpoch = task[t].leaseEpoch /\ r.status \notin {"pending", "running"},
         NEW g, g.id = t, g.epoch > task[t].leaseEpoch,
         \/ fires' = fires
         \/ fires' = fires \cup {g} /\ MarkMatchesEffect(g)' /\ FireMatchesRow(g, r),
         \A h \in Host : reaping'[h] \subseteq reaping[h],
         UNCHANGED <<runs, lastRun, effects>>,
         RowConsistent(t)'
  PROVE  Consistent'
<1>1. task'[t] = r /\ \A u \in Task : u # t => task'[u] = task[u] BY DEF IInv, TypeOK
<1>2. r.leaseEpoch \in Nat /\ task[t].leaseEpoch \in Nat BY DEF IInv, TypeOK, Row
<1>3. ASSUME NEW e \in fires, e.id = t PROVE e.epoch \in Nat /\ e.epoch <= task[t].leaseEpoch
  <2>1. e.epoch \in Nat BY DEF IInv, TypeOK, Fire
  <2> QED BY <1>3, <2>1 DEF IInv, FiresConsistent, FireMatchesRow
<1>4. OneOwnerPerEpoch'
  <2>1. ASSUME NEW e \in fires PROVE ~(e.id = g.id /\ e.epoch = g.epoch)
    <3> SUFFICES ASSUME e.id = g.id, e.epoch = g.epoch PROVE FALSE OBVIOUS
    <3>1. e.epoch \in Nat /\ e.epoch <= task[t].leaseEpoch BY <1>3
    <3> QED BY <3>1, <1>2
  <2> QED BY <2>1 DEF IInv, OneOwnerPerEpoch
<1>5. FiresConsistent'
  <2> SUFFICES ASSUME NEW e \in fires'
               PROVE  /\ MarkMatchesEffect(e)'
                      /\ task'[e.id].status # "deleted" => FireMatchesRow(e, task'[e.id])
    BY DEF FiresConsistent
  <2>1. CASE e \in fires
    <3>1. e.id \in Task BY <2>1 DEF IInv, TypeOK, Fire
    <3>2. CASE e.id # t
      <4>1. task'[e.id] = task[e.id] BY <3>1, <3>2, <1>1
      <4> QED BY <2>1, <4>1, FiresKept DEF IInv
    <3>3. CASE e.id = t
      <4>1. e.epoch \in Nat /\ e.epoch <= task[t].leaseEpoch BY <2>1, <3>3, <1>3
      <4>2. r.leaseEpoch > task[t].leaseEpoch => e.epoch < r.leaseEpoch BY <4>1, <1>2
      <4>3. r.leaseEpoch = task[t].leaseEpoch => r.leaseEpoch >= task[t].leaseEpoch BY <1>2
      <4> QED BY <2>1, <3>3, <4>2, <4>3, <1>1, FiresKept DEF IInv
    <3> QED BY <3>2, <3>3
  <2>2. CASE e = g /\ MarkMatchesEffect(g)' /\ FireMatchesRow(g, r) BY <2>2, <1>1
  <2> QED BY <2>1, <2>2
<1>6. RefsConsistent'
  <2>1. ASSUME NEW u \in Task
        PROVE  \/ task'[u] = task[u]
               \/ task'[u].status = "deleted"
               \/ /\ task[u].status # "deleted"
                  /\ task'[u].leaseEpoch \in Nat /\ task'[u].leaseEpoch >= task[u].leaseEpoch
                  /\ \/ task'[u].status # "running"
                     \/ task'[u].leaseEpoch > task[u].leaseEpoch
    <3>1. CASE u # t BY <3>1, <1>1
    <3>2. CASE u = t BY <3>2, <1>1, <1>2
    <3> QED BY <3>1, <3>2
  <2> QED BY <2>1, RefsKept DEF IInv, TypeOK
<1>7. RowsConsistent'
  <2> SUFFICES ASSUME NEW u \in Task PROVE RowConsistent(u)' BY DEF RowsConsistent
  <2>1. CASE u # t BY <2>1, <1>1, RowsKept DEF IInv
  <2> QED BY <2>1
<1> QED BY <1>4, <1>5, <1>6, <1>7 DEF Consistent

\* The initial rows are consistent; nothing is claimed.
LEMMA InitInv == Init => IInv
<1> SUFFICES ASSUME Init PROVE IInv OBVIOUS
<1>1. TypeOK BY InitType
<1>2. OneOwnerPerEpoch /\ TrackedIsArmed /\ FiresConsistent /\ RefsConsistent
  BY DEF Init, OneOwnerPerEpoch, TrackedIsArmed, FiresConsistent, RefsConsistent
<1>3. ASSUME NEW t \in Task PROVE RowConsistent(t)
  <2>1. /\ task[t].status = "pending" /\ task[t].attempts = 0
        /\ task[t].startedAt = NULL /\ task[t].dispatchedAt = NULL /\ task[t].leaseEpoch = 0
        /\ runs[t] = 0 /\ lastRun[t] = 0
    <3>1. PICK runIn \in [Task -> 0..MaxRunIn], bounded \in [Task -> BOOLEAN] :
            task = [u \in Task |->
                      NewRow(runIn[u], IF bounded[u] THEN runIn[u] + MisfireGrace ELSE NULL)]
      BY Zenon DEF Init
    <3>2. PICK i, m : task[t] = NewRow(i, m) BY <3>1
    <3> QED BY <3>2 DEF Init, NewRow
  <2> QED BY <2>1, AttemptsAssumption DEF RowConsistent
<1> QED BY <1>1, <1>2, <1>3 DEF IInv, RowsConsistent

\* A fire and its row, as a step of the fire finds them.
LEMMA FireTypes ==
  ASSUME TypeOK, NEW f \in fires
  PROVE  /\ f \in Fire /\ f.host \in Host /\ f.id \in Task /\ f.epoch \in Nat
         /\ f.attempts \in Nat /\ f.attempts + 1 \in Nat
         /\ task[f.id] \in Row
         /\ task[f.id].leaseEpoch \in Nat /\ task[f.id].attempts \in Nat
         /\ runs[f.id] \in Nat /\ lastRun[f.id] \in Nat
<1>1. f \in Fire BY DEF TypeOK
<1>2. f.host \in Host /\ f.id \in Task /\ f.epoch \in Nat /\ f.attempts \in Nat
  BY <1>1 DEF Fire
<1>3. task[f.id] \in Row /\ runs[f.id] \in Nat /\ lastRun[f.id] \in Nat BY <1>2 DEF TypeOK
<1>4. task[f.id].leaseEpoch \in Nat /\ task[f.id].attempts \in Nat BY <1>3 DEF Row
<1> QED BY <1>1, <1>2, <1>3, <1>4, NatSuccessor

\* Every step of a fire keeps the table, the claims and the histories consistent.
LEMMA FireStepInv ==
  ASSUME IInv, TypeOK', NEW f \in fires, FireStep(f)
  PROVE  Consistent' /\ TrackedIsArmed'
<1> USE DEF Move, Drop
<1>0. TypeOK BY DEF IInv
<1>1. /\ f \in Fire /\ f.host \in Host /\ f.id \in Task /\ f.epoch \in Nat
      /\ f.attempts \in Nat /\ f.attempts + 1 \in Nat
      /\ task[f.id] \in Row
      /\ task[f.id].leaseEpoch \in Nat /\ task[f.id].attempts \in Nat
      /\ runs[f.id] \in Nat /\ lastRun[f.id] \in Nat
  BY <1>0, FireTypes
<1>2. /\ MarkMatchesEffect(f)
      /\ task[f.id].status # "deleted" => FireMatchesRow(f, task[f.id])
  BY DEF IInv, FiresConsistent
<1>3. RowConsistent(f.id) BY <1>1 DEF IInv, RowsConsistent
<1>4. f.mark \in {"none", "sent", "done"} /\ DOMAIN f = {"host", "id", "epoch", "attempts", "pc", "mark"}
  BY <1>1 DEF Fire
<1>5. CASE ScheduleClaimed(f)
  <2> DEFINE g == [f EXCEPT !.pc = "armed"]
  <2>1. /\ g.id = f.id /\ g.epoch = f.epoch /\ g.host = f.host /\ g.attempts = f.attempts
        /\ g.pc = "armed" /\ g.mark = f.mark /\ f.pc = "claimed"
    BY <1>5, <1>1 DEF ScheduleClaimed, Fire
  <2>2. MarkMatchesEffect(g)' BY <1>5, <1>2, <2>1 DEF MarkMatchesEffect, ScheduleClaimed, history, Started
  <2>3. fires' = (fires \ {f}) \cup {g} BY <1>5 DEF ScheduleClaimed
  <2>4. tracked' = [tracked EXCEPT ![f.host][f.id] = g] BY <1>5 DEF ScheduleClaimed
  <2> HIDE DEF g
  <2>5. Consistent' BY <1>5, <2>1, <2>2, <2>3, FireAdvances DEF ScheduleClaimed, history, Started
  <2>6. TrackedIsArmed'
    <3> SUFFICES ASSUME NEW h \in Host, NEW t \in Task, tracked'[h][t] # NULL
                 PROVE  /\ tracked'[h][t] \in fires' /\ tracked'[h][t].host = h
                        /\ tracked'[h][t].id = t /\ tracked'[h][t].pc = "armed"
      BY DEF TrackedIsArmed
    <3>1. CASE h = f.host /\ t = f.id
      <4>1. tracked'[h][t] = g BY <3>1, <2>4, <1>0 DEF TypeOK
      <4> QED BY <3>1, <4>1, <2>1, <2>3
    <3>2. CASE ~(h = f.host /\ t = f.id)
      <4>1. tracked'[h][t] = tracked[h][t] BY <3>2, <2>4, <1>0, <1>1 DEF TypeOK
      <4>2. /\ tracked[h][t] \in fires /\ tracked[h][t].host = h
            /\ tracked[h][t].id = t /\ tracked[h][t].pc = "armed"
        BY <4>1 DEF IInv, TrackedIsArmed
      <4> QED BY <4>1, <4>2, <2>1, <2>3
    <3> QED BY <3>1, <3>2
  <2> QED BY <2>5, <2>6
<1>6. CASE HandBackClaim(f) \/ SkipNoHandler(f)
  <2> DEFINE g == [f EXCEPT !.pc = "releasing"]
  <2>1. /\ g.id = f.id /\ g.epoch = f.epoch /\ g.host = f.host /\ g.attempts = f.attempts
        /\ g.pc = "releasing" /\ g.mark = f.mark /\ f.pc \in {"claimed", "firing"}
    BY <1>6, <1>1 DEF HandBackClaim, SkipNoHandler, Fire
  <2>2. MarkMatchesEffect(g)'
    BY <1>6, <1>2, <2>1 DEF MarkMatchesEffect, HandBackClaim, SkipNoHandler, history, Started
  <2>3. fires' = (fires \ {f}) \cup {g} BY <1>6 DEF HandBackClaim, SkipNoHandler
  <2> HIDE DEF g
  <2>4. Consistent'
    BY <1>6, <2>1, <2>2, <2>3, FireAdvances DEF HandBackClaim, SkipNoHandler, history, Started
  <2>5. TrackedIsArmed'
    BY <1>6, <2>1, <2>3, UnarmedKeepsTracked DEF HandBackClaim, SkipNoHandler, IInv
  <2> QED BY <2>4, <2>5
<1>7. CASE FireTimer(f)
  <2> DEFINE g == [f EXCEPT !.pc = "firing"]
  <2>1. /\ g.id = f.id /\ g.epoch = f.epoch /\ g.host = f.host /\ g.attempts = f.attempts
        /\ g.pc = "firing" /\ g.mark = f.mark /\ f.pc = "armed"
    BY <1>7, <1>1 DEF FireTimer, Fire
  <2>2. MarkMatchesEffect(g)' BY <1>7, <1>2, <2>1 DEF MarkMatchesEffect, FireTimer, history, Started
  <2>3. fires' = (fires \ {f}) \cup {g} BY <1>7 DEF FireTimer
  <2> HIDE DEF g
  <2>4. Consistent' BY <1>7, <2>1, <2>2, <2>3, FireAdvances DEF FireTimer, history, Started
  <2>5. TrackedIsArmed'
    <3> SUFFICES ASSUME NEW h \in Host, NEW t \in Task, tracked'[h][t] # NULL
                 PROVE  /\ tracked'[h][t] \in fires' /\ tracked'[h][t].host = h
                        /\ tracked'[h][t].id = t /\ tracked'[h][t].pc = "armed"
      BY DEF TrackedIsArmed
    <3>1. ~(h = f.host /\ t = f.id) /\ tracked'[h][t] = tracked[h][t]
      BY <1>7, <1>0, <1>1 DEF FireTimer, TypeOK
    <3>2. /\ tracked[h][t] \in fires /\ tracked[h][t].host = h
          /\ tracked[h][t].id = t /\ tracked[h][t].pc = "armed"
      BY <3>1 DEF IInv, TrackedIsArmed
    <3>3. tracked[h][t] # f BY <3>1, <3>2
    <3> QED BY <3>1, <3>2, <3>3, <2>3
  <2> QED BY <2>4, <2>5
<1>8. CASE BeginDispatch(f)
  <2>0. TrackedIsArmed' BY <1>8, UnarmedKeepsTracked DEF BeginDispatch, IInv
  <2>1. CASE Guarded(f) /\ task[f.id].startedAt = NULL
    <3> DEFINE g == [f EXCEPT !.pc = "handling"]
               r == beginDispatchRow(task[f.id])
    <3>1. /\ g.id = f.id /\ g.epoch = f.epoch /\ g.host = f.host /\ g.attempts = f.attempts
          /\ g.pc = "handling" /\ g.mark = f.mark /\ f.pc = "firing"
      BY <1>8, <1>1 DEF BeginDispatch, Fire
    <3>2. /\ task' = [task EXCEPT ![f.id] = r] /\ fires' = (fires \ {f}) \cup {g}
          /\ runs' = [runs EXCEPT ![f.id] = runs[f.id] + 1]
          /\ lastRun' = [lastRun EXCEPT ![f.id] = f.epoch]
          /\ UNCHANGED <<reaping, effects>>
      BY <1>8, <2>1 DEF BeginDispatch, UpdateRow
    <3>3. /\ r \in Row /\ r.status = "running" /\ r.claimedBy = task[f.id].claimedBy
          /\ r.leaseLeft # NULL /\ r.leaseEpoch = f.epoch /\ task[f.id].leaseEpoch = f.epoch
          /\ r.attempts = task[f.id].attempts /\ r.startedAt # NULL
          /\ r.dispatchedAt = task[f.id].dispatchedAt /\ task[f.id].status = "running"
      BY <1>1, <2>1, RowStatements, RowColumns DEF Guarded
    <3> HIDE DEF g, r
    <3>4. f.host = task[f.id].claimedBy /\ f.attempts = task[f.id].attempts /\ f.mark = "none"
          /\ task[f.id].dispatchedAt = NULL
      <4>1. f.mark = "none" BY <1>2, <3>1, <1>4 DEF MarkMatchesEffect, Started
      <4> QED BY <4>1, <1>2, <3>3 DEF FireMatchesRow
    <3>5. MarkMatchesEffect(g)' BY <3>1, <3>4 DEF MarkMatchesEffect
    <3>6. FireMatchesRow(g, r) BY <1>1, <3>1, <3>3, <3>4 DEF FireMatchesRow, Started
    <3>7. RowConsistent(f.id)'
      <4>1. task'[f.id] = r /\ runs'[f.id] = runs[f.id] + 1 /\ lastRun'[f.id] = f.epoch
        BY <3>2, <1>0, <1>1 DEF TypeOK
      <4>2. task[f.id].attempts < MaxAttempts /\ runs[f.id] <= task[f.id].attempts
            /\ task[f.id].claimedBy # NULL
        BY <1>3, <2>1, <3>3 DEF RowConsistent
      <4>3. runs'[f.id] <= MaxAttempts /\ runs'[f.id] <= r.attempts + 1
            /\ lastRun'[f.id] <= r.leaseEpoch /\ r.attempts < MaxAttempts
        BY <4>1, <4>2, <3>3, <1>1, AttemptsAssumption
      <4> QED BY <4>1, <4>2, <4>3, <3>3, <3>4 DEF RowConsistent
    <3>8. \A u \in Task : u # f.id => runs'[u] = runs[u] /\ lastRun'[u] = lastRun[u]
      BY <3>2, <1>0 DEF TypeOK
    <3>9. Consistent'
      BY <2>1, <3>1, <3>2, <3>3, <3>5, <3>6, <3>7, <3>8, GuardedWrite
    <3> QED BY <2>0, <3>9
  <2>2. CASE ~(Guarded(f) /\ task[f.id].startedAt = NULL)
    BY <1>8, <2>0, <2>2, Forgetting DEF BeginDispatch
  <2> QED BY <2>1, <2>2
<1>9. CASE ReportDispatched(f)
  <2> DEFINE g == [f EXCEPT !.mark = "sent"]
  <2>1. /\ g.id = f.id /\ g.epoch = f.epoch /\ g.host = f.host /\ g.attempts = f.attempts
        /\ g.pc = "handling" /\ g.mark # "none" /\ f.pc = "handling"
        /\ g.mark # "done" => f.mark # "done"
    BY <1>9, <1>1, <1>4 DEF ReportDispatched, Fire
  <2>2. fires' = (fires \ {f}) \cup {g} BY <1>9 DEF ReportDispatched
  <2>3. /\ effects' = [effects EXCEPT ![f.id] = effects[f.id] \cup {f.epoch}]
        /\ UNCHANGED <<task, tracked, reaping, runs, lastRun>>
    BY <1>9 DEF ReportDispatched
  <2> HIDE DEF g
  <2>4. f.epoch \in effects'[f.id] /\ \A t \in Task : effects[t] \subseteq effects'[t]
    BY <2>3, <1>0, <1>1 DEF TypeOK
  <2>5. MarkMatchesEffect(g)' BY <2>1, <2>4 DEF MarkMatchesEffect, Started
  <2>6. Consistent' BY <2>1, <2>2, <2>3, <2>4, <2>5, FireAdvances DEF Started
  <2>7. TrackedIsArmed' BY <2>1, <2>2, <2>3, UnarmedKeepsTracked DEF IInv
  <2> QED BY <2>6, <2>7
<1>16. CASE HandlerReturns(f)
  <2> DEFINE g == [f EXCEPT !.pc = "returned", !.mark = IF f.mark = "none" THEN "sent" ELSE f.mark]
  <2>1. /\ g.id = f.id /\ g.epoch = f.epoch /\ g.host = f.host /\ g.attempts = f.attempts
        /\ g.pc = "returned" /\ g.mark # "none" /\ f.pc = "handling"
        /\ g.mark # "done" => f.mark # "done"
    BY <1>16, <1>1, <1>4 DEF HandlerReturns, Fire
  <2>2. fires' = (fires \ {f}) \cup {g} BY <1>16 DEF HandlerReturns
  <2>3. /\ effects' = [effects EXCEPT ![f.id] = effects[f.id] \cup {f.epoch}]
        /\ UNCHANGED <<task, tracked, reaping, runs, lastRun>>
    BY <1>16 DEF HandlerReturns
  <2> HIDE DEF g
  <2>4. f.epoch \in effects'[f.id] /\ \A t \in Task : effects[t] \subseteq effects'[t]
    BY <2>3, <1>0, <1>1 DEF TypeOK
  <2>5. MarkMatchesEffect(g)' BY <2>1, <2>4 DEF MarkMatchesEffect, Started
  <2>6. Consistent' BY <2>1, <2>2, <2>3, <2>4, <2>5, FireAdvances DEF Started
  <2>7. TrackedIsArmed' BY <2>1, <2>2, <2>3, UnarmedKeepsTracked DEF IInv
  <2> QED BY <2>6, <2>7
<1>10. CASE HandlerThrows(f)
  <2> DEFINE g == [f EXCEPT !.pc = "threw"]
  <2>1. /\ g.id = f.id /\ g.epoch = f.epoch /\ g.host = f.host /\ g.attempts = f.attempts
        /\ g.pc = "threw" /\ g.mark = f.mark /\ f.pc = "handling"
    BY <1>10, <1>1 DEF HandlerThrows, Fire
  <2>2. MarkMatchesEffect(g)'
    BY <1>10, <1>2, <2>1 DEF MarkMatchesEffect, HandlerThrows, history, Started
  <2>3. fires' = (fires \ {f}) \cup {g} BY <1>10 DEF HandlerThrows
  <2> HIDE DEF g
  <2>4. Consistent' BY <1>10, <2>1, <2>2, <2>3, FireAdvances DEF HandlerThrows, history, Started
  <2>5. TrackedIsArmed' BY <1>10, <2>1, <2>3, UnarmedKeepsTracked DEF HandlerThrows, IInv
  <2> QED BY <2>4, <2>5
<1>11. ASSUME Guarded(f)
       PROVE  /\ task[f.id].status = "running" /\ task[f.id].leaseEpoch = f.epoch
              /\ f.attempts = task[f.id].attempts
              /\ task[f.id].startedAt # NULL <=> f.pc \in Started
              /\ f.mark # "done" => task[f.id].dispatchedAt = NULL
              /\ task[f.id].attempts < MaxAttempts /\ runs[f.id] <= MaxAttempts
              /\ lastRun[f.id] <= task[f.id].leaseEpoch
              /\ task[f.id].claimedBy # NULL /\ task[f.id].leaseLeft # NULL
  <2>1. task[f.id].status = "running" /\ task[f.id].leaseEpoch = f.epoch BY <1>11 DEF Guarded
  <2>2. FireMatchesRow(f, task[f.id]) BY <1>2, <2>1
  <2> QED BY <1>3, <2>1, <2>2 DEF FireMatchesRow, RowConsistent
<1>12. CASE MarkDispatched(f)
  <2> DEFINE g == [f EXCEPT !.mark = "done"]
             r == markDispatchedRow(task[f.id])
  <2>1. /\ g.id = f.id /\ g.epoch = f.epoch /\ g.host = f.host /\ g.attempts = f.attempts
        /\ g.pc = f.pc /\ g.mark = "done" /\ f.mark = "sent"
    BY <1>12, <1>1 DEF MarkDispatched, Fire
  <2>2. f.epoch \in effects[f.id] /\ f.pc \in Started BY <1>2, <2>1 DEF MarkMatchesEffect
  <2>3. /\ fires' = (fires \ {f}) \cup {g} /\ UNCHANGED <<tracked, reaping, runs, lastRun, effects>>
        /\ \/ UNCHANGED task
           \/ Guarded(f) /\ task' = [task EXCEPT ![f.id] = r]
    BY <1>12 DEF MarkDispatched, history, UpdateRow
  <2>4. /\ r \in Row /\ r.status = task[f.id].status /\ r.claimedBy = task[f.id].claimedBy
        /\ r.leaseLeft = task[f.id].leaseLeft /\ r.leaseEpoch = task[f.id].leaseEpoch
        /\ r.attempts = task[f.id].attempts /\ r.startedAt = task[f.id].startedAt
    BY <1>1, RowStatements, RowColumns
  <2> HIDE DEF g, r
  <2>5. MarkMatchesEffect(g)' BY <2>1, <2>2, <2>3 DEF MarkMatchesEffect
  <2>6. TrackedIsArmed' BY <2>1, <2>2, <2>3, UnarmedKeepsTracked DEF IInv, Started
  <2>7. CASE UNCHANGED task BY <2>1, <2>2, <2>3, <2>5, <2>6, <2>7, FireAdvances
  <2>8. CASE Guarded(f) /\ task' = [task EXCEPT ![f.id] = r]
    <3>1. FireMatchesRow(g, r) BY <1>11, <1>1, <2>1, <2>2, <2>4, <2>8 DEF FireMatchesRow, Guarded
    <3>2. task'[f.id] = r BY <2>8, <1>0, <1>1 DEF TypeOK
    <3>3. RowConsistent(f.id)'
      <4>1. /\ r.status = "running" /\ r.leaseEpoch = f.epoch /\ r.startedAt # NULL
            /\ r.claimedBy # NULL /\ r.leaseLeft # NULL /\ r.attempts < MaxAttempts
            /\ lastRun[f.id] <= r.leaseEpoch /\ runs[f.id] <= MaxAttempts
        BY <1>11, <2>2, <2>4, <2>8
      <4>2. runs[f.id] <= r.attempts + 1 BY <1>3, <1>11, <2>2, <2>4, <2>8 DEF RowConsistent
      <4> QED BY <2>2, <2>3, <3>2, <4>1, <4>2 DEF RowConsistent
    <3>4. Consistent' BY <2>1, <2>3, <2>4, <2>5, <2>8, <3>1, <3>3, GuardedWrite
    <3> QED BY <3>4, <2>6
  <2> QED BY <2>3, <2>7, <2>8
<1>13. CASE RecordOutcome(f)
  <2> DEFINE r == Outcome(f, task[f.id])
  <2>0. f.pc \in {"returned", "threw"} /\ f.mark # "sent" BY <1>13 DEF RecordOutcome
  <2>1. /\ fires' = fires \ {f} /\ UNCHANGED <<tracked, reaping, runs, lastRun, effects>>
        /\ \/ UNCHANGED task
           \/ Guarded(f) /\ task' = [task EXCEPT ![f.id] = r]
    BY <1>13 DEF RecordOutcome, history, UpdateRow
  <2>2. TrackedIsArmed' BY <2>0, <2>1, UnarmedKeepsTracked DEF IInv
  <2>3. CASE UNCHANGED task BY <2>1, <2>2, <2>3, Forgetting
  <2>4. CASE Guarded(f) /\ task' = [task EXCEPT ![f.id] = r]
    <3>1. backoff(f.attempts + 1) \in Nat BY <1>1, BackoffType
    <3>2. r \in Row /\ r.leaseEpoch = task[f.id].leaseEpoch
          /\ \/ /\ r.status = "succeeded" /\ r.startedAt = task[f.id].startedAt
                /\ f.pc = "returned" \/ f.mark = "done"
             \/ /\ r.status = "failed" /\ r.dispatchedAt = task[f.id].dispatchedAt
                /\ f.mark # "done"
             \/ /\ r.status = "pending" /\ r.attempts = task[f.id].attempts + 1
                /\ r.startedAt = NULL /\ r.dispatchedAt = NULL /\ ~LastAttempt(f.attempts)
      <4> DEFINE q == task[f.id]
                 d == backoff(f.attempts + 1)
      <4>1. /\ completeTaskRow(q) \in Row /\ completeTaskRow(q).status = "succeeded"
            /\ completeTaskRow(q).leaseEpoch = q.leaseEpoch
            /\ completeTaskRow(q).startedAt = q.startedAt
        BY <1>1, RowStatements, RowColumns
      <4>2. /\ failTaskTerminalRow(q) \in Row /\ failTaskTerminalRow(q).status = "failed"
            /\ failTaskTerminalRow(q).leaseEpoch = q.leaseEpoch
            /\ failTaskTerminalRow(q).dispatchedAt = q.dispatchedAt
        BY <1>1, RowStatements, RowColumns
      <4>3. LET c == rescheduleTaskRow(q, d) IN
              /\ c \in Row /\ c.status = "pending" /\ c.leaseEpoch = q.leaseEpoch
              /\ c.attempts = q.attempts + 1 /\ c.startedAt = NULL /\ c.dispatchedAt = NULL
        <5>1. q \in Row /\ f.host \in Host /\ d \in Nat BY <1>1, <3>1
        <5> HIDE DEF q, d
        <5>2. rescheduleTaskRow(q, d) \in Row BY <5>1, RowStatements
        <5> QED BY <5>1, <5>2, RowColumns
      <4> QED BY <4>1, <4>2, <4>3, <2>0 DEF Outcome
    <3>3. task'[f.id] = r BY <2>4, <1>0, <1>1 DEF TypeOK
    <3> HIDE DEF r
    <3>4. task[f.id].startedAt # NULL BY <1>11, <2>0, <2>4 DEF Started
    <3>5. RowConsistent(f.id)'
      <4>1. r.status = "succeeded" => f.epoch \in effects[f.id]
        BY <1>2, <2>0, <3>2 DEF MarkMatchesEffect
      <4>2. r.status = "pending" => r.attempts < MaxAttempts /\ runs[f.id] <= r.attempts
        <5>1. runs[f.id] <= task[f.id].attempts + 1 BY <1>3, <1>11, <2>4, <3>4 DEF RowConsistent
        <5> QED BY <5>1, <1>1, <1>11, <2>4, <3>2, AttemptsAssumption DEF LastAttempt
      <4> QED BY <1>11, <2>1, <2>4, <3>2, <3>3, <3>4, <4>1, <4>2 DEF RowConsistent
    <3>6. r.status # "running" BY <3>2
    <3>7. Consistent' BY <2>1, <2>4, <3>2, <3>5, <3>6, GuardedWrite
    <3> QED BY <3>7, <2>2
  <2> QED BY <2>1, <2>3, <2>4
<1>14. CASE ReleaseClaim(f)
  <2> DEFINE r == releaseClaimRow(task[f.id])
  <2>0. f.pc = "releasing" BY <1>14 DEF ReleaseClaim
  <2>1. /\ fires' = fires \ {f} /\ UNCHANGED <<tracked, reaping, runs, lastRun, effects>>
        /\ \/ UNCHANGED task
           \/ Guarded(f) /\ task' = [task EXCEPT ![f.id] = r]
    BY <1>14 DEF ReleaseClaim, history, UpdateRow
  <2>2. TrackedIsArmed' BY <2>0, <2>1, UnarmedKeepsTracked DEF IInv
  <2>3. CASE UNCHANGED task BY <2>1, <2>2, <2>3, Forgetting
  <2>4. CASE Guarded(f) /\ task' = [task EXCEPT ![f.id] = r]
    <3>1. /\ r \in Row /\ r.status = "pending" /\ r.leaseEpoch = task[f.id].leaseEpoch
          /\ r.attempts = task[f.id].attempts /\ r.startedAt = NULL /\ r.dispatchedAt = NULL
      BY <1>1, RowStatements, RowColumns
    <3>2. task'[f.id] = r BY <2>4, <1>0, <1>1 DEF TypeOK
    <3> HIDE DEF r
    <3>3. task[f.id].startedAt = NULL BY <1>11, <2>0, <2>4 DEF Started
    <3>4. RowConsistent(f.id)'
      <4>1. runs[f.id] <= task[f.id].attempts BY <1>3, <1>11, <2>4, <3>3 DEF RowConsistent
      <4> QED BY <1>11, <2>1, <2>4, <3>1, <3>2, <4>1 DEF RowConsistent
    <3>5. Consistent' BY <2>1, <2>4, <3>1, <3>4, GuardedWrite
    <3> QED BY <3>5, <2>2
  <2> QED BY <2>1, <2>3, <2>4
<1>15. CASE FireError(f)
  <2>1. TrackedIsArmed' BY <1>15, UnarmedKeepsTracked DEF FireError, IInv
  <2>2. Consistent' BY <1>15, Forgetting DEF FireError, history
  <2> QED BY <2>1, <2>2
<1> QED
  BY <1>5, <1>6, <1>7, <1>8, <1>9, <1>10, <1>12, <1>13, <1>14, <1>15, <1>16 DEF FireStep

\* Claiming raises the epoch above every claim in memory and enters a fresh one.
LEMMA ClaimInv ==
  ASSUME IInv, TypeOK', NEW h \in Host, NEW t \in Task, ClaimDueTasks(h, t)
  PROVE  Consistent' /\ TrackedIsArmed'
<1> DEFINE q == task[t]
           r == claimRow(q, h)
<1>0. PICK g : g = [host |-> h, id |-> t, epoch |-> r.leaseEpoch, attempts |-> q.attempts,
                    pc |-> "claimed", mark |-> "none"]
  OBVIOUS
<1>1. /\ q \in Row /\ q.leaseEpoch \in Nat /\ q.attempts \in Nat
      /\ runs[t] \in Nat /\ lastRun[t] \in Nat
  BY DEF IInv, TypeOK, Row
<1>2. /\ task' = [task EXCEPT ![t] = r] /\ fires' = fires \cup {g}
      /\ UNCHANGED <<tracked, reaping, runs, lastRun, effects>> /\ q.status = "pending"
  BY <1>0 DEF ClaimDueTasks, UpdateRow, Claimable, history
<1>3. /\ q.attempts < MaxAttempts /\ runs[t] <= q.attempts /\ q.startedAt = NULL
      /\ q.dispatchedAt = NULL /\ lastRun[t] <= q.leaseEpoch /\ runs[t] <= MaxAttempts
  BY <1>2 DEF IInv, RowsConsistent, RowConsistent
<1>4. task'[t] = r BY <1>2 DEF IInv, TypeOK
<1>5. h # NULL BY NullAssumption
<1> HIDE DEF q
<1>6. /\ r \in Row /\ r.status = "running" /\ r.claimedBy = h /\ r.leaseLeft # NULL
      /\ r.leaseEpoch = q.leaseEpoch + 1 /\ r.attempts = q.attempts
      /\ r.startedAt = q.startedAt /\ r.dispatchedAt = q.dispatchedAt
  <2>1. 0 \in Nat OBVIOUS
  <2>2. r \in Row BY <1>1, <2>1, RowStatements
  <2> QED BY <1>1, <2>1, <2>2, RowColumns
<1> HIDE DEF r
<1>7. /\ g.host = h /\ g.id = t /\ g.epoch = r.leaseEpoch /\ g.attempts = q.attempts
      /\ g.pc = "claimed" /\ g.mark = "none"
  BY <1>0
<1>8. r.leaseEpoch \in Nat /\ r.leaseEpoch > q.leaseEpoch /\ lastRun[t] < r.leaseEpoch
      /\ lastRun[t] <= r.leaseEpoch
  BY <1>1, <1>3, <1>6
<1>9. MarkMatchesEffect(g)' BY <1>7 DEF MarkMatchesEffect
<1>10. FireMatchesRow(g, r) BY <1>3, <1>6, <1>7, <1>8 DEF FireMatchesRow, Started
<1>11. RowConsistent(t)' BY <1>2, <1>3, <1>4, <1>5, <1>6, <1>8 DEF RowConsistent
<1>12. Consistent'
  BY <1>2, <1>6, <1>7, <1>8, <1>9, <1>10, <1>11, TableWrite DEF q
<1>13. TrackedIsArmed' BY <1>2, UnarmedKeepsTracked DEF IInv
<1> QED BY <1>12, <1>13

\* A write of the reaper, the materializer, retention or a cascade: it ends the row
\* or takes its epoch past every claim in memory.
LEMMA OutsideWrite ==
  ASSUME IInv, TypeOK', NEW t \in Task, NEW r \in Row, task' = [task EXCEPT ![t] = r],
         task[t].status # "deleted",
         \/ r.status = "deleted"
         \/ r.leaseEpoch > task[t].leaseEpoch
         \/ r.leaseEpoch = task[t].leaseEpoch /\ r.status \notin {"pending", "running"},
         \A h \in Host : reaping'[h] \subseteq reaping[h],
         UNCHANGED <<fires, tracked, runs, lastRun, effects>>,
         RowConsistent(t)'
  PROVE  Consistent' /\ TrackedIsArmed'
<1>1. PICK g : g.id = t /\ g.epoch > task[t].leaseEpoch
  <2>1. task[t].leaseEpoch \in Nat BY DEF IInv, TypeOK, Row
  <2> WITNESS [id |-> t, epoch |-> task[t].leaseEpoch + 1]
  <2> QED BY <2>1
<1>2. Consistent' BY <1>1, TableWrite
<1>3. TrackedIsArmed' BY UnarmedKeepsTracked DEF IInv
<1> QED BY <1>2, <1>3

\* Retiring a pending row as missed, by deadline or because it was superseded.
LEMMA RetireInv ==
  ASSUME IInv, TypeOK', NEW t \in Task, task[t].status = "pending",
         task' = [task EXCEPT ![t] = [task[t] EXCEPT !.status = "missed"]],
         UNCHANGED <<memory, history>>
  PROVE  Consistent' /\ TrackedIsArmed'
<1> DEFINE r == [task[t] EXCEPT !.status = "missed"]
<1>1. /\ r \in Row /\ r.status = "missed" /\ r.attempts = task[t].attempts
      /\ r.leaseEpoch = task[t].leaseEpoch /\ r.startedAt = task[t].startedAt
      /\ r.dispatchedAt = task[t].dispatchedAt
  BY DEF IInv, TypeOK, Row, Status, Terminal
<1>2. task'[t] = r BY DEF IInv, TypeOK
<1>3. RowConsistent(t) BY DEF IInv, RowsConsistent
<1> HIDE DEF r
<1>4. RowConsistent(t)' BY <1>1, <1>2, <1>3 DEF RowConsistent, history
<1> QED BY <1>1, <1>4, OutsideWrite DEF r, memory, history

\* The sweep's write: it completes, dead-letters or reclaims the row it re-checks.
LEMMA ReapInv ==
  ASSUME IInv, TypeOK', NEW h \in Host, NEW ref \in reaping[h], ReapRow(h, ref)
  PROVE  Consistent' /\ TrackedIsArmed'
<1> DEFINE t == ref.id
           q == task[t]
           r == Reaped(ref, q)
           d == backoff(ref.attempts + 1)
<1>1. /\ t \in Task /\ ref.attempts \in Nat /\ q \in Row /\ q.leaseEpoch \in Nat
      /\ q.attempts \in Nat /\ runs[t] \in Nat /\ lastRun[t] \in Nat
  BY DEF IInv, TypeOK, ExpiredRef, Row
<1>2. d \in Nat BY <1>1, NatSuccessor, BackoffType
<1>3. /\ \A k \in Host : reaping'[k] \subseteq reaping[k]
      /\ UNCHANGED <<fires, tracked, runs, lastRun, effects>>
      /\ \/ UNCHANGED task
         \/ ReaperGuarded(ref, ref.dispatchedAt) /\ task' = [task EXCEPT ![t] = r]
  BY DEF ReapRow, UpdateRow, history, IInv, TypeOK
<1>4. CASE UNCHANGED task
  <2>1. Consistent' BY <1>3, <1>4, Forgetting
  <2> QED BY <1>3, <2>1, UnarmedKeepsTracked DEF IInv
<1>5. CASE ReaperGuarded(ref, ref.dispatchedAt) /\ task' = [task EXCEPT ![t] = r]
  <2>1. q.status = "running" /\ q.leaseEpoch = ref.claimedEpoch /\ q.dispatchedAt = ref.dispatchedAt
    BY <1>5 DEF ReaperGuarded
  <2>2. ref.attempts = q.attempts BY <2>1 DEF IInv, RefsConsistent, RefMatchesRow
  <2>3. task'[t] = r BY <1>1, <1>5 DEF IInv, TypeOK
  <2>4. RowConsistent(t) BY <1>1 DEF IInv, RowsConsistent
  <2>5. /\ q.attempts < MaxAttempts /\ runs[t] <= MaxAttempts /\ lastRun[t] <= q.leaseEpoch
        /\ runs[t] <= q.attempts + 1
        /\ q.dispatchedAt # NULL => q.startedAt # NULL /\ q.leaseEpoch \in effects[t]
    BY <1>1, <2>1, <2>4 DEF RowConsistent
  <2> HIDE DEF q, d
  <2>6. LET c == completeTaskRow(q) IN
          c \in Row /\ c.status = "succeeded" /\ c.leaseEpoch = q.leaseEpoch /\ c.startedAt = q.startedAt
    BY <1>1, RowStatements, RowColumns
  <2>7. LET c == failTaskTerminalRow(q) IN
          c \in Row /\ c.status = "failed" /\ c.leaseEpoch = q.leaseEpoch /\ c.dispatchedAt = q.dispatchedAt
    BY <1>1, RowStatements, RowColumns
  <2>8. LET c == reclaimExpiredRow(q, d) IN
          /\ c \in Row /\ c.status = "pending" /\ c.leaseEpoch = q.leaseEpoch + 1
          /\ c.attempts = q.attempts + 1 /\ c.startedAt = NULL /\ c.dispatchedAt = NULL
    <3>1. reclaimExpiredRow(q, d) \in Row BY <1>1, <1>2, RowStatements
    <3> QED BY <1>1, <1>2, <3>1, RowColumns
  <2>9. /\ r \in Row
        /\ \/ /\ r.status = "succeeded" /\ r.leaseEpoch = q.leaseEpoch
              /\ r.startedAt = q.startedAt /\ q.dispatchedAt # NULL
           \/ /\ r.status = "failed" /\ r.leaseEpoch = q.leaseEpoch
              /\ r.dispatchedAt = q.dispatchedAt /\ q.dispatchedAt = NULL
           \/ /\ r.status = "pending" /\ r.leaseEpoch = q.leaseEpoch + 1
              /\ r.attempts = q.attempts + 1 /\ r.startedAt = NULL /\ r.dispatchedAt = NULL
              /\ ~LastAttempt(q.attempts)
    BY <2>1, <2>2, <2>6, <2>7, <2>8 DEF Reaped, d
  <2> HIDE DEF r
  <2>10. r.status = "pending" =>
           r.attempts < MaxAttempts /\ runs[t] <= r.attempts /\ lastRun[t] <= r.leaseEpoch
    BY <1>1, <2>5, <2>9, AttemptsAssumption DEF LastAttempt
  <2>11. RowConsistent(t)'
    BY <1>3, <2>3, <2>5, <2>9, <2>10 DEF RowConsistent
  <2>12. \/ r.leaseEpoch > q.leaseEpoch
         \/ r.leaseEpoch = q.leaseEpoch /\ r.status \notin {"pending", "running"}
    BY <1>1, <2>9
  <2> QED BY <1>1, <1>3, <1>5, <2>1, <2>9, <2>11, <2>12, OutsideWrite DEF q
<1> QED BY <1>3, <1>4, <1>5

\* Shutdown turns every tracked claim into a release, one per claim it cancels.
LEMMA StopExecutorInv ==
  ASSUME IInv, TypeOK', NEW h \in Host, StopExecutor(h)
  PROVE  Consistent' /\ TrackedIsArmed'
<1>0. /\ fires' = (fires \ Armed(h)) \cup {[f EXCEPT !.pc = "releasing"] : f \in TrackedClaims(h)}
      /\ tracked' = [tracked EXCEPT ![h] = [t \in Task |-> NULL]]
      /\ UNCHANGED <<task, reaping, runs, lastRun, effects>>
  BY DEF StopExecutor, history
<1>1. ASSUME NEW f \in TrackedClaims(h) PROVE f \in fires /\ f \in Fire /\ f \in Armed(h) /\ f.pc = "armed"
  BY DEF TrackedClaims, IInv, TrackedIsArmed, Armed, TypeOK
<1>2. ASSUME NEW e \in fires'
      PROVE  \E f \in fires :
               /\ e.id = f.id /\ e.epoch = f.epoch /\ e.host = f.host
               /\ e.attempts = f.attempts /\ e.mark = f.mark
               /\ \/ e = f /\ f \notin Armed(h)
                  \/ e = [f EXCEPT !.pc = "releasing"] /\ f.pc = "armed" /\ f \in Armed(h)
                     /\ e.pc = "releasing"
  <2>1. CASE e \in fires \ Armed(h) BY <2>1
  <2>2. CASE e \notin fires \ Armed(h)
    <3>1. PICK f \in TrackedClaims(h) : e = [f EXCEPT !.pc = "releasing"] BY <1>0, <2>2
    <3>2. f \in fires /\ f \in Fire /\ f \in Armed(h) /\ f.pc = "armed" BY <1>1
    <3>3. /\ e.id = f.id /\ e.epoch = f.epoch /\ e.host = f.host
          /\ e.attempts = f.attempts /\ e.mark = f.mark /\ e.pc = "releasing"
      BY <3>1, <3>2 DEF Fire
    <3> QED BY <3>1, <3>2, <3>3
  <2> QED BY <2>1, <2>2
<1>3. OneOwnerPerEpoch'
  <2> SUFFICES ASSUME NEW e1 \in fires', NEW e2 \in fires', e1.id = e2.id, e1.epoch = e2.epoch
               PROVE  e1 = e2
    BY DEF OneOwnerPerEpoch
  <2>1. PICK f1 \in fires :
          /\ e1.id = f1.id /\ e1.epoch = f1.epoch
          /\ \/ e1 = f1 /\ f1 \notin Armed(h)
             \/ e1 = [f1 EXCEPT !.pc = "releasing"] /\ f1 \in Armed(h)
    BY <1>2
  <2>2. PICK f2 \in fires :
          /\ e2.id = f2.id /\ e2.epoch = f2.epoch
          /\ \/ e2 = f2 /\ f2 \notin Armed(h)
             \/ e2 = [f2 EXCEPT !.pc = "releasing"] /\ f2 \in Armed(h)
    BY <1>2
  <2>3. f1 = f2 BY <2>1, <2>2 DEF IInv, OneOwnerPerEpoch
  <2> QED BY <2>1, <2>2, <2>3
<1>4. FiresConsistent'
  <2> SUFFICES ASSUME NEW e \in fires'
               PROVE  /\ MarkMatchesEffect(e)'
                      /\ task'[e.id].status # "deleted" => FireMatchesRow(e, task'[e.id])
    BY DEF FiresConsistent
  <2>1. PICK f \in fires :
          /\ e.id = f.id /\ e.epoch = f.epoch /\ e.host = f.host
          /\ e.attempts = f.attempts /\ e.mark = f.mark
          /\ e = f \/ (f.pc = "armed" /\ e.pc = "releasing")
    BY <1>2
  <2>2. MarkMatchesEffect(f) /\ (task[f.id].status # "deleted" => FireMatchesRow(f, task[f.id]))
    BY DEF IInv, FiresConsistent
  <2>3. MarkMatchesEffect(e)' BY <1>0, <2>1, <2>2 DEF MarkMatchesEffect, Started
  <2>4. task[e.id].status # "deleted" => FireMatchesRow(e, task[e.id])
    BY <2>1, <2>2 DEF FireMatchesRow, Started
  <2> QED BY <1>0, <2>3, <2>4
<1>5. RefsConsistent' BY <1>0, RefsKept DEF IInv, TypeOK
<1>6. RowsConsistent' BY <1>0, RowsKept DEF IInv, RowsConsistent
<1>7. TrackedIsArmed'
  <2> SUFFICES ASSUME NEW k \in Host, NEW t \in Task, tracked'[k][t] # NULL
               PROVE  /\ tracked'[k][t] \in fires' /\ tracked'[k][t].host = k
                      /\ tracked'[k][t].id = t /\ tracked'[k][t].pc = "armed"
    BY DEF TrackedIsArmed
  <2>1. k # h /\ tracked'[k][t] = tracked[k][t] BY <1>0 DEF IInv, TypeOK
  <2>2. /\ tracked[k][t] \in fires /\ tracked[k][t].host = k
        /\ tracked[k][t].id = t /\ tracked[k][t].pc = "armed"
    BY <2>1 DEF IInv, TrackedIsArmed
  <2> QED BY <1>0, <2>1, <2>2 DEF Armed
<1> QED BY <1>3, <1>4, <1>5, <1>6, <1>7 DEF Consistent

\* A killed or exiting main takes its own claims and swept rows along, no others.
LEMMA ExitInv ==
  ASSUME IInv, TypeOK', NEW h \in Host, Exit(h)
  PROVE  Consistent' /\ TrackedIsArmed'
<1>1. /\ fires' = {f \in fires : f.host # h}
      /\ tracked' = [tracked EXCEPT ![h] = [t \in Task |-> NULL]]
      /\ reaping' = [reaping EXCEPT ![h] = {}]
      /\ UNCHANGED <<task, runs, lastRun, effects>>
  BY DEF Exit, history
<1>2. fires' \subseteq fires /\ \A k \in Host : reaping'[k] \subseteq reaping[k]
  BY <1>1 DEF IInv, TypeOK
<1>3. Consistent' BY <1>1, <1>2, Forgetting
<1>4. TrackedIsArmed'
  <2> SUFFICES ASSUME NEW k \in Host, NEW t \in Task, tracked'[k][t] # NULL
               PROVE  /\ tracked'[k][t] \in fires' /\ tracked'[k][t].host = k
                      /\ tracked'[k][t].id = t /\ tracked'[k][t].pc = "armed"
    BY DEF TrackedIsArmed
  <2>1. k # h /\ tracked'[k][t] = tracked[k][t] BY <1>1 DEF IInv, TypeOK
  <2>2. /\ tracked[k][t] \in fires /\ tracked[k][t].host = k
        /\ tracked[k][t].id = t /\ tracked[k][t].pc = "armed"
    BY <2>1 DEF IInv, TrackedIsArmed
  <2> QED BY <1>1, <2>1, <2>2
<1> QED BY <1>3, <1>4

\* Time changes only the columns counted down; a lease stays non-null.
LEMMA TickInv ==
  ASSUME IInv, TypeOK', Tick
  PROVE  Consistent' /\ TrackedIsArmed'
<1>0. UNCHANGED <<fires, tracked, reaping, runs, lastRun, effects>> BY DEF Tick, memory, history
<1>1. ASSUME NEW t \in Task
      PROVE  /\ task'[t].status = task[t].status /\ task'[t].attempts = task[t].attempts
             /\ task'[t].claimedBy = task[t].claimedBy /\ task'[t].leaseEpoch = task[t].leaseEpoch
             /\ task'[t].startedAt = task[t].startedAt /\ task'[t].dispatchedAt = task[t].dispatchedAt
             /\ task[t].leaseLeft # NULL => task'[t].leaseLeft # NULL
  <2> DEFINE c == CountDown(task[t].leaseLeft, -1)
  <2>1. task[t] \in Row /\ task[t].leaseLeft \in Int \cup {NULL} BY DEF IInv, TypeOK, Row
  <2>2. task[t].leaseLeft # NULL => c # NULL BY <2>1, NullAssumption DEF CountDown
  <2>3. task'[t] = [task[t] EXCEPT !.runIn = CountDown(task[t].runIn, 0),
                                   !.missIn = CountDown(task[t].missIn, 0),
                                   !.leaseLeft = c]
    BY DEF Tick
  <2> HIDE DEF c
  <2> QED BY <2>1, <2>2, <2>3 DEF Row
<1>2. OneOwnerPerEpoch' BY <1>0, DropKeepsOwners DEF IInv
<1>3. FiresConsistent'
  <2> SUFFICES ASSUME NEW e \in fires
               PROVE  /\ MarkMatchesEffect(e)'
                      /\ task'[e.id].status # "deleted" => FireMatchesRow(e, task'[e.id])
    BY <1>0 DEF FiresConsistent
  <2>1. e.id \in Task BY DEF IInv, TypeOK, Fire
  <2>2. MarkMatchesEffect(e) /\ (task[e.id].status # "deleted" => FireMatchesRow(e, task[e.id]))
    BY DEF IInv, FiresConsistent
  <2>3. MarkMatchesEffect(e)' BY <1>0, <2>2 DEF MarkMatchesEffect
  <2>4. task'[e.id].status # "deleted" => FireMatchesRow(e, task'[e.id])
    BY <1>1, <2>1, <2>2 DEF FireMatchesRow
  <2> QED BY <2>3, <2>4
<1>4. RefsConsistent'
  <2> SUFFICES ASSUME NEW h \in Host, NEW ref \in reaping[h], task'[ref.id].status # "deleted"
               PROVE  RefMatchesRow(ref, task'[ref.id])
    BY <1>0 DEF RefsConsistent
  <2>1. ref.id \in Task BY DEF IInv, TypeOK, ExpiredRef
  <2>2. RefMatchesRow(ref, task[ref.id]) BY <1>1, <2>1 DEF IInv, RefsConsistent
  <2> QED BY <1>1, <2>1, <2>2 DEF RefMatchesRow
<1>5. RowsConsistent'
  <2> SUFFICES ASSUME NEW t \in Task PROVE RowConsistent(t)' BY DEF RowsConsistent
  <2>1. RowConsistent(t) BY DEF IInv, RowsConsistent
  <2> QED BY <1>0, <1>1, <2>1 DEF RowConsistent
<1>6. TrackedIsArmed' BY <1>0, UnarmedKeepsTracked DEF IInv
<1> QED BY <1>2, <1>3, <1>4, <1>5, <1>6 DEF Consistent

\* Every step of the system keeps the inductive invariant.
LEMMA InvStep == IInv /\ [Next]_vars => IInv'
<1> SUFFICES ASSUME IInv, [Next]_vars PROVE IInv' OBVIOUS
<1>0. TypeOK' BY TypeStep DEF IInv
<1> SUFFICES Consistent' /\ TrackedIsArmed' BY <1>0 DEF IInv, Consistent
<1>1. CASE UNCHANGED vars
  <2>1. Consistent' BY <1>0, <1>1, Forgetting DEF vars
  <2> QED BY <1>1, <2>1, UnarmedKeepsTracked DEF vars, IInv
<1>2. ASSUME NEW h \in Host, NEW t \in Task, ClaimDueTasks(h, t)
      PROVE  Consistent' /\ TrackedIsArmed'
  BY <1>0, <1>2, ClaimInv
<1>3. ASSUME NEW h \in Host, NEW t \in Task, RetireMissedPending(h, t)
      PROVE  Consistent' /\ TrackedIsArmed'
  BY <1>0, <1>3, RetireInv DEF RetireMissedPending, UpdateRow
<1>4. ASSUME NEW h \in Host, NEW t \in Task, FindExpiredLease(h, t)
      PROVE  Consistent' /\ TrackedIsArmed'
  <2>0. UNCHANGED <<task, fires, tracked, runs, lastRun, effects>>
    BY <1>4 DEF FindExpiredLease, history
  <2>1. OneOwnerPerEpoch' BY <2>0, DropKeepsOwners DEF IInv
  <2>2. FiresConsistent' BY <2>0 DEF IInv, FiresConsistent, MarkMatchesEffect
  <2>3. RefsConsistent'
    <3> SUFFICES ASSUME NEW k \in Host, NEW ref \in reaping'[k], task'[ref.id].status # "deleted"
                 PROVE  RefMatchesRow(ref, task'[ref.id])
      BY DEF RefsConsistent
    <3>1. CASE ref \in reaping[k] BY <2>0, <3>1 DEF IInv, RefsConsistent
    <3>2. CASE ref \notin reaping[k]
      <4>1. ref.id = t /\ ref.claimedEpoch = task[t].leaseEpoch /\ ref.attempts = task[t].attempts
        BY <1>4, <3>2 DEF FindExpiredLease, IInv, TypeOK
      <4>2. task[t].leaseEpoch \in Nat BY DEF IInv, TypeOK, Row
      <4> QED BY <2>0, <4>1, <4>2 DEF RefMatchesRow
    <3> QED BY <3>1, <3>2
  <2>4. RowsConsistent' BY <2>0, RowsKept DEF IInv, RowsConsistent
  <2>5. TrackedIsArmed' BY <2>0, UnarmedKeepsTracked DEF IInv
  <2> QED BY <2>1, <2>2, <2>3, <2>4, <2>5 DEF Consistent
<1>5. ASSUME NEW f \in fires, FireStep(f) PROVE Consistent' /\ TrackedIsArmed'
  BY <1>0, <1>5, FireStepInv
<1>6. ASSUME NEW h \in Host, NEW ref \in reaping[h], ReapRow(h, ref)
      PROVE  Consistent' /\ TrackedIsArmed'
  BY <1>0, <1>6, ReapInv
<1>7. ASSUME NEW h \in Host, NEW ref \in reaping[h], SkipReapRow(h, ref)
      PROVE  Consistent' /\ TrackedIsArmed'
  <2>1. /\ UNCHANGED <<task, fires, tracked, runs, lastRun, effects>>
        /\ \A k \in Host : reaping'[k] \subseteq reaping[k]
    BY <1>7 DEF SkipReapRow, history, IInv, TypeOK
  <2>2. Consistent' BY <1>0, <2>1, Forgetting
  <2> QED BY <2>1, <2>2, UnarmedKeepsTracked DEF IInv
<1>8. ASSUME NEW h \in Host, StopLoops(h) \/ Start(h) PROVE Consistent' /\ TrackedIsArmed'
  <2>1. UNCHANGED <<task, fires, tracked, reaping, runs, lastRun, effects>>
    BY <1>8 DEF StopLoops, Start, history
  <2>2. Consistent' BY <1>0, <2>1, Forgetting
  <2> QED BY <2>1, <2>2, UnarmedKeepsTracked DEF IInv
<1>9. ASSUME NEW h \in Host, StopExecutor(h) PROVE Consistent' /\ TrackedIsArmed'
  BY <1>0, <1>9, StopExecutorInv
<1>10. ASSUME NEW h \in Host, Exit(h) PROVE Consistent' /\ TrackedIsArmed'
  BY <1>0, <1>10, ExitInv
<1>11. ASSUME NEW t \in Task, DeleteRow(t) PROVE Consistent' /\ TrackedIsArmed'
  <2>1. /\ task' = [task EXCEPT ![t] = DeletedRow] /\ task[t].status # "deleted"
        /\ UNCHANGED <<fires, tracked, reaping, runs, lastRun, effects>>
    BY <1>11 DEF DeleteRow, UpdateRow, memory, history
  <2>2. DeletedRow \in Row /\ DeletedRow.status = "deleted"
    BY DEF DeletedRow, NewRow, Row, Stamp, Status, Terminal
  <2>3. task'[t] = DeletedRow BY <2>1 DEF IInv, TypeOK
  <2>4. runs[t] <= MaxAttempts BY DEF IInv, RowsConsistent, RowConsistent
  <2>5. RowConsistent(t)' BY <2>1, <2>2, <2>3, <2>4 DEF RowConsistent
  <2> QED BY <1>0, <2>1, <2>2, <2>5, OutsideWrite
<1>12. ASSUME NEW t \in Task, UpdateToMissed(t) PROVE Consistent' /\ TrackedIsArmed'
  BY <1>0, <1>12, RetireInv DEF UpdateToMissed, UpdateRow
<1>13. CASE Tick BY <1>0, <1>13, TickInv
<1> QED
  BY <1>1, <1>2, <1>3, <1>4, <1>5, <1>6, <1>7, <1>8, <1>9, <1>10, <1>11, <1>12, <1>13 DEF Next

\* The invariant holds of every reachable state of any number of mains and tasks.
THEOREM Invariance == Spec => []IInv
BY InitInv, InvStep, PTL DEF Spec

-----------------------------------------------------------------------------
\* Safety.

\* maxAttempts bounds the handler starts of an occurrence, for any maxAttempts.
THEOREM RunsBounded == Spec => []HandlerRunsBounded
<1>1. IInv => HandlerRunsBounded
  BY DEF IInv, RowsConsistent, RowConsistent, HandlerRunsBounded
<1> QED BY <1>1, Invariance, PTL

\* A dispatched occurrence never ends failed, whatever the reaper read and when.
THEOREM DispatchNeverFails == Spec => []NoFailureAfterDispatch
<1>1. IInv => NoFailureAfterDispatch
  BY DEF IInv, RowsConsistent, RowConsistent, NoFailureAfterDispatch
<1> QED BY <1>1, Invariance, PTL

\* A succeeded row's own lease handed its effect off.
THEOREM SuccessIsReal == Spec => []SucceededHasEffect
<1>1. IInv => SucceededHasEffect
  BY DEF IInv, RowsConsistent, RowConsistent, SucceededHasEffect
<1> QED BY <1>1, Invariance, PTL

\* An occurrence retired before its first counted attempt never started a handler.
THEOREM MissedIsUnstarted == Spec => []MissedNeverRan
<1>1. ASSUME IInv PROVE MissedNeverRan
  <2> SUFFICES ASSUME NEW t \in Task, task[t].status = "missed", task[t].attempts = 0
               PROVE  runs[t] = 0
    BY DEF MissedNeverRan
  <2>1. runs[t] \in Nat BY <1>1 DEF IInv, TypeOK
  <2>2. runs[t] <= task[t].attempts BY <1>1 DEF IInv, RowsConsistent, RowConsistent
  <2> QED BY <2>1, <2>2
<1> QED BY <1>1, Invariance, PTL

\* Only the pre-dispatch mutex starts handlers.
LEMMA OnlyBeginDispatchStarts ==
  ASSUME [Next]_vars
  PROVE  runs' = runs \/ \E f \in fires : BeginDispatch(f)
BY DEF Next, vars, memory, history, ClaimDueTasks, RetireMissedPending, FindExpiredLease,
   FireStep, ScheduleClaimed, HandBackClaim, FireTimer, SkipNoHandler, ReportDispatched,
   MarkDispatched, HandlerReturns, HandlerThrows, RecordOutcome, ReleaseClaim, FireError,
   ReapRow, SkipReapRow, StopLoops, StopExecutor, Exit, Start, DeleteRow, UpdateToMissed, Tick

\* At most one handler start per lease, and starts follow lease order.
THEOREM OneStartPerLease == Spec => HandlerOncePerLease
<1>1. ASSUME IInv, [Next]_vars
      PROVE  [\A t \in Task : runs'[t] # runs[t] => lastRun'[t] > lastRun[t]]_vars
  <2> SUFFICES ASSUME NEW t \in Task, runs'[t] # runs[t] PROVE lastRun'[t] > lastRun[t]
    OBVIOUS
  <2>1. PICK f \in fires : BeginDispatch(f) BY <1>1, OnlyBeginDispatchStarts
  <2>2. f.id \in Task /\ f.epoch \in Nat /\ lastRun[f.id] \in Nat
    BY <1>1, FireTypes DEF IInv
  <2>3. Guarded(f) /\ task[f.id].startedAt = NULL
    BY <2>1 DEF BeginDispatch
  <2>4. runs' = [runs EXCEPT ![f.id] = runs[f.id] + 1]
        /\ lastRun' = [lastRun EXCEPT ![f.id] = f.epoch]
    BY <2>1, <2>3 DEF BeginDispatch
  <2>5. t = f.id BY <1>1, <2>2, <2>4 DEF IInv, TypeOK
  <2>6. lastRun[f.id] < f.epoch
    BY <1>1, <2>2, <2>3 DEF IInv, RowsConsistent, RowConsistent, Guarded
  <2>7. lastRun'[t] = f.epoch BY <1>1, <2>2, <2>4, <2>5 DEF IInv, TypeOK
  <2> QED BY <2>2, <2>5, <2>6, <2>7
<1> QED BY <1>1, Invariance, PTL DEF Spec, HandlerOncePerLease
=============================================================================
