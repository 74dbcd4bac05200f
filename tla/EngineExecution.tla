--------------------------- MODULE EngineExecution ---------------------------
(***************************************************************************)
(* One execution of engine v2 (packages/@n8n/engine): the start service,   *)
(* the orchestration worker (planners) and the step worker (runners) over  *)
(* the execution row, the step rows and two work queues.  Every await on   *)
(* the store is a point where another worker may act.                      *)
(***************************************************************************)
EXTENDS EngineGraph, Integers, Sequences, SequencesExt, TLC

CONSTANTS
  Graphs,          \* graphs a start request may carry
  TriggerOutputs,  \* outputs of the trigger: functions from filled slots to values
  StepOutputs,     \* outputs an executor may return
  Text,            \* a slot value that is not a list; lists are their lengths
  ExecutorTypes,   \* step types the host has configured an executor for
  Planner,         \* concurrent handlers of the orchestration queue
  Runner,          \* concurrent handlers of the step queue
  MaxFaults        \* bound: messages delivered twice, handlers that throw, restarts

ASSUME BoundsAssumption == MaxFaults \in Nat
ASSUME ExecutorsAssumption == ExecutorTypes \subseteq {"v1-node"}
ASSUME GraphsAssumption == Graphs # {} /\ \A g \in Graphs : IsFiniteSet(g.edges)
ASSUME OutputsAssumption ==
  \A outputs \in TriggerOutputs \cup StepOutputs : DOMAIN outputs \subseteq Nat

VARIABLES
  exec,       \* the workflow_execution row: status, graph, triggerOutputs
  steps,      \* workflow_step_execution: step key -> [status, outputs]
  orchQueue,  \* step keys of step:settled messages, or Enqueued
  stepQueue,  \* step keys of step:ready messages
  planner,    \* local state of each planner between two awaits
  runner,     \* local state of each runner between two awaits
  announced,  \* lifecycle events published so far
  redelivered, errors

vars == <<exec, steps, orchQueue, stepQueue, planner, runner, announced,
          redelivered, errors>>
stores == <<exec, steps>>
queues == <<orchQueue, stepQueue>>
faults == <<redelivered, errors>>

\* The messages that carry no step key: a sequence of one field, where keys have two.
Enqueued == <<"execution:enqueued">>
NoKey == <<"none", 0>>
NoOutputs == [s \in {} |-> 0]
PlannerLocal(pc, key, terminal, toQueue, toSkip) ==
  [pc |-> pc, key |-> key, terminal |-> terminal, toQueue |-> toQueue, toSkip |-> toSkip]
Holding(pc, key) == PlannerLocal(pc, key, NoOutputs, {}, {})
IdlePlanner == Holding("idle", NoKey)
IdleRunner == [pc |-> "idle", key |-> NoKey]

\* The loops and the nodes of the graphs accepted, tabulated once.
Accepted == {g \in Graphs : validateExecutableGraph(g)}
Loops == [g \in Accepted |-> deriveLoops(g)]
Reachable == [g \in Accepted |-> reachableNodeIds(g)]
loops == Loops[exec.graph]
triggerKey == <<findTriggerNode(exec.graph), 0>>

StepStatus == {"queued", "running"} \cup Settled
PlannerPc == {"idle", "trigger", "fail", "sweep", "check", "terminal", "read", "create",
              "ended", "count", "verdict", "completed", "failed"}

Init ==
  /\ exec = [status |-> "none", graph |-> CHOOSE g \in Graphs : TRUE, triggerOutputs |-> NoOutputs]
  /\ steps = NoOutputs
  /\ orchQueue = <<>> /\ stepQueue = <<>>
  /\ planner = [p \in Planner |-> IdlePlanner]
  /\ runner = [r \in Runner |-> IdleRunner]
  /\ announced = {}
  /\ redelivered = 0 /\ errors = 0

-----------------------------------------------------------------------------
(* The step store: each operator is one statement or one transaction. *)

NewRow(status, outputs) == [status |-> status, outputs |-> outputs]
FailedRow == NewRow("failed", NoOutputs)

hasFailedSteps == \E k \in DOMAIN steps : steps[k].status = "failed"
countSettledSteps == Cardinality({k \in DOMAIN steps : steps[k].status \in Settled})

\* Mutants: rows are inserted after a failure; a claim asks for no status.
BugCreatable(keys) == keys \ DOMAIN steps
BugClaimable(key) == ~hasFailedSteps

\* The rows a batch insert leaves: none once a step failed, duplicates ignored.
creatable(keys) == IF hasFailedSteps THEN {} ELSE keys \ DOMAIN steps

createSteps(toQueue, toSkip) ==
  steps' = [k \in DOMAIN steps \cup creatable(toQueue \cup toSkip) |->
              IF k \in DOMAIN steps THEN steps[k]
              ELSE NewRow(IF k \in toQueue THEN "queued" ELSE "skipped", NoOutputs)]

setStep(key, row) == steps' = [steps EXCEPT ![key] = row]

cancelQueuedSteps ==
  steps' = [k \in DOMAIN steps |->
              IF steps[k].status = "queued" THEN NewRow("cancelled", NoOutputs) ELSE steps[k]]

claimable(key) == steps[key].status = "queued" /\ ~hasFailedSteps

loadLatestIteration(n) == Max({k[2] : k \in {j \in DOMAIN steps : j[1] = n}})

\* The last pass of the loops that have ended, among batch.
loadTerminalIterations(batch) ==
  LET Latest(b) == steps[<<b, loadLatestIteration(b)>>]
      ended == {b \in batch : /\ \E k \in DOMAIN steps : k[1] = b
                              /\ isTerminalStep(Latest(b))}
  IN [b \in ended |-> loadLatestIteration(b)]

loadStepSummariesByKeys(keys) == [k \in keys \cap DOMAIN steps |-> steps[k]]

-----------------------------------------------------------------------------
(* StartExecutionService.start: refused graphs and rejected requests leave no row. *)

Start ==
  /\ exec.status = "none"
  /\ \E g \in Accepted, outputs \in TriggerOutputs :
       exec' = [status |-> "queued", graph |-> g, triggerOutputs |-> outputs]
  /\ orchQueue' = Append(orchQueue, Enqueued)
  /\ UNCHANGED <<steps, stepQueue, planner, runner, announced, faults>>

-----------------------------------------------------------------------------
(* The orchestration worker. *)

At(p, pc) == planner[p].pc = pc
goto(p, local) == planner' = [planner EXCEPT ![p] = local]
advance(p, pc) == goto(p, [planner[p] EXCEPT !.pc = pc])
done(p) == goto(p, IdlePlanner)

\* ExecutionStartHandler.handle up to its claim, a compare-and-set on queued.
ClaimExecution(p) ==
  /\ At(p, "idle") /\ orchQueue # <<>> /\ Head(orchQueue) = Enqueued
  /\ orchQueue' = Tail(orchQueue)
  /\ IF exec.status = "queued"
     THEN exec' = [exec EXCEPT !.status = "running"] /\ advance(p, "trigger")
     ELSE UNCHANGED <<exec, planner>>
  /\ UNCHANGED <<steps, stepQueue, runner, announced, faults>>

\* The rest of it: the trigger is recorded as a completed step and announced.
CreateTrigger(p) ==
  /\ At(p, "trigger")
  /\ steps' = [k \in DOMAIN steps \cup {triggerKey} |->
                 IF k = triggerKey THEN NewRow("completed", exec.triggerOutputs) ELSE steps[k]]
  /\ announced' = announced \cup {<<"execution:started", triggerKey>>}
  /\ orchQueue' = Append(orchQueue, triggerKey)
  /\ done(p)
  /\ UNCHANGED <<exec, stepQueue, runner, faults>>

\* StepSettledHandler.handle: the reads and the early returns.
HandleSettled(p) ==
  /\ At(p, "idle") /\ orchQueue # <<>> /\ Head(orchQueue) # Enqueued
  /\ orchQueue' = Tail(orchQueue)
  /\ LET key == Head(orchQueue)
         Begin(pc) == goto(p, Holding(pc, key))
     IN CASE steps[key].status = "failed" -> Begin("fail")
          [] steps[key].status # "failed" /\ exec.status # "running" -> UNCHANGED planner
          [] steps[key].status \in {"completed", "skipped"} /\ exec.status = "running" ->
               Begin("check")
          [] OTHER -> Begin("ended")
  /\ UNCHANGED <<stores, stepQueue, runner, announced, faults>>

finishedEvent(status) ==
  IF status = "completed" THEN "execution:completed" ELSE "execution:failed"
settledEvent(status) == IF status = "completed" THEN "step:completed" ELSE "step:failed"

\* Finishing is a compare-and-set on running; the winner announces the outcome.
finishExecution(status) ==
  IF exec.status = "running"
  THEN /\ exec' = [exec EXCEPT !.status = status]
       /\ announced' = announced \cup {<<finishedEvent(status), triggerKey>>}
  ELSE UNCHANGED <<exec, announced>>

FailExecution(p) ==
  /\ At(p, "fail")
  /\ finishExecution("failed")
  /\ advance(p, "sweep")
  /\ UNCHANGED <<steps, queues, runner, faults>>

SweepQueued(p) ==
  /\ At(p, "sweep")
  /\ cancelQueuedSteps
  /\ done(p)
  /\ UNCHANGED <<exec, queues, runner, announced, faults>>

CheckFailed(p) ==
  /\ At(p, "check")
  /\ advance(p, IF hasFailedSteps THEN "fail" ELSE "terminal")
  /\ UNCHANGED <<stores, queues, runner, announced, faults>>

\* planSuccessors: three awaits, the last loops, the rows, the insert.
LoadTerminal(p) ==
  /\ At(p, "terminal")
  /\ LET candidates == getSuccessorNodeIds(exec.graph.edges, planner[p].key[1]) IN
     goto(p, PlannerLocal("read", planner[p].key,
       loadTerminalIterations(exitSourcesInto(exec.graph, loops, candidates)), {}, {}))
  /\ UNCHANGED <<stores, queues, runner, announced, faults>>

DecideSuccessors(p) ==
  /\ At(p, "read")
  /\ LET key == planner[p].key
         terminal == planner[p].terminal
         loaded == loadStepSummariesByKeys(decisionKeys(exec.graph, loops, key, terminal))
         plan == decideSuccessors(exec.graph, loops, key, loaded, terminal)
         pc == IF plan.toQueue \cup plan.toSkip = {} THEN "ended" ELSE "create"
     IN goto(p, PlannerLocal(pc, key, NoOutputs, plan.toQueue, plan.toSkip))
  /\ UNCHANGED <<stores, queues, runner, announced, faults>>

\* Mutant: what was planned is announced, created or not.
BugCreateSuccessors(p) ==
  /\ At(p, "create")
  /\ createSteps(planner[p].toQueue, planner[p].toSkip)
  /\ stepQueue' = stepQueue \o SetToSeq(planner[p].toQueue)
  /\ orchQueue' = orchQueue \o SetToSeq(planner[p].toSkip)
  /\ done(p)
  /\ UNCHANGED <<exec, runner, announced, faults>>

\* The batch lands at once; only the rows this planner created are announced.
CreateSuccessors(p) ==
  /\ At(p, "create")
  /\ createSteps(planner[p].toQueue, planner[p].toSkip)
  /\ \E ready \in SetToSeqs(creatable(planner[p].toQueue)),
       skipped \in SetToSeqs(creatable(planner[p].toSkip)) :
       stepQueue' = stepQueue \o ready /\ orchQueue' = orchQueue \o skipped
  /\ IF creatable(planner[p].toQueue) # {} THEN done(p)
     ELSE goto(p, Holding("ended", planner[p].key))
  /\ UNCHANGED <<exec, runner, announced, faults>>

\* finishExecutionIfDone: terminal passes, settled rows, failures, the write.
LoadEnded(p) ==
  /\ At(p, "ended")
  /\ LET reachable == Reachable[exec.graph]
         batch == {l.batchNodeId : l \in loops} \cap reachable
         terminal == loadTerminalIterations(batch)
     IN IF countExpectedSettledSteps(loops, reachable, terminal) = {} THEN done(p)
        ELSE goto(p, PlannerLocal("count", planner[p].key, terminal, {}, {}))
  /\ UNCHANGED <<stores, queues, runner, announced, faults>>

CountSettled(p) ==
  /\ At(p, "count")
  /\ IF \E expected \in countExpectedSettledSteps(loops, Reachable[exec.graph],
                                                  planner[p].terminal) :
          countSettledSteps >= expected
     THEN goto(p, Holding("verdict", planner[p].key))
     ELSE done(p)
  /\ UNCHANGED <<stores, queues, runner, announced, faults>>

ReadVerdict(p) ==
  /\ At(p, "verdict")
  /\ advance(p, IF hasFailedSteps THEN "failed" ELSE "completed")
  /\ UNCHANGED <<stores, queues, runner, announced, faults>>

FinishExecution(p) ==
  /\ At(p, "failed") \/ At(p, "completed")
  /\ finishExecution(planner[p].pc)
  /\ done(p)
  /\ UNCHANGED <<steps, queues, runner, faults>>

PlannerStep(p) ==
  \/ ClaimExecution(p) \/ CreateTrigger(p) \/ HandleSettled(p)
  \/ FailExecution(p) \/ SweepQueued(p) \/ CheckFailed(p)
  \/ LoadTerminal(p) \/ DecideSuccessors(p) \/ CreateSuccessors(p)
  \/ LoadEnded(p) \/ CountSettled(p) \/ ReadVerdict(p) \/ FinishExecution(p)

-----------------------------------------------------------------------------
(* The step worker. *)

RunnerAt(r, pc) == runner[r].pc = pc
runnerGoto(r, pc) == runner' = [runner EXCEPT ![r].pc = pc]
runnerDone(r) == runner' = [runner EXCEPT ![r] = IdleRunner]

ClaimStep(r) ==
  /\ RunnerAt(r, "idle") /\ stepQueue # <<>>
  /\ stepQueue' = Tail(stepQueue)
  /\ LET key == Head(stepQueue) IN
     IF claimable(key)
     THEN /\ setStep(key, NewRow("running", NoOutputs))
          /\ runner' = [runner EXCEPT ![r] = [pc |-> "claimed", key |-> key]]
     ELSE UNCHANGED <<steps, runner>>
  /\ UNCHANGED <<exec, orchQueue, planner, announced, faults>>

isBatch(key) == exec.graph.type[key[1]] = "batch"

\* executorFor finds one; wait and subworkflow steps have none yet.
hasExecutor(key) == exec.graph.type[key[1]] \in ExecutorTypes

\* The execution is read after the claim.  A step without an executor throws, and one
\* whose execution has ended is not run: either way the row stays running.
BeginStep(r) ==
  /\ RunnerAt(r, "claimed")
  /\ IF (isBatch(runner[r].key) \/ hasExecutor(runner[r].key)) /\ exec.status = "running"
     THEN /\ announced' = announced \cup {<<"step:started", runner[r].key>>}
          /\ runnerGoto(r, "gather")
     ELSE runnerDone(r) /\ UNCHANGED announced
  /\ UNCHANGED <<stores, queues, planner, faults>>

\* Mutant: an exit edge is read without its loop's last pass.
BugInputSources(key) == edgeSources(exec.graph, loops, key, NoOutputs)

\* The row each incoming edge of key reads.
inputSources(key) ==
  edgeSources(exec.graph, loops, key,
              loadTerminalIterations(exitSourcesInto(exec.graph, loops, {key[1]})))

\* gatherInputs returns: every slot has one source, and that source has settled.
inputsReadable(key) ==
  LET reads == inputSources(key) IN
  /\ reads # {}
  /\ \A x \in reads : /\ x.source.kind = "row"
                       /\ x.source.key \in DOMAIN steps
                       /\ steps[x.source.key].status \in Settled
  /\ \A x, y \in reads : x.edge.inputIndex = y.edge.inputIndex => x = y

\* It throws otherwise, and the row stays running.
GatherInputs(r) ==
  /\ RunnerAt(r, "gather")
  /\ IF inputsReadable(runner[r].key) THEN runnerGoto(r, "run") ELSE runnerDone(r)
  /\ UNCHANGED <<stores, queues, planner, announced, faults>>

\* What a batch node reads at the end of an edge: a list's length, 0 for null (read
\* as an empty list), Text for what makes the read throw, a missing row included.
listAt(edge, source) ==
  CASE source.kind # "row" -> Text
    [] source.kind = "row" /\ source.key \notin DOMAIN steps -> Text
    [] OTHER -> IF edge.outputIndex \in DOMAIN steps[source.key].outputs
                THEN steps[source.key].outputs[edge.outputIndex] ELSE 0

\* runBatchStep over createStoreLoopReader: the outcome of one pass.
runBatchStep(key) ==
  LET loop == CHOOSE l \in loops : l.batchNodeId = key[1]
      size == exec.graph.batchSize[key[1]]
      back == CHOOSE e \in loop.backEdges : TRUE
      entry == {x \in inputSources(<<key[1], 0>>) : x.edge \in loop.entryEdges}
      items == IF entry = {} THEN 0 ELSE LET x == CHOOSE y \in entry : TRUE
                                         IN listAt(x.edge, x.source)
      arrivals == [i \in 0..key[2] - 1 |-> listAt(back, Row(back.from, i))]
      rest == items - key[2] * size
      accumulated == MapThenSumSet(LAMBDA i : arrivals[i], DOMAIN arrivals)
      Pass(slot, value) == NewRow("completed", [s \in {slot} |-> value])
  IN CASE items = Text -> FailedRow
       [] items # Text /\ rest > 0 -> Pass(LOOP_SLOT, IF rest < size THEN rest ELSE size)
       [] OTHER -> IF \E i \in DOMAIN arrivals : arrivals[i] = Text THEN FailedRow
                   ELSE IF accumulated = 0 THEN NewRow("completed", NoOutputs)
                   ELSE Pass(DONE_SLOT, accumulated)

\* What a run may end with: an executor answers or throws, a batch node is computed.
outcomes(key) ==
  IF isBatch(key) THEN {runBatchStep(key)}
  ELSE {NewRow("completed", outputs) : outputs \in StepOutputs} \cup {FailedRow}

\* completeStep and failStep, compare-and-sets on running.
RecordOutcome(r) ==
  /\ RunnerAt(r, "run")
  /\ LET key == runner[r].key IN
     \E row \in outcomes(key) :
       IF steps[key].status = "running"
       THEN setStep(key, row) /\ runnerGoto(r, "announce")
       ELSE runnerDone(r) /\ UNCHANGED steps
  /\ UNCHANGED <<exec, queues, planner, announced, faults>>

AnnounceStep(r) ==
  /\ RunnerAt(r, "announce")
  /\ announced' = announced \cup
       {<<settledEvent(steps[runner[r].key].status), runner[r].key>>}
  /\ orchQueue' = Append(orchQueue, runner[r].key)
  /\ runnerDone(r)
  /\ UNCHANGED <<stores, stepQueue, planner, faults>>

RunnerStep(r) ==
  \/ ClaimStep(r) \/ BeginStep(r) \/ GatherInputs(r)
  \/ RecordOutcome(r) \/ AnnounceStep(r)

-----------------------------------------------------------------------------
(* Faults. *)

\* Every message published for key so far is safe to deliver again.
wasSettledPublished(key) ==
  \/ steps[key].status = "skipped" \/ key = triggerKey
  \/ \E s \in {"step:completed", "step:failed"} : <<s, key>> \in announced

Redeliver ==
  /\ redelivered + errors < MaxFaults
  /\ redelivered' = redelivered + 1
  /\ \/ /\ exec.status # "none"
        /\ orchQueue' = Append(orchQueue, Enqueued) /\ UNCHANGED stepQueue
     \/ \E key \in DOMAIN steps :
          /\ wasSettledPublished(key)
          /\ orchQueue' = Append(orchQueue, key) /\ UNCHANGED stepQueue
     \/ \E key \in DOMAIN steps :
          /\ steps[key].status # "skipped" /\ key # triggerKey
          /\ stepQueue' = Append(stepQueue, key) /\ UNCHANGED orchQueue
  /\ UNCHANGED <<stores, planner, runner, announced, errors>>

\* A store call rejects: the handler throws and its message is gone.
HandlerError ==
  /\ redelivered + errors < MaxFaults
  /\ errors' = errors + 1
  /\ \/ \E p \in Planner : ~At(p, "idle") /\ done(p) /\ UNCHANGED runner
     \/ \E r \in Runner : ~RunnerAt(r, "idle") /\ runnerDone(r) /\ UNCHANGED planner
  /\ UNCHANGED <<stores, queues, announced, redelivered>>

\* The process stops: the queues and the handlers are in memory.
Restart ==
  /\ redelivered + errors < MaxFaults
  /\ errors' = errors + 1
  /\ orchQueue' = <<>> /\ stepQueue' = <<>>
  /\ planner' = [p \in Planner |-> IdlePlanner]
  /\ runner' = [r \in Runner |-> IdleRunner]
  /\ UNCHANGED <<stores, announced, redelivered>>

Next ==
  \/ Start
  \/ \E p \in Planner : PlannerStep(p)
  \/ \E r \in Runner : RunnerStep(r)
  \/ Redeliver \/ HandlerError \/ Restart

\* The dispatch loops of the queues run as long as they hold a message, and the
\* host's executor answers.
Fairness == /\ \A p \in Planner : WF_vars(PlannerStep(p))
            /\ \A r \in Runner : WF_vars(RunnerStep(r))

Spec == Init /\ [][Next]_vars /\ Fairness

-----------------------------------------------------------------------------
(* Properties. *)

GraphKeys(g) == nodeIds(g) \X Nat

LifecycleEvent == {"execution:started", "execution:completed", "execution:failed",
                   "step:started", "step:completed", "step:failed"}

\* The parts of the type invariant: the execution, its rows, the messages, the workers.
ExecOK ==
  /\ exec = [status |-> exec.status, graph |-> exec.graph, triggerOutputs |-> exec.triggerOutputs]
  /\ exec.status \in {"none", "queued", "running", "completed", "failed"}
  /\ exec.graph \in Graphs /\ DOMAIN exec.triggerOutputs \subseteq Nat
  /\ exec.status # "none" => exec.graph \in Accepted

StepsOK ==
  /\ steps = [k \in DOMAIN steps |-> steps[k]]
  /\ DOMAIN steps \subseteq GraphKeys(exec.graph)
  /\ \A k \in DOMAIN steps :
       /\ steps[k] = NewRow(steps[k].status, steps[k].outputs)
       /\ steps[k].status \in StepStatus /\ DOMAIN steps[k].outputs \subseteq Nat

QueuesOK ==
  /\ orchQueue \in Seq(DOMAIN steps \cup {Enqueued})
  /\ stepQueue \in Seq(DOMAIN steps)
  /\ redelivered \in Nat /\ errors \in Nat

PlannerOK(l) ==
  /\ l = [pc |-> l.pc, key |-> l.key, terminal |-> l.terminal,
          toQueue |-> l.toQueue, toSkip |-> l.toSkip]
  /\ l.pc \in PlannerPc
  /\ l.pc \notin {"idle", "trigger"} => l.key \in DOMAIN steps
  /\ l.pc = "create" => /\ l.toQueue \cup l.toSkip \subseteq GraphKeys(exec.graph)
                        /\ IsFiniteSet(l.toQueue) /\ IsFiniteSet(l.toSkip)

RunnerOK(l) ==
  /\ l = [pc |-> l.pc, key |-> l.key]
  /\ l.pc \in {"idle", "claimed", "gather", "run", "announce"}
  /\ l.pc # "idle" => l.key \in DOMAIN steps /\ steps[l.key].status # "queued"

WorkersOK ==
  /\ planner = [p \in Planner |-> planner[p]] /\ \A p \in Planner : PlannerOK(planner[p])
  /\ runner = [r \in Runner |-> runner[r]] /\ \A r \in Runner : RunnerOK(runner[r])

\* Rows are written before anything names them: every row is a step of the execution's
\* graph, and every message, planner, runner and published event names a row that exists,
\* so a consumer can always load it; a row a runner holds has been claimed, and what a
\* planner is about to insert are steps of the graph.
TypeOK ==
  /\ ExecOK /\ StepsOK /\ QueuesOK /\ WorkersOK
  /\ announced \subseteq LifecycleEvent \X DOMAIN steps

\* The last passes, from every row there is.
terminalNow == loadTerminalIterations({l.batchNodeId : l \in loops})

\* A planner decides from the few rows it loaded, in two reads, while other planners
\* and runners write; a settled fate is never revised.  Whatever it decided is what the
\* rows decide now ("any planner, at any time, recomputes the same decisions").
FatesConverge ==
  LET terminal == terminalNow IN
  \A k \in DOMAIN steps \ {triggerKey} :
    decideNodeFate(exec.graph, loops, k, steps, terminal)
      = IF steps[k].status = "skipped" THEN "skipped" ELSE "queued"

\* An execution recorded as completed has nothing left to plan, to run or to report:
\* the count of finishExecutionIfDone never passes early, however its reads interleave
\* with loops that advance and branches that settle.
NoEarlyFinish ==
  exec.status = "completed" =>
    /\ \A k \in DOMAIN steps : steps[k].status \in {"completed", "skipped"}
    /\ \A k \in DOMAIN steps :
         LET plan == decideSuccessors(exec.graph, loops, k, steps, terminalNow) IN
         plan.toQueue \cup plan.toSkip = {}
    /\ \A n \in Reachable[exec.graph] :
         \/ \E k \in DOMAIN steps : k[1] = n
         \/ \E l \in loopsOf(loops, n) : terminalNow[l.batchNodeId] = 0

\* What the planner queued, the runner can read: gatherInputs finds one settled source
\* per slot, and a batch node every row of the passes before.
InputsAlwaysReadable ==
  \A r \in Runner : runner[r].pc \in {"gather", "run"} =>
    /\ inputsReadable(runner[r].key)
    /\ isBatch(runner[r].key) =>
         \A l \in loops, i \in 0..runner[r].key[2] - 1 : l.batchNodeId = runner[r].key[1] =>
           \A e \in l.backEdges : <<e.from, i>> \in DOMAIN steps

quiet == /\ orchQueue = <<>> /\ stepQueue = <<>>
         /\ \A p \in Planner : At(p, "idle")
         /\ \A r \in Runner : RunnerAt(r, "idle")

\* When an execution failed and its workers have come to rest, no row waits for a
\* worker that will never come: the sweep and the inserts cannot cross.
NothingStranded ==
  quiet /\ errors = 0 /\ exec.status = "failed" =>
    \A k \in DOMAIN steps : steps[k].status # "queued"

\* A step's executor is started once, whatever is delivered twice or planned twice.
StepRunsOnce ==
  [][\A r \in Runner : runner[r].pc = "claimed" /\ runner'[r].pc = "gather" =>
       <<"step:started", runner[r].key>> \notin announced]_vars

\* A step that was claimed and that no executor can run: nothing takes its row further.
stuckWithoutExecutor ==
  \E k \in DOMAIN steps : steps[k].status = "running" /\ ~isBatch(k) /\ ~hasExecutor(k)

\* Every execution the validation accepts ends, whatever its loops and branches do, unless
\* it comes to a step that has no executor, a handler threw or the process stopped
\* (reconciliation of those does not exist yet).
EveryExecutionEnds ==
  exec.status \in {"queued", "running"}
    ~> (exec.status \in {"completed", "failed"} \/ stuckWithoutExecutor \/ errors > 0)

-----------------------------------------------------------------------------
(* The inductive invariant behind the safety theorems. *)

\* Until the one planner that won the claim has recorded the trigger there are no rows.
TriggerFirst ==
  /\ exec.status \in {"none", "queued"} => DOMAIN steps = {} /\ \A p \in Planner : ~At(p, "trigger")
  /\ \A p, q \in Planner : At(p, "trigger") => DOMAIN steps = {} /\ (At(q, "trigger") => p = q)

\* A claim is one runner's, and a started step is past every claim.
ClaimsUnique ==
  /\ \A r, s \in Runner :
       RunnerAt(r, "claimed") /\ RunnerAt(s, "claimed") /\ runner[r].key = runner[s].key => r = s
  /\ \A k \in DOMAIN steps : <<"step:started", k>> \in announced =>
       steps[k].status # "queued" /\ \A r \in Runner : RunnerAt(r, "claimed") => runner[r].key # k
  /\ \A x \in announced : x[1] = "step:started" => x[2] \in DOMAIN steps

\* Nobody fails an execution without a failed row, and while rows wait after a failure
\* the report of it is on its way to a planner, or a planner is about to sweep.
reportDue ==
  \/ \E k \in Range(orchQueue) : k \in DOMAIN steps /\ steps[k].status = "failed"
  \/ \E r \in Runner : RunnerAt(r, "announce") /\ steps[runner[r].key].status = "failed"
  \/ \E p \in Planner : At(p, "fail") \/ At(p, "sweep")

FailureReported ==
  /\ exec.status = "failed" => hasFailedSteps
  /\ \A p \in Planner : planner[p].pc \in {"fail", "sweep", "failed"} => hasFailedSteps
  /\ errors = 0 /\ hasFailedSteps /\ (\E k \in DOMAIN steps : steps[k].status = "queued") => reportDue

\* The trigger's row is the first, and everything published is about a row.
EventsOK ==
  /\ DOMAIN steps # {} => triggerKey \in DOMAIN steps
  /\ announced \subseteq LifecycleEvent \X DOMAIN steps

IInv == /\ ExecOK /\ StepsOK /\ QueuesOK /\ WorkersOK
        /\ TriggerFirst /\ ClaimsUnique /\ FailureReported
=============================================================================
