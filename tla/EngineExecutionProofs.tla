----------------------- MODULE EngineExecutionProofs -----------------------
(***************************************************************************)
(* Proofs about EngineExecution, for every set of finite graphs, any       *)
(* number of planners and runners and any number of faults: types, the     *)
(* inductive invariant IInv, that a step's executor starts once, and that  *)
(* a failed execution strands no queued row.                               *)
(***************************************************************************)
EXTENDS EngineExecution, CollectionLemmas

-----------------------------------------------------------------------------
\* Graphs.

\* A validated graph has a trigger, and its trigger is one of its nodes.
LEMMA TriggerNode ==
  ASSUME NEW g \in Accepted PROVE findTriggerNode(g) \in nodeIds(g)
<1>1. Cardinality(NodesOfType(g, "trigger")) = 1 BY DEF Accepted, validateExecutableGraph
<1>2. NodesOfType(g, "trigger") # {} BY <1>1, FS_EmptySet
<1> QED BY <1>2 DEF findTriggerNode, NodesOfType

\* A finite set of edges names finitely many keys.
LEMMA FiniteTargets ==
  ASSUME NEW E, IsFiniteSet(E), NEW f, DOMAIN f = E
  PROVE  IsFiniteSet({f[e] : e \in E})
<1> DEFINE T == {f[e] : e \in E}
           h == [e \in E |-> f[e]]
<1>1. h \in Surjection(E, T) BY DEF Surjection
<1> QED BY <1>1, FS_Surjection

\* Whatever rows and loops it is given, decideSuccessors plans finitely many steps, each
\* a node of the graph at an iteration.
LEMMA SuccessorKeys ==
  ASSUME NEW g \in Accepted, NEW ls, NEW key \in GraphKeys(g), NEW rows, NEW terminal
  PROVE  LET plan == decideSuccessors(g, ls, key, rows, terminal) IN
         /\ plan.toQueue \subseteq GraphKeys(g) /\ IsFiniteSet(plan.toQueue)
         /\ plan.toSkip \subseteq GraphKeys(g) /\ IsFiniteSet(plan.toSkip)
<1> DEFINE f == [e \in g.edges |-> targetKey(e, classifyEdge(e, ls), key)]
           all == {f[e] : e \in g.edges}
           plan == decideSuccessors(g, ls, key, rows, terminal)
<1>1. plan.toQueue \subseteq all /\ plan.toSkip \subseteq all BY DEF decideSuccessors
<1>2. IsFiniteSet(g.edges) BY GraphsAssumption DEF Accepted
<1>3. IsFiniteSet(all) BY <1>2, FiniteTargets
<1>4. \A e \in g.edges : e.to \in nodeIds(g)
  BY DEF Accepted, validateExecutableGraph, validateLoops, EndpointsExist
<1>5. \A e \in g.edges : f[e] \in GraphKeys(g)
  <2> SUFFICES ASSUME NEW e \in g.edges, NEW c PROVE targetKey(e, c, key) \in GraphKeys(g)
    OBVIOUS
  <2>1. key[2] \in Nat /\ key[2] + 1 \in Nat /\ e.to \in nodeIds(g) BY <1>4 DEF GraphKeys
  <2>2. targetKey(e, c, key) \in {<<e.to, key[2] + 1>>, <<e.to, 0>>, <<e.to, key[2]>>}
    BY DEF targetKey
  <2> QED BY <2>1, <2>2 DEF GraphKeys
<1> HIDE DEF f, plan
<1>6. IsFiniteSet(plan.toQueue) /\ IsFiniteSet(plan.toSkip) BY <1>1, <1>3, FS_Subset
<1> QED BY <1>1, <1>5, <1>6 DEF plan

-----------------------------------------------------------------------------
\* What no step undoes.

\* Rows are only added, a row once claimed never waits again, and a failure stays.
Evolves ==
  /\ exec'.graph = exec.graph
  /\ DOMAIN steps \subseteq DOMAIN steps'
  /\ \A k \in DOMAIN steps :
       /\ steps[k].status # "queued" => steps'[k].status # "queued"
       /\ steps[k].status = "failed" => steps'[k].status = "failed"

\* A planner's local state stays right while rows evolve.
LEMMA PlannerKept ==
  ASSUME Evolves, NEW l, PlannerOK(l) PROVE PlannerOK(l)'
BY DEF Evolves, PlannerOK, GraphKeys

\* So does a runner's.
LEMMA RunnerKept ==
  ASSUME Evolves, NEW l, RunnerOK(l) PROVE RunnerOK(l)'
BY DEF Evolves, RunnerOK

\* Queued messages keep naming rows.
LEMMA QueuesKept ==
  ASSUME Evolves, QueuesOK
  PROVE  /\ orchQueue \in Seq(DOMAIN steps' \cup {Enqueued})
         /\ stepQueue \in Seq(DOMAIN steps')
<1>1. DOMAIN steps \cup {Enqueued} \subseteq DOMAIN steps' \cup {Enqueued} BY DEF Evolves
<1>2. DOMAIN steps \subseteq DOMAIN steps' BY DEF Evolves
<1> QED BY <1>1, <1>2, SeqMonotonic DEF QueuesOK

\* A failed execution keeps its failed row.
LEMMA FailuresStick ==
  ASSUME Evolves, hasFailedSteps PROVE hasFailedSteps'
BY DEF Evolves, hasFailedSteps

\* An unchanged store evolves.
LEMMA StoresKept ==
  ASSUME UNCHANGED stores PROVE Evolves
BY DEF stores, Evolves

\* The idle states of the workers.
LEMMA IdleOK ==
  PlannerOK(IdlePlanner) /\ RunnerOK(IdleRunner)
BY DEF PlannerOK, IdlePlanner, Holding, PlannerLocal, RunnerOK, IdleRunner, PlannerPc

\* A message that is no step key is not the key of a row.
LEMMA EnqueuedIsNoKey ==
  ASSUME StepsOK PROVE Enqueued \notin DOMAIN steps
<1> SUFFICES ASSUME Enqueued \in DOMAIN steps PROVE FALSE OBVIOUS
<1>1. PICK n, i : Enqueued = <<n, i>> BY DEF StepsOK, GraphKeys
<1> QED BY <1>1 DEF Enqueued

-----------------------------------------------------------------------------
\* Planners.

\* Between two awaits a planner only moves on: nothing else is disturbed, unless it was
\* the sweeper.
LEMMA PlannerMoves ==
  ASSUME IInv, NEW p \in Planner, NEW l, PlannerOK(l), planner' = [planner EXCEPT ![p] = l],
         UNCHANGED <<stores, queues, runner, announced, faults>>,
         l.pc # "trigger",
         l.pc \in {"fail", "sweep", "failed"} => hasFailedSteps,
         At(p, "fail") \/ At(p, "sweep") => l.pc \in {"fail", "sweep"}
  PROVE  IInv'
<1>0. Evolves BY StoresKept
<1>1. UNCHANGED <<exec, steps, orchQueue, stepQueue, runner, announced, redelivered, errors>>
  BY DEF stores, queues, faults
<1>2. \A q \in Planner : planner'[q] = IF q = p THEN l ELSE planner[q]
  BY DEF IInv, WorkersOK
<1>3. ExecOK' /\ StepsOK' /\ QueuesOK' BY <1>1 DEF IInv, ExecOK, StepsOK, QueuesOK
<1>4. WorkersOK'
  <2>1. planner' = [q \in Planner |-> planner'[q]] BY DEF IInv, WorkersOK
  <2>2. ASSUME NEW q \in Planner PROVE PlannerOK(planner[q])'
    <3>1. PlannerOK(planner'[q]) BY <1>2 DEF IInv, WorkersOK
    <3> QED BY <1>1, <3>1 DEF PlannerOK, GraphKeys
  <2>3. \A r \in Runner : RunnerOK(runner[r])' BY <1>1 DEF IInv, WorkersOK, RunnerOK
  <2> QED BY <1>1, <2>1, <2>2, <2>3 DEF IInv, WorkersOK
<1>5. TriggerFirst' BY <1>1, <1>2 DEF IInv, TriggerFirst, At
<1>6. ClaimsUnique' BY <1>1 DEF IInv, ClaimsUnique, RunnerAt
<1>7. FailureReported'
  <2>1. hasFailedSteps' <=> hasFailedSteps BY <1>1 DEF hasFailedSteps
  <2>2. reportDue => reportDue'
    BY <1>1, <1>2 DEF reportDue, At, RunnerAt
  <2> QED BY <1>1, <1>2, <2>1, <2>2 DEF IInv, FailureReported
<1> QED BY <1>3, <1>4, <1>5, <1>6, <1>7 DEF IInv

\* A planner that has its message's row moves on with the same message.
LEMMA PlannerAdvances ==
  ASSUME NEW l, PlannerOK(l), l.key \in DOMAIN steps, NEW pc \in PlannerPc \ {"create"}
  PROVE  PlannerOK([l EXCEPT !.pc = pc]) /\ [l EXCEPT !.pc = pc].pc = pc
<1>0. PICK a, b, c, d, e : l = [pc |-> a, key |-> b, terminal |-> c, toQueue |-> d, toSkip |-> e]
  BY DEF PlannerOK
<1>1. l.key = b BY <1>0
<1>2. [l EXCEPT !.pc = pc] = [pc |-> pc, key |-> b, terminal |-> c, toQueue |-> d, toSkip |-> e]
  BY <1>0
<1> QED BY <1>1, <1>2 DEF PlannerOK

\* What it holds at an await is right for any last passes it has read and any plan over
\* the graph.
LEMMA PlannerHolds ==
  ASSUME NEW key \in DOMAIN steps, NEW pc \in PlannerPc, NEW t, NEW q, NEW k,
         pc = "create" => /\ q \cup k \subseteq GraphKeys(exec.graph)
                          /\ IsFiniteSet(q) /\ IsFiniteSet(k)
  PROVE  PlannerOK(PlannerLocal(pc, key, t, q, k)) /\ PlannerLocal(pc, key, t, q, k).pc = pc
BY DEF PlannerOK, PlannerLocal

\* The read-only awaits of a planner.
LEMMA PlannerReads ==
  ASSUME IInv, NEW p \in Planner,
         CheckFailed(p) \/ LoadTerminal(p) \/ LoadEnded(p) \/ CountSettled(p) \/ ReadVerdict(p)
  PROVE  IInv'
<1> DEFINE l == planner[p]
<1>0. PlannerOK(l) BY DEF IInv, WorkersOK
<1>1. l.pc \in {"check", "terminal", "ended", "count", "verdict"} /\ l.key \in DOMAIN steps
  BY <1>0 DEF PlannerOK, CheckFailed, LoadTerminal, LoadEnded, CountSettled, ReadVerdict, At
<1>2. UNCHANGED <<stores, queues, runner, announced, faults>>
  BY DEF CheckFailed, LoadTerminal, LoadEnded, CountSettled, ReadVerdict
<1>3. ASSUME NEW m, PlannerOK(m), planner' = [planner EXCEPT ![p] = m],
             m.pc \notin {"trigger", "sweep"}, m.pc \in {"fail", "failed"} => hasFailedSteps
      PROVE  IInv'
  BY <1>1, <1>2, <1>3, PlannerMoves DEF At
<1>4. ASSUME planner' = [planner EXCEPT ![p] = IdlePlanner] PROVE IInv'
  <2>1. IdlePlanner.pc = "idle" BY DEF IdlePlanner, Holding, PlannerLocal
  <2> QED BY <1>3, <1>4, <2>1, IdleOK
<1>5. ASSUME NEW t, NEW pc \in {"read", "count", "verdict"},
             planner' = [planner EXCEPT ![p] = PlannerLocal(pc, l.key, t, {}, {})]
      PROVE  IInv'
  <2>1. pc \in PlannerPc /\ pc # "create" BY DEF PlannerPc
  <2>2. LET m == PlannerLocal(pc, l.key, t, {}, {}) IN PlannerOK(m) /\ m.pc = pc
    BY <1>1, <2>1, PlannerHolds
  <2> HIDE DEF l
  <2> QED BY <1>3, <1>5, <2>2
<1>6. ASSUME NEW pc \in {"fail", "terminal", "failed", "completed"},
             planner' = [planner EXCEPT ![p] = [l EXCEPT !.pc = pc]],
             pc \in {"fail", "failed"} => hasFailedSteps
      PROVE  IInv'
  <2>1. pc \in PlannerPc \ {"create"} BY DEF PlannerPc
  <2>2. LET m == [l EXCEPT !.pc = pc] IN PlannerOK(m) /\ m.pc = pc
    BY <1>0, <1>1, <2>1, PlannerAdvances
  <2> HIDE DEF l
  <2> QED BY <1>3, <1>6, <2>2
<1>7. CASE CheckFailed(p)
  <2>1. CASE hasFailedSteps BY <1>6, <1>7, <2>1 DEF CheckFailed, advance, goto
  <2>2. CASE ~hasFailedSteps BY <1>6, <1>7, <2>2 DEF CheckFailed, advance, goto
  <2> QED BY <2>1, <2>2
<1>8. CASE LoadTerminal(p) BY <1>5, <1>8 DEF LoadTerminal, goto
<1>9. CASE LoadEnded(p) BY <1>4, <1>5, <1>9 DEF LoadEnded, goto, done
<1>10. CASE CountSettled(p) BY <1>4, <1>5, <1>10 DEF CountSettled, goto, done, Holding
<1>11. CASE ReadVerdict(p)
  <2>1. CASE hasFailedSteps BY <1>6, <1>11, <2>1 DEF ReadVerdict, advance, goto
  <2>2. CASE ~hasFailedSteps BY <1>6, <1>11, <2>2 DEF ReadVerdict, advance, goto
  <2> QED BY <2>1, <2>2
<1> QED BY <1>7, <1>8, <1>9, <1>10, <1>11

\* The planning await: what is planned are keys of the graph.
LEMMA DecideInv ==
  ASSUME IInv, NEW p \in Planner, DecideSuccessors(p) PROVE IInv'
<1> DEFINE l == planner[p]
<1>0. PlannerOK(l) BY DEF IInv, WorkersOK
<1>1. l.pc = "read" /\ l.key \in DOMAIN steps BY <1>0 DEF PlannerOK, DecideSuccessors, At
<1>2. l.key \in GraphKeys(exec.graph) /\ exec.graph \in Accepted
  BY <1>1 DEF IInv, StepsOK, ExecOK, TriggerFirst
<1>3. PICK rows : LET plan == decideSuccessors(exec.graph, loops, l.key, rows, l.terminal)
                      pc == IF plan.toQueue \cup plan.toSkip = {} THEN "ended" ELSE "create"
                  IN planner' = [planner EXCEPT ![p] =
                       PlannerLocal(pc, l.key, NoOutputs, plan.toQueue, plan.toSkip)]
  BY DEF DecideSuccessors, goto
<1> DEFINE plan == decideSuccessors(exec.graph, loops, l.key, rows, l.terminal)
           q == plan.toQueue
           k == plan.toSkip
           pc == IF q \cup k = {} THEN "ended" ELSE "create"
           m == PlannerLocal(pc, l.key, NoOutputs, q, k)
<1>4. q \cup k \subseteq GraphKeys(exec.graph) /\ IsFiniteSet(q) /\ IsFiniteSet(k)
  BY <1>2, SuccessorKeys
<1>5. planner' = [planner EXCEPT ![p] = m] BY <1>3
<1>6. pc \in PlannerPc /\ pc \in {"ended", "create"} BY DEF PlannerPc
<1> HIDE DEF q, k, pc
<1>7. PlannerOK(m) /\ m.pc = pc BY <1>1, <1>4, <1>6, PlannerHolds
<1>8. UNCHANGED <<stores, queues, runner, announced, faults>> BY DEF DecideSuccessors
<1>9. ~At(p, "fail") /\ ~At(p, "sweep") BY <1>1 DEF At
<1> HIDE DEF l, m
<1> QED BY <1>5, <1>6, <1>7, <1>8, <1>9, PlannerMoves

\* Before the trigger is recorded no worker holds anything.
LEMMA NothingBeforeTrigger ==
  ASSUME IInv, DOMAIN steps = {}
  PROVE  /\ \A p \in Planner : planner[p].pc \in {"idle", "trigger"}
         /\ \A r \in Runner : RunnerAt(r, "idle")
         /\ ~hasFailedSteps
BY DEF IInv, WorkersOK, PlannerOK, RunnerOK, RunnerAt, hasFailedSteps

\* A start request adds the row and its message.
LEMMA StartInv ==
  ASSUME IInv, Start PROVE IInv'
<1>1. PICK g \in Accepted, outputs \in TriggerOutputs :
        exec' = [status |-> "queued", graph |-> g, triggerOutputs |-> outputs]
  BY DEF Start
<1>2. /\ DOMAIN steps = {} /\ \A p \in Planner : ~At(p, "trigger")
      /\ UNCHANGED <<steps, stepQueue, planner, runner, announced, redelivered, errors>>
      /\ orchQueue' = Append(orchQueue, Enqueued)
  BY DEF Start, IInv, TriggerFirst, faults
<1>3. /\ \A p \in Planner : planner[p].pc = "idle"
      /\ \A r \in Runner : runner[r].pc = "idle"
  BY <1>2, NothingBeforeTrigger DEF At, RunnerAt
<1>4. ExecOK' BY <1>1, OutputsAssumption DEF ExecOK, Accepted
<1>5. StepsOK' BY <1>2 DEF IInv, StepsOK
<1>6. QueuesOK'
  <2>1. orchQueue' \in Seq(DOMAIN steps \cup {Enqueued} \cup {Enqueued})
    BY <1>2, RangeOfAppend DEF IInv, QueuesOK
  <2>2. DOMAIN steps \cup {Enqueued} \cup {Enqueued} = DOMAIN steps \cup {Enqueued} OBVIOUS
  <2> QED BY <1>2, <2>1, <2>2 DEF IInv, QueuesOK
<1>7. WorkersOK'
  BY <1>2, <1>3 DEF IInv, WorkersOK, PlannerOK, RunnerOK
<1>8. TriggerFirst' BY <1>2, <1>3 DEF TriggerFirst, At
<1>9. ClaimsUnique' BY <1>2 DEF IInv, ClaimsUnique, RunnerAt
<1>10. FailureReported' BY <1>1, <1>2, <1>3 DEF FailureReported
<1> QED BY <1>4, <1>5, <1>6, <1>7, <1>8, <1>9, <1>10 DEF IInv

\* Taking a message off the orchestration queue.
LEMMA OrchTail ==
  ASSUME IInv, orchQueue # <<>>
  PROVE  /\ Head(orchQueue) \in DOMAIN steps \cup {Enqueued}
         /\ Tail(orchQueue) \in Seq(DOMAIN steps \cup {Enqueued})
         /\ Range(orchQueue) = {Head(orchQueue)} \cup Range(Tail(orchQueue))
BY RangeOfTail DEF IInv, QueuesOK

\* One planner wins the claim of the execution; a second delivery changes nothing.
LEMMA ClaimExecutionInv ==
  ASSUME IInv, NEW p \in Planner, ClaimExecution(p) PROVE IInv'
<1>1. /\ At(p, "idle") /\ orchQueue # <<>> /\ Head(orchQueue) = Enqueued
      /\ orchQueue' = Tail(orchQueue)
      /\ UNCHANGED <<steps, stepQueue, runner, announced, redelivered, errors>>
  BY DEF ClaimExecution, faults
<1>2. QueuesOK' BY <1>1, OrchTail DEF IInv, QueuesOK
<1>3. StepsOK /\ Enqueued \notin DOMAIN steps BY EnqueuedIsNoKey DEF IInv
<1>4. CASE exec.status = "queued"
  <2> DEFINE l == planner[p]
             m == [l EXCEPT !.pc = "trigger"]
  <2>1. exec' = [exec EXCEPT !.status = "running"] /\ planner' = [planner EXCEPT ![p] = m]
    BY <1>1, <1>4 DEF ClaimExecution, advance, goto
  <2>2. DOMAIN steps = {} /\ \A q \in Planner : ~At(q, "trigger")
    BY <1>4 DEF IInv, TriggerFirst
  <2>3. \A q \in Planner : planner[q].pc = "idle"
    BY <2>2, NothingBeforeTrigger DEF At
  <2>4. PlannerOK(l) BY DEF IInv, WorkersOK
  <2>5. /\ m = [pc |-> m.pc, key |-> m.key, terminal |-> m.terminal,
                toQueue |-> m.toQueue, toSkip |-> m.toSkip]
        /\ m.pc = "trigger"
    BY <2>4 DEF PlannerOK
  <2>6. \A q \in Planner : planner'[q] = IF q = p THEN m ELSE planner[q]
    BY <2>1 DEF IInv, WorkersOK
  <2> HIDE DEF l, m
  <2>7. ExecOK' /\ exec'.graph = exec.graph /\ exec'.status = "running"
    BY <1>4, <2>1 DEF IInv, ExecOK
  <2>8. StepsOK' BY <1>1, <1>3, <2>7 DEF StepsOK
  <2>9. WorkersOK'
    <3>1. planner' = [q \in Planner |-> planner'[q]] BY <2>1 DEF IInv, WorkersOK
    <3>2. \A q \in Planner : PlannerOK(planner[q])'
      BY <2>3, <2>5, <2>6 DEF IInv, WorkersOK, PlannerOK, PlannerPc
    <3> QED BY <1>1, <3>1, <3>2 DEF IInv, WorkersOK, RunnerOK
  <2>10. TriggerFirst' BY <1>1, <2>2, <2>3, <2>5, <2>6, <2>7 DEF TriggerFirst, At
  <2>11. ClaimsUnique' BY <1>1 DEF IInv, ClaimsUnique, RunnerAt
  <2>12. FailureReported' BY <1>1, <2>2, <2>3, <2>5, <2>6, <2>7 DEF FailureReported
  <2> QED BY <1>2, <2>7, <2>8, <2>9, <2>10, <2>11, <2>12 DEF IInv
<1>5. CASE exec.status # "queued"
  <2>1. UNCHANGED <<exec, planner>> BY <1>1, <1>5 DEF ClaimExecution
  <2>2. ExecOK' /\ StepsOK' /\ WorkersOK'
    BY <1>1, <2>1 DEF IInv, ExecOK, StepsOK, WorkersOK, PlannerOK, RunnerOK
  <2>3. TriggerFirst' /\ ClaimsUnique'
    BY <1>1, <2>1 DEF IInv, TriggerFirst, ClaimsUnique, At, RunnerAt
  <2>4. reportDue => reportDue'
    BY <1>1, <1>3, <2>1, OrchTail DEF reportDue, At, RunnerAt
  <2>5. FailureReported' BY <1>1, <2>1, <2>4 DEF IInv, FailureReported, hasFailedSteps
  <2> QED BY <1>2, <2>2, <2>3, <2>5 DEF IInv
<1> QED BY <1>4, <1>5

\* The planner that won records the trigger, the first row.
LEMMA CreateTriggerInv ==
  ASSUME IInv, NEW p \in Planner, CreateTrigger(p) PROVE IInv'
<1> DEFINE row == NewRow("completed", exec.triggerOutputs)
<1>1. /\ At(p, "trigger") /\ DOMAIN steps = {}
      /\ steps' = [k \in DOMAIN steps \cup {triggerKey} |-> IF k = triggerKey THEN row ELSE steps[k]]
      /\ announced' = announced \cup {<<"execution:started", triggerKey>>}
      /\ orchQueue' = Append(orchQueue, triggerKey)
      /\ planner' = [planner EXCEPT ![p] = IdlePlanner]
      /\ UNCHANGED <<exec, stepQueue, runner, redelivered, errors>>
  BY DEF CreateTrigger, faults, done, goto, IInv, TriggerFirst
<1>2. DOMAIN steps' = {triggerKey} /\ steps'[triggerKey] = row BY <1>1
<1>3. /\ row = [status |-> "completed", outputs |-> exec.triggerOutputs]
      /\ row.status = "completed" /\ row.outputs = exec.triggerOutputs
  BY DEF NewRow
<1>4. exec.graph \in Accepted /\ exec.status \notin {"none", "queued"}
  BY <1>1 DEF IInv, ExecOK, TriggerFirst
<1>5. triggerKey \in GraphKeys(exec.graph) BY <1>4, TriggerNode DEF triggerKey, GraphKeys
<1>6. /\ \A q \in Planner : planner'[q] = IF q = p THEN IdlePlanner ELSE planner[q]
      /\ \A q \in Planner : q # p => planner[q].pc = "idle"
      /\ IdlePlanner.pc = "idle"
  <2>1. \A q \in Planner : q # p => planner[q].pc = "idle"
    BY <1>1, NothingBeforeTrigger DEF IInv, TriggerFirst, At
  <2> QED BY <1>1, <2>1 DEF IInv, WorkersOK, IdlePlanner, Holding, PlannerLocal
<1>7. \A r \in Runner : runner[r].pc = "idle" BY <1>1, NothingBeforeTrigger DEF RunnerAt
<1> HIDE DEF row
<1>8. ExecOK' BY <1>1 DEF IInv, ExecOK
<1>9. StepsOK'
  <2>1. steps' = [k \in DOMAIN steps' |-> steps'[k]] BY <1>1
  <2>2. DOMAIN exec.triggerOutputs \subseteq Nat BY DEF IInv, ExecOK
  <2> QED BY <1>1, <1>2, <1>3, <1>5, <2>1, <2>2 DEF StepsOK, NewRow, StepStatus, Settled
<1>10. QueuesOK'
  <2>1. orchQueue \in Seq({Enqueued}) /\ stepQueue \in Seq({}) BY <1>1 DEF IInv, QueuesOK
  <2>2. orchQueue' \in Seq({Enqueued} \cup {triggerKey}) BY <1>1, <2>1, RangeOfAppend
  <2>3. {Enqueued} \cup {triggerKey} = DOMAIN steps' \cup {Enqueued} BY <1>2
  <2>4. stepQueue \in Seq(DOMAIN steps') BY <2>1, SeqMonotonic
  <2> QED BY <1>1, <2>2, <2>3, <2>4 DEF IInv, QueuesOK
<1>11. WorkersOK'
  <2>1. planner' = [q \in Planner |-> planner'[q]] BY <1>1 DEF IInv, WorkersOK
  <2>2. \A q \in Planner : PlannerOK(planner[q])'
    BY <1>6, IdleOK DEF IInv, WorkersOK, PlannerOK
  <2>3. \A r \in Runner : RunnerOK(runner[r])' BY <1>1, <1>7 DEF IInv, WorkersOK, RunnerOK
  <2> QED BY <1>1, <2>1, <2>2, <2>3 DEF IInv, WorkersOK
<1>12. TriggerFirst' BY <1>1, <1>4, <1>6 DEF TriggerFirst, At
<1>13. ClaimsUnique'
  <2>1. \A x \in announced : x[1] # "step:started" BY <1>1 DEF IInv, ClaimsUnique
  <2>2. \A x \in announced' : x[1] # "step:started" BY <1>1, <2>1
  <2>3. \A k : <<"step:started", k>> \notin announced' BY <2>2
  <2> QED BY <1>1, <1>7, <2>2, <2>3 DEF ClaimsUnique, RunnerAt
<1>14. FailureReported'
  <2>1. ~hasFailedSteps BY <1>1 DEF hasFailedSteps
  <2>2. exec.status # "failed" BY <2>1 DEF IInv, FailureReported
  <2> QED BY <1>1, <1>2, <1>3, <1>6, <2>2 DEF FailureReported
<1> QED BY <1>8, <1>9, <1>10, <1>11, <1>12, <1>13, <1>14 DEF IInv

\* What moves one planner and lets rows evolve keeps every worker's state right.
LEMMA PlannersKept ==
  ASSUME IInv, Evolves, NEW p \in Planner, NEW l, PlannerOK(l),
         planner' = [planner EXCEPT ![p] = l], UNCHANGED runner
  PROVE  /\ WorkersOK'
         /\ \A q \in Planner : planner'[q] = IF q = p THEN l ELSE planner[q]
<1>1. \A q \in Planner : planner'[q] = IF q = p THEN l ELSE planner[q] BY DEF IInv, WorkersOK
<1>2. planner' = [q \in Planner |-> planner'[q]] BY DEF IInv, WorkersOK
<1>3. ASSUME NEW q \in Planner PROVE PlannerOK(planner[q])'
  <2>1. PlannerOK(planner'[q]) BY <1>1 DEF IInv, WorkersOK
  <2> QED BY <2>1 DEF Evolves, PlannerOK, GraphKeys
<1>4. ASSUME NEW r \in Runner PROVE RunnerOK(runner[r])'
  <2>1. RunnerOK(runner[r]) BY DEF IInv, WorkersOK
  <2> QED BY <2>1 DEF Evolves, RunnerOK
<1> QED BY <1>1, <1>2, <1>3, <1>4 DEF IInv, WorkersOK

\* What moves one runner does too.
LEMMA RunnersKept ==
  ASSUME IInv, Evolves, NEW r \in Runner, NEW l, RunnerOK(l)',
         runner' = [runner EXCEPT ![r] = l], UNCHANGED planner
  PROVE  /\ WorkersOK'
         /\ \A s \in Runner : runner'[s] = IF s = r THEN l ELSE runner[s]
<1>1. \A s \in Runner : runner'[s] = IF s = r THEN l ELSE runner[s] BY DEF IInv, WorkersOK
<1>2. runner' = [s \in Runner |-> runner'[s]] BY DEF IInv, WorkersOK
<1>3. ASSUME NEW s \in Runner PROVE RunnerOK(runner[s])'
  <2>1. s # r => RunnerOK(runner[s]) BY DEF IInv, WorkersOK
  <2> QED BY <1>1, <2>1 DEF Evolves, RunnerOK
<1>4. ASSUME NEW p \in Planner PROVE PlannerOK(planner[p])'
  <2>1. PlannerOK(planner[p]) BY DEF IInv, WorkersOK
  <2> QED BY <2>1 DEF Evolves, PlannerOK, GraphKeys
<1> QED BY <1>1, <1>2, <1>3, <1>4 DEF IInv, WorkersOK

\* The order of the trigger is only at stake while there are no rows.
LEMMA TriggerKept ==
  ASSUME IInv, exec'.status \in {"none", "queued"} => exec'.status = exec.status,
         DOMAIN steps = {} => DOMAIN steps' = {},
         \A p \in Planner : planner'[p].pc = "trigger" => planner[p].pc = "trigger"
  PROVE  TriggerFirst'
BY DEF IInv, TriggerFirst, At

\* A planner that waits for nothing else than its message.
LEMMA HoldingOK ==
  ASSUME NEW key \in DOMAIN steps, NEW pc \in PlannerPc \ {"create"}
  PROVE  PlannerOK(Holding(pc, key)) /\ Holding(pc, key).pc = pc
BY DEF PlannerOK, Holding, PlannerLocal

\* A settled step's message is taken, and the report of a failure becomes a sweep.
LEMMA HandleSettledInv ==
  ASSUME IInv, NEW p \in Planner, HandleSettled(p) PROVE IInv'
<1> DEFINE key == Head(orchQueue)
<1>1. /\ At(p, "idle") /\ orchQueue # <<>> /\ key # Enqueued
      /\ orchQueue' = Tail(orchQueue)
      /\ UNCHANGED <<exec, steps, stepQueue, runner, announced, redelivered, errors>>
      /\ UNCHANGED stores
  BY DEF HandleSettled, faults, stores
<1>2. key \in DOMAIN steps BY <1>1, OrchTail
<1>3. \/ UNCHANGED planner /\ steps[key].status # "failed"
      \/ \E pc \in {"fail", "check", "ended"} :
           /\ planner' = [planner EXCEPT ![p] = Holding(pc, key)]
           /\ (pc = "fail") = (steps[key].status = "failed")
  BY DEF HandleSettled, goto
<1> HIDE DEF key
<1>4. Evolves BY <1>1, StoresKept
<1>5. ExecOK' /\ StepsOK' BY <1>1 DEF IInv, ExecOK, StepsOK
<1>6. QueuesOK' BY <1>1, OrchTail DEF IInv, QueuesOK
<1>7. ClaimsUnique' BY <1>1 DEF IInv, ClaimsUnique, RunnerAt
<1>8. Range(orchQueue) = {key} \cup Range(orchQueue') BY <1>1, OrchTail DEF key
<1>9. hasFailedSteps' <=> hasFailedSteps BY <1>1 DEF hasFailedSteps
<1>10. CASE UNCHANGED planner /\ steps[key].status # "failed"
  <2>1. WorkersOK' BY <1>1, <1>10 DEF IInv, WorkersOK, PlannerOK, RunnerOK
  <2>2. TriggerFirst' BY <1>1, <1>10, TriggerKept
  <2>3. reportDue => reportDue' BY <1>1, <1>8, <1>10 DEF reportDue, At, RunnerAt
  <2>4. FailureReported' BY <1>1, <1>9, <1>10, <2>3 DEF IInv, FailureReported
  <2> QED BY <1>5, <1>6, <1>7, <2>1, <2>2, <2>4 DEF IInv
<1>11. CASE \E pc \in {"fail", "check", "ended"} :
           /\ planner' = [planner EXCEPT ![p] = Holding(pc, key)]
           /\ (pc = "fail") = (steps[key].status = "failed")
  <2>1. PICK pc \in {"fail", "check", "ended"} :
           /\ planner' = [planner EXCEPT ![p] = Holding(pc, key)]
           /\ (pc = "fail") = (steps[key].status = "failed")
    BY <1>11
  <2> DEFINE l == Holding(pc, key)
  <2>2. pc \in PlannerPc \ {"create"} BY DEF PlannerPc
  <2>3. PlannerOK(l) /\ l.pc = pc BY <1>2, <2>2, HoldingOK
  <2> HIDE DEF l
  <2>4. WorkersOK' /\ \A q \in Planner : planner'[q] = IF q = p THEN l ELSE planner[q]
    BY <1>1, <1>4, <2>1, <2>3, PlannersKept DEF l
  <2>5. TriggerFirst' BY <1>1, <2>3, <2>4, TriggerKept
  <2>6. pc = "fail" => hasFailedSteps BY <1>2, <2>1 DEF hasFailedSteps
  <2>7. reportDue => reportDue'
    <3>1. CASE pc = "fail" BY <2>3, <2>4, <3>1 DEF reportDue, At
    <3>2. CASE pc # "fail" BY <1>1, <1>8, <2>1, <2>3, <2>4, <3>2 DEF reportDue, At, RunnerAt
    <3> QED BY <3>1, <3>2
  <2>8. FailureReported' BY <1>1, <1>9, <2>3, <2>4, <2>6, <2>7 DEF IInv, FailureReported
  <2> QED BY <1>5, <1>6, <1>7, <2>4, <2>5, <2>8 DEF IInv
<1> QED BY <1>3, <1>10, <1>11

\* The execution's row is finished at most once, and announces no start.
LEMMA FinishEffect ==
  ASSUME IInv, NEW status \in {"completed", "failed"}, finishExecution(status), UNCHANGED steps
  PROVE  /\ ExecOK' /\ StepsOK' /\ Evolves
         /\ exec'.status \in {exec.status, status}
         /\ exec'.status \in {"none", "queued"} => exec'.status = exec.status
         /\ \A k : <<"step:started", k>> \in announced' => <<"step:started", k>> \in announced
         /\ \A x \in announced' : x[1] = "step:started" => x \in announced
<1>1. CASE exec.status = "running"
  <2>1. /\ exec' = [exec EXCEPT !.status = status]
        /\ announced' = announced \cup {<<finishedEvent(status), triggerKey>>}
    BY <1>1 DEF finishExecution
  <2>2. exec'.status = status /\ exec'.graph = exec.graph /\ ExecOK'
    BY <1>1, <2>1 DEF IInv, ExecOK
  <2>3. finishedEvent(status) # "step:started" BY DEF finishedEvent
  <2>4. Evolves BY <2>2 DEF Evolves
  <2>5. StepsOK' BY <2>2 DEF IInv, StepsOK
  <2>6. \A x \in announced' : x[1] = "step:started" => x \in announced BY <2>1, <2>3
  <2>7. \A k : <<"step:started", k>>[1] = "step:started" OBVIOUS
  <2> QED BY <2>2, <2>4, <2>5, <2>6, <2>7
<1>2. CASE exec.status # "running"
  <2>1. UNCHANGED <<exec, announced>> BY <1>2 DEF finishExecution
  <2> QED BY <2>1 DEF IInv, ExecOK, StepsOK, Evolves
<1> QED BY <1>1, <1>2

\* Finishing and moving on: the status of the row is backed by a failed row.
LEMMA FinishInv ==
  ASSUME IInv, NEW p \in Planner, NEW status \in {"completed", "failed"},
         finishExecution(status), status = "failed" => hasFailedSteps,
         NEW l, PlannerOK(l), planner' = [planner EXCEPT ![p] = l],
         l.pc \in {"idle", "sweep"}, l.pc = "sweep" => hasFailedSteps,
         ~At(p, "sweep"), At(p, "fail") => l.pc = "sweep",
         UNCHANGED <<steps, queues, runner, faults>>
  PROVE  IInv'
<1>1. UNCHANGED <<steps, orchQueue, stepQueue, runner, redelivered, errors>>
  BY DEF queues, faults
<1>2. /\ ExecOK' /\ StepsOK' /\ Evolves
      /\ exec'.status \in {exec.status, status}
      /\ exec'.status \in {"none", "queued"} => exec'.status = exec.status
      /\ \A k : <<"step:started", k>> \in announced' => <<"step:started", k>> \in announced
      /\ \A x \in announced' : x[1] = "step:started" => x \in announced
  BY <1>1, FinishEffect
<1>3. WorkersOK' /\ \A q \in Planner : planner'[q] = IF q = p THEN l ELSE planner[q]
  BY <1>1, <1>2, PlannersKept
<1>4. QueuesOK' BY <1>1 DEF IInv, QueuesOK
<1>5. TriggerFirst' BY <1>1, <1>2, <1>3, TriggerKept
<1>6. ClaimsUnique' BY <1>1, <1>2 DEF IInv, ClaimsUnique, RunnerAt
<1>7. FailureReported'
  <2>1. hasFailedSteps' <=> hasFailedSteps BY <1>1 DEF hasFailedSteps
  <2>2. reportDue => reportDue' BY <1>1, <1>3 DEF reportDue, At, RunnerAt
  <2> QED BY <1>1, <1>2, <1>3, <2>1, <2>2 DEF IInv, FailureReported
<1> QED BY <1>2, <1>3, <1>4, <1>5, <1>6, <1>7 DEF IInv

\* A planner that met a failed step fails the execution and goes on to the sweep.
LEMMA FailExecutionInv ==
  ASSUME IInv, NEW p \in Planner, FailExecution(p) PROVE IInv'
<1> DEFINE l == planner[p]
           m == [l EXCEPT !.pc = "sweep"]
<1>1. /\ l.pc = "fail" /\ finishExecution("failed") /\ planner' = [planner EXCEPT ![p] = m]
      /\ UNCHANGED <<steps, queues, runner, faults>>
  BY DEF FailExecution, At, advance, goto
<1>2. PlannerOK(l) /\ hasFailedSteps BY <1>1 DEF IInv, WorkersOK, FailureReported
<1>3. l.key \in DOMAIN steps BY <1>1, <1>2 DEF PlannerOK
<1>4. PlannerOK(m) /\ m.pc = "sweep" BY <1>2, <1>3, PlannerAdvances DEF PlannerPc
<1>5. ~At(p, "sweep") BY <1>1 DEF At
<1> HIDE DEF l, m
<1> QED BY <1>1, <1>2, <1>4, <1>5, FinishInv

\* The verdict is written, as failed only where a failed row was read.
LEMMA FinishExecutionInv ==
  ASSUME IInv, NEW p \in Planner, FinishExecution(p) PROVE IInv'
<1> DEFINE status == planner[p].pc
<1>1. /\ status \in {"completed", "failed"} /\ finishExecution(status)
      /\ planner' = [planner EXCEPT ![p] = IdlePlanner]
      /\ UNCHANGED <<steps, queues, runner, faults>>
  BY DEF FinishExecution, At, done, goto
<1>2. status = "failed" => hasFailedSteps BY DEF IInv, FailureReported
<1>3. ~At(p, "sweep") /\ ~At(p, "fail") BY <1>1 DEF At
<1>4. PlannerOK(IdlePlanner) /\ IdlePlanner.pc = "idle"
  BY IdleOK DEF IdlePlanner, Holding, PlannerLocal
<1> HIDE DEF status
<1> QED BY <1>1, <1>2, <1>3, <1>4, FinishInv

\* The sweep cancels what waits: nothing is left to report.
LEMMA SweepInv ==
  ASSUME IInv, NEW p \in Planner, SweepQueued(p) PROVE IInv'
<1>1. /\ steps' = [k \in DOMAIN steps |->
              IF steps[k].status = "queued" THEN NewRow("cancelled", NoOutputs) ELSE steps[k]]
      /\ planner' = [planner EXCEPT ![p] = IdlePlanner]
      /\ UNCHANGED <<exec, orchQueue, stepQueue, runner, announced, redelivered, errors>>
  BY DEF SweepQueued, done, goto, queues, faults, cancelQueuedSteps
<1>2. DOMAIN steps' = DOMAIN steps BY <1>1
<1>3. \A k \in DOMAIN steps : steps'[k] = IF steps[k].status = "queued"
        THEN NewRow("cancelled", NoOutputs) ELSE steps[k]
  BY <1>1
<1>4. LET row == NewRow("cancelled", NoOutputs) IN
      /\ row = NewRow(row.status, row.outputs) /\ row.status = "cancelled"
      /\ DOMAIN row.outputs = {}
  BY DEF NewRow, NoOutputs
<1>5. StepsOK'
  <2>1. steps' = [k \in DOMAIN steps' |-> steps'[k]] BY <1>1
  <2>2. "cancelled" \in StepStatus BY DEF StepStatus, Settled
  <2>3. ASSUME NEW k \in DOMAIN steps
        PROVE  /\ steps'[k] = NewRow(steps'[k].status, steps'[k].outputs)
               /\ steps'[k].status \in StepStatus /\ DOMAIN steps'[k].outputs \subseteq Nat
    BY <1>3, <1>4, <2>2 DEF IInv, StepsOK
  <2>4. DOMAIN steps \subseteq GraphKeys(exec.graph) BY DEF IInv, StepsOK
  <2> QED BY <1>1, <1>2, <2>1, <2>3, <2>4 DEF StepsOK
<1>6. Evolves BY <1>1, <1>2, <1>3, <1>4 DEF Evolves
<1>7. ExecOK' BY <1>1 DEF IInv, ExecOK
<1>8. QueuesOK' BY <1>1, <1>2 DEF IInv, QueuesOK
<1>9. IdlePlanner.pc = "idle" BY DEF IdlePlanner, Holding, PlannerLocal
<1>10. WorkersOK' /\ \A q \in Planner : planner'[q] = IF q = p THEN IdlePlanner ELSE planner[q]
  BY <1>1, <1>6, IdleOK, PlannersKept
<1>11. TriggerFirst' BY <1>1, <1>2, <1>9, <1>10, TriggerKept
<1>12. ClaimsUnique' BY <1>1, <1>2, <1>6 DEF IInv, ClaimsUnique, RunnerAt, Evolves
<1>13. FailureReported'
  <2>1. hasFailedSteps => hasFailedSteps' BY <1>6, FailuresStick
  <2>2. \A k \in DOMAIN steps' : steps'[k].status # "queued" BY <1>2, <1>3, <1>4
  <2> QED BY <1>1, <1>9, <1>10, <2>1, <2>2 DEF IInv, FailureReported
<1> QED BY <1>5, <1>7, <1>8, <1>10, <1>11, <1>12, <1>13 DEF IInv

\* The successors are created and published: rows appear only while nothing has failed,
\* and what is published is what was created.
LEMMA CreateSuccessorsInv ==
  ASSUME IInv, NEW p \in Planner, CreateSuccessors(p) PROVE IInv'
<1> DEFINE l == planner[p]
           q == l.toQueue
           k == l.toSkip
           new == creatable(q \cup k)
           Fresh(j) == NewRow(IF j \in q THEN "queued" ELSE "skipped", NoOutputs)
<1>0. PlannerOK(l) /\ l.pc = "create" BY DEF IInv, WorkersOK, CreateSuccessors, At
<1>1. /\ l.key \in DOMAIN steps /\ q \cup k \subseteq GraphKeys(exec.graph)
      /\ IsFiniteSet(q) /\ IsFiniteSet(k)
  BY <1>0 DEF PlannerOK
<1>2. /\ steps' = [j \in DOMAIN steps \cup new |-> IF j \in DOMAIN steps THEN steps[j] ELSE Fresh(j)]
      /\ UNCHANGED <<exec, runner, announced, redelivered, errors>>
  BY DEF CreateSuccessors, faults, createSteps
<1>3. PICK m \in {IdlePlanner, Holding("ended", l.key)} : planner' = [planner EXCEPT ![p] = m]
  BY DEF CreateSuccessors, done, goto
<1>4. PlannerOK(m) /\ m.pc \in {"idle", "ended"}
  <2>1. PlannerOK(IdlePlanner) /\ IdlePlanner.pc = "idle"
    BY IdleOK DEF IdlePlanner, Holding, PlannerLocal
  <2>2. PlannerOK(Holding("ended", l.key)) /\ Holding("ended", l.key).pc = "ended"
    BY <1>1, HoldingOK DEF PlannerPc
  <2> QED BY <1>3, <2>1, <2>2
<1>5. PICK ready \in SetToSeqs(creatable(q)), skipped \in SetToSeqs(creatable(k)) :
        stepQueue' = stepQueue \o ready /\ orchQueue' = orchQueue \o skipped
  BY DEF CreateSuccessors
<1>6. creatable(q) \subseteq q /\ creatable(k) \subseteq k BY DEF creatable
<1>7. creatable(q) \cup creatable(k) = new BY DEF creatable
<1>8. /\ new \subseteq GraphKeys(exec.graph) /\ new \cap DOMAIN steps = {}
      /\ hasFailedSteps => new = {}
  BY <1>1 DEF creatable
<1>9. IsFiniteSet(creatable(q)) /\ IsFiniteSet(creatable(k)) BY <1>1, <1>6, FS_Subset
<1>10. ready \in Seq(creatable(q)) /\ skipped \in Seq(creatable(k))
  BY <1>9, SetToSeqsElements
<1>11. \A j : /\ Fresh(j) = NewRow(Fresh(j).status, Fresh(j).outputs)
              /\ Fresh(j).status \in {"queued", "skipped"} /\ DOMAIN Fresh(j).outputs = {}
  BY DEF NewRow, NoOutputs
<1> HIDE DEF Fresh, new, q, k, l
<1>12. /\ DOMAIN steps' = DOMAIN steps \cup new
       /\ \A j \in DOMAIN steps : steps'[j] = steps[j]
       /\ \A j \in new : steps'[j] = Fresh(j)
  BY <1>2, <1>8
<1>13. Evolves BY <1>2, <1>12 DEF Evolves
<1>14. ExecOK' BY <1>2 DEF IInv, ExecOK
<1>15. StepsOK'
  <2>1. steps' = [j \in DOMAIN steps' |-> steps'[j]] BY <1>2
  <2>2. {"queued", "skipped"} \subseteq StepStatus BY DEF StepStatus, Settled
  <2>3. ASSUME NEW j \in DOMAIN steps'
        PROVE  /\ steps'[j] = NewRow(steps'[j].status, steps'[j].outputs)
               /\ steps'[j].status \in StepStatus /\ DOMAIN steps'[j].outputs \subseteq Nat
    <3>1. CASE j \in DOMAIN steps BY <1>12, <3>1 DEF IInv, StepsOK
    <3>2. CASE j \in new BY <1>11, <1>12, <2>2, <3>2
    <3> QED BY <1>12, <3>1, <3>2
  <2>4. DOMAIN steps' \subseteq GraphKeys(exec'.graph) BY <1>2, <1>8, <1>12 DEF IInv, StepsOK
  <2> QED BY <2>1, <2>3, <2>4 DEF StepsOK
<1> DEFINE O == DOMAIN steps' \cup {Enqueued}
           S == DOMAIN steps'
<1>16. orchQueue \in Seq(O) /\ stepQueue \in Seq(S) /\ skipped \in Seq(O) /\ ready \in Seq(S)
  <2>1. orchQueue \in Seq(O) /\ stepQueue \in Seq(S) BY <1>13, QueuesKept DEF IInv
  <2>2. creatable(q) \subseteq S /\ creatable(k) \subseteq O BY <1>7, <1>12
  <2> QED BY <1>10, <2>1, <2>2, SeqMonotonic
<1>17. orchQueue' \in Seq(O) /\ stepQueue' \in Seq(S) /\ Range(orchQueue) \subseteq Range(orchQueue')
  BY <1>5, <1>16, RangeOfConcat
<1>18. QueuesOK' BY <1>2, <1>17 DEF IInv, QueuesOK
<1>19. WorkersOK' /\ \A j \in Planner : planner'[j] = IF j = p THEN m ELSE planner[j]
  BY <1>2, <1>3, <1>4, <1>13, PlannersKept
<1>20. DOMAIN steps # {} BY <1>1
<1>21. TriggerFirst' BY <1>2, <1>4, <1>19, <1>20, TriggerKept
<1>22. ClaimsUnique'
  <2>1. \A j : <<"step:started", j>> \in announced => j \in DOMAIN steps
    <3>1. \A j : <<"step:started", j>>[1] = "step:started" /\ <<"step:started", j>>[2] = j OBVIOUS
    <3> QED BY <3>1 DEF IInv, ClaimsUnique
  <2> QED BY <1>2, <1>12, <2>1 DEF IInv, ClaimsUnique, RunnerAt
<1>23. FailureReported'
  <2>1. hasFailedSteps' <=> hasFailedSteps
    BY <1>11, <1>12 DEF hasFailedSteps
  <2>2. hasFailedSteps /\ (\E j \in DOMAIN steps' : steps'[j].status = "queued")
          => \E j \in DOMAIN steps : steps[j].status = "queued"
    BY <1>8, <1>12
  <2>3. reportDue => reportDue'
    <3>1. ASSUME NEW j \in Range(orchQueue), j \in DOMAIN steps, steps[j].status = "failed"
          PROVE  reportDue'
      BY <1>12, <1>17, <3>1 DEF reportDue
    <3>2. ASSUME NEW r \in Runner, RunnerAt(r, "announce"), steps[runner[r].key].status = "failed"
          PROVE  reportDue'
      <4>1. runner[r].key \in DOMAIN steps BY <3>2 DEF IInv, WorkersOK, RunnerOK, RunnerAt
      <4> QED BY <1>2, <1>12, <3>2, <4>1 DEF reportDue, RunnerAt
    <3>3. ASSUME NEW j \in Planner, At(j, "fail") \/ At(j, "sweep") PROVE reportDue'
      BY <1>0, <1>19, <3>3 DEF reportDue, At, l
    <3> QED BY <3>1, <3>2, <3>3 DEF reportDue
  <2> QED BY <1>2, <1>4, <1>19, <2>1, <2>2, <2>3 DEF IInv, FailureReported
<1> QED BY <1>14, <1>15, <1>18, <1>19, <1>21, <1>22, <1>23 DEF IInv

-----------------------------------------------------------------------------
\* Runners.

\* A runner that moves on keeps its key.
LEMMA RunnerGotoEffect ==
  ASSUME IInv, NEW r \in Runner, NEW pc, runnerGoto(r, pc)
  PROVE  runner' = [runner EXCEPT ![r] = [pc |-> pc, key |-> runner[r].key]]
<1>1. RunnerOK(runner[r]) BY DEF IInv, WorkersOK
<1>2. PICK a, b : runner[r] = [pc |-> a, key |-> b] BY <1>1 DEF RunnerOK
<1>3. [runner[r] EXCEPT !.pc = pc] = [pc |-> pc, key |-> runner[r].key] BY <1>2
<1> QED BY <1>3 DEF runnerGoto

\* What a runner holds is right as soon as its row has left the queue.
LEMMA RunnerHolds ==
  ASSUME NEW key \in DOMAIN steps, steps[key].status # "queued",
         NEW pc \in {"claimed", "gather", "run", "announce"}
  PROVE  LET l == [pc |-> pc, key |-> key] IN RunnerOK(l) /\ l.pc = pc /\ l.key = key
BY DEF RunnerOK

\* A step is claimed by one runner, and only while nothing has failed.
LEMMA ClaimStepInv ==
  ASSUME IInv, NEW r \in Runner, ClaimStep(r) PROVE IInv'
<1>0. PICK key : key = Head(stepQueue) OBVIOUS
<1>1. /\ RunnerAt(r, "idle") /\ stepQueue # <<>> /\ stepQueue' = Tail(stepQueue)
      /\ UNCHANGED <<exec, orchQueue, planner, announced, redelivered, errors>>
  BY DEF ClaimStep, faults
<1>2. key \in DOMAIN steps /\ stepQueue' \in Seq(DOMAIN steps)
  BY <1>0, <1>1, RangeOfTail DEF IInv, QueuesOK
<1>3. ExecOK' BY <1>1 DEF IInv, ExecOK
<1>4. CASE claimable(key)
  <2> DEFINE row == NewRow("running", NoOutputs)
  <2>0. PICK l : l = [pc |-> "claimed", key |-> key] OBVIOUS
  <2>1. steps' = [steps EXCEPT ![key] = row] /\ runner' = [runner EXCEPT ![r] = l]
    BY <1>0, <1>4, <2>0 DEF ClaimStep, setStep
  <2>2. steps[key].status = "queued" /\ ~hasFailedSteps BY <1>4 DEF claimable
  <2>3. /\ row = NewRow(row.status, row.outputs) /\ row.status = "running"
        /\ DOMAIN row.outputs = {}
    BY DEF NewRow, NoOutputs
  <2> HIDE DEF row
  <2>4. /\ DOMAIN steps' = DOMAIN steps /\ steps' = [k \in DOMAIN steps' |-> steps'[k]]
        /\ \A k \in DOMAIN steps : steps'[k] = IF k = key THEN row ELSE steps[k]
    BY <2>1 DEF IInv, StepsOK
  <2>5. Evolves BY <1>1, <2>2, <2>3, <2>4 DEF Evolves
  <2>6. StepsOK'
    <3>1. "running" \in StepStatus BY DEF StepStatus
    <3> QED BY <1>1, <2>3, <2>4, <3>1 DEF IInv, StepsOK
  <2>7. RunnerOK(l)' /\ l.pc = "claimed" /\ l.key = key
    BY <1>2, <2>0, <2>3, <2>4 DEF RunnerOK
  <2>8. WorkersOK' /\ \A s \in Runner : runner'[s] = IF s = r THEN l ELSE runner[s]
    BY <1>1, <2>1, <2>5, <2>7, RunnersKept
  <2>9. QueuesOK' BY <1>1, <1>2, <2>4 DEF IInv, QueuesOK
  <2>10. TriggerFirst' BY <1>1, <2>4, TriggerKept
  <2>11. ClaimsUnique'
    <3>1. \A s \in Runner : RunnerAt(s, "claimed") => runner[s].key # key
      BY <2>2 DEF IInv, WorkersOK, RunnerOK, RunnerAt
    <3>2. <<"step:started", key>> \notin announced BY <1>2, <2>2 DEF IInv, ClaimsUnique
    <3>3. \A s \in Runner : runner'[s].pc = "claimed" =>
            \/ s = r /\ runner'[s].key = key
            \/ runner[s].pc = "claimed" /\ runner'[s] = runner[s]
      BY <2>7, <2>8
    <3>4. \A k \in DOMAIN steps : steps[k].status # "queued" => steps'[k].status # "queued"
      BY <2>3, <2>4
    <3> QED BY <1>1, <2>4, <3>1, <3>2, <3>3, <3>4 DEF IInv, ClaimsUnique, RunnerAt
  <2>12. FailureReported'
    <3>1. ~hasFailedSteps' BY <2>2, <2>3, <2>4 DEF hasFailedSteps
    <3> QED BY <1>1, <2>2, <3>1 DEF IInv, FailureReported
  <2> QED BY <1>3, <2>6, <2>8, <2>9, <2>10, <2>11, <2>12 DEF IInv
<1>5. CASE ~claimable(key)
  <2>1. UNCHANGED <<steps, runner>> BY <1>0, <1>5 DEF ClaimStep
  <2>2. StepsOK' /\ WorkersOK' /\ TriggerFirst' /\ ClaimsUnique'
    BY <1>1, <2>1 DEF IInv, StepsOK, WorkersOK, PlannerOK, RunnerOK, TriggerFirst, ClaimsUnique,
                      At, RunnerAt
  <2>3. QueuesOK' BY <1>1, <1>2, <2>1 DEF IInv, QueuesOK
  <2>4. FailureReported'
    BY <1>1, <2>1 DEF IInv, FailureReported, reportDue, hasFailedSteps, At, RunnerAt
  <2> QED BY <1>3, <2>2, <2>3, <2>4 DEF IInv
<1> QED BY <1>4, <1>5

\* A runner that announced nothing and wrote nothing moves on, or gives up.
LEMMA RunnerMoves ==
  ASSUME IInv, NEW r \in Runner, NEW l, RunnerOK(l), l.pc # "claimed",
         runner' = [runner EXCEPT ![r] = l],
         UNCHANGED <<exec, steps, orchQueue, stepQueue, planner, announced>>,
         redelivered' \in Nat, errors' \in Nat,
         (UNCHANGED errors /\ ~RunnerAt(r, "announce")) \/ errors' # 0
  PROVE  IInv'
<1>1. Evolves BY StoresKept DEF stores
<1>2. RunnerOK(l)' BY <1>1, RunnerKept
<1>3. WorkersOK' /\ \A s \in Runner : runner'[s] = IF s = r THEN l ELSE runner[s]
  BY <1>1, <1>2, RunnersKept
<1>4. ExecOK' /\ StepsOK' /\ QueuesOK' BY DEF IInv, ExecOK, StepsOK, QueuesOK
<1>5. TriggerFirst' BY TriggerKept
<1>6. ClaimsUnique' BY <1>3 DEF IInv, ClaimsUnique, RunnerAt
<1>7. FailureReported'
  <2>1. hasFailedSteps' <=> hasFailedSteps BY DEF hasFailedSteps
  <2>2. ~RunnerAt(r, "announce") /\ reportDue => reportDue' BY <1>3 DEF reportDue, At, RunnerAt
  <2> QED BY <2>1, <2>2 DEF IInv, FailureReported
<1> QED BY <1>3, <1>4, <1>5, <1>6, <1>7 DEF IInv

\* The claim is used once: the step is announced as started, and nobody else holds it.
LEMMA BeginStepInv ==
  ASSUME IInv, NEW r \in Runner, BeginStep(r) PROVE IInv'
<1>0. PICK key, l : key = runner[r].key /\ l = [pc |-> "gather", key |-> key] OBVIOUS
<1>1. /\ RunnerAt(r, "claimed")
      /\ UNCHANGED <<exec, steps, orchQueue, stepQueue, planner, redelivered, errors>>
  BY DEF BeginStep, stores, queues, faults
<1>2. key \in DOMAIN steps /\ steps[key].status # "queued"
  BY <1>0, <1>1 DEF IInv, WorkersOK, RunnerOK, RunnerAt
<1> DEFINE goes == (isBatch(key) \/ hasExecutor(key)) /\ exec.status = "running"
<1>3. CASE goes
  <2>1. announced' = announced \cup {<<"step:started", key>>} /\ runner' = [runner EXCEPT ![r] = l]
    BY <1>0, <1>3, RunnerGotoEffect DEF BeginStep
  <2>2. RunnerOK(l) /\ l.pc = "gather" /\ l.key = key BY <1>0, <1>2, RunnerHolds
  <2>3. Evolves BY <1>1, StoresKept DEF stores
  <2>4. RunnerOK(l)' BY <2>2, <2>3, RunnerKept
  <2>5. WorkersOK' /\ \A s \in Runner : runner'[s] = IF s = r THEN l ELSE runner[s]
    BY <1>1, <2>1, <2>3, <2>4, RunnersKept
  <2>6. ExecOK' /\ StepsOK' /\ QueuesOK' BY <1>1 DEF IInv, ExecOK, StepsOK, QueuesOK
  <2>7. TriggerFirst' BY <1>1, TriggerKept
  <2>8. ClaimsUnique'
    <3>1. \A s \in Runner : s # r /\ RunnerAt(s, "claimed") => runner[s].key # key
      BY <1>0, <1>1 DEF IInv, ClaimsUnique
    <3>2. \A s \in Runner : RunnerAt(s, "claimed")' => s # r /\ RunnerAt(s, "claimed") /\ runner'[s] = runner[s]
      BY <2>2, <2>5 DEF RunnerAt
    <3>3. \A k : <<"step:started", k>> \in announced' => <<"step:started", k>> \in announced \/ k = key
      BY <2>1
    <3>4. \A x \in announced' : x \in announced \/ x[2] = key BY <2>1
    <3> QED BY <1>1, <1>2, <3>1, <3>2, <3>3, <3>4 DEF IInv, ClaimsUnique
  <2>9. FailureReported'
    <3>1. reportDue => reportDue' BY <1>1, <2>5 DEF reportDue, At, RunnerAt
    <3> QED BY <1>1, <3>1 DEF IInv, FailureReported, hasFailedSteps
  <2> QED BY <2>5, <2>6, <2>7, <2>8, <2>9 DEF IInv
<1>4. CASE ~goes
  <2>1. UNCHANGED announced /\ runner' = [runner EXCEPT ![r] = IdleRunner]
    BY <1>0, <1>4 DEF BeginStep, runnerDone
  <2>2. RunnerOK(IdleRunner) /\ IdleRunner.pc = "idle" BY IdleOK DEF IdleRunner
  <2>3. ~RunnerAt(r, "announce") BY <1>1 DEF RunnerAt
  <2>4. redelivered \in Nat /\ errors \in Nat BY DEF IInv, QueuesOK
  <2> QED BY <1>1, <2>1, <2>2, <2>3, <2>4, RunnerMoves
<1> QED BY <1>3, <1>4

\* The inputs are read, or the runner gives up.
LEMMA GatherInputsInv ==
  ASSUME IInv, NEW r \in Runner, GatherInputs(r) PROVE IInv'
<1> DEFINE l == [pc |-> "run", key |-> runner[r].key]
<1>1. /\ RunnerAt(r, "gather") /\ ~RunnerAt(r, "announce")
      /\ UNCHANGED <<exec, steps, orchQueue, stepQueue, planner, announced, redelivered, errors>>
  BY DEF GatherInputs, stores, queues, faults, RunnerAt
<1>2. runner[r].key \in DOMAIN steps /\ steps[runner[r].key].status # "queued"
  BY <1>1 DEF IInv, WorkersOK, RunnerOK, RunnerAt
<1>3. RunnerOK(l) /\ l.pc = "run" BY <1>2, RunnerHolds
<1>4. RunnerOK(IdleRunner) /\ IdleRunner.pc = "idle" BY IdleOK DEF IdleRunner
<1>5. \/ runner' = [runner EXCEPT ![r] = l]
      \/ runner' = [runner EXCEPT ![r] = IdleRunner]
  BY RunnerGotoEffect DEF GatherInputs, runnerDone
<1>6. redelivered \in Nat /\ errors \in Nat BY DEF IInv, QueuesOK
<1> HIDE DEF l
<1> QED BY <1>1, <1>3, <1>4, <1>5, <1>6, RunnerMoves

\* What a run ends with is a settled row: completed or failed, its outputs in slots.
LEMMA OutcomeRows ==
  ASSUME NEW key, NEW row \in outcomes(key)
  PROVE  /\ row = NewRow(row.status, row.outputs)
         /\ row.status \in {"completed", "failed"} /\ DOMAIN row.outputs \subseteq Nat
<1>1. ASSUME NEW status \in {"completed", "failed"}, NEW outputs, DOMAIN outputs \subseteq Nat,
             row = NewRow(status, outputs)
      PROVE  /\ row = NewRow(row.status, row.outputs)
             /\ row.status \in {"completed", "failed"} /\ DOMAIN row.outputs \subseteq Nat
  BY <1>1 DEF NewRow
<1>2. DOMAIN NoOutputs \subseteq Nat BY DEF NoOutputs
<1>3. CASE isBatch(key)
  <2>1. row = runBatchStep(key) BY <1>3 DEF outcomes
  <2>2. \/ row = FailedRow
        \/ \E slot \in {LOOP_SLOT, DONE_SLOT} : \E value :
             row = NewRow("completed", [s \in {slot} |-> value])
        \/ row = NewRow("completed", NoOutputs)
    BY <2>1 DEF runBatchStep
  <2>3. LOOP_SLOT \in Nat /\ DONE_SLOT \in Nat BY DEF LOOP_SLOT, DONE_SLOT
  <2>4. ASSUME NEW slot \in {LOOP_SLOT, DONE_SLOT}, NEW value,
               row = NewRow("completed", [s \in {slot} |-> value])
        PROVE  /\ row = NewRow(row.status, row.outputs)
               /\ row.status \in {"completed", "failed"} /\ DOMAIN row.outputs \subseteq Nat
    <3>1. DOMAIN [s \in {slot} |-> value] \subseteq Nat BY <2>3
    <3> QED BY <1>1, <2>4, <3>1
  <2> QED BY <1>1, <1>2, <2>2, <2>4 DEF FailedRow
<1>4. CASE ~isBatch(key)
  <2>1. row = FailedRow \/ \E outputs \in StepOutputs : row = NewRow("completed", outputs)
    BY <1>4 DEF outcomes
  <2> QED BY <1>1, <1>2, <2>1, OutputsAssumption DEF FailedRow
<1> QED BY <1>3, <1>4

\* The outcome is written by the runner that still owns the row; a failure it writes is
\* its to report.
LEMMA RecordOutcomeInv ==
  ASSUME IInv, NEW r \in Runner, RecordOutcome(r) PROVE IInv'
<1>0. PICK key, l : key = runner[r].key /\ l = [pc |-> "announce", key |-> key] OBVIOUS
<1>1. /\ RunnerAt(r, "run") /\ ~RunnerAt(r, "announce")
      /\ UNCHANGED <<exec, orchQueue, stepQueue, planner, announced, redelivered, errors>>
  BY DEF RecordOutcome, queues, faults, RunnerAt
<1>2. key \in DOMAIN steps BY <1>0, <1>1 DEF IInv, WorkersOK, RunnerOK, RunnerAt
<1>3. redelivered \in Nat /\ errors \in Nat BY DEF IInv, QueuesOK
<1>4. CASE steps[key].status = "running"
  <2>1. PICK row \in outcomes(key) : setStep(key, row) /\ runnerGoto(r, "announce")
    BY <1>0, <1>4 DEF RecordOutcome
  <2>2. steps' = [steps EXCEPT ![key] = row] /\ runner' = [runner EXCEPT ![r] = l]
    BY <1>0, <2>1, RunnerGotoEffect DEF setStep
  <2>3. /\ row = NewRow(row.status, row.outputs)
        /\ row.status \in {"completed", "failed"} /\ DOMAIN row.outputs \subseteq Nat
    BY <2>1, OutcomeRows
  <2>4. /\ DOMAIN steps' = DOMAIN steps /\ steps' = [k \in DOMAIN steps' |-> steps'[k]]
        /\ \A k \in DOMAIN steps : steps'[k] = IF k = key THEN row ELSE steps[k]
    BY <2>2 DEF IInv, StepsOK
  <2>5. Evolves BY <1>1, <1>4, <2>3, <2>4 DEF Evolves
  <2>6. ExecOK' BY <1>1 DEF IInv, ExecOK
  <2>7. StepsOK'
    <3>1. {"completed", "failed"} \subseteq StepStatus BY DEF StepStatus, Settled
    <3> QED BY <1>1, <2>3, <2>4, <3>1 DEF IInv, StepsOK
  <2>8. RunnerOK(l)' /\ l.pc = "announce" /\ l.key = key
    BY <1>0, <1>2, <2>3, <2>4 DEF RunnerOK
  <2>9. WorkersOK' /\ \A s \in Runner : runner'[s] = IF s = r THEN l ELSE runner[s]
    BY <1>1, <2>2, <2>5, <2>8, RunnersKept
  <2>10. QueuesOK' BY <1>1, <2>4 DEF IInv, QueuesOK
  <2>11. TriggerFirst' BY <1>1, <2>4, TriggerKept
  <2>12. ClaimsUnique'
    <3>1. \A s \in Runner : runner'[s].pc = "claimed" =>
            runner[s].pc = "claimed" /\ runner'[s] = runner[s]
      BY <2>8, <2>9
    <3>2. \A k \in DOMAIN steps : steps[k].status # "queued" => steps'[k].status # "queued"
      BY <2>5 DEF Evolves
    <3> QED BY <1>1, <2>4, <3>1, <3>2 DEF IInv, ClaimsUnique, RunnerAt
  <2>13. FailureReported'
    <3>1. hasFailedSteps => hasFailedSteps' BY <2>5, FailuresStick
    <3>2. row.status = "failed" => reportDue'
      <4>1. steps'[key] = row BY <1>2, <2>4
      <4> QED BY <2>8, <2>9, <4>1 DEF reportDue, RunnerAt
    <3>3. row.status = "completed" /\ hasFailedSteps' => hasFailedSteps
      BY <2>4 DEF hasFailedSteps
    <3>4. reportDue => reportDue'
      <4>1. ASSUME NEW k \in Range(orchQueue), k \in DOMAIN steps, steps[k].status = "failed"
            PROVE  reportDue'
        BY <1>1, <1>4, <2>4, <4>1 DEF reportDue
      <4>2. ASSUME NEW s \in Runner, RunnerAt(s, "announce"), steps[runner[s].key].status = "failed"
            PROVE  reportDue'
        <5>1. runner[s].key \in DOMAIN steps /\ s # r
          BY <1>1, <4>2 DEF IInv, WorkersOK, RunnerOK, RunnerAt
        <5>2. steps'[runner[s].key].status = "failed" BY <2>5, <4>2, <5>1 DEF Evolves
        <5> QED BY <2>9, <4>2, <5>1, <5>2 DEF reportDue, RunnerAt
      <4>3. ASSUME NEW p \in Planner, At(p, "fail") \/ At(p, "sweep") PROVE reportDue'
        BY <1>1, <4>3 DEF reportDue, At
      <4> QED BY <4>1, <4>2, <4>3 DEF reportDue
    <3>5. (\E k \in DOMAIN steps' : steps'[k].status = "queued")
            => \E k \in DOMAIN steps : steps[k].status = "queued"
      BY <2>3, <2>4
    <3> QED BY <1>1, <2>3, <3>1, <3>2, <3>3, <3>4, <3>5 DEF IInv, FailureReported
  <2> QED BY <2>6, <2>7, <2>9, <2>10, <2>11, <2>12, <2>13 DEF IInv
<1>5. CASE steps[key].status # "running"
  <2>1. UNCHANGED steps /\ runner' = [runner EXCEPT ![r] = IdleRunner]
    BY <1>0, <1>5 DEF RecordOutcome, runnerDone
  <2>2. RunnerOK(IdleRunner) /\ IdleRunner.pc = "idle" BY IdleOK DEF IdleRunner
  <2> QED BY <1>1, <1>3, <2>1, <2>2, RunnerMoves
<1> QED BY <1>4, <1>5

\* What only adds messages for rows that exist disturbs nothing.
LEMMA MessagesAdded ==
  ASSUME IInv, UNCHANGED <<exec, steps, planner, errors>>, redelivered' \in Nat,
         orchQueue' \in Seq(DOMAIN steps \cup {Enqueued}), stepQueue' \in Seq(DOMAIN steps),
         WorkersOK', ClaimsUnique', reportDue => reportDue'
  PROVE  IInv'
<1>1. ExecOK' /\ StepsOK' /\ QueuesOK' BY DEF IInv, ExecOK, StepsOK, QueuesOK
<1>2. TriggerFirst' BY TriggerKept
<1>3. FailureReported' BY DEF IInv, FailureReported, hasFailedSteps
<1> QED BY <1>1, <1>2, <1>3 DEF IInv

\* The settled step is announced: the report passes from the runner to the queue.
LEMMA AnnounceStepInv ==
  ASSUME IInv, NEW r \in Runner, AnnounceStep(r) PROVE IInv'
<1> DEFINE key == runner[r].key
           event == settledEvent(steps[key].status)
<1>1. /\ RunnerAt(r, "announce")
      /\ announced' = announced \cup {<<event, key>>}
      /\ orchQueue' = Append(orchQueue, key)
      /\ runner' = [runner EXCEPT ![r] = IdleRunner]
      /\ UNCHANGED <<exec, steps, stepQueue, planner, redelivered, errors>>
  BY DEF AnnounceStep, stores, faults, runnerDone
<1>2. key \in DOMAIN steps BY <1>1 DEF IInv, WorkersOK, RunnerOK, RunnerAt
<1>3. event # "step:started" BY DEF settledEvent
<1> HIDE DEF event
<1>4. Evolves BY <1>1, StoresKept DEF stores
<1>5. RunnerOK(IdleRunner)' /\ IdleRunner.pc = "idle"
  BY DEF RunnerOK, IdleRunner
<1>6. WorkersOK' /\ \A s \in Runner : runner'[s] = IF s = r THEN IdleRunner ELSE runner[s]
  BY <1>1, <1>4, <1>5, RunnersKept
<1>7. /\ orchQueue' \in Seq(DOMAIN steps \cup {Enqueued})
      /\ Range(orchQueue') = Range(orchQueue) \cup {key}
  <2>1. /\ orchQueue' \in Seq((DOMAIN steps \cup {Enqueued}) \cup {key})
        /\ Range(orchQueue') = Range(orchQueue) \cup {key}
    BY <1>1, RangeOfAppend DEF IInv, QueuesOK
  <2>2. (DOMAIN steps \cup {Enqueued}) \cup {key} = DOMAIN steps \cup {Enqueued} BY <1>2
  <2> QED BY <2>1, <2>2
<1>8. ClaimsUnique'
  <2>1. \A x \in announced' : x[1] = "step:started" => x \in announced BY <1>1, <1>3
  <2>2. \A k : <<"step:started", k>> \in announced' => <<"step:started", k>> \in announced
    BY <1>1, <1>3
  <2> QED BY <1>1, <1>5, <1>6, <2>1, <2>2 DEF IInv, ClaimsUnique, RunnerAt
<1>9. reportDue => reportDue'
  <2>1. ASSUME NEW k \in Range(orchQueue), k \in DOMAIN steps, steps[k].status = "failed"
        PROVE  reportDue'
    BY <1>1, <1>7, <2>1 DEF reportDue
  <2>2. ASSUME NEW s \in Runner, RunnerAt(s, "announce"), steps[runner[s].key].status = "failed"
        PROVE  reportDue'
    <3>1. CASE s = r BY <1>1, <1>2, <1>7, <2>2, <3>1 DEF reportDue
    <3>2. CASE s # r BY <1>1, <1>6, <2>2, <3>2 DEF reportDue, RunnerAt
    <3> QED BY <3>1, <3>2
  <2>3. ASSUME NEW p \in Planner, At(p, "fail") \/ At(p, "sweep") PROVE reportDue'
    BY <1>1, <2>3 DEF reportDue, At
  <2> QED BY <2>1, <2>2, <2>3 DEF reportDue
<1> QED BY <1>1, <1>6, <1>7, <1>8, <1>9, MessagesAdded DEF IInv, QueuesOK

-----------------------------------------------------------------------------
\* Faults.

\* A message delivered again names a row that exists.
LEMMA RedeliverInv ==
  ASSUME IInv, Redeliver PROVE IInv'
<1> DEFINE O == DOMAIN steps \cup {Enqueued}
<1>1. /\ UNCHANGED <<exec, steps, planner, runner, announced, errors>>
      /\ redelivered' = redelivered + 1
      /\ \/ \E k \in O : orchQueue' = Append(orchQueue, k) /\ UNCHANGED stepQueue
         \/ \E k \in DOMAIN steps : stepQueue' = Append(stepQueue, k) /\ UNCHANGED orchQueue
  BY DEF Redeliver, stores
<1>2. orchQueue \in Seq(O) /\ stepQueue \in Seq(DOMAIN steps) /\ redelivered' \in Nat
  BY <1>1 DEF IInv, QueuesOK
<1>3. /\ orchQueue' \in Seq(O) /\ stepQueue' \in Seq(DOMAIN steps)
      /\ Range(orchQueue) \subseteq Range(orchQueue')
  <2>1. ASSUME NEW k \in O, orchQueue' = Append(orchQueue, k)
        PROVE  orchQueue' \in Seq(O) /\ Range(orchQueue) \subseteq Range(orchQueue')
    <3>1. O \cup {k} = O OBVIOUS
    <3> HIDE DEF O
    <3> QED BY <1>2, <2>1, <3>1, RangeOfAppend
  <2>2. ASSUME NEW k \in DOMAIN steps, stepQueue' = Append(stepQueue, k)
        PROVE  stepQueue' \in Seq(DOMAIN steps)
    <3>1. DOMAIN steps \cup {k} = DOMAIN steps OBVIOUS
    <3> QED BY <1>2, <2>2, <3>1, RangeOfAppend
  <2> QED BY <1>1, <1>2, <2>1, <2>2
<1>4. WorkersOK' /\ ClaimsUnique'
  BY <1>1 DEF IInv, WorkersOK, PlannerOK, RunnerOK, ClaimsUnique, RunnerAt
<1>5. reportDue => reportDue' BY <1>1, <1>3 DEF reportDue, At, RunnerAt
<1> QED BY <1>1, <1>2, <1>3, <1>4, <1>5, MessagesAdded

\* A handler that threw leaves its worker idle, and the rows to a reconciliation that
\* does not exist yet: what follows is only promised while errors is zero.
LEMMA HandlerErrorInv ==
  ASSUME IInv, HandlerError PROVE IInv'
<1>1. /\ UNCHANGED <<exec, steps, orchQueue, stepQueue, announced, redelivered>>
      /\ redelivered' \in Nat /\ errors' \in Nat /\ errors' # 0
  BY DEF HandlerError, stores, queues, IInv, QueuesOK
<1>2. ASSUME NEW p \in Planner, planner' = [planner EXCEPT ![p] = IdlePlanner], UNCHANGED runner
      PROVE  IInv'
  <2>1. Evolves BY <1>1, StoresKept DEF stores
  <2>2. IdlePlanner.pc = "idle" BY DEF IdlePlanner, Holding, PlannerLocal
  <2>3. WorkersOK' /\ \A q \in Planner : planner'[q] = IF q = p THEN IdlePlanner ELSE planner[q]
    BY <1>2, <2>1, IdleOK, PlannersKept
  <2>4. ExecOK' /\ StepsOK' /\ QueuesOK' BY <1>1 DEF IInv, ExecOK, StepsOK, QueuesOK
  <2>5. TriggerFirst' BY <1>1, <2>2, <2>3, TriggerKept
  <2>6. ClaimsUnique' BY <1>1, <1>2 DEF IInv, ClaimsUnique, RunnerAt
  <2>7. FailureReported' BY <1>1, <2>2, <2>3 DEF IInv, FailureReported, hasFailedSteps
  <2> QED BY <2>3, <2>4, <2>5, <2>6, <2>7 DEF IInv
<1>3. ASSUME NEW r \in Runner, runner' = [runner EXCEPT ![r] = IdleRunner], UNCHANGED planner
      PROVE  IInv'
  <2>1. RunnerOK(IdleRunner) /\ IdleRunner.pc = "idle" BY IdleOK DEF IdleRunner
  <2> QED BY <1>1, <1>3, <2>1, RunnerMoves
<1> QED BY <1>2, <1>3 DEF HandlerError, done, goto, runnerDone

\* A restart empties the queues and every worker; the rows stay.
LEMMA RestartInv ==
  ASSUME IInv, Restart PROVE IInv'
<1>1. /\ UNCHANGED <<exec, steps, announced, redelivered>>
      /\ errors' \in Nat /\ errors' # 0
      /\ orchQueue' = <<>> /\ stepQueue' = <<>>
      /\ planner' = [p \in Planner |-> IdlePlanner]
      /\ runner' = [r \in Runner |-> IdleRunner]
  BY DEF Restart, stores, IInv, QueuesOK
<1>2. IdlePlanner.pc = "idle" /\ IdleRunner.pc = "idle"
  BY DEF IdlePlanner, Holding, PlannerLocal, IdleRunner
<1>3. ExecOK' /\ StepsOK' BY <1>1 DEF IInv, ExecOK, StepsOK
<1>4. QueuesOK' BY <1>1 DEF IInv, QueuesOK
<1>5. WorkersOK'
  <2>1. PlannerOK(IdlePlanner)' /\ RunnerOK(IdleRunner)'
    BY DEF PlannerOK, IdlePlanner, Holding, PlannerLocal, RunnerOK, IdleRunner, PlannerPc
  <2>2. \A p \in Planner : planner'[p] = IdlePlanner BY <1>1
  <2>3. \A r \in Runner : runner'[r] = IdleRunner BY <1>1
  <2>4. \A p \in Planner : PlannerOK(planner[p])' BY <2>1, <2>2 DEF PlannerOK
  <2>5. \A r \in Runner : RunnerOK(runner[r])' BY <2>1, <2>3 DEF RunnerOK
  <2> QED BY <1>1, <2>4, <2>5 DEF WorkersOK
<1>6. TriggerFirst' BY <1>1, <1>2, TriggerKept
<1>7. ClaimsUnique' BY <1>1, <1>2 DEF IInv, ClaimsUnique, RunnerAt
<1>8. FailureReported' BY <1>1, <1>2 DEF IInv, FailureReported, hasFailedSteps
<1> QED BY <1>3, <1>4, <1>5, <1>6, <1>7, <1>8 DEF IInv

-----------------------------------------------------------------------------
\* The theorems.

\* The invariant holds before any request.
LEMMA InitInv == ASSUME Init PROVE IInv
<1>1. /\ exec = [status |-> "none", graph |-> CHOOSE g \in Graphs : TRUE, triggerOutputs |-> NoOutputs]
      /\ steps = NoOutputs /\ orchQueue = <<>> /\ stepQueue = <<>>
      /\ planner = [p \in Planner |-> IdlePlanner] /\ runner = [r \in Runner |-> IdleRunner]
      /\ announced = {} /\ redelivered = 0 /\ errors = 0
  BY DEF Init
<1>2. exec.status = "none" /\ exec.graph \in Graphs /\ DOMAIN steps = {} /\ exec.triggerOutputs = NoOutputs
  BY <1>1, GraphsAssumption DEF NoOutputs
<1>3. IdlePlanner.pc = "idle" /\ IdleRunner.pc = "idle"
  BY DEF IdlePlanner, Holding, PlannerLocal, IdleRunner
<1>4. ExecOK BY <1>1, <1>2 DEF ExecOK, NoOutputs
<1>5. StepsOK BY <1>1, <1>2 DEF StepsOK, NoOutputs
<1>6. QueuesOK BY <1>1 DEF QueuesOK
<1>7. WorkersOK BY <1>1, IdleOK DEF WorkersOK
<1>8. TriggerFirst BY <1>1, <1>2, <1>3 DEF TriggerFirst, At
<1>9. ClaimsUnique BY <1>1, <1>2, <1>3 DEF ClaimsUnique, RunnerAt
<1>10. FailureReported BY <1>1, <1>2, <1>3 DEF FailureReported, hasFailedSteps
<1> QED BY <1>4, <1>5, <1>6, <1>7, <1>8, <1>9, <1>10 DEF IInv

\* Every step keeps it.
LEMMA InvStep == ASSUME IInv, [Next]_vars PROVE IInv'
<1>1. CASE Start BY <1>1, StartInv
<1>2. ASSUME NEW p \in Planner, PlannerStep(p) PROVE IInv'
  BY <1>2, ClaimExecutionInv, CreateTriggerInv, HandleSettledInv, FailExecutionInv, SweepInv,
     PlannerReads, DecideInv, CreateSuccessorsInv, FinishExecutionInv DEF PlannerStep
<1>3. ASSUME NEW r \in Runner, RunnerStep(r) PROVE IInv'
  BY <1>3, ClaimStepInv, BeginStepInv, GatherInputsInv, RecordOutcomeInv, AnnounceStepInv
     DEF RunnerStep
<1>4. CASE Redeliver BY <1>4, RedeliverInv
<1>5. CASE HandlerError BY <1>5, HandlerErrorInv
<1>6. CASE Restart BY <1>6, RestartInv
<1>7. CASE UNCHANGED vars
  <2>1. UNCHANGED <<exec, steps, orchQueue, stepQueue, planner, runner, announced, redelivered, errors>>
    BY <1>7 DEF vars
  <2>2. WorkersOK' /\ ClaimsUnique'
    BY <2>1 DEF IInv, WorkersOK, PlannerOK, RunnerOK, ClaimsUnique, RunnerAt
  <2>3. reportDue => reportDue' BY <2>1 DEF reportDue, At, RunnerAt
  <2>4. orchQueue' \in Seq(DOMAIN steps \cup {Enqueued}) /\ stepQueue' \in Seq(DOMAIN steps)
    BY <2>1 DEF IInv, QueuesOK
  <2>5. redelivered' \in Nat BY <2>1 DEF IInv, QueuesOK
  <2> QED BY <2>1, <2>2, <2>3, <2>4, <2>5, MessagesAdded
<1> QED BY <1>1, <1>2, <1>3, <1>4, <1>5, <1>6, <1>7 DEF Next

\* The inductive invariant of an execution: rows and messages belong to its graph, the
\* trigger comes first, a claim is one runner's, and a failure is reported.
THEOREM ExecutionInvariant == Spec => []IInv
<1> QED BY InitInv, InvStep, PTL DEF Spec

\* The trigger's row comes before every other, so whoever holds a row finds it.
LEMMA TriggerRow ==
  ASSUME IInv, EventsOK, [Next]_vars PROVE DOMAIN steps' # {} => triggerKey' \in DOMAIN steps'
<1>1. CASE Start BY <1>1 DEF Start, IInv, TriggerFirst
<1>2. ASSUME NEW p \in Planner, CreateTrigger(p) PROVE triggerKey' \in DOMAIN steps'
  <2>1. exec' = exec /\ DOMAIN steps' = DOMAIN steps \cup {triggerKey} BY <1>2 DEF CreateTrigger
  <2> QED BY <2>1 DEF triggerKey
<1>3. ASSUME NEW p \in Planner, CreateSuccessors(p)
      PROVE  triggerKey \in DOMAIN steps /\ exec' = exec /\ DOMAIN steps \subseteq DOMAIN steps'
  <2>1. planner[p].pc = "create" /\ PlannerOK(planner[p])
    BY <1>3 DEF IInv, WorkersOK, CreateSuccessors, At
  <2>2. planner[p].key \in DOMAIN steps BY <2>1 DEF PlannerOK
  <2> QED BY <1>3, <2>2 DEF EventsOK, CreateSuccessors, createSteps
<1>4. ASSUME exec'.graph = exec.graph, DOMAIN steps' = DOMAIN steps
      PROVE  DOMAIN steps' # {} => triggerKey' \in DOMAIN steps'
  BY <1>4 DEF EventsOK, triggerKey
<1>5. ASSUME exec'.graph = exec.graph, triggerKey \in DOMAIN steps, DOMAIN steps \subseteq DOMAIN steps'
      PROVE  triggerKey' \in DOMAIN steps'
  BY <1>5 DEF triggerKey
<1>6. ASSUME NEW p \in Planner, PlannerStep(p), ~CreateTrigger(p), ~CreateSuccessors(p)
      PROVE  exec'.graph = exec.graph /\ DOMAIN steps' = DOMAIN steps
  BY <1>6 DEF PlannerStep, ClaimExecution, HandleSettled, FailExecution, SweepQueued, CheckFailed,
     LoadTerminal, DecideSuccessors, LoadEnded, CountSettled, ReadVerdict, FinishExecution,
     cancelQueuedSteps, finishExecution, stores, IInv, ExecOK
<1>7. ASSUME NEW r \in Runner, RunnerStep(r)
      PROVE  exec'.graph = exec.graph /\ DOMAIN steps' = DOMAIN steps
  BY <1>7 DEF RunnerStep, ClaimStep, BeginStep, GatherInputs, RecordOutcome, AnnounceStep,
     setStep, stores
<1>8. ASSUME Redeliver \/ HandlerError \/ Restart \/ UNCHANGED vars
      PROVE  exec'.graph = exec.graph /\ DOMAIN steps' = DOMAIN steps
  BY <1>8 DEF Redeliver, HandlerError, Restart, vars, stores
<1> QED BY <1>1, <1>2, <1>3, <1>4, <1>5, <1>6, <1>7, <1>8 DEF Next

\* A published event names a row: the one its worker holds, or the trigger's.
LEMMA EventsStep ==
  ASSUME IInv, EventsOK, [Next]_vars PROVE EventsOK'
<1> DEFINE Published(row) == \E e \in LifecycleEvent : announced' = announced \cup {<<e, row>>}
<1>1. DOMAIN steps \subseteq DOMAIN steps'
  BY DEF Next, Start, PlannerStep, RunnerStep, ClaimExecution, CreateTrigger, HandleSettled,
     FailExecution, SweepQueued, CheckFailed, LoadTerminal, DecideSuccessors, CreateSuccessors,
     createSteps, LoadEnded, CountSettled, ReadVerdict, FinishExecution, cancelQueuedSteps,
     ClaimStep, BeginStep, GatherInputs, RecordOutcome, AnnounceStep, setStep, Redeliver,
     HandlerError, Restart, vars, stores
<1>2. ASSUME NEW row \in DOMAIN steps', Published(row) PROVE EventsOK'
  BY <1>1, <1>2, TriggerRow DEF EventsOK
<1>3. ASSUME announced' = announced PROVE EventsOK' BY <1>1, <1>3, TriggerRow DEF EventsOK
<1>4. ASSUME NEW p \in Planner, CreateTrigger(p) PROVE EventsOK'
  <2>1. triggerKey \in DOMAIN steps' BY <1>4 DEF CreateTrigger
  <2>2. Published(triggerKey) BY <1>4 DEF CreateTrigger, LifecycleEvent
  <2> QED BY <1>2, <2>1, <2>2
<1>5. ASSUME NEW p \in Planner, FailExecution(p) \/ FinishExecution(p) PROVE EventsOK'
  <2>1. planner[p].pc \in {"fail", "failed", "completed"} /\ PlannerOK(planner[p])
    BY <1>5 DEF IInv, WorkersOK, FailExecution, FinishExecution, At
  <2>2. planner[p].key \in DOMAIN steps BY <2>1 DEF PlannerOK
  <2>3. triggerKey \in DOMAIN steps' BY <1>1, <2>2 DEF EventsOK
  <2>4. announced' = announced \/ Published(triggerKey)
    BY <1>5 DEF FailExecution, FinishExecution, finishExecution, finishedEvent, LifecycleEvent
  <2> QED BY <1>2, <1>3, <2>3, <2>4
<1>6. ASSUME NEW r \in Runner, BeginStep(r) \/ AnnounceStep(r) PROVE EventsOK'
  <2>1. runner[r].pc \in {"claimed", "announce"} /\ RunnerOK(runner[r])
    BY <1>6 DEF IInv, WorkersOK, BeginStep, AnnounceStep, RunnerAt
  <2>2. runner[r].key \in DOMAIN steps' BY <1>1, <2>1 DEF RunnerOK
  <2>3. announced' = announced \/ Published(runner[r].key)
    BY <1>6 DEF BeginStep, AnnounceStep, settledEvent, LifecycleEvent
  <2> QED BY <1>2, <1>3, <2>2, <2>3
<1>7. ASSUME NEW p \in Planner, PlannerStep(p), ~CreateTrigger(p), ~FailExecution(p), ~FinishExecution(p)
      PROVE  announced' = announced
  BY <1>7 DEF PlannerStep, ClaimExecution, HandleSettled, SweepQueued, CheckFailed, LoadTerminal,
     DecideSuccessors, CreateSuccessors, LoadEnded, CountSettled, ReadVerdict
<1>8. ASSUME NEW r \in Runner, RunnerStep(r), ~BeginStep(r), ~AnnounceStep(r)
      PROVE  announced' = announced
  BY <1>8 DEF RunnerStep, ClaimStep, GatherInputs, RecordOutcome
<1>9. ASSUME Start \/ Redeliver \/ HandlerError \/ Restart \/ UNCHANGED vars
      PROVE  announced' = announced
  BY <1>9 DEF Start, Redeliver, HandlerError, Restart, vars
<1> QED BY <1>3, <1>4, <1>5, <1>6, <1>7, <1>8, <1>9 DEF Next

\* Rows are steps of the execution's graph, and every message, every worker between two
\* awaits and every published event names a row that was written before, for any number
\* of handlers and faults (TypeOK, the loads of both handlers).
THEOREM TypeCorrect == Spec => []TypeOK
<1>1. Init => EventsOK BY DEF Init, EventsOK, NoOutputs
<1>2. IInv /\ EventsOK /\ [Next]_vars => EventsOK' BY EventsStep
<1>3. IInv /\ EventsOK => TypeOK BY DEF IInv, EventsOK, TypeOK
<1> QED BY <1>1, <1>2, <1>3, ExecutionInvariant, PTL DEF Spec

\* When an execution has failed, no handler threw and every worker rests, no row is left
\* queued: the sweep of step-settled-handler and the guarded inserts cannot cross.
THEOREM NoStrandedRows == Spec => []NothingStranded
<1>1. IInv => NothingStranded
  <2> SUFFICES ASSUME IInv, quiet, errors = 0, exec.status = "failed",
                      NEW k \in DOMAIN steps, steps[k].status = "queued"
               PROVE  FALSE
    BY DEF NothingStranded
  <2>1. hasFailedSteps BY DEF IInv, FailureReported
  <2>2. reportDue BY <2>1 DEF IInv, FailureReported
  <2>3. Range(orchQueue) = {} BY RangeOfEmpty DEF quiet
  <2> QED BY <2>2, <2>3 DEF reportDue, quiet, At, RunnerAt
<1> QED BY <1>1, ExecutionInvariant, PTL

\* A step's executor is started once, however often its message is delivered and
\* however many planners queued it (StepRunsOnce, the claim of step-ready-handler).
THEOREM StartsOnce == Spec => StepRunsOnce
<1>1. ASSUME IInv, NEW r \in Runner, runner[r].pc = "claimed"
      PROVE  <<"step:started", runner[r].key>> \notin announced
  <2>1. runner[r].key \in DOMAIN steps BY <1>1 DEF IInv, WorkersOK, RunnerOK
  <2> QED BY <1>1, <2>1 DEF IInv, ClaimsUnique, RunnerAt
<1>2. IInv /\ [Next]_vars => [\A r \in Runner : runner[r].pc = "claimed" /\ runner'[r].pc = "gather" =>
                                <<"step:started", runner[r].key>> \notin announced]_vars
  BY <1>1
<1> QED BY <1>2, ExecutionInvariant, PTL DEF StepRunsOnce, Spec
=============================================================================
