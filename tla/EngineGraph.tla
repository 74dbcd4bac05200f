----------------------------- MODULE EngineGraph -----------------------------
(***************************************************************************)
(* The execution graph of engine v2 (packages/@n8n/engine) and the pure    *)
(* functions over it: loops, validation, which step rows an edge connects, *)
(* the fate of a step and the number of steps an execution owes.           *)
(*                                                                         *)
(* A graph is [type, batchSize, edges]: type maps node ids to step types,  *)
(* batchSize gives a batch node's config (0: not a whole number of at      *)
(* least 1), edges is a set of [from, to, outputIndex, inputIndex,         *)
(* isBackEdge].  A step key is <<nodeId, iteration>>.  A step row is       *)
(* [status, outputs], outputs a function on the slots that hold data: a    *)
(* null slot and a slot beyond the list are both absent.                   *)
(***************************************************************************)
EXTENDS Naturals, FiniteSets, FiniteSetsExt

DONE_SLOT == 0
LOOP_SLOT == 1
MAX_SLOT_INDEX == 100

nodeIds(graph) == DOMAIN graph.type
NodesOfType(graph, type) == {n \in nodeIds(graph) : graph.type[n] = type}
BackEdges(graph) == {e \in graph.edges : e.isBackEdge}
ForwardEdges(graph) == {e \in graph.edges : ~e.isBackEdge}

-----------------------------------------------------------------------------
(* Reachability and loops. *)

getSuccessorNodeIds(edges, n) == {e.to : e \in {d \in edges : d.from = n}}

\* Transitive successors: what every successor-closed set of nodes holds.
getDescendantNodeIds(edges, n) ==
  LET targets == {e.to : e \in edges}
      Closed(T) == /\ getSuccessorNodeIds(edges, n) \subseteq T
                   /\ \A e \in edges : e.from \in T => e.to \in T
      closed == {T \in SUBSET targets : Closed(T)}
  IN {m \in targets : \A T \in closed : m \in T}

computeSccMembership(edges, n) ==
  {n} \cup {m \in getDescendantNodeIds(edges, n) : n \in getDescendantNodeIds(edges, m)}

isCyclic(edges, n) == n \in getDescendantNodeIds(edges, n)

deriveLoops(graph) ==
  LET Loop(b) ==
        LET members == computeSccMembership(graph.edges, b) IN
        [ batchNodeId |-> b,
          memberIds |-> members,
          backEdges |-> {e \in BackEdges(graph) : e.to = b},
          entryEdges |-> {e \in ForwardEdges(graph) : e.to = b /\ e.from \notin members},
          exitEdges |-> {e \in ForwardEdges(graph) : e.from \in members /\ e.to \notin members} ]
  IN {Loop(b) : b \in {e.to : e \in BackEdges(graph)}}

-----------------------------------------------------------------------------
(* Validation: a graph that breaks any rule is refused before a row exists. *)

EndpointsExist(graph) == \A e \in graph.edges : {e.from, e.to} \subseteq nodeIds(graph)

BodiesAcyclic(graph) ==
  \A n \in nodeIds(graph) : ~isCyclic(ForwardEdges(graph), n)

LoopRules(graph, loop) ==
  LET b == loop.batchNodeId
      members == loop.memberIds
  IN /\ graph.type[b] = "batch"
     /\ graph.batchSize[b] >= 1
     /\ members \cap NodesOfType(graph, "trigger") = {}
     /\ members \cap NodesOfType(graph, "batch") = {b}
     /\ \A e \in loop.backEdges : e.inputIndex = 0 /\ e.from \in members
     /\ Cardinality(loop.backEdges) = 1
     /\ \A e \in graph.edges :
          /\ e.to = b /\ ~e.isBackEdge => e.inputIndex = 0
          /\ e.from = b => e.outputIndex \in {DONE_SLOT, LOOP_SLOT}
          /\ e.from = b /\ e.outputIndex = DONE_SLOT => e.to \notin members
          /\ ~e.isBackEdge /\ e.to \in members \ {b} => e.from \in members
     /\ Cardinality(loop.entryEdges) <= 1
     /\ \A e \in loop.exitEdges : e.from = b /\ e.outputIndex = DONE_SLOT

validateLoops(graph) ==
  LET loops == deriveLoops(graph) IN
  /\ EndpointsExist(graph)
  /\ BodiesAcyclic(graph)
  /\ NodesOfType(graph, "batch") \subseteq {l.batchNodeId : l \in loops}
  /\ \A loop \in loops : LoopRules(graph, loop)

findTriggerNode(graph) == CHOOSE n \in NodesOfType(graph, "trigger") : TRUE

reachableNodeIds(graph) ==
  LET t == findTriggerNode(graph) IN {t} \cup getDescendantNodeIds(graph.edges, t)

\* Mutant: the rule forgotten.
BugFedFromReachable(graph) == TRUE

\* No node the trigger reaches waits on one that it does not reach.
FedFromReachable(graph) ==
  \A e \in graph.edges : e.to \in reachableNodeIds(graph) => e.from \in reachableNodeIds(graph)

SlotsInRange(graph) ==
  \A e \in graph.edges : {e.outputIndex, e.inputIndex} \subseteq 0..MAX_SLOT_INDEX

NoConvergence(graph) ==
  \A d, e \in ForwardEdges(graph) : d.to = e.to /\ d.inputIndex = e.inputIndex => d = e

validateExecutableGraph(graph) ==
  /\ Cardinality(NodesOfType(graph, "trigger")) = 1
  /\ validateLoops(graph)
  /\ FedFromReachable(graph)
  /\ SlotsInRange(graph)
  /\ NoConvergence(graph)

-----------------------------------------------------------------------------
(* Which rows an edge connects. *)

loopsOf(loops, n) == {l \in loops : n \in l.memberIds}

classifyEdge(edge, loops) ==
  CASE edge.isBackEdge -> "back"
    [] OTHER -> IF \E l \in loops : {edge.from, edge.to} \subseteq l.memberIds THEN "intra"
                ELSE IF loopsOf(loops, edge.from) # {} THEN "exit"
                ELSE IF loopsOf(loops, edge.to) # {} THEN "entry" ELSE "plain"

targetKey(edge, class, source) ==
  CASE class = "back" -> <<edge.to, source[2] + 1>>
    [] class \in {"exit", "entry"} -> <<edge.to, 0>>
    [] OTHER -> <<edge.to, source[2]>>

Row(n, i) == [kind |-> "row", key |-> <<n, i>>]

\* Mutant: an exit edge of a loop still running connects nothing.
BugSourceRow(edge, class, target, terminal) ==
  LET i == target[2] IN
  CASE class = "back" /\ i > 0 -> Row(edge.from, i - 1)
    [] class = "exit" /\ i = 0 /\ edge.from \in DOMAIN terminal ->
         Row(edge.from, terminal[edge.from])
    [] class = "entry" /\ i = 0 -> Row(edge.from, 0)
    [] class \in {"intra", "plain"} -> Row(edge.from, i)
    [] OTHER -> [kind |-> "none"]

\* terminal maps the batch nodes of the loops that ended to their last pass.
sourceRow(edge, class, target, terminal) ==
  LET i == target[2] IN
  CASE class = "back" /\ i > 0 -> Row(edge.from, i - 1)
    [] class = "exit" /\ i = 0 /\ edge.from \in DOMAIN terminal ->
         Row(edge.from, terminal[edge.from])
    [] class = "exit" /\ i = 0 /\ edge.from \notin DOMAIN terminal -> [kind |-> "pending"]
    [] class = "entry" /\ i = 0 -> Row(edge.from, 0)
    [] class \in {"intra", "plain"} -> Row(edge.from, i)
    [] OTHER -> [kind |-> "none"]

\* The edges into key that connect something at its iteration, with their source.
edgeSources(graph, loops, key, terminal) ==
  {x \in {[edge |-> e, source |-> sourceRow(e, classifyEdge(e, loops), key, terminal)] :
            e \in {d \in graph.edges : d.to = key[1]}} : x.source.kind # "none"}

-----------------------------------------------------------------------------
(* Settlement. *)

Settled == {"completed", "failed", "skipped", "cancelled"}

isTerminalStep(row) == row.status \in Settled /\ LOOP_SLOT \notin DOMAIN row.outputs

\* The batch nodes whose last pass the edges into targets read.
exitSourcesInto(graph, loops, targets) ==
  {e.from : e \in {d \in graph.edges : d.to \in targets /\ classifyEdge(d, loops) = "exit"}}

isLive(row, edge) == row.status = "completed" /\ edge.outputIndex \in DOMAIN row.outputs

isPastLoopEnd(loops, key, steps) ==
  \E loop \in loopsOf(loops, key[1]) :
    LET batchKey == <<loop.batchNodeId, key[2]>> IN
    /\ key[1] # loop.batchNodeId
    /\ batchKey \in DOMAIN steps
    /\ isTerminalStep(steps[batchKey])

decideNodeFate(graph, loops, key, steps, terminal) ==
  LET sources == edgeSources(graph, loops, key, terminal)
      Resolved(x) == /\ x.source.kind = "row"
                     /\ x.source.key \in DOMAIN steps
                     /\ steps[x.source.key].status \in Settled
  IN IF sources = {} \/ isPastLoopEnd(loops, key, steps) THEN "outside"
     ELSE IF \E x \in sources : ~Resolved(x) THEN "undecidable"
     ELSE IF \E x \in sources : isLive(steps[x.source.key], x.edge) THEN "queued"
     ELSE "skipped"

\* A batch step decides its body while the loop runs and what follows once it ended.
batchStepDecides(class, row) == isTerminalStep(row) <=> class = "exit"

decideSuccessors(graph, loops, settled, steps, terminal) ==
  LET Decides(e) == settled[1] \in {l.batchNodeId : l \in loops}
                      => batchStepDecides(classifyEdge(e, loops), steps[settled])
      candidates == {targetKey(e, classifyEdge(e, loops), settled) :
                       e \in {d \in graph.edges : d.from = settled[1] /\ Decides(d)}}
                    \ DOMAIN steps
      Fated(fate) == {k \in candidates :
                        decideNodeFate(graph, loops, k, steps, terminal) = fate}
  IN [toQueue |-> Fated("queued"), toSkip |-> Fated("skipped")]

\* The rows decideSuccessors reads, loaded in one query.
decisionKeys(graph, loops, settled, terminal) ==
  LET targets == {targetKey(e, classifyEdge(e, loops), settled) :
                    e \in {d \in graph.edges : d.from = settled[1]}}
      Reads(key) == {x.source.key : x \in
        {y \in edgeSources(graph, loops, key, terminal) : y.source.kind = "row"}}
      Batch(key) == {<<l.batchNodeId, key[2]>> : l \in loopsOf(loops, key[1])}
  IN {settled} \cup targets \cup UNION {Reads(k) \cup Batch(k) : k \in targets}

-----------------------------------------------------------------------------
(* Completion. *)

\* Mutant: the last pass of the batch node is not counted.
BugCountExpected(loops, reachable, terminal) ==
  LET owing == {l \in loops : l.batchNodeId \in reachable}
      members == UNION {l.memberIds : l \in owing}
      OfLoop(l) == terminal[l.batchNodeId] * Cardinality(l.memberIds)
  IN IF \E l \in owing : l.batchNodeId \notin DOMAIN terminal THEN {}
     ELSE {MapThenSumSet(OfLoop, owing) + Cardinality(reachable \ members)}

\* Undefined (a loop the trigger reaches is still running) is an empty set here,
\* a total a singleton.
countExpectedSettledSteps(loops, reachable, terminal) ==
  LET owing == {l \in loops : l.batchNodeId \in reachable}
      members == UNION {l.memberIds : l \in owing}
      Passes(l) == terminal[l.batchNodeId]
      OfLoop(l) == Passes(l) + 1 + Passes(l) * (Cardinality(l.memberIds) - 1)
  IN IF \E l \in owing : l.batchNodeId \notin DOMAIN terminal THEN {}
     ELSE {MapThenSumSet(OfLoop, owing) + Cardinality(reachable \ members)}
=============================================================================
