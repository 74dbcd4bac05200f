-------------------------- MODULE MCEngineExecution --------------------------
\* Small instances of EngineExecution for TLC.
EXTENDS EngineExecution

Edge(from, out, to, in) ==
  [from |-> from, to |-> to, outputIndex |-> out, inputIndex |-> in, isBackEdge |-> FALSE]
Back(from, out, to) ==
  [from |-> from, to |-> to, outputIndex |-> out, inputIndex |-> 0, isBackEdge |-> TRUE]

\* Every graph over the given nodes with some of the given edges.
Family(type, edges) ==
  {[type |-> type, batchSize |-> [n \in DOMAIN type |-> 1], edges |-> E] : E \in SUBSET edges}

\* Branches, a join on two slots, a node fed from a branch and from the trigger, a
\* forward cycle, an unreachable feeder.
Branches ==
  Family("t" :> "trigger" @@ "a" :> "v1-node" @@ "b" :> "v1-node" @@ "c" :> "v1-node",
         { Edge("t", 0, "a", 0), Edge("t", 1, "b", 0), Edge("a", 0, "c", 0),
           Edge("b", 0, "c", 1), Edge("c", 0, "b", 1) })

\* A loop with a one-node body, what follows it, a join of the loop's end with the
\* trigger, a way out of and into the body.
OneLoop ==
  Family("t" :> "trigger" @@ "L" :> "batch" @@ "a" :> "v1-node" @@ "c" :> "v1-node",
         { Edge("t", 0, "L", 0), Edge("L", 1, "a", 0), Back("a", 0, "L"),
           Edge("L", 0, "c", 0), Edge("t", 1, "c", 1), Edge("a", 1, "c", 2),
           Edge("t", 0, "a", 1) })

\* Two loops without bodies, one feeding the other.
TwoLoops ==
  Family("t" :> "trigger" @@ "L" :> "batch" @@ "M" :> "batch",
         { Edge("t", 0, "L", 0), Back("L", 1, "L"), Edge("L", 0, "M", 0), Back("M", 1, "M") })

\* A body of two nodes, the second fed by both slots of the first's branch.
LongBody ==
  {[type |-> "t" :> "trigger" @@ "L" :> "batch" @@ "a" :> "v1-node" @@ "b" :> "v1-node",
    batchSize |-> [n \in {"t", "L", "a", "b"} |-> 1],
    edges |-> { Edge("t", 0, "L", 0), Edge("L", 1, "a", 0), Edge("a", 0, "b", 0),
                Edge("L", 1, "b", 1), Back("b", 0, "L") }]}

\* A step type the validation accepts and nothing executes, beside and after one that runs.
Waits ==
  Family("t" :> "trigger" @@ "a" :> "v1-node" @@ "w" :> "wait",
         { Edge("t", 0, "a", 0), Edge("t", 1, "w", 0), Edge("a", 0, "w", 1) })

AllGraphs == Branches \cup OneLoop \cup TwoLoops \cup LongBody \cup Waits
TwoItems == {0 :> 2, (0 :> 2) @@ (1 :> 1), NoOutputs, 0 :> 0, 0 :> Text}
SomeOutputs == {0 :> 1, 1 :> 1}
Symmetry == Permutations(Planner) \cup Permutations(Runner)
=============================================================================
