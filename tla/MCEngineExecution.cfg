SPECIFICATION Spec
CONSTANTS
  Graphs <- AllGraphs
  TriggerOutputs <- TwoItems
  StepOutputs <- SomeOutputs
  Text = Text
  ExecutorTypes = {"v1-node"}
  Planner = {p1, p2}
  Runner = {r1}
  MaxFaults = 1
CHECK_DEADLOCK FALSE
SYMMETRY Symmetry
INVARIANTS TypeOK FatesConverge NoEarlyFinish InputsAlwaysReadable NothingStranded
PROPERTIES StepRunsOnce
