SPECIFICATION Spec
CONSTANTS
  Graphs <- AllGraphs
  TriggerOutputs <- TwoItems
  StepOutputs <- SomeOutputs
  Text = Text
  ExecutorTypes = {"v1-node"}
  Planner = {p1}
  Runner = {r1, r2}
  MaxFaults = 0
CHECK_DEADLOCK FALSE
PROPERTIES EveryExecutionEnds
