SPECIFICATION Spec
CONSTANTS
  Pass = {p1, p2}
  Limit = 1
  Interval = 2
  Jitter = 1
  MaxDelay = 2
  a = a
  c = c
  Task = {a, c}
  WindowOf <- OnePerWindow
  BatchSize = 1
  MaxBatches = 2
  MaxStall = 2
  MaxFaults = 1
  NoPass = NoPass
  NoAlarm = NoAlarm
CHECK_DEADLOCK FALSE
INVARIANTS TypeOK NoBurst CadenceKept
PROPERTIES AbortedIssuesNothing StopResolves FinishedRowsGo
