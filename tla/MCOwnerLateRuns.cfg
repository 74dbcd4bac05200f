SPECIFICATION Spec
CONSTANTS
  NULL = NULL
  Main = {m1, m2}
  Job = {1, 2}
  Owner <- SameOwner
  Schedules <- Dense
  Policies = {"coalesce_owner"}
  Window = 1
  Lookahead = 0
  MaxPerJob = 3
  BatchSize = 2
  PlanRetry = 1
  Grace = 1
  ExecLookahead = 1
  Backoffs = {1}
  Retention = 2
  Stale = 1
  MaxTime = 3
  MaxDisturb = 0
SYMMETRY Symmetry
PROPERTIES OneLateRunPerOwner
CHECK_DEADLOCK FALSE
