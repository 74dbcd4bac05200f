SPECIFICATION Spec
CONSTANTS
  NULL = NULL
  Main = {m1}
  Job = {1}
  Owner <- SameOwner
  Schedules <- Mixed
  Policies = {"coalesce"}
  Window = 2
  Lookahead = 1
  MaxPerJob = 2
  BatchSize = 1
  PlanRetry = 1
  Grace = 1
  ExecLookahead = 1
  Backoffs = {1}
  Retention = 2
  Stale = 1
  MaxTime = 4
  MaxDisturb = 0
INVARIANTS BacklogGetsItsLateRun
CHECK_DEADLOCK FALSE
