SPECIFICATION FairSpec
CONSTANTS
  NULL = NULL
  Main = {m1}
  Job = {1}
  Owner <- SameOwner
  Schedules <- Mixed
  Policies = {"skip", "coalesce"}
  Window = 1
  Lookahead = 0
  MaxPerJob = 1
  BatchSize = 1
  PlanRetry = 1
  Grace = 1
  ExecLookahead = 1
  Backoffs = {1}
  Retention = 2
  Stale = 1
  MaxTime = 3
  MaxDisturb = 1
PROPERTIES ClockCatchesUp
CHECK_DEADLOCK FALSE
