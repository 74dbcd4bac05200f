SPECIFICATION Spec
CONSTANTS
  NULL = NULL
  Main = {m1, m2}
  Job = {1}
  Owner <- SameOwner
  Schedules <- Recurring
  Policies = {"coalesce"}
  Window = 1
  Lookahead = 1
  MaxPerJob = 3
  BatchSize = 1
  PlanRetry = 1
  Grace = 1
  ExecLookahead = 1
  Backoffs = {1}
  Retention = 2
  Stale = 1
  MaxTime = 4
  MaxDisturb = 2
SYMMETRY Symmetry
INVARIANTS TypeOK OneRowPerInstant SettledNeverRequeued
PROPERTIES LatenessBounded ClockNeverRewinds
CHECK_DEADLOCK FALSE
