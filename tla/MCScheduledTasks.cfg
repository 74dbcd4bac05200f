SPECIFICATION Spec
CONSTANTS
  Host = {h1, h2}
  Task = {t1}
  NULL = NULL
  MaxAttempts = 2
  LeaseTicks = 1
  LookaheadTicks = 0
  BaseBackoff = 1
  MaxBackoff = 1
  MisfireGrace = 1
  MaxRunIn = 1
  MaxDisturb = 1
SYMMETRY Symmetry
INVARIANTS IInv HandlerRunsBounded NoFailureAfterDispatch SucceededHasEffect MissedNeverRan
PROPERTIES HandlerOncePerLease LiveLeaseRespected ReaperNeverRedelivers ImplementsLife
