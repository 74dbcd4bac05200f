SPECIFICATION FairSpec
CONSTANTS
  Host = {h1}
  Task = {t1}
  NULL = NULL
  MaxAttempts = 2
  LeaseTicks = 1
  LookaheadTicks = 0
  BaseBackoff = 1
  MaxBackoff = 1
  MisfireGrace = 1
  MaxRunIn = 1
  MaxDisturb = 1

PROPERTY EveryOccurrenceSettles
