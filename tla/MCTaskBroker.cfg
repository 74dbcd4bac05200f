SPECIFICATION Spec
CONSTANTS
  Runner = {r1}
  Request = {q1, q2}
  TypeOf <- OneType
  LauncherKinds = {TRUE, FALSE}
  MaxConcurrency = 1
  MaxStrikes = 2
  Mode = "external"
  MaxOffers = 2
  MaxSessions = 2
  NoTask = NoTask
CHECK_DEADLOCK FALSE
INVARIANTS TypeOK RequesterInSync OneAttemptPerRequest SlotsAccounted
PROPERTIES EveryRequestAnswered
