SPECIFICATION FairSpec
CONSTANTS
  NULL = NULL
  Main = {m1}
  Slot = {s1}
  Owner = {1, 2}
  OwnerType <- TypePerOwner
  Claimed = {1, 2}
  Job = {1, 2}
  OwnerOf <- JobPerOwner
  Followed = {}
  Settle = 1
  Grace = 3
  BatchSize = 1
  MaxPages = 1
  FlightTicks = 1
  MaxPublish = 2
  MaxDisturb = 0

INVARIANTS TypeOK
PROPERTIES OrphansRetired LivingRevived
