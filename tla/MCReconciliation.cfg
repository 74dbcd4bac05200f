SPECIFICATION Spec
CONSTANTS
  NULL = NULL
  Main = {m1}
  Slot = {s1, s2}
  Owner = {1}
  OwnerType <- OneType
  Claimed = {1}
  Job = {1}
  OwnerOf <- JobPerOwner
  Followed = {1}
  Settle = 1
  Grace = 2
  BatchSize = 2
  MaxPages = 1
  FlightTicks = 1
  MaxPublish = 2
  MaxDisturb = 1
SYMMETRY Symmetry
INVARIANTS ProvisionedNeverDeleted
PROPERTIES CursorMovesFromItself
