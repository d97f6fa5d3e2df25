SPECIFICATION Spec
CHECK_DEADLOCK FALSE
CONSTANTS
  P = 2
  Metrics = {1, 2}
  HasMgmt = TRUE
  Ports = {1, 2, 3}
  Q = 2
  Free = Free
  Other = Other
INVARIANTS
  TypeOK
  PoolsOwnData
PROPERTIES
  NothingHangs
  ForwardsRecover
