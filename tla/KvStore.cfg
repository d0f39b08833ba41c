SPECIFICATION Spec
CONSTANTS
  Pools <- TwoFormats
  None = None
INVARIANTS
  PoolHolds
  GatherReturns
CHECK_DEADLOCK FALSE
