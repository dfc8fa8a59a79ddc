SPECIFICATION Spec
CONSTANTS
  StartHeight = 1
  Depth = 3
  Step = 2
  BatchMax = 2
  Multiplier = 10
  MaxUnits = 5
  MaxReorgs = 2
  MaxResends = 1
  MaxCrashes = 1
INVARIANTS TypeOK Replica BlocksReplica RollbackTargetStored TxsStoredOnce UidsInChainOrder RunningAbsorbsDuplicates
PROPERTIES ResentWritesNothing MetricFollowsCommit
CHECK_DEADLOCK FALSE
