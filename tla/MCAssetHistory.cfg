SPECIFICATION Spec
CONSTANTS
  Assets = {a1, a2}
  TickersOn = TRUE
  MaxUid = 4
  MaxBatch = 2
  MaxUpdates = 2
  MaxBlockUid = 5
INVARIANTS TypeOK VersionChains RowsHaveBlocks OriginIsFirstVersion
PROPERTIES AssetsAreSnapshots TickersAreSnapshots
SYMMETRY Symmetry
CHECK_DEADLOCK FALSE
