SPECIFICATION FairSpec
CONSTANTS
  StartHeight = 1
  Depth = 2
  Step = 1
  BatchMax = 2
  Multiplier = 10
  MaxUnits = 4
  MaxReorgs = 1
  MaxResends = 0
  MaxCrashes = 1
PROPERTIES CatchesUp EventsPublished
CHECK_DEADLOCK FALSE
