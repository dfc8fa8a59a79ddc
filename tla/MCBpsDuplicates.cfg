SPECIFICATION Spec
CONSTANTS
  StartHeight = 1
  Depth = 1
  Step = 500
  BatchMax = 1
  Multiplier = 10
  MaxUnits = 3
  MaxReorgs = 0
  MaxResends = 0
  MaxCrashes = 1
INVARIANTS DuplicatesAbsorbed
CHECK_DEADLOCK FALSE
