SPECIFICATION Spec
CONSTANTS
  a1 = a1
  a2 = a2
  w1 = w1
  w2 = w2
  Accounts = {a1, a2}
  Windows = {w1, w2}
  Background = background
  MaxSalt = 2
  MaxWrites = 2
  MaxRestarts = 0
INVARIANT KeyClearedOnLock
CHECK_DEADLOCK FALSE
