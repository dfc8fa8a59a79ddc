SPECIFICATION Spec
CONSTANTS
  a1 = a1
  a2 = a2
  w1 = w1
  w2 = w2
  Accounts = {a1, a2}
  Windows = {w1, w2}
  Background = background
  MaxSalt = 3
  MaxWrites = 3
  MaxRestarts = 2
INVARIANTS TypeOK KeyOpensVault AccountsKept UnlockedIsReady LockedIsClean
CONSTRAINT Undisturbed
SYMMETRY Symmetry
CHECK_DEADLOCK FALSE
