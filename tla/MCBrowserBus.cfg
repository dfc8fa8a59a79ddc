CONSTANTS
  r1 = r1
  r2 = r2
  r3 = r3
  Requests = {r1, r3}
  FromParent = {r1}
  Untimed = {r3}
  MaxEvents = 1
  MaxReloads = 2
SPECIFICATION FairSpec
INVARIANTS TypeOK PendingIsReachable
PROPERTIES CallsAreRemote Settled
CHECK_DEADLOCK FALSE
