CONSTANTS
  r1 = r1
  r2 = r2
  r3 = r3
  Requests = {r1}
  FromParent = {r1}
  Untimed = {}
  MaxEvents = 1
  MaxReloads = 0
SPECIFICATION Spec
INVARIANT EarlyEventsHeard
CHECK_DEADLOCK FALSE
