CONSTANTS
  o1 = o1 o2 = o2 r1 = r1 r2 = r2 r3 = r3 c1 = c1 c2 = c2 c3 = c3
  None = None
  Origins = {o1, o2}
  Requests = {r1, r3}
  OriginOf <- MCOriginOf
  ConnOf <- MCConnOf
  Conns <- MCConns
  Windows = {w1}
  w1 = w1
  Payable = {r1}
  Publish = {r1}
  Listed = {}
  MaxFee = 1
  MaxOutside = 1
SPECIFICATION Spec
INVARIANT BlockedStaysBlocked
CHECK_DEADLOCK FALSE
