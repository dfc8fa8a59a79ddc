SPECIFICATION Spec
CONSTANTS
  Clients = {c1, c2}
  Singles = {s1}
  Multis = {m1}
  None = None
  c1 = c1
  c2 = c2
  s1 = s1
  m1 = m1
  BufferSize = 1
  ChannelSize = 1
  MaxWrites = 2
  MaxErrors = 1
INVARIANTS TypeOK DirectAgrees GoneIsForgotten HeardIsRegistered DirectUpdatesAnswered SubscribersCurrent
SYMMETRY Symmetry
CHECK_DEADLOCK FALSE
