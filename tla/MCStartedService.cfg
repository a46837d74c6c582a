CONSTANTS
  Clients = {c1, c2, c3}
  MaxInstances = 3
  NoClient = NoClient
SPECIFICATION ServiceSpec
INVARIANT NoInstanceLeft
PROPERTY StopEnds
CHECK_DEADLOCK FALSE
