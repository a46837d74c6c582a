CONSTANTS
  Callers = {c1, c2, c3}
  Conns = {x1, x2}
  NoConn = NoConn
SPECIFICATION FairSpec
INVARIANTS SingleFlight NoOrphan
PROPERTIES NoLostWakeup
