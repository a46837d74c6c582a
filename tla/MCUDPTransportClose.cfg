CONSTANTS
  Queries = {q1, q2}
  Closers = {k1}
  Conns = {x1}
  NoConn = NoConn
  NoQuery = NoQuery
  NumIDs = 1
  Large = {q1, q2}
SPECIFICATION FairSpec
INVARIANTS CloseLeavesNothing WaiterBacked
PROPERTIES ExchangeReturns CloseFinishes
CHECK_DEADLOCK FALSE
