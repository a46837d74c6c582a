CONSTANTS
  Queries = {q1, q2, q3}
  Closers = {}
  Conns = {x1}
  NoConn = NoConn
  NoQuery = NoQuery
  NumIDs = 2
  Large = {}
  Nobody = Nobody
  NoRange = NoRange
  Callers = {p1, p2}
  Domains = {d1, d2}
  Configs <- MCConfigs
  Last <- MCLast
  Askers = {p1, p2, p3}
  MaxSavers = 2
SPECIFICATION PartsSpec
INVARIANTS OwnCallback NoCrossTalk Resolves AnswerInRange Coalesced
SYMMETRY QuerySymmetry
CHECK_DEADLOCK FALSE
