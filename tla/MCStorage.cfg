CONSTANTS
  Nil = Nil
  NoIp = NoIp
  Unset = Unset
  Selections = {p1, p2}
  Conns = {c1, c2}
  SelectorTags = {o1, o2}
  Default = o1
  InterruptExternal = {TRUE, FALSE}
  Versions = {v1, v2, v3}
  Tagged = {TRUE, FALSE}
  TestedOutbounds = {o1, o2}
  TestDelays = {1}
  TestTimeout = 9
  IpInfos = {i1}
  MaxResults = 2
  Strategies = {"round-robin", "lowest-delay", "consistent-hashing", "sticky-sessions"}
  N = 3
  Delays = {60, 500}
  Cached = {60}
  Ratio = 4
  MaxRetry = 3
  Keys = {d1}
  Hash <- MCHash
  MaxTests = 2
  OtherN = 4
  BalInterrupt = {TRUE, FALSE}
  BalConns = {c1}
  None = None
  Torn = Torn
  Size = 2
  MaxUint16 = 65535
  UDPOutbounds = {2}
  TestedDelays = {100, 200}
  Tolerance = {50, 150}
  TestConns = {c1}
  Checker = Checker
  MaxStores = 1
  SpareExternal = {FALSE}
  Queries = {q1, q2, q3}
  Closers = {k1}
  Streams = {x1, x2}
  NoStream = NoStream
  NoQuery = NoQuery
SPECIFICATION PartsSpec
INVARIANTS SavedWhenClean NotModifiedTrue NoStaleConn SelectionKept FairTurns FollowsLowest SteadyChoice FollowsChoice OwnAnswer NoConnLeft
CHECK_DEADLOCK FALSE
