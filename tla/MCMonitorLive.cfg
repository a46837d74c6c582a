CONSTANTS
  a1 = a1
  a2 = a2
  g = g
  NoTask = NoTask
  Outbounds = {a1}
  Groups = {g}
  Members <- MCMembers1
  DependenciesInverse <- MCDependenciesInverse1
  Workers = {w1}
  PriorityCap = 1
  NormalCap = 1
  ReadyLimit = 2
  NumURLs = 2
  Flaky = {a1}
  MaxCycleID = 2
  MaxCalls = 1
  MaxDelayed = 2
SPECIFICATION FairSpec
INVARIANT FlagsBacked
PROPERTIES CycleEnds PriorityServed
CHECK_DEADLOCK FALSE
