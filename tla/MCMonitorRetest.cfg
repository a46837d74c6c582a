CONSTANTS
  a1 = a1
  a2 = a2
  g = g
  NoTask = NoTask
  Outbounds = {a1}
  Groups = {g}
  Members <- MCMembers1
  DependenciesInverse <- MCDependenciesInverse1
  Workers = {w1}
  PriorityCap = 1
  NormalCap = 1
  ReadyLimit = 2
  NumURLs = 1
  Flaky = {}
  MaxCycleID = 2
  MaxCalls = 1
  MaxDelayed = 2
SPECIFICATION ReadySpec
PROPERTY Retested
CHECK_DEADLOCK FALSE
