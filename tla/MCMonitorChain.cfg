CONSTANTS
  a1 = a1
  a2 = a2
  g = g
  NoTask = NoTask
  Outbounds = {a1, a2}
  Groups = {g}
  Members <- MCMembers
  DependenciesInverse <- MCDependenciesInverse
  Workers = {w1}
  PriorityCap = 1
  NormalCap = 1
  ReadyLimit = 2
  NumURLs = 1
  Flaky = {}
  MaxCycleID = 2
  MaxCalls = 1
  MaxDelayed = 1
SPECIFICATION Spec
INVARIANT StageAccounting
CHECK_DEADLOCK FALSE
SYMMETRY Symmetry
