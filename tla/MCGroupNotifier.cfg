CONSTANTS
  Outbounds = {o1}
  Nested = {n1}
  Selectors = {s1}
  Workers = {w1}
  Buffer = 1
SPECIFICATION FairSpec
INVARIANTS NoLostChange MapHoldsOpen
PROPERTIES ChangeSeen
CHECK_DEADLOCK FALSE
