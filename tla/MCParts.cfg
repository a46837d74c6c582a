CONSTANTS
  Touchers = {t1, t2}
  MaxRuns = 2
  Closer = Closer
  MaxWrites = 4
  Size <- MCSize
  Limit = 2
  Kinds = {"stream", "packet"}
SPECIFICATION PartsSpec
INVARIANTS TickerServed NilTickerOnlyAtClose NoLostSignal OnCloseOnce
PROPERTIES CloseReturns WriteReturns EndsTogether
CHECK_DEADLOCK FALSE
