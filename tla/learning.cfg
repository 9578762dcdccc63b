SPECIFICATION Spec
CONSTANTS
  t1 = t1  t2 = t2  t3 = t3  x = x  y = y
  NoTrace = NoTrace
  Traces = {t1, t2, t3}
  Symbols = {x, y}
  SymbolOf <- SymbolMap
  BarExists = {t1, t2}
  Horizon = 2
  Slots = 5
  LastFullCycle = 2
  MaxExtraFetches = 1
  MaxDay = 1
  MaxRows = 3
INVARIANTS MarkedMeansRecorded OnceUnlessInterrupted LateDecisionsStayPending
PROPERTY FullCyclesLabel
CHECK_DEADLOCK FALSE
