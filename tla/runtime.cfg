SPECIFICATION FairSpec
CONSTANTS
  f1 = f1  f2 = f2  f3 = f3  x = x  y = y
  p1 = p1  p2 = p2
  Nobody = Nobody
  Fills = {f1, f2, f3}
  Symbols = {x, y}
  Processes = {p1, p2}
  SymbolOf <- SymbolMap
  Quoted <- QuotedMap
  Paid <- PaidMap
  Risk <- RiskMap
  Results <- LossOrGain
  StartingEquity = 28000
  MaxRiskPerTrade = 500
  MaxAggregateRisk = 900
  HardDailyLoss = 600
  PositionShare = 2
  MaxDay = 1
  Slots = 6
  MarketOpen = 0
  EntryCutoff = 2
  MandatoryExit = 3
  ExchangeClose = 4
  Horizon = 3
  CycleSlots = 2
INVARIANTS RiskWithinLimit OneOpenPerSymbol TradesMatchClosures
  CapitalViewIsCurrent NoLateEntry SweepLeavesOnlyFailures
PROPERTIES AccountSpec CycleEnds
CHECK_DEADLOCK FALSE
