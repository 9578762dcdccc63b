SPECIFICATION Spec
CONSTANTS
  a = a  b = b  c = c  e = e  f = f
  bank = bank  oil = oil
  Signals = {a, b, c, e, f}
  Instruments = {a, b, c, e, f}
  Sectors = {bank, oil}
  InstrumentOf <- Own
  SectorOf <- SectorMap
  Risk <- RiskMap
  Notional <- NotionalMap
  Correlated <- CorrelatedPairs
  Uncorrelated <- UncorrelatedPairs
  Approved = {a, b, c, e, f}
  Legacy = {}
  Pnl <- Results
  MaxDay = 1
  MaxOpenPositions = 3
  MaxAggregateRisk = 1000
  MaxGrossNotional = 180000
  HardDailyLoss = 1000
  MaxSectorRisk = 750
  MaxSectorNotional = 120000
  MaxCorrelatedRisk = 900
  MaxCorrelatedPositions = 2
INVARIANTS BookWithinLimits NoCorrelatedCycle DailyLossIsBounded
CHECK_DEADLOCK FALSE
