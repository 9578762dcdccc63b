SPECIFICATION Spec
CONSTANTS
  d1 = d1  d2 = d2
  a = a  b = b  c = c
  x = x  y = y
  bank = bank
  NoSignal = NoSignal
  NoDesk = NoDesk
  Signals = {a, b, c}
  Sectors = {bank}
  Quantity <- TenShares
  MaxGrossNotional = 200000
  HardDailyLoss = 1000
  MaxSectorNotional = 100000
  Desks = {d1}
  Instruments = {x, y}
  InstrumentOf <- SharedInstrument
  SectorOf <- OneSector
  Risk <- MixedRisk
  Notional <- MidNotional
  Correlated <- NoPairs
  Uncorrelated <- PairXY
  Approved = {a, b, c}
  Legacy = {b}
  Pnl <- LossAndGain
  MaxDay = 1
  TransactionRetries = 2
  MaxOpenPositions = 4
  MaxAggregateRisk = 1000
  MaxSectorRisk = 750
  MaxCorrelatedRisk = 750
  MaxCorrelatedPositions = 2
INVARIANT ReplayIgnored
CHECK_DEADLOCK FALSE
