SPECIFICATION Spec
CONSTANTS
  a = a  b = b  c = c  e = e  n = n
  x = x  y = y  bank = bank
  NoSignal = NoSignal
  Signals = {a, b, c, e, n}
  Instruments = {x, y}
  Sectors = {bank}
  InstrumentOf <- InstrumentMap
  SectorOf <- OneSector
  Risk <- RiskMap
  Notional <- NotionalMap
  Correlated <- NoPairs
  Uncorrelated <- Unrelated
  Approved = {a, b, c}
  Legacy = {c}
  Pnl <- Results
  MaxDay = 1
  MaxOpenPositions = 4
  MaxAggregateRisk = 1000
  MaxGrossNotional = 200000
  HardDailyLoss = 1000
  MaxSectorRisk = 750
  MaxSectorNotional = 100000
  MaxCorrelatedRisk = 750
  MaxCorrelatedPositions = 2
  Direction <- Side
  Entry <- EntryPrice
  StopLoss <- StopPrice
  Target <- TargetPrice
  Quantity <- Thirty
  Friction <- Charges
  ValidUntil <- Validity
  Slots = 4
  EntryEnd = 2
  SquareOff = 3
INVARIANT MandatoryExit
CHECK_DEADLOCK FALSE
