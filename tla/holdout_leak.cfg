SPECIFICATION Spec
CONSTANTS
  MaxDay = 1
  Holidays = {}
  Contracts = {1, 2}
  Expiry <- ExpiryMap
  ListedFrom <- ListedMap
  Bars = 2
  VendorGaps = {}
  ChunkDays = 2
  ArchiveWorkers = 1
  Workers = 2
  MaxAttempts = 2
  Unreliable <- Flaky
  MaxRuns = 2
  Scale = 10000
  BrokerageRate = 100
  BrokerageCap = 3
  SttRate = 3
  ExchangeRate = 1
  SebiRate = 0
  StampRate = 1
  GstPercent = 18
  ProbeNotional = 100
  Capital = 1000
  RiskBudget = 60
  MinStopDistance = 3
  Shapes <- ShapeSet
  Bc = 36
  Tc = 44
  Slippage = 650
  LastSlot = 5
  SquareOffSlot = 4
  MaxBars = 4
  TradePool <- Pool
  MaxCandidates = 6
  MaxOpen = 3
  MaxRisk = 1000
  MaxNotional = 200
  DailyStop = 1000
  Universe = {1, 2, 3, 4, 5}
  Calendar = {0, 1, 2, 3, 4, 5, 6, 7}
  Minutes = {0, 1, 2, 3}
  Archives <- ArchiveSet
  Horizons = {1, 2}
  Warmup = 2
  Stride = 1
  MinPrior = 1
  Lookback = 2
  LatestExit = 3
  MinUniverse = 3
  HoldoutEvery = 3
  MinHeldOut = 2
  MinDevelopers = 3
  HoldoutSessions = 2
  MinSessions = 6
  MinDevelopment = 4
  MinTrain = 2
  TestBlock = 1
  MinOofDates = 3
  MinEval = 1
  MinFitRows = 3
  Unscorable <- Broken
  Totals = {0, 1}
  Validations = {1, 2, 3}
  MaxRunning = 2
  MayDie = {1, 2}
  ScoredRows <- ScoredPool
  MaxRows = 6
  Holding = 2
  SessionSlots = 4
  StartingCapital = 1000
  MaxTradeRisk = 100
  HardLoss = 200
  MaxOpenRisk = 150
  PositionPercent = 50
INVARIANT HeldOutSymbolsUnseen
CHECK_DEADLOCK FALSE
