SPECIFICATION Spec
CONSTANTS
  UnitsPerHour = 12
  SessionStart = 111
  SessionEnd = 186
  ReportStart = 187
  ReportEnd = 192
  HeartbeatGap = 6
  Days = 2
  MaxRestarts = 2
  early = early  late = late  credit = credit  foreign = foreign
  bot = bot  telemetry = telemetry
  Lines = {early, late, credit, foreign}
  HourOf <- HourMap
  Amount <- AmountMap
  Kind <- KindMap
  Units = {bot, telemetry}
  Threshold = 2
  Lookback = 2
  MaxHour = 3
  ConfigFiles <- FilesOfOperator
  s1 = "s1"  s2 = "s2"  s3 = "s3"  s4 = "s4"  it = it  metal = metal
  Stocks = {"s1", "s2", "s3", "s4"}
  CachedSectors = {"s1", "s2"}
  SectorName <- SectorMap
  MaxMinute = 2
  Level <- LevelMap
  Late <- LateFeeds
  NoTrades <- QuietMinutes
  InstrumentFiles <- FilesOfVendor
  QuoteKinds <- KindsOfQuotes
  BatchSize = 2
  DeepLimit = 4
  MinDeep = 3
  MinBars = 1
  MaxAttempts = 2
  Cost = 1
INVARIANTS SummariesAreExplained OneMomentPerCycle
PROPERTIES QuietMeansNoCost ReportedMeansLocked CostIsLocked
CHECK_DEADLOCK FALSE
