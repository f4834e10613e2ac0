\* The components that stand alone, each over its own bounds.
\* Every part comes to its bounds and stops: no deadlock check.
SPECIFICATION MCSpec
CONSTANTS
  Stocks = {a, b}
  MaxShorts = 2
  LastDay = 2
  MaxDeaths = 1
  Tickers = {a, b, c}
  Universe = {a, b}
  MaxHeld = 1
  Smoke = 3
  MaxGiven = 4
  MaxStarts = 2
  MaxSweeps = 1
  Contracts = {a, b}
  WarmUp = 2
  AtrBars = 2
  Days = 2
  MaxLives = 1
  Shifts <- MCShifts
  StartTimes = {6310, 6715, 8000, 11100}
  Outages = {500}
  LastDate = 9
  MaxRaises = 1
  Names = {a, b}
  Permitted = {a}
  Production = FALSE
  Limit = 2
  Window = 2
  LastTick = 3
  MaxSteps = 1
  NumSymbols = 2
  Prices = {50, 100}
  Capital = 200
  PerSlot = 100
  MaxPos = 2
  StopPercent = 92
  MaxSessions = 3
  NumDates = 4
  MaxSessions006 = 3
  MaxBars006 = 3
INVARIANTS
  OneEntryPerSession
  JudgedByFreshVix
  ShortWithinMissed
  HeldWithinLives
  BandsOfSession
  FlattenedInTime
  HandledUntilDone
  UnderTwiceTheLimit
  CashCoversEntries
  GapFillsOnly
  OvernightOnlyFromLastBar
CHECK_DEADLOCK FALSE
