SPECIFICATION Spec
CONSTANTS
  TabSets <- MCTabSets
  MaxFillRows = 2
  MaxFills = 3
  MaxStarts = 2
  MaxQueue = 2
  Accounts <- MCAccounts
  LotSize = 2
  Space <- MCSpace
  MaxTrials = 3
  Outcomes <- MCOutcomes
  MinTrain = 2
  Library <- MCLibrary
  Gains <- MCGains
  Tickers = {"a", "b"}
  CountScale = 2
  MaxSent = 4
  RoundTrips = 2
  Trials = 2
  PriceOne = 1000
  EventPages <- MCEventPages
  Targets <- MCTargets
  FeeVolume = 2
  FeeSpread = 3
  Sweeps <- MCSweeps
  QueueVolume = 2
  Probed = 2
  ThinDepth = 10
  PerMode = 1
  RestCount = 1
  Family <- MCFamily
  MaxBooks = 1
  Arms <- MCArms
  MaxCycles = 2
  MaxSittings = 2
  MaxLines = 2
  MaxRows = 1
  MaxHours = 2
  MaxRowsMade = 3
  FamilyPools <- MCFamilyPools
  FamilyOrder <- MCFamilyOrder
  SeedOf <- MCSeeds
  PerFamily = 1
  MaxRuns = 3
  ListRefresh = 2
  MaxListing = 2
  MaxCycle = 2
  MaxTime = 8
  MaxSeq = 3
  Offers <- MCOffers
  AutoCount = 2
  MinVolume = 2
  Shortlisted = 4
  PolledBooks <- MCPolledBooks
  DollarLevel = 3
  Par = 9
  WindowLen = 8
  SettleTime = 2
  MinPinned = 3
  PinnedSeries = {"btc", "eth"}
  Slots = 3
  Listings <- MCListings
  FeeTicks <- MCFeeTicks
  Improvement = 1
  CommonTick = 2
  NearMiss = 2
  CycleTimes = {1, 7}
  PageSize = 2
  Settled <- MCSettled
  MaxBackoffs = 3
  MaxCrawls = 2
  CloseOf <- MCCloses
  PhaseMin = 1
  PhaseMax = 3
  Ahead = 1
  Cooldown = 1
  MaxFeedSilence = 1
  RefreshEvery = 2
  Span = 2
  Grace = 1
  Touches <- MCTouches
  Dollar = 100
  MaxSpread = 2
  MinCrossable = 1
  EntryMin = 2
  EntryMax = 5
  Duration = 4
  MaxSignals = 3
  MaxClock = 6
  Kept <- MCKept
  OneDollar = 100
  Bands <- MCBands
  MaxSpreadTicks = 2
  MinGap = 2
  Horizons = {1, 2}
  MinObi = 8
  EntryFrom = 2
  EntryTo = 5
  MinToCross = 1
  StudyCooldown = 2
  Holds = {1}
  Rests = {1, 2}
  CloseOffset = 3
  MaxOffset = 4
  MaxSamples = 4
  MaxRecordings = 2
  Starts = {2}
  CacheRows <- MCCacheRows
  FullPrice = 5
  PerTick = 4
  FeeRate = 1
  PriceBands <- MCPriceBands
  CrossShare <- MCCrossShare
  MinTriggers = 2
  MinWindows = 2
  Periods <- MCPeriods
  ShortLeft = 2
  Filters <- MCFilters
  Top = 1
  Error = 10
  PTable <- MCPTable
  MaxCached = 4
  Rolling = {"k"}
  TradePage = 2
  Depth = 1
  Ranks = {1, 2}
  MaxSize = 1
  MaxMoves = 3
  MaxPolls = 2
  Mids = {4, 6}
  FillKinds <- MCFillKinds
  Leans <- MCLeans
  Horizon = 2
  MidTolerance = 1
  ObiTolerance = 1
  Offsets <- MCOffsets
  Offset = 1
  Thresholds = {50}
  MinBucket = 2
  MarkHorizons = {1, 2}
  Buckets <- MCBuckets
  CloseTime = 3
  VolWindow = 1
  MinVolSamples = 2
  KeepNum = 1
  KeepDen = 2
  Lookahead = 1
  EquityEvery = 1
  Results <- MCResults
  VolumeFiles <- MCVolumes
  LiveFiles <- MCLive
  Units = 2
  MinSamples <- MCMinSamples
  Tenth = 2
  MaxReplayed = 3
  MaxLinesWritten = 4
  MaxEvents = 3
  MaxSeconds = 2
INVARIANTS
  RunningCanBeStopped SearchIsSpread ProbesCleanUp LedgerIsTrue CollectedIsKept PollsAreTrue
  ExtractionIsLive ExitsAreBracketed CalibrationIsABound 
PROPERTIES StopLeadsToStart SignalsAreKept
CHECK_DEADLOCK FALSE
