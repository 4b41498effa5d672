SPECIFICATION Spec
CONSTANTS
  OneDollar = 8
  CountScale = 1
  TradingFeeBps = 1
  FeeBpsScale = 100
  MakerFee = 0
  ChargeMakers = FALSE
  FeeTick = 1
  Grid <- MCGrid
  MaxSize = 4
  Count = 2
  MaxPosition = 2
  MinCount = 1
  MinTopSize = 1
  MinProfitEdge = 1
  MaxSpread = 4
  MaxQuoteAway = 3
  InventorySkew = 1
  PenaltyBps = 5
  LiquidityBps = 5
  Bps = 10
  AdverseMove = 1
  TrendLookback = 2
  ObiSkew = 4
  AdverseBps = 2
  VolReference = 2
  EdgeRamp = 1
  FlattenSeconds = 2
  ReduceOnlySeconds = 2
  StopQuotingSeconds = 1
  PhaseSeconds = 2
  ObiHundredths = 60
  ObiFloor = 0
  GateBuys = TRUE
  TriggerTicks = 1
  Lookback = 1
  SignalSeconds = 1
  WidenTicks = 1
  TakerEdge = 0
  TakerFeeLimit = 1
  PriceThreshold = 1
  SizeThresholdBps = 2500
  MinOrderRest = 1
  Sessions <- MCSessions
  Touches <- MCTouches
  Holdings <- MCHoldings
  Estimates <- MCEstimates
  Cooldown = 1
  MaxNow = 3
  MaxUnseen = 1
  MaxSamples = 3
INVARIANTS
  ExposureBounded
  QuotesAreSound
  PhaseWindsDown
  TrackerIsExact
CHECK_DEADLOCK FALSE
