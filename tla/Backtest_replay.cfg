SPECIFICATION Spec
CONSTANTS
  OneDollar = 4
  CountScale = 2
  TradingFeeBps = 4
  FeeBpsScale = 3
  MakerFee = 2
  ChargeMakers = FALSE
  FeeTick = 2
  TradeNum = 1
  TradeDen = 2
  PriceThreshold = 2
  SizeThresholdBps = 2500
  MinOrderRest = 1
  Grid <- TwoPrices
  MaxSize = 2
  Models <- AllModels
  Intents <- BidAndAsk
  Latency = 1
  MinRequote = 0
  StartingBalance = 2
  Cent = 2
  MaxGap = 1
  MaxEvents = 4
  MaxOrders = 2
INVARIANTS
  BookAgrees
  AccountIsTrue
  FillsAreHonest
  BuysArePaidFor
