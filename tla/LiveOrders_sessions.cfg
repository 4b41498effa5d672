SPECIFICATION FairSpec
CONSTANTS
  PriceThreshold = 1
  SizeThresholdBps = 2500
  MinOrderRest = 1
  Intents <- BidAndOffer
  Tickers <- BothTickers
  MinRequote = 1
  Cooldown = 1
  PartialFillOnCreate = FALSE
  MaxOrders = 2
  MaxTime = 1
  MaxSessions = 2
INVARIANTS
  OneRestingOrderPerQuote
  RestingIsTracked
  CancelledIsDead
  CleanShutdownLeavesNothing
  NeverUnderstatesRemaining
  FillsJournalledOnce
PROPERTIES
  TaskReturns
CHECK_DEADLOCK FALSE
