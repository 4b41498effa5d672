SPECIFICATION Spec
CONSTANTS
  Markets = {"a", "b"}
  MaxPlaced = 3
  Leftovers <- MCLeftovers
  MaxOffers = 2
  MaxFailures = 2
  MaxStarts = 2
  CountScale = 2
  MaxTrades = 2
  MinMakerFills = 2
  MinScored = 2
  MaxMeanFee = 1
  GoodMarkout = 1
  Grace = 2
  MaxAge = 3
  Samples <- MCSamples
  MaxEvents = 4
  FlushEvery = 2
  Thin = 2
  MaxCycles = 3
INVARIANTS FlattenNeverReverses
CHECK_DEADLOCK FALSE
