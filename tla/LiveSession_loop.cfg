SPECIFICATION FairSpec
CONSTANTS
  MaxAbsPosition = 1
  MaxSessionLoss = 0
  MaxDrawdown = 0
  MaxOrdersPerMinute = 1
  MaxConsecutiveRejections <- NoLimit
  MaxFeedSilence = 1
  Minute = 2
  Tickers = {"M1"}
  Poll = 1
  Duration = 3
  MaxCall = 1
  MaxBatch = 2
  MaxQuote = 1
  StaleFills = FALSE
  MaxRequests = 4
  MaxHeld = 2
  MaxFeed = 2
  MaxTime = 4
INVARIANTS
  AcceptedRateBounded
  LoopIsPunctual
  PositionsCatchUp
PROPERTIES
  StopEnds
CHECK_DEADLOCK FALSE
