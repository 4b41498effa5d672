SPECIFICATION Spec
CONSTANTS
  MaxAbsPosition <- NoLimit
  MaxSessionLoss = 0
  MaxDrawdown = 0
  MaxOrdersPerMinute = 1
  MaxConsecutiveRejections <- NoLimit
  MaxFeedSilence = 2
  Minute = 2
  Tickers = {"M1"}
  Poll = 1
  Duration = 4
  MaxCall = 2
  MaxBatch = 2
  MaxQuote = 1
  StaleFills = TRUE
  MaxRequests = 6
  MaxHeld = 2
  MaxFeed = 1
  MaxTime = 6
INVARIANTS
  PositionsCatchUp
CHECK_DEADLOCK FALSE
