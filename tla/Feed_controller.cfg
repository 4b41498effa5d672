SPECIFICATION FairSpec
CONSTANTS
  M1 = M1
  M2 = M2
  Tickers <- TwoMarkets
  Channels <- BookFill
  BookChannel = "orderbook_delta"
  CommandTimeout = 1
  ChannelTuples <- AloneOrBoth
  MaxUpdates = 2
  MaxCommands = 2
  MaxSids = 2
  MaxWire = 2
INVARIANTS
  SuccessIsServed
  BooksAreGenuine
  NoGhostBook
PROPERTIES
  ImplementsMirror
  CommandEnds
CHECK_DEADLOCK FALSE
