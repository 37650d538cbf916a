SPECIFICATION FetchSpec
CONSTANTS
  w1 = w1
  w2 = w2
  conn1 = conn1
  conn2 = conn2
  e1 = e1
  e2 = e2
  blank = blank
  f1 = f1
  None = None
  Workers <- MCWorkers
  Connections = {conn1, conn2}
  Externals = {e1, e2}
  Keys <- MCKeys
  Calls <- IngestCalls
  FetchKeys = {blank, f1}
  NumbersOf <- OwnNumbers
  Blank = blank
  ChannelMayFail = TRUE
  DbMayFail = FALSE
  MaxRows = 5
  MaxRestarts = 1
  MaxFetches = 2
SYMMETRY MCSymmetry
CHECK_DEADLOCK FALSE
INVARIANTS
  StoreFollowsChannels
  FetchStores
  LoneFetchBringsUpToDate
PROPERTIES
  CancelledStays
