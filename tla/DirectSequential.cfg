SPECIFICATION FairDirectSpec
CONSTANTS
  w1 = w1
  w2 = w2
  p1 = p1
  None = None
  Workers <- MCOneWorker
  Connections = {}
  Externals = {1, 2, 3, 4}
  Keys <- MCKeys
  Calls <- StayCalls
  Properties = {p1}
  Requests <- ReusedKey
  PmsDedupes = FALSE
  DbMayFail = FALSE
  MaxRows = 8
  MaxRestarts = 0
  MaxBookings = 3
  FaultKinds = {"cancel", "reply"}
  MaxFaults = 2
CHECK_DEADLOCK FALSE
INVARIANTS
  AnswerMatchesPayload
  OneBookingPerScope
  NoDuplicateRow
PROPERTIES
  EveryRequestSettles
