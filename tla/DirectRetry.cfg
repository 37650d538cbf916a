SPECIFICATION FairDirectSpec
CONSTANTS
  w1 = w1
  w2 = w2
  p1 = p1
  None = None
  Workers <- MCWorkers
  Connections = {}
  Externals = {1, 2, 3, 4}
  Keys <- MCKeys
  Calls <- StayCalls
  Properties = {p1}
  Requests <- OneRequest
  PmsDedupes = TRUE
  DbMayFail = TRUE
  MaxRows = 10
  MaxRestarts = 1
  MaxBookings = 2
  FaultKinds <- AllFaults
  MaxFaults = 2
CHECK_DEADLOCK FALSE
INVARIANTS
  RecordedOrPending
PROPERTIES
  KeepsPromise
  EveryRequestSettles
