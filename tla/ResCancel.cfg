SPECIFICATION RepSpec
CONSTANTS
  w1 = w1
  w2 = w2
  conn1 = conn1
  e1 = e1
  e2 = e2
  k1 = k1
  k2 = k2
  None = None
  Workers <- MCOneWorker
  Connections = {conn1}
  Externals = {e1, e2}
  Keys = {k1, k2}
  Calls <- MCDirectCalls
  DbMayFail = FALSE
  MaxRows = 3
  MaxRestarts = 0
INVARIANTS
  CancelFailsOnlyForMissingRow
