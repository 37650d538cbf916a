SPECIFICATION Spec
CONSTANTS
  Codes = {c1}
  Checkouts = {k1, k2, k3}
  p1 = p1
  p2 = p2
  Properties = {p1}
  Terms <- MCTerms
  Null = Null
  MaxTime = 1
  MaxRows = 2
  MaxReleaseCalls = 2
SYMMETRY MCSymmetry
INVARIANTS UsesWithinMax BackstopNeverFires CounterBacked CounterExact
CHECK_DEADLOCK FALSE
