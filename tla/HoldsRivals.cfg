SPECIFICATION Spec
CONSTANTS
  w1 = w1
  w2 = w2
  g1 = g1
  g2 = g2
  t1 = t1
  t2 = t2
  t3 = t3
  r1 = r1
  r2 = r2
  None = None
  Guests = {g1, g2}
  Workers = {w1, w2}
  Tokens = {t1, t2, t3}
  Stays <- MCStays
  Windows <- MCWindows
  MaxRequests = 3
SYMMETRY MCSymmetry
CHECK_DEADLOCK FALSE
INVARIANTS
  TypeOK
  RivalsOnlyIfConcurrent
  OwnHoldNeverRefuses
  SearchHidesHolds
