SPECIFICATION CatSpec
CONSTANTS
  inn = inn
  lodge = lodge
  single = single
  double = double
  r1 = r1
  r2 = r2
  None = None
  Hotels = {inn, lodge}
  Types = {single, double}
  Rooms = {r1, r2}
  Listings <- MCListings
  Conns = {c1, c2}
  PropIds = {i1, i2}
  Syncs = {s1, s2}
  MaxEdits = 1
INVARIANTS
  LoneSyncMirrors
PROPERTY
  DefaultStands
CHECK_DEADLOCK FALSE
