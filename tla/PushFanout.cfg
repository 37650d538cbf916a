SPECIFICATION Spec
CONSTANTS
  d1 = d1
  d2 = d2
  both = both
  opening = opening
  Opening = opening
  c1 = c1
  c2 = c2
  h1 = h1
  n1 = n1
  n2 = n2
  r1 = r1
  p1 = p1
  p2 = p2
  hotel = hotel
  NoBatch = NoBatch
  NoId = NoId
  Days = {d1, d2}
  Batches = {opening, both}
  Keyed = {}
  FromPMS = {}
  Writes = {w1}
  EntriesOf <- MCEntriesOf
  Conns = {c1, c2}
  Chans = {h1, h2}
  Names = {n1, n2}
  Props = {hotel}
  Admins = {a1}
  AdminOps = {"connect", "pause", "delete"}
  Connected <- MCConnected
  Linked <- MCLinked
  Pushes = {p1, p2}
  Rooms = {r1}
  RoomsOf <- MCRoomsOf
  Prop = hotel
  Capable = {c1, c2}
  MaxLate = 1
INVARIANTS
  TypeOK
  RatesRecordedFirst
  OtaShowsOneMoment
  ReachesOnlyActive
  JobsTellTheTruth
  LonePushBringsUpToDate
CHECK_DEADLOCK FALSE
