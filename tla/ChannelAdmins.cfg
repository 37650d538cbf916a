SPECIFICATION ChSpec
CONSTANTS
  c1 = c1
  h1 = h1
  n1 = n1
  n2 = n2
  hotel = hotel
  NoId = NoId
  Conns = {c1, c2}
  Chans = {h1, h2, h3}
  Names = {n1, n2}
  Props = {hotel, inn}
  Admins = {a1, a2, a3}
  AdminOps = {"create", "connect", "pause", "resume", "disconnect", "update", "delete"}
  Connected <- MCConnected
  Linked <- MCLinked
SYMMETRY AdminSymmetry
INVARIANTS
  OneChannelPerConnection
  NamesUnique
CHECK_DEADLOCK FALSE
