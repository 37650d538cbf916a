SPECIFICATION InvSpec
CONSTANTS
  d1 = d1
  d2 = d2
  both = both
  second = second
  keyless = keyless
  ingest = ingest
  NoBatch = NoBatch
  Opening = NoBatch
  Days = {d1, d2}
  Batches = {both, second, keyless, ingest}
  Keyed = {both, second}
  FromPMS = {ingest}
  Writes = {w1, w2, w3, w4}
  EntriesOf <- MCEntriesOf
SYMMETRY WriteSymmetry
INVARIANTS
  KeyedBatchOnce
  DuplicateWasWritten
  VersionCountsCommits
CHECK_DEADLOCK FALSE
