CONSTANTS
  a = a
  b = b
  c = c
  v = v
  w = w
  Keys = {a, b, c}
  Values = {v, w}
  HashA <- MCHashA
  HashB <- MCHashB
  None = None
  Deleted = Deleted
  Size = 3
  Word = 8
  MaxProbes = 5
  MaxMisses = 2
SPECIFICATION FairSpec
INVARIANTS TypeOK UniqueKeys Reachable CountTracks
PROPERTIES ImplementsMap Returns
CHECK_DEADLOCK FALSE
