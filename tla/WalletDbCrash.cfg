\* As WalletDb on a shorter chain, and a rewind may be cut short by a crash.
SPECIFICATION Spec
CONSTANTS
  r1 = r1
  s1 = s1
  s2 = s2
  None = None
  Tx = {r1, s1, s2}
  Incoming = {r1}
  Pays = {r1, s1, s2}
  ExpiryDelta = 0
  MaxHeight = 3
  MaxReorgs = 1
  PruningHeight = 1
  AnchorOffset = 1
  Validated = TRUE
  CanCrash = TRUE
SYMMETRY Symmetry
INVARIANTS
  WitnessCoverage
CHECK_DEADLOCK FALSE
