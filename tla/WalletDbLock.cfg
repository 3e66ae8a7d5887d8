\* Refutes LockHolds.
SPECIFICATION Spec
CONSTANTS
  r1 = r1
  s1 = s1
  s2 = s2
  None = None
  Tx = {r1, s1, s2}
  Incoming = {r1}
  Pays = {r1, s1, s2}
  ExpiryDelta = 1
  MaxHeight = 4
  MaxReorgs = 1
  PruningHeight = 2
  AnchorOffset = 2
  Validated = FALSE
  CanCrash = FALSE
PROPERTIES
  LockHolds
CHECK_DEADLOCK FALSE
