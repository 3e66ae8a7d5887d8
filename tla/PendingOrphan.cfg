\* Refutes OrphansAreDropped.
SPECIFICATION Spec
CONSTANTS
  t1 = t1
  t2 = t2
  n1 = n1
  None = None
  Tx = {t1, t2}
  Note = {n1}
  WithChange = {t1}
  ExpiryDelta = 0
  ExpirySlack = 0
  LongExpired = 0
  MaxExpiry = 2
  MaxHeight = 3
  MaxFaults = 1
PROPERTIES
  OrphansAreDropped
CHECK_DEADLOCK FALSE
