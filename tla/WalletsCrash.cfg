\* A process that dies between two writes to the key store; wallets from seeds only.
SPECIFICATION Spec
CONSTANTS
  w1 = w1
  w2 = w2
  w3 = w3
  None = None
  Seeds = {w1, w2}
  PrivateKeys = {}
  MaxSlots = 3
  MaxErasures = 0
  CanDie = TRUE
SYMMETRY Symmetry
INVARIANTS
  NeverSignsForAnother
CHECK_DEADLOCK FALSE
