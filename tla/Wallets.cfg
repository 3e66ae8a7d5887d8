\* Two seeds and an imported key in up to three slots; a process may die anywhere.
SPECIFICATION Spec
CONSTANTS
  w1 = w1
  w2 = w2
  w3 = w3
  None = None
  Seeds = {w1, w2}
  PrivateKeys = {w3}
  MaxSlots = 3
  MaxErasures = 1
  CanDie = TRUE
SYMMETRY Symmetry
INVARIANTS
  SignsForItsDatabaseUnlessTorn
  RegisteredWalletsAreWhole
CHECK_DEADLOCK FALSE
