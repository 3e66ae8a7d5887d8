\* Four notes, batches of two notes, two in flight; one answer lost, one payment, one death.
SPECIFICATION Spec
CONSTANTS
  Maturity = 1
  Fee = 1
  MaxTxSpends = 2
  InitialNotes <- MCNotes
  PaymentAmount = 2
  MaxInputs = 2
  MaxInFlight = 2
  GraceRounds = 1
  MaxFailures = 2
  ExpiryDelta = 2
  Slots = {1, 2}
  MaxSkips = 1
  MaxLost = 1
  MaxPayments = 1
  MaxDeaths = 1
INVARIANTS
  BatchesAreDisjoint
  SpendsUpToSixNotes
PROPERTIES
  SweepSettles
CHECK_DEADLOCK FALSE
