\* Refutes RescanOnlyForLostWitnesses.
SPECIFICATION Spec
CONSTANTS
  Maturity = 1
  Fee = 1
  MaxTxSpends = 2
  InitialNotes <- WitnessedNotes
  PaymentAmount = 2
  MaxInputs = 2
  MaxInFlight = 2
  GraceRounds = 1
  MaxFailures = 2
  ExpiryDelta = 2
  Slots = {1, 2}
  MaxSkips = 1
  MaxLost = 0
  MaxPayments = 1
  MaxDeaths = 0
PROPERTY
  RescanOnlyForLostWitnesses
CHECK_DEADLOCK FALSE
