\* Three parameters of a URI, trees of eight leaves with two witnesses, three calls of the builder, one
\* transaction of each version, two notes around Canopy, and curves of 40 and 1096 points.
SPECIFICATION LibrariesSpec
CONSTANTS
  Depth = 3
  MaxWitnesses = 2
  MaxRewinds = 2
  MaxLeaves = 9
  MaxGenerated = 3
  Works = {1, 2}
  TxMaxMoney = 50
  BranchIds = {1, 2}
  Keys = {1, 2}
  Fee = 1
  Branch = 1
  Height = 100
  ValueGenerator = 1000
  MaxCalls = 3
  Notes <- MCNotes
  TransparentCoins <- MCTransparentCoins
  Values <- MCValues
  Versions <- MCVersions
  Randomness <- MCRandomness
  IndexBase = 2
  IndexBytes = 2
  HardBit = 4
  MaxDepth = 3
  Canopies = {0, 3}
  GracePeriod = 2
  MaxMoney = 1
  BadDiversifiers = {"dbad"}
  Diversifiers = {"d1", "dbad"}
  Garbage <- WrongPlaintexts
  Accounts = {"a1", "a2"}
  Payers = {"a1"}
  Outsider = "bob"
  Memos = {"hello"}
  ExpiryDelta = 1
  MaxHeight = 5
  MaxOutputs = 2
  MaxParams = 3
  Body <- MCBody
  BuiltPayment <- MCPayment
  UtxoHeight <- MCCoins
  PruningHeight = 2
  AnchorOffset = 1
  SaplingActivation = 1
  ViewingKey = "key"
  Birthday = 2
  ChainBound = 4
  RewindHeights = {0, 2, 3}
  CacheLimit = 2
  ClampFloor = 3
  Faults = {0, 1, 3, 5}
INVARIANTS
  CommitmentsAreProved
  RangeIsTheChain
  LoadedNodesSuffice
  ValueIsConserved
  BuiltTransactionsVerify
  RoundTrip
  DigestsCommit
  PaymentsArrive
  NotesAreSpendable
  DetailsAgree
  KeysAgree
  ReadingIsCanonical
  SignaturesVerify
  SolutionsAreValid
  DemoLocksHold
  CircuitsProveClaims
  RecordsMatchTransactions
  FailedCallsCanBeRepeated
CHECK_DEADLOCK FALSE
