SPECIFICATION Spec
CONSTANTS
  Atoms = {"a", "b"}
  MaxSize = 8
  ProofsUpTo = 3
  Ais = 8
  Direct = 2
  Widths <- MCWidths
  SimpleAi = 4
  MaxSafe = 262152
  MaxBytes = 9
  MaxDepth = 3
  MaxElements = 3
  MaxString = 2
  IllFormed <- MCIllFormed
  Values <- MCValues
  Octets <- MCOctets
  MaxEdits = 2
  Ed25519Keys = {"issuer", "payee", "stranger"}
  OtherKeys = {"weak"}
  Issuer = "issuer"
  Payee = "payee"
  Stranger = "stranger"
  Weak = "weak"
  MaxChanges = 2
  Account = "acc"
  Transactions <- MCTransactions
  MaxBlocks = 3
  MaxReorgs = 1
  ChainIds = {"base", "other"}
  MaxTampers = 2
  Sessions = {"s1", "s2"}
  MaxKeys = 2
  MaxSpends = 2
INVARIANTS
  LogAnswersForItsLeaves
  HeadsTellTheLogsApart
  OneSpelling
  ReadWithinBounds
  VerifiedIsSigned
  ApprovalIsOfThisReceipt
  FormAndPinLeaveNothingUnsigned
  RulesOutliveTheSigner
  SignedIsAccepted
  SettledRangeIsExact
  BalancedMeansRooted
  ChargesAreFounded
  OneKeyThroughout
CHECK_DEADLOCK FALSE
