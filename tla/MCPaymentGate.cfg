SPECIFICATION GateSpec
CONSTANTS
  MaxAmount = 4
  MaxCumulative = 3
  MaxPayments = 2
  WindowMs = 2
  Requests <- MCRequests
  Unencodable <- MCUnencodable
  AllowedPayees <- MCPayees
  AllowedCurrencies <- MCCurrencies
  AllowedTools <- MCTools
  NoList = NoList
  NoTool = "none"
  Times <- MCTimes
  SignsDecisions = TRUE
  TtlMs = 1
  MaxDecisions = 3
  Terms <- MCTerms
  NoManifest = "none"
  AnyPayee = "*"
  NoTrust = "no key"
  Inputs <- MCInputs
  UngatedCalls <- MCUngated
  Clocks <- MCClocks
  ShortNonces <- MCShortNonces
  MaxUngated = 1
INVARIANTS
  NoPhantomRoom
  WindowCap
  PaidAsReserved
  ReceiptIsDecided
CHECK_DEADLOCK FALSE
