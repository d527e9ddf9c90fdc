SPECIFICATION Spec
CONSTANTS
  MaxAmount = 1
  MaxCumulative = 2
  MaxPayments = 2
  WindowMs = 2
  Sessions = {s1, s2}
  Nonces = {n1, n2}
  Amount = 1
  IdempotentRail = TRUE
  RailLag = 0
  QuietLoads = TRUE
  Nobody = Nobody
  NoPrior = NoPrior
  MaxTime = 3
  MaxFaults = 1
  MaxCrashes = 1
SYMMETRY Interchangeable
CONSTRAINT FewAtOnce
INVARIANTS
  MoneyIsAccountedFor
  ReleasedMeansUnpaid
  NoDoublePay
  ReceiptsAreTrue
  ReserveHeld
PROPERTIES
  ReceiptsOnlyGrow
  HoldsAuthority
CHECK_DEADLOCK FALSE
