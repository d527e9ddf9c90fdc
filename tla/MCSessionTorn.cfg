SPECIFICATION Spec
CONSTANTS
  MaxAmount = 1
  MaxCumulative = 2
  MaxPayments = 2
  WindowMs = 2
  Sessions = {s1, s2}
  Nonces = {n1, n2}
  Amount = 1
  IdempotentRail = FALSE
  RailLag = 0
  QuietLoads = FALSE
  Nobody = Nobody
  NoPrior = NoPrior
  MaxTime = 2
  MaxFaults = 0
  MaxCrashes = 0
SYMMETRY Interchangeable
PROPERTIES
  ReceiptsOnlyGrow
CHECK_DEADLOCK FALSE
