SPECIFICATION FairSpec
CONSTANTS
  MaxAmount = 1
  MaxCumulative = 1
  MaxPayments = 1
  WindowMs = 2
  Sessions = {s1, s2}
  Nonces = {n1}
  Amount = 1
  IdempotentRail = TRUE
  RailLag = 0
  QuietLoads = FALSE
  Nobody = Nobody
  NoPrior = NoPrior
  MaxTime = 2
  MaxFaults = 0
  MaxCrashes = 1
PROPERTIES
  RowsMoveOn
CHECK_DEADLOCK FALSE
