SPECIFICATION Spec
CONSTANTS
  MaxAmount = 1
  MaxCumulative = 2
  MaxPayments = 2
  WindowMs = 2
  Sessions = {s1}
  Nonces = {n1}
  Amount = 1
  IdempotentRail = FALSE
  RailLag = 0
  QuietLoads = TRUE
  Nobody = Nobody
  NoPrior = NoPrior
  MaxTime = 2
  MaxFaults = 1
  MaxCrashes = 0
SYMMETRY Interchangeable
INVARIANTS
  NoStuckRow
CHECK_DEADLOCK FALSE
