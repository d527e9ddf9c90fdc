SPECIFICATION FairSpec
CONSTANTS
  Process = {p1, p2, p3}
  NoFile = NoFile
  MaxFaults = 1
INVARIANTS
  ExclusiveUnlessStolen
  VerdictHolds
PROPERTIES
  TempLostOnlyToReuse
  OrphanIsTakenOver
  LeftTempIsSwept
