SPECIFICATION Spec
CONSTANTS
  Process = {p1, p2}
  NoFile = NoFile
  MaxFaults = 0
INVARIANTS
  MutualExclusion
