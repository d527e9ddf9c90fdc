SPECIFICATION Spec
CONSTANTS
  Scenarios <- MCQuiet
INVARIANTS
  HonestEvidencePasses
CHECK_DEADLOCK FALSE
