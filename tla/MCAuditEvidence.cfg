SPECIFICATION Spec
CONSTANTS
  Scenarios <- MCScenarios
INVARIANTS
  HonestEvidencePasses
  AcceptedIsComplete
  ForeignChangesNothing
  RecordedIsShown
  EquivocationIsNamed
  WithheldIsWithheld
CHECK_DEADLOCK FALSE
