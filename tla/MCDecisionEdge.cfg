SPECIFICATION Spec
CONSTANTS
  NoRef = "none"
  Scenarios <- MCScenarios
CHECK_DEADLOCK FALSE
INVARIANT EffectsAreAsDecided
