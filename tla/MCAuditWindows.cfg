SPECIFICATION Spec
CONSTANTS
  NoRef = "none"
  Scenarios <- MCScenarios
INVARIANTS
  BalancedMeansCovered
  HonestRunBalances
  UncoveredIsNamed
  OnlyOuterEdgesStayOpen
CHECK_DEADLOCK FALSE
