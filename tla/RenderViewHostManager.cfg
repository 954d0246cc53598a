SPECIFICATION Spec
CONSTANTS
  MaxHosts = 3
  Scenarios <- AllScenarios
CHECK_DEADLOCK FALSE
INVARIANTS
  CrossSiteInv
PROPERTIES
  SwapsInTurn
