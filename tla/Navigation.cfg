SPECIFICATION Spec
CONSTANTS
  Scenarios <- AllScenarios
  MaxEntries = 2
  MaxCommands = 3
CHECK_DEADLOCK FALSE
INVARIANTS
  NavigationInv
  ComesToRest
PROPERTIES
  CommittedEntriesStay
