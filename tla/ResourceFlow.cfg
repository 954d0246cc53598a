SPECIFICATION FairSpec
CONSTANTS
  MaxChunk = 2
  SniffBytes = 2
  DocBytes = 3
  Scenarios <- AllScenarios
CHECK_DEADLOCK FALSE
INVARIANTS
  FlowInv
  PageGetsResponse
PROPERTIES
  ResponseEnds
