SPECIFICATION Spec
SYMMETRY Symmetry
CONSTANTS
  n1 = n1
  n2 = n2
  n3 = n3
  Nodes <- ThreeNodes
  None = None
  Kinds <- BothKinds
  MaxCrashes = 2
  CrashInFinish = FALSE
  CrashWhenMisfiled = FALSE
CHECK_DEADLOCK FALSE
INVARIANTS
  RankingsInv
  CrashConsistent
  NoCriticalError
PROPERTIES
  ImplementsLruLists
