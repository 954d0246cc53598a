SPECIFICATION Spec
SYMMETRY Symmetry
CONSTANTS
  n1 = n1
  n2 = n2
  n3 = n3
  Nodes <- ThreeNodes
  None = None
  Kinds <- EnumeratedMain
  MaxCrashes = 0
  CrashInFinish = FALSE
  CrashWhenMisfiled = FALSE
CHECK_DEADLOCK FALSE
INVARIANTS
  OpenEntriesAreNormal
