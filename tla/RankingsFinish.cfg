SPECIFICATION Spec
SYMMETRY Symmetry
CONSTANTS
  n1 = n1
  n2 = n2
  n3 = n3
  Nodes <- ThreeNodes
  None = None
  Kinds <- PlainOld
  MaxCrashes = 2
  CrashInFinish = TRUE
  CrashWhenMisfiled = FALSE
CHECK_DEADLOCK FALSE
INVARIANTS
  ListsSoundAtRest
