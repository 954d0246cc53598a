SPECIFICATION Spec
SYMMETRY Symmetry
CONSTANTS
  n1 = n1
  n2 = n2
  n3 = n3
  Nodes <- ThreeNodes
  None = None
  Kinds <- PlainMain
  MaxCrashes = 1
  CrashInFinish = FALSE
  CrashWhenMisfiled = TRUE
CHECK_DEADLOCK FALSE
INVARIANTS
  ListsSoundAtRest
