SPECIFICATION Spec
CONSTANTS
  h1 = h1  h2 = h2  h3 = h3
  Groups = {ga, gb}
  Handles = {h1, h2, h3}
  Sockets = {k1, k2, k3, k4}
  MaxSockets = 3
  MaxSocketsPerGroup = 2
  Priority <- MCPriority
  IgnoreLimits = {}
  ConnectResults = {"OK", "PENDING", "ERR", "ERR_WITH_SOCKET"}
  BackupJobsEnabled = TRUE
  MaxGeneration = 1
  NoGroup = NoGroup  NoHandle = NoHandle  NoSocket = NoSocket  NoResult = NoResult
SYMMETRY PoolSymmetry
INVARIANTS TypeOK SingleOwner CountersMatch RequestsConserved HandlesConsistent GroupsKeptUp
  NoReuseAcrossFlush WithinLimits
PROPERTIES HeldSocketStays ServedInOrder
