SPECIFICATION LiveSpec
CONSTANTS
  h1 = h1  h2 = h2  h3 = h3
  Groups = {ga, gb}
  Handles = {h1, h2, h3}
  Sockets = {k1, k2}
  MaxSockets = 1
  MaxSocketsPerGroup = 1
  Priority <- MCPriority
  IgnoreLimits = {h1}
  ConnectResults = {"OK", "PENDING"}
  BackupJobsEnabled = TRUE
  MaxGeneration = 1
  NoGroup = NoGroup  NoHandle = NoHandle  NoSocket = NoSocket  NoResult = NoResult
INVARIANT NoMissedWakeup
PROPERTY EveryRequestAnswered
