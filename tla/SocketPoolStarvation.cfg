SPECIFICATION LiveSpec
CONSTANTS
  h1 = h1  h2 = h2  h3 = h3
  Groups = {ga, gb}
  Handles = {h1, h2, h3}
  Sockets = {k1}
  MaxSockets = 1
  MaxSocketsPerGroup = 1
  Priority <- MCPriority
  IgnoreLimits = {}
  ConnectResults = {"PENDING", "ERR"}
  BackupJobsEnabled = TRUE
  MaxGeneration = 0
  NoGroup = NoGroup  NoHandle = NoHandle  NoSocket = NoSocket  NoResult = NoResult
PROPERTY EveryRequestAnswered
