SPECIFICATION LiveSpec
CONSTANTS
  t1 = t1
  t2 = t2
  t3 = t3
  NoTrans = NoTrans
  NoEntry = NoEntry
  Trans <- ThreeTrans
  Entries <- TwoEntries
  StartModes <- LiveModes
  Responses <- LiveResponses
  Lazy = FALSE
CHECK_DEADLOCK FALSE
PROPERTIES
  AdmittedInOrder
  EveryRequestAnswered
  EntriesClosed
