SPECIFICATION Spec
CONSTANTS
  t1 = t1
  t2 = t2
  t3 = t3
  NoTrans = NoTrans
  NoEntry = NoEntry
  Trans <- TwoTrans
  Entries <- TwoEntries
  StartModes <- AllModes
  Responses <- AllResponses
  Lazy = TRUE
SYMMETRY SymmetricTrans
INVARIANTS
  CacheInv
  OnlyWholeResponsesServed
