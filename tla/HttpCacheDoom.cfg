SPECIFICATION Spec
CONSTANTS
  t1 = t1
  t2 = t2
  t3 = t3
  NoTrans = NoTrans
  NoEntry = NoEntry
  Trans <- TwoTrans
  Entries <- ThreeEntries
  StartModes <- BypassModes
  Responses <- RedirectResponses
  Lazy = FALSE
PROPERTY DoomedWhileInUse
