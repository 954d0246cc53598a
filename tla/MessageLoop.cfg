SPECIFICATION Spec
CONSTANTS
  Loops <- BothPumps
  Delays = {0, 1}
  MaxPosts = 3
  MaxTime = 2
  MaxDepth = 2
CHECK_DEADLOCK FALSE
INVARIANTS
  LoopInv
  WakesForWork
PROPERTIES
  RunsInTurn
