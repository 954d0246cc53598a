SPECIFICATION LiveSpec
CONSTANTS
  t1 = t1
  t2 = t2
  t3 = t3
  x1 = x1
  x2 = x2
  a1 = a1
  Nobody = Nobody
  NoEvent = NoEvent
  Events <- TwoEvents
  Manual <- ManualEvents
  Threads <- ThreeThreads
  Watchers <- TwoWatchers
  Addrs <- OneAddr
  Arrays <- BothOrders
  Budgets <- Alternatives
CHECK_DEADLOCK FALSE
INVARIANTS
  EventInv
  AcceptedSignalIsReported
PROPERTIES
  SignalReachesSomeone
  SignalledWaitReturns
