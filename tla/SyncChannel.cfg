SPECIFICATION Spec
CONSTANT Scenarios <- AllScenarios
CHECK_DEADLOCK FALSE
INVARIANTS
  ChannelInv
  ListenerInv
  ResultIsThePeers
  NobodyWaitsInVain
