CONSTANTS
  BusCount = 4
  TriggerDepth = 1
  BusDepth = 1
SPECIFICATION ArbiterFairSpec
INVARIANTS ArbiterTypeOK NoInterleaving StateMatchesOutput BoundedWait
PROPERTY EveryBusServed
