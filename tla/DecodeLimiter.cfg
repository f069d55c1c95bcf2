CONSTANTS
  Jobs = {j1, j2, j3, j4}
  MaxLimit = 2
SPECIFICATION FairSpec
INVARIANTS
  LimiterConsistent
  NoLostWakeup
PROPERTIES
  WorkConserving
  ImplementsSlotPool
  EveryWaiterLeaves
