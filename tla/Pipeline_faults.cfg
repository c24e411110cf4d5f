SPECIFICATION Spec
CONSTANTS
  MaxBundles = 2
  MaxTxs = 2
  SlotCapacity = 1
  PendingLimit = 2
  VerifyLimit = 2
  Faults <- DbFault
INVARIANTS
  SlotCapacityRespected
  CompletedWasExecuted
  FeedSaysOnceAndTruly
  IInv
PROPERTIES
  StrandedInWindowsOnly
  ImplementsLifecycle
