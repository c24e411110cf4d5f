SPECIFICATION FairSpec
CONSTANTS
  MaxBundles = 3
  MaxTxs = 3
  SlotCapacity = 1
  PendingLimit = 2
  VerifyLimit = 2
  Faults <- NoFault
PROPERTIES
  EveryBundleSettles
  PromotesOldest
INVARIANTS
  ExecutedIsTracked
