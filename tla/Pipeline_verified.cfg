SPECIFICATION FairSpec
CONSTANTS
  MaxBundles = 2
  MaxTxs = 2
  SlotCapacity = 1
  PendingLimit = 2
  VerifyLimit = 2
  Faults <- Early
PROPERTIES
  VerifiedBundleCompletes
