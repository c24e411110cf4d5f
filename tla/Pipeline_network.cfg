SPECIFICATION FairSpec
CONSTANTS
  MaxBundles = 2
  MaxTxs = 3
  SlotCapacity = 2
  PendingLimit = 2
  VerifyLimit = 1
  Faults <- NetworkFault
INVARIANTS
  SubmittedOnce
  ExpiredNeverSubmitted
  NetworkInv
PROPERTIES
  LatePendingIsSwept
  TerminalIsFinal
