SPECIFICATION FairSpec
CONSTANTS
  c1 = c1
  c2 = c2
  Councils <- TwoCouncils
  MaxEvents = 2
  MaxRows = 2
  MaxCrashes = 1
  EventLimit = 2
  Faults <- Downtime
INVARIANTS
  WatcherInv
  MembershipCaughtUp
PROPERTIES
  EventuallyFollows
