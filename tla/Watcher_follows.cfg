SPECIFICATION Spec
CONSTANTS
  c1 = c1
  c2 = c2
  Councils <- OneCouncil
  MaxEvents = 4
  MaxRows = 1
  MaxCrashes = 1
  EventLimit = 2
  Faults <- QueryFault
INVARIANTS
  MembershipFollows
  ChannelFollows
