SPECIFICATION Spec
CONSTANTS
  c1 = c1
  c2 = c2
  Councils <- OneCouncil
  MaxEvents = 2
  MaxRows = 2
  MaxCrashes = 1
  EventLimit = 2
  Faults <- AskedFault
INVARIANTS
  ChannelCaughtUp
