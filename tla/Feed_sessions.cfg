SPECIFICATION Spec
CONSTANTS
  c1 = c1
  Clients = {c1}
  RingCap = 2
  OutboxCap = 2
  HeartbeatInterval = 2
  IdleTimeout = 4
  MaxEvents = 3
  MaxClock = 7
  MaxConnects = 1
INVARIANTS FeedInv GapsAnnounced IdledWasSlack SilentIsClosed
PROPERTIES EventuallyServed
CHECK_DEADLOCK FALSE
