\* Three clients who wait for one set-up to end before the next event.
SPECIFICATION OrderlyFairSpec
CONSTANTS
  p1 = p1
  p2 = p2
  p3 = p3
  None = None
  Clients = {p1, p2, p3}
  MaxEvents = 4
CHECK_DEADLOCK FALSE
INVARIANTS
  ConnectedIsLive
PROPERTIES
  CallConnects
