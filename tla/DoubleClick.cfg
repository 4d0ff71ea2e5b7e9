\* Two clients; Connect clicked twice, or on both sides.
SPECIFICATION Spec
CONSTANTS
  p1 = p1
  p2 = p2
  p3 = p3
  None = None
  Clients = {p1, p2}
  MaxEvents = 2
CHECK_DEADLOCK FALSE
INVARIANTS
  NobodyCrashes
