\* Three clients who click at any time; two calls, or one call and one loss.
SPECIFICATION Spec
CONSTANTS
  p1 = p1
  p2 = p2
  p3 = p3
  None = None
  Clients = {p1, p2, p3}
  MaxEvents = 2
SYMMETRY Symmetry
CHECK_DEADLOCK FALSE
INVARIANTS
  TypeOK
  OneConnection
  PeerIsTarget
