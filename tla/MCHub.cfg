SPECIFICATION Spec
CONSTANTS
  Clients  = {c1, c2}
  Bookings = {b1}
  Payloads = {p}
  SendCap  = 1
  BcastCap = 1
  None     = None
SYMMETRY Symmetry
INVARIANTS NoPanic RoomsExact FanOutFresh DrainCovered UnregisteredIsClosed HubInv
PROPERTY ClosedIsFinal
