SPECIFICATION FeedSpec
CONSTANTS
  Clients   = {c1, c2}
  Bookings  = {b1, b2}
  MaxSaid   = 2
  Payloads <- Bodies
  SendCap   = 1
  BcastCap  = 2
  None      = None
SYMMETRY Symmetry
INVARIANTS Contiguous NothingMissed InOrderPerKind FeedInv
CHECK_DEADLOCK FALSE
