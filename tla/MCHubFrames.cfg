SPECIFICATION Spec
CONSTANTS
  Clients  = {c1}
  Bookings = {b1}
  Payloads = {p}
  SendCap  = 1
  BcastCap = 1
  None     = None
INVARIANT OneMessagePerFrame
