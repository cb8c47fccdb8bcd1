SPECIFICATION FairSpec
CONSTANTS
  Clients  = {c1}
  Bookings = {b1, b2}
  Payloads = {p}
  SendCap  = 2
  BcastCap = 1
  None     = None
PROPERTIES CleanupOnDisconnect EvictedIsDisconnected BroadcastersFreed
