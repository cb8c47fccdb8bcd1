SPECIFICATION FairFeedSpec
CONSTANTS
  Clients   = {c1}
  Bookings  = {b1}
  MaxSaid   = 5
  Payloads <- Bodies
  SendCap   = 1
  BcastCap  = 1
  None      = None
INVARIANTS BoundedLag
PROPERTIES RoomFeedSpec Delivered
CHECK_DEADLOCK FALSE
