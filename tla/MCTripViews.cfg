SPECIFICATION ViewSpec
CONSTANTS
  Bookings = {b1}
  Points   = {w1, w2}
  Tokens   = {k1}
  Requests = {r1, r2}
  Lifetime = 1
  MaxTime  = 2
  None     = None
SYMMETRY Symmetry
INVARIANTS AnswersFresh DistanceCovered LinkHonoured ExpiredShowsNothing ViewInv
CHECK_DEADLOCK FALSE
