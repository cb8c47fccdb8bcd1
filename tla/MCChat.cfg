SPECIFICATION Spec
CONSTANTS
  Senders      = {s1, s2, s3}
  MaxTime      = 1
  MaxInt       = 7
  AskedPages  <- Pages
  AskedLimits <- Limits
  DefaultLimit = 1
  MaxLimit     = 2
SYMMETRY Symmetry
INVARIANTS ShownIsStored RepliesFollow PagesExact NoBlindSpot PastTheEndIsEmpty ChatInv
CHECK_DEADLOCK FALSE
