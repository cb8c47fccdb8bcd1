SPECIFICATION Spec
CONSTANTS
  Processes   = {p1}
  Bookings    = {b1}
  Runners     = {r1}
  Runner      = r1
  RunnerOf   <- OneRunner
  MaxPoints   = 2
  Grades      = {"good"}
  Unknowns    = {}
  MaxUnknowns = 0
  Partitions  = 1
  PartitionOf <- InOrder
  OnFailure   = {"retry"}
  MaxFaults   = 0
  None        = None
SYMMETRY Symmetry
INVARIANT DistanceMatchesRoute
CHECK_DEADLOCK FALSE
