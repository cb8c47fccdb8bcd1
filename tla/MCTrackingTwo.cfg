SPECIFICATION Spec
CONSTANTS
  Processes   = {p1, p2}
  Bookings    = {b1}
  Runners     = {r1}
  Runner      = r1
  RunnerOf   <- OneRunner
  MaxPoints   = 2
  Grades      = {"good", "overflow"}
  Unknowns    = {}
  MaxUnknowns = 0
  Partitions  = 2
  PartitionOf <- InTurns
  OnFailure   = {"skip", "stop"}
  MaxFaults   = 0
  None        = None
SYMMETRY Symmetry
INVARIANTS StartedOnce LateBounded ShownIsStored
PROPERTY SharedSpec
CHECK_DEADLOCK FALSE
