SPECIFICATION Spec
CONSTANTS
  Processes   = {p1}
  Bookings    = {b1, b2}
  Runners     = {r1}
  Runner      = r1
  RunnerOf   <- OneRunner
  MaxPoints   = 2
  Grades      = {"good", "invalid"}
  Unknowns    = {}
  MaxUnknowns = 0
  Partitions  = 1
  PartitionOf <- InOrder
  OnFailure   = {"retry", "stop"}
  MaxFaults   = 2
  None        = None
SYMMETRY Symmetry
INVARIANTS CopiesNeedFaults ShownInOrder OneActivePerRunner
           TripsInv OneProcessInv
PROPERTY LifecycleSpec
CHECK_DEADLOCK FALSE
