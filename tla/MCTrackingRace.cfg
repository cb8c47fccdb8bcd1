SPECIFICATION Spec
CONSTANTS
  Processes   = {p1, p2}
  Bookings    = {b1}
  Runners     = {r1}
  Runner      = r1
  RunnerOf   <- OneRunner
  MaxPoints   = 2
  Grades      = {"good"}
  Unknowns    = {}
  MaxUnknowns = 0
  Partitions  = 1
  PartitionOf <- InOrder
  OnFailure   = {"retry"}
  MaxFaults   = 0
  None        = None
SYMMETRY Symmetry
PROPERTY FinalRecord
CHECK_DEADLOCK FALSE
