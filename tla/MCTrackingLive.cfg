SPECIFICATION FairSpec
CONSTANTS
  Processes   = {p1}
  Bookings    = {b1}
  Runners     = {r1}
  Runner      = r1
  RunnerOf   <- OneRunner
  MaxPoints   = 2
  Grades      = {"good", "overflow"}
  Unknowns   <- Strange
  MaxUnknowns = 1
  Partitions  = 2
  PartitionOf <- ByRunner
  OnFailure   = {"retry"}
  MaxFaults   = 1
  None        = None
PROPERTIES ConfirmedCompletes LocationsPass
CHECK_DEADLOCK FALSE
