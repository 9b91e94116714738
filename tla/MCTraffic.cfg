SPECIFICATION Spec
CONSTANTS
  Peers = {p1, p2}
  Places = {here, there}
  None = None
  Elevation = 2
  Infrequent = 3
  Starts <- FirstCounters
  MaxCounter = 13
  MaxProbes = 2
SYMMETRY DataSymmetry
INVARIANTS TypeOK GivesBack ShownAsReported NeverStopsAsking
PROPERTIES ReportsPaced
CHECK_DEADLOCK FALSE
