SPECIFICATION Spec
CONSTANTS
  Absent = Absent
  b1 = b1
  b2 = b2
  Builders <- MCBuilders
  Drivers <- MCDrivers
  Runs = 2
  Warmups = 1
  MaxStarts = 2
  MaxMakes = 2
SYMMETRY Symmetry
CHECK_DEADLOCK FALSE
INVARIANTS TypeOK ProvenanceHolds PublishedSeriesIsWhole PublishedRowsAreOfOneBinary
PROPERTIES WholeOutputsStay PublishedLogsAreOfTheirRuns
