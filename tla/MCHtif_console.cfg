CONSTANTS
  Bytes = {0, 10, 11, 12, 20, 21}
  Input <- Typed
  CHANNEL = 1
  ATTEMPTS_PER_TICK = 2
  READS_MAX = 2
  Requests <- AllRequests
  MaxRequests = 6
  Limited = TRUE
SPECIFICATION Spec
CHECK_DEADLOCK FALSE
INVARIANTS TypeOK InputInOrder RequestsServed
PROPERTIES ImplementsConsole
