\* The goroutine really ends: "done" has no successor.
CHECK_DEADLOCK FALSE
CONSTANTS
  MaxLines = 4
  MaxCollected = 2
SPECIFICATION PumpSpec
INVARIANTS TypeOK ReleasedAndClosedOnce
PROPERTIES ImplementsClientStream EveryClientTold
