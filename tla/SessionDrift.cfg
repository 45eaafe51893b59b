SPECIFICATION Spec
CONSTANTS
  MaxHead = 2
  MaxVersion = 4
  MaxCommands = 3
  MaxMoves = 3
  MaxCrashes = 0
  Retries = 0
  Found = {"absent"}
CHECK_DEADLOCK FALSE
INVARIANT DriftSurfaced
