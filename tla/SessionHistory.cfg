SPECIFICATION Spec
CONSTANTS
  MaxHead = 2
  MaxVersion = 4
  MaxCommands = 4
  MaxMoves = 2
  MaxCrashes = 0
  Retries = 0
  Found = {"absent"}
CHECK_DEADLOCK FALSE
INVARIANT HistoryNotInTheWay
