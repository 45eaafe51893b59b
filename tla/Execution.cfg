SPECIFICATION Spec
CONSTANTS
  f1 = f1
  f2 = f2
  d1 = d1
  up = up
  None = None
  Files <- TwoFiles
  Folders <- OneFolder
  Below <- BelowFolder
  Escapes <- OneEscape
  Scopes <- FourScopes
  Adapters <- AllAdapters
  MaxRuns = 2
  MaxMoves = 1
  MaxStates = 2
  MaxAttempts = 3
CHECK_DEADLOCK FALSE
INVARIANTS
  CompletedIsEarned
  OneInvocation
PROPERTIES
  ExecutionEnds
