SPECIFICATION SchedulerSpec
CONSTANTS
  p1 = p1
  h1 = h1
  h2 = h2
  b1 = b1
  i1 = i1
  i2 = i2
  None = None
  Clients <- OneClient
  Humans <- TwoHumans
  InboxIds <- OneId
  Risks <- LowAndHigh
  Items <- TwoItems
  DependsOn <- Second
  Budget = 1
  Cost = 1
  MaxSteps = 2
  MaxRuns = 2
  MaxMoves = 4
SYMMETRY Symmetry
CHECK_DEADLOCK FALSE
INVARIANTS
  JournalChain
PROPERTIES
  SettledStays
