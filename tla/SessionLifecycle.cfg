SPECIFICATION Spec
CONSTANTS
  MaxHead = 2
  MaxVersion = 4
  MaxCommands = 3
  MaxMoves = 2
  MaxCrashes = 1
  Retries = 0
  Found = {"absent", "selfReferential", "unbound", "accepted", "campaigned"}
CHECK_DEADLOCK FALSE
INVARIANTS
  PlanRetained
  PlanOfBase
  InvocationBudget
PROPERTIES
  CompletedOnCurrentEvidence
  PlanningEnds
