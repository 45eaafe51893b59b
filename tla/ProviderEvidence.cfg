SPECIFICATION Spec
CONSTANTS
  None = None
  TTL = 2
  DecisionTTL = 1
  MaxHead = 2
  MaxGeneration = 2
  MaxClock = 2
  MaxVersion = 2
  MaxRecords = 2
  Records <- TwoMerges
  Reconstituted <- NoAmendment
CHECK_DEADLOCK FALSE
INVARIANTS
  PlannedTogether
  DecisionCurrent
PROPERTIES
  EvidenceForward
  RenewalAttested
