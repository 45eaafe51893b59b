SPECIFICATION Spec
CONSTANTS
  o1 = o1
  o2 = o2
  None = None
  Ops <- TwoOps
  Day = 1
  MaxAge = 1
  GateAge = 0
  MaxTime = 3
  MaxEpochs = 2
  MaxRenewals = 2
  MaxEvents = 1
  MaxChanges = 1
  MaxCrashes = 1
SYMMETRY Symmetry
CHECK_DEADLOCK FALSE
INVARIANTS
  OneObservation
  OneAuthority
  NoUnseenEvent
  EpochChain
