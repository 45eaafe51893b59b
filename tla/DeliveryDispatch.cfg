SPECIFICATION FairSpec
CONSTANTS
    t1 = t1
    t2 = t2
    d1 = d1
    d2 = d2
    None = None
    Tasks <- TwoTasks
    Dispatchers <- TwoDispatchers
    Limit = 3
    Faults <- AllFaults
    MaxFaults = 2
INVARIANTS
  LineageOfDeliveries
  OneUncertainDispatch
  ProviderBudgetKept
  MergeIsRecognised
  CompletedIsQuiet
PROPERTIES
  EventuallySettles
