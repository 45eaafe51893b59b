SPECIFICATION Spec
CONSTANTS
    t1 = t1
    t2 = t2
    d1 = d1
    d2 = d2
    None = None
    Tasks <- TwoTasks
    Dispatchers <- TwoDispatchers
    Limit = 2
    Faults <- OnlyHeld
    MaxFaults = 1
SYMMETRY Interchangeable
INVARIANTS
    OutcomeRecorded
