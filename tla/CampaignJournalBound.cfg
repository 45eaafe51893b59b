SPECIFICATION Spec
CONSTANTS
    r1 = r1
    r2 = r2
    o1 = o1
    o2 = o2
    NoOwner = NoOwner
    NoCopy = NoCopy
    Runners <- MCRunners
    Operators <- MCOneOperator
    OperatorCalls <- MCCalls
    Notes <- MCOneNote
    StepWaits <- MCWaits
    StepOutcomes <- MCOutcomes
    RetryBudget = 1
    MaxEvents = 3
    MaxFaults = 1
INVARIANTS
    JournalBounded
