SPECIFICATION Spec
CONSTANTS
    r1 = r1
    r2 = r2
    r3 = r3
    Owner = Owner
    Readers <- OneReader
    MaxGeneration = 3
    MaxCrashes = 0
INVARIANT Settled
