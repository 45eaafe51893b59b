SPECIFICATION FairSpec
CONSTANTS
    r1 = r1
    r2 = r2
    r3 = r3
    Owner = Owner
    Readers <- TwoReaders
    MaxGeneration = 2
    MaxCrashes = 2
INVARIANTS
    Settled
PROPERTIES
    ActivationRecovered
