SPECIFICATION Spec
CONSTANTS
    r1 = r1
    r2 = r2
    r3 = r3
    Owner = Owner
    Readers <- TwoReaders
    MaxGeneration = 3
    MaxCrashes = 1
SYMMETRY Interchangeable
INVARIANTS
  Succession
PROPERTIES
  RegisterSpec
