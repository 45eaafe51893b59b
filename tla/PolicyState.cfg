SPECIFICATION Spec
CONSTANTS
    o1 = o1
    o2 = o2
    i1 = i1
    i2 = i2
    i3 = i3
    p1 = p1
    p2 = p2
    d1 = d1
    d2 = d2
    None = None
    Owners <- TwoOwners
    Operations <- ThreeOperations
    Policies <- TwoPolicies
    Decisions <- TwoDecisions
SYMMETRY Interchangeable
INVARIANTS
  SupersededForGood
  EffectsAreRecorded
PROPERTIES
  StopSpec
