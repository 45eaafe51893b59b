SPECIFICATION LoopSpec
CONSTANTS
    f1 = f1
    f2 = f2
    f3 = f3
    p1 = p1
    p2 = p2
    NoPatch = NoPatch
    Findings <- TwoFindings
    Patches <- TwoPatches
    MaxRounds = 3
SYMMETRY Interchangeable
INVARIANTS
    ApprovedIsAnswered
