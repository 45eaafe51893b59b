---------------------------- MODULE MCPolicyState ----------------------------
\* Instances of PolicyState for TLC.
EXTENDS PolicyState, TLC

CONSTANTS o1, o2, i1, i2, i3, p1, p2, d1, d2

OneOwner == {o1}
TwoOwners == {o1, o2}
ThreeOperations == {i1, i2, i3}
TwoPolicies == {p1, p2}
TwoDecisions == {d1, d2}

\* Owners, operations, policies and decisions are compared, never ordered.
Interchangeable ==
    Permutations(TwoOwners) \cup Permutations(ThreeOperations)
    \cup Permutations(TwoPolicies) \cup Permutations(TwoDecisions)
=============================================================================
