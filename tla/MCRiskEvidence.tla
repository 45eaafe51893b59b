--------------------------- MODULE MCRiskEvidence ---------------------------
\* Instances of RiskEvidence for TLC.
EXTENDS RiskEvidence, TLC

CONSTANTS o1, o2

TwoOps == {o1, o2}

\* Operation ids are compared, never ordered.
Symmetry == Permutations(TwoOps)
=============================================================================
