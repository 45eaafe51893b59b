---------------------------- MODULE MCReviewLoop ----------------------------
\* Instances of ReviewLoop for TLC.
EXTENDS ReviewLoop, TLC

CONSTANTS f1, f2, f3, p1, p2

TwoFindings == {f1, f2}
ThreeFindings == {f1, f2, f3}
TwoPatches == {p1, p2}

\* Findings and patches are interchangeable.
Interchangeable == Permutations(TwoFindings) \cup Permutations(TwoPatches)
=============================================================================
