---------------------------- MODULE MCScheduler -----------------------------
\* Instances of Scheduler for TLC.
EXTENDS Scheduler, TLC

CONSTANTS p1, h1, h2, b1, i1, i2

OneClient == {p1}
TwoHumans == {h1, h2}
OneId == {b1}
LowAndHigh == {"LOW", "HIGH"}
TwoItems == {i1, i2}
Second == [i \in TwoItems |-> IF i = i2 THEN {i1} ELSE {}]
Symmetry == Permutations(TwoHumans)
=============================================================================
