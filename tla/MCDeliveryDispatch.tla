------------------------- MODULE MCDeliveryDispatch -------------------------
\* Instances of DeliveryDispatch for TLC.
EXTENDS DeliveryDispatch, TLC

CONSTANTS t1, t2, d1, d2

TwoTasks == {t1, t2}
TwoDispatchers == {d1, d2}
AllFaults == {"crash", "drift", "held", "unseen"}
OnlyHeld == {"held"}

\* Dispatchers and tasks are interchangeable.
Interchangeable == Permutations(TwoTasks) \cup Permutations(TwoDispatchers)
=============================================================================
