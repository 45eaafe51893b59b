---------------------------- MODULE MCExecution -----------------------------
\* Instances of Execution for TLC.
EXTENDS Execution, TLC

CONSTANTS f1, f2, d1, up

TwoFiles == {f1, f2}
OneFolder == {d1}
OneEscape == {up}
BelowFolder == [f \in TwoFiles |-> IF f = f2 THEN {d1} ELSE {}]
FourScopes == {{}, {f1}, {d1}, {f1, up}}
AllAdapters == {"codex", "openhands", "openhands-sdk", "free-first"}
=============================================================================
