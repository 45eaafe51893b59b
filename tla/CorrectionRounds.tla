--------------------------- MODULE CorrectionRounds ---------------------------
(***************************************************************************)
(* What DeliveryPipeline promises of one dispatch's attempts, whatever the *)
(* reviewers say: at most Allowed provider calls, and a dispatch counts as *)
(* cleanly failed only if its very first call failed.  DeliveryDispatch    *)
(* uses the loop in this form; ReviewLoop implements it.                   *)
(***************************************************************************)
EXTENDS Naturals

CONSTANT Allowed    \* max_correction_rounds + 1

VARIABLES attempts, stage

Init == attempts = 0 /\ stage = "attempt"

\* _run_attempt completes with a patch.
Complete ==
    /\ stage = "attempt"
    /\ attempts' = attempts + 1
    /\ stage' = "review"

\* _run_attempt ends without one.
Fail ==
    /\ stage = "attempt"
    /\ attempts' = attempts + 1
    /\ \/ stage' = "other"
       \/ attempts = 0 /\ stage' = "failed"

Correct ==
    /\ stage = "review"
    /\ attempts < Allowed
    /\ stage' = "attempt"
    /\ UNCHANGED attempts

Approve ==
    /\ stage = "review"
    /\ stage' = "commit"
    /\ UNCHANGED attempts

Refuse ==
    /\ stage \in {"attempt", "review"}
    /\ stage' = "other"
    /\ UNCHANGED attempts

Next == Complete \/ Fail \/ Correct \/ Approve \/ Refuse

Spec == Init /\ [][Next]_<<attempts, stage>>
=============================================================================
