------------------------------ MODULE ReviewLoop ------------------------------
(***************************************************************************)
(* The correction rounds of DeliveryPipeline._deliver: an attempt, its     *)
(* review, and the decision to accept, correct or stop.  A finding is      *)
(* known by its identity, which leaves out line and severity, so a later   *)
(* review may repeat one with another severity.  The reviewer is the       *)
(* provider-backed CodexReviewerAdapter; the deterministic reviewer that   *)
(* runs before it repeats checks each completed attempt has passed.  The   *)
(* names differ from those of DeliveryDispatch, so that one module can     *)
(* extend both.                                                            *)
(***************************************************************************)
EXTENDS Naturals, FiniteSets

CONSTANTS
    Findings,    \* identities of findings
    Patches,     \* contents of patches
    NoPatch,     \* no patch yet
    MaxRounds    \* max_correction_rounds

ASSUME ReviewNoneAssumption == NoPatch \notin Patches
ASSUME MaxRoundsAssumption == MaxRounds \in Nat

VARIABLES
    phase,
    round,       \* correction_rounds
    attempts,    \* calls of the provider
    patch,       \* of the current attempt
    lastPatch,   \* of the attempt before
    previous,    \* blocking findings of the last review, handed to the next
    verdict,     \* the review being judged
    raised,      \* history: findings that were ever blocking
    settled      \* history: those a later review answered for

loopVars == <<phase, round, attempts, patch, lastPatch, previous, verdict, raised, settled>>

Outcomes == {"approved", "failed", "blocked", "human"}

\* A report; stated: it lists resolved_finding_ids.
Verdicts ==
    {r \in [status : {"APPROVE", "REQUEST_CHANGES", "REJECT", "HUMAN_REQUIRED"},
            blocking : SUBSET Findings, minor : SUBSET Findings,
            stated : BOOLEAN, resolved : SUBSET Findings] :
        ~r.stated => r.resolved = {}}

\* parse_structured_review and _validate_resolution_ids.  Only the shape of
\* older versions, which has no resolved ids, can approve with findings.
Valid(r) ==
    /\ r.resolved \subseteq previous
    /\ CASE r.status = "APPROVE" -> r.blocking = {} /\ (r.stated => r.minor = {})
         [] r.status = "REQUEST_CHANGES" -> r.blocking \cup r.minor # {}
         [] r.status = "REJECT" -> r.blocking # {}
         [] OTHER -> TRUE

NoVerdict == [status |-> "HUMAN_REQUIRED", blocking |-> {}, minor |-> {},
             stated |-> FALSE, resolved |-> {}]

LoopInit ==
    /\ phase = "attempt"
    /\ round = 0
    /\ attempts = 0
    /\ patch = NoPatch
    /\ lastPatch = NoPatch
    /\ previous = {}
    /\ verdict = NoVerdict
    /\ raised = {}
    /\ settled = {}

Stop(outcome) ==
    /\ phase' = outcome
    /\ UNCHANGED <<round, patch, lastPatch, previous, verdict, raised, settled>>

-----------------------------------------------------------------------------
\* The repository or a gate refuses before the provider is called.
RefuseAttempt ==
    /\ phase = "attempt"
    /\ Stop("blocked")
    /\ UNCHANGED attempts

Attempt ==
    /\ phase = "attempt"
    /\ attempts' = attempts + 1
    /\ patch' \in Patches
    /\ phase' = "review"
    /\ UNCHANGED <<round, lastPatch, previous, verdict, raised, settled>>

\* MUTANT: a failed call is not counted.
AttemptEndsFree ==
    /\ phase = "attempt"
    /\ \E outcome \in {"failed", "human"} : Stop(outcome)
    /\ UNCHANGED attempts

\* The provider fails, leaves the scope, or its validations do not pass.
AttemptEnds ==
    /\ phase = "attempt"
    /\ attempts' = attempts + 1
    /\ \E outcome \in {"failed", "human"} : Stop(outcome)

\* CodexReviewerAdapter.review: a report that passes validation, the first
\* time or after the one repair.
Review ==
    /\ phase \in {"review", "repair"}
    /\ verdict' \in {r \in Verdicts : Valid(r)}
    /\ phase' = "judge"
    /\ UNCHANGED <<round, attempts, patch, lastPatch, previous, raised, settled>>

\* MUTANT: and so is the repair, again and again.
ReviewInvalidAgain ==
    /\ phase \in {"review", "repair"}
    /\ phase' = IF phase = "review" THEN "repair" ELSE "review"
    /\ UNCHANGED <<round, attempts, patch, lastPatch, previous, verdict, raised, settled>>

\* An answer with a REVIEW_ error is repaired once.
ReviewInvalid ==
    /\ phase = "review"
    /\ phase' = "repair"
    /\ UNCHANGED <<round, attempts, patch, lastPatch, previous, verdict, raised, settled>>

ReviewUnusable ==
    /\ phase \in {"review", "repair"}
    /\ Stop("human")
    /\ UNCHANGED attempts

AcceptPatch ==
    /\ phase = "judge"
    /\ verdict.status = "APPROVE"
    /\ Stop("approved")
    /\ UNCHANGED attempts

Reject ==
    /\ phase = "judge"
    /\ \/ verdict.status = "HUMAN_REQUIRED" /\ Stop("human")
       \/ verdict.status = "REJECT" /\ Stop("blocked")
    /\ UNCHANGED attempts

Current == verdict.blocking \cup verdict.minor

\* MUTANT: a prior finding may be left out of the next review.
AnswersStated ==
    /\ previous # {} => verdict.stated
    /\ verdict.resolved \cap Current = {}

\* _review_resolution_states: each prior finding is resolved or repeated.
Answers ==
    /\ previous # {} => verdict.stated
    /\ verdict.resolved \cap Current = {}
    /\ previous \subseteq verdict.resolved \cup Current

\* MUTANT: one round too many.
MayCorrectLate == round <= MaxRounds

MayCorrect == round < MaxRounds

Unanswered ==
    /\ phase = "judge"
    /\ verdict.status = "REQUEST_CHANGES"
    /\ ~Answers
    /\ Stop("blocked")
    /\ UNCHANGED attempts

\* The patch did not change, and neither did a blocking finding.
Stuck == patch = lastPatch /\ verdict.blocking \cap previous # {}

NotConverging ==
    /\ phase = "judge"
    /\ verdict.status = "REQUEST_CHANGES"
    /\ Answers
    /\ Stuck
    /\ Stop("human")
    /\ UNCHANGED attempts

LimitReached ==
    /\ phase = "judge"
    /\ verdict.status = "REQUEST_CHANGES"
    /\ Answers
    /\ ~Stuck
    /\ ~MayCorrect
    /\ Stop("blocked")
    /\ UNCHANGED attempts

NextRound ==
    /\ phase = "judge"
    /\ verdict.status = "REQUEST_CHANGES"
    /\ Answers
    /\ ~Stuck
    /\ MayCorrect
    /\ round' = round + 1
    /\ previous' = verdict.blocking
    /\ lastPatch' = patch
    /\ phase' = "attempt"
    /\ raised' = raised \cup verdict.blocking
    /\ settled' = (settled \cup verdict.resolved \cup (previous \cap verdict.minor))
                      \ verdict.blocking
    /\ UNCHANGED <<attempts, patch, verdict>>

Done ==
    /\ phase \in Outcomes
    /\ UNCHANGED loopVars

LoopNext ==
    \/ RefuseAttempt \/ Attempt \/ AttemptEnds
    \/ Review \/ ReviewInvalid \/ ReviewUnusable
    \/ AcceptPatch \/ Reject \/ Unanswered \/ NotConverging \/ LimitReached \/ NextRound
    \/ Done

LoopSpec == LoopInit /\ [][LoopNext]_loopVars

\* deliver runs its loop without waiting; provider and reviewer have timeouts.
FairLoopSpec == LoopSpec /\ WF_loopVars(LoopNext)

-----------------------------------------------------------------------------
\* Every variable has its type; the rounds stay within the limit.
LoopTypeOK ==
    /\ phase \in {"attempt", "review", "repair", "judge"} \cup Outcomes
    /\ round \in 0..MaxRounds
    /\ attempts \in 0..(MaxRounds + 1)
    /\ patch \in Patches \cup {NoPatch}
    /\ lastPatch \in Patches \cup {NoPatch}
    /\ previous \subseteq Findings
    /\ verdict \in Verdicts
    /\ raised \subseteq Findings
    /\ settled \subseteq Findings

(***************************************************************************)
(* No blocking finding gets lost on the way: each is still handed to the   *)
(* next review, or a later review has said that it is resolved or minor.   *)
(***************************************************************************)
NothingLost == raised \subseteq settled \cup previous

(***************************************************************************)
(* tests/test_review_resolution.py:108,                                    *)
(* test_approve_with_unresolved_prior_finding_is_rejected: an APPROVE that *)
(* lists what it resolved has to list every prior finding.                 *)
(***************************************************************************)
ApprovedIsAnswered ==
    phase = "approved" /\ verdict.stated => previous \subseteq verdict.resolved

-----------------------------------------------------------------------------
\* The loop as a dispatch sees it; only a failure of the first attempt is clean.
Stage ==
    IF phase = "attempt" THEN "attempt"
    ELSE IF phase \in {"review", "repair", "judge"} THEN "review"
    ELSE IF phase = "approved" THEN "commit"
    ELSE IF phase = "failed" /\ round = 0 THEN "failed"
    ELSE "other"

Rounds == INSTANCE CorrectionRounds WITH Allowed <- MaxRounds + 1, stage <- Stage

(***************************************************************************)
(* However the reviewers answer, the provider is called at most MaxRounds  *)
(* + 1 times, and a failure is reported as clean only if nothing came      *)
(* before it: what the execution journal's budget relies on.               *)
(***************************************************************************)
RoundsSpec == Rounds!Spec

\* Every dispatch comes to an outcome: corrections and repairs are bounded.
EventuallyDecided == <>(phase \in Outcomes)
=============================================================================
