--------------------------- MODULE CampaignRecord ---------------------------
(***************************************************************************)
(* The durable campaign record of campaign_runner.py, and the pure         *)
(* functions that compute its next version.  Every one of them appends     *)
(* exactly one event to the journal; who may apply which of them, and      *)
(* when, is the business of CampaignLifecycle (the promise) and of         *)
(* CampaignRunner (the locks, copies and crashes that keep it).            *)
(*                                                                         *)
(* Kept: status, lease owner, retry count, event journal.  The reason,     *)
(* resource and expected-condition texts, the identities and bindings are  *)
(* data no decision below reads.  next_check_at and lease_expires_at       *)
(* become the flags "due" and "expired" of CampaignRunner.                 *)
(***************************************************************************)
EXTENDS Naturals, Sequences

CONSTANTS
    RetryBudget,  \* CampaignState.retry_budget
    MaxEvents,    \* _MAX_EVENTS, 500 in the code
    NoOwner       \* lease_owner is None

ASSUME BudgetAssumption == RetryBudget \in Nat
ASSUME MaxEventsAssumption == MaxEvents \in Nat

WAITING_STATUSES ==
    {"WAITING_CI", "WAITING_REVIEW", "WAITING_GITHUB", "WAITING_ARTIFACT",
     "WAITING_DEPLOYMENT", "WAITING_PROVIDER", "WAITING_EXTERNAL",
     "RETRY_BACKOFF"}

TERMINAL_STATUSES ==
    {"COMPLETE", "NO_JUSTIFIED_WORK", "HUMAN_REQUIRED",
     "BLOCKED_NON_RETRYABLE", "CANCELLED"}

Statuses == {"RUNNING"} \cup WAITING_STATUSES \cup TERMINAL_STATUSES

Terminal(rec) == rec.status \in TERMINAL_STATUSES
Waiting(rec)  == rec.status \in WAITING_STATUSES

\* event_sequence: validate() makes it the length of the journal.
Sequence(rec) == Len(rec.events)

\* What validate() refuses, on every load and every save, of the fields kept.
Valid(rec) == Sequence(rec) <= MaxEvents /\ rec.retry <= RetryBudget

-----------------------------------------------------------------------------
\* make_initial_state
InitialRecord ==
    [status |-> "RUNNING", owner |-> NoOwner, retry |-> 0, events |-> <<>>]

(***************************************************************************)
(* _append.  A note stands for the timestamp and summary of an event: two  *)
(* events of one type are the same event exactly when their notes agree.   *)
(***************************************************************************)
Appended(rec, type, status, note) ==
    [rec EXCEPT !.events =
        Append(@, [type |-> type, status |-> status, note |-> note])]

\* The note of an event written under the campaign operation lock.
RunnerNote == "runner"

\* _tick_locked: the wake that turns a satisfied wait into RUNNING.
Woken(rec) ==
    [Appended(rec, "WAKE", "RUNNING", RunnerNote) EXCEPT !.status = "RUNNING"]

\* CampaignStore.claim: the lease of one work invocation.
Claimed(rec, worker) ==
    [Appended(rec, "WORK_CLAIM", rec.status, RunnerNote) EXCEPT !.owner = worker]

\* _apply_result of a WAIT outcome.
Parked(rec, wait) ==
    [Appended(rec, "WAIT", wait, RunnerNote)
        EXCEPT !.status = wait, !.owner = NoOwner]

\* MUTANT: CONTINUE is stored as if it were a status.
TargetUnmapped(outcome) == outcome

\* _apply_result of any outcome but WAIT and RETRY.
Target(outcome) == IF outcome = "CONTINUE" THEN "RUNNING" ELSE outcome

Stepped(rec, outcome) ==
    [Appended(rec, "STEP", Target(outcome), RunnerNote)
        EXCEPT !.status = Target(outcome), !.owner = NoOwner]

(***************************************************************************)
(* _schedule_retry: one more bounded backoff, or the end of the budget.    *)
(***************************************************************************)
BackedOff(rec) ==
    [Appended(rec, "RETRY_BACKOFF", "RETRY_BACKOFF", RunnerNote)
        EXCEPT !.status = "RETRY_BACKOFF", !.retry = @ + 1, !.owner = NoOwner]

Exhausted(rec) ==
    [Appended(rec, "RETRY_EXHAUSTED", "BLOCKED_NON_RETRYABLE", RunnerNote)
        EXCEPT !.status = "BLOCKED_NON_RETRYABLE", !.owner = NoOwner]

Retried(rec) == IF rec.retry < RetryBudget THEN BackedOff(rec) ELSE Exhausted(rec)

\* MUTANT: the reset keeps the retries already charged.
ResetKeepsCount(rec, note) ==
    [Appended(rec, "RETRY_RESET", "WAITING_EXTERNAL", note)
        EXCEPT !.status = "WAITING_EXTERNAL", !.owner = NoOwner]

\* reset_retry: the owner has repaired the cause of a backoff.
ResetRetry(rec, note) ==
    [Appended(rec, "RETRY_RESET", "WAITING_EXTERNAL", note)
        EXCEPT !.status = "WAITING_EXTERNAL", !.retry = 0, !.owner = NoOwner]

\* invalidate_binding: the campaign's target is no longer the project's.
Invalidated(rec, note) ==
    [Appended(rec, "STALE_BINDING", "BLOCKED_NON_RETRYABLE", note)
        EXCEPT !.status = "BLOCKED_NON_RETRYABLE", !.owner = NoOwner]

=============================================================================
