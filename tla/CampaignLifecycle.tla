-------------------------- MODULE CampaignLifecycle --------------------------
(***************************************************************************)
(* What the persistent campaign runner promises of a campaign: its record  *)
(* moves as if every writer had the record to itself.  Each step is one    *)
(* operation of campaign_runner.py applied to the latest version, with the *)
(* precondition the operation has in the code; there are no copies, no     *)
(* locks, no deferred evidence and no crashes here.                        *)
(***************************************************************************)
EXTENDS CampaignRecord

CONSTANTS
    Runners,       \* worker identities
    Notes,         \* the timestamp and summary an operator's event may carry
    StepWaits,     \* statuses a step may wait in
    StepOutcomes   \* outcomes of a step other than WAIT and RETRY

VARIABLE record

Init == record = InitialRecord

\* Only a campaign that waits is woken.
Wake == Waiting(record) /\ record' = Woken(record)

\* Only a RUNNING campaign is worked on; an expired lease is taken over.
Claim ==
    /\ record.status = "RUNNING"
    /\ \E r \in Runners : record' = Claimed(record, r)

\* A result is recorded only on behalf of the lease under which it was computed.
Finish ==
    /\ record.status = "RUNNING"
    /\ record.owner # NoOwner
    /\ \/ \E outcome \in StepOutcomes : record' = Stepped(record, outcome)
       \/ \E wait \in StepWaits : record' = Parked(record, wait)

Retry == ~Terminal(record) /\ record' = Retried(record)

Reset ==
    /\ record.status = "RETRY_BACKOFF"
    /\ \E note \in Notes : record' = ResetRetry(record, note)

Invalidate ==
    /\ ~Terminal(record)
    /\ \E note \in Notes : record' = Invalidated(record, note)

Next == Wake \/ Claim \/ Finish \/ Retry \/ Reset \/ Invalidate

Spec == Init /\ [][Next]_record

=============================================================================
