--------------------------- MODULE CampaignRunner ---------------------------
(***************************************************************************)
(* PersistentCampaignRunner and CampaignStore for one campaign, driven by  *)
(* several runner processes and by callers of reset_retry and              *)
(* invalidate_binding.  A process steps from one project-lock section to   *)
(* the next: what it loaded in one section is its own copy, which may be   *)
(* stale when a later section saves what was computed from it.             *)
(*                                                                         *)
(* The campaign operation lock is held across a whole tick (or             *)
(* schedule_retry); reset_retry and invalidate_binding never take it.      *)
(* A tick that finds it held changes nothing, so it is no action here.     *)
(***************************************************************************)
EXTENDS CampaignRecord, FiniteSets

CONSTANTS
    Runners,        \* processes that call tick and schedule_retry
    Operators,      \* callers of the two calls below, in any process
    OperatorCalls,  \* the calls made: "reset", "invalidate"
    Notes,          \* the timestamp and summary an operator's event may carry
    StepWaits,      \* statuses a step may wait in
    StepOutcomes,   \* outcomes of a step other than WAIT and RETRY
    NoCopy,         \* no record in memory, or no deferred evidence on disk
    MaxFaults       \* bound on crashes, lock timeouts and refused wakes

ASSUME RunnerAssumption == NoOwner \notin Runners
ASSUME OperatorCallsAssumption == OperatorCalls \subseteq {"reset", "invalidate"}
ASSUME StepWaitsAssumption == StepWaits \subseteq WAITING_STATUSES
ASSUME StepOutcomesAssumption ==
    StepOutcomes \subseteq TERMINAL_STATUSES \cup {"CONTINUE"}
ASSUME MaxFaultsAssumption == MaxFaults \in Nat

VARIABLES
    record,    \* the campaign file
    due,       \* next_check_at of the record has been reached
    expired,   \* lease_expires_at of the record has been reached
    deferred,  \* the deferred retry file: NoCopy or [before, after]
    opLock,    \* holder of the campaign operation lock
    pc,        \* where each runner is
    seen,      \* the record each runner's decision is based on
    out,       \* the record each runner is about to save
    call,      \* the call each operator is in
    read,      \* the record each operator's decision is based on
    intent,    \* the record each operator is about to save
    faults     \* how many of MaxFaults have happened

recordVars == <<record, due, expired>>
runnerVars == <<opLock, pc, seen, out>>
operatorVars == <<call, read, intent>>
vars == <<record, due, expired, deferred, opLock, pc, seen, out,
          call, read, intent, faults>>

Init ==
    /\ record = InitialRecord
    /\ due = FALSE
    /\ expired = FALSE
    /\ deferred = NoCopy
    /\ opLock = NoOwner
    /\ pc = [r \in Runners |-> "idle"]
    /\ seen = [r \in Runners |-> NoCopy]
    /\ out = [r \in Runners |-> NoCopy]
    /\ call = [o \in Operators |-> "idle"]
    /\ read = [o \in Operators |-> NoCopy]
    /\ intent = [o \in Operators |-> NoCopy]
    /\ faults = 0

-----------------------------------------------------------------------------
(* CampaignStore: the sections under the project lock.                     *)

\* _save_unlocked: the file becomes rec; isDue says if its next check is past.
Write(rec, isDue) ==
    /\ record' = rec
    /\ due' = isDue
    /\ expired' = FALSE

\* MUTANT: equal sequence numbers are taken for equal records.
AcceptsEqualSequence(rec) ==
    /\ Valid(rec)
    /\ Valid(record)
    /\ Sequence(rec) >= Sequence(record)

\* save: the checks it makes of the submitted and of the stored record.
Accepts(rec) ==
    /\ Valid(rec)
    /\ Valid(record)
    /\ \/ Sequence(rec) > Sequence(record)
       \/ rec = record

\* save of an accepted record; the stored record itself may be saved again.
Save(rec, isDue) ==
    /\ Accepts(rec)
    /\ IF rec = record THEN UNCHANGED recordVars ELSE Write(rec, isDue)

-----------------------------------------------------------------------------
(* Runners: tick and schedule_retry, under the campaign operation lock.    *)

Goto(r, label) == pc' = [pc EXCEPT ![r] = label]

\* The call is over, by return or by exception: nothing in memory survives it.
Leave(r) ==
    /\ Goto(r, "idle")
    /\ opLock' = NoOwner
    /\ seen' = [seen EXCEPT ![r] = NoCopy]
    /\ out' = [out EXCEPT ![r] = NoCopy]

\* The runner will save rec, which it computed from copy.
Submit(r, copy, rec, label) ==
    /\ Goto(r, label)
    /\ seen' = [seen EXCEPT ![r] = copy]
    /\ out' = [out EXCEPT ![r] = rec]
    /\ UNCHANGED opLock

\* MUTANT: the time lease alone keeps two workers apart.
EnterUnlocked(r) ==
    /\ pc[r] = "idle"
    /\ opLock' = r
    /\ Goto(r, "recover")
    /\ UNCHANGED <<recordVars, deferred, seen, out, operatorVars, faults>>

Enter(r) ==
    /\ pc[r] = "idle"
    /\ opLock = NoOwner
    /\ opLock' = r
    /\ Goto(r, "recover")
    /\ UNCHANGED <<recordVars, deferred, seen, out, operatorVars, faults>>

(***************************************************************************)
(* _recover_deferred_retry, first thing in tick and in schedule_retry.     *)
(***************************************************************************)
RecoverNothing(r) ==
    /\ pc[r] = "recover"
    /\ deferred = NoCopy
    /\ Goto(r, "load")
    /\ UNCHANGED <<recordVars, deferred, opLock, seen, out, operatorVars, faults>>

\* current == before: save after.  Its next check may be long past by now.
ApplyDeferred ==
    /\ Valid(record)
    /\ record = deferred.before
    /\ \E isDue \in BOOLEAN :
        /\ isDue => Waiting(deferred.after)
        /\ Write(deferred.after, isDue)

RecoverDeferred(r) ==
    /\ pc[r] = "recover"
    /\ deferred # NoCopy
    /\ \/ ApplyDeferred
       \/ Valid(record) /\ record = deferred.after /\ UNCHANGED recordVars
    /\ deferred' = NoCopy
    /\ Goto(r, "load")
    /\ UNCHANGED <<opLock, seen, out, operatorVars, faults>>

\* The process dies between the save and the unlink of one recovery.
CrashInRecovery(r) ==
    /\ pc[r] = "recover"
    /\ deferred # NoCopy
    /\ faults < MaxFaults
    /\ ApplyDeferred
    /\ faults' = faults + 1
    /\ Leave(r)
    /\ UNCHANGED <<deferred, operatorVars>>

\* MUTANT: conflicting evidence is cleaned up.
RecoverForgetful(r) ==
    /\ pc[r] = "recover"
    /\ deferred # NoCopy
    /\ ~Valid(record) \/ record \notin {deferred.before, deferred.after}
    /\ deferred' = NoCopy
    /\ Leave(r)
    /\ UNCHANGED <<recordVars, operatorVars, faults>>

\* Neither before nor after: the evidence stays and the call raises.
RecoverConflict(r) ==
    /\ pc[r] = "recover"
    /\ deferred # NoCopy
    /\ ~Valid(record) \/ record \notin {deferred.before, deferred.after}
    /\ Leave(r)
    /\ UNCHANGED <<recordVars, deferred, operatorVars, faults>>

(***************************************************************************)
(* store.load, and what tick or schedule_retry does with what it finds.    *)
(***************************************************************************)
\* Unreadable, terminal, or waiting for a check that is not due.
LoadReturns(r) ==
    /\ pc[r] = "load"
    /\ \/ ~Valid(record)
       \/ Terminal(record)
       \/ Waiting(record) /\ ~due
    /\ Leave(r)
    /\ UNCHANGED <<recordVars, deferred, operatorVars, faults>>

LoadDueWait(r) ==
    /\ pc[r] = "load"
    /\ Valid(record)
    /\ Waiting(record)
    /\ due
    /\ Goto(r, "probe")
    /\ seen' = [seen EXCEPT ![r] = record]
    /\ UNCHANGED <<recordVars, deferred, opLock, out, operatorVars, faults>>

LoadRunning(r) ==
    /\ pc[r] = "load"
    /\ Valid(record)
    /\ record.status = "RUNNING"
    /\ Goto(r, "claim")
    /\ UNCHANGED <<recordVars, deferred, opLock, seen, out, operatorVars, faults>>

\* schedule_retry: the daemon could not even start a step.
ScheduleRetry(r) ==
    /\ pc[r] = "load"
    /\ Valid(record)
    /\ ~Terminal(record)
    /\ Submit(r, record, Retried(record), "retry")
    /\ UNCHANGED <<recordVars, deferred, operatorVars, faults>>

\* The probe of the external condition answers, or raises.
Probe(r) ==
    /\ pc[r] = "probe"
    /\ \/ Submit(r, seen[r], Woken(seen[r]), "wake")
       \/ Submit(r, seen[r], Retried(seen[r]), "retry")
    /\ UNCHANGED <<recordVars, deferred, operatorVars, faults>>

\* MUTANT: a wake that lost the race goes on to its claim.
SaveWakeProceeds(r) ==
    /\ pc[r] = "wake"
    /\ IF Accepts(out[r]) THEN Save(out[r], FALSE) ELSE UNCHANGED recordVars
    /\ Goto(r, "claim")
    /\ seen' = [seen EXCEPT ![r] = NoCopy]
    /\ out' = [out EXCEPT ![r] = NoCopy]
    /\ UNCHANGED <<deferred, opLock, operatorVars, faults>>

SaveWake(r) ==
    /\ pc[r] = "wake"
    /\ Save(out[r], FALSE)
    /\ Goto(r, "claim")
    /\ seen' = [seen EXCEPT ![r] = NoCopy]
    /\ out' = [out EXCEPT ![r] = NoCopy]
    /\ UNCHANGED <<deferred, opLock, operatorVars, faults>>

\* MUTANT: the claim does not look at the status.
ClaimTerminal(r) ==
    /\ pc[r] = "claim"
    /\ Valid(record)
    /\ record.owner = NoOwner \/ expired
    /\ Write(Claimed(record, r), FALSE)
    /\ Goto(r, "work")
    /\ seen' = [seen EXCEPT ![r] = Claimed(record, r)]
    /\ UNCHANGED <<deferred, opLock, out, operatorVars, faults>>

\* MUTANT: the lease of a dead worker is never taken over.
ClaimUnleased(r) ==
    /\ pc[r] = "claim"
    /\ Valid(record)
    /\ ~Terminal(record)
    /\ record.owner = NoOwner
    /\ Write(Claimed(record, r), FALSE)
    /\ Goto(r, "work")
    /\ seen' = [seen EXCEPT ![r] = Claimed(record, r)]
    /\ UNCHANGED <<deferred, opLock, out, operatorVars, faults>>

\* store.claim decides on the record it reads, and writes without validating it.
Claim(r) ==
    /\ pc[r] = "claim"
    /\ Valid(record)
    /\ ~Terminal(record)
    /\ record.owner = NoOwner \/ expired
    /\ Write(Claimed(record, r), FALSE)
    /\ Goto(r, "work")
    /\ seen' = [seen EXCEPT ![r] = Claimed(record, r)]
    /\ UNCHANGED <<deferred, opLock, out, operatorVars, faults>>

ClaimReturns(r) ==
    /\ pc[r] = "claim"
    /\ ~Valid(record) \/ Terminal(record) \/ (record.owner # NoOwner /\ ~expired)
    /\ Leave(r)
    /\ UNCHANGED <<recordVars, deferred, operatorVars, faults>>

\* work(claimed) returns an outcome, or raises, which counts as RETRY.
Work(r) ==
    /\ pc[r] = "work"
    /\ \/ \E outcome \in StepOutcomes :
            Submit(r, seen[r], Stepped(seen[r], outcome), "result")
       \/ \E wait \in StepWaits :
            Submit(r, seen[r], Parked(seen[r], wait), "result")
       \/ Submit(r, seen[r], Retried(seen[r]), "retry")
    /\ UNCHANGED <<recordVars, deferred, operatorVars, faults>>

SaveResult(r) ==
    /\ pc[r] = "result"
    /\ \E isDue \in BOOLEAN :
        /\ isDue => Waiting(out[r])
        /\ Save(out[r], isDue)
    /\ Leave(r)
    /\ UNCHANGED <<deferred, operatorVars, faults>>

SaveRetry(r) ==
    /\ pc[r] = "retry"
    /\ Save(out[r], FALSE)
    /\ Leave(r)
    /\ UNCHANGED <<deferred, operatorVars, faults>>

\* save refuses: invalid, regressed or changed concurrently.
SaveRefused(r) ==
    /\ pc[r] \in {"wake", "result", "retry"}
    /\ ~Accepts(out[r])
    /\ Leave(r)
    /\ UNCHANGED <<recordVars, deferred, operatorVars, faults>>

(***************************************************************************)
(* _defer_retry: the project lock stayed contended, so the exact           *)
(* transition goes to the deferred retry file.  Evidence already there is  *)
(* kept (and, when it is another transition, the call raises).             *)
(***************************************************************************)
Defer(r) ==
    /\ pc[r] = "retry"
    /\ Valid(out[r])
    /\ faults < MaxFaults
    /\ faults' = faults + 1
    /\ deferred' = IF deferred = NoCopy
                   THEN [before |-> seen[r], after |-> out[r]]
                   ELSE deferred
    /\ Leave(r)
    /\ UNCHANGED <<recordVars, operatorVars>>

\* A crash, a project lock that stays contended, or a wake guard that raises.
Abort(r) ==
    /\ pc[r] # "idle"
    /\ faults < MaxFaults
    /\ faults' = faults + 1
    /\ Leave(r)
    /\ UNCHANGED <<recordVars, deferred, operatorVars>>

-----------------------------------------------------------------------------
(* reset_retry and invalidate_binding: load, then save, with no lock held  *)
(* in between.                                                             *)

Begin(o, name, rec) ==
    /\ call' = [call EXCEPT ![o] = name]
    /\ read' = [read EXCEPT ![o] = record]
    /\ intent' = [intent EXCEPT ![o] = rec]

End(o) ==
    /\ call' = [call EXCEPT ![o] = "idle"]
    /\ read' = [read EXCEPT ![o] = NoCopy]
    /\ intent' = [intent EXCEPT ![o] = NoCopy]

\* MUTANT: any campaign may be reset.
ResetAnything(o) ==
    /\ call[o] = "idle"
    /\ "reset" \in OperatorCalls
    /\ Valid(record)
    /\ \E note \in Notes : Begin(o, "reset", ResetRetry(record, note))
    /\ UNCHANGED <<recordVars, deferred, runnerVars, faults>>

BeginReset(o) ==
    /\ call[o] = "idle"
    /\ "reset" \in OperatorCalls
    /\ Valid(record)
    /\ record.status = "RETRY_BACKOFF"
    /\ \E note \in Notes : Begin(o, "reset", ResetRetry(record, note))
    /\ UNCHANGED <<recordVars, deferred, runnerVars, faults>>

BeginInvalidate(o) ==
    /\ call[o] = "idle"
    /\ "invalidate" \in OperatorCalls
    /\ Valid(record)
    /\ ~Terminal(record)
    /\ \E note \in Notes : Begin(o, "invalidate", Invalidated(record, note))
    /\ UNCHANGED <<recordVars, deferred, runnerVars, faults>>

SaveCall(o) ==
    /\ call[o] # "idle"
    /\ Save(intent[o], Waiting(intent[o]))
    /\ End(o)
    /\ UNCHANGED <<deferred, runnerVars, faults>>

CallRefused(o) ==
    /\ call[o] # "idle"
    /\ ~Accepts(intent[o])
    /\ End(o)
    /\ UNCHANGED <<recordVars, deferred, runnerVars, faults>>

AbortCall(o) ==
    /\ call[o] # "idle"
    /\ faults < MaxFaults
    /\ faults' = faults + 1
    /\ End(o)
    /\ UNCHANGED <<recordVars, deferred, runnerVars>>

-----------------------------------------------------------------------------
(* The clock.                                                              *)

CheckFallsDue ==
    /\ Waiting(record)
    /\ ~due
    /\ due' = TRUE
    /\ UNCHANGED <<record, expired, deferred, runnerVars, operatorVars, faults>>

LeaseExpires ==
    /\ record.owner # NoOwner
    /\ ~expired
    /\ expired' = TRUE
    /\ UNCHANGED <<record, due, deferred, runnerVars, operatorVars, faults>>

-----------------------------------------------------------------------------
\* What a runner that is neither killed nor starved of the project lock does.
RunnerStep(r) ==
    \/ Enter(r)
    \/ RecoverNothing(r) \/ RecoverDeferred(r) \/ RecoverConflict(r)
    \/ LoadReturns(r) \/ LoadDueWait(r) \/ LoadRunning(r) \/ ScheduleRetry(r)
    \/ Probe(r) \/ SaveWake(r)
    \/ Claim(r) \/ ClaimReturns(r) \/ Work(r)
    \/ SaveResult(r) \/ SaveRetry(r) \/ SaveRefused(r)

RunnerFault(r) == CrashInRecovery(r) \/ Defer(r) \/ Abort(r)

OperatorStep(o) ==
    BeginReset(o) \/ BeginInvalidate(o) \/ SaveCall(o) \/ CallRefused(o) \/ AbortCall(o)

Clock == CheckFallsDue \/ LeaseExpires

Next ==
    \/ \E r \in Runners : RunnerStep(r) \/ RunnerFault(r)
    \/ \E o \in Operators : OperatorStep(o)
    \/ Clock

Spec == Init /\ [][Next]_vars

(***************************************************************************)
(* run_forever and the daemon tick again and again, a call that is neither *)
(* killed nor starved goes on, and time passes.                            *)
(***************************************************************************)
Fairness ==
    /\ \A r \in Runners : WF_vars(RunnerStep(r))
    /\ WF_vars(CheckFallsDue)
    /\ WF_vars(LeaseExpires)

FairSpec == Spec /\ Fairness

-----------------------------------------------------------------------------
EventTypes ==
    {"WAKE", "WORK_CLAIM", "WAIT", "STEP", "RETRY_BACKOFF", "RETRY_EXHAUSTED",
     "RETRY_RESET", "STALE_BINDING"}

Event == [type : EventTypes, status : Statuses, note : Notes \cup {RunnerNote}]

Record == [status : Statuses, owner : Runners \cup {NoOwner}, retry : Nat,
           events : Seq(Event)]

Labels == {"idle", "recover", "load", "probe", "wake", "claim", "work",
           "result", "retry"}

\* Every variable keeps its type; copies in memory and on disk are records.
TypeOK ==
    /\ record \in Record
    /\ due \in BOOLEAN
    /\ expired \in BOOLEAN
    /\ deferred \in [before : Record, after : Record] \cup {NoCopy}
    /\ opLock \in Runners \cup {NoOwner}
    /\ pc \in [Runners -> Labels]
    /\ seen \in [Runners -> Record \cup {NoCopy}]
    /\ out \in [Runners -> Record \cup {NoCopy}]
    /\ call \in [Operators -> {"idle", "reset", "invalidate"}]
    /\ read \in [Operators -> Record \cup {NoCopy}]
    /\ intent \in [Operators -> Record \cup {NoCopy}]
    /\ faults \in 0 .. MaxFaults

(***************************************************************************)
(* docs/PERSISTENT_CAMPAIGN_RUNNER.md: the journal is append-only.  save   *)
(* compares sequence numbers only, never the events: that no writer drops  *)
(* or replaces another's event rests on what its copy can be by then.      *)
(***************************************************************************)
OneMoreEvent == \E e \in Event : record'.events = Append(record.events, e)

JournalAppendOnly == [][record' # record => OneMoreEvent]_vars

(***************************************************************************)
(* Terminal campaigns never re-enter work: no late wake, result, retry,    *)
(* reset or recovered evidence changes a terminal record.                  *)
(***************************************************************************)
TerminalIsFinal == [][Terminal(record) => record' = record]_vars

(***************************************************************************)
(* From the claim to the save of its result, whatever the clock says of    *)
(* the lease, the record is the one this worker claimed, unless the        *)
(* campaign was invalidated over it.  A result is thus lost only to a      *)
(* crash or to an invalidation, and no second worker runs meanwhile.       *)
(***************************************************************************)
Working(r) ==
    \/ pc[r] \in {"work", "result"}
    \/ pc[r] = "retry" /\ seen[r].owner # NoOwner

OwnsRecord(r) ==
    Working(r) => \/ record = seen[r]
                  \/ \E note \in Notes : record = Invalidated(seen[r], note)

WorkerOwnsRecord == \A r \in Runners : OwnsRecord(r)

(***************************************************************************)
(* A deferred retry is applied exactly once: its file goes away only in a  *)
(* step after which the record is the deferred one, across crashes between *)
(* save and unlink and against concurrent operators.                       *)
(***************************************************************************)
DeferredAppliedOnce ==
    [][deferred # NoCopy /\ deferred' # deferred
        => deferred' = NoCopy /\ record' = deferred.after]_vars

(***************************************************************************)
(* The journal explains the record: the last event gives the status and    *)
(* whether a lease is held, and the backoffs since the last reset give the *)
(* retry count, so no failure is charged twice or forgotten.               *)
(***************************************************************************)
EventsSince(events, type) ==
    {i \in 1 .. Len(events) :
        \A j \in i .. Len(events) : events[j].type # type}

BackoffsCharged(events) ==
    {i \in EventsSince(events, "RETRY_RESET") : events[i].type = "RETRY_BACKOFF"}

JournalExplainsRecord ==
    LET last == record.events[Sequence(record)]
    IN  record.events # <<>> =>
            /\ last.status = record.status
            /\ last.type = "WORK_CLAIM" <=> record.owner # NoOwner
            /\ Cardinality(BackoffsCharged(record.events)) = record.retry

(***************************************************************************)
(* The record moves as CampaignLifecycle says: every save, claim and       *)
(* recovery is one operation on the latest version of the record.          *)
(***************************************************************************)
Lifecycle == INSTANCE CampaignLifecycle
LifecycleSpec == Lifecycle!Spec

(***************************************************************************)
(* Why all this holds: what each process and each file may still hold.     *)
(***************************************************************************)
\* An older version of the record than the stored one, or the stored one.
Behind(rec) ==
    /\ Sequence(rec) <= Sequence(record)
    /\ Sequence(rec) = Sequence(record) => rec = record

LeaseOnlyWhileRunning(rec) == rec.owner # NoOwner => rec.status = "RUNNING"

\* The operation lock is held by the one runner that is inside a call.
LockHeld == \A r \in Runners : pc[r] # "idle" <=> opLock = r

\* A runner between two sections: its copy, and what it derives from it.
RunnerCopy(r) ==
    /\ pc[r] \in {"probe", "work", "wake", "result", "retry"} =>
        /\ seen[r] \in Record
        /\ Behind(seen[r])
        /\ LeaseOnlyWhileRunning(seen[r])
    /\ pc[r] = "probe" => Waiting(seen[r])
    /\ pc[r] = "wake" => Waiting(seen[r]) /\ out[r] = Woken(seen[r])
    /\ pc[r] \in {"work", "result"} => seen[r].owner = r
    /\ pc[r] = "result" =>
        \/ \E outcome \in StepOutcomes : out[r] = Stepped(seen[r], outcome)
        \/ \E wait \in StepWaits : out[r] = Parked(seen[r], wait)
    /\ pc[r] = "retry" => ~Terminal(seen[r]) /\ out[r] = Retried(seen[r])

RunnerCopies == \A r \in Runners : RunnerCopy(r)

OperatorCopy(o) ==
    call[o] # "idle" =>
        /\ read[o] \in Record
        /\ Behind(read[o])
        /\ call[o] = "reset" =>
            /\ read[o].status = "RETRY_BACKOFF"
            /\ \E note \in Notes : intent[o] = ResetRetry(read[o], note)
        /\ call[o] = "invalidate" =>
            /\ ~Terminal(read[o])
            /\ \E note \in Notes : intent[o] = Invalidated(read[o], note)

OperatorCopies == \A o \in Operators : OperatorCopy(o)

DeferredCopy ==
    deferred # NoCopy =>
        /\ Behind(deferred.before)
        /\ ~Terminal(deferred.before)
        /\ deferred.after = Retried(deferred.before)

\* Nobody can put a campaign back to waiting between its wake and its claim.
ClaimableOrOver ==
    \A r \in Runners : pc[r] = "claim" => record.status = "RUNNING" \/ Terminal(record)

CopiesInv ==
    /\ LeaseOnlyWhileRunning(record)
    /\ LockHeld
    /\ RunnerCopies
    /\ OperatorCopies
    /\ DeferredCopy
    /\ ClaimableOrOver
    /\ WorkerOwnsRecord

(***************************************************************************)
(* The campaign comes to an end or fills its journal: no wait, no lease of *)
(* a dead worker and no deferred retry holds it forever.  The one way to   *)
(* stop is the documented one (docs/OBJECTIVE_ACCEPTANCE.md): evidence     *)
(* that fits neither version blocks, and reset_retry can bring that about. *)
(***************************************************************************)
Ended == Terminal(record) \/ Sequence(record) >= MaxEvents

ConflictingEvidence ==
    deferred # NoCopy /\ record \notin {deferred.before, deferred.after}

EventuallyEnds == <>(Ended \/ ConflictingEvidence)

-----------------------------------------------------------------------------
(* What the documentation says and the code does not do.                   *)

\* docs/PERSISTENT_CAMPAIGN_RUNNER.md:24, "append-only bounded event journal":
\* claim writes one event more than any later load accepts.
JournalBounded == Sequence(record) <= MaxEvents
=============================================================================
