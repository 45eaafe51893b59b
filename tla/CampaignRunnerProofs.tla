------------------------ MODULE CampaignRunnerProofs ------------------------
(***************************************************************************)
(* What CampaignRunner keeps for every number of runners and operators,    *)
(* every retry budget, journal bound and number of faults.                 *)
(*                                                                         *)
(* TypeOK and CopiesInv are inductive together.  From them, every step is  *)
(* a step of CampaignLifecycle on the record or leaves it alone            *)
(* (StepIsOperation); the action properties follow from that alone.        *)
(*                                                                         *)
(* The second part is about the other loop over a persisted state, the     *)
(* Scheduler, for any clients, humans, roadmap and budget.                 *)
(*                                                                         *)
(* The third part is about the campaigns that drive a governed session,    *)
(* for any campaigns, tasks and bounds.                                    *)
(***************************************************************************)
EXTENDS CampaignRunner, Scheduler, GovernedCampaign, FiniteSetTheorems, TLAPS

USE DEF Sequence

Operation(rec, new) ==
    /\ new \in Record
    /\ Sequence(new) = Sequence(rec) + 1
    /\ \E e \in Event : new.events = Append(rec.events, e)
    /\ LeaseOnlyWhileRunning(new)

\* Appending keeps a record a record, one event longer and otherwise the same.
LEMMA AppendedRecord ==
    ASSUME NEW rec \in Record, NEW type \in EventTypes, NEW status \in Statuses,
           NEW note \in Notes \cup {RunnerNote}
    PROVE  LET new == Appended(rec, type, status, note)
           IN  /\ new \in Record
               /\ Len(new.events) = Len(rec.events) + 1
               /\ \E e \in Event : new.events = Append(rec.events, e)
               /\ new.status = rec.status
               /\ new.owner = rec.owner
               /\ new.retry = rec.retry
<1> DEFINE e == [type |-> type, status |-> status, note |-> note]
           new == Appended(rec, type, status, note)
<1>1. e \in Event
  BY DEF Event
<1>2. rec.events \in Seq(Event)
  BY DEF Record
<1>3. Append(rec.events, e) \in Seq(Event) /\ Len(Append(rec.events, e)) = Len(rec.events) + 1
  BY <1>1, <1>2
<1>4. new = [rec EXCEPT !.events = Append(rec.events, e)]
  BY DEF Appended, Record
<1> HIDE DEF e
<1>5. new.events = Append(rec.events, e)
  BY <1>4 DEF Record
<1>6. new \in Record /\ new.status = rec.status /\ new.owner = rec.owner /\ new.retry = rec.retry
  BY <1>3, <1>4 DEF Record
<1> QED
  BY <1>1, <1>3, <1>5, <1>6

\* The statuses fall into three separate kinds.
LEMMA StatusKinds ==
    /\ WAITING_STATUSES \subseteq Statuses
    /\ TERMINAL_STATUSES \subseteq Statuses
    /\ WAITING_STATUSES \cap TERMINAL_STATUSES = {}
    /\ "RUNNING" \in Statuses \ (WAITING_STATUSES \cup TERMINAL_STATUSES)
    /\ "RETRY_BACKOFF" \in WAITING_STATUSES
    /\ "WAITING_EXTERNAL" \in WAITING_STATUSES
    /\ "BLOCKED_NON_RETRYABLE" \in TERMINAL_STATUSES
BY DEF WAITING_STATUSES, TERMINAL_STATUSES, Statuses

\* A wake is one operation; the campaign is RUNNING after it.
LEMMA WokenRecord ==
    ASSUME NEW rec \in Record, Waiting(rec)
    PROVE  Operation(rec, Woken(rec)) /\ Woken(rec).status = "RUNNING"
<1> DEFINE new == Appended(rec, "WAKE", "RUNNING", RunnerNote)
<1>1. "WAKE" \in EventTypes /\ "RUNNING" \in Statuses /\ RunnerNote \in Notes \cup {RunnerNote}
  BY StatusKinds DEF EventTypes
<1>2. /\ new \in Record
      /\ Len(new.events) = Len(rec.events) + 1
      /\ \E e \in Event : new.events = Append(rec.events, e)
  BY <1>1, AppendedRecord
<1>3. Woken(rec) = [new EXCEPT !.status = "RUNNING"]
  BY DEF Woken
<1> HIDE DEF new
<1> QED
  BY <1>1, <1>2, <1>3 DEF Record, Operation, LeaseOnlyWhileRunning

\* A claim is one operation; it changes the owner only.
LEMMA ClaimedRecord ==
    ASSUME NEW rec \in Record, NEW r \in Runners, rec.status = "RUNNING"
    PROVE  /\ Operation(rec, Claimed(rec, r))
           /\ Claimed(rec, r).status = "RUNNING"
           /\ Claimed(rec, r).owner = r
<1> DEFINE new == Appended(rec, "WORK_CLAIM", rec.status, RunnerNote)
<1>1. "WORK_CLAIM" \in EventTypes /\ rec.status \in Statuses /\ RunnerNote \in Notes \cup {RunnerNote}
  BY DEF EventTypes, Record
<1>2. /\ new \in Record
      /\ Len(new.events) = Len(rec.events) + 1
      /\ \E e \in Event : new.events = Append(rec.events, e)
      /\ new.status = rec.status
  BY <1>1, AppendedRecord
<1>3. Claimed(rec, r) = [new EXCEPT !.owner = r]
  BY DEF Claimed
<1> HIDE DEF new
<1> QED
  BY <1>1, <1>2, <1>3 DEF Record, Operation, LeaseOnlyWhileRunning

\* A wait is one operation; it releases the lease.
LEMMA ParkedRecord ==
    ASSUME NEW rec \in Record, NEW wait \in StepWaits
    PROVE  Operation(rec, Parked(rec, wait))
<1> DEFINE new == Appended(rec, "WAIT", wait, RunnerNote)
<1>1. "WAIT" \in EventTypes /\ wait \in Statuses /\ RunnerNote \in Notes \cup {RunnerNote}
  BY StatusKinds, StepWaitsAssumption DEF EventTypes
<1>2. /\ new \in Record
      /\ Len(new.events) = Len(rec.events) + 1
      /\ \E e \in Event : new.events = Append(rec.events, e)
  BY <1>1, AppendedRecord
<1>3. Parked(rec, wait) = [new EXCEPT !.status = wait, !.owner = NoOwner]
  BY DEF Parked
<1> HIDE DEF new
<1> QED
  BY <1>1, <1>2, <1>3 DEF Record, Operation, LeaseOnlyWhileRunning

\* A step's result is one operation; it releases the lease.
LEMMA SteppedRecord ==
    ASSUME NEW rec \in Record, NEW outcome \in StepOutcomes
    PROVE  Operation(rec, Stepped(rec, outcome))
<1> DEFINE next == Target(outcome)
           new == Appended(rec, "STEP", next, RunnerNote)
<1>1. "STEP" \in EventTypes /\ next \in Statuses /\ RunnerNote \in Notes \cup {RunnerNote}
  BY StatusKinds, StepOutcomesAssumption DEF EventTypes, Target
<1>2. /\ new \in Record
      /\ Len(new.events) = Len(rec.events) + 1
      /\ \E e \in Event : new.events = Append(rec.events, e)
  BY <1>1, AppendedRecord
<1>3. Stepped(rec, outcome) = [new EXCEPT !.status = next, !.owner = NoOwner]
  BY DEF Stepped
<1> HIDE DEF new, next
<1> QED
  BY <1>1, <1>2, <1>3 DEF Record, Operation, LeaseOnlyWhileRunning

\* A retry, in the budget or not, is one operation; it releases the lease.
LEMMA RetriedRecord ==
    ASSUME NEW rec \in Record
    PROVE  Operation(rec, Retried(rec))
<1> DEFINE backoff == Appended(rec, "RETRY_BACKOFF", "RETRY_BACKOFF", RunnerNote)
           blocked == Appended(rec, "RETRY_EXHAUSTED", "BLOCKED_NON_RETRYABLE", RunnerNote)
<1>1. /\ {"RETRY_BACKOFF", "RETRY_EXHAUSTED"} \subseteq EventTypes
      /\ {"RETRY_BACKOFF", "BLOCKED_NON_RETRYABLE"} \subseteq Statuses
      /\ RunnerNote \in Notes \cup {RunnerNote}
  BY StatusKinds DEF EventTypes
<1>2. /\ backoff \in Record
      /\ Len(backoff.events) = Len(rec.events) + 1
      /\ \E e \in Event : backoff.events = Append(rec.events, e)
  BY <1>1, AppendedRecord
<1>6. /\ blocked \in Record
      /\ Len(blocked.events) = Len(rec.events) + 1
      /\ \E e \in Event : blocked.events = Append(rec.events, e)
  BY <1>1, AppendedRecord
<1>3. /\ BackedOff(rec) = [backoff EXCEPT !.status = "RETRY_BACKOFF", !.retry = @ + 1,
                                          !.owner = NoOwner]
      /\ Exhausted(rec) = [blocked EXCEPT !.status = "BLOCKED_NON_RETRYABLE",
                                          !.owner = NoOwner]
  BY DEF BackedOff, Exhausted
<1> HIDE DEF backoff, blocked
<1>4. Operation(rec, BackedOff(rec))
  <2>1. backoff.retry + 1 \in Nat
    BY <1>2 DEF Record
  <2>2. BackedOff(rec) \in Record
    BY <1>1, <1>2, <1>3, <2>1 DEF Record
  <2>3. BackedOff(rec).events = backoff.events
    BY <1>2, <1>3 DEF Record
  <2>4. BackedOff(rec).owner = NoOwner
    BY <1>2, <1>3 DEF Record
  <2> QED
    BY <1>2, <2>2, <2>3, <2>4 DEF Operation, LeaseOnlyWhileRunning
<1>5. Operation(rec, Exhausted(rec))
  BY <1>1, <1>6, <1>3 DEF Record, Operation, LeaseOnlyWhileRunning
<1> QED
  BY <1>4, <1>5 DEF Retried

\* A reset is one operation; the campaign waits after it.
LEMMA ResetRecord ==
    ASSUME NEW rec \in Record, NEW note \in Notes
    PROVE  Operation(rec, ResetRetry(rec, note)) /\ Waiting(ResetRetry(rec, note))
<1> DEFINE new == Appended(rec, "RETRY_RESET", "WAITING_EXTERNAL", note)
<1>1. "RETRY_RESET" \in EventTypes /\ "WAITING_EXTERNAL" \in Statuses
  BY StatusKinds DEF EventTypes
<1>2. /\ new \in Record
      /\ Len(new.events) = Len(rec.events) + 1
      /\ \E e \in Event : new.events = Append(rec.events, e)
  BY <1>1, AppendedRecord
<1>3. ResetRetry(rec, note) = [new EXCEPT !.status = "WAITING_EXTERNAL", !.retry = 0,
                                          !.owner = NoOwner]
  BY DEF ResetRetry
<1> HIDE DEF new
<1>4. Operation(rec, ResetRetry(rec, note))
  <2>1. ResetRetry(rec, note) \in Record
    <3>1. [new EXCEPT !.status = "WAITING_EXTERNAL"] \in Record
      BY <1>1, <1>2 DEF Record
    <3>2. [new EXCEPT !.status = "WAITING_EXTERNAL", !.retry = 0] \in Record
      BY <3>1 DEF Record
    <3> QED
      BY <3>2, <1>3 DEF Record
  <2>2. ResetRetry(rec, note).events = new.events
    BY <1>2, <1>3 DEF Record
  <2>3. ResetRetry(rec, note).owner = NoOwner
    BY <1>2, <1>3 DEF Record
  <2> QED
    BY <1>2, <2>1, <2>2, <2>3 DEF Operation, LeaseOnlyWhileRunning
<1>5. ResetRetry(rec, note).status = "WAITING_EXTERNAL"
  BY <1>2, <1>3 DEF Record
<1> QED
  BY <1>4, <1>5, StatusKinds DEF Waiting

\* An invalidation is one operation; the campaign is over after it.
LEMMA InvalidatedRecord ==
    ASSUME NEW rec \in Record, NEW note \in Notes
    PROVE  Operation(rec, Invalidated(rec, note)) /\ Terminal(Invalidated(rec, note))
<1> DEFINE new == Appended(rec, "STALE_BINDING", "BLOCKED_NON_RETRYABLE", note)
<1>1. "STALE_BINDING" \in EventTypes /\ "BLOCKED_NON_RETRYABLE" \in Statuses
  BY StatusKinds DEF EventTypes
<1>2. /\ new \in Record
      /\ Len(new.events) = Len(rec.events) + 1
      /\ \E e \in Event : new.events = Append(rec.events, e)
  BY <1>1, AppendedRecord
<1>3. Invalidated(rec, note) = [new EXCEPT !.status = "BLOCKED_NON_RETRYABLE",
                                           !.owner = NoOwner]
  BY DEF Invalidated
<1> HIDE DEF new
<1>4. Operation(rec, Invalidated(rec, note))
  BY <1>1, <1>2, <1>3 DEF Record, Operation, LeaseOnlyWhileRunning
<1>5. Invalidated(rec, note).status = "BLOCKED_NON_RETRYABLE"
  BY <1>2, <1>3 DEF Record
<1> QED
  BY <1>4, <1>5, StatusKinds DEF Terminal

-----------------------------------------------------------------------------
(***************************************************************************)
(* A save that is accepted and changes something is computed from the      *)
(* stored record: an older copy yields a sequence number too small.        *)
(***************************************************************************)
LEMMA AcceptedIsCurrent ==
    ASSUME record \in Record, NEW copy \in Record, NEW new,
           Behind(copy), Operation(copy, new), Accepts(new), new # record
    PROVE  copy = record
<1>1. Sequence(record) \in Nat /\ Sequence(copy) \in Nat
  BY DEF Record
<1>2. Sequence(new) > Sequence(record)
  BY DEF Accepts
<1>3. Sequence(copy) >= Sequence(record)
  BY <1>1, <1>2 DEF Operation
<1> QED
  BY <1>1, <1>3 DEF Behind

(***************************************************************************)
(* A copy stays behind whatever one operation does to the record.          *)
(***************************************************************************)
LEMMA StaysBehind ==
    ASSUME record \in Record, NEW copy \in Record, Behind(copy),
           record' = record \/ Operation(record, record')
    PROVE  Behind(copy)'
<1>1. CASE record' = record
  BY <1>1 DEF Behind
<1>2. CASE Operation(record, record')
  <2>1. Sequence(record) \in Nat /\ Sequence(copy) \in Nat
    BY DEF Record
  <2>2. Sequence(copy) < Sequence(record')
    BY <1>2, <2>1 DEF Behind, Operation
  <2> QED
    BY <2>1, <2>2 DEF Behind
<1> QED
  BY <1>1, <1>2

-----------------------------------------------------------------------------
(***************************************************************************)
(* The refinement: every step is an operation of CampaignLifecycle.        *)
(***************************************************************************)

\* CampaignLifecycle brings its own instance of the record functions.
LEMMA SameRecordFunctions ==
    /\ Lifecycle!WAITING_STATUSES = WAITING_STATUSES
    /\ Lifecycle!TERMINAL_STATUSES = TERMINAL_STATUSES
    /\ \A rec : Lifecycle!Waiting(rec) = Waiting(rec)
    /\ \A rec : Lifecycle!Terminal(rec) = Terminal(rec)
    /\ \A rec : Lifecycle!Woken(rec) = Woken(rec)
    /\ \A rec, r : Lifecycle!Claimed(rec, r) = Claimed(rec, r)
    /\ \A rec, wait : Lifecycle!Parked(rec, wait) = Parked(rec, wait)
    /\ \A rec, outcome : Lifecycle!Stepped(rec, outcome) = Stepped(rec, outcome)
    /\ \A rec : Lifecycle!Retried(rec) = Retried(rec)
    /\ \A rec, note : Lifecycle!ResetRetry(rec, note) = ResetRetry(rec, note)
    /\ \A rec, note : Lifecycle!Invalidated(rec, note) = Invalidated(rec, note)
<1>1. \A rec, type, status, note :
        Lifecycle!Appended(rec, type, status, note) = Appended(rec, type, status, note)
  BY DEF Lifecycle!Appended, Appended
<1>2. Lifecycle!RunnerNote = RunnerNote
  BY DEF Lifecycle!RunnerNote, RunnerNote
<1>3. /\ Lifecycle!WAITING_STATUSES = WAITING_STATUSES
      /\ Lifecycle!TERMINAL_STATUSES = TERMINAL_STATUSES
  BY DEF Lifecycle!WAITING_STATUSES, WAITING_STATUSES,
         Lifecycle!TERMINAL_STATUSES, TERMINAL_STATUSES
<1>4. \A rec : Lifecycle!Waiting(rec) = Waiting(rec)
  BY <1>3, Zenon DEF Lifecycle!Waiting, Waiting
<1>5. \A rec : Lifecycle!Terminal(rec) = Terminal(rec)
  BY <1>3, Zenon DEF Lifecycle!Terminal, Terminal
<1>6. \A rec : Lifecycle!Woken(rec) = Woken(rec)
  BY <1>1, <1>2, Zenon DEF Lifecycle!Woken, Woken
<1>7. \A rec, r : Lifecycle!Claimed(rec, r) = Claimed(rec, r)
  BY <1>1, <1>2, Zenon DEF Lifecycle!Claimed, Claimed
<1>8. \A rec, wait : Lifecycle!Parked(rec, wait) = Parked(rec, wait)
  BY <1>1, <1>2, Zenon DEF Lifecycle!Parked, Parked
<1>9. \A rec, outcome : Lifecycle!Stepped(rec, outcome) = Stepped(rec, outcome)
  BY <1>1, <1>2, Zenon DEF Lifecycle!Stepped, Stepped, Lifecycle!Target, Target
<1>10. \A rec : Lifecycle!Retried(rec) = Retried(rec)
  BY <1>1, <1>2, Zenon DEF Lifecycle!Retried, Retried, Lifecycle!BackedOff, BackedOff,
     Lifecycle!Exhausted, Exhausted
<1>11. \A rec, note : Lifecycle!ResetRetry(rec, note) = ResetRetry(rec, note)
  BY <1>1, <1>2, Zenon DEF Lifecycle!ResetRetry, ResetRetry
<1>12. \A rec, note : Lifecycle!Invalidated(rec, note) = Invalidated(rec, note)
  BY <1>1, <1>2, Zenon DEF Lifecycle!Invalidated, Invalidated
<1> QED
  BY <1>3, <1>4, <1>5, <1>6, <1>7, <1>8, <1>9, <1>10, <1>11, <1>12

\* Each operation of the abstract specification appends one event to a record
\* that is not terminal.
LEMMA LifecycleStep ==
    ASSUME record \in Record, Lifecycle!Next
    PROVE  Operation(record, record') /\ ~Terminal(record)
<1> USE SameRecordFunctions, StatusKinds
<1>1. CASE Lifecycle!Wake
  BY <1>1, WokenRecord DEF Lifecycle!Wake, Waiting, Terminal
<1>2. CASE Lifecycle!Claim
  BY <1>2, ClaimedRecord DEF Lifecycle!Claim, Terminal
<1>3. CASE Lifecycle!Finish
  BY <1>3, ParkedRecord, SteppedRecord DEF Lifecycle!Finish, Terminal
<1>4. CASE Lifecycle!Retry
  BY <1>4, RetriedRecord DEF Lifecycle!Retry
<1>5. CASE Lifecycle!Reset
  BY <1>5, ResetRecord DEF Lifecycle!Reset, Terminal
<1>6. CASE Lifecycle!Invalidate
  BY <1>6, InvalidatedRecord DEF Lifecycle!Invalidate
<1> QED
  BY <1>1, <1>2, <1>3, <1>4, <1>5, <1>6 DEF Lifecycle!Next

\* What an accepted save of a derived record makes of the stored one.
LEMMA SaveIsCurrent ==
    ASSUME record \in Record, NEW copy \in Record, NEW new, NEW isDue,
           Behind(copy), Operation(copy, new), Save(new, isDue)
    PROVE  \/ record' = record
           \/ record' = new /\ copy = record
<1>1. CASE new = record
  BY <1>1 DEF Save, recordVars
<1>2. CASE new # record
  <2>1. record' = new /\ Accepts(new)
    BY <1>2 DEF Save, Write
  <2>2. copy = record
    BY <1>2, <2>1, AcceptedIsCurrent
  <2> QED
    BY <2>1, <2>2
<1> QED
  BY <1>1, <1>2

\* A recovery saves the deferred retry over the very record it was computed from.
LEMMA ApplyDeferredIsRetry ==
    ASSUME CopiesInv, deferred # NoCopy, ApplyDeferred
    PROVE  Lifecycle!Retry
<1>1. record = deferred.before /\ record' = deferred.after
  BY DEF ApplyDeferred, Write
<1>2. ~Terminal(deferred.before) /\ deferred.after = Retried(deferred.before)
  BY DEF CopiesInv, DeferredCopy
<1> QED
  BY <1>1, <1>2, SameRecordFunctions DEF Lifecycle!Retry

(***************************************************************************)
(* Every step of the runner is an operation of CampaignLifecycle on the    *)
(* stored record, or leaves the record alone.                              *)
(***************************************************************************)
LEMMA StepIsOperation ==
    ASSUME TypeOK, CopiesInv, Next
    PROVE  record' = record \/ Lifecycle!Next
<1> USE SameRecordFunctions
<1>0. record \in Record
  BY DEF TypeOK
<1>1. ASSUME NEW r \in Runners, RunnerStep(r) \/ RunnerFault(r)
      PROVE  record' = record \/ Lifecycle!Next
  <2>0. /\ pc[r] \in {"probe", "work", "wake", "result", "retry"} =>
             seen[r] \in Record /\ Behind(seen[r]) /\ LeaseOnlyWhileRunning(seen[r])
        /\ pc[r] = "wake" => Waiting(seen[r]) /\ out[r] = Woken(seen[r])
        /\ pc[r] = "result" => seen[r].owner = r
        /\ pc[r] = "result" =>
            \/ \E outcome \in StepOutcomes : out[r] = Stepped(seen[r], outcome)
            \/ \E wait \in StepWaits : out[r] = Parked(seen[r], wait)
        /\ pc[r] = "retry" => ~Terminal(seen[r]) /\ out[r] = Retried(seen[r])
        /\ pc[r] = "claim" => record.status = "RUNNING" \/ Terminal(record)
    BY DEF CopiesInv, RunnerCopies, RunnerCopy, ClaimableOrOver
  <2>1. CASE \/ Enter(r) \/ RecoverNothing(r) \/ RecoverConflict(r)
             \/ LoadReturns(r) \/ LoadDueWait(r) \/ LoadRunning(r) \/ ScheduleRetry(r)
             \/ Probe(r) \/ ClaimReturns(r) \/ Work(r) \/ SaveRefused(r)
             \/ Defer(r) \/ Abort(r)
    BY <2>1 DEF Enter, RecoverNothing, RecoverConflict, LoadReturns, LoadDueWait,
       LoadRunning, ScheduleRetry, Probe, ClaimReturns, Work, SaveRefused, Defer, Abort,
       recordVars
  <2>2. CASE RecoverDeferred(r)
    <3>1. deferred # NoCopy /\ (ApplyDeferred \/ record' = record)
      BY <2>2 DEF RecoverDeferred, recordVars
    <3> QED
      BY <3>1, ApplyDeferredIsRetry DEF Lifecycle!Next
  <2>3. CASE CrashInRecovery(r)
    BY <2>3, ApplyDeferredIsRetry DEF CrashInRecovery, Lifecycle!Next
  <2>4. CASE SaveWake(r)
    <3>1. pc[r] = "wake" /\ Save(out[r], FALSE)
      BY <2>4 DEF SaveWake
    <3>2. Operation(seen[r], out[r])
      BY <2>0, <3>1, WokenRecord
    <3>3. record' = record \/ (record' = out[r] /\ seen[r] = record)
      BY <1>0, <2>0, <3>1, <3>2, SaveIsCurrent
    <3> QED
      BY <2>0, <3>1, <3>3 DEF Lifecycle!Next, Lifecycle!Wake
  <2>5. CASE Claim(r)
    <3>1. pc[r] = "claim" /\ ~Terminal(record) /\ record' = Claimed(record, r)
      BY <2>5 DEF Claim, Write
    <3>2. record.status = "RUNNING"
      BY <2>0, <3>1
    <3> QED
      BY <3>1, <3>2 DEF Lifecycle!Next, Lifecycle!Claim
  <2>6. CASE SaveResult(r)
    <3>1. PICK isDue \in BOOLEAN : Save(out[r], isDue)
      BY <2>6 DEF SaveResult
    <3>2. pc[r] = "result"
      BY <2>6 DEF SaveResult
    <3>3. Operation(seen[r], out[r])
      BY <2>0, <3>2, SteppedRecord, ParkedRecord
    <3>4. record' = record \/ (record' = out[r] /\ seen[r] = record)
      BY <1>0, <2>0, <3>1, <3>2, <3>3, SaveIsCurrent
    <3>5. seen[r].owner # NoOwner /\ seen[r].status = "RUNNING"
      BY <2>0, <3>2, RunnerAssumption DEF LeaseOnlyWhileRunning
    <3> QED
      BY <2>0, <3>2, <3>4, <3>5 DEF Lifecycle!Next, Lifecycle!Finish
  <2>7. CASE SaveRetry(r)
    <3>1. pc[r] = "retry" /\ Save(out[r], FALSE)
      BY <2>7 DEF SaveRetry
    <3>2. Operation(seen[r], out[r])
      BY <2>0, <3>1, RetriedRecord
    <3>3. record' = record \/ (record' = out[r] /\ seen[r] = record)
      BY <1>0, <2>0, <3>1, <3>2, SaveIsCurrent
    <3> QED
      BY <2>0, <3>1, <3>3 DEF Lifecycle!Next, Lifecycle!Retry
  <2> QED
    BY <1>1, <2>1, <2>2, <2>3, <2>4, <2>5, <2>6, <2>7 DEF RunnerStep, RunnerFault
<1>2. ASSUME NEW o \in Operators, OperatorStep(o)
      PROVE  record' = record \/ Lifecycle!Next
  <2>1. CASE BeginReset(o) \/ BeginInvalidate(o) \/ CallRefused(o) \/ AbortCall(o)
    BY <2>1 DEF BeginReset, BeginInvalidate, CallRefused, AbortCall, recordVars
  <2>2. CASE SaveCall(o)
    <3>1. call[o] # "idle" /\ Save(intent[o], Waiting(intent[o]))
      BY <2>2 DEF SaveCall
    <3>2. read[o] \in Record /\ Behind(read[o])
      BY <3>1 DEF CopiesInv, OperatorCopies, OperatorCopy
    <3>3. CASE call[o] = "reset"
      <4>1. PICK note \in Notes : intent[o] = ResetRetry(read[o], note)
        BY <3>1, <3>3 DEF CopiesInv, OperatorCopies, OperatorCopy
      <4>2. read[o].status = "RETRY_BACKOFF"
        BY <3>1, <3>3 DEF CopiesInv, OperatorCopies, OperatorCopy
      <4>3. Operation(read[o], intent[o])
        BY <3>2, <4>1, ResetRecord
      <4>4. record' = record \/ (record' = intent[o] /\ read[o] = record)
        BY <1>0, <3>1, <3>2, <4>3, SaveIsCurrent
      <4> QED
        BY <4>1, <4>2, <4>4 DEF Lifecycle!Next, Lifecycle!Reset
    <3>4. CASE call[o] = "invalidate"
      <4>1. PICK note \in Notes : intent[o] = Invalidated(read[o], note)
        BY <3>1, <3>4 DEF CopiesInv, OperatorCopies, OperatorCopy
      <4>2. ~Terminal(read[o])
        BY <3>1, <3>4 DEF CopiesInv, OperatorCopies, OperatorCopy
      <4>3. Operation(read[o], intent[o])
        BY <3>2, <4>1, InvalidatedRecord
      <4>4. record' = record \/ (record' = intent[o] /\ read[o] = record)
        BY <1>0, <3>1, <3>2, <4>3, SaveIsCurrent
      <4> QED
        BY <4>1, <4>2, <4>4 DEF Lifecycle!Next, Lifecycle!Invalidate
    <3> QED
      BY <3>1, <3>3, <3>4 DEF TypeOK
  <2> QED
    BY <1>2, <2>1, <2>2 DEF OperatorStep
<1>3. CASE Clock
  BY <1>3 DEF Clock, CheckFallsDue, LeaseExpires
<1> QED
  BY <1>1, <1>2, <1>3 DEF Next

-----------------------------------------------------------------------------
(***************************************************************************)
(* The types.                                                              *)
(***************************************************************************)
LEMMA RecordStep ==
    ASSUME TypeOK, CopiesInv, [Next]_vars
    PROVE  record' = record \/ (Operation(record, record') /\ ~Terminal(record))
<1>1. CASE Next
  BY <1>1, StepIsOperation, LifecycleStep DEF TypeOK
<1>2. CASE UNCHANGED vars
  BY <1>2 DEF vars
<1> QED
  BY <1>1, <1>2

\* Leaving a call and submitting a record keep the runner variables typed.
LEMMA LeaveTyped ==
    ASSUME TypeOK, NEW r \in Runners, Leave(r)
    PROVE  /\ opLock' \in Runners \cup {NoOwner}
           /\ pc' \in [Runners -> Labels]
           /\ seen' \in [Runners -> Record \cup {NoCopy}]
           /\ out' \in [Runners -> Record \cup {NoCopy}]
<1> "idle" \in Labels
  BY DEF Labels
<1> QED
  BY DEF TypeOK, Leave, Goto

LEMMA SubmitTyped ==
    ASSUME TypeOK, NEW r \in Runners, NEW copy \in Record, NEW rec \in Record,
           NEW label \in Labels, Submit(r, copy, rec, label)
    PROVE  /\ opLock' \in Runners \cup {NoOwner}
           /\ pc' \in [Runners -> Labels]
           /\ seen' \in [Runners -> Record \cup {NoCopy}]
           /\ out' \in [Runners -> Record \cup {NoCopy}]
BY DEF TypeOK, Submit, Goto

LEMMA GotoTyped ==
    ASSUME TypeOK, NEW r \in Runners, NEW label \in Labels, Goto(r, label)
    PROVE  pc' \in [Runners -> Labels]
BY DEF TypeOK, Goto

LEMMA CallTyped ==
    ASSUME TypeOK, NEW o \in Operators,
           \/ End(o)
           \/ \E name \in {"reset", "invalidate"}, rec \in Record : Begin(o, name, rec)
    PROVE  /\ call' \in [Operators -> {"idle", "reset", "invalidate"}]
           /\ read' \in [Operators -> Record \cup {NoCopy}]
           /\ intent' \in [Operators -> Record \cup {NoCopy}]
BY DEF TypeOK, Begin, End

LEMMA SaveTyped ==
    ASSUME TypeOK, NEW rec, NEW isDue \in BOOLEAN, Save(rec, isDue)
    PROVE  due' \in BOOLEAN /\ expired' \in BOOLEAN
<1>1. CASE rec = record
  BY <1>1 DEF Save, TypeOK, recordVars
<1>2. CASE rec # record
  BY <1>2 DEF Save, TypeOK, Write
<1> QED
  BY <1>1, <1>2

LEMMA ApplyDeferredTyped ==
    ASSUME ApplyDeferred
    PROVE  due' \in BOOLEAN /\ expired' \in BOOLEAN
BY DEF ApplyDeferred, Write

LEMMA InitTypeOK ==
    ASSUME Init
    PROVE  TypeOK
<1>1. InitialRecord \in Record
  BY StatusKinds DEF InitialRecord, Record
<1>2. 0 \in 0 .. MaxFaults
  BY MaxFaultsAssumption
<1>3. /\ record \in Record
      /\ deferred \in [before : Record, after : Record] \cup {NoCopy}
      /\ pc \in [Runners -> Labels]
      /\ call \in [Operators -> {"idle", "reset", "invalidate"}]
  BY <1>1 DEF Init, Labels
<1>4. /\ seen \in [Runners -> Record \cup {NoCopy}]
      /\ out \in [Runners -> Record \cup {NoCopy}]
      /\ read \in [Operators -> Record \cup {NoCopy}]
      /\ intent \in [Operators -> Record \cup {NoCopy}]
  BY DEF Init
<1> QED
  BY <1>2, <1>3, <1>4 DEF Init, TypeOK

\* The types after a runner's step.
LEMMA RunnerTypeOK ==
    ASSUME TypeOK, CopiesInv, NEW r \in Runners, RunnerStep(r) \/ RunnerFault(r),
           record' \in Record
    PROVE  TypeOK'
<1> USE DEF operatorVars, recordVars
<1>0. /\ {"idle", "recover", "load", "probe", "wake", "claim", "work", "result", "retry"}
            \subseteq Labels
      /\ pc[r] \in {"probe", "work", "wake", "result", "retry"} => seen[r] \in Record
      /\ pc[r] = "probe" => Waiting(seen[r])
      /\ pc[r] = "retry" => out[r] = Retried(seen[r])
  BY DEF Labels, CopiesInv, RunnerCopies, RunnerCopy
<1>a. /\ record \in Record
      /\ \A rec \in Record : Retried(rec) \in Record
      /\ \A rec \in Record : Waiting(rec) => Woken(rec) \in Record
      /\ \A rec \in Record, outcome \in StepOutcomes : Stepped(rec, outcome) \in Record
      /\ \A rec \in Record, wait \in StepWaits : Parked(rec, wait) \in Record
  BY RetriedRecord, WokenRecord, SteppedRecord, ParkedRecord DEF Operation, TypeOK
<1>1. CASE Enter(r)
  BY <1>0, <1>1, GotoTyped DEF Enter, TypeOK
<1>2. CASE RecoverNothing(r) \/ LoadRunning(r)
  BY <1>0, <1>2, GotoTyped DEF RecoverNothing, LoadRunning, TypeOK
<1>3. CASE RecoverDeferred(r)
  <2>1. due' \in BOOLEAN /\ expired' \in BOOLEAN
    BY <1>3, ApplyDeferredTyped DEF RecoverDeferred, TypeOK
  <2> QED
    BY <1>0, <1>3, <2>1, GotoTyped DEF RecoverDeferred, TypeOK
<1>4. CASE RecoverConflict(r) \/ LoadReturns(r) \/ ClaimReturns(r) \/ SaveRefused(r)
  BY <1>4, LeaveTyped DEF RecoverConflict, LoadReturns, ClaimReturns, SaveRefused, TypeOK
<1>5. CASE LoadDueWait(r)
  <2>1. seen' \in [Runners -> Record \cup {NoCopy}]
    BY <1>a, <1>5 DEF LoadDueWait, TypeOK
  <2> QED
    BY <1>0, <1>5, <2>1, GotoTyped DEF LoadDueWait, TypeOK
<1>6. CASE ScheduleRetry(r)
  BY <1>0, <1>a, <1>6, SubmitTyped DEF ScheduleRetry, TypeOK
<1>7. CASE Probe(r)
  BY <1>0, <1>a, <1>7, SubmitTyped DEF Probe, TypeOK
<1>8. CASE SaveWake(r)
  <2>1. seen' \in [Runners -> Record \cup {NoCopy}] /\ out' \in [Runners -> Record \cup {NoCopy}]
    BY <1>8 DEF SaveWake, TypeOK
  <2>2. due' \in BOOLEAN /\ expired' \in BOOLEAN
    BY <1>8, SaveTyped DEF SaveWake
  <2> QED
    BY <1>0, <1>8, <2>1, <2>2, GotoTyped DEF SaveWake, TypeOK
<1>9. CASE Claim(r)
  <2>1. seen' \in [Runners -> Record \cup {NoCopy}]
    BY <1>9 DEF Claim, Write, TypeOK
  <2> QED
    BY <1>0, <1>9, <2>1, GotoTyped DEF Claim, Write, TypeOK
<1>10. CASE Work(r)
  BY <1>0, <1>a, <1>10, SubmitTyped DEF Work, TypeOK
<1>11. CASE SaveResult(r)
  <2>1. due' \in BOOLEAN /\ expired' \in BOOLEAN
    BY <1>11, SaveTyped DEF SaveResult
  <2> QED
    BY <1>11, <2>1, LeaveTyped DEF SaveResult, TypeOK
<1>12. CASE SaveRetry(r)
  <2>1. due' \in BOOLEAN /\ expired' \in BOOLEAN
    BY <1>12, SaveTyped DEF SaveRetry
  <2> QED
    BY <1>12, <2>1, LeaveTyped DEF SaveRetry, TypeOK
<1>13. CASE CrashInRecovery(r)
  <2>1. faults' \in 0 .. MaxFaults
    BY <1>13, MaxFaultsAssumption DEF CrashInRecovery, TypeOK
  <2> QED
    BY <1>13, <2>1, LeaveTyped, ApplyDeferredTyped DEF CrashInRecovery, TypeOK
<1>14. CASE Defer(r)
  <2>1. faults' \in 0 .. MaxFaults
    BY <1>14, MaxFaultsAssumption DEF Defer, TypeOK
  <2>2. deferred' \in [before : Record, after : Record] \cup {NoCopy}
    BY <1>0, <1>a, <1>14 DEF Defer, TypeOK
  <2> QED
    BY <1>14, <2>1, <2>2, LeaveTyped DEF Defer, TypeOK
<1>15. CASE Abort(r)
  <2>1. faults' \in 0 .. MaxFaults
    BY <1>15, MaxFaultsAssumption DEF Abort, TypeOK
  <2> QED
    BY <1>15, <2>1, LeaveTyped DEF Abort, TypeOK
<1> QED
  BY <1>1, <1>2, <1>3, <1>4, <1>5, <1>6, <1>7, <1>8, <1>9, <1>10, <1>11, <1>12, <1>13,
     <1>14, <1>15 DEF RunnerStep, RunnerFault

\* The types after an operator's step.
LEMMA OperatorTypeOK ==
    ASSUME TypeOK, NEW o \in Operators, OperatorStep(o), record' \in Record
    PROVE  TypeOK'
<1> USE DEF runnerVars, recordVars
<1>0. \A rec \in Record, note \in Notes :
        ResetRetry(rec, note) \in Record /\ Invalidated(rec, note) \in Record
  BY ResetRecord, InvalidatedRecord DEF Operation
<1>1. CASE BeginReset(o)
  BY <1>0, <1>1, CallTyped DEF BeginReset, TypeOK
<1>2. CASE BeginInvalidate(o)
  BY <1>0, <1>2, CallTyped DEF BeginInvalidate, TypeOK
<1>3. CASE SaveCall(o)
  <2>1. Waiting(intent[o]) \in BOOLEAN
    BY DEF Waiting
  <2>2. due' \in BOOLEAN /\ expired' \in BOOLEAN
    BY <1>3, <2>1, SaveTyped DEF SaveCall
  <2> QED
    BY <1>3, <2>2, CallTyped DEF SaveCall, TypeOK
<1>4. CASE CallRefused(o)
  BY <1>4, CallTyped DEF CallRefused, TypeOK
<1>5. CASE AbortCall(o)
  <2>1. faults' \in 0 .. MaxFaults
    BY <1>5, MaxFaultsAssumption DEF AbortCall, TypeOK
  <2> QED
    BY <1>5, <2>1, CallTyped DEF AbortCall, TypeOK
<1> QED
  BY <1>1, <1>2, <1>3, <1>4, <1>5 DEF OperatorStep

LEMMA TypeStep ==
    ASSUME TypeOK, CopiesInv, [Next]_vars
    PROVE  TypeOK'
<1>1. record' \in Record
  BY RecordStep DEF Operation, TypeOK
<1>2. ASSUME NEW r \in Runners, RunnerStep(r) \/ RunnerFault(r)
      PROVE  TypeOK'
  BY <1>1, <1>2, RunnerTypeOK
<1>3. ASSUME NEW o \in Operators, OperatorStep(o)
      PROVE  TypeOK'
  BY <1>1, <1>3, OperatorTypeOK
<1>4. CASE Clock
  BY <1>1, <1>4 DEF Clock, CheckFallsDue, LeaseExpires, TypeOK, runnerVars, operatorVars
<1>5. CASE UNCHANGED vars
  BY <1>5 DEF vars, TypeOK
<1> QED
  BY <1>2, <1>3, <1>4, <1>5 DEF Next

-----------------------------------------------------------------------------
(***************************************************************************)
(* What the processes and the deferred file may hold.                      *)
(***************************************************************************)
LEMMA InitCopies ==
    ASSUME Init
    PROVE  CopiesInv
<1>1. InitialRecord.owner = NoOwner
  BY DEF InitialRecord
<1>2. \A r \in Runners : pc[r] = "idle"
  BY DEF Init
<1>3. \A o \in Operators : call[o] = "idle"
  BY DEF Init
<1>4. LeaseOnlyWhileRunning(record)
  BY <1>1 DEF Init, LeaseOnlyWhileRunning
<1>5. LockHeld
  BY <1>2, RunnerAssumption DEF Init, LockHeld
<1>6. RunnerCopies /\ ClaimableOrOver /\ WorkerOwnsRecord
  BY <1>2 DEF RunnerCopies, RunnerCopy, ClaimableOrOver, WorkerOwnsRecord, OwnsRecord, Working
<1>7. OperatorCopies
  BY <1>3 DEF OperatorCopies, OperatorCopy
<1>8. DeferredCopy
  BY DEF Init, DeferredCopy
<1> QED
  BY <1>4, <1>5, <1>6, <1>7, <1>8 DEF CopiesInv

\* No runner but the holder of the operation lock is inside a call.
LEMMA OneInside ==
    ASSUME TypeOK, LockHeld, NEW r \in Runners, RunnerStep(r) \/ RunnerFault(r),
           NEW q \in Runners, pc[q] # "idle"
    PROVE  q = r
<1>1. opLock = q /\ opLock # NoOwner
  BY RunnerAssumption DEF LockHeld
<1>2. pc[r] # "idle"
  BY <1>1 DEF RunnerStep, RunnerFault, Enter, RecoverNothing, RecoverDeferred, RecoverConflict,
     LoadReturns, LoadDueWait, LoadRunning, ScheduleRetry, Probe, SaveWake, Claim, ClaimReturns,
     Work, SaveResult, SaveRetry, SaveRefused, CrashInRecovery, Defer, Abort
<1> QED
  BY <1>1, <1>2 DEF LockHeld

\* A runner's step touches its own variables only, and keeps the lock with it.
LEMMA RunnerFrame ==
    ASSUME TypeOK, LockHeld, NEW r \in Runners, RunnerStep(r) \/ RunnerFault(r)
    PROVE  /\ \A q \in Runners \ {r} :
                pc'[q] = pc[q] /\ seen'[q] = seen[q] /\ out'[q] = out[q] /\ pc[q] = "idle"
           /\ \/ pc'[r] = "idle" /\ opLock' = NoOwner
              \/ pc'[r] # "idle" /\ opLock' = r
           /\ UNCHANGED operatorVars
<1> USE DEF TypeOK, Goto
<1>0. \A q \in Runners \ {r} : pc[q] = "idle"
  BY OneInside
<1>1. CASE Enter(r)
  BY <1>0, <1>1 DEF Enter, operatorVars
<1>2. CASE \/ RecoverNothing(r) \/ RecoverDeferred(r) \/ LoadDueWait(r) \/ LoadRunning(r)
           \/ SaveWake(r) \/ Claim(r)
  <2>1. opLock = r
    BY <1>2 DEF LockHeld, RecoverNothing, RecoverDeferred, LoadDueWait, LoadRunning, SaveWake, Claim
  <2> QED
    BY <1>0, <1>2, <2>1 DEF RecoverNothing, RecoverDeferred, LoadDueWait, LoadRunning, SaveWake,
       Claim, operatorVars
<1>3. CASE ScheduleRetry(r) \/ Probe(r) \/ Work(r)
  <2>1. opLock = r
    BY <1>3 DEF LockHeld, ScheduleRetry, Probe, Work
  <2> QED
    BY <1>0, <1>3, <2>1 DEF ScheduleRetry, Probe, Work, Submit, operatorVars
<1>4. CASE \/ RecoverConflict(r) \/ LoadReturns(r) \/ ClaimReturns(r) \/ SaveResult(r)
           \/ SaveRetry(r) \/ SaveRefused(r) \/ CrashInRecovery(r) \/ Defer(r) \/ Abort(r)
  <2>1. Leave(r) /\ UNCHANGED operatorVars
    BY <1>4 DEF RecoverConflict, LoadReturns, ClaimReturns, SaveResult, SaveRetry, SaveRefused,
       CrashInRecovery, Defer, Abort, operatorVars
  <2> QED
    BY <1>0, <2>1 DEF Leave
<1> QED
  BY <1>1, <1>2, <1>3, <1>4 DEF RunnerStep, RunnerFault

LEMMA LockStep ==
    ASSUME TypeOK, LockHeld, [Next]_vars
    PROVE  LockHeld'
<1>1. ASSUME NEW r \in Runners, RunnerStep(r) \/ RunnerFault(r)
      PROVE  LockHeld'
  <2>1. /\ \A q \in Runners \ {r} : pc'[q] = "idle"
        /\ \/ pc'[r] = "idle" /\ opLock' = NoOwner
           \/ pc'[r] # "idle" /\ opLock' = r
    BY <1>1, RunnerFrame
  <2> QED
    BY <2>1, RunnerAssumption DEF LockHeld
<1>2. CASE UNCHANGED runnerVars
  BY <1>2 DEF LockHeld, runnerVars
<1>3. (\E o \in Operators : OperatorStep(o)) \/ Clock \/ UNCHANGED vars => UNCHANGED runnerVars
  BY DEF OperatorStep, BeginReset, BeginInvalidate, SaveCall, CallRefused, AbortCall,
     Clock, CheckFallsDue, LeaseExpires, vars, runnerVars
<1> QED
  BY <1>1, <1>2, <1>3 DEF Next

\* A runner that does not move keeps a copy behind the record.
LEMMA RunnerCopyStays ==
    ASSUME TypeOK, CopiesInv, [Next]_vars, NEW q \in Runners,
           pc'[q] = pc[q], seen'[q] = seen[q], out'[q] = out[q]
    PROVE  RunnerCopy(q)'
<1>1. RunnerCopy(q)
  BY DEF CopiesInv, RunnerCopies
<1>2. record \in Record
  BY DEF TypeOK
<1>3. pc[q] \in {"probe", "work", "wake", "result", "retry"} => Behind(seen[q])'
  <2>1. ASSUME pc[q] \in {"probe", "work", "wake", "result", "retry"}
        PROVE  Behind(seen[q])'
    BY <1>1, <1>2, <2>1, RecordStep, StaysBehind DEF RunnerCopy
  <2> QED
    BY <2>1
<1> QED
  BY <1>1, <1>3 DEF RunnerCopy, LeaseOnlyWhileRunning, Waiting, Terminal, Behind

\* The copy of the runner that moves.
LEMMA RunnerCopyMoves ==
    ASSUME TypeOK, TypeOK', CopiesInv, NEW r \in Runners, RunnerStep(r) \/ RunnerFault(r)
    PROVE  RunnerCopy(r)'
<1> USE DEF TypeOK
<1>0. RunnerCopy(r) /\ LeaseOnlyWhileRunning(record) /\ Behind(record)
  BY DEF CopiesInv, RunnerCopies, Behind
<1>1. CASE pc'[r] \in {"idle", "recover", "load", "claim"}
  BY <1>1 DEF RunnerCopy
<1>2. CASE LoadDueWait(r)
  <2>1. /\ record' = record
        /\ pc'[r] = "probe"
        /\ seen'[r] = record
        /\ Waiting(record)
    BY <1>2 DEF LoadDueWait, Goto, recordVars
  <2> QED
    BY <1>0, <2>1 DEF RunnerCopy, Behind, LeaseOnlyWhileRunning, Waiting
<1>3. CASE ScheduleRetry(r)
  <2>1. /\ record' = record
        /\ pc'[r] = "retry"
        /\ seen'[r] = record
        /\ out'[r] = Retried(record)
        /\ ~Terminal(record)
    BY <1>3 DEF ScheduleRetry, Submit, Goto, recordVars
  <2> QED
    BY <1>0, <2>1 DEF RunnerCopy, Behind, LeaseOnlyWhileRunning, Terminal
<1>4. CASE Probe(r)
  <2>1. /\ pc[r] = "probe"
        /\ record' = record
        /\ seen'[r] = seen[r]
        /\ \/ pc'[r] = "wake" /\ out'[r] = Woken(seen[r])
           \/ pc'[r] = "retry" /\ out'[r] = Retried(seen[r])
    BY <1>4 DEF Probe, Submit, Goto, recordVars
  <2>2. Waiting(seen[r]) /\ ~Terminal(seen[r])
    BY <1>0, <2>1, StatusKinds DEF RunnerCopy, Waiting, Terminal
  <2> QED
    BY <1>0, <2>1, <2>2 DEF RunnerCopy, Behind, LeaseOnlyWhileRunning, Waiting, Terminal
<1>5. CASE Claim(r)
  <2>1. /\ pc[r] = "claim"
        /\ ~Terminal(record)
        /\ record' = Claimed(record, r)
        /\ pc'[r] = "work"
        /\ seen'[r] = Claimed(record, r)
    BY <1>5 DEF Claim, Write, Goto
  <2>2. record.status = "RUNNING"
    BY <2>1 DEF CopiesInv, ClaimableOrOver
  <2>3. seen'[r] \in Record /\ seen'[r].owner = r /\ seen'[r].status = "RUNNING"
    <3>1. record \in Record
      BY DEF CopiesInv
    <3>2. /\ Operation(record, Claimed(record, r))
          /\ Claimed(record, r).status = "RUNNING" /\ Claimed(record, r).owner = r
      BY <2>2, <3>1, ClaimedRecord
    <3>3. Claimed(record, r) \in Record
      BY <3>2 DEF Operation
    <3> QED
      BY <2>1, <3>2, <3>3
  <2> QED
    BY <2>1, <2>3 DEF RunnerCopy, Behind, LeaseOnlyWhileRunning
<1>6. CASE Work(r)
  <2>1. /\ pc[r] = "work"
        /\ record' = record
        /\ seen'[r] = seen[r]
        /\ \/ /\ pc'[r] = "result"
              /\ \/ \E outcome \in StepOutcomes : out'[r] = Stepped(seen[r], outcome)
                 \/ \E wait \in StepWaits : out'[r] = Parked(seen[r], wait)
           \/ pc'[r] = "retry" /\ out'[r] = Retried(seen[r])
    BY <1>6 DEF Work, Submit, Goto, recordVars
  <2>2. seen[r].owner = r /\ seen[r].status = "RUNNING" /\ ~Terminal(seen[r])
    BY <1>0, <2>1, RunnerAssumption, StatusKinds DEF RunnerCopy, LeaseOnlyWhileRunning, Terminal
  <2> QED
    BY <1>0, <2>1, <2>2 DEF RunnerCopy, Behind, LeaseOnlyWhileRunning, Terminal
<1> QED
  BY <1>1, <1>2, <1>3, <1>4, <1>5, <1>6 DEF RunnerStep, RunnerFault, Enter, RecoverNothing,
     RecoverDeferred, RecoverConflict, LoadReturns, LoadRunning, SaveWake, ClaimReturns,
     SaveResult, SaveRetry, SaveRefused, CrashInRecovery, Defer, Abort, Leave, Goto

LEMMA RunnerCopiesStep ==
    ASSUME TypeOK, TypeOK', CopiesInv, [Next]_vars
    PROVE  RunnerCopies'
<1>1. ASSUME NEW r \in Runners, RunnerStep(r) \/ RunnerFault(r), NEW q \in Runners
      PROVE  RunnerCopy(q)'
  <2>1. CASE q = r
    BY <1>1, <2>1, RunnerCopyMoves
  <2>2. CASE q # r
    BY <1>1, <2>2, RunnerFrame, RunnerCopyStays DEF CopiesInv
  <2> QED
    BY <2>1, <2>2
<1>2. (\E o \in Operators : OperatorStep(o)) \/ Clock \/ UNCHANGED vars => UNCHANGED runnerVars
  BY DEF OperatorStep, BeginReset, BeginInvalidate, SaveCall, CallRefused, AbortCall,
     Clock, CheckFallsDue, LeaseExpires, vars, runnerVars
<1>3. ASSUME UNCHANGED runnerVars, NEW q \in Runners
      PROVE  RunnerCopy(q)'
  BY <1>3, RunnerCopyStays DEF runnerVars
<1> QED
  BY <1>1, <1>2, <1>3 DEF Next, RunnerCopies

\* An operator's copy, whoever moves.
LEMMA OperatorCopiesStep ==
    ASSUME TypeOK, TypeOK', CopiesInv, [Next]_vars
    PROVE  OperatorCopies'
<1> SUFFICES ASSUME NEW p \in Operators PROVE OperatorCopy(p)'
  BY DEF OperatorCopies
<1>0. OperatorCopy(p) /\ record \in Record
  BY DEF CopiesInv, OperatorCopies, TypeOK
<1>1. CASE call'[p] = call[p] /\ read'[p] = read[p] /\ intent'[p] = intent[p]
  <2>1. ASSUME call[p] # "idle" PROVE Behind(read[p])'
    BY <1>0, <1>1, <2>1, RecordStep, StaysBehind DEF OperatorCopy
  <2>2. CASE call[p] = "idle"
    BY <1>1, <2>2 DEF OperatorCopy
  <2>3. CASE call[p] # "idle"
    <3>1. call'[p] = "reset" => /\ read'[p].status = "RETRY_BACKOFF"
                               /\ \E note \in Notes : intent'[p] = ResetRetry(read'[p], note)
      BY <1>0, <1>1, <2>3 DEF OperatorCopy
    <3>2. call'[p] = "invalidate" => /\ read'[p].status \notin TERMINAL_STATUSES
                                    /\ \E note \in Notes : intent'[p] = Invalidated(read'[p], note)
      BY <1>0, <1>1, <2>3 DEF OperatorCopy, Terminal
    <3>3. read'[p] \in Record
      BY <1>0, <1>1, <2>3 DEF OperatorCopy
    <3> QED
      BY <2>1, <2>3, <3>1, <3>2, <3>3 DEF OperatorCopy, Terminal
  <2> QED
    BY <2>2, <2>3
<1>2. CASE call'[p] = "idle"
  BY <1>2 DEF OperatorCopy
<1>3. CASE BeginReset(p)
  <2>1. PICK note \in Notes : Begin(p, "reset", ResetRetry(record, note))
    BY <1>3 DEF BeginReset
  <2>2. /\ record' = record
        /\ call'[p] = "reset"
        /\ read'[p] = record
        /\ intent'[p] = ResetRetry(record, note)
    BY <1>3, <2>1 DEF BeginReset, Begin, TypeOK, recordVars
  <2>3. record.status = "RETRY_BACKOFF"
    BY <1>3 DEF BeginReset
  <2> QED
    BY <1>0, <2>2, <2>3 DEF OperatorCopy, Behind
<1>4. CASE BeginInvalidate(p)
  <2>1. PICK note \in Notes : Begin(p, "invalidate", Invalidated(record, note))
    BY <1>4 DEF BeginInvalidate
  <2>2. /\ record' = record
        /\ call'[p] = "invalidate"
        /\ read'[p] = record
        /\ intent'[p] = Invalidated(record, note)
    BY <1>4, <2>1 DEF BeginInvalidate, Begin, TypeOK, recordVars
  <2>3. ~Terminal(record)
    BY <1>4 DEF BeginInvalidate
  <2> QED
    BY <1>0, <2>2, <2>3 DEF OperatorCopy, Behind, Terminal
<1>5. ASSUME NEW o \in Operators, OperatorStep(o)
      PROVE  OperatorCopy(p)'
  <2>1. CASE o = p
    <3>1. CASE SaveCall(o) \/ CallRefused(o) \/ AbortCall(o)
      BY <1>2, <2>1, <3>1 DEF SaveCall, CallRefused, AbortCall, End, TypeOK
    <3> QED
      BY <1>3, <1>4, <1>5, <2>1, <3>1 DEF OperatorStep
  <2>2. CASE o # p
    BY <1>1, <1>5, <2>2 DEF OperatorStep, BeginReset, BeginInvalidate, SaveCall, CallRefused,
       AbortCall, Begin, End, TypeOK
  <2> QED
    BY <2>1, <2>2
<1>6. ASSUME NEW r \in Runners, RunnerStep(r) \/ RunnerFault(r)
      PROVE  OperatorCopy(p)'
  BY <1>1, <1>6, RunnerFrame DEF CopiesInv, operatorVars
<1>7. CASE Clock \/ UNCHANGED vars
  BY <1>1, <1>7 DEF Clock, CheckFallsDue, LeaseExpires, operatorVars, vars
<1> QED
  BY <1>5, <1>6, <1>7 DEF Next

\* The deferred file, when it is there, stays a retry of an older record.
LEMMA DeferredStep ==
    ASSUME TypeOK, CopiesInv, [Next]_vars
    PROVE  DeferredCopy'
<1>0. DeferredCopy /\ record \in Record
  BY DEF CopiesInv, TypeOK
<1>1. CASE deferred' = deferred
  <2>1. ASSUME deferred # NoCopy PROVE Behind(deferred.before)'
    <3>1. deferred.before \in Record
      BY <2>1 DEF TypeOK
    <3> QED
      BY <1>0, <1>1, <2>1, <3>1, RecordStep, StaysBehind DEF DeferredCopy
  <2> QED
    BY <1>0, <1>1, <2>1 DEF DeferredCopy, Terminal, Behind
<1>2. CASE deferred' = NoCopy
  BY <1>2 DEF DeferredCopy
<1>3. ASSUME NEW r \in Runners, Defer(r), deferred' # deferred
      PROVE  DeferredCopy'
  <2>1. /\ pc[r] = "retry"
        /\ record' = record
        /\ deferred' = [before |-> seen[r], after |-> out[r]]
    BY <1>3 DEF Defer, recordVars
  <2>2. Behind(seen[r]) /\ ~Terminal(seen[r]) /\ out[r] = Retried(seen[r])
    BY <2>1 DEF CopiesInv, RunnerCopies, RunnerCopy
  <2> QED
    BY <2>1, <2>2 DEF DeferredCopy, Behind, Terminal
<1>4. ASSUME NEW r \in Runners, RunnerStep(r) \/ RunnerFault(r)
      PROVE  deferred' = deferred \/ deferred' = NoCopy \/ Defer(r)
  BY <1>4 DEF RunnerStep, RunnerFault, Enter, RecoverNothing, RecoverDeferred, RecoverConflict,
     LoadReturns, LoadDueWait, LoadRunning, ScheduleRetry, Probe, SaveWake, Claim, ClaimReturns,
     Work, SaveResult, SaveRetry, SaveRefused, CrashInRecovery, Abort
<1>5. (\E o \in Operators : OperatorStep(o)) \/ Clock \/ UNCHANGED vars => deferred' = deferred
  BY DEF OperatorStep, BeginReset, BeginInvalidate, SaveCall, CallRefused, AbortCall,
     Clock, CheckFallsDue, LeaseExpires, vars
<1> QED
  BY <1>1, <1>2, <1>3, <1>4, <1>5 DEF Next

(***************************************************************************)
(* An operator's accepted save over a RUNNING or terminal record can only  *)
(* be an invalidation of it, or the very record again.                     *)
(***************************************************************************)
LEMMA OperatorOverRunning ==
    ASSUME TypeOK, CopiesInv, NEW o \in Operators, OperatorStep(o),
           record.status = "RUNNING" \/ Terminal(record)
    PROVE  \/ record' = record
           \/ /\ ~Terminal(record)
              /\ \E note \in Notes : record' = Invalidated(record, note)
<1>1. CASE BeginReset(o) \/ BeginInvalidate(o) \/ CallRefused(o) \/ AbortCall(o)
  BY <1>1 DEF BeginReset, BeginInvalidate, CallRefused, AbortCall, recordVars
<1>2. CASE SaveCall(o)
  <2>0. record \in Record /\ OperatorCopy(o)
    BY DEF CopiesInv, OperatorCopies, TypeOK
  <2>1. /\ call[o] # "idle"
        /\ Save(intent[o], Waiting(intent[o]))
        /\ read[o] \in Record
        /\ Behind(read[o])
    BY <1>2, <2>0 DEF SaveCall, OperatorCopy
  <2>2. CASE call[o] = "reset"
    <3>1. PICK note \in Notes : intent[o] = ResetRetry(read[o], note)
      BY <2>0, <2>2 DEF OperatorCopy
    <3>2. read[o] # record
      BY <2>0, <2>2, StatusKinds DEF OperatorCopy, Terminal
    <3> QED
      BY <2>0, <2>1, <3>1, <3>2, ResetRecord, SaveIsCurrent
  <2>3. CASE call[o] = "invalidate"
    <3>1. PICK note \in Notes : intent[o] = Invalidated(read[o], note)
      BY <2>0, <2>3 DEF OperatorCopy
    <3>2. ~Terminal(read[o])
      BY <2>0, <2>3 DEF OperatorCopy
    <3>3. record' = record \/ (record' = intent[o] /\ read[o] = record)
      BY <2>0, <2>1, <3>1, InvalidatedRecord, SaveIsCurrent
    <3> QED
      BY <3>1, <3>2, <3>3
  <2> QED
    BY <2>1, <2>2, <2>3 DEF TypeOK
<1> QED
  BY <1>1, <1>2 DEF OperatorStep

\* Between a wake and its claim only an invalidation can come.
LEMMA ClaimableStep ==
    ASSUME TypeOK, CopiesInv, [Next]_vars
    PROVE  ClaimableOrOver'
<1> SUFFICES ASSUME NEW q \in Runners, pc'[q] = "claim"
             PROVE  (record.status = "RUNNING" \/ Terminal(record))'
  BY DEF ClaimableOrOver
<1>0. record \in Record
  BY DEF TypeOK
<1>1. CASE pc[q] = "claim" /\ record' = record
  BY <1>1 DEF CopiesInv, ClaimableOrOver, Terminal
<1>2. ASSUME NEW r \in Runners, RunnerStep(r) \/ RunnerFault(r)
      PROVE  (record.status = "RUNNING" \/ Terminal(record))'
  <2>1. q = r
    BY <1>2, RunnerFrame DEF CopiesInv
  <2>2. CASE LoadRunning(r)
    BY <2>2 DEF LoadRunning, recordVars
  <2>3. CASE SaveWake(r)
    <3>1. pc[r] = "wake" /\ Save(out[r], FALSE)
      BY <2>3 DEF SaveWake
    <3>2. record' = out[r]
      BY <3>1 DEF Save, Write, recordVars
    <3>3. seen[r] \in Record /\ Waiting(seen[r]) /\ out[r] = Woken(seen[r])
      BY <3>1 DEF CopiesInv, RunnerCopies, RunnerCopy
    <3> QED
      BY <3>2, <3>3, WokenRecord
  <2> QED
    BY <1>2, <2>1, <2>2, <2>3 DEF RunnerStep, RunnerFault, Enter, RecoverNothing, RecoverDeferred,
       RecoverConflict, LoadReturns, LoadDueWait, ScheduleRetry, Probe, Claim, ClaimReturns,
       Work, SaveResult, SaveRetry, SaveRefused, CrashInRecovery, Defer, Abort, Leave, Submit,
       Goto, TypeOK
<1>3. ASSUME NEW o \in Operators, OperatorStep(o)
      PROVE  (record.status = "RUNNING" \/ Terminal(record))'
  <2>1. pc' = pc
    BY <1>3 DEF OperatorStep, BeginReset, BeginInvalidate, SaveCall, CallRefused, AbortCall,
       runnerVars
  <2>2. record.status = "RUNNING" \/ Terminal(record)
    BY <2>1 DEF CopiesInv, ClaimableOrOver
  <2>3. record' = record \/ \E note \in Notes : record' = Invalidated(record, note)
    BY <1>3, <2>2, OperatorOverRunning
  <2> QED
    BY <1>0, <2>2, <2>3, InvalidatedRecord DEF Terminal
<1>4. CASE Clock \/ UNCHANGED vars
  BY <1>1, <1>4 DEF Clock, CheckFallsDue, LeaseExpires, runnerVars, vars
<1> QED
  BY <1>2, <1>3, <1>4 DEF Next

\* A worker's record is its own, or invalidated over it, until its save.
LEMMA OwnsStep ==
    ASSUME TypeOK, CopiesInv, [Next]_vars
    PROVE  WorkerOwnsRecord'
<1> SUFFICES ASSUME NEW q \in Runners, Working(q)'
             PROVE  (record = seen[q] \/ \E note \in Notes : record = Invalidated(seen[q], note))'
  BY DEF WorkerOwnsRecord, OwnsRecord
<1>0. /\ record \in Record
      /\ OwnsRecord(q)
      /\ RunnerCopy(q)
      /\ Working(q) => pc[q] \in {"work", "result", "retry"}
  BY DEF CopiesInv, WorkerOwnsRecord, RunnerCopies, TypeOK, Working
<1>1. CASE Working(q) /\ record' = record /\ seen'[q] = seen[q]
  BY <1>0, <1>1 DEF OwnsRecord
<1>2. ASSUME NEW r \in Runners, RunnerStep(r) \/ RunnerFault(r)
      PROVE  (record = seen[q] \/ \E note \in Notes : record = Invalidated(seen[q], note))'
  <2>1. q = r
    BY <1>2, RunnerFrame DEF CopiesInv, Working
  <2>2. CASE ScheduleRetry(r) \/ Claim(r)
    BY <2>1, <2>2 DEF ScheduleRetry, Claim, Submit, Write, recordVars, TypeOK
  <2>3. CASE Work(r)
    <3>1. pc[r] = "work" /\ record' = record /\ seen'[r] = seen[r]
      BY <2>3 DEF Work, Submit, recordVars, TypeOK
    <3> QED
      BY <1>1, <2>1, <3>1 DEF Working
  <2>4. CASE Probe(r)
    <3>1. pc[r] = "probe" /\ seen'[r] = seen[r] /\ pc'[r] \in {"wake", "retry"}
      BY <2>4 DEF Probe, Submit, Goto, TypeOK
    <3>2. seen[r].owner = NoOwner
      BY <1>0, <2>1, <3>1, StatusKinds DEF RunnerCopy, LeaseOnlyWhileRunning, Waiting
    <3> QED
      BY <2>1, <3>1, <3>2 DEF Working
  <2>5. CASE ~(ScheduleRetry(r) \/ Claim(r) \/ Work(r) \/ Probe(r))
    <3>1. pc'[r] \in {"idle", "recover", "load", "probe", "claim"}
      BY <1>2, <2>5 DEF RunnerStep, RunnerFault, Enter, RecoverNothing, RecoverDeferred,
         RecoverConflict, LoadReturns, LoadDueWait, LoadRunning, SaveWake, ClaimReturns,
         SaveResult, SaveRetry, SaveRefused, CrashInRecovery, Defer, Abort, Leave, Goto, TypeOK
    <3> QED
      BY <2>1, <3>1 DEF Working
  <2> QED
    BY <2>2, <2>3, <2>4, <2>5
<1>3. ASSUME NEW o \in Operators, OperatorStep(o)
      PROVE  (record = seen[q] \/ \E note \in Notes : record = Invalidated(seen[q], note))'
  <2>1. pc' = pc /\ seen' = seen
    BY <1>3 DEF OperatorStep, BeginReset, BeginInvalidate, SaveCall, CallRefused, AbortCall,
       runnerVars
  <2>2. Working(q)
    BY <2>1 DEF Working
  <2>3. seen[q] \in Record /\ seen[q].status = "RUNNING"
    BY <1>0, <2>2, RunnerAssumption DEF RunnerCopy, LeaseOnlyWhileRunning, Working
  <2>4. record = seen[q] \/ \E note \in Notes : record = Invalidated(seen[q], note)
    BY <1>0, <2>2 DEF OwnsRecord
  <2>5. record.status = "RUNNING" \/ Terminal(record)
    BY <2>3, <2>4, InvalidatedRecord
  <2>6. \/ record' = record
        \/ ~Terminal(record) /\ \E note \in Notes : record' = Invalidated(record, note)
    BY <1>3, <2>5, OperatorOverRunning
  <2>7. ~Terminal(record) => record = seen[q]
    BY <2>3, <2>4, InvalidatedRecord
  <2> QED
    BY <2>1, <2>4, <2>6, <2>7 DEF Invalidated, Appended
<1>4. CASE Clock \/ UNCHANGED vars
  BY <1>1, <1>4 DEF Clock, CheckFallsDue, LeaseExpires, runnerVars, vars, Working
<1> QED
  BY <1>2, <1>3, <1>4 DEF Next

LEMMA CopiesStep ==
    ASSUME TypeOK, CopiesInv, [Next]_vars
    PROVE  CopiesInv'
<1>1. LeaseOnlyWhileRunning(record)'
  BY RecordStep DEF CopiesInv, Operation, LeaseOnlyWhileRunning
<1> QED
  BY <1>1, TypeStep, LockStep, RunnerCopiesStep, OperatorCopiesStep, DeferredStep, ClaimableStep,
     OwnsStep DEF CopiesInv

-----------------------------------------------------------------------------
(***************************************************************************)
(* The theorems.                                                           *)
(***************************************************************************)

(***************************************************************************)
(* Types hold, and copies in memory and on disk never get ahead of the     *)
(* record nor beside it.                                                   *)
(***************************************************************************)
THEOREM Invariance == Spec => [](TypeOK /\ CopiesInv)
<1>1. Init => TypeOK /\ CopiesInv
  BY InitTypeOK, InitCopies
<1>2. TypeOK /\ CopiesInv /\ [Next]_vars => (TypeOK /\ CopiesInv)'
  BY TypeStep, CopiesStep
<1> QED
  BY <1>1, <1>2, PTL DEF Spec

\* Every variable keeps its type (campaign_runner.py, CampaignState.validate).
THEOREM TypeCorrect == Spec => []TypeOK
BY Invariance, PTL

(***************************************************************************)
(* From claim to save the record is the worker's own, or was invalidated   *)
(* over it (tick holds the campaign operation lock, claim the time lease). *)
(***************************************************************************)
THEOREM WorkerOwns == Spec => []WorkerOwnsRecord
<1>1. CopiesInv => WorkerOwnsRecord
  BY DEF CopiesInv
<1> QED
  BY <1>1, Invariance, PTL

(***************************************************************************)
(* The runner implements CampaignLifecycle: saves, claims and recoveries   *)
(* are serial operations on the record.                                    *)
(***************************************************************************)
THEOREM Refinement == Spec => LifecycleSpec
<1>1. Init => Lifecycle!Init
  BY DEF Init, Lifecycle!Init, InitialRecord, Lifecycle!InitialRecord
<1>2. TypeOK /\ CopiesInv /\ [Next]_vars => [Lifecycle!Next]_record
  BY StepIsOperation DEF vars
<1> QED
  BY <1>1, <1>2, Invariance, PTL DEF Spec, LifecycleSpec, Lifecycle!Spec

\* The journal only ever grows, by one event at a time (CampaignStore.save).
THEOREM AppendOnly == Spec => JournalAppendOnly
<1>1. TypeOK /\ CopiesInv /\ [Next]_vars => [record' # record => OneMoreEvent]_vars
  BY RecordStep DEF Operation, OneMoreEvent
<1> QED
  BY <1>1, Invariance, PTL DEF Spec, JournalAppendOnly

\* A terminal record never changes again (TERMINAL_STATUSES).
THEOREM TerminalStays == Spec => TerminalIsFinal
<1>1. TypeOK /\ CopiesInv /\ [Next]_vars => [Terminal(record) => record' = record]_vars
  BY RecordStep
<1> QED
  BY <1>1, Invariance, PTL DEF Spec, TerminalIsFinal

(***************************************************************************)
(* A deferred retry is applied exactly once: only _recover_deferred_retry  *)
(* removes its file, when the record is the deferred one.                  *)
(***************************************************************************)
THEOREM DeferredOnce == Spec => DeferredAppliedOnce
<1> DEFINE Once == deferred # NoCopy /\ deferred' # deferred
                   => deferred' = NoCopy /\ record' = deferred.after
<1>1. ASSUME NEW r \in Runners, RunnerStep(r) \/ RunnerFault(r)
      PROVE  Once
  <2>1. CASE RecoverDeferred(r)
    BY <2>1 DEF RecoverDeferred, ApplyDeferred, Write, recordVars
  <2> QED
    BY <1>1, <2>1 DEF RunnerStep, RunnerFault, Enter, RecoverNothing, RecoverConflict,
       LoadReturns, LoadDueWait, LoadRunning, ScheduleRetry, Probe, SaveWake, Claim,
       ClaimReturns, Work, SaveResult, SaveRetry, SaveRefused, CrashInRecovery, Defer, Abort
<1>2. ASSUME NEW o \in Operators, OperatorStep(o)
      PROVE  Once
  BY <1>2 DEF OperatorStep, BeginReset, BeginInvalidate, SaveCall, CallRefused, AbortCall
<1>3. ASSUME Clock
      PROVE  Once
  BY <1>3 DEF Clock, CheckFallsDue, LeaseExpires
<1>4. [Next]_vars => [Once]_vars
  BY <1>1, <1>2, <1>3 DEF Next
<1> QED
  BY <1>4, PTL DEF Spec, DeferredAppliedOnce


-----------------------------------------------------------------------------
(* Scheduler, for any clients, humans, roadmap and bounds: its types, that *)
(* the journal is the history of some loop, and that what is settled stays *)
(* settled.                                                                *)


States ==
    [status : SchedulerStatus, item : Items \cup {None},
     lease : {"none", "held", "expired"}, used : 0..Budget]

Events == [sequence : Nat, from : SchedulerStatus, to : SchedulerStatus]

(* The store keeps no claim: only its status ever changes.  There is a     *)
(* state when a command or a loop is under way.                            *)
Kept(s) == s \in States /\ s.item = None /\ s.lease = "none"

StoredInv ==
    /\ stored = None \/ Kept(stored)
    /\ worker.state # None => Kept(stored)
    /\ \A c \in Clients : command[c] # None => Kept(stored)

WorkerInv ==
    /\ worker \in [state : States \cup {None}, events : Seq(Events), done : BOOLEAN, from : Nat]
    /\ worker.state = None \/
         (worker.state \in States /\ (worker.state.item = None <=> worker.state.lease = "none"))
    /\ Len(worker.events) <= MaxSteps
    /\ ~worker.done => worker.from = 0

InboxInv == inbox \in [InboxIds -> {None} \cup [risk : Risks, actor : Humans \cup {None}]]

(* Events numbered from 1, each beginning where the one before ended.      *)
Chained(es) ==
    \A n \in 1..Len(es) :
        /\ es[n].sequence = n
        /\ n > 1 => es[n].from = es[n - 1].to

(* The events of the loop are such a history and end in its status; those  *)
(* appended so far are in the journal, in their places, unless one was     *)
(* refused (then none is left to append).                                  *)
HistoryInv ==
    /\ journal \in Seq(Events)
    /\ Chained(journal)
    /\ Chained(worker.events)
    /\ worker.events # <<>> => worker.events[Len(worker.events)].to = worker.state.status
    /\ worker.from < Len(worker.events) =>
         /\ worker.from <= Len(journal)
         /\ \A k \in 1..worker.from : journal[k] = worker.events[k]

(* The inductive invariant.                                                *)
SchedulerInv ==
    /\ StoredInv
    /\ command \in [Clients -> DOMAIN CommandTarget \cup {None}]
    /\ WorkerInv
    /\ HistoryInv
    /\ InboxInv
    /\ roadmap \in [Items -> RoadmapItemStatus]

-----------------------------------------------------------------------------
LEMMA Tables ==
    /\ \A s \in SchedulerStatus : TRANSITIONS[s] \subseteq SchedulerStatus
    /\ \A s \in TERMINAL_STATES : TRANSITIONS[s] = {}
    /\ \A s \in RoadmapItemStatus : ITEM_TRANSITIONS[s] \subseteq RoadmapItemStatus
    /\ ITEM_TRANSITIONS["COMPLETED"] = {"SUPERSEDED"}
    /\ ITEM_TRANSITIONS["SUPERSEDED"] = {}
    /\ TERMINAL_STATES \subseteq SchedulerStatus
<1>1. /\ \A s \in SchedulerStatus : TRANSITIONS[s] \subseteq SchedulerStatus
      /\ \A s \in TERMINAL_STATES : TRANSITIONS[s] = {}
      /\ TERMINAL_STATES \subseteq SchedulerStatus
  BY DEF TRANSITIONS, SchedulerStatus, TERMINAL_STATES
<1>2. /\ \A s \in RoadmapItemStatus : ITEM_TRANSITIONS[s] \subseteq RoadmapItemStatus
      /\ ITEM_TRANSITIONS["COMPLETED"] = {"SUPERSEDED"}
      /\ ITEM_TRANSITIONS["SUPERSEDED"] = {}
  BY DEF ITEM_TRANSITIONS, RoadmapItemStatus
<1> QED BY <1>1, <1>2

(* transition keeps a state a state and its claim as it was.               *)
LEMMA TransitionedState ==
    ASSUME NEW s \in States, NEW status
    PROVE  /\ Transitioned(s, status) \in States
           /\ Transitioned(s, status).item = s.item
           /\ Transitioned(s, status).lease = s.lease
<1>1. CASE status \in TRANSITIONS[s.status]
  <2>1. status \in SchedulerStatus
    BY <1>1, Tables DEF States
  <2>2. Transitioned(s, status) = [s EXCEPT !.status = status]
    BY <1>1 DEF Transitioned, Moved
  <2> QED BY <2>1, <2>2 DEF States
<1>2. CASE status \notin TRANSITIONS[s.status]
  BY <1>2 DEF Transitioned
<1> QED BY <1>1, <1>2

(* Appending the next event keeps a history one.                           *)
LEMMA ChainedAppend ==
    ASSUME NEW es \in Seq(Events), NEW e \in Events, Chained(es),
           e.sequence = Len(es) + 1,
           es # <<>> => e.from = es[Len(es)].to
    PROVE  Chained(Append(es, e))
<1> DEFINE fs == Append(es, e)
<1>1. Len(fs) = Len(es) + 1 /\ fs[Len(es) + 1] = e /\ \A n \in 1..Len(es) : fs[n] = es[n]
  OBVIOUS
<1>2. Len(es) \in Nat /\ (Len(es) > 0 => es # <<>>)
  OBVIOUS
<1> SUFFICES ASSUME NEW n \in 1..Len(fs)
             PROVE  fs[n].sequence = n /\ (n > 1 => fs[n].from = fs[n - 1].to)
  BY DEF Chained
<1> HIDE DEF fs
<1>3. CASE n \in 1..Len(es)
  <2>1. fs[n] = es[n] /\ (n > 1 => fs[n - 1] = es[n - 1])
    BY <1>1, <1>2, <1>3
  <2>2. es[n].sequence = n /\ (n > 1 => es[n].from = es[n - 1].to)
    BY <1>3 DEF Chained
  <2> QED BY <2>1, <2>2
<1>4. CASE n = Len(es) + 1
  <2>1. fs[n] = e
    BY <1>1, <1>4
  <2>2. n > 1 => fs[n - 1] = es[Len(es)] /\ es # <<>>
    BY <1>1, <1>2, <1>4
  <2> QED BY <1>4, <2>1, <2>2
<1> QED BY <1>1, <1>2, <1>3, <1>4

LEMMA SchedulerInitInv == SchedulerInit => SchedulerInv
<1> SUFFICES ASSUME SchedulerInit PROVE SchedulerInv
  OBVIOUS
<1>1. WorkerInv
  <2>1. Len(<<>>) = 0 /\ <<>> \in Seq(Events) /\ 0 <= MaxSteps
    BY SchedulerBounds
  <2> QED BY <2>1 DEF SchedulerInit, Resting, WorkerInv
<1>2. HistoryInv
  BY DEF SchedulerInit, Resting, HistoryInv, Chained
<1>3. InboxInv /\ roadmap \in [Items -> RoadmapItemStatus]
  BY DEF SchedulerInit, InboxInv, RoadmapItemStatus
<1>4. worker.state = None
  BY DEF SchedulerInit, Resting
<1>5. /\ command \in [Clients -> DOMAIN CommandTarget \cup {None}]
      /\ \A c \in Clients : command[c] = None
  BY DEF SchedulerInit
<1>6. StoredInv
  BY <1>4, <1>5 DEF SchedulerInit, StoredInv
<1> QED BY <1>1, <1>2, <1>3, <1>5, <1>6 DEF SchedulerInv

(* The store's own operations.                                             *)
LEMMA StoreInv ==
    ASSUME SchedulerInv, CreateState \/ HandBack \/ \E c \in Clients : ApplyCommand(c)
    PROVE  /\ StoredInv'
           /\ command' \in [Clients -> DOMAIN CommandTarget \cup {None}]
<1> USE DEF SchedulerInv
<1>1. CASE CreateState
  <2>1. Kept(Created)
    BY SchedulerBounds DEF Kept, Created, States, SchedulerStatus
  <2> QED BY <1>1, <2>1 DEF CreateState, StoredInv
<1>2. CASE HandBack
  <2>1. Kept(stored) /\ stored' = Transitioned(stored, worker.state.status) /\ command' = command
    BY <1>2 DEF HandBack, StoredInv
  <2>2. Kept(stored')
    BY <2>1, TransitionedState DEF Kept
  <2> QED BY <2>1, <2>2 DEF StoredInv
<1>3. ASSUME NEW c \in Clients, ApplyCommand(c)
      PROVE  StoredInv' /\ command' \in [Clients -> DOMAIN CommandTarget \cup {None}]
  <2>1. Kept(stored) /\ stored' = Transitioned(stored, CommandTarget[command[c]])
    BY <1>3 DEF ApplyCommand, StoredInv
  <2>2. Kept(stored')
    BY <2>1, TransitionedState DEF Kept
  <2> QED BY <1>3, <2>2 DEF ApplyCommand, StoredInv
<1> QED BY <1>1, <1>2, <1>3

LEMMA CommandInv ==
    ASSUME SchedulerInv, CommandStep
    PROVE  SchedulerInv'
<1> USE DEF SchedulerInv
<1>1. UNCHANGED <<worker, journal, inbox, roadmap>>
  BY DEF CommandStep, CreateState, LoadForCommand, ApplyCommand
<1>2. WorkerInv' /\ HistoryInv' /\ InboxInv' /\ roadmap' \in [Items -> RoadmapItemStatus]
  BY <1>1 DEF WorkerInv, HistoryInv, InboxInv
<1>3. CASE CreateState \/ \E c \in Clients : ApplyCommand(c)
  BY <1>2, <1>3, StoreInv
<1>4. ASSUME NEW c \in Clients, LoadForCommand(c)
      PROVE  SchedulerInv'
  <2>1. PICK name \in DOMAIN CommandTarget : command' = [command EXCEPT ![c] = name]
    BY <1>4 DEF LoadForCommand
  <2>2. stored' = stored /\ Kept(stored)
    BY <1>4 DEF LoadForCommand, StoredInv
  <2>3. command' \in [Clients -> DOMAIN CommandTarget \cup {None}]
    BY <2>1
  <2> QED BY <1>1, <1>2, <2>2, <2>3 DEF StoredInv
<1> QED BY <1>3, <1>4 DEF CommandStep

(* A step of the loop to another state appends an event from the status    *)
(* the loop is in to the next one.                                         *)
LEMMA LoopStepInv ==
    ASSUME SchedulerInv, worker.state # None,
           NEW next \in States, LoopStep(next),
           next.item = None <=> next.lease = "none"
    PROVE  SchedulerInv'
<1> USE DEF SchedulerInv
<1> DEFINE e == LoopEvent(Len(worker.events) + 1, worker.state.status, next.status)
<1>0. /\ ~worker.done /\ worker.from = 0
      /\ Len(worker.events) < MaxSteps
      /\ worker' = [worker EXCEPT !.state = next, !.events = Append(@, e)]
      /\ UNCHANGED <<stored, command, journal, inbox, roadmap, spent>>
  BY DEF LoopStep, WorkerInv
<1>1. /\ worker \in [state : States \cup {None}, events : Seq(Events), done : BOOLEAN,
                     from : Nat]
      /\ worker.state \in States
      /\ worker.events \in Seq(Events) /\ Len(worker.events) \in Nat
  BY DEF WorkerInv
<1>2. /\ e \in Events
      /\ e.sequence = Len(worker.events) + 1
      /\ e.from = worker.state.status /\ e.to = next.status
  BY <1>1 DEF LoopEvent, Events, States
<1>3. worker'.state = next /\ worker'.events = Append(worker.events, e)
      /\ worker'.done = worker.done /\ worker'.from = 0
  BY <1>0, <1>1
<1> HIDE DEF e
<1>4. /\ Append(worker.events, e) \in Seq(Events)
      /\ Len(Append(worker.events, e)) = Len(worker.events) + 1
      /\ Append(worker.events, e)[Len(worker.events) + 1] = e
  BY <1>1, <1>2
<1>5. WorkerInv'
  <2>1. worker' \in [state : States \cup {None}, events : Seq(Events), done : BOOLEAN,
                     from : Nat]
    BY <1>0, <1>1, <1>4
  <2>2. Len(worker'.events) <= MaxSteps
    <3>1. MaxSteps \in Int
      BY SchedulerBounds
    <3> QED BY <3>1, <1>0, <1>1, <1>3, <1>4
  <2> QED BY <1>3, <2>1, <2>2 DEF WorkerInv
<1>6. Chained(worker'.events)
  BY <1>1, <1>2, <1>3, ChainedAppend DEF HistoryInv
<1>7. HistoryInv'
  <2>1. worker'.events[Len(worker'.events)].to = worker'.state.status
    BY <1>2, <1>3, <1>4
  <2>2. worker'.from <= Len(journal) /\ \A k \in 1..worker'.from : FALSE
    <3>1. Len(journal) \in Nat /\ 1..0 = {}
      BY DEF HistoryInv
    <3> QED BY <1>3, <3>1
  <2>3. journal' = journal
    BY <1>0
  <2>4. journal' \in Seq(Events) /\ Chained(journal')
    BY <2>3 DEF HistoryInv
  <2> QED BY <1>6, <2>1, <2>2, <2>3, <2>4 DEF HistoryInv
<1>8. StoredInv'
  <2>1. Kept(stored)
    BY DEF StoredInv
  <2> QED BY <1>0, <2>1 DEF StoredInv
<1> QED BY <1>0, <1>5, <1>7, <1>8 DEF InboxInv

(* What a step of the loop may make of its state.                          *)
LEMMA LoopInv ==
    ASSUME SchedulerInv, SelectNext \/ RecoverExpiredLease \/ MoveState
    PROVE  SchedulerInv'
<1> USE DEF SchedulerInv
<1>1. worker.state # None /\ worker.state \in States
      /\ (worker.state.item = None <=> worker.state.lease = "none")
  BY DEF SelectNext, RecoverExpiredLease, MoveState, WorkerInv
<1>2. CASE SelectNext
  <2>1. PICK i \in EligibleItems :
            LoopStep([worker.state EXCEPT !.item = i, !.lease = "held", !.used = @ + Cost])
    BY <1>2 DEF SelectNext
  <2>2. i \in Items /\ i # None
    BY SchedulerBounds DEF EligibleItems
  <2>3. worker.state.used + Cost \in 0..Budget
    <3>1. Cost \in Nat /\ Budget \in Nat
      BY SchedulerBounds
    <3>2. worker.state.used \in 0..Budget
      BY <1>1 DEF States
    <3>3. worker.state.used + Cost <= Budget
      BY <1>2 DEF SelectNext, Selectable
    <3> QED BY <3>1, <3>2, <3>3
  <2>4. /\ [worker.state EXCEPT !.item = i, !.lease = "held", !.used = @ + Cost] \in States
        /\ [worker.state EXCEPT !.item = i, !.lease = "held", !.used = @ + Cost].item = i
        /\ [worker.state EXCEPT !.item = i, !.lease = "held", !.used = @ + Cost].lease = "held"
    BY <1>1, <2>2, <2>3 DEF States
  <2> QED BY <1>1, <2>1, <2>2, <2>4, LoopStepInv
<1>3. CASE RecoverExpiredLease
  <2>1. /\ Recovered(worker.state) \in States
        /\ Recovered(worker.state).item = None
        /\ Recovered(worker.state).lease = "none"
    BY <1>1 DEF Recovered, States, SchedulerStatus
  <2> QED BY <1>1, <1>3, <2>1, LoopStepInv DEF RecoverExpiredLease
<1>4. CASE MoveState
  <2>1. PICK status \in TRANSITIONS[worker.state.status] : LoopStep(Moved(worker.state, status))
    BY <1>4 DEF MoveState
  <2>2. status \in SchedulerStatus
    BY <1>1, Tables DEF States
  <2>3. /\ Moved(worker.state, status) \in States
        /\ Moved(worker.state, status).item = worker.state.item
        /\ Moved(worker.state, status).lease = worker.state.lease
    BY <1>1, <2>2 DEF Moved, States
  <2> QED BY <1>1, <2>1, <2>3, LoopStepInv
<1> QED BY <1>2, <1>3, <1>4

(* A worker that rests has no events and no state: nothing of it is left   *)
(* to keep.                                                                *)
LEMMA RestingInv ==
    ASSUME SchedulerInv, worker' = Resting, UNCHANGED journal
    PROVE  WorkerInv' /\ HistoryInv'
<1> USE DEF SchedulerInv
<1>1. /\ worker'.state = None /\ worker'.events = <<>> /\ worker'.done /\ worker'.from = 0
      /\ Len(<<>>) = 0 /\ <<>> \in Seq(Events)
      /\ worker' \in [state : States \cup {None}, events : Seq(Events), done : BOOLEAN, from : Nat]
  BY DEF Resting
<1>2. 0 <= MaxSteps
  BY SchedulerBounds
<1>3. journal' \in Seq(Events) /\ Chained(journal')
  BY DEF HistoryInv
<1>4. Chained(worker'.events)
  BY <1>1 DEF Chained
<1> QED BY <1>1, <1>2, <1>3, <1>4 DEF WorkerInv, HistoryInv

(* The beginning and the end of a loop.                                    *)
LEMMA StartEndInv ==
    ASSUME SchedulerInv, StartLoop \/ EndLoop \/ LoopLeaseExpires
    PROVE  SchedulerInv'
<1> USE DEF SchedulerInv
<1>1. UNCHANGED <<stored, command, journal, inbox, roadmap>>
  BY DEF StartLoop, EndLoop, LoopLeaseExpires
<1>2. journal' \in Seq(Events) /\ Chained(journal')
  BY <1>1 DEF HistoryInv
<1>3. worker \in [state : States \cup {None}, events : Seq(Events), done : BOOLEAN, from : Nat]
  BY DEF WorkerInv
<1>4. CASE StartLoop
  <2>1. worker' = [state |-> stored, events |-> <<>>, done |-> FALSE, from |-> 0] /\ Kept(stored)
    BY <1>4 DEF StartLoop, StoredInv
  <2>2. Len(<<>>) = 0 /\ <<>> \in Seq(Events) /\ 0 <= MaxSteps
    BY SchedulerBounds
  <2>3. WorkerInv'
    BY <2>1, <2>2 DEF WorkerInv, Kept
  <2>4. HistoryInv'
    BY <1>2, <2>1, <2>2 DEF HistoryInv, Chained
  <2>5. StoredInv'
    BY <1>1, <2>1 DEF StoredInv
  <2> QED BY <1>1, <2>3, <2>4, <2>5 DEF InboxInv
<1>5. CASE EndLoop
  <2>1. /\ worker'.state = worker.state /\ worker'.events = worker.events
        /\ worker'.done /\ worker'.from = 0
        /\ worker' \in [state : States \cup {None}, events : Seq(Events), done : BOOLEAN,
                        from : Nat]
    BY <1>3, <1>5 DEF EndLoop, WorkerInv
  <2>2. WorkerInv'
    BY <2>1 DEF WorkerInv
  <2>3. Len(journal) \in Nat /\ 1..0 = {}
    BY DEF HistoryInv
  <2>4. HistoryInv'
    BY <1>1, <1>2, <2>1, <2>3 DEF HistoryInv
  <2>5. StoredInv'
    BY <1>1, <2>1 DEF StoredInv
  <2> QED BY <1>1, <2>2, <2>4, <2>5 DEF InboxInv
<1>6. CASE LoopLeaseExpires
  <2> DEFINE next == [worker.state EXCEPT !.lease = "expired"]
  <2>1. worker.state # None /\ worker.state \in States /\ worker.state.item # None
    BY <1>6 DEF LoopLeaseExpires, WorkerInv
  <2>2. /\ next \in States /\ next.item # None /\ next.lease = "expired"
        /\ next.status = worker.state.status
    BY <2>1 DEF States
  <2>3. worker' = [worker EXCEPT !.state = next]
    BY <1>6 DEF LoopLeaseExpires
  <2> HIDE DEF next
  <2>4. /\ worker'.state = next /\ worker'.events = worker.events
        /\ worker'.done = worker.done /\ worker'.from = worker.from
        /\ worker' \in [state : States \cup {None}, events : Seq(Events), done : BOOLEAN,
                        from : Nat]
    BY <1>3, <2>2, <2>3
  <2>5. WorkerInv'
    BY <2>2, <2>4 DEF WorkerInv
  <2>6. HistoryInv'
    BY <1>1, <1>2, <2>2, <2>4 DEF HistoryInv
  <2>7. StoredInv'
    BY <1>1, <2>1 DEF StoredInv
  <2> QED BY <1>1, <2>5, <2>6, <2>7 DEF InboxInv
<1> QED BY <1>4, <1>5, <1>6

(* An event handed to the journal is there already, comes right after its  *)
(* last one, or is refused, and then no further one is handed to it.       *)
LEMMA AppendInv ==
    ASSUME SchedulerInv, AppendEvent
    PROVE  SchedulerInv'
<1> USE DEF SchedulerInv
<1> DEFINE n == worker.from + 1
           e == worker.events[n]
<1>1. UNCHANGED <<stored, command, inbox, roadmap>> /\ worker.done
  BY DEF AppendEvent
<1>2. /\ worker \in [state : States \cup {None}, events : Seq(Events), done : BOOLEAN, from : Nat]
      /\ worker.events \in Seq(Events) /\ worker.from \in Nat /\ Len(worker.events) \in Nat
      /\ worker.from < Len(worker.events)
      /\ n \in 1..Len(worker.events)
  BY DEF AppendEvent, WorkerInv
<1>3. /\ journal \in Seq(Events) /\ Chained(journal) /\ Len(journal) \in Nat
      /\ Chained(worker.events)
      /\ worker.from <= Len(journal)
      /\ \A k \in 1..worker.from : journal[k] = worker.events[k]
  BY <1>2 DEF HistoryInv
<1>4. e \in Events /\ e.sequence = n /\ (n > 1 => e.from = worker.events[worker.from].to)
  BY <1>2, <1>3 DEF Chained
<1>5. NextEvent = e
  BY DEF NextEvent
<1> HIDE DEF e
<1>6. CASE Accepted(NextEvent)
  <2>1. /\ worker' = [worker EXCEPT !.from = n]
        /\ journal' = IF n > Len(journal) THEN Append(journal, e) ELSE journal
    BY <1>4, <1>5, <1>6 DEF AppendEvent
  <2>2. (n <= Len(journal) /\ journal[n] = e) \/ n = Len(journal) + 1
    BY <1>4, <1>5, <1>6 DEF Accepted
  <2>3. /\ journal' \in Seq(Events) /\ Chained(journal')
        /\ n <= Len(journal') /\ journal'[n] = e
        /\ \A k \in 1..worker.from : journal'[k] = journal[k]
    <3>1. CASE n <= Len(journal) /\ journal[n] = e
      BY <1>2, <1>3, <2>1, <3>1
    <3>2. CASE n = Len(journal) + 1
      <4>1. journal' = Append(journal, e)
        BY <1>2, <1>3, <2>1, <3>2
      <4>2. journal # <<>> => e.from = journal[Len(journal)].to
        <5>1. worker.from = Len(journal)
          BY <1>2, <1>3, <3>2
        <5>2. ASSUME journal # <<>> PROVE n > 1 /\ journal[Len(journal)] = worker.events[worker.from]
          <6>1. Len(journal) > 0
            BY <1>3, <5>2
          <6> QED BY <1>2, <1>3, <5>1, <6>1
        <5> QED BY <1>4, <5>1, <5>2
      <4>3. Chained(journal')
        BY <1>3, <1>4, <3>2, <4>1, <4>2, ChainedAppend
      <4> QED BY <1>2, <1>3, <1>4, <3>2, <4>1, <4>3
    <3> QED BY <2>2, <3>1, <3>2
  <2>4. /\ worker'.state = worker.state /\ worker'.events = worker.events
        /\ worker'.done /\ worker'.from = n
        /\ worker' \in [state : States \cup {None}, events : Seq(Events), done : BOOLEAN,
                        from : Nat]
    BY <1>1, <1>2, <2>1
  <2>5. \A k \in 1..n : journal'[k] = worker.events[k]
    <3>1. \A k \in 1..n : k \in 1..worker.from \/ k = n
      BY <1>2
    <3> QED BY <1>3, <2>3, <3>1 DEF e
  <2>6. HistoryInv'
    BY <1>3, <2>3, <2>4, <2>5 DEF HistoryInv
  <2>7. WorkerInv'
    BY <2>4 DEF WorkerInv
  <2>8. StoredInv'
    BY <1>1, <2>4 DEF StoredInv
  <2> QED BY <1>1, <2>6, <2>7, <2>8 DEF InboxInv
<1>7. CASE ~Accepted(NextEvent)
  <2>1. /\ worker' = [worker EXCEPT !.from = Len(worker.events)]
        /\ journal' = journal
    BY <1>7 DEF AppendEvent
  <2>2. /\ worker'.state = worker.state /\ worker'.events = worker.events
        /\ worker'.done /\ worker'.from = Len(worker.events)
        /\ worker' \in [state : States \cup {None}, events : Seq(Events), done : BOOLEAN,
                        from : Nat]
    BY <1>1, <1>2, <2>1
  <2>3. HistoryInv'
    BY <1>2, <1>3, <2>1, <2>2 DEF HistoryInv
  <2>4. WorkerInv'
    BY <2>2 DEF WorkerInv
  <2>5. StoredInv'
    BY <1>1, <2>2 DEF StoredInv
  <2> QED BY <1>1, <2>1, <2>3, <2>4, <2>5 DEF InboxInv
<1> QED BY <1>6, <1>7

(* The inbox and the roadmap.                                              *)
LEMMA InboxRoadmapInv ==
    ASSUME SchedulerInv, InboxStep \/ \E i \in Items : MoveItem(i)
    PROVE  SchedulerInv'
<1> USE DEF SchedulerInv
<1>1. UNCHANGED <<stored, command, worker, journal>>
  BY DEF InboxStep, Escalate, ResolveInbox, MoveItem
<1>2. StoredInv' /\ WorkerInv' /\ HistoryInv'
  BY <1>1 DEF StoredInv, WorkerInv, HistoryInv
<1>3. CASE InboxStep
  <2>1. roadmap' = roadmap
    BY <1>3 DEF InboxStep, Escalate, ResolveInbox
  <2>2. PICK id \in InboxIds : Escalate(id) \/ \E h \in Humans : ResolveInbox(id, h)
    BY <1>3 DEF InboxStep
  <2>3. ASSUME Escalate(id) PROVE InboxInv'
    <3>1. PICK risk \in Risks : inbox' = [inbox EXCEPT ![id] = [risk |-> risk, actor |-> None]]
      BY <2>3 DEF Escalate
    <3>2. [risk |-> risk, actor |-> None] \in [risk : Risks, actor : Humans \cup {None}]
      OBVIOUS
    <3> QED BY <3>1, <3>2 DEF InboxInv
  <2>4. ASSUME NEW h \in Humans, ResolveInbox(id, h) PROVE InboxInv'
    <3>1. inbox[id] \in [risk : Risks, actor : Humans \cup {None}]
      BY <2>4 DEF ResolveInbox, InboxInv
    <3>2. inbox' = [inbox EXCEPT ![id] = [inbox[id] EXCEPT !.actor = h]]
      BY <2>4 DEF ResolveInbox
    <3>3. [inbox[id] EXCEPT !.actor = h] \in [risk : Risks, actor : Humans \cup {None}]
      BY <3>1
    <3> QED BY <3>2, <3>3 DEF InboxInv
  <2>5. InboxInv'
    BY <2>2, <2>3, <2>4 DEF Escalate, InboxInv
  <2> QED BY <1>1, <1>2, <2>1, <2>5
<1>4. ASSUME NEW i \in Items, MoveItem(i) PROVE SchedulerInv'
  <2>1. PICK status \in ITEM_TRANSITIONS[roadmap[i]] : roadmap' = [roadmap EXCEPT ![i] = status]
    BY <1>4 DEF MoveItem
  <2>2. status \in RoadmapItemStatus
    BY Tables
  <2>3. roadmap' \in [Items -> RoadmapItemStatus] /\ inbox' = inbox
    BY <1>4, <2>1, <2>2 DEF MoveItem
  <2> QED BY <1>1, <1>2, <2>3 DEF InboxInv
<1> QED BY <1>3, <1>4

LEMMA SchedulerStepInv == SchedulerInv /\ [SchedulerNext]_schedulerVars => SchedulerInv'
<1> SUFFICES ASSUME SchedulerInv, [SchedulerNext]_schedulerVars PROVE SchedulerInv'
  OBVIOUS
<1> USE DEF SchedulerInv
<1>1. CASE CommandStep
  BY <1>1, CommandInv
<1>2. CASE SelectNext \/ RecoverExpiredLease \/ MoveState
  BY <1>2, LoopInv
<1>3. CASE StartLoop \/ EndLoop \/ LoopLeaseExpires
  BY <1>3, StartEndInv
<1>4. CASE AppendEvent
  BY <1>4, AppendInv
<1>5. CASE HandBack
  <2>1. worker' = Resting /\ UNCHANGED <<journal, inbox, roadmap>>
    BY <1>5 DEF HandBack
  <2>2. StoredInv' /\ command' \in [Clients -> DOMAIN CommandTarget \cup {None}]
    BY <1>5, StoreInv
  <2> QED BY <2>1, <2>2, RestingInv DEF InboxInv
<1>6. CASE WorkerDies
  <2>1. worker' = Resting /\ UNCHANGED <<stored, command, journal, inbox, roadmap>>
    BY <1>6 DEF WorkerDies
  <2>2. StoredInv'
    BY <2>1 DEF StoredInv, Resting
  <2> QED BY <2>1, <2>2, RestingInv DEF InboxInv
<1>7. CASE InboxStep \/ \E i \in Items : MoveItem(i)
  BY <1>7, InboxRoadmapInv
<1>8. CASE UNCHANGED schedulerVars
  BY <1>8 DEF schedulerVars, StoredInv, WorkerInv, HistoryInv, InboxInv
<1> QED BY <1>1, <1>2, <1>3, <1>4, <1>5, <1>6, <1>7, <1>8 DEF SchedulerNext, WorkerStep

-----------------------------------------------------------------------------
(* The files and the loop only ever hold values of their types: the budget *)
(* is never overspent, and a lease goes exactly with a claimed item        *)
(* (scheduler_models.py's state, the loop of scheduler_loop.py).           *)
THEOREM SchedulerTypes == SchedulerSpec => []SchedulerTypeOK
<1>1. SchedulerInv => SchedulerTypeOK
  BY DEF SchedulerInv, StoredInv, WorkerInv, InboxInv, Kept, States, SchedulerTypeOK, StateOK
<1> QED BY <1>1, SchedulerInitInv, SchedulerStepInv, PTL DEF SchedulerSpec

(* The journal append_event builds is the history of some loop, whoever    *)
(* numbered its events from 1 again and whoever died between two appends.  *)
THEOREM JournalIsHistory == SchedulerSpec => []JournalChain
<1>1. SchedulerInv => JournalChain
  BY DEF SchedulerInv, HistoryInv, Chained, JournalChain
<1> QED BY <1>1, SchedulerInitInv, SchedulerStepInv, PTL DEF SchedulerSpec

(* A complete roadmap stays one: its items are done or superseded, none of *)
(* them is eligible, and a superseded item is all a done one may become.   *)
LEMMA RoadmapStaysComplete ==
    ASSUME SchedulerInv, [SchedulerNext]_schedulerVars, RoadmapVerdict = "COMPLETED"
    PROVE  RoadmapVerdict' = "COMPLETED"
<1> USE DEF SchedulerInv
<1>1. Unfinished = {}
  BY DEF RoadmapVerdict
<1>2. Unfinished' = {}
  <2>1. CASE UNCHANGED roadmap
    BY <1>1, <2>1 DEF Unfinished
  <2>2. ASSUME NEW i \in Items, MoveItem(i) PROVE Unfinished' = {}
    <3>1. PICK status \in ITEM_TRANSITIONS[roadmap[i]] : roadmap' = [roadmap EXCEPT ![i] = status]
      BY <2>2 DEF MoveItem
    <3>2. roadmap[i] \in {"COMPLETED", "SUPERSEDED"}
      BY <1>1 DEF Unfinished
    <3>3. status = "SUPERSEDED"
      BY <3>2, Tables
    <3> QED BY <1>1, <3>1, <3>3 DEF Unfinished
  <2> QED BY <2>1, <2>2 DEF SchedulerNext, schedulerVars, CommandStep, CreateState, LoadForCommand, ApplyCommand,
        WorkerStep, StartLoop, SelectNext, RecoverExpiredLease, MoveState, LoopStep, EndLoop,
        AppendEvent, HandBack, WorkerDies, LoopLeaseExpires, InboxStep, Escalate, ResolveInbox
<1>3. EligibleItems' = {}
  BY <1>2 DEF EligibleItems, Unfinished
<1> QED BY <1>2, <1>3 DEF RoadmapVerdict

(* A scheduler that has ended stays ended: the table transition consults   *)
(* under the lock has nothing for it, so neither a command decided on an   *)
(* older state nor a loop's PAUSED moves it.                               *)
LEMMA EndedStaysEnded ==
    ASSUME SchedulerInv, [SchedulerNext]_schedulerVars, stored # None, stored.status \in TERMINAL_STATES
    PROVE  stored' = stored
<1>1. \A status : Transitioned(stored, status) = stored
  BY Tables DEF Transitioned
<1> QED BY <1>1 DEF SchedulerNext, schedulerVars, CommandStep, CreateState, LoadForCommand, ApplyCommand,
      WorkerStep, StartLoop, SelectNext, RecoverExpiredLease, MoveState, LoopStep, EndLoop,
      AppendEvent, HandBack, WorkerDies, LoopLeaseExpires, InboxStep, Escalate, ResolveInbox,
      MoveItem

(* An item put before a human keeps its risk, and once resolved its        *)
(* resolution.                                                             *)
LEMMA ItemsAreKept ==
    ASSUME SchedulerInv, [SchedulerNext]_schedulerVars, NEW id \in InboxIds, inbox[id] # None
    PROVE  /\ inbox[id]' # None
           /\ inbox[id]'.risk = inbox[id].risk
           /\ inbox[id].actor # None => inbox[id]' = inbox[id]
<1>1. CASE UNCHANGED inbox
  BY <1>1
<1>2. ASSUME NEW d \in InboxIds, Escalate(d) PROVE inbox'[id] = inbox[id]
  BY <1>2 DEF Escalate, SchedulerInv, InboxInv
<1>3. ASSUME NEW d \in InboxIds, NEW h \in Humans, ResolveInbox(d, h)
      PROVE  /\ inbox[id]' # None
             /\ inbox[id]'.risk = inbox[id].risk
             /\ inbox[id].actor # None => inbox[id]' = inbox[id]
  <2> DEFINE resolved == [inbox[d] EXCEPT !.actor = h]
  <2>1. /\ inbox[d] \in [risk : Risks, actor : Humans \cup {None}]
        /\ inbox[d].actor = None
        /\ inbox' = [inbox EXCEPT ![d] = resolved]
        /\ d \in DOMAIN inbox
    BY <1>3 DEF ResolveInbox, Resolvable, SchedulerInv, InboxInv
  <2>2. /\ resolved \in [risk : Risks, actor : Humans \cup {None}]
        /\ resolved.risk = inbox[d].risk
    BY <2>1
  <2> HIDE DEF resolved
  <2>3. resolved # None
    BY <2>2, NoneIsNoItem
  <2>4. inbox'[id] = IF id = d THEN resolved ELSE inbox[id]
    BY <2>1 DEF SchedulerInv, InboxInv
  <2> QED BY <2>1, <2>2, <2>3, <2>4
<1> QED BY <1>1, <1>2, <1>3 DEF SchedulerNext, schedulerVars, CommandStep, CreateState, LoadForCommand,
      ApplyCommand, WorkerStep, StartLoop, SelectNext, RecoverExpiredLease, MoveState,
      LoopStep, EndLoop, AppendEvent, HandBack, WorkerDies, LoopLeaseExpires, InboxStep, MoveItem

(* What is settled stays settled: an ended scheduler (transition), a       *)
(* human's resolution (resolve), a completed roadmap (assess_roadmap).     *)
THEOREM SettledForGood == SchedulerSpec => SettledStays
<1>1. SchedulerInv /\ [SchedulerNext]_schedulerVars =>
        [/\ stored # None /\ stored.status \in TERMINAL_STATES => stored' = stored
         /\ \A id \in InboxIds :
               inbox[id] # None =>
                  /\ inbox[id]' # None
                  /\ inbox[id]'.risk = inbox[id].risk
                  /\ inbox[id].actor # None => inbox[id]' = inbox[id]
         /\ RoadmapVerdict = "COMPLETED" => RoadmapVerdict' = "COMPLETED"]_schedulerVars
  BY RoadmapStaysComplete, EndedStaysEnded, ItemsAreKept
<1> QED BY <1>1, SchedulerInitInv, SchedulerStepInv, PTL DEF SchedulerSpec, SettledStays

-----------------------------------------------------------------------------
(* Governed campaigns: the shapes of the records, and with them that a     *)
(* campaign's record keeps within its retries and names a plan that exists.*)

SessionStatuses ==
    {"READY", "RETRY_REQUIRED", "BLOCKED", "NO_JUSTIFIED_WORK", "STALE", "COMPLETED"}
CampaignStatuses == {"ABSENT", "RUNNING", "RETRY_BACKOFF", "WAITING_GITHUB"} \cup FinalStatuses
Answers == {"CONTINUE", "RETRY", "WAIT"} \cup FinalStatuses
TickLabels == {"rest", "probe", "claim", "tick", "decide", "deliver", "apply"}

PlanRecord == [base : Nat, prev : Nat, done : Tasks \cup {Nobody}, bound : BOOLEAN,
               past : SUBSET Nat]
SessionRecord == [status : SessionStatuses, base : Nat, plan : Nat, assessed : BOOLEAN,
                  human : BOOLEAN, why : {"none", "drift", "lineage"},
                  binding : Campaigns \cup {Nobody}, advanced : BOOLEAN,
                  former : SUBSET Campaigns]
CampaignRecords == [status : CampaignStatuses, target : Nat, lineage : Nat, generation : Nat,
                    retry : 0..Retries, resource : {"none", "boundary", "delivery"}]
IntentRecord == [task : Tasks, base : Nat, plan : Nat]
RunRecord == [pc : TickLabels, campaign : Campaigns \cup {Nobody},
              seen : SessionRecord \cup {Nobody}, task : Tasks \cup {Nobody},
              result : Answers \cup {"none"}]

GovernedShapes ==
    /\ target \in Seq(intents \cup {Foreign})
    /\ plans \in Seq(PlanRecord)
    /\ sess \in SessionRecord /\ sess.plan \in 1..Len(plans) /\ sess.base <= Len(target)
    /\ intents \subseteq IntentRecord
    /\ dispatch \in [failed : 0..Limit, uncertain : Tasks \cup {Nobody}]
    /\ file \in Campaigns \cup {Nobody}
    /\ slots \in [Campaigns -> 0..Retries + 1]
    /\ camp \in [Campaigns -> CampaignRecords]
    /\ \A c \in Campaigns : camp[c].lineage <= Len(plans)
    /\ authority \in [generation : Nat, stopped : BOOLEAN, accepted : BOOLEAN]
    /\ run \in RunRecord
    /\ used \in [moves : Nat, crashes : Nat]

(* Whoever is in a tick is in the tick of a registered campaign, and a     *)
(* delivery was admitted below the limit.                                  *)
InTick ==
    /\ ~At("rest") => Me \in Campaigns /\ camp[Me].status # "ABSENT"
    /\ At("apply") => run.result \in Answers
    /\ At("deliver") => run.task \in Tasks /\ dispatch.failed < Limit

(* The session is bound to the campaign of the file, and whoever has paid  *)
(* is that campaign or one that an external advance displaced.             *)
Paid ==
    /\ sess.binding # Nobody => file = sess.binding
    /\ \A c \in Campaigns : slots[c] > 0 => c = file \/ c \in sess.former

(* A completion on its way to the campaign is of the session as it is, or  *)
(* of a session whose lineage has left the campaign's plan behind.         *)
Completing ==
    At("apply") /\ run.result = "COMPLETE" =>
        /\ authority.accepted
        /\ \/ sess.status = "COMPLETED" /\ AllIntegrated
           \/ camp[Me].lineage \notin Chain(sess.plan)

GovernedInv == GovernedShapes /\ InTick /\ Paid /\ Completing


-----------------------------------------------------------------------------
(* The operators of the handlers.                                          *)

\* Writing a field of a campaign's record leaves the other records and fields alone.
LEMMA WrittenRecord ==
    ASSUME NEW old \in [Campaigns -> CampaignRecords], NEW c \in Campaigns,
           NEW status \in CampaignStatuses, NEW retry \in 0..Retries,
           NEW resource \in {"none", "boundary", "delivery"}
    PROVE  LET new == [old EXCEPT ![c].status = status, ![c].retry = retry,
                                    ![c].resource = resource] IN
           /\ new \in [Campaigns -> CampaignRecords]
           /\ new[c].status = status
           /\ \A d \in Campaigns : new[d].lineage = old[d].lineage
           /\ \A d \in Campaigns : d # c => new[d] = old[d]
<1> DEFINE written == [old[c] EXCEPT !.status = status, !.retry = retry, !.resource = resource]
           new == [old EXCEPT ![c].status = status, ![c].retry = retry,
                              ![c].resource = resource]
<1>1. old[c] \in CampaignRecords
    OBVIOUS
<1>2. written \in CampaignRecords /\ written.status = status /\ written.lineage = old[c].lineage
    BY <1>1 DEF CampaignRecords
<1>3. new = [old EXCEPT ![c] = written]
    BY <1>1 DEF CampaignRecords
<1> HIDE DEF written, new
<1>4. /\ new \in [Campaigns -> CampaignRecords] /\ new[c] = written
      /\ \A d \in Campaigns : d # c => new[d] = old[d]
    BY <1>2, <1>3
<1>5. /\ new[c].status = status
      /\ \A d \in Campaigns : new[d].lineage = old[d].lineage
    BY <1>2, <1>4
<1> QED
    BY <1>4, <1>5 DEF new

\* A record that is charged a retry, or cannot be, is one that was not more.
LEMMA ChargedRecord ==
    ASSUME camp \in [Campaigns -> CampaignRecords], NEW c \in Campaigns
    PROVE  /\ Charged(c) \in [Campaigns -> CampaignRecords]
           /\ \A d \in Campaigns : Charged(c)[d].lineage = camp[d].lineage
           /\ \A d \in Campaigns : d # c => Charged(c)[d] = camp[d]
           /\ Charged(c)[c].status \in {"RETRY_BACKOFF", "BLOCKED_NON_RETRYABLE"}
<1>1. camp[c].retry \in 0..Retries /\ camp[c].resource \in {"none", "boundary", "delivery"}
    BY DEF CampaignRecords, CampaignStatuses, FinalStatuses
<1>2. CASE camp[c].retry < Retries
  <2>1. Retries \in Nat
    BY CampaignBounds
  <2>2. camp[c].retry + 1 \in 0..Retries
    BY <1>1, <1>2, <2>1
  <2>3. PICK resource \in {"none", "boundary", "delivery"} :
          Charged(c) = [camp EXCEPT ![c].status = "RETRY_BACKOFF", ![c].retry = camp[c].retry + 1,
                                    ![c].resource = resource]
    <3>1. CASE camp[c].resource = "none"
      BY <1>2, <3>1 DEF Charged
    <3>2. CASE camp[c].resource # "none"
      BY <1>1, <1>2, <3>2 DEF Charged
    <3> QED
      BY <3>1, <3>2
  <2> QED
    BY <2>2, <2>3 DEF CampaignRecords, CampaignStatuses, FinalStatuses
<1>3. CASE ~(camp[c].retry < Retries)
  <2>1. Charged(c) = [camp EXCEPT ![c].status = "BLOCKED_NON_RETRYABLE"]
    BY <1>3 DEF Charged
  <2> QED
    BY <2>1 DEF CampaignRecords, CampaignStatuses, FinalStatuses
<1> QED
    BY <1>2, <1>3

\* A campaign that follows the session takes its base and its plan.
LEMMA FollowedRecord ==
    ASSUME camp \in [Campaigns -> CampaignRecords], sess \in SessionRecord,
           NEW c \in Campaigns, NEW status \in CampaignStatuses
    PROVE  /\ Followed(c, status) \in [Campaigns -> CampaignRecords]
           /\ Followed(c, status)[c].lineage = sess.plan
           /\ Followed(c, status)[c].target = sess.base
           /\ Followed(c, status)[c].status = status
           /\ \A d \in Campaigns : d # c => Followed(c, status)[d] = camp[d]
<1>1. sess.base \in Nat /\ sess.plan \in Nat
    BY DEF SessionRecord
<1> QED
    BY <1>1 DEF Followed, CampaignRecords

\* A delivery that is observed is one of the intents.
LEMMA ObservedDelivery ==
    ASSUME Exact
    PROVE  (CHOOSE i \in Observed : TRUE) \in intents
<1>1. Cardinality(Observed) = 1
    BY DEF Exact
<1>2. Cardinality({}) = 0
    BY FS_EmptySet, Zenon
<1>3. Observed # {}
    BY <1>1, <1>2
<1>4. (CHOOSE i \in Observed : TRUE) \in Observed
    BY <1>3
<1> QED
    BY <1>4 DEF Observed

\* A plan that is written goes behind the others and has the session's lineage in its past.
LEMMA ExtendedPlans ==
    ASSUME plans \in Seq(PlanRecord), sess.plan \in 1..Len(plans),
           NEW base \in Nat, NEW done \in Tasks \cup {Nobody}, NEW bound \in BOOLEAN
    PROVE  /\ Extend(base, done, bound) \in Seq(PlanRecord)
           /\ Len(Extend(base, done, bound)) = Len(plans) + 1
           /\ \A p \in 1..Len(plans) : Extend(base, done, bound)[p] = plans[p]
           /\ Extend(base, done, bound)[Len(plans) + 1].past = Chain(sess.plan)
<1>1. Plan(base, sess.plan, done, bound) \in PlanRecord
  <2>1. sess.plan \in Nat /\ plans[sess.plan] \in PlanRecord
    OBVIOUS
  <2>1a. plans[sess.plan].past \in SUBSET Nat
    BY <2>1 DEF PlanRecord
  <2>2. (IF sess.plan = 0 THEN {} ELSE Chain(sess.plan)) \in SUBSET Nat
    BY <2>1, <2>1a DEF Chain
  <2> QED
    BY <2>1, <2>2 DEF Plan, PlanRecord
<1>2. Plan(base, sess.plan, done, bound).past = Chain(sess.plan)
    BY DEF Plan
<1> QED
    BY <1>1, <1>2 DEF Extend

\* What a command writes into the session record, and what it leaves alone.
LEMMA MarkedStale ==
    ASSUME sess \in SessionRecord, NEW why \in {"drift", "lineage"}
    PROVE  /\ Stale(why) \in SessionRecord
           /\ Stale(why).status = "STALE"
           /\ Stale(why).base = sess.base /\ Stale(why).plan = sess.plan
           /\ Stale(why).binding = sess.binding /\ Stale(why).former = sess.former
    BY DEF Stale, SessionRecord, SessionStatuses

\* A resumption leaves the session and its plans alone, marks it STALE, or
\* reconciles a delivery into a new plan.
LEMMA ResumedCases ==
    ASSUME sess \in SessionRecord, intents \subseteq IntentRecord, Len(target) \in Nat,
           Len(plans) \in Nat
    PROVE  /\ Resumed.sess \in SessionRecord
           /\ Resumed.sess.binding = sess.binding /\ Resumed.sess.former = sess.former
           /\ \/ Resumed.sess = sess /\ Resumed.plans = plans
              \/ /\ Resumed.sess.status = "STALE" /\ Resumed.sess.plan = sess.plan
                 /\ Resumed.sess.base = sess.base /\ Resumed.plans = plans
              \/ /\ Resumed.sess.status = "READY" /\ Resumed.sess.plan = Len(plans) + 1
                 /\ Resumed.sess.base = Len(target)
                 /\ \E t \in Tasks : Resumed.plans = Extend(Len(target), t, FALSE)
<1>1. CASE Len(target) = sess.base /\ sess.plan # 0 /\ OneBase(sess.plan)
  <2>1. Resumed = [sess |-> sess, plans |-> plans]
    BY <1>1 DEF Resumed
  <2> QED
    BY <2>1
<1>2. CASE Len(target) = sess.base /\ ~(sess.plan # 0 /\ OneBase(sess.plan))
  <2>1. Resumed = [sess |-> Stale("lineage"), plans |-> plans]
    BY <1>2 DEF Resumed
  <2> QED
    BY <2>1, MarkedStale
<1>3. CASE Len(target) # sess.base /\ ~Exact
  <2>1. Resumed = [sess |-> Stale("drift"), plans |-> plans]
    BY <1>3 DEF Resumed
  <2> QED
    BY <2>1, MarkedStale
<1>4. CASE Len(target) # sess.base /\ Exact
  <2> DEFINE i == CHOOSE i \in Observed : TRUE
             new == [sess EXCEPT !.status = "READY", !.base = Len(target), !.plan = Len(plans) + 1]
             more == Extend(Len(target), i.task, FALSE)
  <2>1. i.task \in Tasks
    BY <1>4, ObservedDelivery DEF IntentRecord
  <2>2. Resumed = [sess |-> new, plans |-> more]
    BY <1>4 DEF Resumed
  <2>3. /\ new \in SessionRecord
        /\ new.status = "READY" /\ new.base = Len(target) /\ new.plan = Len(plans) + 1
        /\ new.binding = sess.binding /\ new.former = sess.former
    <3>1. Len(target) \in Nat /\ Len(plans) + 1 \in Nat
      OBVIOUS
    <3> QED
      BY <3>1 DEF SessionRecord, SessionStatuses
  <2>4. \E t \in Tasks : more = Extend(Len(target), t, FALSE)
    BY <2>1
  <2> HIDE DEF new, more
  <2> QED
    BY <2>2, <2>3, <2>4
<1> QED
    BY <1>1, <1>2, <1>3, <1>4

\* An answer of the continuation goes to the campaign of the tick.
LEMMA Returned ==
    ASSUME NEW result \in Answers, Me \in Campaigns, Return(result)
    PROVE  /\ run' \in RunRecord
           /\ run'.pc = "apply" /\ run'.campaign = Me /\ run'.result = result
<1>1. run' = [pc |-> "apply", campaign |-> Me, seen |-> Nobody, task |-> Nobody,
              result |-> result]
    BY DEF Return, Rest, Me
<1> QED
    BY <1>1 DEF RunRecord, TickLabels

\* The daemon that goes on is in the same tick.
LEMMA Proceeded ==
    ASSUME run \in RunRecord, NEW label \in TickLabels, Proceed(label)
    PROVE  /\ run' \in RunRecord
           /\ run'.pc = label /\ run'.campaign = Me
    BY DEF Proceed, RunRecord, Me

LEMMA Rested ==
    ASSUME run' = Rest
    PROVE  run' \in RunRecord /\ run'.pc = "rest"
    BY DEF Rest, RunRecord, TickLabels

\* An assessment writes a plan and is charged to the campaign of the session.
LEMMA AssessedShapes ==
    ASSUME GovernedShapes, NEW verdict \in Verdicts, Assessed(verdict)
    PROVE  /\ plans' = Extend(sess.base, Nobody, FALSE)
           /\ plans' \in Seq(PlanRecord) /\ Len(plans') = Len(plans) + 1
           /\ sess' \in SessionRecord
           /\ sess'.plan = Len(plans) + 1 /\ sess'.base = sess.base
           /\ sess'.binding = sess.binding /\ sess'.former = sess.former
           /\ slots' \in [Campaigns -> 0..Retries + 1]
           /\ \A c \in Campaigns : c # sess.binding => slots'[c] = slots[c]
<1> USE DEF GovernedShapes
<1>1. sess.base \in Nat /\ sess.binding \in Campaigns \cup {Nobody}
    BY DEF SessionRecord
<1>2. /\ plans' = Extend(sess.base, Nobody, FALSE)
      /\ plans' \in Seq(PlanRecord) /\ Len(plans') = Len(plans) + 1
    BY <1>1, ExtendedPlans DEF Assessed
<1>3. /\ sess' \in SessionRecord
      /\ sess'.plan = Len(plans) + 1 /\ sess'.base = sess.base
      /\ sess'.binding = sess.binding /\ sess'.former = sess.former
  <2>1. Len(plans) + 1 \in Nat /\ verdict \in SessionStatuses
    BY DEF Verdicts, SessionStatuses
  <2>2. sess' = [sess EXCEPT !.status = verdict, !.plan = Len(plans) + 1, !.assessed = TRUE]
    BY DEF Assessed
  <2> QED
    BY <2>1, <2>2 DEF SessionRecord
<1>4. /\ slots' \in [Campaigns -> 0..Retries + 1]
      /\ \A c \in Campaigns : c # sess.binding => slots'[c] = slots[c]
  <2>1. CASE sess.binding = Nobody
    BY <2>1 DEF Assessed, Invoked
  <2>2. CASE sess.binding \in Campaigns
    <3>1. slots[sess.binding] <= Retries
      BY <2>2, NobodyIsOther DEF Assessed, MayInvoke
    <3>2. slots' = [slots EXCEPT ![sess.binding] = slots[sess.binding] + 1]
      BY <2>2, NobodyIsOther DEF Assessed, Invoked
    <3>3. slots[sess.binding] \in 0..Retries + 1 /\ Retries \in Nat
      BY <2>2, CampaignBounds
    <3> QED
      BY <2>2, <3>1, <3>2, <3>3
  <2> QED
    BY <1>1, <2>1, <2>2
<1> QED
    BY <1>2, <1>3, <1>4

LEMMA GovernedInitially ==
    ASSUME GovernedInit
    PROVE  GovernedShapes /\ InTick /\ Paid /\ Completing
<1> USE DEF GovernedInit
<1>1. Plan(0, 0, Nobody, FALSE) \in PlanRecord
    BY DEF Plan, PlanRecord
<1>2. plans \in Seq(PlanRecord) /\ Len(plans) = 1
  <2>1. plans = <<Plan(0, 0, Nobody, FALSE)>>
    OBVIOUS
  <2>2. \A p \in PlanRecord : <<p>> \in Seq(PlanRecord) /\ Len(<<p>>) = 1
    OBVIOUS
  <2> HIDE DEF GovernedInit
  <2> QED
    BY <1>1, <2>1, <2>2, Zenon
<1>3. sess \in SessionRecord /\ sess.plan = 1 /\ sess.base = 0
    BY DEF SessionRecord, SessionStatuses
<1>4. camp \in [Campaigns -> CampaignRecords] /\ \A c \in Campaigns : camp[c].lineage = 0
    BY CampaignBounds DEF Absent, CampaignRecords, CampaignStatuses
<1>5. run \in RunRecord /\ run.pc = "rest"
    BY DEF Rest, RunRecord, TickLabels
<1>6. target \in Seq(intents \cup {Foreign}) /\ Len(target) = 0
    OBVIOUS
<1>7. GovernedShapes
  <2>1. dispatch \in [failed : 0..Limit, uncertain : Tasks \cup {Nobody}]
    BY CampaignBounds
  <2>2. slots \in [Campaigns -> 0..Retries + 1]
    BY CampaignBounds
  <2>3. authority \in [generation : Nat, stopped : BOOLEAN, accepted : BOOLEAN]
    OBVIOUS
  <2>4. file \in Campaigns \cup {Nobody} /\ intents \subseteq IntentRecord
    OBVIOUS
  <2>5. used \in [moves : Nat, crashes : Nat]
    OBVIOUS
  <2> HIDE DEF GovernedInit
  <2> QED
    BY <1>2, <1>3, <1>4, <1>5, <1>6, <2>1, <2>2, <2>3, <2>4, <2>5 DEF GovernedShapes
<1>8. InTick /\ Completing
    BY <1>5 DEF InTick, Completing, At
<1>9. Paid
    BY DEF Paid
<1> QED
    BY <1>7, <1>8, <1>9

-----------------------------------------------------------------------------
(* Every step keeps the shapes and the places.                             *)

GovernedKept == GovernedShapes' /\ InTick'

\* A step of the daemon on campaign records and its own place only.
LEMMA DaemonMoves ==
    ASSUME GovernedShapes, camp' \in [Campaigns -> CampaignRecords], run' \in RunRecord,
           \A c \in Campaigns : camp'[c].lineage \in {camp[c].lineage, sess.plan},
           UNCHANGED <<target, sessionVars, file, authority>>,
           used' \in [moves : Nat, crashes : Nat]
    PROVE  GovernedShapes'
<1>1. /\ target' = target /\ plans' = plans /\ sess' = sess /\ intents' = intents
      /\ dispatch' = dispatch /\ slots' = slots /\ file' = file /\ authority' = authority
    BY DEF sessionVars
<1>2. \A c \in Campaigns : camp'[c].lineage <= Len(plans')
  <2>1. sess.plan <= Len(plans) /\ \A c \in Campaigns : camp[c].lineage <= Len(plans)
    BY DEF GovernedShapes
  <2> QED
    BY <1>1, <2>1
<1> QED
    BY <1>1, <1>2 DEF GovernedShapes

LEMMA BeginTickKept ==
    ASSUME GovernedShapes, InTick, NEW c \in Campaigns, BeginTick(c)
    PROVE  GovernedKept
<1>1. /\ run' \in RunRecord
      /\ run'.pc \in {"claim", "probe"} /\ run'.campaign = c
    BY DEF BeginTick, GovernedShapes, RunRecord, TickLabels
<1>2. GovernedShapes'
    BY <1>1, DaemonMoves DEF BeginTick, GovernedShapes
<1>3. InTick'
    BY <1>1 DEF BeginTick, InTick, At, Me
<1> QED
    BY <1>2, <1>3 DEF GovernedKept

\* A campaign that is charged is left to another tick.
LEMMA ChargedKept ==
    ASSUME GovernedShapes, InTick, ~At("rest"), camp' = Charged(Me), run' = Rest,
           UNCHANGED <<target, sessionVars, file, authority>>,
           used' \in [moves : Nat, crashes : Nat]
    PROVE  GovernedKept
<1>1. Me \in Campaigns
    BY DEF InTick
<1>2. /\ camp' \in [Campaigns -> CampaignRecords]
      /\ \A c \in Campaigns : camp'[c].lineage = camp[c].lineage
    BY <1>1, ChargedRecord DEF GovernedShapes
<1>3. run' \in RunRecord /\ run'.pc = "rest"
    BY Rested
<1>4. GovernedShapes'
    BY <1>2, <1>3, DaemonMoves
<1>5. InTick'
    BY <1>3 DEF InTick, At
<1> QED
    BY <1>4, <1>5 DEF GovernedKept

LEMMA ProbeKept ==
    ASSUME GovernedShapes, InTick, ProbeDriver
    PROVE  GovernedKept
<1>1. used' \in [moves : Nat, crashes : Nat]
    BY DEF ProbeDriver, GovernedShapes
<1>2. ~At("rest") /\ Me \in Campaigns
    BY DEF ProbeDriver, InTick, At
<1>3. CASE Snapshot(camp[Me]) /\ BudgetBound(Me) /\ Ready(Me)
  <2>1. camp' = [camp EXCEPT ![Me].status = "RUNNING", ![Me].resource = "none"]
    BY <1>3 DEF ProbeDriver
  <2>2. /\ camp' \in [Campaigns -> CampaignRecords]
        /\ \A c \in Campaigns : camp'[c].lineage = camp[c].lineage
        /\ camp'[Me].status = "RUNNING"
    <3> DEFINE written == [camp[Me] EXCEPT !.status = "RUNNING", !.resource = "none"]
    <3>1. camp \in [Campaigns -> CampaignRecords] /\ camp[Me] \in CampaignRecords
      BY <1>2 DEF GovernedShapes
    <3>2. "RUNNING" \in CampaignStatuses
      BY DEF CampaignStatuses
    <3>3. /\ written \in CampaignRecords /\ written.status = "RUNNING"
          /\ written.lineage = camp[Me].lineage
      BY <3>1, <3>2 DEF CampaignRecords
    <3>4. camp' = [camp EXCEPT ![Me] = written]
      BY <1>2, <2>1, <3>1 DEF CampaignRecords
    <3> HIDE DEF written
    <3> QED
      BY <1>2, <3>1, <3>3, <3>4
  <2>3. /\ run' \in RunRecord
        /\ run'.pc = "claim" /\ run'.campaign = Me
    BY <1>3, Proceeded DEF ProbeDriver, GovernedShapes, TickLabels
  <2>4. GovernedShapes'
    BY <1>1, <2>2, <2>3, DaemonMoves DEF ProbeDriver
  <2>5. InTick'
    BY <1>2, <2>2, <2>3 DEF InTick, At, Me
  <2> QED
    BY <2>4, <2>5 DEF GovernedKept
<1>4. CASE ~(Snapshot(camp[Me]) /\ BudgetBound(Me) /\ Ready(Me))
    BY <1>1, <1>2, <1>4, ChargedKept DEF ProbeDriver
<1> QED
    BY <1>3, <1>4

LEMMA WorkKept ==
    ASSUME GovernedShapes, InTick, WorkDriver
    PROVE  GovernedKept
<1>1. used' \in [moves : Nat, crashes : Nat]
    BY DEF WorkDriver, GovernedShapes
<1>2. ~At("rest") /\ Me \in Campaigns
    BY DEF WorkDriver, InTick, At
<1>3. CASE Snapshot(camp[Me]) /\ BudgetBound(Me)
  <2>1. camp' = camp
    BY <1>3 DEF WorkDriver
  <2>2. /\ run' \in RunRecord
        /\ run'.pc = "tick" /\ run'.campaign = Me
    BY <1>3, Proceeded DEF WorkDriver, GovernedShapes, TickLabels
  <2>3. GovernedShapes'
    BY <1>1, <2>1, <2>2, DaemonMoves DEF WorkDriver, GovernedShapes
  <2>4. InTick'
    BY <1>2, <2>1, <2>2 DEF InTick, At, Me
  <2> QED
    BY <2>3, <2>4 DEF GovernedKept
<1>4. CASE ~(Snapshot(camp[Me]) /\ BudgetBound(Me))
    BY <1>1, <1>2, <1>4, ChargedKept DEF WorkDriver
<1> QED
    BY <1>3, <1>4

LEMMA ContendedKept ==
    ASSUME GovernedShapes, InTick, Contended
    PROVE  GovernedKept
<1>1. used' \in [moves : Nat, crashes : Nat]
    BY DEF Contended, GovernedShapes
<1> QED
    BY <1>1, ChargedKept DEF Contended, At

\* Whoever changes the session leaves plans behind that hold the lineages.
LEMMA SessionMoves ==
    ASSUME GovernedShapes, sess' \in SessionRecord, plans' \in Seq(PlanRecord),
           Len(plans) <= Len(plans'), sess'.plan \in 1..Len(plans'), sess'.base <= Len(target),
           slots' \in [Campaigns -> 0..Retries + 1],
           UNCHANGED <<target, intents, dispatch, file, camp, authority>>,
           run' \in RunRecord, used' \in [moves : Nat, crashes : Nat]
    PROVE  GovernedShapes'
<1>1. \A c \in Campaigns : camp'[c].lineage <= Len(plans')
  <2>1. \A c \in Campaigns : camp[c] \in CampaignRecords /\ camp[c].lineage <= Len(plans)
    BY DEF GovernedShapes
  <2>2. \A c \in Campaigns : camp[c].lineage \in Nat
    BY <2>1 DEF CampaignRecords
  <2>3. Len(plans) \in Nat /\ Len(plans') \in Nat
    BY DEF GovernedShapes
  <2> QED
    BY <2>1, <2>2, <2>3
<1> QED
    BY <1>1 DEF GovernedShapes

\* A resumption keeps the shapes.
LEMMA ResumedShapes ==
    ASSUME GovernedShapes, sess' = Resumed.sess, plans' = Resumed.plans
    PROVE  /\ sess' \in SessionRecord /\ plans' \in Seq(PlanRecord)
           /\ Len(plans) <= Len(plans') /\ sess'.plan \in 1..Len(plans')
           /\ sess'.base <= Len(target)
           /\ sess'.binding = sess.binding /\ sess'.former = sess.former
<1> USE DEF GovernedShapes
<1>1. Len(plans) \in Nat /\ Len(target) \in Nat
    OBVIOUS
<1>2. /\ sess' \in SessionRecord
      /\ sess'.binding = sess.binding /\ sess'.former = sess.former
    BY <1>1, ResumedCases
<1>3. CASE plans' = plans /\ sess'.plan = sess.plan /\ sess'.base = sess.base
    BY <1>1, <1>2, <1>3
<1>4. CASE /\ sess'.plan = Len(plans) + 1 /\ sess'.base = Len(target)
           /\ \E t \in Tasks : plans' = Extend(Len(target), t, FALSE)
  <2>1. PICK t \in Tasks : plans' = Extend(Len(target), t, FALSE)
    BY <1>4
  <2>2. /\ Extend(Len(target), t, FALSE) \in Seq(PlanRecord)
        /\ Len(Extend(Len(target), t, FALSE)) = Len(plans) + 1
    BY <1>1, ExtendedPlans
  <2>3. Len(plans') = Len(plans) + 1 /\ sess'.plan = Len(plans) + 1
    BY <1>4, <2>1, <2>2
  <2>4. sess'.plan \in 1..Len(plans')
    BY <1>1, <2>3
  <2>5. Len(plans) <= Len(plans')
    BY <1>1, <2>3
  <2>6. sess'.base = Len(target)
    BY <1>4
  <2>7. sess'.base <= Len(target)
    BY <1>1, <2>6
  <2> QED
    BY <1>2, <2>1, <2>2, <2>4, <2>5, <2>7
<1> QED
    BY <1>1, <1>3, <1>4, ResumedCases

LEMMA TickKept ==
    ASSUME GovernedShapes, InTick, Tick
    PROVE  GovernedKept
<1>1. Me \in Campaigns /\ camp[Me].status # "ABSENT"
    BY DEF Tick, InTick, At
<1>2. /\ UNCHANGED <<target, intents, dispatch, slots, file, camp, authority, used>>
      /\ sess' \in SessionRecord /\ plans' \in Seq(PlanRecord)
      /\ Len(plans) <= Len(plans') /\ sess'.plan \in 1..Len(plans')
      /\ sess'.base <= Len(target)
  <2>1. CASE sess.status \in {"COMPLETED", "NO_JUSTIFIED_WORK"}
    BY <2>1 DEF Tick, GovernedShapes
  <2>2. CASE sess.status \notin {"COMPLETED", "NO_JUSTIFIED_WORK"}
    <3>1. sess' = Resumed.sess /\ plans' = Resumed.plans
      BY <2>2 DEF Tick
    <3> QED
      BY <3>1, ResumedShapes DEF Tick
  <2> QED
    BY <2>1, <2>2
<1>3. \/ \E r \in Answers : Return(r)
      \/ run' = [run EXCEPT !.pc = "decide", !.seen = sess]
    BY DEF Tick, Answers, FinalStatuses
<1>4. /\ run' \in RunRecord /\ run'.campaign = Me
      /\ \/ run'.pc = "apply" /\ run'.result \in Answers
         \/ run'.pc = "decide"
  <2>1. CASE \E r \in Answers : Return(r)
    BY <1>1, <2>1, Returned
  <2>2. CASE run' = [run EXCEPT !.pc = "decide", !.seen = sess]
    BY <2>2 DEF GovernedShapes, RunRecord, TickLabels, Me
  <2> QED
    BY <1>3, <2>1, <2>2
<1>5. GovernedShapes'
    BY <1>2, <1>4, SessionMoves DEF GovernedShapes
<1>6. InTick'
    BY <1>1, <1>2, <1>4 DEF InTick, At, Me
<1> QED
    BY <1>5, <1>6 DEF GovernedKept

\* What _tick decides leaves the tick or starts a delivery below the limit.
LEMMA AnsweredKept ==
    ASSUME GovernedShapes, InTick, At("decide") \/ At("deliver"), GovernedShapes',
           \E r \in Answers : Return(r), camp' = camp
    PROVE  GovernedKept
<1>1. Me \in Campaigns /\ camp[Me].status # "ABSENT"
    BY DEF InTick, At
<1>2. run'.pc = "apply" /\ run'.campaign = Me /\ run'.result \in Answers
    BY <1>1, Returned
<1> QED
    BY <1>1, <1>2 DEF GovernedKept, InTick, At, Me

LEMMA ReassessKept ==
    ASSUME GovernedShapes, InTick, Reassess
    PROVE  GovernedKept
<1>1. At("decide") /\ Me \in Campaigns
    BY DEF Reassess, Decide, InTick, At
<1>2. (\E r \in Answers : Return(r)) /\ run' \in RunRecord
  <2>1. \E r \in Answers : Return(r)
    BY DEF Reassess, Answers, FinalStatuses, Verdicts
  <2> QED
    BY <1>1, <2>1, Returned
<1>3. UNCHANGED <<target, intents, dispatch, file, camp, authority, used>>
    BY DEF Reassess
<1>4. GovernedShapes'
  <2>1. CASE \E verdict \in Verdicts : Assessed(verdict)
    <3>1. /\ plans' \in Seq(PlanRecord) /\ Len(plans') = Len(plans) + 1
          /\ sess' \in SessionRecord /\ sess'.plan = Len(plans) + 1 /\ sess'.base = sess.base
          /\ slots' \in [Campaigns -> 0..Retries + 1]
      BY <2>1, AssessedShapes
    <3> QED
      BY <1>2, <1>3, <3>1, SessionMoves DEF GovernedShapes
  <2>2. CASE UNCHANGED <<sess, plans, slots>>
    BY <1>2, <1>3, <2>2, SessionMoves DEF GovernedShapes
  <2>3. CASE sess' = Stale("drift") /\ UNCHANGED <<plans, slots>>
    <3>1. sess' \in SessionRecord /\ sess'.plan = sess.plan /\ sess'.base = sess.base
      BY <2>3, MarkedStale DEF GovernedShapes
    <3> QED
      BY <1>2, <1>3, <2>3, <3>1, SessionMoves DEF GovernedShapes
  <2> QED
    BY <2>1, <2>2, <2>3 DEF Reassess
<1> QED
    BY <1>1, <1>2, <1>3, <1>4, AnsweredKept

LEMMA AnswerKept ==
    ASSUME GovernedShapes, InTick, Answer
    PROVE  GovernedKept
<1>1. At("decide") /\ Me \in Campaigns
    BY DEF Answer, Decide, InTick, At
<1>2. (\E r \in Answers : Return(r)) /\ run' \in RunRecord
  <2>1. \E r \in Answers : Return(r)
    BY DEF Answer, Answers, FinalStatuses
  <2> QED
    BY <1>1, <2>1, Returned
<1>3. UNCHANGED <<target, sessionVars, file, camp, authority, used>>
    BY DEF Answer
<1>4. GovernedShapes'
    BY <1>2, <1>3, DaemonMoves DEF GovernedShapes
<1> QED
    BY <1>1, <1>2, <1>3, <1>4, AnsweredKept

LEMMA BindKept ==
    ASSUME GovernedShapes, InTick, Bind
    PROVE  GovernedKept
<1>1. At("decide") /\ Me \in Campaigns
    BY DEF Bind, Decide, InTick, At
<1>2. (\E r \in Answers : Return(r)) /\ run' \in RunRecord
  <2>1. \E r \in Answers : Return(r)
    BY DEF Bind, Answers
  <2> QED
    BY <1>1, <2>1, Returned
<1>3. UNCHANGED <<target, intents, dispatch, slots, file, camp, authority, used>>
    BY DEF Bind
<1>4. sess.base \in Nat /\ Len(plans) \in Nat
    BY DEF GovernedShapes, SessionRecord
<1>5. plans' \in Seq(PlanRecord) /\ Len(plans') = Len(plans) + 1
    BY <1>4, ExtendedPlans DEF Bind, GovernedShapes
<1>6. sess' \in SessionRecord /\ sess'.plan = Len(plans) + 1 /\ sess'.base = sess.base
  <2>1. sess' = [sess EXCEPT !.plan = Len(plans) + 1] /\ sess \in SessionRecord
    BY DEF Bind, GovernedShapes
  <2> QED
    BY <1>4, <2>1 DEF SessionRecord
<1>7. GovernedShapes'
    BY <1>2, <1>3, <1>4, <1>5, <1>6, SessionMoves DEF GovernedShapes
<1> QED
    BY <1>1, <1>2, <1>3, <1>7, AnsweredKept

LEMMA CloseKept ==
    ASSUME GovernedShapes, InTick, Close
    PROVE  GovernedKept
<1>1. At("decide") /\ Me \in Campaigns
    BY DEF Close, Decide, InTick, At
<1>2. (\E r \in Answers : Return(r)) /\ run' \in RunRecord
  <2>1. \E r \in Answers : Return(r)
    BY DEF Close, Answers, FinalStatuses
  <2> QED
    BY <1>1, <2>1, Returned
<1>3. UNCHANGED <<target, plans, intents, dispatch, slots, file, camp, authority, used>>
    BY DEF Close
<1>4. sess' \in SessionRecord /\ sess'.plan = sess.plan /\ sess'.base = sess.base
  <2>1. CASE sess' = [sess EXCEPT !.status = "COMPLETED"]
    BY <2>1 DEF GovernedShapes, SessionRecord, SessionStatuses
  <2>2. CASE UNCHANGED sess
    BY <2>2 DEF GovernedShapes
  <2> QED
    BY <2>1, <2>2 DEF Close
<1>5. GovernedShapes'
    BY <1>2, <1>3, <1>4, SessionMoves DEF GovernedShapes
<1> QED
    BY <1>1, <1>2, <1>3, <1>5, AnsweredKept

\* A delivery is decided only below the limit of failed ones.
LEMMA DecidedBelowLimit ==
    ASSUME GovernedShapes, Decision = "deliver"
    PROVE  dispatch.failed < Limit
<1>1. ~(dispatch.failed >= Limit \/ AllIntegrated)
    BY DEF Decision
<1>2. dispatch.failed \in Nat /\ Limit \in Nat
    BY CampaignBounds DEF GovernedShapes
<1> QED
    BY <1>1, <1>2

LEMMA DispatchKept ==
    ASSUME GovernedShapes, InTick, Dispatch
    PROVE  GovernedKept
<1>1. At("decide") /\ Me \in Campaigns /\ camp[Me].status # "ABSENT"
    BY DEF Dispatch, Decide, InTick, At
<1>2. UNCHANGED <<target, plans, sess, intents, slots, file, camp, authority, used>>
    BY DEF Dispatch
<1>3. CASE Return("BLOCKED_NON_RETRYABLE") /\ UNCHANGED dispatch
  <2>1. (\E r \in Answers : Return(r)) /\ run' \in RunRecord
    BY <1>1, <1>3, Returned DEF Answers, FinalStatuses
  <2>2. GovernedShapes'
    BY <1>2, <1>3, <2>1, DaemonMoves DEF GovernedShapes, sessionVars
  <2> QED
    BY <1>1, <1>2, <2>1, <2>2, AnsweredKept
<1>4. ASSUME NEW t \in Tasks, dispatch' = [dispatch EXCEPT !.uncertain = t],
             run' = [run EXCEPT !.pc = "deliver", !.task = t, !.seen = Nobody]
      PROVE  GovernedKept
  <2>1. /\ dispatch' \in [failed : 0..Limit, uncertain : Tasks \cup {Nobody}]
        /\ dispatch'.failed = dispatch.failed
    BY <1>4 DEF GovernedShapes
  <2>2. /\ run' \in RunRecord
        /\ run'.pc = "deliver" /\ run'.campaign = Me /\ run'.task = t
    BY <1>4 DEF GovernedShapes, RunRecord, TickLabels, Me
  <2>3. GovernedShapes'
    BY <1>2, <2>1, <2>2 DEF GovernedShapes
  <2>4. dispatch.failed < Limit
    BY DecidedBelowLimit DEF Dispatch, Decide
  <2>5. InTick'
    BY <1>1, <1>2, <2>1, <2>2, <2>4 DEF InTick, At, Me
  <2> QED
    BY <2>3, <2>5 DEF GovernedKept
<1> QED
    BY <1>3, <1>4 DEF Dispatch

LEMMA DeliveryRecord ==
    ASSUME GovernedShapes, run.task \in Tasks
    PROVE  Delivery \in IntentRecord
    BY DEF Delivery, IntentRecord, GovernedShapes, SessionRecord

LEMMA DeliverKept ==
    ASSUME GovernedShapes, InTick, Deliver
    PROVE  GovernedKept
<1>1. /\ At("deliver") /\ Me \in Campaigns
      /\ run.task \in Tasks /\ dispatch.failed < Limit
    BY DEF Deliver, InTick, At
<1>2. (\E r \in Answers : Return(r)) /\ run' \in RunRecord
    BY <1>1, Returned DEF Deliver, Answers
<1>3. UNCHANGED <<target, plans, sess, slots, file, camp, authority, used>>
    BY DEF Deliver
<1>4. intents' \subseteq IntentRecord /\ intents \subseteq intents'
    BY <1>1, DeliveryRecord DEF Deliver, GovernedShapes
<1>5. dispatch' \in [failed : 0..Limit, uncertain : Tasks \cup {Nobody}]
  <2>1. dispatch.failed + 1 \in 0..Limit
    <3>1. dispatch.failed \in 0..Limit
      BY DEF GovernedShapes
    <3>2. Limit \in Nat
      BY CampaignBounds
    <3> QED
      BY <1>1, <3>1, <3>2
  <2> QED
    BY <2>1 DEF Deliver, GovernedShapes
<1>6. GovernedShapes'
  <2>1. target' \in Seq(intents' \cup {Foreign})
    BY <1>3, <1>4 DEF GovernedShapes
  <2> QED
    BY <1>2, <1>3, <1>4, <1>5, <2>1 DEF GovernedShapes
<1> QED
    BY <1>1, <1>2, <1>3, <1>6, AnsweredKept

LEMMA ApplyKept ==
    ASSUME GovernedShapes, InTick, Apply
    PROVE  GovernedKept
<1>1. At("apply") /\ Me \in Campaigns /\ run.result \in Answers
    BY DEF Apply, InTick, At
<1>2. UNCHANGED <<target, sessionVars, file, authority, used>> /\ run' = Rest
    BY DEF Apply
<1>3. camp \in [Campaigns -> CampaignRecords] /\ sess \in SessionRecord
    BY DEF GovernedShapes
<1> DEFINE follows(status) == IF Pending THEN [camp EXCEPT ![Me].status = status]
                              ELSE Followed(Me, status)
<1>4. ASSUME NEW status \in CampaignStatuses
      PROVE  /\ follows(status) \in [Campaigns -> CampaignRecords]
             /\ \A c \in Campaigns : follows(status)[c].lineage \in {camp[c].lineage, sess.plan}
  <2>1. CASE Pending
    BY <1>1, <1>3, <2>1 DEF CampaignRecords
  <2>2. CASE ~Pending
    BY <1>1, <1>3, <2>2, FollowedRecord
  <2> QED
    BY <2>1, <2>2
<1>5. /\ camp' \in [Campaigns -> CampaignRecords]
      /\ \A c \in Campaigns : camp'[c].lineage \in {camp[c].lineage, sess.plan}
  <2>1. CASE ~Snapshot(camp[Me]) \/ (Pending /\ run.result \notin {"WAIT", "CONTINUE"})
    <3>1. camp' = [camp EXCEPT ![Me].status = "BLOCKED_NON_RETRYABLE"]
      BY <2>1 DEF Apply
    <3> QED
      BY <1>1, <1>3, <3>1 DEF CampaignRecords, CampaignStatuses, FinalStatuses
  <2>2. CASE ~(~Snapshot(camp[Me]) \/ (Pending /\ run.result \notin {"WAIT", "CONTINUE"}))
    <3>1. CASE run.result = "RETRY"
      <4>1. camp' = Charged(Me)
        BY <2>2, <3>1 DEF Apply
      <4> QED
        BY <1>1, <1>3, <4>1, ChargedRecord
    <3>2. CASE run.result = "WAIT"
      <4>1. camp' = [follows("WAITING_GITHUB") EXCEPT ![Me].resource = "delivery"]
        BY <2>2, <3>2 DEF Apply
      <4>2. "WAITING_GITHUB" \in CampaignStatuses
        BY DEF CampaignStatuses
      <4> DEFINE waiting == follows("WAITING_GITHUB")
      <4>3. /\ waiting \in [Campaigns -> CampaignRecords]
            /\ \A c \in Campaigns : waiting[c].lineage \in {camp[c].lineage, sess.plan}
        BY <1>4, <4>2
      <4>4. camp' = [waiting EXCEPT ![Me].resource = "delivery"]
        BY <4>1
      <4> HIDE DEF waiting
      <4> QED
        BY <1>1, <4>3, <4>4 DEF CampaignRecords
    <3>3. CASE run.result = "CONTINUE"
      <4>1. camp' = follows("RUNNING")
        BY <2>2, <3>3 DEF Apply
      <4> HIDE DEF follows
      <4> QED
        BY <1>4, <4>1 DEF CampaignStatuses
    <3>4. CASE run.result \notin {"RETRY", "WAIT", "CONTINUE"}
      <4>1. camp' = follows(run.result)
        BY <2>2, <3>4 DEF Apply
      <4>2. run.result \in CampaignStatuses
        BY <1>1, <3>4 DEF Answers, CampaignStatuses
      <4> HIDE DEF follows
      <4> QED
        BY <1>4, <4>1, <4>2
    <3> QED
      BY <3>1, <3>2, <3>3, <3>4
  <2> QED
    BY <2>1, <2>2
<1>6. run' \in RunRecord /\ run'.pc = "rest"
  BY <1>2, Rested
<1>7. GovernedShapes'
  BY <1>2, <1>5, <1>6, DaemonMoves DEF GovernedShapes
<1>8. InTick'
  BY <1>6 DEF InTick, At
<1> QED
  BY <1>7, <1>8 DEF GovernedKept

LEMMA CrashKept ==
    ASSUME GovernedShapes, InTick, Crash
    PROVE  GovernedKept
<1>1. UNCHANGED <<target, plans, sess, dispatch, slots, file, camp, authority>>
    BY DEF Crash
<1>2. run' \in RunRecord /\ run'.pc = "rest"
    BY Rested DEF Crash
<1>3. intents' \subseteq IntentRecord /\ intents \subseteq intents'
    BY DeliveryRecord DEF Crash, GovernedShapes, InTick
<1>4. target' \in Seq(intents' \cup {Foreign})
    BY <1>1, <1>3 DEF GovernedShapes
<1>5. used' \in [moves : Nat, crashes : Nat]
    BY DEF Crash, GovernedShapes
<1>6. GovernedShapes'
    BY <1>1, <1>2, <1>3, <1>4, <1>5 DEF GovernedShapes
<1>7. InTick'
    BY <1>2 DEF InTick, At
<1> QED
    BY <1>6, <1>7 DEF GovernedKept

LEMMA RegisterKept ==
    ASSUME GovernedShapes, InTick, NEW c \in Campaigns, Register(c)
    PROVE  GovernedKept
<1> DEFINE kept == IF camp[c] = Absent THEN Initial(c) ELSE camp[c]
<1>1. UNCHANGED <<target, plans, intents, dispatch, slots, authority, run>>
    BY DEF Register
<1>2. kept \in CampaignRecords /\ kept.lineage <= Len(plans)
  <2>1. CASE camp[c] = Absent
    <3>1. /\ sess.base \in Nat /\ sess.plan \in Nat /\ sess.plan <= Len(plans)
          /\ authority.generation \in Nat /\ 0 \in 0..Retries
      BY CampaignBounds DEF GovernedShapes, SessionRecord
    <3> QED
      BY <2>1, <3>1 DEF Initial, CampaignRecords, CampaignStatuses
  <2>2. CASE camp[c] # Absent
    BY <2>2 DEF GovernedShapes
  <2> QED
    BY <2>1, <2>2
<1>3. camp' = [camp EXCEPT ![c] = kept]
    BY DEF Register
<1>4. \A d \in Campaigns : camp[d].status # "ABSENT" => camp'[d] = camp[d]
    BY <1>3 DEF Absent, GovernedShapes
<1>5. /\ camp' \in [Campaigns -> CampaignRecords]
      /\ \A d \in Campaigns : camp'[d].lineage <= Len(plans)
  <2> HIDE DEF kept
  <2> QED
    BY <1>2, <1>3 DEF GovernedShapes
<1>6. file' \in Campaigns \cup {Nobody} /\ used' \in [moves : Nat, crashes : Nat]
    BY DEF Register, GovernedShapes
<1>7. sess' \in SessionRecord /\ sess'.plan = sess.plan /\ sess'.base = sess.base
  <2>1. CASE sess' = [sess EXCEPT !.binding = c]
    BY <2>1 DEF GovernedShapes, SessionRecord
  <2>2. CASE sess' = sess
    BY <2>2 DEF GovernedShapes
  <2> QED
    BY <2>1, <2>2 DEF Register
<1>8. GovernedShapes'
    BY <1>1, <1>5, <1>6, <1>7 DEF GovernedShapes
<1>9. InTick'
    BY <1>1, <1>4 DEF InTick, At, Me
<1> QED
    BY <1>8, <1>9 DEF GovernedKept

LEMMA OthersCounted ==
    ASSUME GovernedShapes, ByOthers
    PROVE  used' \in [moves : Nat, crashes : Nat]
<1>1. used \in [moves : Nat, crashes : Nat]
    BY DEF GovernedShapes
<1>2. used' = [used EXCEPT !.moves = used.moves + 1]
    BY DEF ByOthers
<1> QED
    BY <1>1, <1>2

\* The daemon is where it was, in the same tick.
LEMMA ElsewhereKept ==
    ASSUME GovernedShapes', InTick, UNCHANGED <<run, camp, dispatch>>
    PROVE  GovernedKept
    BY DEF GovernedKept, InTick, At, Me

LEMMA AdvancedSession ==
    ASSUME GovernedShapes, ExternalAdvance
    PROVE  /\ plans' \in Seq(PlanRecord) /\ Len(plans') = Len(plans) + 1
           /\ plans'[Len(plans) + 1].past = {}
           /\ sess' \in SessionRecord
           /\ sess'.plan = Len(plans) + 1 /\ sess'.base = Len(target)
           /\ sess'.binding = Nobody
           /\ sess'.former = sess.former \cup ({sess.binding} \ {Nobody})
<1> DEFINE plan == Plan(Len(target), 0, Nobody, FALSE)
<1>1. /\ Len(target) \in Nat /\ Len(plans) \in Nat /\ Len(plans) + 1 \in Nat
      /\ sess \in SessionRecord
    BY DEF GovernedShapes
<1>2. plan \in PlanRecord /\ plan.past = {}
    BY <1>1 DEF Plan, PlanRecord
<1>3. plans' = Append(plans, plan) /\ plans \in Seq(PlanRecord)
    BY DEF ExternalAdvance, GovernedShapes
<1>4. /\ plans' \in Seq(PlanRecord) /\ Len(plans') = Len(plans) + 1
      /\ plans'[Len(plans) + 1].past = {}
  <2> HIDE DEF plan
  <2> QED
    BY <1>1, <1>2, <1>3
<1> DEFINE former == sess.former \cup ({sess.binding} \ {Nobody})
<1>5. former \in SUBSET Campaigns
    BY <1>1 DEF SessionRecord
<1> DEFINE open == [sess EXCEPT !.status = "READY", !.base = Len(target),
                                !.plan = Len(plans) + 1, !.assessed = FALSE]
<1>6. sess' = [open EXCEPT !.human = FALSE, !.advanced = TRUE,
                           !.former = former, !.binding = Nobody]
    BY DEF ExternalAdvance
<1>6a. open \in SessionRecord /\ open.plan = Len(plans) + 1 /\ open.base = Len(target)
    BY <1>1 DEF SessionRecord, SessionStatuses
<1> HIDE DEF former, open
<1>7. /\ sess' \in SessionRecord
      /\ sess'.plan = Len(plans) + 1 /\ sess'.base = Len(target)
      /\ sess'.binding = Nobody /\ sess'.former = former
    BY <1>5, <1>6, <1>6a DEF SessionRecord
<1> QED
    BY <1>4, <1>7 DEF former

LEMMA EnvironmentKept ==
    ASSUME GovernedShapes, InTick, Environment
    PROVE  GovernedKept
<1>1. CASE Merge
  <2>1. PICK i \in intents : target' = Append(target, i)
    BY <1>1 DEF Merge
  <2>2. target' \in Seq(intents \cup {Foreign}) /\ Len(target') = Len(target) + 1
    BY <2>1 DEF GovernedShapes
  <2>3. sess.base <= Len(target')
    BY <2>2 DEF GovernedShapes, SessionRecord
  <2>4. GovernedShapes'
    BY <1>1, <2>2, <2>3 DEF Merge, GovernedShapes, sessionVars
  <2> QED
    BY <1>1, <2>4, ElsewhereKept DEF Merge, sessionVars
<1>2. CASE Drift
  <2>1. target' = Append(target, Foreign)
    BY <1>2 DEF Drift
  <2>2. target' \in Seq(intents \cup {Foreign}) /\ Len(target') = Len(target) + 1
    BY <2>1 DEF GovernedShapes
  <2>3. sess.base <= Len(target')
    BY <2>2 DEF GovernedShapes, SessionRecord
  <2>4. used' \in [moves : Nat, crashes : Nat]
    BY <1>2, OthersCounted DEF Drift
  <2>5. GovernedShapes'
    BY <1>2, <2>2, <2>3, <2>4 DEF Drift, GovernedShapes, sessionVars
  <2> QED
    BY <1>2, <2>5, ElsewhereKept DEF Drift, sessionVars
<1>3. CASE PublishGeneration \/ SetStop
  <2>1. UNCHANGED <<target, sessionVars, file, camp, run>>
    BY <1>3 DEF PublishGeneration, SetStop
  <2>2. used' \in [moves : Nat, crashes : Nat]
    BY <1>3, OthersCounted DEF PublishGeneration, SetStop
  <2>3. authority' \in [generation : Nat, stopped : BOOLEAN, accepted : BOOLEAN]
    <3>1. authority \in [generation : Nat, stopped : BOOLEAN, accepted : BOOLEAN]
      BY DEF GovernedShapes
    <3>2. CASE authority' = [authority EXCEPT !.generation = @ + 1]
      BY <3>1, <3>2
    <3>3. CASE authority' = [authority EXCEPT !.stopped = ~@]
      BY <3>1, <3>3
    <3> QED
      BY <1>3, <3>2, <3>3 DEF PublishGeneration, SetStop
  <2>4. GovernedShapes'
    BY <2>1, <2>2, <2>3 DEF GovernedShapes, sessionVars
  <2> QED
    BY <2>1, <2>4, ElsewhereKept DEF sessionVars
<1>4. CASE ResumeByHand
  <2>1. used' \in [moves : Nat, crashes : Nat]
    BY <1>4, OthersCounted DEF ResumeByHand
  <2>2. /\ UNCHANGED <<target, intents, dispatch, slots, file, camp, authority, run>>
        /\ sess' = Resumed.sess /\ plans' = Resumed.plans
    BY <1>4 DEF ResumeByHand
  <2>3. GovernedShapes'
    BY <2>1, <2>2, ResumedShapes, SessionMoves DEF GovernedShapes
  <2> QED
    BY <2>2, <2>3, ElsewhereKept
<1>5. CASE AssessByHand
  <2>1. used' \in [moves : Nat, crashes : Nat]
    BY <1>5, OthersCounted DEF AssessByHand
  <2>2. UNCHANGED <<target, intents, dispatch, file, camp, authority, run>>
    BY <1>5 DEF AssessByHand
  <2>3. CASE \E verdict \in Verdicts : Assessed(verdict)
    <3>1. /\ plans' \in Seq(PlanRecord) /\ Len(plans') = Len(plans) + 1
          /\ sess' \in SessionRecord /\ sess'.plan = Len(plans) + 1 /\ sess'.base = sess.base
          /\ slots' \in [Campaigns -> 0..Retries + 1]
      BY <2>3, AssessedShapes
    <3>2. /\ run' \in RunRecord /\ sess.base <= Len(target) /\ Len(plans) \in Nat
      BY <2>2 DEF GovernedShapes
    <3>3. Len(plans) <= Len(plans') /\ sess'.plan \in 1..Len(plans') /\ sess'.base <= Len(target)
      BY <3>1, <3>2
    <3>4. GovernedShapes'
      BY <2>1, <2>2, <3>1, <3>2, <3>3, SessionMoves
    <3> QED
      BY <2>2, <3>4, ElsewhereKept
  <2>4. CASE sess' = [sess EXCEPT !.status = "RETRY_REQUIRED"] /\ UNCHANGED <<plans, slots>>
    <3>1. sess' \in SessionRecord /\ sess'.plan = sess.plan /\ sess'.base = sess.base
      BY <2>4 DEF GovernedShapes, SessionRecord, SessionStatuses
    <3>2. GovernedShapes'
      BY <2>1, <2>2, <2>4, <3>1, SessionMoves DEF GovernedShapes
    <3> QED
      BY <2>2, <3>2, ElsewhereKept
  <2> QED
    BY <1>5, <2>3, <2>4 DEF AssessByHand
<1>6. CASE ExternalAdvance
  <2>1. used' \in [moves : Nat, crashes : Nat]
    BY <1>6, OthersCounted DEF ExternalAdvance
  <2>2. UNCHANGED <<target, intents, dispatch, slots, file, camp, authority, run>>
    BY <1>6 DEF ExternalAdvance
  <2>3. /\ plans' \in Seq(PlanRecord) /\ Len(plans') = Len(plans) + 1
        /\ sess' \in SessionRecord /\ sess'.plan = Len(plans) + 1 /\ sess'.base = Len(target)
    BY <1>6, AdvancedSession
  <2>4. Len(target) <= Len(target) /\ Len(plans) \in Nat
    BY DEF GovernedShapes
  <2>5. GovernedShapes'
    BY <2>1, <2>2, <2>3, <2>4, SessionMoves DEF GovernedShapes
  <2> QED
    BY <2>2, <2>5, ElsewhereKept
<1> QED
    BY <1>1, <1>2, <1>3, <1>4, <1>5, <1>6 DEF Environment

LEMMA StutterKept ==
    ASSUME GovernedShapes, InTick, UNCHANGED governedVars
    PROVE  GovernedKept
    BY DEF GovernedKept, GovernedShapes, InTick, At, Me, governedVars

LEMMA StepKept ==
    ASSUME GovernedShapes, InTick, [GovernedNext]_governedVars
    PROVE  GovernedShapes' /\ InTick'
<1>1. CASE DaemonStep
    BY <1>1, BeginTickKept, ProbeKept, WorkKept, TickKept, ReassessKept, AnswerKept, BindKept,
       CloseKept, DispatchKept, DeliverKept, ApplyKept DEF DaemonStep, GovernedKept
<1>2. CASE Contended \/ Crash
    BY <1>2, ContendedKept, CrashKept DEF GovernedKept
<1>3. CASE \E c \in Campaigns : Register(c)
    BY <1>3, RegisterKept DEF GovernedKept
<1>4. CASE Environment
    BY <1>4, EnvironmentKept DEF GovernedKept
<1>5. CASE UNCHANGED governedVars
    BY <1>5, StutterKept DEF GovernedKept
<1> QED
    BY <1>1, <1>2, <1>3, <1>4, <1>5 DEF GovernedNext

-----------------------------------------------------------------------------
(* Whom the session is bound to, and who has paid.                         *)

\* Only a registration and an external advance touch the binding; an
\* assessment charges the campaign that the session is bound to.
BindingRests ==
    /\ sess'.binding = sess.binding /\ sess'.former = sess.former /\ file' = file
    /\ \A c \in Campaigns : c # sess.binding => slots'[c] = slots[c]

LEMMA BindingStep ==
    ASSUME GovernedShapes, [GovernedNext]_governedVars
    PROVE  BindingRests \/ (\E c \in Campaigns : Register(c)) \/ ExternalAdvance
<1>1. CASE UNCHANGED <<sess, file, slots>>
    BY <1>1 DEF BindingRests
<1>2. CASE Tick \/ ResumeByHand
  <2>1. UNCHANGED <<file, slots>>
    BY <1>2 DEF Tick, ResumeByHand
  <2>2. sess' = sess \/ (sess' = Resumed.sess /\ plans' = Resumed.plans)
    BY <1>2 DEF Tick, ResumeByHand
  <2> QED
    BY <2>1, <2>2, ResumedShapes DEF BindingRests
<1>3. CASE Reassess \/ AssessByHand
  <2>1. UNCHANGED file
    BY <1>3 DEF Reassess, AssessByHand
  <2>2. CASE \E verdict \in Verdicts : Assessed(verdict)
    BY <2>1, <2>2, AssessedShapes DEF BindingRests
  <2>3. CASE UNCHANGED slots /\ (sess' = sess \/ sess' = Stale("drift"))
    BY <2>1, <2>3, MarkedStale DEF BindingRests, GovernedShapes
  <2>4. CASE UNCHANGED slots /\ sess' = [sess EXCEPT !.status = "RETRY_REQUIRED"]
    BY <2>1, <2>4 DEF BindingRests, GovernedShapes, SessionRecord
  <2> QED
    BY <1>3, <2>2, <2>3, <2>4 DEF Reassess, AssessByHand
<1>4. CASE Bind
  <2>1. sess' = [sess EXCEPT !.plan = Len(plans) + 1] /\ UNCHANGED <<slots, file>>
    BY <1>4 DEF Bind
  <2> QED
    BY <2>1 DEF BindingRests, GovernedShapes, SessionRecord
<1>5. CASE Close
  <2>1. UNCHANGED <<slots, file>>
    BY <1>5 DEF Close
  <2>2. sess' = sess \/ sess' = [sess EXCEPT !.status = "COMPLETED"]
    BY <1>5 DEF Close
  <2> QED
    BY <2>1, <2>2 DEF BindingRests, GovernedShapes, SessionRecord
<1>6. CASE \/ \E c \in Campaigns : BeginTick(c)
           \/ ProbeDriver \/ WorkDriver \/ Answer \/ Dispatch \/ Deliver \/ Apply
           \/ Contended \/ Crash
    BY <1>1, <1>6 DEF BeginTick, ProbeDriver, WorkDriver, Answer, Dispatch, Deliver, Apply,
                      Contended, Crash, sessionVars
<1>7. CASE Merge \/ Drift \/ PublishGeneration \/ SetStop
    BY <1>1, <1>7 DEF Merge, Drift, PublishGeneration, SetStop, sessionVars
<1>8. CASE UNCHANGED governedVars
    BY <1>1, <1>8 DEF governedVars
<1> QED
    BY <1>2, <1>3, <1>4, <1>5, <1>6, <1>7, <1>8 DEF GovernedNext, DaemonStep, Environment

\* Whoever has paid for a session that c may bind was displaced from it, or is c.
LEMMA BindablePaid ==
    ASSUME Paid, NEW c \in Campaigns, MayBind(c)
    PROVE  \A other \in Campaigns \ {c} : slots[other] > 0 => other \in sess.former
    BY NobodyIsOther DEF Paid, MayBind, Rollover

\* A campaign that may bind a bound session is the one of the file.
LEMMA BindableOnce ==
    ASSUME Paid, NEW c \in Campaigns, MayBind(c), sess.binding # c
    PROVE  sess.binding = Nobody
    BY NobodyIsOther DEF Paid, MayBind, Rollover

LEMMA PaidStep ==
    ASSUME GovernedShapes, Paid, [GovernedNext]_governedVars
    PROVE  Paid'
<1>1. CASE BindingRests
  <2>1. \A c \in Campaigns : c = sess.binding => c = file
    BY NobodyIsOther DEF Paid
  <2> QED
    BY <1>1, <2>1 DEF Paid, BindingRests
<1>2. ASSUME NEW c \in Campaigns, Register(c)
      PROVE  Paid'
  <2>1. MayBind(c) /\ slots' = slots
    BY <1>2 DEF Register
  <2>2. sess.binding = Nobody
    BY <1>2, <2>1, BindableOnce DEF Register
  <2>3. /\ \/ file' = file /\ sess' = sess
           \/ file' = c /\ sess' = sess
           \/ file' = c /\ sess' = [sess EXCEPT !.binding = c]
    BY <1>2 DEF Register
  <2>4. sess'.former = sess.former
    BY <2>3 DEF GovernedShapes, SessionRecord
  <2>5. sess'.binding # Nobody => file' = sess'.binding
    BY <2>2, <2>3 DEF GovernedShapes, SessionRecord
  <2>6. \A d \in Campaigns : slots'[d] > 0 => d = file' \/ d \in sess'.former
    <3>1. CASE file' = file
      BY <2>1, <2>4, <3>1 DEF Paid
    <3>2. CASE file' = c
      BY <2>1, <2>4, <3>2, BindablePaid
    <3> QED
      BY <2>3, <3>1, <3>2
  <2> QED
    BY <2>5, <2>6 DEF Paid
<1>3. CASE ExternalAdvance
  <2>1. sess'.binding = Nobody /\ sess'.former = sess.former \cup ({sess.binding} \ {Nobody})
    BY <1>3, AdvancedSession
  <2>2. slots' = slots /\ file' = file
    BY <1>3 DEF ExternalAdvance
  <2> QED
    BY <2>1, <2>2 DEF Paid
<1> QED
    BY <1>1, <1>2, <1>3, BindingStep

-----------------------------------------------------------------------------
(* What a step may do to the campaign records.                             *)

\* The records that a step leaves.  Only a result under a snapshot moves a
\* campaign along with the session, or completes it.
CampaignRecordStep(c) ==
    \/ camp'[c] = camp[c]
    \/ camp[c] = Absent /\ camp'[c].status = "RUNNING"
    \/ camp'[c].lineage = camp[c].lineage /\ camp'[c].status # "COMPLETE"
    \/ /\ c = Me /\ At("apply") /\ Snapshot(camp[c])
       /\ camp'[c].status = "COMPLETE" => run.result = "COMPLETE"
       /\ camp'[c].lineage # camp[c].lineage
            => camp'[c].lineage = sess.plan /\ camp'[c].target = sess.base
       /\ UNCHANGED <<sess, plans, authority>>

LEMMA ChargedStep ==
    ASSUME GovernedShapes, Me \in Campaigns, camp' = Charged(Me)
    PROVE  \A c \in Campaigns : CampaignRecordStep(c)
<1>1. camp \in [Campaigns -> CampaignRecords]
    BY DEF GovernedShapes
<1>2. /\ \A d \in Campaigns : camp'[d].lineage = camp[d].lineage
      /\ \A d \in Campaigns : d # Me => camp'[d] = camp[d]
      /\ camp'[Me].status # "COMPLETE"
    BY <1>1, ChargedRecord
<1> QED
    BY <1>2 DEF CampaignRecordStep

LEMMA ProbeStep ==
    ASSUME GovernedShapes, InTick, ProbeDriver
    PROVE  \A c \in Campaigns : CampaignRecordStep(c)
<1>1. Me \in Campaigns
    BY DEF ProbeDriver, InTick, At
<1>2. CASE camp' = Charged(Me)
    BY <1>1, <1>2, ChargedStep
<1>3. CASE camp' = [camp EXCEPT ![Me].status = "RUNNING", ![Me].resource = "none"]
  <2>1. /\ \A d \in Campaigns : camp'[d].lineage = camp[d].lineage
        /\ \A d \in Campaigns : d # Me => camp'[d] = camp[d]
        /\ camp'[Me].status = "RUNNING"
    BY <1>1, <1>3 DEF GovernedShapes, CampaignRecords
  <2> QED
    BY <2>1 DEF CampaignRecordStep
<1> QED
    BY <1>2, <1>3 DEF ProbeDriver

LEMMA ApplyStep ==
    ASSUME GovernedShapes, InTick, Apply
    PROVE  \A c \in Campaigns : CampaignRecordStep(c)
<1>1. At("apply") /\ Me \in Campaigns /\ run.result \in Answers
    BY DEF Apply, InTick, At
<1>2. UNCHANGED <<sess, plans, authority>>
    BY DEF Apply, sessionVars
<1>3. camp \in [Campaigns -> CampaignRecords] /\ sess \in SessionRecord
    BY DEF GovernedShapes
<1> DEFINE follows(status) == IF Pending THEN [camp EXCEPT ![Me].status = status]
                              ELSE Followed(Me, status)
           Follows(new, status) ==
             /\ new \in [Campaigns -> CampaignRecords]
             /\ new[Me].status = status
             /\ \A d \in Campaigns : d # Me => new[d] = camp[d]
             /\ new[Me].lineage # camp[Me].lineage
                  => new[Me].lineage = sess.plan /\ new[Me].target = sess.base
<1>4. ASSUME NEW status \in CampaignStatuses
      PROVE  Follows(follows(status), status)
  <2>1. CASE Pending
    BY <1>1, <1>3, <2>1 DEF CampaignRecords
  <2>2. CASE ~Pending
    BY <1>1, <1>3, <2>2, FollowedRecord
  <2> QED
    BY <2>1, <2>2
<1>5. CASE ~Snapshot(camp[Me]) \/ (Pending /\ run.result \notin {"WAIT", "CONTINUE"})
  <2>1. camp' = [camp EXCEPT ![Me].status = "BLOCKED_NON_RETRYABLE"]
    BY <1>5 DEF Apply
  <2>2. /\ \A d \in Campaigns : camp'[d].lineage = camp[d].lineage
        /\ \A d \in Campaigns : d # Me => camp'[d] = camp[d]
        /\ camp'[Me].status # "COMPLETE"
    BY <1>1, <1>3, <2>1 DEF CampaignRecords
  <2> QED
    BY <2>2 DEF CampaignRecordStep
<1>6. CASE ~(~Snapshot(camp[Me]) \/ (Pending /\ run.result \notin {"WAIT", "CONTINUE"}))
  <2>1. CASE run.result = "RETRY"
    <3>1. camp' = Charged(Me)
      BY <1>6, <2>1 DEF Apply
    <3> QED
      BY <1>1, <3>1, ChargedStep
  <2>2. CASE run.result # "RETRY"
    <3>1. PICK status \in CampaignStatuses :
            /\ Follows(camp', status)
            /\ status = "COMPLETE" => run.result = "COMPLETE"
      <4>1. CASE run.result = "WAIT"
        <5> DEFINE waiting == follows("WAITING_GITHUB")
        <5>1. "WAITING_GITHUB" \in CampaignStatuses
          BY DEF CampaignStatuses
        <5>2. Follows(waiting, "WAITING_GITHUB")
          BY <1>4, <5>1
        <5>3. camp' = [waiting EXCEPT ![Me].resource = "delivery"]
          BY <1>6, <4>1 DEF Apply
        <5> HIDE DEF waiting
        <5>4. Follows(camp', "WAITING_GITHUB")
          BY <1>1, <1>3, <5>2, <5>3 DEF CampaignRecords
        <5> QED
          BY <5>1, <5>4
      <4>2. CASE run.result = "CONTINUE"
        <5>1. camp' = follows("RUNNING")
          BY <1>6, <4>2 DEF Apply
        <5>2. "RUNNING" \in CampaignStatuses
          BY DEF CampaignStatuses
        <5> HIDE DEF follows, Follows
        <5> QED
          BY <1>4, <5>1, <5>2
      <4>3. CASE run.result \notin {"RETRY", "WAIT", "CONTINUE"}
        <5>1. camp' = follows(run.result)
          BY <1>6, <4>3 DEF Apply
        <5>2. run.result \in CampaignStatuses
          BY <1>1, <4>3 DEF Answers, CampaignStatuses
        <5> HIDE DEF follows, Follows
        <5> QED
          BY <1>4, <5>1, <5>2
      <4> QED
        BY <2>2, <4>1, <4>2, <4>3
    <3> QED
      BY <1>1, <1>2, <1>6, <3>1 DEF CampaignRecordStep
  <2> QED
    BY <2>1, <2>2
<1> QED
    BY <1>5, <1>6

LEMMA RegisterStep ==
    ASSUME GovernedShapes, NEW c \in Campaigns, Register(c)
    PROVE  \A d \in Campaigns : CampaignRecordStep(d)
<1> DEFINE kept == IF camp[c] = Absent THEN Initial(c) ELSE camp[c]
<1>1. camp' = [camp EXCEPT ![c] = kept]
    BY DEF Register
<1>2. \A d \in Campaigns : d # c => camp'[d] = camp[d]
    BY <1>1 DEF GovernedShapes
<1>3. camp'[c] = kept
    BY <1>1 DEF GovernedShapes
<1>4. camp[c] = Absent => camp'[c].status = "RUNNING"
    BY <1>3 DEF Initial
<1> QED
    BY <1>2, <1>3, <1>4 DEF CampaignRecordStep

LEMMA CampaignStep ==
    ASSUME GovernedShapes, InTick, [GovernedNext]_governedVars
    PROVE  \A c \in Campaigns : CampaignRecordStep(c)
<1>1. CASE UNCHANGED camp
    BY <1>1 DEF CampaignRecordStep
<1>2. CASE WorkDriver \/ Contended
  <2>1. Me \in Campaigns
    BY <1>2 DEF WorkDriver, Contended, InTick, At
  <2>2. camp' = camp \/ camp' = Charged(Me)
    BY <1>2 DEF WorkDriver, Contended
  <2> QED
    BY <1>1, <2>1, <2>2, ChargedStep
<1>3. CASE \/ \E c \in Campaigns : BeginTick(c)
           \/ Tick \/ Reassess \/ Answer \/ Bind \/ Close \/ Dispatch \/ Deliver \/ Crash
           \/ Environment \/ UNCHANGED governedVars
  <2>1. CASE \E c \in Campaigns : BeginTick(c)
    BY <1>1, <2>1 DEF BeginTick
  <2>2. CASE Tick \/ Reassess \/ Answer \/ Bind \/ Close \/ Dispatch \/ Deliver \/ Crash
    BY <1>1, <2>2 DEF Tick, Reassess, Answer, Bind, Close, Dispatch, Deliver, Crash
  <2>3. CASE Environment
    BY <1>1, <2>3 DEF Environment, Merge, Drift, PublishGeneration, SetStop, ResumeByHand,
                      AssessByHand, ExternalAdvance
  <2> QED
    BY <1>1, <1>3, <2>1, <2>2, <2>3 DEF governedVars
<1> QED
    BY <1>2, <1>3, ProbeStep, ApplyStep, RegisterStep DEF GovernedNext, DaemonStep

-----------------------------------------------------------------------------
(* A completion on its way to the campaign.                                *)

\* Plans that were written stay as they are, and a plan that is not of the
\* session's lineage does not get into it.
LEMMA LineageGrows ==
    ASSUME GovernedShapes, NEW base \in Nat, NEW done \in Tasks \cup {Nobody},
           NEW bound \in BOOLEAN, plans' = Extend(base, done, bound),
           sess'.plan = Len(plans) + 1,
           NEW n \in Nat, n <= Len(plans), n \notin Chain(sess.plan)
    PROVE  n \notin Chain(sess.plan)'
<1>1. plans'[Len(plans) + 1].past = Chain(sess.plan)
  <2>1. plans \in Seq(PlanRecord) /\ sess.plan \in 1..Len(plans)
    BY DEF GovernedShapes
  <2>2. Extend(base, done, bound)[Len(plans) + 1].past = Chain(sess.plan)
    BY <2>1, ExtendedPlans
  <2> QED
    BY <2>2
<1>2. Chain(sess.plan)' = {Len(plans) + 1} \cup Chain(sess.plan)
    BY <1>1 DEF Chain
<1>3. n # Len(plans) + 1
    BY DEF GovernedShapes
<1> QED
    BY <1>2, <1>3

LEMMA SameLineage ==
    ASSUME UNCHANGED plans, sess'.plan = sess.plan
    PROVE  Chain(sess.plan)' = Chain(sess.plan) /\ (AllIntegrated' <=> AllIntegrated)
    BY DEF Chain, AllIntegrated, Integrated

Completion == /\ authority.accepted
              /\ \/ sess.status = "COMPLETED" /\ AllIntegrated
                 \/ camp[Me].lineage \notin Chain(sess.plan)

\* A completion that waits to be applied stays one, whoever changes the session.
LEMMA CompletionWaits ==
    ASSUME GovernedShapes, InTick, At("apply"), Completion, [GovernedNext]_governedVars,
           UNCHANGED run
    PROVE  Completion'
<1>1. Me \in Campaigns /\ camp[Me].status # "ABSENT"
    BY DEF InTick, At
<1>2. camp[Me].lineage \in Nat /\ camp[Me].lineage <= Len(plans) /\ Me' = Me
    BY <1>1 DEF GovernedShapes, CampaignRecords, Me
<1>3. CASE /\ UNCHANGED <<camp, authority, plans>>
           /\ sess'.plan = sess.plan /\ sess'.status = sess.status
    BY <1>2, <1>3, SameLineage DEF Completion
<1>4. CASE \E c \in Campaigns : Register(c)
  <2>1. PICK c \in Campaigns : Register(c)
    BY <1>4
  <2> DEFINE kept == IF camp[c] = Absent THEN Initial(c) ELSE camp[c]
  <2>2. camp' = [camp EXCEPT ![c] = kept] /\ UNCHANGED <<plans, authority>>
    BY <2>1 DEF Register
  <2>3. camp'[Me] = camp[Me]
    <3>1. CASE c = Me
      <4>1. kept = camp[Me]
        BY <1>1, <3>1 DEF Absent
      <4> HIDE DEF kept
      <4> QED
        BY <1>1, <2>2, <3>1, <4>1 DEF GovernedShapes
    <3>2. CASE c # Me
      BY <1>1, <2>2, <3>2 DEF GovernedShapes
    <3> QED
      BY <3>1, <3>2
  <2>4. sess'.plan = sess.plan /\ sess'.status = sess.status
    <3>1. sess' = sess \/ sess' = [sess EXCEPT !.binding = c]
      BY <2>1 DEF Register
    <3> QED
      BY <3>1 DEF GovernedShapes, SessionRecord
  <2> QED
    BY <1>2, <2>2, <2>3, <2>4, SameLineage DEF Completion
<1>5. CASE Merge \/ Drift
    BY <1>3, <1>5 DEF Merge, Drift, sessionVars
<1>6. CASE PublishGeneration \/ SetStop
  <2>1. UNCHANGED <<plans, sess, camp>>
    BY <1>6 DEF PublishGeneration, SetStop, sessionVars
  <2>2. authority'.accepted = authority.accepted
    <3>1. authority \in [generation : Nat, stopped : BOOLEAN, accepted : BOOLEAN]
      BY DEF GovernedShapes
    <3>2. CASE authority' = [authority EXCEPT !.generation = @ + 1]
      BY <3>1, <3>2
    <3>3. CASE authority' = [authority EXCEPT !.stopped = ~@]
      BY <3>1, <3>3
    <3> QED
      BY <1>6, <3>2, <3>3 DEF PublishGeneration, SetStop
  <2> QED
    BY <1>2, <2>1, <2>2, SameLineage DEF Completion
<1>7. CASE ResumeByHand
  <2>1. /\ sess' = Resumed.sess /\ plans' = Resumed.plans /\ UNCHANGED <<camp, authority>>
        /\ camp[Me].lineage \notin Chain(sess.plan) /\ authority.accepted
    BY <1>7 DEF ResumeByHand, Completion
  <2>2. Len(target) \in Nat /\ Len(plans) \in Nat
    BY DEF GovernedShapes
  <2>3. CASE plans' = plans /\ sess'.plan = sess.plan
    BY <1>2, <2>1, <2>3, SameLineage DEF Completion
  <2>4. CASE sess'.plan = Len(plans) + 1 /\ \E t \in Tasks : plans' = Extend(Len(target), t, FALSE)
    <3>1. camp[Me].lineage \notin Chain(sess.plan)'
      BY <1>2, <2>1, <2>2, <2>4, LineageGrows
    <3> QED
      BY <1>2, <2>1, <3>1 DEF Completion
  <2> QED
    BY <2>1, <2>2, <2>3, <2>4, ResumedCases DEF GovernedShapes
<1>8. CASE AssessByHand
  <2>1. /\ UNCHANGED <<camp, authority>> /\ camp[Me].lineage \notin Chain(sess.plan)
        /\ authority.accepted
    BY <1>8 DEF AssessByHand, Completion, Assessed, Executable
  <2>2. CASE \E verdict \in Verdicts : Assessed(verdict)
    <3>1. sess.base \in Nat
      BY DEF GovernedShapes, SessionRecord
    <3>2. plans' = Extend(sess.base, Nobody, FALSE) /\ sess'.plan = Len(plans) + 1
      BY <2>2, AssessedShapes
    <3>3. camp[Me].lineage \notin Chain(sess.plan)'
      BY <1>2, <2>1, <3>1, <3>2, LineageGrows
    <3> QED
      BY <1>2, <2>1, <3>3 DEF Completion
  <2>3. CASE sess' = [sess EXCEPT !.status = "RETRY_REQUIRED"] /\ UNCHANGED plans
    <3>1. sess'.plan = sess.plan
      BY <2>3 DEF GovernedShapes, SessionRecord
    <3> QED
      BY <1>2, <2>1, <2>3, <3>1, SameLineage DEF Completion
  <2> QED
    BY <1>8, <2>2, <2>3 DEF AssessByHand
<1>9. CASE ExternalAdvance
  <2>1. /\ plans'[Len(plans) + 1].past = {} /\ sess'.plan = Len(plans) + 1
        /\ UNCHANGED <<camp, authority>>
    BY <1>9, AdvancedSession DEF ExternalAdvance
  <2>2. Chain(sess.plan)' = {Len(plans) + 1} /\ Len(plans) \in Nat
    BY <2>1 DEF Chain, GovernedShapes
  <2>3. camp[Me].lineage # Len(plans) + 1
    BY <1>2, <2>2
  <2> QED
    BY <1>2, <2>1, <2>2, <2>3 DEF Completion
<1>10. CASE DaemonStep \/ Contended \/ Crash
  <2>1. Apply \/ Crash
    BY <1>10 DEF DaemonStep, BeginTick, ProbeDriver, WorkDriver, Tick, Reassess, Answer,
                 Bind, Close, Dispatch, Deliver, Decide, Contended, At
  <2>2. run' = Rest
    BY <2>1 DEF Apply, Crash
  <2> QED
    BY <2>2 DEF Rest, At
<1> QED
    BY <1>3, <1>4, <1>5, <1>6, <1>7, <1>8, <1>9, <1>10 DEF GovernedNext, Environment, governedVars

\* A tick that returns COMPLETE has just found the Objective satisfied.
LEMMA CompletionReturned ==
    ASSUME GovernedShapes, InTick, [GovernedNext]_governedVars, run' # run,
           run'.pc = "apply", run'.result = "COMPLETE"
    PROVE  Completion'
<1>1. Tick \/ Close
  <2>1. CASE Reassess
    <3>1. At("decide") /\ Me \in Campaigns
      BY <2>1 DEF Reassess, Decide, InTick, At
    <3>2. \E r \in Answers \ {"COMPLETE"} : Return(r)
      BY <2>1 DEF Reassess, Answers, FinalStatuses, Verdicts
    <3> QED
      BY <3>1, <3>2, Returned
  <2>2. CASE Answer \/ Bind \/ Deliver
    <3>1. Me \in Campaigns
      BY <2>2 DEF Answer, Bind, Deliver, Decide, InTick, At
    <3>2. \E r \in Answers \ {"COMPLETE"} : Return(r)
      BY <2>2 DEF Answer, Bind, Deliver, Answers, FinalStatuses
    <3> QED
      BY <3>1, <3>2, Returned
  <2>3. CASE Dispatch
    <3>1. Me \in Campaigns
      BY <2>3 DEF Dispatch, Decide, InTick, At
    <3>2. CASE Return("BLOCKED_NON_RETRYABLE")
      BY <3>1, <3>2, Returned DEF Answers, FinalStatuses
    <3>3. CASE \E t \in Tasks : run' = [run EXCEPT !.pc = "deliver", !.task = t, !.seen = Nobody]
      BY <3>3 DEF GovernedShapes, RunRecord
    <3> QED
      BY <2>3, <3>2, <3>3 DEF Dispatch
  <2>4. CASE \E c \in Campaigns : BeginTick(c)
    BY <2>4 DEF BeginTick, GovernedShapes, RunRecord
  <2>5. CASE ProbeDriver \/ WorkDriver
    <3>1. run' = Rest \/ Proceed("claim") \/ Proceed("tick")
      BY <2>5 DEF ProbeDriver, WorkDriver
    <3>2. run'.pc # "apply"
      BY <3>1, Rested, Proceeded DEF TickLabels, GovernedShapes
    <3> QED
      BY <3>2
  <2>6. CASE Contended \/ Crash \/ Apply
    BY <2>6, Rested DEF Contended, Crash, Apply
  <2> QED
    BY <2>1, <2>2, <2>3, <2>4, <2>5, <2>6
       DEF GovernedNext, DaemonStep, Environment, Merge, Drift, PublishGeneration, SetStop,
           ResumeByHand, AssessByHand, ExternalAdvance, Register, governedVars
<1>2. Me \in Campaigns
    BY <1>1 DEF Tick, Close, Decide, InTick, At
<1>3. authority.accepted /\ AllIntegrated /\ sess'.status = "COMPLETED" /\ sess'.plan = sess.plan
      /\ UNCHANGED <<plans, authority>>
  <2>1. CASE Close
    <3>1. ~(\E r \in {"BLOCKED_NON_RETRYABLE", "HUMAN_REQUIRED"} : Return(r))
      BY <1>2, Returned DEF Answers, FinalStatuses
    <3>2. Satisfied /\ sess' = [sess EXCEPT !.status = "COMPLETED"]
      BY <2>1, <3>1 DEF Close
    <3> QED
      BY <2>1, <3>2 DEF Close, Satisfied, GovernedShapes, SessionRecord, SessionStatuses
  <2>2. CASE Tick
    <3>1. \A r \in Answers : Return(r) => r = "COMPLETE"
      BY <1>2, Returned
    <3>2. CASE sess.status = "COMPLETED"
      BY <2>2, <3>1, <3>2 DEF Tick, Satisfied, Answers, FinalStatuses
    <3>3. CASE sess.status # "COMPLETED"
      <4>1. \/ \E r \in Answers \ {"COMPLETE"} : Return(r)
            \/ run' = [run EXCEPT !.pc = "decide", !.seen = sess]
        BY <2>2, <3>3 DEF Tick, Answers, FinalStatuses
      <4>2. CASE run' = [run EXCEPT !.pc = "decide", !.seen = sess]
        BY <4>2 DEF GovernedShapes, RunRecord
      <4> QED
        BY <3>1, <4>1, <4>2
    <3> QED
      BY <3>2, <3>3
  <2> QED
    BY <1>1, <2>1, <2>2
<1> QED
    BY <1>3, SameLineage DEF Completion

LEMMA CompletingStep ==
    ASSUME GovernedShapes, InTick, Completing, [GovernedNext]_governedVars
    PROVE  Completing'
<1>1. CASE UNCHANGED run
    BY <1>1, CompletionWaits DEF Completing, Completion, At
<1>2. CASE run' # run
    BY <1>2, CompletionReturned DEF Completing, Completion, At
<1> QED
    BY <1>1, <1>2

-----------------------------------------------------------------------------
(* The theorems.                                                           *)

(* What every reachable state has, of which the three properties follow    *)
(* step by step.                                                           *)
THEOREM GovernedInvariance == GovernedSpec => []GovernedInv
<1>1. GovernedInit => GovernedInv
    BY GovernedInitially DEF GovernedInv
<1>2. GovernedInv /\ [GovernedNext]_governedVars => GovernedInv'
    BY StepKept, PaidStep, CompletingStep DEF GovernedInv
<1> QED
    BY <1>1, <1>2, PTL DEF GovernedSpec

(* The variables keep the shapes that the handlers read (GovernedTypeOK).  *)
THEOREM GovernedTypes == GovernedSpec => []GovernedTypeOK
<1>1. GovernedInv => GovernedTypeOK
  <2> SUFFICES ASSUME GovernedInv PROVE GovernedTypeOK
    OBVIOUS
  <2> USE DEF GovernedInv, GovernedShapes
  <2>1. \A n \in DOMAIN target : target[n] \in intents \cup {Foreign}
    OBVIOUS
  <2>2. sess.plan \in DOMAIN plans /\ sess.base <= Len(target)
    OBVIOUS
  <2>3. {sess.binding, file} \subseteq Campaigns \cup {Nobody} /\ sess.former \subseteq Campaigns
    BY DEF SessionRecord
  <2>4. dispatch.uncertain \in Tasks \cup {Nobody} /\ dispatch.failed \in 0..Limit
    OBVIOUS
  <2>5. \A c \in Campaigns : /\ slots[c] \in 0..Retries + 1
                             /\ camp[c].lineage \in 0..Len(plans)
                             /\ camp[c].retry \in 0..Retries
    BY DEF CampaignRecords
  <2> QED
    BY <2>1, <2>2, <2>3, <2>4, <2>5 DEF GovernedTypeOK
<1> QED
    BY <1>1, GovernedInvariance, PTL

(* An assessment budget is one campaign's (OneBudget): registration, cut   *)
(* short or not, binds the session to another campaign only if whoever     *)
(* paid before was displaced by an external advance.                       *)
THEOREM BudgetIsOne == GovernedSpec => OneBudget
<1>1. ASSUME GovernedInv, [GovernedNext]_governedVars
      PROVE  \A c \in Campaigns :
               sess'.binding = c /\ sess.binding # c
                 => \A other \in Campaigns \ {c} : slots[other] > 0 => other \in sess.former
  <2> SUFFICES ASSUME NEW c \in Campaigns, sess'.binding = c, sess.binding # c
               PROVE  \A other \in Campaigns \ {c} : slots[other] > 0 => other \in sess.former
    OBVIOUS
  <2>1. PICK d \in Campaigns : Register(d)
    <3>1. ~BindingRests
      BY DEF BindingRests
    <3>2. ~ExternalAdvance
      BY <1>1, AdvancedSession, NobodyIsOther DEF GovernedInv
    <3> QED
      BY <1>1, <3>1, <3>2, BindingStep DEF GovernedInv
  <2>2. c = d
    <3>1. sess' = sess \/ sess' = [sess EXCEPT !.binding = d]
      BY <2>1 DEF Register
    <3> QED
      BY <1>1, <3>1 DEF GovernedInv, GovernedShapes, SessionRecord
  <2> QED
    BY <1>1, <2>1, <2>2, BindablePaid DEF Register, GovernedInv
<1> QED
    BY <1>1, GovernedInvariance, PTL DEF GovernedSpec, OneBudget

(* A campaign follows its own session only (BindingFollowsSession): a      *)
(* result is applied to the plan the session has, if the campaign's plan   *)
(* is in its lineage.                                                      *)
THEOREM BindingFollows == GovernedSpec => BindingFollowsSession
<1>1. ASSUME GovernedInv, [GovernedNext]_governedVars
      PROVE  \A c \in Campaigns :
               camp[c] # Absent /\ camp'[c].lineage # camp[c].lineage
                 => /\ camp'[c].lineage = sess.plan /\ camp'[c].target = sess.base
                    /\ camp[c].lineage \in Chain(sess.plan)
    BY <1>1, CampaignStep DEF CampaignRecordStep, Snapshot, GovernedInv
<1> QED
    BY <1>1, GovernedInvariance, PTL DEF GovernedSpec, BindingFollowsSession

(* A campaign is completed on an accepted Objective, by the session as it  *)
(* is then (CompleteIsAccepted).                                           *)
THEOREM CompleteAccepted == GovernedSpec => CompleteIsAccepted
<1>1. ASSUME GovernedInv, [GovernedNext]_governedVars
      PROVE  \A c \in Campaigns :
               camp[c].status # "COMPLETE" /\ camp'[c].status = "COMPLETE"
                 => /\ sess.status = "COMPLETED" /\ AllIntegrated /\ authority.accepted
                    /\ authority.generation = camp[c].generation
    BY <1>1, CampaignStep DEF CampaignRecordStep, Snapshot, Completing, GovernedInv
<1> QED
    BY <1>1, GovernedInvariance, PTL DEF GovernedSpec, CompleteIsAccepted
=============================================================================
