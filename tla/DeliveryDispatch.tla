-------------------------- MODULE DeliveryDispatch --------------------------
(***************************************************************************)
(* One registered session's live deliveries: the execution journal,        *)
(* DeliveryPipeline.deliver, the delivery intents, and the session         *)
(* operations that judge a dispatch afterwards (resume, complete and the   *)
(* owner's grant of one more attempt).                                     *)
(*                                                                         *)
(* Several processes call deliver, for any task.  A dispatch is known by   *)
(* its place in the journal, and a commit by the dispatch that made it; a  *)
(* base, like the target branch, is the sequence of commits on it.  The    *)
(* plan of a session is the same at every base but for its head, so a base *)
(* stands for the plan too.                                                *)
(***************************************************************************)
EXTENDS Naturals, Sequences, FiniteSets

CONSTANTS
    Tasks,        \* the tasks of the plan
    Dispatchers,  \* processes that call deliver
    None,         \* no dispatcher, no task
    Limit,        \* maximum_correction_rounds + 1
    Faults,       \* the kinds of fault that happen
    MaxFaults     \* and how many of them, at most

ASSUME NoneAssumption == None \notin Dispatchers \cup Tasks
ASSUME LimitAssumption == Limit \in Nat \ {0}
ASSUME FaultsAssumption == Faults \subseteq {"crash", "drift", "held", "unseen"}
ASSUME DispatchFaultsAssumption == MaxFaults \in Nat

VARIABLES
    target,      \* the commits on the target branch
    branches,    \* tasks whose delivery branch exists
    pushed,      \* commits pushed to their delivery branch
    leaked,      \* worktrees left behind
    starts,      \* the execution journal, one record per dispatch
    intents,     \* dispatches whose delivery intent is on disk
    session,     \* [base, status, human] of the session file
    grant,       \* [state, base] of the owner's grant
    sessionLock, \* a long operation holds the session lock
    lock,        \* holder of the project's delivery lock
    pc, task, cur, report,  \* of each dispatcher
    faults

gitVars == <<target, branches, pushed, leaked>>
sessionVars == <<session, grant, sessionLock>>
dispatcherVars == <<lock, pc, task, cur, report>>
vars == <<target, branches, pushed, leaked, starts, intents, session, grant,
          sessionLock, lock, pc, task, cur, report, faults>>

Foreign == 0    \* a commit no dispatch made

Init ==
    /\ target = <<>>
    /\ branches = {}
    /\ pushed = {}
    /\ leaked = 0
    /\ starts = <<>>
    /\ intents = {}
    /\ session = [base |-> <<>>, status |-> "READY", human |-> FALSE]
    /\ grant = [state |-> "none", base |-> <<>>]
    /\ sessionLock = FALSE
    /\ lock = None
    /\ pc = [d \in Dispatchers |-> "idle"]
    /\ task = [d \in Dispatchers |-> None]
    /\ cur = [d \in Dispatchers |-> 0]
    /\ report = [d \in Dispatchers |-> "none"]
    /\ faults = 0

Fault(kind) ==
    /\ kind \in Faults
    /\ faults < MaxFaults
    /\ faults' = faults + 1

-----------------------------------------------------------------------------
(* What the journal, the intents and the receipts say of earlier work.     *)

\* verify_integrated_task: a receipt in the lineage of the plan is for t.
IntegratedTask(t) ==
    \E n \in DOMAIN session.base : starts[session.base[n]].task = t

\* _integrated_binding: and the intent for this dispatch's own plan is there.
Integrated(k) ==
    /\ IntegratedTask(starts[k].task)
    /\ \E i \in intents : /\ starts[i].task = starts[k].task
                          /\ starts[i].base = starts[k].base

\* MUTANT: a dispatch without an outcome is taken for one that failed.
ForgivesUnfinished(k) ==
    /\ starts[k].result \in {"none", "failed"}
    /\ starts[k].base = session.base
    /\ starts[k].leaked = leaked

\* verified_failed_execution_journal, for a dispatch of the current plan.
VerifiedFailure(k) ==
    /\ starts[k].result = "failed"
    /\ starts[k].base = session.base
    /\ starts[k].leaked = leaked

\* _verify reads the lineage only of an executable session at its own head.
Readable(allowCompleted) ==
    /\ target = session.base
    /\ ~session.human
    /\ \/ session.status = "READY"
       \/ allowCompleted /\ session.status = "COMPLETED"

Reconciled(allowCompleted) ==
    starts # <<>> =>
        /\ Readable(allowCompleted)
        /\ \A k \in DOMAIN starts : Integrated(k) \/ VerifiedFailure(k)

FailedInvocations == {k \in DOMAIN starts : ~Integrated(k)}

\* MUTANT: earlier invocations are not charged.
RemainingUncharged == IF grant.state = "none" THEN Limit ELSE Limit + 1 - Len(starts)

\* remaining_delivery_attempts; a grant that is not bound to this base raises.
Remaining ==
    CASE grant.state = "none" -> Limit - Cardinality(FailedInvocations)
      [] grant.state = "bound" /\ grant.base = session.base -> Limit + 1 - Len(starts)
      [] OTHER -> 0

-----------------------------------------------------------------------------
(* DeliveryPipeline.deliver.                                               *)

Goto(d, label) == pc' = [pc EXCEPT ![d] = label]

\* deliver returns or raises, or its process dies.
Leave(d) ==
    /\ Goto(d, "idle")
    /\ lock' = None
    /\ cur' = [cur EXCEPT ![d] = 0]
    /\ task' = [task EXCEPT ![d] = None]
    /\ report' = [report EXCEPT ![d] = "none"]

\* _deliver returns a report of this kind.
Reports(d, kind) ==
    /\ Goto(d, "finish")
    /\ report' = [report EXCEPT ![d] = kind]
    /\ UNCHANGED <<lock, task, cur>>

Call(d, t) ==
    /\ pc[d] = "idle"
    /\ lock = None
    /\ lock' = d
    /\ Goto(d, "start")
    /\ task' = [task EXCEPT ![d] = t]
    /\ UNCHANGED <<gitVars, starts, intents, sessionVars, cur, report, faults>>

\* record_execution_start, under the session lock.
Start(d) ==
    /\ pc[d] = "start"
    /\ ~sessionLock
    /\ Reconciled(FALSE)
    /\ Remaining > 0
    /\ starts' = Append(starts, [task |-> task[d], base |-> session.base,
                                 leaked |-> leaked, allowed |-> Remaining,
                                 attempts |-> 0, result |-> "none"])
    /\ cur' = [cur EXCEPT ![d] = Len(starts) + 1]
    /\ Goto(d, "attempt")
    /\ UNCHANGED <<gitVars, intents, sessionVars, lock, task, report, faults>>

StartRefused(d) ==
    /\ pc[d] = "start"
    /\ sessionLock \/ ~Reconciled(FALSE) \/ Remaining <= 0
    /\ Leave(d)
    /\ UNCHANGED <<gitVars, starts, intents, sessionVars, faults>>

AtBase(d) == target = starts[cur[d]].base

\* validate_target before the first attempt, and the gates of each attempt.
MayAttempt(d) ==
    /\ pc[d] = "attempt"
    /\ AtBase(d)
    /\ starts[cur[d]].attempts = 0 => task[d] \notin branches

Charged(d) == [starts EXCEPT ![cur[d]].attempts = @ + 1]

AttemptCompletes(d) ==
    /\ MayAttempt(d)
    /\ starts' = Charged(d)
    /\ Goto(d, "review")
    /\ UNCHANGED <<gitVars, intents, sessionVars, lock, task, cur, report, faults>>

\* Only a failure of the first attempt, and one that does not call for a human,
\* can be accounted for afterwards.
AttemptFails(d) ==
    /\ MayAttempt(d)
    /\ starts' = Charged(d)
    /\ leaked' \in {leaked, leaked + 1}
    /\ \/ starts[cur[d]].attempts = 0 /\ Reports(d, "failed")
       \/ Reports(d, "other")
    /\ UNCHANGED <<target, branches, pushed, intents, sessionVars, faults>>

\* MUTANT: the round limit is off by one.
CorrectOnceMore(d) ==
    /\ pc[d] = "review"
    /\ starts[cur[d]].attempts <= starts[cur[d]].allowed
    /\ Goto(d, "attempt")
    /\ UNCHANGED <<gitVars, starts, intents, sessionVars, lock, task, cur, report, faults>>

\* REQUEST_CHANGES, with a correction round left.
Correct(d) ==
    /\ pc[d] = "review"
    /\ starts[cur[d]].attempts < starts[cur[d]].allowed
    /\ Goto(d, "attempt")
    /\ UNCHANGED <<gitVars, starts, intents, sessionVars, lock, task, cur, report, faults>>

\* The reviewer and the compliance officer approve.
Approve(d) ==
    /\ pc[d] = "review"
    /\ Goto(d, "commit")
    /\ UNCHANGED <<gitVars, starts, intents, sessionVars, lock, task, cur, report, faults>>

\* GitDelivery.deliver up to the commit on a fresh delivery branch.
Commit(d) ==
    /\ pc[d] = "commit"
    /\ AtBase(d)
    /\ task[d] \notin branches
    /\ branches' = branches \cup {task[d]}
    /\ Goto(d, "intent")
    /\ UNCHANGED <<target, pushed, leaked, starts, intents, sessionVars, lock, task,
                   cur, report, faults>>

\* MUTANT: the intent is written after the push, with the result.
IntentLater(d) ==
    /\ pc[d] = "intent"
    /\ Goto(d, "push")
    /\ UNCHANGED <<gitVars, starts, intents, sessionVars, lock, task, cur, report, faults>>

\* before_push; an intent has the name of the plan and the task.
PutIntent(d) ==
    /\ pc[d] = "intent"
    /\ \A i \in intents : starts[i].task # task[d]
    /\ intents' = intents \cup {cur[d]}
    /\ Goto(d, "push")
    /\ UNCHANGED <<gitVars, starts, sessionVars, lock, task, cur, report, faults>>

\* The push arrives; its reply may not.
Push(d) ==
    /\ pc[d] = "push"
    /\ pushed' = pushed \cup {cur[d]}
    /\ \E kind \in {"delivered", "other"} : Reports(d, kind)
    /\ UNCHANGED <<target, branches, leaked, starts, intents, sessionVars, faults>>

\* A gate, a review, compliance, git or the remote refuses; a report says so.
Refuse(d) ==
    /\ pc[d] \in {"attempt", "review", "commit", "intent", "push"}
    /\ Reports(d, "other")
    /\ branches' \in {branches, IF pc[d] = "commit" THEN branches \cup {task[d]} ELSE branches}
    /\ UNCHANGED <<target, pushed, leaked, starts, intents, sessionVars, faults>>

\* record_execution_result, under the session lock.
Finish(d) ==
    /\ pc[d] = "finish"
    /\ ~sessionLock
    /\ starts' = [starts EXCEPT ![cur[d]].result = report[d]]
    /\ Leave(d)
    /\ UNCHANGED <<gitVars, intents, sessionVars, faults>>

\* The session lock is taken: LockError leaves the dispatch without a result.
FinishContended(d) ==
    /\ pc[d] = "finish"
    /\ sessionLock
    /\ Leave(d)
    /\ UNCHANGED <<gitVars, starts, intents, sessionVars, faults>>

Crash(d) ==
    /\ pc[d] # "idle"
    /\ Fault("crash")
    /\ leaked' \in {leaked, IF pc[d] \in {"attempt", "commit", "intent", "push"}
                            THEN leaked + 1 ELSE leaked}
    /\ branches' \in {branches, IF pc[d] = "commit" THEN branches \cup {task[d]} ELSE branches}
    /\ Leave(d)
    /\ UNCHANGED <<target, pushed, starts, intents, sessionVars>>

-----------------------------------------------------------------------------
(* The target branch, moved by people and other systems.                   *)

Merge(k) ==
    /\ k \in pushed
    /\ target = starts[k].base
    /\ target' = Append(target, k)
    /\ UNCHANGED <<branches, pushed, leaked, starts, intents, sessionVars,
                   dispatcherVars, faults>>

Drift ==
    /\ Fault("drift")
    /\ target' = Append(target, Foreign)
    /\ UNCHANGED <<branches, pushed, leaked, starts, intents, sessionVars, dispatcherVars>>

-----------------------------------------------------------------------------
(* Session operations, each under the session lock.                        *)

PendingIntents == {i \in intents : starts[i].base = session.base}

\* MUTANT: the delivery need only be somewhere in the new lineage.
ExactAncestor ==
    /\ Cardinality(PendingIntents) = 1
    /\ \A i \in PendingIntents : \E n \in DOMAIN target : target[n] = i

\* _reconcile_verified_delivery: one intent proves the whole change of head.
Exact ==
    /\ Cardinality(PendingIntents) = 1
    /\ \A i \in PendingIntents : target = Append(session.base, i)

\* MUTANT: the session is made READY again, but not rebound to the new head.
ReconcileUnbound ==
    /\ ~sessionLock
    /\ session.status # "COMPLETED"
    /\ target # session.base
    /\ Exact
    /\ session' = [session EXCEPT !.status = "READY"]
    /\ UNCHANGED <<gitVars, starts, intents, grant, sessionLock, dispatcherVars, faults>>

Reconcile ==
    /\ ~sessionLock
    /\ session.status # "COMPLETED"
    /\ target # session.base
    /\ Exact
    /\ session' = [session EXCEPT !.base = target, !.status = "READY"]
    /\ UNCHANGED <<gitVars, starts, intents, grant, sessionLock, dispatcherVars, faults>>

\* _mark_stale: no intent proves it, or the remote cannot be asked.
MarkStale ==
    /\ ~sessionLock
    /\ session.status # "COMPLETED"
    /\ target # session.base
    /\ \/ ~Exact /\ UNCHANGED faults
       \/ Exact /\ Fault("unseen")
    /\ session' = [session EXCEPT !.status = "STALE", !.human = TRUE]
    /\ UNCHANGED <<gitVars, starts, intents, grant, sessionLock, dispatcherVars>>

\* MUTANT: the receipts of all tasks close the session.
CompleteOnReceipts ==
    /\ ~sessionLock
    /\ session.status = "READY"
    /\ Readable(TRUE)
    /\ \A t \in Tasks : IntegratedTask(t)
    /\ session' = [session EXCEPT !.status = "COMPLETED"]
    /\ UNCHANGED <<gitVars, starts, intents, grant, sessionLock, dispatcherVars, faults>>

\* complete, when every criterion of the Objective holds.
Complete ==
    /\ ~sessionLock
    /\ session.status = "READY"
    /\ Readable(TRUE)
    /\ \A t \in Tasks : IntegratedTask(t)
    /\ Reconciled(TRUE)
    /\ session' = [session EXCEPT !.status = "COMPLETED"]
    /\ UNCHANGED <<gitVars, starts, intents, grant, sessionLock, dispatcherVars, faults>>

\* authorize_session_delivery_attempt: the budget is exactly exhausted.
Exhausted ==
    /\ session.status = "READY"
    /\ Reconciled(FALSE)
    /\ Cardinality(FailedInvocations) = Limit
    /\ Len(starts) = Limit

Grant ==
    /\ ~sessionLock
    /\ \/ grant.state = "none"
       \/ grant.state = "orphan" /\ grant.base = session.base
    /\ Exhausted
    /\ grant' = [state |-> "bound", base |-> session.base]
    /\ UNCHANGED <<gitVars, starts, intents, session, sessionLock, dispatcherVars, faults>>

\* The owner's process dies between the signed file and the session's reference.
GrantInterrupted ==
    /\ ~sessionLock
    /\ grant.state = "none"
    /\ Exhausted
    /\ Fault("crash")
    /\ grant' = [state |-> "orphan", base |-> session.base]
    /\ UNCHANGED <<gitVars, starts, intents, session, sessionLock, dispatcherVars>>

\* An assessment or an audit holds the lock for a while.
Hold ==
    /\ ~sessionLock
    /\ Fault("held")
    /\ sessionLock' = TRUE
    /\ UNCHANGED <<gitVars, starts, intents, session, grant, dispatcherVars>>

Release ==
    /\ sessionLock
    /\ sessionLock' = FALSE
    /\ UNCHANGED <<gitVars, starts, intents, session, grant, dispatcherVars, faults>>

-----------------------------------------------------------------------------
DispatcherStep(d) ==
    \/ Start(d) \/ StartRefused(d)
    \/ AttemptCompletes(d) \/ AttemptFails(d)
    \/ Correct(d) \/ Approve(d)
    \/ Commit(d) \/ PutIntent(d) \/ Push(d) \/ Refuse(d)
    \/ Finish(d) \/ FinishContended(d)

SessionStep == Reconcile \/ MarkStale \/ Complete \/ Grant \/ Release

Next ==
    \/ \E d \in Dispatchers : \/ \E t \in Tasks : Call(d, t)
                              \/ DispatcherStep(d)
                              \/ Crash(d)
    \/ \E k \in DOMAIN starts : Merge(k)
    \/ Drift
    \/ SessionStep
    \/ GrantInterrupted
    \/ Hold

Spec == Init /\ [][Next]_vars

(***************************************************************************)
(* A process that has called deliver goes on unless it dies, a lock holder *)
(* lets go, the campaign daemon keeps ticking (which calls deliver for a   *)
(* task not yet integrated, resume and complete), and a pushed delivery is *)
(* merged.  Approval is up to a reviewer, so it is not assumed: only that  *)
(* every review ends in some way.                                          *)
(***************************************************************************)
Ticks(d) == \E t \in Tasks : ~IntegratedTask(t) /\ Call(d, t)

Fairness ==
    /\ \A d \in Dispatchers : WF_vars(DispatcherStep(d)) /\ WF_vars(Ticks(d))
    /\ WF_vars(\E k \in DOMAIN starts : Merge(k))
    /\ WF_vars(Reconcile \/ MarkStale)
    /\ WF_vars(Complete)
    /\ WF_vars(Release)

FairSpec == Spec /\ Fairness

-----------------------------------------------------------------------------
(* Properties.                                                             *)

Dispatch == 1..Len(starts)

StartRecord ==
    [task : Tasks, base : Seq(Nat), leaked : Nat, allowed : 1..Limit,
     attempts : 0..Limit, result : {"none", "failed", "other", "delivered"}]

\* Every variable has its type, and each process its place in the code.
TypeOK ==
    /\ target \in Seq(0..Len(starts))
    /\ branches \subseteq Tasks
    /\ pushed \subseteq Dispatch
    /\ leaked \in 0..Len(starts)
    /\ starts \in Seq(StartRecord)
    /\ intents \subseteq Dispatch
    /\ session \in [base : Seq(0..Len(starts)), status : {"READY", "STALE", "COMPLETED"},
                    human : BOOLEAN]
    /\ grant \in [state : {"none", "orphan", "bound"}, base : Seq(0..Len(starts))]
    /\ sessionLock \in BOOLEAN
    /\ lock \in Dispatchers \cup {None}
    /\ pc \in [Dispatchers -> {"idle", "start", "attempt", "review", "commit", "intent",
                             "push", "finish"}]
    /\ task \in [Dispatchers -> Tasks \cup {None}]
    /\ cur \in [Dispatchers -> 0..Len(starts)]
    /\ report \in [Dispatchers -> {"none", "failed", "other", "delivered"}]
    /\ faults \in 0..MaxFaults

\* A commit of the same task on the same base has landed.
Landed(k) ==
    \E n \in DOMAIN session.base : /\ starts[session.base[n]].task = starts[k].task
                                   /\ starts[session.base[n]].base = starts[k].base

Uncertain == {k \in DOMAIN starts : starts[k].result # "failed" /\ ~Landed(k)}

(***************************************************************************)
(* However processes call deliver and die, there is never a second         *)
(* dispatch while the effects of one are unknown: require_reconciled_      *)
(* execution must see every start, whoever wrote it.                       *)
(***************************************************************************)
OneUncertainDispatch == Cardinality(Uncertain) <= 1

\* The calls of the provider for work that has not landed, numbered by dispatch.
CallsNotLanded ==
    UNION {{k} \X (1..starts[k].attempts) : k \in {j \in DOMAIN starts : ~Landed(j)}}

(***************************************************************************)
(* The provider is called for work that has not landed at most Limit       *)
(* times, and once more under an owner's grant, counting the correction    *)
(* rounds of the running dispatch and all invocations before it.           *)
(***************************************************************************)
ProviderBudgetKept ==
    Cardinality(CallsNotLanded) <= Limit + (IF grant.state = "bound" THEN 1 ELSE 0)

(***************************************************************************)
(* A delivery that the owner merges can be recognised from the durable     *)
(* intents alone, even if the process that pushed it died: it is the only  *)
(* one pending at its base.                                                *)
(***************************************************************************)
MergeIsRecognised ==
    \A k \in pushed : target = Append(session.base, k) => Exact

(***************************************************************************)
(* What the session's base consists of: approved commits, each made on the *)
(* one before it, and no task delivered twice.                             *)
(***************************************************************************)
LineageOfDeliveries ==
    \A n \in DOMAIN session.base :
        /\ session.base[n] \in pushed
        /\ starts[session.base[n]].base = SubSeq(session.base, 1, n - 1)
        /\ \A m \in 1..(n - 1) : starts[session.base[m]].task # starts[session.base[n]].task

(***************************************************************************)
(* A completed session is quiet: all of its dispatches are accounted for,  *)
(* nothing runs for it any more, and nothing will.                         *)
(***************************************************************************)
CompletedIsQuiet ==
    session.status = "COMPLETED" =>
        /\ Uncertain = {}
        /\ \A d \in Dispatchers :
               pc[d] \notin {"attempt", "review", "commit", "intent", "push"}

(***************************************************************************)
(* session_continuation.py:56: "Contention is not evidence corruption and  *)
(* must not terminalize its session."  Where locks are only ever busy for  *)
(* a while, every dispatch whose call is over has its outcome in the       *)
(* journal: without one, each later tick reports HUMAN_REQUIRED, which is  *)
(* terminal for the campaign.                                              *)
(***************************************************************************)
OutcomeRecorded ==
    \A k \in DOMAIN starts :
        starts[k].result = "none" => \E d \in Dispatchers : cur[d] = k

-----------------------------------------------------------------------------
\* Only the owner can go on from here.
OwnerNeeded ==
    \/ session.human
    \/ Foreign \in {target[n] : n \in DOMAIN target}
    \/ grant.state = "orphan"
    \/ \E k \in DOMAIN starts :
          /\ ~Landed(k)
          /\ \A d \in Dispatchers : cur[d] # k
          /\ ~VerifiedFailure(k)
          /\ k \notin pushed
    \/ Remaining <= 0

(***************************************************************************)
(* Deliveries end: the session completes or waits for its owner, and never *)
(* goes round for ever between the delivery lock, the journal and resume.  *)
(***************************************************************************)
EventuallySettles == <>(session.status = "COMPLETED" \/ OwnerNeeded)
=============================================================================
