-------------------------- MODULE GovernedCampaign --------------------------
(***************************************************************************)
(* A campaign that drives a governed session: the daemon's loop, the       *)
(* driver's snapshot and work, the continuation step it takes, and the     *)
(* registration that binds a campaign's budget to the session              *)
(* (campaign_daemon.py, governed_campaign.py, session_continuation.py).    *)
(*                                                                         *)
(* It composes what other modules model in detail.  A session command is   *)
(* one step here and several writes in SessionLifecycle; a delivery is its *)
(* outcome here and a protocol in DeliveryDispatch; the campaign's lease,  *)
(* journal and deferred retries are CampaignRunner's.  What this module    *)
(* adds is the time between them: the tick reads the session, the target   *)
(* and the authority at four moments, and deliveries are merged, targets   *)
(* drift, generations are published and the owner advances the session     *)
(* between any two of them.                                                *)
(*                                                                         *)
(* The target branch is the sequence of its commits, each a delivery or    *)
(* Foreign, so the head is its length.  Plans are numbered as written.     *)
(***************************************************************************)
EXTENDS Integers, Sequences, FiniteSets

CONSTANTS
    Tasks,       \* tasks of the assessed plan
    Campaigns,   \* campaigns that are registered for the session
    Nobody,      \* no campaign, no task
    Retries,     \* retry_budget of a campaign
    Limit,       \* failed deliveries the session may have
    MaxChanges,  \* changes by other actors
    MaxCrashes   \* crashes of the daemon or of a registration

ASSUME NobodyIsOther == Nobody \notin Tasks \cup Campaigns
ASSUME CampaignBounds == {Retries, Limit, MaxChanges, MaxCrashes} \subseteq Nat

VARIABLES
    target,     \* the commits of the default branch
    plans,      \* the plans written for the session
    sess,       \* the session record
    intents,    \* deliveries whose intent is on disk
    dispatch,   \* failed deliveries, and the task of an uncertain one
    file,       \* the campaign campaign-binding.json names
    slots,      \* assessment invocations recorded for each campaign
    camp,       \* the campaign records
    authority,  \* generation, kill switch, and whether the Objective is accepted
    run,        \* the daemon: where it is, for which campaign, with what
    used        \* what is left of the bounds

governedVars == <<target, plans, sess, intents, dispatch, file, slots, camp, authority, run, used>>
sessionVars == <<plans, sess, intents, dispatch, slots>>

Foreign == [task |-> Nobody, base |-> -1, plan |-> 0]
FinalStatuses ==
    {"COMPLETE", "NO_JUSTIFIED_WORK", "HUMAN_REQUIRED", "BLOCKED_NON_RETRYABLE"}
Absent == [status |-> "ABSENT", target |-> 0, lineage |-> 0, generation |-> 0,
           retry |-> 0, resource |-> "none"]

-----------------------------------------------------------------------------
(* Plans and their lineage.                                                *)

(* A plan names its predecessor when it is written and is never rewritten, *)
(* so what a walk along the predecessors finds is fixed then: past.        *)
Chain(p) == {p} \cup plans[p].past

Plan(base, prev, done, bound) ==
    [base |-> base, prev |-> prev, done |-> done, bound |-> bound,
     past |-> IF prev = 0 THEN {} ELSE Chain(prev)]

Integrated(t) == \E p \in Chain(sess.plan) : plans[p].done = t
AllIntegrated == \A t \in Tasks : Integrated(t)

(* _validate_predecessor_chain allows the predecessors of a plan one head. *)
OneBase(p) ==
    LET plan == plans[p]  before == Chain(p) \ {p} IN
    \A q \in before : plans[q].base = IF plan.done = Nobody THEN plan.base
                                      ELSE plans[plan.prev].base

(* _verify walks every reconciliation: a base changes only by a delivery.  *)
VerifiedLineage(p) ==
    \A q \in Chain(p) : plans[q].prev # 0 =>
        \/ plans[q].done = Nobody /\ plans[q].base = plans[plans[q].prev].base
        \/ \E i \in intents : /\ i.task = plans[q].done
                              /\ i.plan = plans[q].prev
                              /\ i.base = plans[plans[q].prev].base

Executable == /\ sess.status \in {"READY", "COMPLETED"}
              /\ ~sess.human /\ Len(target) = sess.base

-----------------------------------------------------------------------------
(* Session commands, each under the session and the project lock.          *)

Observed == {i \in intents : i.base = sess.base /\ i.plan = sess.plan}
Exact == /\ Cardinality({i \in intents : i.base = sess.base}) = 1
         /\ Cardinality(Observed) = 1
         /\ \A i \in Observed : Len(target) = sess.base + 1 /\ target[sess.base + 1] = i

Extend(base, done, bound) == Append(plans, Plan(base, sess.plan, done, bound))

Stale(why) == [sess EXCEPT !.status = "STALE", !.human = TRUE, !.why = why]

(* resume: the record it leaves, and the plans.                            *)
Resumed ==
    IF Len(target) # sess.base
    THEN IF Exact
         THEN [sess |-> [sess EXCEPT !.status = "READY", !.base = Len(target),
                                     !.plan = Len(plans) + 1],
               plans |-> Extend(Len(target), (CHOOSE i \in Observed : TRUE).task, FALSE)]
         ELSE [sess |-> Stale("drift"), plans |-> plans]
    ELSE IF sess.plan # 0 /\ OneBase(sess.plan)
    THEN [sess |-> sess, plans |-> plans]
    ELSE [sess |-> Stale("lineage"), plans |-> plans]

(* assessment_invocation: one slot of the bound campaign, or no campaign.  *)
MayInvoke == IF sess.binding = Nobody THEN file = Nobody ELSE slots[sess.binding] <= Retries

Invoked == IF sess.binding = Nobody THEN slots ELSE [slots EXCEPT ![sess.binding] = @ + 1]

(* assess, when the session has no current assessment.                     *)
Assessed(status) ==
    /\ MayInvoke
    /\ Len(target) = sess.base
    /\ slots' = Invoked
    /\ plans' = Extend(sess.base, Nobody, FALSE)
    /\ sess' = [sess EXCEPT !.status = status, !.plan = Len(plans) + 1, !.assessed = TRUE]

Verdicts == {"READY", "RETRY_REQUIRED", "BLOCKED", "NO_JUSTIFIED_WORK"}

(* complete: the Objective is accepted, every task integrated, nothing     *)
(* uncertain, and the validators pass.                                     *)
Certain == dispatch.uncertain = Nobody \/ Integrated(dispatch.uncertain)

Satisfied ==
    /\ Executable /\ AllIntegrated /\ Certain
    /\ VerifiedLineage(sess.plan)
    /\ authority.accepted /\ ~authority.stopped
    /\ \E p \in Chain(sess.plan) : plans[p].bound

-----------------------------------------------------------------------------
(* The driver.                                                             *)

(* snapshot raises unless all of this holds.                               *)
Snapshot(c) ==
    /\ authority.generation = c.generation /\ ~authority.stopped
    /\ sess.plan # 0
    /\ c.lineage \in Chain(sess.plan)
    /\ plans[c.lineage].base = c.target
    /\ plans[sess.plan].base = sess.base
    /\ sess.base # c.target => Executable /\ VerifiedLineage(sess.plan)
    /\ Len(target) # sess.base => Exact

Pending == Len(target) # sess.base

(* _verify_budget_binding                                                  *)
BudgetBound(c) == file = c /\ sess.binding = c

Ready(c) ==
    \/ Pending
    \/ sess.base # camp[c].target
    \/ camp[c].status = "RETRY_BACKOFF" /\ camp[c].resource = "boundary"

(* MUTANT: a retry is written and not charged.                             *)
ChargedFree(c) ==
    IF camp[c].retry < Retries
    THEN [camp EXCEPT ![c].status = "RETRY_BACKOFF",
                      ![c].resource = IF @ = "none" THEN "boundary" ELSE @]
    ELSE [camp EXCEPT ![c].status = "BLOCKED_NON_RETRYABLE"]

(* MUTANT: one retry more than the budget.                                 *)
ChargedOnceMore(c) ==
    IF camp[c].retry <= Retries
    THEN [camp EXCEPT ![c].status = "RETRY_BACKOFF", ![c].retry = @ + 1,
                      ![c].resource = IF @ = "none" THEN "boundary" ELSE @]
    ELSE [camp EXCEPT ![c].status = "BLOCKED_NON_RETRYABLE"]

(* _schedule_retry                                                         *)
Charged(c) ==
    IF camp[c].retry < Retries
    THEN [camp EXCEPT ![c].status = "RETRY_BACKOFF", ![c].retry = @ + 1,
                      ![c].resource = IF @ = "none" THEN "boundary" ELSE @]
    ELSE [camp EXCEPT ![c].status = "BLOCKED_NON_RETRYABLE"]

-----------------------------------------------------------------------------
(* The daemon's tick of one campaign.                                      *)

Rest == [pc |-> "rest", campaign |-> Nobody, seen |-> Nobody, task |-> Nobody, result |-> "none"]
At(label) == run.pc = label
Proceed(label) == run' = [run EXCEPT !.pc = label]
Return(result) == run' = [Rest EXCEPT !.pc = "apply", !.campaign = run.campaign, !.result = result]
Me == run.campaign

BeginTick(c) ==
    /\ At("rest")
    /\ camp[c].status \notin FinalStatuses \cup {"ABSENT"}
    /\ run' = [run EXCEPT !.pc = IF camp[c].status = "RUNNING" THEN "claim" ELSE "probe",
                          !.campaign = c]
    /\ UNCHANGED <<target, sessionVars, file, camp, authority, used>>

(* A wait ends when the driver's probe says so; any other probe is charged *)
(* to the retry budget.                                                    *)
ProbeDriver ==
    /\ At("probe")
    /\ IF Snapshot(camp[Me]) /\ BudgetBound(Me) /\ Ready(Me)
       THEN /\ camp' = [camp EXCEPT ![Me].status = "RUNNING", ![Me].resource = "none"]
            /\ Proceed("claim")
       ELSE camp' = Charged(Me) /\ run' = Rest
    /\ UNCHANGED <<target, sessionVars, file, authority, used>>

(* work: the snapshot under which the continuation is called.              *)
WorkDriver ==
    /\ At("claim")
    /\ IF Snapshot(camp[Me]) /\ BudgetBound(Me)
       THEN Proceed("tick") /\ UNCHANGED camp
       ELSE camp' = Charged(Me) /\ run' = Rest
    /\ UNCHANGED <<target, sessionVars, file, authority, used>>

(* A held lock ends the work with LockError: a retry.                      *)
Contended ==
    /\ At("tick") /\ used.moves < MaxChanges
    /\ used' = [used EXCEPT !.moves = @ + 1]
    /\ camp' = Charged(Me) /\ run' = Rest
    /\ UNCHANGED <<target, sessionVars, file, authority>>

(* _tick up to the resumption.                                             *)
Tick ==
    /\ At("tick")
    /\ CASE sess.status = "COMPLETED" ->
              /\ IF Satisfied THEN \E r \in {"COMPLETE", "BLOCKED_NON_RETRYABLE"} : Return(r)
                 ELSE Return("BLOCKED_NON_RETRYABLE")
              /\ UNCHANGED <<sess, plans>>
         [] sess.status = "NO_JUSTIFIED_WORK" ->
              Return("HUMAN_REQUIRED") /\ UNCHANGED <<sess, plans>>
         [] OTHER ->
              /\ sess' = Resumed.sess /\ plans' = Resumed.plans
              /\ IF sess' # sess
                 THEN Return(IF sess'.status = "READY" THEN "CONTINUE" ELSE "HUMAN_REQUIRED")
                 ELSE IF sess.status \notin {"READY", "RETRY_REQUIRED"}
                 THEN Return(IF sess.human THEN "HUMAN_REQUIRED" ELSE "BLOCKED_NON_RETRYABLE")
                 ELSE run' = [run EXCEPT !.pc = "decide", !.seen = sess]
    /\ UNCHANGED <<target, intents, dispatch, slots, file, camp, authority, used>>

(* What _tick decides on the session it has resumed: verify_* read it      *)
(* again, and raise when it has changed meanwhile.                         *)
Unintegrated == {i \in intents : ~Integrated(i.task)}

Decision ==
    CASE sess.status = "RETRY_REQUIRED" -> "assess"
      [] intents = {} /\ ~sess.assessed -> "assess"
      [] sess # run.seen \/ ~Executable \/ ~VerifiedLineage(sess.plan) -> "raise"
      [] intents = {} /\ ~authority.accepted -> "human"
      [] intents = {} /\ ~plans[sess.plan].bound -> "bind"
      [] AllIntegrated /\ Certain -> "complete"
      [] Unintegrated # {} ->
           IF Unintegrated = Observed /\ Cardinality(Observed) = 1 THEN "wait" ELSE "raise"
      [] ~Certain -> "human"
      [] dispatch.failed >= Limit \/ AllIntegrated -> "blocked"
      [] OTHER -> "deliver"

Decide(what) == At("decide") /\ Decision = what

Reassess ==
    /\ Decide("assess")
    /\ \/ \E verdict \in Verdicts :
            /\ Assessed(verdict)
            /\ Return(CASE verdict = "READY" -> "CONTINUE"
                        [] verdict = "RETRY_REQUIRED" -> "RETRY"
                        [] verdict = "NO_JUSTIFIED_WORK" -> "NO_JUSTIFIED_WORK"
                        [] verdict = "BLOCKED" -> "BLOCKED_NON_RETRYABLE")
       \/ ~MayInvoke /\ Return("BLOCKED_NON_RETRYABLE") /\ UNCHANGED <<sess, plans, slots>>
       \/ /\ MayInvoke /\ Len(target) # sess.base
          /\ sess' = Stale("drift") /\ Return("HUMAN_REQUIRED") /\ UNCHANGED <<plans, slots>>
    /\ UNCHANGED <<target, intents, dispatch, file, camp, authority, used>>

Answer ==
    /\ \/ Decide("raise")   /\ Return("BLOCKED_NON_RETRYABLE")
       \/ Decide("blocked") /\ Return("BLOCKED_NON_RETRYABLE")
       \/ Decide("human")   /\ Return("HUMAN_REQUIRED")
       \/ Decide("wait")    /\ Return("WAIT")
    /\ UNCHANGED <<target, sessionVars, file, camp, authority, used>>

(* _objective_gate: the first plan is bound to the owner's acceptance.     *)
Bind ==
    /\ Decide("bind")
    /\ plans' = Extend(sess.base, Nobody, TRUE)
    /\ sess' = [sess EXCEPT !.plan = Len(plans) + 1]
    /\ Return("CONTINUE")
    /\ UNCHANGED <<target, intents, dispatch, slots, file, camp, authority, used>>

(* MUTANT: a pending acceptance is taken for a satisfied one.              *)
CloseAnyway ==
    /\ Decide("complete")
    /\ \/ Satisfied /\ sess' = [sess EXCEPT !.status = "COMPLETED"] /\ Return("COMPLETE")
       \/ UNCHANGED sess /\ Return("COMPLETE")
    /\ UNCHANGED <<target, plans, intents, dispatch, slots, file, camp, authority, used>>

Close ==
    /\ Decide("complete")
    /\ \/ Satisfied /\ sess' = [sess EXCEPT !.status = "COMPLETED"] /\ Return("COMPLETE")
       \/ UNCHANGED sess /\ \E r \in {"BLOCKED_NON_RETRYABLE", "HUMAN_REQUIRED"} : Return(r)
    /\ UNCHANGED <<target, plans, intents, dispatch, slots, file, camp, authority, used>>

(* _dispatch: admission may refuse; the start of a delivery is journalled. *)
Dispatch ==
    /\ Decide("deliver")
    /\ \/ Return("BLOCKED_NON_RETRYABLE") /\ UNCHANGED dispatch
       \/ \E t \in {t \in Tasks : ~Integrated(t)} :
            /\ dispatch' = [dispatch EXCEPT !.uncertain = t]
            /\ run' = [run EXCEPT !.pc = "deliver", !.task = t, !.seen = Nobody]
    /\ UNCHANGED <<target, plans, sess, intents, slots, file, camp, authority, used>>

Delivery == [task |-> run.task, base |-> sess.base, plan |-> sess.plan]

(* The pipeline delivers, fails cleanly, or ends in doubt.                 *)
Deliver ==
    /\ At("deliver")
    /\ \/ intents' = intents \cup {Delivery} /\ UNCHANGED dispatch
       \/ /\ dispatch' = [failed |-> dispatch.failed + 1, uncertain |-> Nobody]
          /\ UNCHANGED intents
       \/ UNCHANGED <<intents, dispatch>>
    /\ Return("CONTINUE")
    /\ UNCHANGED <<target, plans, sess, slots, file, camp, authority, used>>

Followed(c, status) ==
    [camp EXCEPT ![c].status = status, ![c].target = sess.base, ![c].lineage = sess.plan]

(* MUTANT: the campaign follows the session without another snapshot.      *)
ApplyBlind ==
    /\ At("apply")
    /\ camp' = CASE run.result = "RETRY" -> Charged(Me)
                 [] run.result = "WAIT" -> [Followed(Me, "WAITING_GITHUB") EXCEPT ![Me].resource = "delivery"]
                 [] run.result = "CONTINUE" -> Followed(Me, "RUNNING")
                 [] OTHER -> Followed(Me, run.result)
    /\ run' = Rest
    /\ UNCHANGED <<target, sessionVars, file, authority, used>>

(* _apply_result: under another snapshot the campaign follows the session; *)
(* a delivery seen meanwhile is left to the next tick; a snapshot that     *)
(* fails ends the campaign.                                                *)
Apply ==
    /\ At("apply")
    /\ camp' =
         IF ~Snapshot(camp[Me]) \/ (Pending /\ run.result \notin {"WAIT", "CONTINUE"})
         THEN [camp EXCEPT ![Me].status = "BLOCKED_NON_RETRYABLE"]
         ELSE LET follows(status) == IF Pending THEN [camp EXCEPT ![Me].status = status]
                                     ELSE Followed(Me, status)
              IN CASE run.result = "RETRY" -> Charged(Me)
                   [] run.result = "WAIT" ->
                        [follows("WAITING_GITHUB") EXCEPT ![Me].resource = "delivery"]
                   [] run.result = "CONTINUE" -> follows("RUNNING")
                   [] OTHER -> follows(run.result)
    /\ run' = Rest
    /\ UNCHANGED <<target, sessionVars, file, authority, used>>

(* The supervisor starts a daemon that died again; its lease runs out.     *)
Crash ==
    /\ ~At("rest") /\ used.crashes < MaxCrashes
    /\ used' = [used EXCEPT !.crashes = @ + 1]
    /\ intents' \in {intents, IF At("deliver") THEN intents \cup {Delivery} ELSE intents}
    /\ run' = Rest
    /\ UNCHANGED <<target, plans, sess, dispatch, slots, file, camp, authority>>

DaemonStep ==
    \/ \E c \in Campaigns : BeginTick(c)
    \/ ProbeDriver \/ WorkDriver \/ Tick \/ Reassess \/ Answer \/ Bind \/ Close
    \/ Dispatch \/ Deliver \/ Apply

-----------------------------------------------------------------------------
(* Registration, under the session and the project lock.                   *)

(* A session the owner advanced past an external result gives its binding  *)
(* up to a successor.                                                      *)
Rollover(c) == sess.binding = Nobody /\ sess.advanced /\ file \in sess.former

Initial(c) == [status |-> "RUNNING", target |-> sess.base, lineage |-> sess.plan,
               generation |-> authority.generation, retry |-> 0, resource |-> "none"]

MayBind(c) == file \in {Nobody, c} \/ Rollover(c)

(* MUTANT: the session is saved before the binding artifact.               *)
RegisterReversed(c) ==
    /\ sess.status \in {"READY", "RETRY_REQUIRED"} /\ sess.plan # 0
    /\ MayBind(c)
    /\ sess.binding # c
    /\ LET record == IF camp[c] = Absent THEN Initial(c) ELSE camp[c] IN
       /\ Snapshot(record)
       /\ camp' = [camp EXCEPT ![c] = record]
       /\ \E written \in {"record", "session", "binding"} :
            /\ file' = IF written = "binding" THEN c ELSE file
            /\ sess' = IF written = "record" THEN sess ELSE [sess EXCEPT !.binding = c]
            /\ IF written = "binding" THEN UNCHANGED used
               ELSE /\ used.crashes < MaxCrashes
                    /\ used' = [used EXCEPT !.crashes = @ + 1]
    /\ UNCHANGED <<target, plans, intents, dispatch, slots, authority, run>>

(* Record, binding and session are written one after the other: a crash    *)
(* may leave the first, or the first two.                                  *)
Register(c) ==
    /\ sess.status \in {"READY", "RETRY_REQUIRED"} /\ sess.plan # 0
    /\ MayBind(c)
    /\ sess.binding # c
    /\ LET record == IF camp[c] = Absent THEN Initial(c) ELSE camp[c] IN
       /\ Snapshot(record)
       /\ camp' = [camp EXCEPT ![c] = record]
       /\ \E written \in {"record", "binding", "session"} :
            /\ file' = IF written = "record" THEN file ELSE c
            /\ sess' = IF written = "session" THEN [sess EXCEPT !.binding = c] ELSE sess
            /\ IF written = "session" THEN UNCHANGED used
               ELSE /\ used.crashes < MaxCrashes
                    /\ used' = [used EXCEPT !.crashes = @ + 1]
    /\ UNCHANGED <<target, plans, intents, dispatch, slots, authority, run>>

-----------------------------------------------------------------------------
(* Other actors.                                                           *)

ByOthers == used.moves < MaxChanges /\ used' = [used EXCEPT !.moves = @ + 1]

(* A delivery is merged by its owner; nobody promises it.                  *)
Merge ==
    /\ \E i \in intents : Len(target) = i.base /\ target' = Append(target, i)
    /\ UNCHANGED <<sessionVars, file, camp, authority, run, used>>

Drift ==
    /\ ByOthers /\ target' = Append(target, Foreign)
    /\ UNCHANGED <<sessionVars, file, camp, authority, run>>

PublishGeneration ==
    /\ ByOthers /\ authority' = [authority EXCEPT !.generation = @ + 1]
    /\ UNCHANGED <<target, sessionVars, file, camp, run>>

SetStop ==
    /\ ByOthers /\ authority' = [authority EXCEPT !.stopped = ~@]
    /\ UNCHANGED <<target, sessionVars, file, camp, run>>

(* The owner resumes or assesses the session by hand.                      *)
ResumeByHand ==
    /\ ByOthers /\ sess.status \notin {"COMPLETED", "NO_JUSTIFIED_WORK"}
    /\ sess' = Resumed.sess /\ plans' = Resumed.plans
    /\ UNCHANGED <<target, intents, dispatch, slots, file, camp, authority, run>>

AssessByHand ==
    /\ ByOthers
    /\ \/ sess.status = "RETRY_REQUIRED" /\ \E verdict \in Verdicts : Assessed(verdict)
       \/ /\ sess.status = "READY"
          /\ IF sess.assessed
             THEN sess' = [sess EXCEPT !.status = "RETRY_REQUIRED"] /\ UNCHANGED <<plans, slots>>
             ELSE \E verdict \in Verdicts : Assessed(verdict)
    /\ UNCHANGED <<target, intents, dispatch, file, camp, authority, run>>

(* reconcile_external_advance: a fresh plan without lineage, and no        *)
(* binding; whatever the status was.                                       *)
ExternalAdvance ==
    /\ ByOthers /\ Len(target) > sess.base
    /\ plans' = Append(plans, Plan(Len(target), 0, Nobody, FALSE))
    /\ sess' = [sess EXCEPT !.status = "READY", !.base = Len(target), !.plan = Len(plans) + 1,
                  !.assessed = FALSE, !.human = FALSE, !.advanced = TRUE,
                  !.former = @ \cup ({sess.binding} \ {Nobody}), !.binding = Nobody]
    /\ UNCHANGED <<target, intents, dispatch, slots, file, camp, authority, run>>

Environment ==
    \/ Merge \/ Drift \/ PublishGeneration \/ SetStop
    \/ ResumeByHand \/ AssessByHand \/ ExternalAdvance

-----------------------------------------------------------------------------
GovernedInit ==
    /\ target = <<>>
    /\ plans = <<Plan(0, 0, Nobody, FALSE)>>
    /\ sess = [status |-> "READY", base |-> 0, plan |-> 1, assessed |-> FALSE, human |-> FALSE,
               why |-> "none", binding |-> Nobody, advanced |-> FALSE, former |-> {}]
    /\ intents = {}
    /\ dispatch = [failed |-> 0, uncertain |-> Nobody]
    /\ file = Nobody
    /\ slots = [c \in Campaigns |-> 0]
    /\ camp = [c \in Campaigns |-> Absent]
    /\ \E accepted \in BOOLEAN :
         authority = [generation |-> 1, stopped |-> FALSE, accepted |-> accepted]
    /\ run = Rest
    /\ used = [moves |-> 0, crashes |-> 0]

GovernedNext ==
    \/ DaemonStep \/ Contended \/ Crash
    \/ \E c \in Campaigns : Register(c)
    \/ Environment

(* The daemon loops for ever, takes every registered campaign in a round,  *)
(* and is restarted by its supervisor.                                     *)
GovernedSpec ==
    /\ GovernedInit /\ [][GovernedNext]_governedVars
    /\ WF_governedVars(DaemonStep) /\ \A c \in Campaigns : SF_governedVars(BeginTick(c))

-----------------------------------------------------------------------------
(* Properties.                                                             *)

(* The variables keep the shapes that the handlers read.                   *)
GovernedTypeOK ==
    /\ \A n \in DOMAIN target : target[n] \in intents \cup {Foreign}
    /\ sess.plan \in DOMAIN plans /\ sess.base <= Len(target)
    /\ {sess.binding, file} \subseteq Campaigns \cup {Nobody} /\ sess.former \subseteq Campaigns
    /\ dispatch.uncertain \in Tasks \cup {Nobody} /\ dispatch.failed \in 0..Limit
    /\ \A c \in Campaigns : /\ slots[c] \in 0..Retries + 1
                            /\ camp[c].lineage \in 0..Len(plans)
                            /\ camp[c].retry \in 0..Retries

(* _apply_result writes the session's target and plan into the campaign    *)
(* only when the plan the campaign was bound to is among the ancestors of  *)
(* the session's: a session that was advanced past an external result      *)
(* between work and its result is not taken for the campaign's own.        *)
BindingFollowsSession ==
    [][\A c \in Campaigns :
         camp[c] # Absent /\ camp'[c].lineage # camp[c].lineage
           => /\ camp'[c].lineage = sess.plan /\ camp'[c].target = sess.base
              /\ camp[c].lineage \in Chain(sess.plan)]_governedVars

(* A campaign is COMPLETE only when its session is, with every task of the *)
(* plan integrated in the lineage, the Objective accepted, and under the   *)
(* generation it was registered with; an interrupted or late completion    *)
(* does not pass for one.                                                  *)
CompleteIsAccepted ==
    [][\A c \in Campaigns :
         camp[c].status # "COMPLETE" /\ camp'[c].status = "COMPLETE"
           => /\ sess.status = "COMPLETED" /\ AllIntegrated /\ authority.accepted
              /\ authority.generation = camp[c].generation]_governedVars

(* A session's assessments are charged to the campaign it is bound to.     *)
(* Registration, whose three writes may be cut short, never binds the      *)
(* session to a campaign while another one has already paid for it, unless *)
(* an external advance displaced that one.                                 *)
OneBudget ==
    [][\A c \in Campaigns :
         sess'.binding = c /\ sess.binding # c
           => \A other \in Campaigns \ {c} : slots[other] > 0 => other \in sess.former]_governedVars

(* A registered campaign ends: a wait for a merge that nobody makes, a     *)
(* snapshot that fails and a contended lock are all charged to retries.    *)
CampaignEnds ==
    \A c \in Campaigns : camp[c].status # "ABSENT" ~> camp[c].status \in FinalStatuses

(* tests/test_task_dependencies.py:154 has all the predecessors of a plan  *)
(* survive several reconciliations; resume marks such a session STALE.     *)
DeliveriesSurvive == sess.why # "lineage"

=============================================================================
