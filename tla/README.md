# AGF-Orchestrator: a verification development

AGF-Orchestrator governs coding agents: it plans work for a repository, has an
untrusted provider implement it, reviews the patch, and delivers it as a pull
request that the owner merges.  Almost all of its state is in files, and several
processes (daemon, command line, owner tools) work on the same files, each of
which may die at any point.  Correctness is therefore mostly about *what is on
disk between two steps* and *which lock was held over which steps*.

Paths below are relative to `src/src/agf_orchestrator/` unless they start with
`tools/`, `docs/` or `tests/`.

- [Inventory](#inventory)
- [Modules](#modules)
- [Runs](#runs)
- [Bounds, symmetry, deadlock, fairness](#bounds-symmetry-deadlock-fairness)
- [Proofs](#proofs)
- [Findings](#findings)
- [Disagreements](#disagreements)
- [Not modelled](#not-modelled)
- [Plan](#plan)

## Inventory

| Part | State it keeps | Operations | Talks to | Hard behaviour | What makes it correct | Here |
|---|---|---|---|---|---|---|
| Persistent campaign runner (`campaign_runner.py`, `locking.py`) | a record per campaign with an append-only journal; a lease; a deferred-retry side file; an operation lock and a project lock | `tick`, `schedule_retry`, `run_forever`, `reset_retry`, `invalidate_binding`; store `create/load/save/claim` | the daemon ticks it; its step function is the session continuation | copies computed in one lock section and saved in a later one; lease expiry under a live worker; crash between save and unlink | no event lost, one worker, terminal is final, a deferred retry counted once, the campaign ends | `CampaignRunner` |
| Session continuation and governed campaign (`session_continuation.py`, `governed_campaign.py`, `assessment_budget.py`) | campaign binding file, started and finished assessment records | `enqueue`/`register`, `probe`, `work`, `_apply_result` | runner below, session manager above | session, target and authority read at four moments of a tick; three files saved in a row | a campaign follows its own session only, closes on an accepted Objective, its budget is its own, it ends | `GovernedCampaign` |
| Campaign daemon (`campaign_daemon.py`, `external_actions.py`) | daemon lock, spec files, status file | `run_forever`, queue recovery, external-action gate | runner | one bad campaign among many | each campaign gets ticked | `GovernedCampaign` (the loop) |
| Session lifecycle (`session_manager.py`, `session_models.py`, `session_store.py`) | session file: status, events, plan and origin with their hashes; immutable artifacts | start, resume, assess, reconcile, repair, bind, complete, audit, cancel | registry, acceptance, planner, continuation | several files written one by one under a lock that dies with its process; the target and the owner move meanwhile | recorded plans stay readable and are plans of the recorded base; budgets survive crashes; completion is current | `SessionLifecycle` |
| Objective acceptance (`objective_*.py`) | accepted plan, criteria, roster | accept, snapshot, validate, commit completion | session, publication | a stop lifted again while validators run | completed only on what was validated | `SessionLifecycle`, `GovernedCampaign` |
| Project registry (`project_registry.py`) | registry file | add, verify, status, remove | all | a session whose project is removed | completion on a registered, active project only | `SessionLifecycle` |
| External advancement (`external_advancement.py`, `observed_merge.py`, `scope_authorization.py`) | signed and observed advances | put, reconcile | session, provider evidence | an advance begun, interrupted, and overtaken | lineage stays explained | `SessionLifecycle`, `ProviderEvidence` |
| Delivery dispatch (`delivery.py`, `execution_journal.py`, `git_delivery.py`, `delivery_reconciliation.py`, `task_dependencies.py`) | execution journal, delivery intents, delivery branch, session base and status, the owner's grant | `deliver`, `record_execution_start/result`, push, `resume`, `complete`, grant | provider, reviewer, git remote, session store | crash between start and result or push and report; a target that others move; budgets counted in two ways | one dispatch of unknown effect at a time, budget kept, every merge attributable, lineage without foreign commits | `DeliveryDispatch` |
| Executor and adapters (`executor.py`, `adapters/`, `path_scope.py`, `validation_commands.py`, `preflight.py`) | worktrees, the recorded start | `execute`, one invocation through one of four adapters | provider processes and threads | callbacks after the conversation returned, timeouts, kills | COMPLETED is earned, one invocation per recorded start, an end | `Execution` |
| Review and correction loop (`delivery.py:_deliver`, `reviewer.py`, `review_models.py`) | round, last patch, findings carried over | attempt, review, repair, judge, correct | provider and reviewer | answers of a reviewer across rounds | no blocking finding dropped, bounded provider calls, an outcome | `ReviewLoop` |
| Merge and risk gates (`merge_*.py`, `risk_*.py`, `historical_*.py`, `compliance.py`, `tools/owner_historical_epoch.py`) | signed baseline, two ledgers, renewals with journals and activations; staged and archived epochs | baseline, renew, rollover; assess, decide, check again | delivery, owner | the owner writes file after file, the delivery reads them without a lock | a decision rests on one observation under one authority; a failed rollover leaves an active epoch | `RiskEvidence` |
| Authority generations (`authority_generation.py`, `authority_context.py`, `tools/owner_objective_publication.py`) | one file per generation, selector, floor, transition journal | `active`, `_recover_metadata`, `publish` (prepare, verify, activate) | every governed operation reads it; the owner writes | redo journal without a lock; crash in a multi-file commit or in its recovery | no downgrade, no gap, a journalled activation completes | `AuthorityGenerations` |
| Policy state (`policy_state_store.py`, `policy_authority.py`, `tools/owner_policy_controller.py`, ends of `git_delivery.py` and `merge_policy.py`) | SQLite: policies, activations, rollbacks, kill switch, operation journal | prepare, activate, refresh, rollback, bootstrap, set the switch; reserve, begin commit, delivery transaction | the owner writes, deliveries read and lock | reads outside the transaction that acts on them; a lock held over git commands; the switch between two of three checks; death after the commit token | no push against the switch, one winner of a race, a rolled back policy stays so, git effects are recorded | `PolicyState` |
| Provider intelligence and eligibility (`provider_intelligence.py`, `provider_eligibility.py`, provider commands of `cli.py` and `tools/owner_ed25519_authority.py`) | unsigned candidate file, signed evidence, decisions | bootstrap, activate, renew, rotate; issue and verify | planning reads it, the owner signs it | a candidate read twice; evidence, head and authority read one after the other | evidence only goes forward, along attested merges; whoever uses it uses what was in force | `ProviderEvidence` |
| Planning (`director.py`, `architect_planning.py`, ...) | none but the session's plan artifacts | plan, architecture decision | session, provider evidence | the outcome of an external planner | budgets, evidence in force | `SessionLifecycle`, `ProviderEvidence` (control only) |
| Scheduler (`scheduler_*.py`, `roadmap_models.py`, `inbox.py`) | scheduler state with a lease, event journal, inbox items, roadmap | commands, loop, selection, recovery, resolution | clients and humans | check and act in two sections; recovery past the transition table; events numbered per loop | what is settled stays settled, the journal is one history | `Scheduler` |
| Capability intelligence, knowledge and learning, diagnostics, pilots, gateway | indexes, summaries, reports | see `PROJECT.json` | | written by one process each, read by nobody's control flow | | not modelled |

How the modelled parts meet at run time:

```
 campaign daemon -> PersistentCampaignRunner.tick -> work()       [CampaignRunner]
                       -> SessionContinuation.tick                [GovernedCampaign]
                             -> session commands                  [SessionLifecycle]
                             -> deliver, intents, push, merge     [DeliveryDispatch]
                                  -> attempt: Executor.execute    [Execution]
                                  -> _deliver: review, correct    [ReviewLoop]
                                  -> risk and merge decision      [RiskEvidence]
                                  -> reserve, token, lock, push   [PolicyState]
 start, assess -> planner with signed provider evidence           [ProviderEvidence]
 every governed operation -> AuthorityContext.resolve_runtime     [AuthorityGenerations]
 owner -> publish (prepare, activate)                             [AuthorityGenerations]
 owner -> policy controller, kill switch                          [PolicyState]
 owner -> baselines, renewals, epochs; provider evidence          [RiskEvidence, ProviderEvidence]
 scheduler clients, worker, humans at the inbox                   [Scheduler]
```

What one module reduces another to: `GovernedCampaign` takes a session command as
one step (`SessionLifecycle` has its writes) and a delivery as its outcome
(`DeliveryDispatch`); `DeliveryDispatch` takes the review loop as the stages of
`CorrectionRounds`, which `ReviewLoop` is proved to implement, and a provider attempt as
an outcome (`Execution`); `CampaignRunner` takes the step function as an outcome.

## Modules

Each component has an abstract specification of what it promises where one is
worth stating, a detailed module, an `MC` module with the sets for TLC, and a
`Proofs` module that extends the detailed one.  Two of these hold the proofs of
more than one component: `DeliveryDispatchProofs` those of `ReviewLoop`, the loop
inside a dispatch, and `CampaignRunnerProofs` those of `GovernedCampaign` and
`Scheduler`, the other two loops over a persisted state.
Operators under a comment that starts with `MUTANT:` are plausible wrong versions
of the definition that follows them; no specification refers to them, and
`PROJECT.json` says which property fails when one is put in place of the other.

### Campaigns: `CampaignRecord`, `CampaignLifecycle`, `CampaignRunner`

`CampaignRecord` holds the durable record and the pure functions that make its
next version (`Woken`, `Claimed`, `Retried`, ...).  Every one appends one event, as
`_append` does, so `Sequence` is the length of the journal.  `CampaignLifecycle`
is the promise: one record, changed by one whole operation at a time, each on the
latest version.  `CampaignRunner` is the code:

- `record`, `due`, `expired` are the campaign file and what the clock says of
  `next_check_at` and `lease_expires_at`; `deferred` is the side file;
  `opLock` is the campaign operation lock, held over a whole tick;
- a step is one section under the *project* lock.  `seen` and `out` hold what a
  runner loaded and what it is about to save, so a tick loads, probes, saves a
  wake, claims, works and saves in separate steps, and anything may happen in
  between;
- `reset_retry` and `invalidate_binding` load in one step and save in another and
  hold no operation lock, as in the code;
- `save` accepts a record with a higher sequence number or an equal record and
  never compares journals; `claim` writes without `validate()`;
- crashes, a contended project lock (`Defer`, `Abort`) and a raising wake guard
  count against `MaxFaults`.

### Governed campaigns: `GovernedCampaign`

The daemon's loop (`BeginTick`, `ProbeDriver`, `WorkDriver`, `Apply`, ...) over the campaigns of one
session.  A tick takes the driver's snapshot, probes, works and applies the result in separate steps;
between any two of them deliveries are merged (`Environment`), foreign commits
arrive, generations are published, the switch is set, and the owner advances the
session past an external result.  `Register(c)` is the registration with its three
writes (campaign record, binding file, session), which a crash may cut short, and
`Contended` the project lock that is taken.  `slots` is the assessment budget as
`assessment_budget.py` records it, started before finished.  The target branch is the
sequence of its commits, each the task of a delivery or `Foreign`.  A plan never changes once it is
written, so it carries the plans before it (`past`), which the snapshot looks for the campaign's
lineage in.

### Sessions: `SessionLifecycle`

Every command holds the session lock, so one is in flight at a time; `op.todo` is the
list of effects it has left, *in the code's order*: save the record, put an immutable
artifact, swap one, call a planner or a provider, check something again.  `Step` performs
the first effect and `Crash` forgets them all.  A command's operator
(`StartEffects`, `ResumeEffects`, `AssessEffects`, ...) computes the list from what it
reads, so a definition stands for the whole handler with its early returns.
`project`, `repo`, `owner` change between any two effects.  `disk` maps artifact names
to contents; a digest is the content it is taken of.  The initial states (`Found`) are a
fresh state directory and four sessions that earlier versions of the program, or other
commands, leave behind.

### Deliveries: `DeliveryDispatch`

One registered session.  A dispatch is a place in the journal `starts`, and a
commit is named by the dispatch that made it, so a base is a sequence of
dispatches, `Foreign` standing for a commit of somebody else.
`Call/Start/.../Finish` are `deliver` with its journal writes; `Commit`, `PutIntent`
and `Push` are the parts of `GitDelivery.deliver` around the durable intent;
`Reconcile`, `MarkStale`, `Complete`, `Grant` are the session operations that judge a
dispatch afterwards, from the journal, the intents and the receipts only
(`Integrated`, `VerifiedFailure`, `Remaining`).  The content of patches and reviews
is a choice of outcome.  Faults: a crash anywhere, a foreign commit on the target, a
held session lock, a remote that cannot be asked.

### Executions: `Execution`

`Executor.execute` through the Codex, OpenHands CLI, OpenHands SDK and free-first
adapters: gates, the recorded start, worktree, invocation, judgement of the answer,
validation, cleanup, a step each.  `agent` runs by itself: it edits files of the worktree
`tree`, and under the SDK it is a thread whose callbacks land one by one, some after the
conversation returned (`drain` waits for them with a timeout), some raising.  The free-first
adapter asks its local model again when an answer cannot be applied; an execution may complete after
such a repair, and only the rejection of the last answer is a failure.  Others move the
caller's repository, and the executor may be killed at any step; what a child process that outlives
it still does to the abandoned worktree is left out.  `spent.invocations` is a history variable.

### Reviews: `CorrectionRounds`, `ReviewLoop`

`ReviewLoop` is the loop of `_deliver` over every sequence of reports that
`CodexReviewerAdapter` lets through: attempt, review with one repair, and the
decision (approve, reject, unanswered, not converging, limit, next round) in the
order in which the code takes it.  Findings are identities
(`ReviewFinding` identity leaves out line and severity).  The history variables
`raised` and `settled` exist only for `NothingLost`.

### Risk evidence: `RiskEvidence`

`dir` is the active evidence directory, file by file: baseline with journal and
activation, a ledger and a renewal for each kind, copies of predecessors; `stages` and
`archives` are what rollovers make of it.  Owner commands (`owner`) exclude each other by the
project lock and are lists of file writes, as in `SessionLifecycle`; they may be killed between two.
`reader` is one delivery: `_risk_assessment_for_attempt` reads the files one after the
other, `_integrity_bound_decision` takes a second snapshot, the policy decides, compliance checks
again.  Renewal operation ids may be used again; baselines are numbered as signed.

### Authority: `AuthorityRegister`, `AuthorityGenerations`

`AuthorityRegister` promises a monotonic register: generations become active one
after the other, and a read that succeeds returns one that is active and no older
than any that was active when the read began; it may always refuse.
`AuthorityGenerations` has a step per file access: `Look`, `Fetch`, `RedoFile`,
`RedoSelector`, `RedoFloor`, `RedoUnlink` are `_recover_metadata`; `Select`, `Load`,
(recovery again) `ReadFloor`, `Return` are `active` with `_floor`; `Journal`,
`WriteFile`, `WriteSelector`, `WriteFloor`, `Unlink` are `_commit_metadata`.  Readers
hold no lock.  The project lock makes one owner out of all owners, since
`publish` holds it from its first read to its last write.  `publish` reads the
predecessor (`ReadPredecessor`), proposes its successor (`Proposed`), validates it by
reading again, once or more (`Validate`), and prepares, activates or declines.

The register is instantiated over one owner and the readers; the legacy cutover
has happened, so generation 1 is active at the start.

### Policies: `EmergencyStop`, `PolicyState`

`EmergencyStop` promises that every change of the kill switch starts a new
generation, and that a decision is delivered at most once, with the switch clear and at
the generation it was made under.  `PolicyState` is the SQLite database and its two
kinds of user, at the grain of transactions (`BEGIN IMMEDIATE` makes one a single
action) and of what is read before them:

- `prepared`, `superseded`, `active`, `authority`, `journal` are the tables
  `policies`, `rollback_records`, `active_state`, `authority_state`,
  `operation_journal`; `expired` is the age of the activation;
- a run of the owner's controller reads (`PlanActivate`, `PlanRollback`, ...) and writes
  in a later step (`Activate`, `Rollback`, ...); `todo` is what it read.  Its operation id
  is chosen in the transaction, since only `_check_unused` looks at it;
- a delivery is `ReadAuthority` and `Decide` (the authority row first, then the policy), or
  `Supply` of a decision made before; `ValidateAuthority`, `ValidatePolicy`; then, after the
  patch has been applied and validated, `ReserveDelivery`, `BeginDeliveryCommit`,
  `DeliveryTransaction`, and under its lock `EnsureClear`, `Commit`, `PersistIntent`,
  `Push`; `Fail` is any error under the lock and `Close` what the finally clause does;
- `Abort` is every refusal before the lock and the end of the process anywhere: SQLite
  rolls the open transaction back, git's effects stay.

It is one project before its cutover to signed generations, where `resolve_authority`
answers from this database; afterwards `AuthorityGenerations` does.  The project lock that
`deliver` holds admits one delivery at a time.  The commit token is left out: only
the process that drew it knows it.  Deliveries without a decision do not reach the store.

### Provider evidence: `ProviderEvidence`

Four processes over two files.  `boot` probes a provider and overwrites the candidate
`draft` in place and without a lock, so that a kill may leave none that can be read; `owner` activates or renews
it under the project lock, reading it once for the check of the target's advance and *again* when signing; `planner` loads evidence, head and
authority one after the other before it calls the architect; `decision` is issued from evidence and
verified later.  Merges move `head`, and `attested` holds the records (authorised in advance,
delivered, or observed afterwards) that a renewal follows.

### Scheduler: `Scheduler`

`stored` is the state file, `command` what a client decided on a state it loaded before,
`worker` the loop with its selection, recovery and lease, whose events it appends one by one to
`journal`.  The repository has these operations but no program that puts them together: the
model's worker (load, loop, append, hand the status back) is the composition the
operations are written for, and of the worker's state only the status is persisted, since
`transition` is the only write after `create`.

## Runs

| Run | Instance | States | What it shows |
|---|---|---|---|
| `campaign_runner` | 2 runners, 2 operators with both calls, retry budget 1, 5 events, 2 faults | 696,144 | `WorkerOwnsRecord`, `JournalAppendOnly`, `DeferredAppliedOnce`, that the runner implements `CampaignLifecycle`, and `EventuallyEnds` |
| `delivery_dispatch` | 2 processes, 2 tasks, limit 3, 2 faults of any kind | 530,141 | `LineageOfDeliveries`, `OneUncertainDispatch`, `ProviderBudgetKept`, `MergeIsRecognised`, `CompletedIsQuiet`, `EventuallySettles` |
| `review_loop` | 2 findings, 2 patches, 3 corrections | 24,666 | `NothingLost`, and that the loop implements `CorrectionRounds` |
| `authority_safety` | 2 readers, 3 generations, 1 crash | 829,570 | `Succession`, and that `active` implements `AuthorityRegister` |
| `authority_replay` | 1 reader, 3 generations, no crash | violation | `Settled` fails with a second activation, see [Findings](#findings) |
| `policy_state` | 2 owners, 3 operation ids, 2 policies, 2 decisions | 1,709,011 | `SupersededForGood`, `EffectsAreRecorded`, and that the store implements `EmergencyStop` |
| `session_lifecycle` | 3 commands, 2 outside changes, 1 crash, 2 commits, from a new session and four older ones | 2,381,327 | `PlanRetained`, `PlanOfBase`, `InvocationBudget`, `CompletedOnCurrentEvidence`, `PlanningEnds` |
| `governed_campaign` | 2 campaigns with 1 retry, 1 task, 1 failed delivery, 2 outside changes, 1 crash | 379,876 | `OneBudget`, `BindingFollowsSession`, `CompleteIsAccepted`, `CampaignEnds` |
| `risk_evidence` | 2 epochs, 2 renewals with 2 ids, 1 event, 1 change, 1 crash, 3 times | 3,348,490 | `OneObservation`, `OneAuthority`, `NoUnseenEvent`, `EpochChain` |
| `scheduler` | 1 client, a worker with 2 loops of 2 steps, 1 inbox item, 2 humans, 2 roadmap items | 8,024,730 | `JournalChain`, `SettledStays` |
| `execution` | 2 executions, 4 adapters, 2 files, 4 scopes, 2 reported states, 3 model answers | 1,232,763 | `CompletedIsEarned`, `OneInvocation`, `ExecutionEnds` |
| `provider_evidence` | 2 providers, 2 merges attested in 3 ways, 2 generations, 2 versions, 3 times | 10,746,872 | `EvidenceForward`, `PlannedTogether`, `RenewalAttested`, `DecisionCurrent` |

The remaining `.cfg` files are smaller questions, each for
`tlc -workers 2 -config <file> <module>`:

| Config | Module | What TLC answers |
|---|---|---|
| `SessionLifecycleMore.cfg` | `MCSessionLifecycle` | `TypeOK`, `OriginRetained`, `PlannerBudget` and `OnlyExternalRevives` hold |
| `AuthorityRecovery.cfg` | `MCAuthorityGenerations` | with *one* activation and two crashes `Settled` and `ActivationRecovered` hold (191,183 states) |
| `CampaignJournalBound.cfg` | `MCCampaignRunner` | `JournalBounded` is violated |
| `DispatchContention.cfg` | `MCDeliveryDispatch` | `OutcomeRecorded` is violated |
| `ReviewApproval.cfg` | `MCReviewLoop` | `ApprovedIsAnswered` is violated |
| `PolicyWithdrawal.cfg`, `PolicyJournal.cfg` | `MCPolicyState` | `WithdrawalInvalidates`, `CommittedIsCommitted` are violated |
| `SessionHistory.cfg`, `SessionDrift.cfg` | `MCSessionLifecycle` | `HistoryNotInTheWay`, `DriftSurfaced` are violated |
| `GovernedSecondDelivery.cfg` | `MCGovernedCampaign` | `DeliveriesSurvive` is violated |
| `EvidenceLedger.cfg` | `MCRiskEvidence` | `LedgerMayAdvance` is violated |

Every violation is explained under [Disagreements](#disagreements).  The modules state a few more
properties that hold and can be added to a run's config: the type invariants, `CopiesInv`,
`JournalExplainsRecord` and `TerminalIsFinal` of `CampaignRunner`, `OneWinner` of
`PolicyState`, `EventuallyDecided` of `ReviewLoop`, `Grounds` of `ProviderEvidence`.

## Bounds, symmetry, deadlock, fairness

**Bounds.**  Where the proofs apply, all these bounds are irrelevant; elsewhere they are
chosen so that each hazard of `PROJECT.json` can happen, which its mutant confirms.

- *Campaigns.*  `MaxEvents` (500 in the code) and `RetryBudget` bound the campaign.
  Five events are enough for a wake, a claim, a failed or parked step, a reset or
  invalidation over it, and one more claim, and two faults for a deferral followed
  by a crash in its recovery; two runners and two operators give
  every race between a worker, a second worker and two callers without the lock.
  `EventuallyEnds` counts a full journal as an end: the code stops such a campaign
  for good, by refusing it, and TLC needs a bound there anyway.
- *Deliveries.*  Two tasks allow a second delivery on top of a first, three
  provider calls a correction round and a failed dispatch together, and the faults
  pairs such as crash and drift.
- *Reviews.*  Four attempts let a finding be raised, repeated, downgraded and raised again.
- *Authority.*  Three generations let a journal be redone after the *next* generation was
  committed, which is the interesting race; recovery alone is checked with one activation,
  because with two the property is false (`authority_replay`).
- *Policies.*  Three operation ids are three writes in all to policy and switch: enough to
  activate, roll back and activate again, or to activate, bootstrap and move the switch
  during a delivery; two decisions let one be delivered while another is old.
- *Sessions.*  Three commands besides the resumption of planning are a start, an
  assessment and a completion, or a reconciliation between two assessments; two changes move the
  target and withdraw a permission; the older sessions reach behind states that a fresh one reaches
  only after more commands than that.
- *Governed campaigns.*  Two campaigns and a crash give the interrupted registration that another
  one follows; two changes a merge and an external advance during one tick.
- *Risk evidence.*  Two epochs are a rollover that may fail, two renewals a chain of
  predecessors, three times a fresh observation, an old one and an expired baseline.
- *Scheduler.*  Two loops of two steps repeat event numbers over a journal that has some
  already; four moves complete a roadmap of two dependent items.
- *Executions.*  A second execution after a killed one; two reported states are a verdict and a
  contradiction; the scopes are none, a file, a directory and one that escapes.
- *Provider evidence.*  Two merges make a chain, versions and generations a predecessor and a
  successor, three times an expiry.  `TwoMerges` has authorised and observed records; a delivery's
  record differs from an authorised one in nothing the renewal looks at but its origin.

**Symmetry** is used in `authority_safety`, `policy_state`, `risk_evidence`, `scheduler` (the humans),
`DispatchContention.cfg` and `ReviewApproval.cfg`, none of which checks liveness, over identities
that the modules compare and never order.

**Deadlock** is checked except where the bounds end all activity: in `session_lifecycle`,
`governed_campaign`, `risk_evidence`, `scheduler`, `execution` and `provider_evidence` the commands, executions,
clock and changes of the world are counted, and when all are used up nobody has to act.

**Fairness.**

- `CampaignRunner`: a runner that is neither killed nor starved of its lock goes on
  and ticks again (`run_forever` and the daemon loop do), and the clock moves; nobody
  has to call the operator's functions.
- `DeliveryDispatch`: a process in `deliver` goes on unless it dies, the daemon keeps ticking,
  held locks are released, and *a pushed delivery is merged in the end* (an assumption on the
  owner: without it a session rightly waits for ever).  No fairness makes a reviewer approve.
- `ReviewLoop`: the loop does not wait, and provider and reviewer calls have timeouts.
- `AuthorityGenerations`: readers poll, since the daemon resolves authority on every wake; an owner
  need never act or finish.
- `SessionLifecycle`: a command once begun goes on unless it is killed (`Step`), and the owner
  of a session in initial planning resumes it (`ResumeInitialPlanning`).
- `GovernedCampaign`: the daemon goes on (`DaemonStep`) and every round takes each registered
  campaign (strong fairness of `BeginTick(c)`: it is disabled while another one's tick runs).
  Nobody has to merge; a wait for a merge is charged to the campaign's retries.
- `Execution`: the executor goes on (`ExecutorStep`).  Its waits for a provider, for callbacks and for
  validations have timeouts; its git calls and the SDK's `pause` and `close` have none and are assumed to
  return.  Nothing is asked of the provider.
- `PolicyState`, `RiskEvidence`, `Scheduler` and `ProviderEvidence` state safety only: nothing in
  them must happen.

Crashes and faults have no fairness and are bounded by a constant, so liveness says what
happens once they stop.

## Proofs

The theorems hold for all values of the constants that satisfy the named
assumptions: identities distinct from their "none" values, naturals where
numbers are expected, calls and outcomes among those the code has.

**Campaigns** (`CampaignRunnerProofs`).  `TypeOK /\ CopiesInv` is inductive.
`CopiesInv` is the reason `save` may compare sequence numbers only: a copy in any
process's memory, or in the deferred file, is an *older version of the stored record or the
stored record itself* (`Behind`), and the record to be saved is one operation
applied to that copy.  So an accepted save (`Sequence` one higher) was computed
from the very record it replaces.  The rest of it says that the operation lock
belongs to the one runner inside a call, that between wake and claim nobody
can park the campaign again, and that the worker's record is its own from claim to
save.  From it follow `Refinement` (the runner implements `CampaignLifecycle`),
and `AppendOnly`, `TerminalStays`, `WorkerOwns`, `DeferredOnce`.

**Deliveries** (`DeliveryDispatchProofs`).  The inductive invariant adds three parts to the types and
properties.  `Places`: the process inside `deliver` holds the delivery lock, its dispatch is the
last of the journal and has no result, and *until its intent is on disk no intent has its base*.
`Commits`: what is pushed has an intent, what has an intent did not fail, two intents have
neither a task nor a base in common, and each commit of the target that is not foreign was
pushed onto its base.  `Certain`: at most one dispatch is uncertain.  That what
`require_reconciled_execution` accepts leaves no uncertain dispatch and no intent at the session's base
(`ReconciledIsCertain`) is the lemma that every start of a dispatch and every completion rests on.
`ProviderBudgetHolds` needs a second invariant on top, `BudgetInv`.  The code counts *dispatches* without
a grant and *starts* with one, while a dispatch may call the provider several times; what makes
the two agree is that only a first attempt fails in a way that leaves the dispatch certain
(`FailedAtFirst`), so each failed dispatch is one call, and that what the one uncertain dispatch was
allowed is left beside the dispatches that have not landed (`Afforded`).

**Reviews** (`DeliveryDispatchProofs`, second part).  The types with the count of attempts per stage are
inductive, and so is `NothingLost`.  `RoundsRefinement` closes the
gap between the two models: the loop calls the provider no more often than
`DeliveryDispatch` lets a dispatch, and reports a clean failure only for the first
attempt, which is what the execution journal's accounting relies on.

**Authority** (`AuthorityGenerationsProofs`).  `TypeOK /\ Succession /\ Grounded` is
inductive.  `Grounded` says that whatever a journal, a local variable or the
predecessor names has a file, and that a selector that has been read names an
active generation: a stale journal can put back selector and floor, but
only to generations that were activated.  `Succession` then makes a newly active
generation newer than all others, so each write of a file is one step of the register or
none.  `RegisterRefinement` rests on the order of `_floor`: every active file is at most
the floor that was read, and that floor at most the selected generation, or the read
refuses; without the scan of the files it would be false (`FloorUnscanned`).
`OneActivationSettles` is about two generations, since with more the property fails
([Findings](#findings)).  Its invariant `OneActivation` says that the files are as before the activation,
as after it, or the journal is there, and that whoever carries the journal out has written every
file before the one in hand: all of them write the same generation, so the journal goes only when
nothing is left to do.

**Policies** (`PolicyStateProofs`).  The inductive invariant adds two parts to the
properties.  `OwnersInv`: an artifact about to be activated is a prepared one, and no entry of
the journal is ahead of the row it changed, so that the entry of a new write has a
generation no other one has.  `DeliveryInv`: what the delivery's place says of its journal
entry and of git, and that *under the lock the switch is clear at the decision's
generation*, which holds because a change of the switch needs the same lock.
`StopRefinement` follows: the push is the abstract delivery, and that it is the first one
comes from the journal, where an entry once past its reservation is never reserved again.

**Scheduler** (`CampaignRunnerProofs`, second part).  The invariant has parts for the stored state, the worker, the
journal and the inbox.  `StoredInv`: only the status of what is stored ever changes, and there is
something stored while a command or a loop is under way.  `HistoryInv` carries
`JournalIsHistory`: the loop's own events are a history that ends in its status, and those it has
appended are in the journal *in their places*, so the next one is either the event that follows or
is refused.  `SettledForGood` needs that an ended state has no transition out, in the
table and in the store's comparison under the lock, whatever the worker's own copy says.

**Provider evidence** (`ProviderEvidenceProofs`).  `TypeOK /\ Grounds` is inductive: under the
project's lock the candidate about to be saved is of no earlier commit than the evidence it
replaces, a planning that did not read evidence, head and authority together will find out
when it compares them, and a decision made from evidence that was replaced is of an older
version.  Versions only go up, so hashes do not repeat, which is `DecisionsAreCurrent`.
`RenewalIsAttested` adds `Renewing`: the evidence that a renewal read first is still there when it
saves, and since records are only added, what led to the new target then still leads there.
That one commit leads to another is stated as a closure (`Leads`): every set of commits that holds the
one and is closed under the records holds the other.

**Executions** (`ExecutionProofs`).  The inductive invariant adds three parts to the types.
`Places`: outside the SDK no provider outlives the executor's wait and no callback exists; the SDK
is drained only after its conversation returned.  `Starts`: from the recorded start to the
invocation there is a start on record and no invocation, so a crash in between costs the start and
not a second provider.  `Earned`: a process that `Verdict` lets through to the validations, the
execution it makes and the report it leaves all belong to a provider that `Ended` well.  A report
that counts on all callbacks was made when none was under way, so a late one meets only reports
that do not (`CallbackLandsInv`), and while the provider runs nothing is earned at all
(`RunningInv`), so whatever it does after a timeout takes nothing back.  `SdkSucceeds` and
`StreamSucceeds` say of the adapters' verdicts what is needed of them.

**Sessions** (`SessionLifecycleProofs`).  A command is a list of effects, so `SessionInv` says of
every effect that is left what the moment it is performed will need (`Safe`):

- a record to be saved binds a plan for its own base (`Bound`), and that plan is on disk already, or
  an *earlier effect of the same list writes it* (`Backed`), so that a crash between any two effects
  leaves a record whose plan can be read;
- the three effects of a lineage repair stay together (`Repairing`): while the plan is swapped and the
  record not yet saved, the audit explains the difference (`Retained`);
- a provider is asked right after a slot of the budget was recorded that was free before (`Askable`),
  so there are never more calls than recorded slots, nor more slots than the budget has;
- a completion is the last effect, right after the snapshot was taken again (`Last`), and from the
  check on the command has seen no stop (`Confirmed`): a stop that reached it has a newer number than
  the one it read (`CommandInv`), so the snapshot differs even if the stop was lifted again.

`PlanIsRetained`, `PlanIsOfBase`, `InvocationsWithinBudget` and `CompletionIsCurrent` follow, for
every number of commits, commands, moves and crashes and for all of the sessions in `Found`.

**Governed campaigns** (`CampaignRunnerProofs`, third part).  `GovernedInv` adds to the types:
`InTick`, a tick is one of a registered campaign, and a delivery under way was admitted below
the limit; `Paid`, the session is bound to the campaign that the binding file names, and whoever
spent a slot is that campaign or one that an external advance displaced; and
`Completing`, a `COMPLETE` between the step that computed it and the save is about a session that
is COMPLETED with every task integrated, *or* the session has left the campaign's plan behind,
and then the snapshot at the save refuses it.  `BudgetIsOne`, `BindingFollows` and
`CompleteAccepted` follow, whatever other actors change between the steps of a tick.

**Risk evidence** (`RiskEvidenceProofs`).  `Base` is the common ground: the types, what each owner
command still has to write (`TodoOK`, a rollover by the step it has come to), and that baselines are
numbered as they were signed (`Numbered`).  Each property has an invariant of its own on top:

- `EpochsRest`: `ChainInv`, the active epoch *and the one a rollover may put back* rest on archived
  predecessors down to the first, and without a crash the command that left no epoch active is
  going to activate one;
- `AuthorityIsOne`: `AuthInv`, what a delivery has read was made under a generation between the one
  it began with and the one in force, so that two that agree with the second look are of one;
- `ObservationIsOne`: `EndsInv`, the ends of observations only go up, through baselines, renewals and
  activations, including those a command has still to write; and `ReaderEnds`, the first
  observation a delivery read stays the activated one of its time or is surpassed.  So two
  observations with the same end are of the same renewal;
- `NoEventUnseen`: `LedgerInv` and `ReaderCounts`, within an epoch a ledger never gets shorter than
  what a delivery saw of it, whether a rollover moves, replaces or puts it back.

The inductive invariants named here were checked by TLC on instances of the runs before
they were proved.

**Model-checked only.**

- Liveness (`EventuallyEnds`, `EventuallySettles`, `EventuallyDecided`,
  `ActivationRecovered`, `PlanningEnds`, `CampaignEnds`, `ExecutionEnds`): TLAPS as installed proves no
  liveness under fairness and no `ENABLED`.  All other properties of the passing runs are proved.
- `JournalExplainsRecord`, which counts the events of a journal: an induction over the data that
  the provers cannot instantiate.
- `OriginRetained`, `PlannerBudget` and `OnlyExternalRevives` of `SessionLifecycleMore.cfg`.
- The properties that the code violates, see [Disagreements](#disagreements).

No module uses a RECURSIVE operator.

## Findings

**A slow reader undoes an activation** (`authority_generation.py:307`, run
`authority_replay`).  A reader that has read the journal of
generation *N* before the owner removed it may write selector and floor of *N* after *N + 1* was
committed.  No read is downgraded (`RegisterRefinement`), but from then on the floor
is below an ACTIVE file, every `active()` is refused, and nothing repairs it.  With three
generations `ActivationRecovered` fails in the same way; with one activation both hold, whatever
crashes (`OneActivationSettles`, `AuthorityRecovery.cfg`).

## Disagreements

Places where the code and what is written about it differ, met while modelling.  Those with a
config have a property that TLC refutes; the others were noted while reading.

**Campaigns**

1. `claim` writes one event too many (`campaign_runner.py:352`; `CampaignJournalBound.cfg`,
   `JournalBounded`).  The 501st event is written without `validate()`, after which the record can
   never be loaded; `docs/PERSISTENT_CAMPAIGN_RUNNER.md:24`: "an append-only bounded event journal".
2. `NO_JUSTIFIED_WORK` is a terminal status that `docs/PERSISTENT_CAMPAIGN_RUNNER.md:16` leaves out of
   "the only terminal campaign states".
3. In the daemon, a record that cannot be loaded (`campaign_daemon.py:325`) or a `LockError` of
   `invalidate_binding` inside its `except` ends the loop for all campaigns.
4. Polling while a pull request waits for its merge consumes the campaign's retry budget.
5. After a second delivery of one session, a resumption finds two heads among the predecessors
   of its plan and marks the session STALE (`session_manager.py:280`; `GovernedSecondDelivery.cfg`,
   `DeliveriesSurvive`), while `tests/test_task_dependencies.py:154` is
   `test_all_predecessors_are_required_and_survive_multiple_reconciliations`.
6. A campaign bound to a session that was then reconciled has a binding file and no hash of it:
   assessment is refused until it is registered again.

**Deliveries and reviews**

7. Contention terminalises a session (`execution_journal.py:393`; `DispatchContention.cfg`,
   `OutcomeRecorded`): the outcome of a dispatch is recorded under the session
   lock with timeout 0; if it is held just then, the outcome is lost and every later tick
   is `HUMAN_REQUIRED`; `session_continuation.py:56`: "Contention is not evidence corruption and
   must not terminalize its session", and so says `docs/OBJECTIVE_ACCEPTANCE.md:159`.
8. An approval need not answer for earlier findings (`delivery.py:834`; `ReviewApproval.cfg`,
   `ApprovedIsAnswered`): the loop leaves on APPROVE before `_review_resolution_states`, whose error for
   this case `tests/test_review_resolution.py:108` tests and the pipeline never evaluates.
9. A rollback does not withdraw a decision (`policy_state_store.py:204`; `PolicyWithdrawal.cfg`,
   `WithdrawalInvalidates`).  After its validation, a decision is held against the switch's
   generation only, which a rollback leaves alone; the patch is validated in between, for minutes.
   `docs/adr/ADR-0002-merge-control-authority.md:89` names policy withdrawal among what invalidates a
   decision, and ADR-0003:127 says the same of rollback.
   With a session, `persist_delivery_intent` still stops the push, though not the local commit.
10. A failed delivery is journalled as committed (`git_delivery.py:408`; `PolicyJournal.cfg`,
    `CommittedIsCommitted`).  `ExitStack.close()` ends the transaction without the exception that
    is under way, so `delivery_committed` is written whatever failed, while `transaction()`
    would roll back; `tests/test_policy_state_store.py:208` tests the latter with a `with` block.
11. The switch set and cleared again between `resolve_authority` and `merge_policy_from_verified_active`
    gives a decision under a generation two later than the evidence it rests on.

**Sessions**

12. The copy of a historical assessment has a fixed name, so a second reassessment with other content is
    refused (`session_manager.py:1338`; `SessionHistory.cfg`, `HistoryNotInTheWay`) although the comment at
    :1023 says "Preserve it for lineage and fall through to a fresh assessment against the
    observed target."  For the same reason a crash in the first assessment leaves a
    `provider-evidence.json` that refuses a different answer later, and the timestamps in
    `lineage-repair.json` and `read-only-audit.json` refuse a retry after a crash.
13. A drift that has happened before is not surfaced again: the operation id of `_mark_stale` is its reason
    (`session_manager.py:2276`), so when a session was STALE for a drift, came back to READY, and the target
    moves between the same two commits once more, a resumption leaves the session READY
    (`SessionDrift.cfg`, `DriftSurfaced`); `README.md:146`: "detect target or artifact drift, and surface
    human-attention states instead of silently advancing through ambiguity."
14. `reconcile_external_advance` and `reconcile_external_result` do not ask for the status and revive a
    terminal session, `NO_JUSTIFIED_WORK` among them, whose disposition a restart "retains"
    (ADR-0006:46, `README.md:169`); a cancellation of the revived session is then a no-op if it was
    cancelled before.
15. Removing a project races with the start of a session, which may be left without a project.
16. An external advance that crashes before a further move of the head is stuck (`Overtaken` in
    `PlanningEnds`).
17. A READY session may keep `required_human_actions` from before; its completion is then refused
    for ever.
18. `bind_objective_plan` on an assessed session followed by a change of acceptance makes `resume` fail with
    a `ValueError` nobody catches.
19. An assessment invocation that was killed between its two records stays of unknown outcome
    (`assessment_budget.py:53`): its slot is never asked again, and nothing releases it.

**Risk evidence**

20. An event in a ledger disables the signed baseline and thereby every later renewal of the epoch
    (`historical_evidence.py:437`; `EvidenceLedger.cfg`, `LedgerMayAdvance`), while
    `tools/owner_ed25519_authority.py:726-728` says "An append-only ledger may have advanced since the last
    signed observation.  Preserve the signed predecessor, but do not use its stale source
    snapshot as current evidence."
21. An interrupted renewal blocks the next ones until a rollover; a failed rollover leaves its stage,
    which blocks the next rollover; a baseline creation killed after its journal is stuck; a kill between
    the two renames of a rollover leaves no active epoch.
22. An event recorded in the new epoch before its failed rollover is undone stays in the stage.
23. In create, renew and rollover the check "registered target SHA is stale" compares a head with itself.
24. The second snapshot check of `_integrity_bound_decision` looks for a substring, which the start of
    the coverage satisfies too.
25. A renewal with an operation id that is already in the history writes first and fails in its
    own verification.

**Executions**

26. In the OpenHands CLI stream every state that is not terminal counts as an interaction
    (`openhands.py:313-347`): `paused, running` is judged a success, `running, finished`
    CONTRADICTORY, while `tests/test_openhands_adapter.py:692`
    (`test_json_interaction_and_contradictory_states_require_human`) expects an interaction to require a human.
27. In the SDK adapter a success callback with a failed final state counts as success, and callbacks that
    did not land are only noted in the evidence.
28. Validation commands may change files after the scope check; the report's `changed` is from before.
29. `Executor` never calls `record_execution_result`, so a second execution of a session always stops
    with HUMAN_REQUIRED.

**Scheduler**

30. Two clients may both be told `changed=True`; an inbox item added again after its resolution raises
    although persisting is called idempotent; the executive summary of a LOW decision is refused by the
    inbox's own validation; a roadmap item that depends on a SUPERSEDED one never becomes eligible; and
    events of later loops, numbered from 1 again, are mostly refused by the journal.

**Provider evidence**

31. `owner_ed25519_authority.py:205` says "Require delivery or authenticated external evidence for a
    target advance."  `renew_provider_candidate` has the advance verified on its first read of the candidate
    (:427-441); `_activate_provider_candidate` reads the file again (:145) and compares it with the
    head only, and a bootstrap writes that file without a lock (`cli.py:894`).  After a merge and a
    bootstrap in between, a renewal signs a target that nothing attests: TLC finds
    `AdvanceAttested` violated in seconds when it is added to the properties of `ProviderEvidence.cfg`.
    `RenewalAttested` states it for a candidate whose commit stayed the same (`owner.same`), and
    holds.  Plain activation does not look at the advance of the target at all.
32. The comment at `cli.py:735` says that a state "may be renewed when any consequential input (policy,
    Constitution, provider, or freshness) changes"; the store refuses a candidate of the same target when the
    Constitution changed or the generation went up by two before the expiry, and a change from the local provider
    to Codex always.
33. A chain of attestations that mixes authorised and observed merges is refused;
    evidence of a provider that fails a gate may be activated, after which planning always blocks.

Judged to be intended, fail-closed behaviour: a refusal before
the provider is called still uses up the dispatch and leaves it to the owner; an
owner's grant bound to a base blocks dispatch once that base has moved; a REQUEST_CHANGES
with minor findings only starts a round with no findings to carry over; `active()` may
refuse for a moment when two processes redo the same journal; after a rollback,
`prepare` of the controller keeps returning the superseded artifact, so that no policy can be
activated again; setting the switch fails while a push holds the database for longer
than SQLite waits.

## Not modelled

- *Content*: patches, prompts, findings' texts, signatures, hashes, policies, plans' wording.  A hash
  comparison is equality of what is hashed; a signature holds; paths that leave the state directory
  and symbolic links are refused before anything is written.
- *Campaigns*: the limit of 200 steps at which the snapshot stops following a lineage; the format of deferred files
  written by older versions; command drivers and the external-action gate in front of them, the queue file, signals
  and the status file of the daemon; a daemon ended by an unreadable record; `reset_retry` and deferred retries
  over a governed session (`CampaignRunner` has them over any step function).
- *Deliveries*: coordinator journals of older versions; plans retired by a signed external advance;
  the owner's grants in `GovernedCampaign`.
- *Authority*: the first cutover into an empty store; the artifact files of a generation; a torn file
  (every writer replaces files atomically).
- *Sessions*: the completion report as an artifact, the store of external advances and its replay, the
  remote ref asked for in an observation, `causal_findings`, tampering with artifacts.
- *Risk evidence*: a merge decision supplied by the caller, the daemon's status refusal, baselines of older
  versions, and the single patch facts behind the gates, which are one choice.
- *Executions*: secrets, environment filters, executable probes and wording; a conversation id that does
  not match counts as one more reason to require a human; the planning adapters.
- *Provider evidence*: what the probe asks and the gates of capabilities (both may fail), documentation
  bindings, knowledge domains, the fallback of `select`, the registry of profiles, program
  provenance; heads that were forced back; two records with the same two ends.
- *Scheduler*: `assess_progress`, `revise`, `critical_path` and the listing of `build_inbox`, which compute
  reports; a program that runs the scheduler, which the repository does not have.
- *Parts*: capability intelligence, knowledge and learning, diagnostics, pilots, gateway and admission,
  with reasons under "components" in `PROJECT.json`: they compute reports or are run once, and keep no
  state that another part's control flow depends on.

## Plan

What would come next, in this order; each item fits the modules as they are.

1. `OnlyExternalRevives`, `PlannerBudget` and `OriginRetained` as theorems: the first needs that no
   effect of another command saves a terminal record's status, the others a count like `Askable`.
2. That `GovernedCampaign` is one of the step functions `CampaignRunner` runs, and that its session
   commands are those of `SessionLifecycle`, as refinements.
3. `CampaignDaemon`: several projects, the spec queue, signals and the external-action gate; liveness
   for each campaign when another one's record is unreadable (Disagreement 3).
4. `ExternalAdvancementStore` with its replay, to make `Overtaken` precise.
