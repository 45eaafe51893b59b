-------------------------- MODULE SessionLifecycle --------------------------
(***************************************************************************)
(* One governed session from its first plan to its last status: the code   *)
(* of session_manager.py over session_store.py, with the project registry, *)
(* the target repository, the owner's acceptance of an Objective and the   *)
(* assessment budget it reads.                                             *)
(*                                                                         *)
(* Every command holds the session lock, so one is in flight at a time.  A *)
(* command reads, then has a list of effects in the code's order: it saves *)
(* the session record, puts an immutable artifact, swaps one, calls a      *)
(* planner or a provider, or checks something again.  `Step' performs the  *)
(* first effect that is left and `Crash' forgets them all; between two of  *)
(* them the repository, the registry and the owner's authority may change. *)
(*                                                                         *)
(* A SHA-256 digest is the content it is taken of: two contents with one   *)
(* digest are one content.  A commit is a number, and paths that leave the *)
(* state directory or are symbolic links are refused by the code before    *)
(* anything is written and are not modelled.                               *)
(***************************************************************************)
EXTENDS Integers, Sequences, FiniteSets

CONSTANTS MaxHead,      \* commits the target can be at are 1..MaxHead
          MaxVersion,   \* versions an assessment can take are 2..MaxVersion
          MaxCommands,  \* commands begun besides the resumption of planning
          MaxMoves,     \* changes made outside the session
          MaxCrashes,   \* crashes
          Retries,      \* retry budget of the campaign that owns the session
          Found         \* names of the sessions the program may find

ASSUME SessionBounds ==
  /\ {MaxHead, MaxVersion} \subseteq Nat \ {0, 1}
  /\ {MaxCommands, MaxMoves, MaxCrashes, Retries} \subseteq Nat
  /\ Found \subseteq {"absent", "selfReferential", "unbound", "accepted", "campaigned"}

VARIABLES project,  \* the registry's record: listed, active, head, dirtyOk
          repo,     \* the target: head, clean, home (registered branch, origin)
          owner,    \* the owner's authority: accepted plan, stops, kill switch
          sess,     \* the session record on disk
          disk,     \* the session's artifacts, by name
          intents,  \* delivery intents: base, to, plan
          op,       \* the command in flight and the effects it has left
          seen,     \* ghost: planner and provider calls, artifacts refused
          spent     \* what is left of the bounds: commands, moves, crashes

vars == <<project, repo, owner, sess, disk, intents, op, seen, spent>>

Terminal == {"COMPLETED", "AUDITED", "CANCELLED", "NO_JUSTIFIED_WORK"}

(* The active statuses some code gives a session: REVIEWING, CORRECTING,   *)
(* COMPLIANCE, DELIVERING, PR_READY and FAILED are declared and never set. *)
(* HUMAN_REQUIRED takes a planner that answers with a question.            *)
Active == {"PLANNING", "READY", "EXECUTING", "BLOCKED", "RETRY_REQUIRED", "STALE"}

-----------------------------------------------------------------------------
(* Names and contents of artifacts.                                        *)

NoName    == <<"none", 0>>
Initial   == <<"plan", 1>>       \* plan.json
PlanAt(v) == <<"plan", v>>       \* plan-v2.json, plan-v3.json, ...
Nothing   == [kind |-> "none"]

Plan(from, head, clean, prev, was) ==
  [kind |-> "plan", from |-> from, head |-> head, clean |-> clean,
   prev |-> prev, was |-> was]

(* Director.create_plan is deterministic: goal, repository and cleanliness *)
(* decide the whole plan.                                                  *)
DirectorPlan(head, clean) == Plan("director", head, clean, NoName, Nothing)

IsVersioned(name) == name[1] = "plan" /\ name[2] >= 2

(* The members of a JSON object, and the files of a directory, after some  *)
(* were written.                                                           *)
Over(more, f) ==
  [k \in DOMAIN more \cup DOMAIN f |-> IF k \in DOMAIN more THEN more[k] ELSE f[k]]
With(files, name, content) ==
  [k \in DOMAIN files \cup {name} |-> IF k = name THEN content ELSE files[k]]

OnDisk(name, content) == name \in DOMAIN disk /\ disk[name] = content

(* Artifacts of version 2 carry no -v2 in their name, except the plan: the *)
(* glob over "*-v*.json" does not see the others.                          *)
VersionsSeen ==
  {name[2] : name \in {n \in DOMAIN disk :
      IsVersioned(n) \/ (n[1] \in {"evidence", "assessment"} /\ n[2] >= 3)}}

NextVersion == 1 + CHOOSE v \in VersionsSeen \cup {1} :
                     \A w \in VersionsSeen \cup {1} : w <= v

-----------------------------------------------------------------------------
(* The session record.                                                     *)

NewSession(base) ==
  [status |-> "PLANNING", base |-> base, plan |-> NoName, hash |-> <<>>,
   attempts |-> 0, ops |-> {}, issues |-> {}, actions |-> {}, delivered |-> FALSE]

NoSession == [NewSession(0) EXCEPT !.status = "NONE"]

Has(s, key) == key \in DOMAIN s.hash
Hash(s, key) == IF Has(s, key) THEN s.hash[key] ELSE Nothing
Record(s, more) == [s EXCEPT !.hash = Over(more, @)]

(* _append_event replaces the blocking issues and leaves the human actions *)
Event(s, status, issues, id) ==
  [s EXCEPT !.status = status, !.issues = issues, !.ops = @ \cup {id}]

-----------------------------------------------------------------------------
(* Effects.                                                                *)

(* Save replaces the record; Commit first compares, under the registry's   *)
(* lock, the project with the one the command read.                        *)
Save(s)              == [do |-> "save", session |-> s]
Commit(s)            == [do |-> "commit", session |-> s]
Put(name, content)   == [do |-> "put", name |-> name, content |-> content]
Swap(name, content, backup) ==
  [do |-> "swap", name |-> name, content |-> content, backup |-> backup]
Call(who)            == [do |-> "call", who |-> who]
Check(what)          == [do |-> "check", what |-> what]

Idle    == [kind |-> "none", todo |-> <<>>, repo |-> <<>>, project |-> <<>>,
            owner |-> <<>>, stopped |-> FALSE]
Refused == <<>>

(* A session already marked for this reason is left as it is.              *)
MarkStale(s, reason, action) ==
  LET id == <<"stale", reason>> IN
  IF id \in s.ops THEN Refused
  ELSE <<Save([Event(s, "STALE", {reason[1]}, id) EXCEPT !.actions = {action}])>>

MarkRetry(s) ==
  LET id == <<"retry", Hash(s, "evidence")>> IN
  IF id \in s.ops THEN Refused
  ELSE <<Save(Event(s, "RETRY_REQUIRED", {"provider"}, id))>>

Drifted(s) ==
  MarkStale(s, <<"drift", s.base, repo.head>>, "review the drift")

-----------------------------------------------------------------------------
(* Initial planning.                                                       *)

(* MUTANT: the attempt is counted after the planner has been called.       *)
CountLate(s, clean) ==
  LET plan   == DirectorPlan(s.base, clean)
      done   == [Event(Record(s, [plan |-> plan, candidate |-> plan,
                   origin |-> [kind |-> "origin", plan |-> plan]]),
                   "READY", {}, <<"start">>) EXCEPT !.plan = Initial]
  IN <<Call("planner"), Check("worktree"),
       Save([Record(s, [candidate |-> plan]) EXCEPT !.attempts = @ + 1]),
       Put(Initial, plan), Put(<<"origin", 0>>, [kind |-> "origin", plan |-> plan]), Save(done)>>

(* MUTANT: the session is recorded READY before its plan is written.       *)
SaveEarly(s, plan) ==
  LET origin == [kind |-> "origin", plan |-> plan] IN
  <<Save([Event(Record(s, [plan |-> plan, candidate |-> plan, origin |-> origin]),
              "READY", {}, <<"start">>) EXCEPT !.plan = Initial]),
    Put(Initial, plan), Put(<<"origin", 0>>, origin)>>

(* The origin is written after the plan and before the record names either *)
CommitInitialPlan(s, plan) ==
  LET origin == [kind |-> "origin", plan |-> plan] IN
  <<Put(Initial, plan), Put(<<"origin", 0>>, origin),
    Save([Event(Record(s, [plan |-> plan, candidate |-> plan, origin |-> origin]),
                "READY", {}, <<"start">>) EXCEPT !.plan = Initial])>>

(* MUTANT: the planner is asked again however often it was asked.          *)
FinishAnyway(s, clean) ==
  LET plan  == DirectorPlan(s.base, clean)
      tried == [s EXCEPT !.attempts = @ + 1]
      named == Record(tried, [candidate |-> plan])
  IN <<Save(tried), Call("planner"), Check("worktree"), Save(named)>>
     \o CommitInitialPlan(named, plan)

FinishInitialPlan(s, clean) ==
  LET plan  == DirectorPlan(s.base, clean)
      tried == [s EXCEPT !.attempts = @ + 1]
      named == Record(tried, [candidate |-> plan])
  IN IF s.attempts >= 2
     THEN <<Save(Event(s, "BLOCKED", {"planning"}, <<"exhausted">>))>>
     ELSE <<Save(tried), Call("planner"), Check("worktree"), Save(named)>>
          \o CommitInitialPlan(named, plan)

(* MUTANT: a candidate whose plan was never written is not planned again.  *)
RecoverOnly(s, clean) ==
  IF Has(s, "candidate")
  THEN IF Initial \in DOMAIN disk
       THEN <<Check("worktree")>> \o CommitInitialPlan(s, disk[Initial])
       ELSE Refused
  ELSE FinishInitialPlan(s, clean)

RecoverInitialPlan(s, clean) ==
  IF Has(s, "candidate") /\ Initial \in DOMAIN disk
  THEN IF disk[Initial] = s.hash.candidate
       THEN <<Check("worktree")>> \o CommitInitialPlan(s, disk[Initial])
       ELSE Refused
  ELSE FinishInitialPlan(s, clean)

(* The dirty tree is known by its fingerprint, taken when the session      *)
(* starts: the tree a resumption finds must be the same one.               *)
WorktreeMatches(s) ==
  IF Has(s, "worktree")
  THEN project.dirtyOk /\ repo.tree # 0
       /\ OnDisk(<<"worktree", 0>>, s.hash.worktree) /\ s.hash.worktree.tree = repo.tree
  ELSE repo.tree = 0

ResumePlanning(s) ==
  IF s.ops # {} \/ ~(DOMAIN s.hash \subseteq {"worktree", "candidate"})
     \/ project.head # s.base
  THEN MarkStale(s, <<"inconsistent", 0, 0>>, "inspect session evidence")
  ELSE IF ~WorktreeMatches(s)
  THEN MarkStale(s, <<"worktree", 0, 0>>, "restore the original state")
  ELSE RecoverInitialPlan(s, repo.tree = 0)

StartEffects ==
  LET s        == NewSession(repo.head)
      snapshot == [kind |-> "worktree", tree |-> repo.tree]
  IN IF repo.tree = 0
     THEN <<Save(s)>> \o FinishInitialPlan(s, TRUE)
     ELSE LET t == Record(s, [worktree |-> snapshot]) IN
          <<Put(<<"worktree", 0>>, snapshot), Save(t)>> \o FinishInitialPlan(t, FALSE)

-----------------------------------------------------------------------------
(* Plan identity and lineage.                                              *)

PlanIdentity(s) ==
  /\ s.plan \in DOMAIN disk
  /\ Has(s, "plan")
  /\ disk[s.plan] = s.hash.plan
  /\ disk[s.plan].head = s.base

(* Every predecessor is on disk as its successor recorded it, and is bound *)
(* to one of `heads'.                                                      *)
Lineage(name, content) ==
  LET walk[n \in 0..(MaxVersion + MaxHead)] ==
        IF n = 0 THEN <<name, content>>
        ELSE LET at == walk[n - 1] IN
             IF at[2] = Nothing \/ at[2].prev = NoName THEN <<NoName, Nothing>>
             ELSE <<at[2].prev, at[2].was>>
  IN {walk[n] : n \in DOMAIN walk} \ {<<NoName, Nothing>>}

PredecessorChain(name, content, heads) ==
  \A at \in Lineage(name, content) : OnDisk(at[1], at[2]) /\ at[2].head \in heads

(* A reconciled plan allows its predecessors the base of its own delivery, *)
(* any other plan the head the project is registered at.                   *)
PlanLineage(s) ==
  LET plan == disk[s.plan] IN
  \/ plan.prev = NoName
  \/ /\ plan.was # Nothing
     /\ Hash(s, "predecessor") = plan.was
     /\ plan.from = "delivered" => \E i \in intents : i.to = s.base /\ i.plan = plan.was
     /\ PredecessorChain(plan.prev, plan.was,
          IF plan.from = "delivered" THEN {plan.was.head} ELSE {project.head})

(* A reconciliation recorded before the session kept its predecessor.      *)
RepairBinding(s) ==
  LET plan == disk[s.plan] IN
  /\ PlanIdentity(s)
  /\ plan.from = "delivered"
  /\ OnDisk(plan.prev, plan.was)
  /\ \E i \in intents : i.plan = plan.was /\ i.to = s.base /\ i.to = repo.head
  /\ PredecessorChain(plan.prev, plan.was, {plan.was.head})

ReconcileDelivered(s) ==
  LET delivery == {i \in intents : i.base = s.base}
      old      == disk[s.plan]
      plan     == Plan("delivered", repo.head, old.clean, s.plan, old)
      name     == PlanAt(NextVersion)
  IN <<Put(name, plan),
       Save([Event(Record(s, [plan |-> plan, predecessor |-> old,
                              delivery |-> [kind |-> "delivery", to |-> repo.head]]),
                   "READY", {}, <<"delivered", s.base>>)
             EXCEPT !.base = repo.head, !.plan = name])>>

(* The receipt is issued only for the head the intent promised.            *)
DeliveryProven(s) ==
  LET delivery == {i \in intents : i.base = s.base} IN
  /\ Cardinality(delivery) = 1
  /\ \A i \in delivery : i.to = repo.head /\ i.plan = Hash(s, "plan")
  /\ s.plan \in DOMAIN disk /\ Has(s, "plan") /\ disk[s.plan] = s.hash.plan

-----------------------------------------------------------------------------
(* resume, once the flags and the terminal statuses are behind it.         *)

ResumeReady(s, execute) ==
  IF s.status # "READY" THEN Refused
  ELSE IF Has(s, "binding") /\ owner.accepted = s.hash.plan /\ s.hash.binding = owner.accepted
  THEN Refused
  ELSE IF Has(s, "evidence") /\ ~IsVersioned(s.plan) THEN Refused
  ELSE IF Has(s, "evidence") /\ (s.hash.evidence.head # s.base
                                 \/ s.hash.evidence.plan # Hash(s, "predecessor"))
  THEN MarkRetry(s)
  ELSE IF execute /\ project.live /\ <<"execute">> \notin s.ops
  THEN <<Save(Event(s, "EXECUTING", {}, <<"execute">>))>>
  ELSE Refused

ResumeEffects(s, execute) ==
  IF ~project.active THEN MarkStale(s, <<"project", 0, 0>>, "restore project")
  ELSE IF ~repo.home THEN MarkStale(s, <<"identity", 0, 0>>, "restore identity")
  ELSE IF repo.head # s.base
  THEN IF DeliveryProven(s) THEN ReconcileDelivered(s) ELSE Drifted(s)
  ELSE IF s.status = "PLANNING" /\ s.plan = NoName THEN ResumePlanning(s)
  ELSE IF PlanIdentity(s) /\ PlanLineage(s)
  THEN IF disk[s.plan].from = "delivered" THEN Refused ELSE ResumeReady(s, execute)
  ELSE IF RepairBinding(s)
  THEN <<Save([Event(Record(s, [predecessor |-> disk[s.plan].was]), "READY", {},
                     <<"binding-repair">>) EXCEPT !.actions = {}])>>
  ELSE MarkStale(s, <<IF PlanIdentity(s) THEN "lineage" ELSE "plan", 0, 0>>,
                 "inspect session evidence")

-----------------------------------------------------------------------------
(* Assessment.                                                             *)

(* The observation an assessment is bound to, and what its plan can say:   *)
(* a dirty tree justifies no scope, whatever the provider proposed.        *)
AssessRepository(clean) == [kind |-> "assessment", head |-> repo.head, clean |-> clean]

DeriveArchitecture(clean, answer) ==
  IF answer = "unavailable" THEN "RETRY_REQUIRED"
  ELSE IF ~clean \/ answer = "none" THEN "BLOCKED"
  ELSE IF answer = "nowork" THEN "NO_JUSTIFIED_WORK"
  ELSE "READY"

(* MUTANT: an invocation is recorded once the provider has answered.       *)
RecordLate(attempt) ==
  <<Call("provider"), Put(<<"started", attempt>>, [kind |-> "started"]),
    Put(<<"finished", attempt>>, [kind |-> "finished"])>>

Invocation(attempt) ==
  <<Put(<<"started", attempt>>, [kind |-> "started"]), Call("provider"),
    Put(<<"finished", attempt>>, [kind |-> "finished"])>>

(* A session bound to a campaign consumes one slot of its retry budget; a  *)
(* slot started and never finished is of unknown outcome and stops it.     *)
Slots == 0..Retries
Free  == {n \in Slots : <<"started", n>> \notin DOMAIN disk}

AssessmentAllowed(s) ==
  IF Has(s, "campaign")
  THEN /\ Free # {}
       /\ \A n \in Slots \ Free : <<"finished", n>> \in DOMAIN disk
       /\ Has(s, "plan")
  ELSE <<"binding", 0>> \notin DOMAIN disk

Invoke(s) ==
  IF Has(s, "campaign")
  THEN Invocation(CHOOSE n \in Free : \A k \in Free : n <= k)
  ELSE <<Call("provider")>>

(* The evidence, the request and response, the assessment and its          *)
(* architecture share a version; the plan that cites them is written last. *)
CommitAssessment(s, clean, answer) ==
  LET v        == NextVersion
      old      == IF s.plan \in DOMAIN disk THEN disk[s.plan] ELSE Nothing
      evidence == [kind |-> "evidence", head |-> repo.head, plan |-> old, answer |-> answer]
      observed == AssessRepository(clean)
      plan     == Plan("assessed", repo.head, clean, s.plan, old)
      first    == IF Hash(s, "original") # Nothing THEN s.hash.original ELSE old
      status   == DeriveArchitecture(clean, answer)
      issues   == IF status \in {"BLOCKED", "RETRY_REQUIRED"} THEN {"assessment"} ELSE {}
  IN <<Put(<<"evidence", v>>, evidence), Put(<<"assessment", v>>, observed), Put(PlanAt(v), plan),
       Save([Event(Record(s, [original |-> first, predecessor |-> old, plan |-> plan,
                              assessment |-> observed, evidence |-> evidence]),
                   status, issues, <<"assess">>) EXCEPT !.plan = PlanAt(v)])>>

FreshAssessment(s, answer) ==
  IF ~project.active THEN MarkStale(s, <<"project", 0, 0>>, "restore project")
  ELSE IF ~repo.home THEN MarkStale(s, <<"identity", 0, 0>>, "restore identity")
  ELSE IF repo.head # s.base THEN Drifted(s)
  ELSE IF ~AssessmentAllowed(s) THEN Refused
  ELSE Invoke(s) \o (IF answer = "error" THEN <<>>
                     ELSE CommitAssessment(s, repo.tree = 0, answer))

(* The evidence of an earlier assessment is historical once the base or    *)
(* the cleanliness it observed has changed, or if it lacks a binding.      *)
Historical(s) ==
  \/ {"predecessor", "evidence"} \ DOMAIN s.hash # {}
  \/ s.hash.assessment.head # s.base
  \/ s.hash.plan.head # s.base
  \/ s.hash.assessment.clean # (repo.tree = 0)

(* An observed answer never authorises a recovery: current evidence only   *)
(* asks for a fresh one, historical evidence is copied aside and replaced. *)
AssessEffects(s, answer) ==
  IF /\ {"assessment", "plan", "original"} \subseteq DOMAIN s.hash
     /\ s.status # "RETRY_REQUIRED"
     /\ IsVersioned(s.plan)
  THEN IF repo.head # s.base \/ ~repo.home
       THEN MarkStale(s, <<"recovery", 0, 0>>, "restore identity")
       ELSE IF ~OnDisk(s.plan, s.hash.plan) THEN Refused
       ELSE IF ~Historical(s) THEN MarkRetry(s)
       ELSE <<Put(<<"legacy", 0>>, s.hash.assessment)>> \o FreshAssessment(s, answer)
  ELSE FreshAssessment(s, answer)

-----------------------------------------------------------------------------
(* Reconciliation of the base with a target that moved.                    *)

OnlyDrift(s) == s.issues = {"drift"} /\ s.actions = {"review the drift"}

(* MUTANT: the rebased session keeps the plan it retired.                  *)
KeepPlan(s) ==
  <<Save([Event(s, "READY", {}, <<"canonical", repo.head>>)
          EXCEPT !.base = repo.head, !.actions = {}])>>

Rebase(s) ==
  <<Save([Event([s EXCEPT !.hash = [canonical |-> [kind |-> "head", head |-> repo.head]]],
                "READY", {}, <<"canonical", repo.head>>)
          EXCEPT !.base = repo.head, !.plan = NoName, !.actions = {}])>>

ReconcileCanonical(s) ==
  IF /\ project.active /\ repo.home /\ repo.tree = 0 /\ s.base # repo.head
     /\ s.status \in {"BLOCKED", "STALE", "RETRY_REQUIRED"}
     /\ s.actions = {} \/ OnlyDrift(s)
     /\ s.issues \subseteq {"drift"}
  THEN Rebase(s)
  ELSE Refused

(* The owner's evidence of an advance names the base it starts from.  The  *)
(* old planning origin is kept under the advance's name; that it is the    *)
(* recorded one is asked after it has been replaced.                       *)
ReplaceOrigin(s, origin, from) ==
  LET name == <<"origin", 0>>  backup == <<"origin-before", 10 * from + repo.head>> IN
  IF name \notin DOMAIN disk THEN <<Put(name, origin)>>
  ELSE IF disk[name] # origin THEN <<Swap(name, origin, backup)>>
  ELSE <<>>

OriginKept(s, origin, from) ==
  LET name == <<"origin", 0>>  backup == <<"origin-before", 10 * from + repo.head>>
      kept == IF name \notin DOMAIN disk THEN Hash(s, "origin")
              ELSE IF disk[name] # origin THEN disk[name]
              ELSE IF backup \in DOMAIN disk THEN disk[backup] ELSE Nothing
  IN kept = Hash(s, "origin") \/ ~Has(s, "origin")

ReconcileExternalAdvance(s, from) ==
  LET plan   == DirectorPlan(repo.head, TRUE)
      origin == [kind |-> "origin", plan |-> plan]
      name   == <<"reassessment", repo.head>>
      replay == s.base = repo.head /\ <<"external", from, repo.head>> \in s.ops
                /\ Has(s, "external")
  IN IF /\ from < repo.head /\ from = s.base /\ ~replay /\ repo.home
        /\ project.head = repo.head /\ repo.tree = 0
     THEN <<Put(name, plan)>> \o ReplaceOrigin(s, origin, from)
          \o (IF ~OriginKept(s, origin, from) THEN <<>>
              ELSE <<Save([Event([s EXCEPT !.hash =
                       [external |-> [kind |-> "head", head |-> repo.head],
                        plan |-> plan, origin |-> origin]],
                     "READY", {}, <<"external", from, repo.head>>)
                   EXCEPT !.base = repo.head, !.plan = name, !.actions = {}])>>)
     ELSE Refused

ReconcileExternalResult(s) ==
  IF repo.home /\ project.head = repo.head /\ s.base <= repo.head
  THEN <<Save([Event([s EXCEPT !.hash = [result |-> [kind |-> "head", head |-> repo.head]]],
                     "READY", {}, <<"result", repo.head>>)
               EXCEPT !.base = repo.head, !.actions = {}])>>
  ELSE Refused

-----------------------------------------------------------------------------
(* repair_lineage: a plan of an older release that names itself as its     *)
(* predecessor gets the one original plan instead.                         *)

Audit == <<"repair", 0>>
Repaired(s, audit) ==
  [Event(Record(s, [plan |-> audit.new, predecessor |-> audit.new.was, repair |-> audit]),
         "BLOCKED", {}, <<"repair">>) EXCEPT !.actions = {}]

FreshRepair(s, audit) ==
  <<Put(Audit, audit), Swap(s.plan, audit.new, <<"plan-invalid", 2>>), Save(Repaired(s, audit))>>

(* The audit carries the time of its attempt: a second attempt writes      *)
(* another one.                                                            *)
RepairEffects(s) ==
  LET current == disk[s.plan]
      audit   == [kind |-> "repair", old |-> current, time |-> spent.commands,
                  new |-> [current EXCEPT !.prev = Initial, !.was = s.hash.original]]
  IN IF s.status \in Terminal \/ s.plan \notin DOMAIN disk \/ ~Has(s, "original") THEN Refused
     ELSE IF current.head # s.base \/ ~Has(s, "plan") THEN Refused
     ELSE IF Audit \in DOMAIN disk
     THEN IF ~OnDisk(<<"plan-invalid", 2>>, disk[Audit].old) THEN Refused
          ELSE IF current = disk[Audit].new
          THEN <<Save(Repaired(s, disk[Audit]))>>
          ELSE IF current = s.hash.plan /\ current = disk[Audit].old
          THEN FreshRepair(s, audit) ELSE Refused
     ELSE IF /\ current.prev = s.plan /\ current = s.hash.plan
             /\ OnDisk(Initial, s.hash.original)
             /\ PredecessorChain(Initial, s.hash.original, {project.head})
     THEN FreshRepair(s, audit)
     ELSE Refused

-----------------------------------------------------------------------------
(* The owner's Objective: binding its plan and completing it.              *)

BoundPlan(s) == Plan("bound", s.base, s.hash.plan.clean, s.plan, s.hash.plan)

Unexecuted(s) ==
  /\ OnDisk(<<"origin", 0>>, Hash(s, "origin"))
  /\ \A at \in Lineage(s.plan, s.hash.plan) : OnDisk(at[1], at[2])
  /\ s.hash.origin.plan \in {at[2] : at \in Lineage(s.plan, s.hash.plan)}
  /\ s.status = "READY"
  /\ intents = {}
  /\ <<"execute">> \notin s.ops

BindObjectivePlan(s) ==
  LET name == <<"objective", s.plan[2]>> IN
  <<Put(name, owner.accepted), Check("target"), Check("authority"),
    Commit([Event(Record(s, [predecessor |-> s.hash.plan, plan |-> owner.accepted,
                             binding |-> owner.accepted]), s.status, s.issues,
                  <<"bound", s.plan>>) EXCEPT !.plan = name])>>

BindEffects(s) ==
  IF /\ PlanIdentity(s) /\ PlanLineage(s)
     /\ owner.accepted # s.hash.plan /\ Unexecuted(s)
     /\ repo.head = s.base /\ repo.home
     /\ owner.accepted = BoundPlan(s)
  THEN BindObjectivePlan(s)
  ELSE Refused

(* What _snapshot demands of the moment it is taken at.                    *)
Acceptable(s) ==
  /\ project.active /\ s.status \in {"READY", "COMPLETED"}
  /\ s.issues = {} /\ s.actions = {}
  /\ repo.head = s.base /\ repo.home /\ repo.tree = 0
  /\ s.plan \in DOMAIN disk /\ disk[s.plan] = Hash(s, "plan")
  /\ owner.accepted # Nothing /\ ~owner.stopped

(* Every task of the approved plan has an integrated delivery.             *)
IntegratedPlan(s) == disk[s.plan].from = "delivered" /\ disk[s.plan].was = owner.accepted

(* MUTANT: the snapshot is not taken again once the validators have ended. *)
CompleteOnce(s) ==
  <<Call("validators"), Commit(Event(s, "COMPLETED", {}, <<"completed">>))>>

CompleteEffects(s) ==
  <<Call("validators"), Check("snapshot"), Check("snapshot"),
    Commit(Event(s, "COMPLETED", {}, <<"completed">>))>>

CompletionAttempt(s, passes) ==
  IF Acceptable(s) /\ IntegratedPlan(s) /\ project.live /\ passes
  THEN IF s.status = "COMPLETED" THEN Refused ELSE CompleteEffects(s)
  ELSE IF s.status = "COMPLETED" THEN Refused
  ELSE <<Save(Event(s, s.status, s.issues, <<"attempt">>))>>

-----------------------------------------------------------------------------
(* Commands.                                                               *)

Begin(kind, effects) ==
  /\ op = Idle
  /\ effects # Refused
  /\ op' = [kind |-> kind, todo |-> effects, repo |-> repo, project |-> project,
            owner |-> owner, stopped |-> FALSE]
  /\ UNCHANGED <<project, repo, owner, sess, disk, intents, seen>>

Command(kind, effects) ==
  /\ spent.commands < MaxCommands
  /\ spent' = [spent EXCEPT !.commands = @ + 1]
  /\ Begin(kind, effects)

Known  == sess # NoSession
Opened == Known /\ project.listed

(* registry.verify as the commands that call it leave the project.         *)
Verified ==
  IF repo.home THEN [project EXCEPT !.active = TRUE, !.head = repo.head]
  ELSE [project EXCEPT !.active = FALSE]

Start ==
  /\ sess = NoSession /\ project.listed
  /\ project = Verified /\ project.active
  /\ repo.tree = 0 \/ project.dirtyOk
  /\ Command("start", StartEffects)

Resume ==
  /\ Opened /\ sess.status \notin Terminal \cup {"PLANNING"}
  /\ \E execute \in BOOLEAN : Command("resume", ResumeEffects(sess, execute))

(* The resumption of planning counts its own attempts, so it needs no      *)
(* bound of the model.                                                     *)
ResumeInitialPlanning ==
  /\ Opened /\ sess.status = "PLANNING"
  /\ Begin("resume", ResumeEffects(sess, FALSE))
  /\ UNCHANGED spent

(* MUTANT: a terminal session is assessed.                                 *)
AssessAny ==
  /\ Opened
  /\ \E answer \in {"approved", "none"} : Command("assess", AssessEffects(sess, answer))

Assess ==
  /\ Opened /\ sess.status \notin Terminal
  /\ \E answer \in {"approved", "none", "nowork", "unavailable", "error"} :
       Command("assess", AssessEffects(sess, answer))

ReconcileCanonicalTarget ==
  /\ Opened /\ sess.status \notin Terminal /\ project = Verified
  /\ Command("canonical", ReconcileCanonical(sess))

(* Neither reconciliation with an external result asks the status.         *)
ReconcileExternal ==
  /\ Opened
  /\ \E from \in 1..MaxHead : Command("external", ReconcileExternalAdvance(sess, from))

ReconcileResult ==
  Opened /\ Command("external", ReconcileExternalResult(sess))

RepairLineage ==
  Opened /\ project = Verified /\ Command("repair", RepairEffects(sess))

BindPlan == Opened /\ Command("bind", BindEffects(sess))

Complete ==
  /\ Opened
  /\ \E passes \in BOOLEAN : Command("complete", CompletionAttempt(sess, passes))

(* The registered policy of an audit forbids execution.                    *)
AuditReadonly ==
  /\ Opened /\ sess.status \in {"READY", "BLOCKED"}
  /\ project = Verified /\ project.active /\ ~project.live
  /\ sess.base = repo.head /\ repo.tree = 0
  /\ Command("audit",
       LET report == [kind |-> "audit", time |-> spent.commands] IN
       <<Put(<<"audit", 0>>, report),
         Save(Event(Record(sess, [audit |-> report]), "AUDITED", {}, <<"audit">>))>>)

Cancel ==
  /\ Known /\ sess.status \in Active /\ <<"cancel">> \notin sess.ops
  /\ Command("cancel", <<Save(Event(sess, "CANCELLED", {}, <<"cancel">>))>>)

(* register_governed_campaign binds a ready session to a retry budget.     *)
BindCampaign ==
  /\ Opened /\ project.active /\ sess.status \in {"READY", "RETRY_REQUIRED"}
  /\ PlanIdentity(sess) /\ ~Has(sess, "campaign")
  /\ LET binding == [kind |-> "binding"] IN
     Command("campaign", <<Put(<<"binding", 0>>, binding),
                           Save(Record(sess, [campaign |-> binding]))>>)

-----------------------------------------------------------------------------
(* One effect of the command in flight.                                    *)

Rest == IF Len(op.todo) = 1 THEN Idle ELSE [op EXCEPT !.todo = Tail(@)]
Same == UNCHANGED <<project, repo, owner, intents, spent>>

(* An artifact is written once: another content under its name is refused. *)
PutEffect(e) ==
  /\ e.do = "put"
  /\ IF e.name \in DOMAIN disk /\ disk[e.name] # e.content
     THEN /\ op' = Idle
          /\ seen' = [seen EXCEPT !.refused = @ \cup {e.name[1]}]
          /\ UNCHANGED disk
     ELSE /\ op' = Rest
          /\ disk' = With(disk, e.name, e.content)
          /\ UNCHANGED seen
  /\ UNCHANGED sess

(* MUTANT: the old bytes are not kept.                                     *)
SwapBlind(e) ==
  /\ e.do = "swap"
  /\ disk' = [disk EXCEPT ![e.name] = e.content] /\ op' = Rest
  /\ UNCHANGED <<sess, seen>>

(* The old bytes are retained before the artifact is replaced.             *)
SwapEffect(e) ==
  /\ e.do = "swap"
  /\ IF e.backup \notin DOMAIN disk
     THEN disk' = With(disk, e.backup, disk[e.name]) /\ UNCHANGED <<op, seen>>
     ELSE IF disk[e.backup] = disk[e.name]
     THEN disk' = [disk EXCEPT ![e.name] = e.content] /\ op' = Rest /\ UNCHANGED seen
     ELSE /\ op' = Idle /\ seen' = [seen EXCEPT !.refused = @ \cup {e.backup[1]}]
          /\ UNCHANGED disk
  /\ UNCHANGED sess

SaveEffect(e) ==
  /\ e.do = "save"
  /\ sess' = e.session /\ op' = Rest
  /\ UNCHANGED <<disk, seen>>

CommitEffect(e) ==
  /\ e.do = "commit"
  /\ IF project.listed /\ project = op.project
     THEN sess' = e.session ELSE UNCHANGED sess
  /\ op' = Rest
  /\ UNCHANGED <<disk, seen>>

CallEffect(e) ==
  /\ e.do = "call"
  /\ seen' = IF e.who = "planner" THEN [seen EXCEPT !.planner = @ + 1]
             ELSE IF e.who = "provider" /\ Has(sess, "campaign")
             THEN [seen EXCEPT !.provider = @ + 1]
             ELSE seen
  /\ op' = Rest
  /\ UNCHANGED <<sess, disk>>

Holds(what) ==
  CASE what = "worktree"  -> repo.head = sess.base /\ repo.home /\ repo.tree = op.repo.tree
    [] what = "target"    -> repo = op.repo
    [] what = "authority" -> owner.accepted = op.owner.accepted
    [] what = "snapshot"  -> /\ project = op.project /\ Acceptable(sess)
                             /\ owner = op.owner

CheckEffect(e) ==
  /\ e.do = "check"
  /\ op' = IF Holds(e.what) THEN Rest ELSE Idle
  /\ UNCHANGED <<sess, disk, seen>>

Step ==
  /\ op # Idle
  /\ LET e == Head(op.todo) IN
     \/ PutEffect(e) \/ SwapEffect(e) \/ SaveEffect(e)
     \/ CommitEffect(e) \/ CallEffect(e) \/ CheckEffect(e)
  /\ Same

(* A killed process releases its locks and leaves what it had written.     *)
Crash ==
  /\ op # Idle /\ spent.crashes < MaxCrashes
  /\ op' = Idle
  /\ spent' = [spent EXCEPT !.crashes = @ + 1]
  /\ UNCHANGED <<project, repo, owner, sess, disk, intents, seen>>

-----------------------------------------------------------------------------
(* What changes beside the session.                                        *)

Beside ==
  /\ spent.moves < MaxMoves
  /\ spent' = [spent EXCEPT !.moves = @ + 1]
  /\ UNCHANGED <<sess, disk, seen>>

MoveTarget ==
  /\ \E h \in (1..MaxHead) \ {repo.head} : repo' = [repo EXCEPT !.head = h]
  /\ Beside /\ UNCHANGED <<project, owner, intents, op>>

TouchTree ==
  /\ repo' = [repo EXCEPT !.tree = 1 - @]
  /\ Beside /\ UNCHANGED <<project, owner, intents, op>>

SwitchBranch ==
  /\ repo' = [repo EXCEPT !.home = ~@]
  /\ Beside /\ UNCHANGED <<project, owner, intents, op>>

(* A governed delivery persists its intent, then the target advances.      *)
Deliver ==
  /\ Known /\ sess.status \in {"READY", "EXECUTING"} /\ op = Idle
  /\ repo.head = sess.base /\ repo.home /\ repo.head < MaxHead
  /\ PlanIdentity(sess)
  /\ intents' = intents \cup {[base |-> sess.base, to |-> repo.head + 1, plan |-> sess.hash.plan]}
  /\ \E pushed \in BOOLEAN : repo' = IF pushed THEN [repo EXCEPT !.head = @ + 1] ELSE repo
  /\ Beside /\ UNCHANGED <<project, owner, op>>

VerifyProject ==
  /\ project.listed /\ project # Verified
  /\ project' = Verified
  /\ UNCHANGED <<repo, owner, sess, disk, intents, op, seen, spent>>

SetStatus ==
  /\ project.listed
  /\ project' = [project EXCEPT !.active = ~@]
  /\ Beside /\ UNCHANGED <<repo, owner, intents, op>>

(* remove asks for the sessions on disk under the registry's lock alone.   *)
RemoveProject ==
  /\ project.listed /\ sess.status \in Terminal \cup {"NONE"}
  /\ project' = [project EXCEPT !.listed = FALSE]
  /\ Beside /\ UNCHANGED <<repo, owner, intents, op>>

AddProject ==
  /\ ~project.listed /\ repo.home
  /\ project' = [project EXCEPT !.listed = TRUE, !.active = TRUE, !.head = repo.head]
  /\ Beside /\ UNCHANGED <<repo, owner, intents, op>>

(* The owner approves the projection of the plan the session has.          *)
AcceptObjective ==
  /\ Known /\ Has(sess, "plan")
  /\ owner' = [owner EXCEPT !.accepted =
       IF @ = BoundPlan(sess) THEN Nothing ELSE BoundPlan(sess)]
  /\ Beside /\ UNCHANGED <<project, repo, intents, op>>

(* The kill switch: each setting is a generation of its own.               *)
SetStop ==
  /\ owner' = [owner EXCEPT !.stopped = ~@, !.stops = @ + 1]
  /\ op' = IF op # Idle /\ Len(op.todo) > 1 THEN [op EXCEPT !.stopped = TRUE] ELSE op
  /\ Beside /\ UNCHANGED <<project, repo, intents>>

-----------------------------------------------------------------------------
(* Sessions the program may find besides none: a plan an older release let *)
(* name itself as its predecessor, a reconciled plan an older release did  *)
(* not record the predecessor of, a plan bound to the owner's Objective    *)
(* and delivered, and a session whose retry budget is a campaign's.        *)

First == DirectorPlan(1, TRUE)
Planned ==
  [NewSession(1) EXCEPT !.status = "READY", !.plan = Initial, !.attempts = 1,
     !.ops = {<<"start">>},
     !.hash = [plan |-> First, candidate |-> First,
               origin |-> [kind |-> "origin", plan |-> First]]]
Written ==
  With(With(<<>>, Initial, First), <<"origin", 0>>, Planned.hash.origin)

SelfReferential ==
  LET plan == Plan("assessed", 1, TRUE, PlanAt(2), First) IN
  [sess |-> [Planned EXCEPT !.status = "BLOCKED", !.plan = PlanAt(2),
               !.hash = [plan |-> plan, original |-> First]],
   disk |-> With(Written, PlanAt(2), plan), intents |-> {}, accepted |-> Nothing]

Unbound ==
  LET plan == Plan("delivered", 2, TRUE, Initial, First) IN
  [sess |-> [Planned EXCEPT !.base = 2, !.plan = PlanAt(2), !.hash = [plan |-> plan]],
   disk |-> With(Written, PlanAt(2), plan),
   intents |-> {[base |-> 1, to |-> 2, plan |-> First]}, accepted |-> Nothing]

Accepted ==
  LET plan == BoundPlan(Planned)
      s    == Record(Planned, [plan |-> plan, predecessor |-> First, binding |-> plan])
  IN [sess |-> [s EXCEPT !.plan = <<"objective", 1>>],
      disk |-> With(Written, <<"objective", 1>>, plan),
      intents |-> {[base |-> 1, to |-> 2, plan |-> plan]}, accepted |-> plan]

Campaigned ==
  LET binding == [kind |-> "binding"] IN
  [sess |-> Record(Planned, [campaign |-> binding]),
   disk |-> With(Written, <<"binding", 0>>, binding),
   intents |-> {}, accepted |-> Nothing]

Absent == [sess |-> NoSession, disk |-> <<>>, intents |-> {}, accepted |-> Nothing]

Sessions ==
  [absent |-> Absent, selfReferential |-> SelfReferential, unbound |-> Unbound,
   accepted |-> Accepted, campaigned |-> Campaigned]

Init ==
  /\ \E name \in Found :
       LET found == Sessions[name]
           head  == IF found.intents = {} THEN 1 ELSE 2
       IN /\ sess = found.sess /\ disk = found.disk /\ intents = found.intents
          /\ owner = [accepted |-> found.accepted, stopped |-> FALSE, stops |-> 0]
          /\ \E tree \in (IF name = "absent" THEN 0..1 ELSE {0}) :
               repo = [head |-> head, tree |-> tree, home |-> TRUE]
          /\ \E live \in (IF name = "absent" THEN BOOLEAN ELSE {TRUE}) :
             project = [listed |-> TRUE, active |-> TRUE, head |-> head,
                        dirtyOk |-> TRUE, live |-> live]
          /\ spent = [commands |-> IF name = "absent" THEN 0 ELSE 1, moves |-> 0, crashes |-> 0]
  /\ op = Idle
  /\ seen = [planner |-> 0, provider |-> 0, refused |-> {}]

Next ==
  \/ Start \/ Resume \/ ResumeInitialPlanning \/ Assess \/ ReconcileCanonicalTarget
  \/ ReconcileExternal \/ ReconcileResult \/ RepairLineage \/ BindPlan \/ Complete
  \/ AuditReadonly \/ Cancel \/ BindCampaign \/ Step \/ Crash
  \/ MoveTarget \/ TouchTree \/ SwitchBranch \/ Deliver \/ VerifyProject \/ SetStatus
  \/ RemoveProject \/ AddProject \/ AcceptObjective \/ SetStop

(* A command once begun goes on unless it crashes, and whoever started a   *)
(* session resumes its planning until it has ended.                        *)
Spec == Init /\ [][Next]_vars /\ WF_vars(Step) /\ WF_vars(ResumeInitialPlanning)

-----------------------------------------------------------------------------
(* Properties.                                                             *)

(* TypeOK: the session record and the command in flight have the shape the *)
(* schema of session_models.py gives them.                                 *)
TypeOK ==
  /\ project \in [listed : BOOLEAN, active : BOOLEAN, head : 1..MaxHead,
                  dirtyOk : BOOLEAN, live : BOOLEAN]
  /\ repo \in [head : 1..MaxHead, tree : 0..1, home : BOOLEAN]
  /\ sess.status \in Active \cup Terminal \cup {"NONE"}
  /\ sess.base \in 0..MaxHead /\ sess.attempts \in 0..2
  /\ Known => sess.base # 0
  /\ op.kind = "none" <=> op.todo = <<>>

(* Artifacts are written before the record that names them, and a crash    *)
(* between any two writes leaves the recorded plan readable: it is on disk *)
(* as its hash says, or a lineage repair explains what replaced it.        *)
PlanRetained ==
  Has(sess, "plan") =>
    \/ OnDisk(sess.plan, sess.hash.plan)
    \/ /\ Audit \in DOMAIN disk /\ sess.hash.plan = disk[Audit].old
       /\ OnDisk(sess.plan, disk[Audit].new)
       /\ OnDisk(<<"plan-invalid", 2>>, disk[Audit].old)

(* The recorded planning origin is never lost: an external advance swaps   *)
(* the file and keeps the old one, before and after any crash.             *)
OriginRetained ==
  Has(sess, "origin") => \E name \in DOMAIN disk : disk[name] = sess.hash.origin

(* The plan a record binds is a plan for the record's base, whatever       *)
(* delivery or reconciliation moved that base.                             *)
PlanOfBase == Has(sess, "plan") => sess.hash.plan.head = sess.base

(* Across crashes and resumptions the planner is asked twice at most       *)
(* for the first plan of a session (_finish_initial_plan).                 *)
PlannerBudget == seen.planner <= 2

(* Across crashes and retries the provider is asked at most once for each  *)
(* slot of the campaign's budget (assessment_invocation).                  *)
InvocationBudget == seen.provider <= Retries + 1

(* Only a reconciliation with an external result leaves a terminal status: *)
(* no resumption, assessment, repair, cancellation or completion does.     *)
OnlyExternalRevives ==
  [][sess.status \in Terminal /\ sess'.status # sess.status => op.kind = "external"]_vars

(* A completion is recorded on the registered, active project it was       *)
(* validated on, and no stop was set while its validators ran, not even    *)
(* one that was lifted again (complete, verify_current_completion_evidence)*)
CompletedOnCurrentEvidence ==
  [][sess'.status = "COMPLETED" /\ sess.status # "COMPLETED" =>
       project.listed /\ project.active /\ ~op.stopped]_vars

(* A session in initial planning gets a plan or a status that says why not *)
(* if its project stays registered and its owner resumes it (resume,       *)
(* _finish_initial_plan).  The exception: an external advance that was     *)
(* begun and interrupted has left another planning origin, and the target  *)
(* was set back; every resumption then is refused the origin it writes.    *)
Overtaken == \E h \in 1..MaxHead : <<"reassessment", h>> \in DOMAIN disk
PlanningEnds ==
  (sess.status = "PLANNING" /\ project.listed)
    ~> (sess.status # "PLANNING" \/ ~project.listed \/ Overtaken)

(* session_manager.py:1021: a historical assessment is to be preserved and *)
(* replaced by a fresh one.  The copy has a fixed name.                    *)
HistoryNotInTheWay == "legacy" \notin seen.refused

(* README.md:146: target drift is detected and surfaced instead of         *)
(* silently advancing.  A resumption does something about a READY session  *)
(* whose target is elsewhere.                                              *)
DriftSurfaced ==
  /\ op = Idle /\ Opened /\ project.active /\ repo.home
  /\ sess.status = "READY" /\ repo.head # sess.base
  => ResumeEffects(sess, FALSE) # Refused

=============================================================================
