------------------------------ MODULE PolicyState ------------------------------
(***************************************************************************)
(* PolicyStateStore, one SQLite database that the owner's controller       *)
(* writes (policies, activations, kill switch) and that a delivery locks   *)
(* while it commits and pushes.  A transaction is one action: BEGIN        *)
(* IMMEDIATE makes it exclusive.  What a caller read before it is old by   *)
(* then, so reads are actions of their own.                                *)
(*                                                                         *)
(* One project, before its cutover to signed generations (resolve_authority *)
(* without a selector; see AuthorityGenerations for what comes after it).  *)
(* The project lock of deliver lets one delivery run at a time.            *)
(* Signatures hold, and a commit token is known only to the process that   *)
(* drew it, so the token is left out.                                      *)
(***************************************************************************)
EXTENDS Naturals

CONSTANTS
    Owners,       \* runs of the owner's controller
    Operations,   \* operation ids the owner uses, perhaps again
    Policies,     \* prepared artifacts, by hash
    Decisions,    \* merge decisions, by decision_id
    None

ASSUME NoneAssumption == None \notin Policies \cup Decisions
ASSUME IdentityAssumption == Operations \cap Decisions = {}

VARIABLES
    prepared,     \* table policies
    superseded,   \* table rollback_records
    active,       \* row of active_state; generation 0 if there is none
    expired,      \* the activation is older than policy_seconds
    authority,    \* row of authority_state; generation 0 if there is none
    journal,      \* table operation_journal
    todo,         \* what each owner has read and is about to write
    pc,           \* where the delivery is
    current,      \* the decision it delivers
    seen,         \* generation it has read
    decision,     \* the decisions made so far
    commits,      \* git commits per decision
    pushes        \* pushes that reached the remote per decision

policyTables == <<prepared, superseded, active, expired>>
locals == <<pc, current, seen>>
git == <<commits, pushes>>
vars == <<policyTables, authority, journal, todo, locals, decision, git>>

PolicyOperations == {"activate", "refresh", "rollback"}
Unused == [type |-> "none", generation |-> 0]
Idle == [kind |-> "idle"]
Undecided == [generation |-> 0, policy |-> None]

Entry(type, generation) == [type |-> type, generation |-> generation]

\* The delivery holds the write lock of the database.
Locked == pc \in {"locked", "commit", "intent", "push", "closing"}

Init ==
    /\ prepared = {}
    /\ superseded = {}
    /\ active = [policy |-> None, generation |-> 0]
    /\ expired = FALSE
    /\ authority = [generation |-> 0, stopped |-> FALSE]
    /\ journal = [i \in Operations \cup Decisions |-> Unused]
    /\ todo = [o \in Owners |-> Idle]
    /\ pc = "idle"
    /\ current = None
    /\ seen = 0
    /\ decision = [d \in Decisions |-> Undecided]
    /\ commits = [d \in Decisions |-> 0]
    /\ pushes = [d \in Decisions |-> 0]

-----------------------------------------------------------------------------
(* The owner's controller: read, then write.                               *)

Plan(o, command) ==
    /\ todo[o] = Idle
    /\ todo' = [todo EXCEPT ![o] = command]
    /\ UNCHANGED <<policyTables, authority, journal, locals, decision, git>>

\* An artifact is made only if the project has none.
PlanPrepare(o) ==
    /\ prepared = {}
    /\ \E p \in Policies : Plan(o, [kind |-> "prepare", policy |-> p])

\* latest_policy orders by a time in seconds: artifacts of owners that raced
\* may come in either order.
PlanActivate(o) ==
    \E p \in prepared : Plan(o, [kind |-> "activate", policy |-> p])

\* Only an activation that is no longer fresh is eligible.
PlanRefresh(o) ==
    /\ active.policy # None
    /\ expired
    /\ Plan(o, [kind |-> "refresh", row |-> active])

PlanRollback(o) ==
    /\ active.policy # None
    /\ Plan(o, [kind |-> "rollback", row |-> active])

\* MUTANT: the authority is bootstrapped without an active policy.
PlanBootstrapEarly(o) == Plan(o, [kind |-> "bootstrap", row |-> active])

PlanBootstrap(o) ==
    /\ active.policy # None
    /\ Plan(o, [kind |-> "bootstrap", row |-> active])

-----------------------------------------------------------------------------
Doing(o, kind) ==
    /\ ~Locked
    /\ todo[o].kind = kind
    /\ todo' = [todo EXCEPT ![o] = Idle]
    /\ UNCHANGED <<locals, decision, git>>

\* The owner gives an operation id, old or new; _check_unused refuses an old one.
Consume(type, generation) ==
    \E i \in Operations :
        /\ journal[i] = Unused
        /\ journal' = [journal EXCEPT ![i] = Entry(type, generation)]

Prepare(o) ==
    /\ Doing(o, "prepare")
    /\ prepared' = prepared \cup {todo[o].policy}
    /\ UNCHANGED <<superseded, active, expired, authority, journal>>

\* MUTANT: rollback_records are not consulted.
ActivateAgain(o) ==
    /\ Doing(o, "activate")
    /\ active.policy = None
    /\ Consume("activate", active.generation + 1)
    /\ active' = [policy |-> todo[o].policy, generation |-> active.generation + 1]
    /\ expired' \in BOOLEAN
    /\ UNCHANGED <<prepared, superseded, authority>>

\* The activation is as old as its artifact.
Activate(o) ==
    /\ Doing(o, "activate")
    /\ active.policy = None
    /\ todo[o].policy \notin superseded
    /\ Consume("activate", active.generation + 1)
    /\ active' = [policy |-> todo[o].policy, generation |-> active.generation + 1]
    /\ expired' \in BOOLEAN
    /\ UNCHANGED <<prepared, superseded, authority>>

\* MUTANT: only the policy is compared, not the generation.
SamePolicy(o) == active.policy = todo[o].row.policy

\* The row is the one that was read.
Unchanged(o) == active = todo[o].row

Refresh(o) ==
    /\ Doing(o, "refresh")
    /\ Unchanged(o)
    /\ Consume("refresh", todo[o].row.generation + 1)
    /\ active' = [active EXCEPT !.generation = todo[o].row.generation + 1]
    /\ expired' = FALSE
    /\ UNCHANGED <<prepared, superseded, authority>>

Rollback(o) ==
    /\ Doing(o, "rollback")
    /\ Unchanged(o)
    /\ Consume("rollback", active.generation + 1)
    /\ superseded' = superseded \cup {todo[o].row.policy}
    /\ active' = [policy |-> None, generation |-> active.generation + 1]
    /\ expired' = FALSE
    /\ UNCHANGED <<prepared, authority>>

\* INSERT OR IGNORE: a second bootstrap changes nothing.
Bootstrap(o) ==
    /\ Doing(o, "bootstrap")
    /\ authority' = IF authority.generation = 0
                    THEN [generation |-> todo[o].row.generation, stopped |-> FALSE]
                    ELSE authority
    /\ UNCHANGED <<policyTables, journal>>

\* set_kill_switch reads nothing before its transaction.
SetKillSwitch(on) ==
    /\ ~Locked
    /\ authority.generation > 0
    /\ authority' = [generation |-> authority.generation + 1, stopped |-> on]
    /\ Consume("kill_switch", authority.generation + 1)
    /\ UNCHANGED <<policyTables, todo, locals, decision, git>>

\* The transaction is refused, the database stays locked, or the run is killed.
GiveUp(o) ==
    /\ todo[o] # Idle
    /\ todo' = [todo EXCEPT ![o] = Idle]
    /\ UNCHANGED <<policyTables, authority, journal, locals, decision, git>>

\* policy_seconds pass.
Expire ==
    /\ active.policy # None
    /\ ~expired
    /\ expired' = TRUE
    /\ UNCHANGED <<prepared, superseded, active, authority, journal, todo, locals, decision, git>>

Controller ==
    \/ \E o \in Owners :
        \/ PlanPrepare(o) \/ PlanActivate(o) \/ PlanRefresh(o)
        \/ PlanRollback(o) \/ PlanBootstrap(o)
        \/ Prepare(o) \/ Activate(o) \/ Refresh(o) \/ Rollback(o) \/ Bootstrap(o)
        \/ GiveUp(o)
    \/ \E on \in BOOLEAN : SetKillSwitch(on)

-----------------------------------------------------------------------------
(* A delivery, from its decision to the end of its transaction.            *)

Goto(from, to) ==
    /\ pc = from
    /\ pc' = to

ByOwnersOnly == UNCHANGED <<policyTables, authority, todo>>

\* resolve_authority finds an active policy whose activation is fresh.
Verified == active.policy # None /\ ~expired

Clear(generation) ==
    /\ authority.generation = generation
    /\ ~authority.stopped

Mine == decision[current]

\* merge_policy_from_verified_active: first the authority row ...
ReadAuthority ==
    /\ Goto("idle", "decide")
    /\ authority.generation > 0
    /\ ~authority.stopped
    /\ seen' = authority.generation
    /\ UNCHANGED <<current, journal, decision, git>>
    /\ ByOwnersOnly

\* ... then the policy; the engine makes the decision of both.
Decide(d) ==
    /\ Goto("decide", "validate")
    /\ Verified
    /\ decision[d] = Undecided
    /\ decision' = [decision EXCEPT ![d] = [generation |-> seen, policy |-> active.policy]]
    /\ current' = d
    /\ UNCHANGED <<seen, journal, git>>
    /\ ByOwnersOnly

\* The caller of deliver hands in a decision that was made before.
Supply(d) ==
    /\ Goto("idle", "validate")
    /\ decision[d] # Undecided
    /\ current' = d
    /\ UNCHANGED <<seen, journal, decision, git>>
    /\ ByOwnersOnly

Step(from, to) ==
    /\ Goto(from, to)
    /\ UNCHANGED <<current, seen, journal, decision, git>>
    /\ ByOwnersOnly

\* _validate_delivery_authorization reads the switch twice; the second read
\* refuses whatever the first one would, as a change of it leaves the
\* generation changed.
ValidateAuthority ==
    /\ Step("validate", "validatePolicy")
    /\ Clear(Mine.generation)

ValidatePolicy ==
    /\ Step("validatePolicy", "reserve")
    /\ Verified
    /\ active.policy = Mine.policy

\* A transaction under the lock of the database that writes the journal.
Write(from, to, entry) ==
    /\ Goto(from, to)
    /\ Clear(Mine.generation)
    /\ journal' = [journal EXCEPT ![current] = entry]
    /\ UNCHANGED <<current, seen, decision, git>>
    /\ ByOwnersOnly

\* MUTANT: _check_unused is forgotten.
ReserveAgain ==
    Write("reserve", "begin", Entry("delivery_reserved", Mine.generation))

\* The patch has been applied and validated since, which may take minutes.
ReserveDelivery ==
    /\ Write("reserve", "begin", Entry("delivery_reserved", Mine.generation))
    /\ journal[current] = Unused

BeginDeliveryCommit ==
    /\ Write("begin", "enter", Entry("delivery_committing", Mine.generation))
    /\ journal[current] = Entry("delivery_reserved", Mine.generation)

\* MUTANT: begin_delivery_commit has seen the switch already.
TransactionUnchecked ==
    /\ Step("enter", "locked")
    /\ journal[current] = Entry("delivery_committing", Mine.generation)

\* delivery_transaction up to its yield; the lock stays.
DeliveryTransaction ==
    /\ Step("enter", "locked")
    /\ journal[current] = Entry("delivery_committing", Mine.generation)
    /\ Clear(Mine.generation)

\* _ensure_emergency_stop_clear once more.  A rolled back policy makes
\* resolve_authority return none, a stale one makes it raise.
EnsureClear ==
    /\ Step("locked", "commit")
    /\ ~authority.stopped
    /\ active.policy # None => ~expired

Commit ==
    /\ Goto("commit", "intent")
    /\ commits' = [commits EXCEPT ![current] = @ + 1]
    /\ UNCHANGED <<current, seen, journal, decision, pushes>>
    /\ ByOwnersOnly

\* persist_delivery_intent, which returns at once without a session.
PersistIntent ==
    \E session \in BOOLEAN :
        /\ session => Verified
        /\ Step("intent", "push")

\* The remote has the branch, whatever git push reports.
Push ==
    /\ Goto("push", "closing")
    /\ pushes' = [pushes EXCEPT ![current] = @ + 1]
    /\ UNCHANGED <<current, seen, journal, decision, commits>>
    /\ ByOwnersOnly

\* An error under the lock goes to the finally clause.
Fail ==
    \E from \in {"locked", "commit", "intent", "push"} : Step(from, "closing")

Leave ==
    /\ pc' = "idle"
    /\ current' = None
    /\ seen' = 0
    /\ UNCHANGED <<decision, git>>
    /\ ByOwnersOnly

\* ExitStack.close() tells the transaction of no error: it commits.
Close ==
    /\ pc = "closing"
    /\ journal' = [journal EXCEPT ![current] = Entry("delivery_committed", Mine.generation)]
    /\ Leave

\* An error or a refusal before the lock, or the end of the process at any
\* point; SQLite rolls an open transaction back.
Abort ==
    /\ pc # "idle"
    /\ UNCHANGED journal
    /\ Leave

Delivery ==
    \/ ReadAuthority
    \/ \E d \in Decisions : Decide(d) \/ Supply(d)
    \/ ValidateAuthority \/ ValidatePolicy
    \/ ReserveDelivery \/ BeginDeliveryCommit \/ DeliveryTransaction
    \/ EnsureClear \/ Commit \/ PersistIntent \/ Push
    \/ Fail \/ Close \/ Abort

Next == Controller \/ Expire \/ Delivery

Spec == Init /\ [][Next]_vars

-----------------------------------------------------------------------------
Commands ==
    {Idle}
    \cup [kind : {"prepare", "activate"}, policy : Policies]
    \cup [kind : {"refresh", "rollback", "bootstrap"},
          row : [policy : Policies, generation : Nat \ {0}]]

Types == {"none", "activate", "refresh", "rollback", "kill_switch",
          "delivery_reserved", "delivery_committing", "delivery_committed"}

\* The types, and which fields may be empty where.
TypeOK ==
    /\ prepared \subseteq Policies
    /\ superseded \subseteq prepared
    /\ active \in [policy : Policies \cup {None}, generation : Nat]
    /\ active.policy # None => active.generation > 0 /\ active.policy \in prepared
    /\ expired \in BOOLEAN
    /\ authority \in [generation : Nat, stopped : BOOLEAN]
    /\ authority.generation = 0 => ~authority.stopped
    /\ journal \in [Operations \cup Decisions -> [type : Types, generation : Nat]]
    /\ todo \in [Owners -> Commands]
    /\ pc \in {"idle", "decide", "validate", "validatePolicy", "reserve", "begin",
               "enter", "locked", "commit", "intent", "push", "closing"}
    /\ current \in Decisions \cup {None}
    /\ current = None <=> pc \in {"idle", "decide"}
    /\ seen \in Nat
    /\ decision \in [Decisions -> [generation : Nat, policy : Policies \cup {None}]]
    /\ commits \in [Decisions -> Nat]
    /\ pushes \in [Decisions -> Nat]

\* A policy that was rolled back is never active again, though owners act on
\* artifacts they read before the rollback (activate, rollback_records).
SupersededForGood == active.policy \notin superseded

\* Operations of owners that read the same row do not overwrite each other:
\* no two activations, refreshes or rollbacks have the same generation, and
\* no two changes of the switch (expected_generation, set_kill_switch).
OneWinner ==
    \A i, j \in Operations :
        /\ i # j
        /\ \/ {journal[i].type, journal[j].type} \subseteq PolicyOperations
           \/ {journal[i].type, journal[j].type} = {"kill_switch"}
        => journal[i].generation # journal[j].generation

\* A commit or push of a decision, even one whose process died, leaves an entry
\* in the journal that cannot be reserved again (begin_delivery_commit), and
\* there is one of each at most.
EffectsAreRecorded ==
    \A d \in Decisions :
        /\ commits[d] \in {0, 1}
        /\ pushes[d] <= commits[d]
        /\ commits[d] = 1 =>
            journal[d].type \in {"delivery_committing", "delivery_committed"}

\* The store implements the emergency stop: a push happens only while the
\* switch is clear and at the generation of its decision, once per decision.
Stop == INSTANCE EmergencyStop WITH
    generation <- authority.generation,
    stopped <- authority.stopped,
    bound <- [d \in Decisions |-> decision[d].generation],
    delivered <- pushes

StopSpec == Stop!Spec

\* VIOLATED.  ADR-0002 says that policy withdrawal invalidates a decision that
\* is not yet consumed: no reservation for a policy that is not active.
WithdrawalInvalidates ==
    [][\A d \in Decisions :
        journal[d] = Unused /\ journal'[d] # Unused => active.policy = decision[d].policy]_vars

\* VIOLATED.  An error inside the transaction rolls it back, so that an
\* operation is recorded as committed only if there is a commit.
CommittedIsCommitted ==
    \A d \in Decisions : journal[d].type = "delivery_committed" => commits[d] = 1
=============================================================================
