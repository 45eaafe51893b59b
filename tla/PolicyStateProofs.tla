--------------------------- MODULE PolicyStateProofs ---------------------------
(***************************************************************************)
(* Proofs about PolicyState, for any owners, operations, policies and      *)
(* decisions: types, that a superseded policy is not activated again, that *)
(* generations have one winner, that git effects are recorded, and that    *)
(* deliveries obey the emergency stop.                                     *)
(***************************************************************************)
EXTENDS PolicyState, TLAPS

\* What owners are about to write: only prepared artifacts are activated, and
\* no policy generation nor switch generation is ahead of its row.
OwnersInv ==
    /\ \A o \in Owners : todo[o].kind = "activate" => todo[o].policy \in prepared
    /\ \A i \in Operations :
        /\ journal[i].type \in PolicyOperations => journal[i].generation <= active.generation
        /\ journal[i].type = "kill_switch" => journal[i].generation <= authority.generation

\* What the place of the delivery says of the journal, git and the switch.
DeliveryInv ==
    /\ pc = "decide" => seen \in 1..authority.generation
    /\ pc \in {"enter", "locked", "commit"} =>
        journal[current].type = "delivery_committing" /\ commits[current] = 0
    /\ pc \in {"intent", "push"} =>
        /\ journal[current].type = "delivery_committing"
        /\ commits[current] = 1 /\ pushes[current] = 0
    /\ pc = "closing" => journal[current].type = "delivery_committing"
    /\ Locked => Clear(Mine.generation)

IInv ==
    /\ TypeOK
    /\ OwnersInv
    /\ SupersededForGood
    /\ OneWinner
    /\ EffectsAreRecorded
    /\ DeliveryInv

\* The invariant holds of an empty database.
LEMMA InitInv == Init => IInv
<1> SUFFICES ASSUME Init PROVE IInv
  OBVIOUS
<1>1. TypeOK
  BY DEF Init, TypeOK, Unused, Undecided, Commands, Types
<1>2. OwnersInv /\ OneWinner
  BY DEF Init, OwnersInv, OneWinner, Idle, Unused, PolicyOperations
<1>3. SupersededForGood /\ EffectsAreRecorded /\ DeliveryInv
  BY DEF Init, SupersededForGood, EffectsAreRecorded, DeliveryInv, Locked
<1> QED
  BY <1>1, <1>2, <1>3 DEF IInv

\* What an owner can be about to write.
LEMMA CommandFields ==
  ASSUME NEW c \in Commands
  PROVE  /\ c.kind \in {"prepare", "activate"} => c.policy \in Policies
         /\ c.kind \in {"refresh", "rollback", "bootstrap"} =>
              c.row \in [policy : Policies, generation : Nat \ {0}]
  BY DEF Commands, Idle

\* An operation id is consumed once, and no decision is touched.
LEMMA ConsumeFacts ==
  ASSUME IInv, NEW type \in Types, NEW g \in Nat, Consume(type, g)
  PROVE  /\ journal' \in [Operations \cup Decisions -> [type : Types, generation : Nat]]
         /\ \A d \in Decisions : journal'[d] = journal[d]
         /\ \E i \in Operations :
              /\ journal'[i] = [type |-> type, generation |-> g]
              /\ \A j \in Operations : j # i => journal'[j] = journal[j]
<1>1. PICK i \in Operations : journal' = [journal EXCEPT ![i] = Entry(type, g)]
  BY DEF Consume
<1>2. journal \in [Operations \cup Decisions -> [type : Types, generation : Nat]]
  BY DEF IInv, TypeOK
<1>3. \A d \in Decisions : d # i
  BY IdentityAssumption
<1> QED
  BY <1>1, <1>2, <1>3 DEF Entry

\* Whatever an owner writes leaves the delivery its invariant: a change of the
\* switch finds no delivery under the lock.
LEMMA OwnerKeepsDelivery ==
  ASSUME IInv, UNCHANGED <<locals, decision, git>>,
         \A d \in Decisions : journal'[d] = journal[d],
         authority' \in [generation : Nat, stopped : BOOLEAN],
         authority'.generation >= authority.generation,
         Locked => authority' = authority
  PROVE  EffectsAreRecorded' /\ DeliveryInv'
<1>1. EffectsAreRecorded'
  BY DEF IInv, EffectsAreRecorded, git
<1>2. pc \notin {"idle", "decide"} => current \in Decisions
  BY DEF IInv, TypeOK
<1>3. (pc = "decide" => seen \in 1..authority.generation)'
  BY DEF IInv, TypeOK, DeliveryInv, locals
<1>4. (Locked => Clear(Mine.generation))'
  BY DEF IInv, DeliveryInv, Locked, Clear, Mine, locals
<1>5. DeliveryInv'
  BY <1>2, <1>3, <1>4 DEF IInv, DeliveryInv, locals, git
<1> QED
  BY <1>1, <1>5

\* Reading and giving up change nothing but the owner's plan.
LEMMA PlanInv ==
  ASSUME IInv, NEW o \in Owners, NEW command \in Commands,
         todo' = [todo EXCEPT ![o] = command],
         command.kind = "activate" => command.policy \in prepared,
         UNCHANGED <<policyTables, authority, journal, locals, decision, git>>
  PROVE  IInv'
<1>1. TypeOK'
  BY DEF IInv, TypeOK, policyTables, locals, git
<1>2. OwnersInv'
  BY DEF IInv, TypeOK, OwnersInv, policyTables
<1>3. SupersededForGood' /\ OneWinner'
  BY DEF IInv, SupersededForGood, OneWinner, policyTables
<1>4. EffectsAreRecorded' /\ DeliveryInv'
  BY OwnerKeepsDelivery DEF IInv, TypeOK
<1> QED
  BY <1>1, <1>2, <1>3, <1>4 DEF IInv

\* Each read of an owner gives a plan of the type its kind has.
LEMMA ReadInv ==
  ASSUME IInv, NEW o \in Owners,
         \/ PlanPrepare(o) \/ PlanActivate(o) \/ PlanRefresh(o)
         \/ PlanRollback(o) \/ PlanBootstrap(o) \/ GiveUp(o)
  PROVE  IInv'
<1>0. /\ prepared \subseteq Policies
      /\ active.policy # None =>
           active \in [policy : Policies, generation : Nat \ {0}]
  BY DEF IInv, TypeOK
<1>1. CASE PlanPrepare(o)
  <2>1. PICK p \in Policies : Plan(o, [kind |-> "prepare", policy |-> p])
    BY <1>1 DEF PlanPrepare
  <2> QED
    BY <2>1, PlanInv DEF Plan, Commands
<1>2. CASE PlanActivate(o)
  <2>1. PICK p \in prepared : Plan(o, [kind |-> "activate", policy |-> p])
    BY <1>2 DEF PlanActivate
  <2> QED
    BY <1>0, <2>1, PlanInv DEF Plan, Commands
<1>3. CASE PlanRefresh(o)
  BY <1>0, <1>3, PlanInv DEF PlanRefresh, Plan, Commands
<1>4. CASE PlanRollback(o)
  BY <1>0, <1>4, PlanInv DEF PlanRollback, Plan, Commands
<1>5. CASE PlanBootstrap(o)
  BY <1>0, <1>5, PlanInv DEF PlanBootstrap, Plan, Commands
<1>6. CASE GiveUp(o)
  BY <1>6, PlanInv DEF GiveUp, Idle, Commands
<1> QED
  BY <1>1, <1>2, <1>3, <1>4, <1>5, <1>6

\* A transaction that gives the policy the next generation: its operation is
\* the only one with that generation.
LEMMA AdvanceInv ==
  ASSUME IInv, NEW o \in Owners, NEW type \in PolicyOperations,
         ~Locked, todo' = [todo EXCEPT ![o] = Idle],
         UNCHANGED <<locals, decision, git, prepared, authority>>,
         Consume(type, active.generation + 1),
         active' \in [policy : prepared \cup {None}, generation : Nat],
         active'.generation = active.generation + 1,
         expired' \in BOOLEAN,
         superseded' \subseteq prepared,
         active'.policy \notin superseded'
  PROVE  IInv'
<1>0. /\ type \in Types /\ type # "kill_switch"
      /\ active.generation \in Nat
      /\ active.generation + 1 \in Nat
  BY DEF IInv, TypeOK, Types, PolicyOperations
<1>1. /\ journal' \in [Operations \cup Decisions -> [type : Types, generation : Nat]]
      /\ \A d \in Decisions : journal'[d] = journal[d]
      /\ \E i \in Operations :
           /\ journal'[i] = [type |-> type, generation |-> active.generation + 1]
           /\ \A j \in Operations : j # i => journal'[j] = journal[j]
  BY <1>0, ConsumeFacts
<1>2. PICK i \in Operations :
        /\ journal'[i] = [type |-> type, generation |-> active.generation + 1]
        /\ \A j \in Operations : j # i => journal'[j] = journal[j]
  BY <1>1
<1>3. TypeOK'
  BY <1>0, <1>1 DEF IInv, TypeOK, Commands, locals, git
<1>4. OwnersInv'
  <2>1. \A q \in Owners : (todo[q].kind = "activate" => todo[q].policy \in prepared)'
    BY DEF IInv, TypeOK, OwnersInv, Idle
  <2>2. \A j \in Operations :
          /\ (journal[j].type \in PolicyOperations => journal[j].generation <= active.generation)'
          /\ (journal[j].type = "kill_switch" => journal[j].generation <= authority.generation)'
    BY <1>0, <1>2 DEF IInv, TypeOK, OwnersInv
  <2> QED
    BY <2>1, <2>2 DEF OwnersInv
<1>5. OneWinner'
  <2> SUFFICES ASSUME NEW j \in Operations, NEW k \in Operations, j # k,
                      \/ {journal'[j].type, journal'[k].type} \subseteq PolicyOperations
                      \/ {journal'[j].type, journal'[k].type} = {"kill_switch"}
               PROVE  journal'[j].generation # journal'[k].generation
    BY DEF OneWinner
  <2>1. CASE j # i /\ k # i
    <3>1. OneWinner /\ journal'[j] = journal[j] /\ journal'[k] = journal[k]
      BY <1>2, <2>1 DEF IInv
    <3> QED
      BY <3>1 DEF OneWinner
  <2>2. CASE j = i
    <3>1. journal'[k] = journal[k] /\ journal[k].type \in PolicyOperations
      BY <1>0, <1>2, <2>2
    <3>2. journal[k].generation <= active.generation /\ journal[k].generation \in Nat
      BY <3>1 DEF IInv, OwnersInv, TypeOK
    <3> QED
      BY <1>0, <1>2, <2>2, <3>1, <3>2
  <2>3. CASE k = i
    <3>1. journal'[j] = journal[j] /\ journal[j].type \in PolicyOperations
      BY <1>0, <1>2, <2>3
    <3>2. journal[j].generation <= active.generation /\ journal[j].generation \in Nat
      BY <3>1 DEF IInv, OwnersInv, TypeOK
    <3> QED
      BY <1>0, <1>2, <2>3, <3>1, <3>2
  <2> QED
    BY <2>1, <2>2, <2>3
<1>6. EffectsAreRecorded' /\ DeliveryInv'
  BY <1>1, OwnerKeepsDelivery DEF IInv, TypeOK
<1>7. SupersededForGood'
  BY DEF SupersededForGood
<1> QED
  BY <1>3, <1>4, <1>5, <1>6, <1>7 DEF IInv

\* The owner's transactions on the policy.
LEMMA PolicyWriteInv ==
  ASSUME IInv, NEW o \in Owners, Prepare(o) \/ Activate(o) \/ Refresh(o) \/ Rollback(o)
  PROVE  IInv'
<1>0. /\ ~Locked /\ todo' = [todo EXCEPT ![o] = Idle]
      /\ UNCHANGED <<locals, decision, git>>
  BY DEF Prepare, Activate, Refresh, Rollback, Doing
<1>1. todo[o] \in Commands /\ prepared \subseteq Policies /\ superseded \subseteq prepared
  BY DEF IInv, TypeOK
<1>2. active.generation \in Nat
  BY DEF IInv, TypeOK
<1>3. CASE Prepare(o)
  <2>1. /\ prepared' = prepared \cup {todo[o].policy} /\ todo[o].policy \in Policies
        /\ UNCHANGED <<superseded, active, expired, authority, journal>>
    BY <1>1, <1>3, CommandFields DEF Prepare, Doing
  <2>2. TypeOK'
    BY <1>0, <2>1 DEF IInv, TypeOK, Commands, locals, git
  <2>3. OwnersInv'
    BY <1>0, <2>1 DEF IInv, TypeOK, OwnersInv, Idle
  <2>4. SupersededForGood' /\ OneWinner'
    BY <2>1 DEF IInv, SupersededForGood, OneWinner
  <2>5. EffectsAreRecorded' /\ DeliveryInv'
    BY <1>0, <2>1, OwnerKeepsDelivery DEF IInv, TypeOK
  <2> QED
    BY <2>2, <2>3, <2>4, <2>5 DEF IInv
<1>4. CASE Activate(o)
  <2>1. todo[o].policy \in prepared
    BY <1>4 DEF Activate, Doing, IInv, OwnersInv
  <2> QED
    <3>1. /\ Consume("activate", active.generation + 1)
          /\ UNCHANGED <<prepared, superseded, authority>> /\ expired' \in BOOLEAN
          /\ active' = [policy |-> todo[o].policy, generation |-> active.generation + 1]
          /\ todo[o].policy \notin superseded
      BY <1>4 DEF Activate
    <3>2. /\ active' \in [policy : prepared \cup {None}, generation : Nat]
          /\ active'.generation = active.generation + 1
          /\ active'.policy \notin superseded' /\ superseded' \subseteq prepared
      BY <1>1, <1>2, <2>1, <3>1
    <3>3. "activate" \in PolicyOperations
      BY DEF PolicyOperations
    <3> QED
      BY <1>0, <3>1, <3>2, <3>3, AdvanceInv
<1>5. CASE Refresh(o)
  <2>1. active = todo[o].row /\ active.policy \in Policies
    BY <1>1, <1>5, CommandFields DEF Refresh, Doing, Unchanged
  <2>2. active.policy \in prepared /\ active.policy \notin superseded
    BY <2>1, NoneAssumption DEF IInv, TypeOK, SupersededForGood
  <2>3. active \in [policy : Policies \cup {None}, generation : Nat]
    BY DEF IInv, TypeOK
  <2>4. active' = [policy |-> active.policy, generation |-> active.generation + 1]
    BY <1>5, <2>1, <2>3 DEF Refresh
  <2>5. /\ Consume("refresh", active.generation + 1)
        /\ UNCHANGED <<prepared, authority, superseded>> /\ expired' \in BOOLEAN
    BY <1>5, <2>1 DEF Refresh
  <2>6. /\ active' \in [policy : prepared \cup {None}, generation : Nat]
        /\ active'.generation = active.generation + 1
        /\ active'.policy \notin superseded'
        /\ superseded' \subseteq prepared
    BY <1>1, <1>2, <2>2, <2>4, <2>5
  <2>7. "refresh" \in PolicyOperations
    BY DEF PolicyOperations
  <2> QED
    BY <1>0, <2>5, <2>6, <2>7, AdvanceInv
<1>6. CASE Rollback(o)
  <2>1. active = todo[o].row /\ active.policy \in Policies
    BY <1>1, <1>6, CommandFields DEF Rollback, Doing, Unchanged
  <2>2. active.policy \in prepared
    BY <2>1, NoneAssumption DEF IInv, TypeOK
  <2>3. superseded' \subseteq prepared /\ None \notin superseded'
    BY <1>1, <1>6, <2>1, <2>2, NoneAssumption DEF Rollback
  <2>4. /\ Consume("rollback", active.generation + 1)
        /\ UNCHANGED <<prepared, authority>> /\ expired' \in BOOLEAN
        /\ active' = [policy |-> None, generation |-> active.generation + 1]
    BY <1>6 DEF Rollback
  <2>5. /\ active' \in [policy : prepared \cup {None}, generation : Nat]
        /\ active'.generation = active.generation + 1
        /\ active'.policy \notin superseded'
    BY <1>2, <2>3, <2>4
  <2>6. "rollback" \in PolicyOperations
    BY DEF PolicyOperations
  <2> QED
    BY <1>0, <2>3, <2>4, <2>5, <2>6, AdvanceInv
<1> QED
  BY <1>3, <1>4, <1>5, <1>6

\* The authority is bootstrapped from a row with a generation.
LEMMA BootstrapInv ==
  ASSUME IInv, NEW o \in Owners, Bootstrap(o)
  PROVE  IInv'
<1>0. /\ ~Locked /\ todo' = [todo EXCEPT ![o] = Idle]
      /\ UNCHANGED <<locals, decision, git, policyTables, journal>>
  BY DEF Bootstrap, Doing
<1>1. /\ authority' \in [generation : Nat, stopped : BOOLEAN]
      /\ authority'.generation >= authority.generation
      /\ authority'.generation = 0 => ~authority'.stopped
  <2>1. todo[o] \in Commands /\ authority \in [generation : Nat, stopped : BOOLEAN]
    BY DEF IInv, TypeOK
  <2>2. todo[o].row.generation \in Nat \ {0}
    BY <2>1, CommandFields DEF Bootstrap, Doing
  <2> QED
    BY <2>1, <2>2 DEF Bootstrap, IInv, TypeOK
<1>2. TypeOK'
  BY <1>0, <1>1 DEF IInv, TypeOK, Commands, policyTables, locals, git
<1>3. OwnersInv'
  <2>1. \A q \in Owners : (todo[q].kind = "activate" => todo[q].policy \in prepared)'
    BY <1>0 DEF IInv, TypeOK, OwnersInv, Idle, policyTables
  <2>2. \A j \in Operations :
          /\ (journal[j].type \in PolicyOperations => journal[j].generation <= active.generation)'
          /\ (journal[j].type = "kill_switch" => journal[j].generation <= authority.generation)'
    BY <1>0, <1>1 DEF IInv, TypeOK, OwnersInv, policyTables
  <2> QED
    BY <2>1, <2>2 DEF OwnersInv
<1>4. SupersededForGood' /\ OneWinner'
  BY <1>0 DEF IInv, SupersededForGood, OneWinner, policyTables
<1>5. EffectsAreRecorded' /\ DeliveryInv'
  BY <1>0, <1>1, OwnerKeepsDelivery
<1> QED
  BY <1>2, <1>3, <1>4, <1>5 DEF IInv

\* A change of the switch is the only one of its generation.
LEMMA SetKillSwitchInv ==
  ASSUME IInv, NEW on \in BOOLEAN, SetKillSwitch(on)
  PROVE  IInv'
<1>0. /\ ~Locked
      /\ authority' = [generation |-> authority.generation + 1, stopped |-> on]
      /\ Consume("kill_switch", authority.generation + 1)
      /\ UNCHANGED <<policyTables, todo, locals, decision, git>>
      /\ authority.generation \in Nat /\ authority.generation + 1 \in Nat
  BY DEF SetKillSwitch, IInv, TypeOK
<1>1. /\ journal' \in [Operations \cup Decisions -> [type : Types, generation : Nat]]
      /\ \A d \in Decisions : journal'[d] = journal[d]
      /\ \E i \in Operations :
           /\ journal'[i] = [type |-> "kill_switch", generation |-> authority.generation + 1]
           /\ \A j \in Operations : j # i => journal'[j] = journal[j]
  <2>1. "kill_switch" \in Types
    BY DEF Types
  <2> QED
    BY <1>0, <2>1, ConsumeFacts
<1>2. PICK i \in Operations :
        /\ journal'[i] = [type |-> "kill_switch", generation |-> authority.generation + 1]
        /\ \A j \in Operations : j # i => journal'[j] = journal[j]
  BY <1>1
<1>3. TypeOK'
  BY <1>0, <1>1 DEF IInv, TypeOK, policyTables, locals, git
<1>4. OwnersInv'
  BY <1>0, <1>2 DEF IInv, TypeOK, OwnersInv, policyTables, PolicyOperations
<1>5. OneWinner'
  <2> SUFFICES ASSUME NEW j \in Operations, NEW k \in Operations, j # k,
                      \/ {journal'[j].type, journal'[k].type} \subseteq PolicyOperations
                      \/ {journal'[j].type, journal'[k].type} = {"kill_switch"}
               PROVE  journal'[j].generation # journal'[k].generation
    BY DEF OneWinner
  <2>1. CASE j # i /\ k # i
    BY <1>2, <2>1 DEF IInv, OneWinner
  <2>2. CASE j = i
    <3>1. journal'[k] = journal[k] /\ journal[k].type = "kill_switch"
      BY <1>2, <2>2 DEF PolicyOperations
    <3>2. journal[k].generation <= authority.generation /\ journal[k].generation \in Nat
      BY <3>1 DEF IInv, OwnersInv, TypeOK
    <3> QED
      BY <1>0, <1>2, <2>2, <3>1, <3>2
  <2>3. CASE k = i
    <3>1. journal'[j] = journal[j] /\ journal[j].type = "kill_switch"
      BY <1>2, <2>3 DEF PolicyOperations
    <3>2. journal[j].generation <= authority.generation /\ journal[j].generation \in Nat
      BY <3>1 DEF IInv, OwnersInv, TypeOK
    <3> QED
      BY <1>0, <1>2, <2>3, <3>1, <3>2
  <2> QED
    BY <2>1, <2>2, <2>3
<1>6. SupersededForGood'
  BY <1>0 DEF IInv, SupersededForGood, policyTables
<1>7. EffectsAreRecorded' /\ DeliveryInv'
  BY <1>0, <1>1, OwnerKeepsDelivery
<1> QED
  BY <1>3, <1>4, <1>5, <1>6, <1>7 DEF IInv

\* The passing of time touches no part of the invariant but the types.
LEMMA ExpireInv == IInv /\ Expire => IInv'
<1> SUFFICES ASSUME IInv, Expire PROVE IInv'
  OBVIOUS
<1>1. TypeOK'
  BY DEF Expire, IInv, TypeOK, locals, git
<1>2. OwnersInv' /\ SupersededForGood' /\ OneWinner'
  BY DEF Expire, IInv, OwnersInv, SupersededForGood, OneWinner
<1>3. EffectsAreRecorded' /\ DeliveryInv'
  BY OwnerKeepsDelivery DEF Expire, IInv, TypeOK
<1> QED
  BY <1>1, <1>2, <1>3 DEF IInv

\* A delivery writes no entry of an owner's operation.
LEMMA DeliveryKeepsOwners ==
  ASSUME IInv, ByOwnersOnly, \A i \in Operations : journal'[i] = journal[i]
  PROVE  OwnersInv' /\ SupersededForGood' /\ OneWinner'
<1>1. OwnersInv'
  BY DEF IInv, OwnersInv, ByOwnersOnly, policyTables
<1>2. SupersededForGood' /\ OneWinner'
  BY DEF IInv, SupersededForGood, OneWinner, ByOwnersOnly, policyTables
<1> QED
  BY <1>1, <1>2

\* The steps of a delivery that only read, or that make or take a decision.
LEMMA DeliveryReadInv ==
  ASSUME IInv,
         \/ ReadAuthority \/ \E d \in Decisions : Decide(d) \/ Supply(d)
         \/ ValidateAuthority \/ ValidatePolicy \/ DeliveryTransaction
         \/ EnsureClear \/ PersistIntent \/ Fail \/ Abort
  PROVE  IInv'
<1>0. UNCHANGED <<journal, git>> /\ ByOwnersOnly
  BY DEF ReadAuthority, Decide, Supply, ValidateAuthority, ValidatePolicy,
         DeliveryTransaction, EnsureClear, PersistIntent, Fail, Abort, Step, Leave, git
<1>1. OwnersInv' /\ SupersededForGood' /\ OneWinner'
  BY <1>0, DeliveryKeepsOwners
<1>2. EffectsAreRecorded'
  BY <1>0 DEF IInv, EffectsAreRecorded, git
<1>3. TypeOK' /\ DeliveryInv'
  <2>0. UNCHANGED <<prepared, superseded, active, expired, authority, todo,
                    journal, commits, pushes>>
    BY <1>0 DEF ByOwnersOnly, policyTables, git
  <2>1. CASE ReadAuthority
    BY <2>0, <2>1 DEF ReadAuthority, Goto, IInv, TypeOK, DeliveryInv, Locked
  <2>2. ASSUME NEW d \in Decisions, Decide(d) PROVE TypeOK' /\ DeliveryInv'
    BY <2>0, <2>2, NoneAssumption DEF Decide, Goto, IInv, TypeOK, DeliveryInv, Locked
  <2>3. ASSUME NEW d \in Decisions, Supply(d) PROVE TypeOK' /\ DeliveryInv'
    BY <2>0, <2>3, NoneAssumption DEF Supply, Goto, IInv, TypeOK, DeliveryInv, Locked
  <2>4. CASE ValidateAuthority \/ ValidatePolicy
    BY <2>0, <2>4 DEF ValidateAuthority, ValidatePolicy, Step, Goto, IInv, TypeOK,
                      DeliveryInv, Locked
  <2>5. CASE DeliveryTransaction
    BY <2>0, <2>5 DEF DeliveryTransaction, Step, Goto, IInv, TypeOK, DeliveryInv,
                      Locked, Clear, Mine
  <2>6. CASE EnsureClear \/ PersistIntent
    BY <2>0, <2>6 DEF EnsureClear, PersistIntent, Step, Goto, IInv, TypeOK, DeliveryInv,
                      Locked, Clear, Mine
  <2>7. CASE Fail
    BY <2>0, <2>7 DEF Fail, Step, Goto, IInv, TypeOK, DeliveryInv, Locked, Clear, Mine
  <2>8. CASE Abort
    BY <2>0, <2>8 DEF Abort, Leave, IInv, TypeOK, DeliveryInv, Locked
  <2> QED
    BY <2>1, <2>2, <2>3, <2>4, <2>5, <2>6, <2>7, <2>8
<1> QED
  BY <1>1, <1>2, <1>3 DEF IInv

\* The steps of a delivery that write the journal or act on git.
LEMMA DeliveryWriteInv ==
  ASSUME IInv, ReserveDelivery \/ BeginDeliveryCommit \/ Commit \/ Push \/ Close
  PROVE  IInv'
<1>0. /\ ByOwnersOnly /\ UNCHANGED decision
      /\ current \in Decisions
      /\ \A i \in Operations : i # current
      /\ Mine.generation \in Nat
  <2>1. ByOwnersOnly /\ UNCHANGED decision
    BY DEF ReserveDelivery, BeginDeliveryCommit, Commit, Push, Close, Write, Leave
  <2>2. current \in Decisions
    BY DEF ReserveDelivery, BeginDeliveryCommit, Commit, Push, Close, Write, Goto, IInv, TypeOK
  <2>3. Mine.generation \in Nat
    BY <2>2 DEF Mine, IInv, TypeOK
  <2> QED
    BY <2>1, <2>2, <2>3, IdentityAssumption
<1>j. journal \in [Operations \cup Decisions -> [type : Types, generation : Nat]]
  BY DEF IInv, TypeOK
<1>1. \A i \in Operations : journal'[i] = journal[i]
  BY <1>0, <1>j DEF ReserveDelivery, BeginDeliveryCommit, Commit, Push, Close, Write
<1>2. OwnersInv' /\ SupersededForGood' /\ OneWinner'
  BY <1>0, <1>1, DeliveryKeepsOwners
<1>3. TypeOK' /\ EffectsAreRecorded' /\ DeliveryInv'
  <2>0. UNCHANGED <<prepared, superseded, active, expired, authority, todo>>
    BY <1>0 DEF ByOwnersOnly, policyTables
  <2>1. CASE ReserveDelivery
    <3>0. /\ pc = "reserve" /\ pc' = "begin" /\ UNCHANGED <<current, seen, commits, pushes>>
          /\ journal[current] = Unused
          /\ journal' = [journal EXCEPT ![current] = Entry("delivery_reserved", Mine.generation)]
      BY <2>1 DEF ReserveDelivery, Write, Goto, git
    <3>1. TypeOK'
      BY <1>0, <1>j, <2>0, <3>0 DEF IInv, TypeOK, Entry, Types
    <3>2. EffectsAreRecorded'
      BY <1>0, <1>j, <3>0 DEF IInv, EffectsAreRecorded, Unused
    <3>3. DeliveryInv'
      BY <1>0, <3>0 DEF IInv, DeliveryInv, Locked
    <3> QED
      BY <3>1, <3>2, <3>3
  <2>2. CASE BeginDeliveryCommit
    <3>0. /\ pc = "begin" /\ pc' = "enter" /\ UNCHANGED <<current, seen, commits, pushes>>
          /\ journal[current].type = "delivery_reserved"
          /\ journal' = [journal EXCEPT ![current] = Entry("delivery_committing", Mine.generation)]
      BY <2>2 DEF BeginDeliveryCommit, Write, Goto, git, Entry
    <3>1. TypeOK'
      BY <1>0, <1>j, <2>0, <3>0 DEF IInv, TypeOK, Entry, Types
    <3>2. EffectsAreRecorded'
      BY <1>0, <1>j, <3>0 DEF IInv, EffectsAreRecorded, Entry
    <3>3. DeliveryInv'
      BY <1>0, <1>j, <3>0 DEF IInv, EffectsAreRecorded, DeliveryInv, Locked, Entry
    <3> QED
      BY <3>1, <3>2, <3>3
  <2>3. CASE Commit
    <3>0. /\ pc = "commit" /\ pc' = "intent" /\ UNCHANGED <<current, seen, journal, pushes>>
          /\ commits' = [commits EXCEPT ![current] = commits[current] + 1]
      BY <2>3 DEF Commit, Goto
    <3>1. journal[current].type = "delivery_committing" /\ commits[current] = 0
      BY <3>0 DEF IInv, DeliveryInv
    <3>2. pushes[current] = 0
      BY <1>0, <3>1 DEF IInv, EffectsAreRecorded, TypeOK
    <3>3. TypeOK'
      BY <1>0, <2>0, <3>0 DEF IInv, TypeOK
    <3>4. EffectsAreRecorded'
      BY <1>0, <3>0, <3>1 DEF IInv, TypeOK, EffectsAreRecorded
    <3>5. DeliveryInv'
      BY <1>0, <2>0, <3>0, <3>1, <3>2 DEF IInv, TypeOK, DeliveryInv, Locked, Clear, Mine
    <3> QED
      BY <3>3, <3>4, <3>5
  <2>4. CASE Push
    <3>0. /\ pc = "push" /\ pc' = "closing" /\ UNCHANGED <<current, seen, journal, commits>>
          /\ pushes' = [pushes EXCEPT ![current] = pushes[current] + 1]
      BY <2>4 DEF Push, Goto
    <3>1. /\ journal[current].type = "delivery_committing"
          /\ commits[current] = 1 /\ pushes[current] = 0
      BY <3>0 DEF IInv, DeliveryInv
    <3>2. TypeOK'
      BY <1>0, <2>0, <3>0 DEF IInv, TypeOK
    <3>3. EffectsAreRecorded'
      BY <1>0, <3>0, <3>1 DEF IInv, TypeOK, EffectsAreRecorded
    <3>4. DeliveryInv'
      BY <1>0, <2>0, <3>0, <3>1 DEF IInv, DeliveryInv, Locked, Clear, Mine
    <3> QED
      BY <3>2, <3>3, <3>4
  <2>5. CASE Close
    <3>0. /\ pc = "closing" /\ pc' = "idle" /\ current' = None /\ seen' = 0
          /\ UNCHANGED <<commits, pushes>>
          /\ journal' = [journal EXCEPT ![current] = Entry("delivery_committed", Mine.generation)]
      BY <2>5 DEF Close, Leave, git
    <3>1. TypeOK'
      BY <1>0, <1>j, <2>0, <3>0 DEF IInv, TypeOK, Entry, Types
    <3>2. EffectsAreRecorded'
      BY <1>0, <1>j, <3>0 DEF IInv, EffectsAreRecorded, Entry
    <3>3. DeliveryInv'
      BY <3>0 DEF DeliveryInv, Locked
    <3> QED
      BY <3>1, <3>2, <3>3
  <2> QED
    BY <2>1, <2>2, <2>3, <2>4, <2>5
<1> QED
  BY <1>2, <1>3 DEF IInv

\* A step that changes no variable keeps the invariant.
LEMMA StutterInv == IInv /\ UNCHANGED vars => IInv'
<1> SUFFICES ASSUME IInv, UNCHANGED vars PROVE IInv'
  OBVIOUS
<1>0. UNCHANGED <<policyTables, authority, journal, todo, locals, decision, git>>
  BY DEF vars
<1>1. TypeOK'
  BY <1>0 DEF IInv, TypeOK, policyTables, locals, git
<1>2. OwnersInv' /\ SupersededForGood' /\ OneWinner'
  BY <1>0 DEF IInv, OwnersInv, SupersededForGood, OneWinner, policyTables
<1>3. EffectsAreRecorded' /\ DeliveryInv'
  BY <1>0, OwnerKeepsDelivery DEF IInv, TypeOK
<1> QED
  BY <1>1, <1>2, <1>3 DEF IInv

\* Every step keeps the invariant.
LEMMA NextInv == IInv /\ [Next]_vars => IInv'
<1> SUFFICES ASSUME IInv, [Next]_vars PROVE IInv'
  OBVIOUS
<1>1. CASE Controller
  BY <1>1, ReadInv, PolicyWriteInv, BootstrapInv, SetKillSwitchInv DEF Controller
<1>2. CASE Expire
  BY <1>2, ExpireInv
<1>3. CASE Delivery
  BY <1>3, DeliveryReadInv, DeliveryWriteInv DEF Delivery
<1>4. CASE UNCHANGED vars
  BY <1>4, StutterInv
<1> QED
  BY <1>1, <1>2, <1>3, <1>4 DEF Next

\* The inductive invariant holds in every reachable state.
THEOREM Invariance == Spec => []IInv
<1>1. Init => IInv
  BY InitInv
<1>2. IInv /\ [Next]_vars => IInv'
  BY NextInv
<1> QED
  BY <1>1, <1>2, PTL DEF Spec

\* Tables, plans and the delivery have their types; the active policy is one
\* that was prepared.
THEOREM TypeCorrectness == Spec => []TypeOK
<1>1. IInv => TypeOK
  BY DEF IInv
<1> QED
  BY <1>1, Invariance, PTL

\* Activate refuses what a rollback superseded, whatever was read before it.
THEOREM Supersession == Spec => []SupersededForGood
<1>1. IInv => SupersededForGood
  BY DEF IInv
<1> QED
  BY <1>1, Invariance, PTL

\* Compare-and-set on the generation of the row leaves one winner.
THEOREM Winner == Spec => []OneWinner
<1>1. IInv => OneWinner
  BY DEF IInv
<1> QED
  BY <1>1, Invariance, PTL

\* Reserve, begin, commit and push: what git has, the journal knows.
THEOREM RecordedEffects == Spec => []EffectsAreRecorded
<1>1. IInv => EffectsAreRecorded
  BY DEF IInv
<1> QED
  BY <1>1, Invariance, PTL

\* Each step is one of the emergency stop's, or changes nothing it speaks of.
LEMMA StopStep == IInv /\ [Next]_vars => [Stop!Next]_(Stop!vars)
<1> SUFFICES ASSUME IInv, [Next]_vars PROVE [Stop!Next]_(Stop!vars)
  OBVIOUS
<1>0. ASSUME UNCHANGED <<authority, decision, pushes>>
      PROVE  UNCHANGED Stop!vars
  BY <1>0 DEF Stop!vars
<1>1. ASSUME NEW o \in Owners, Bootstrap(o)
      PROVE  [Stop!Next]_(Stop!vars)
  <2>0. UNCHANGED <<decision, pushes>>
    BY <1>1 DEF Bootstrap, Doing, git
  <2>1. todo[o].row.generation \in Nat \ {0}
    BY <1>1, CommandFields DEF Bootstrap, Doing, IInv, TypeOK
  <2>2. CASE authority.generation = 0
    <3>1. authority' = [generation |-> todo[o].row.generation, stopped |-> FALSE]
      BY <1>1, <2>2 DEF Bootstrap
    <3>2. ~authority.stopped /\ authority.stopped \in BOOLEAN
      BY <2>2 DEF IInv, TypeOK
    <3>3. Stop!Bootstrap
      BY <2>0, <2>1, <2>2, <3>1, <3>2 DEF Stop!Bootstrap
    <3> QED
      BY <3>3 DEF Stop!Next
  <2>3. CASE authority.generation # 0
    BY <1>0, <1>1, <2>0, <2>3 DEF Bootstrap
  <2> QED
    BY <2>2, <2>3
<1>2. ASSUME NEW on \in BOOLEAN, SetKillSwitch(on)
      PROVE  Stop!Next
  BY <1>2 DEF SetKillSwitch, git, Stop!Next, Stop!Switch
<1>3. ASSUME NEW d \in Decisions, Decide(d)
      PROVE  Stop!Next
  <2>1. UNCHANGED <<authority, pushes>>
    BY <1>3 DEF Decide, ByOwnersOnly, git
  <2>2. seen \in 1..authority.generation
    BY <1>3 DEF Decide, Goto, IInv, DeliveryInv
  <2>3. /\ decision \in [Decisions -> [generation : Nat, policy : Policies \cup {None}]]
        /\ decision[d].generation = 0
        /\ decision' = [decision EXCEPT ![d] = [generation |-> seen, policy |-> active.policy]]
    BY <1>3 DEF Decide, Undecided, IInv, TypeOK
  <2>4. [e \in Decisions |-> decision'[e].generation]
          = [[e \in Decisions |-> decision[e].generation] EXCEPT ![d] = seen]
    BY <2>3
  <2>5. Stop!Decide(d)
    BY <2>1, <2>2, <2>3, <2>4 DEF Stop!Decide
  <2> QED
    BY <2>5 DEF Stop!Next
<1>4. CASE Push
  <2>1. UNCHANGED <<authority, decision>>
    BY <1>4 DEF Push, ByOwnersOnly
  <2>2. /\ current \in Decisions
        /\ pushes[current] = 0
        /\ Clear(decision[current].generation)
        /\ pushes' = [pushes EXCEPT ![current] = pushes[current] + 1]
    BY <1>4 DEF Push, Goto, IInv, TypeOK, DeliveryInv, Locked, Mine
  <2>3. Stop!Deliver(current)
    BY <2>1, <2>2 DEF Stop!Deliver, Clear
  <2> QED
    BY <2>2, <2>3 DEF Stop!Next
<1>5. ASSUME NEW o \in Owners,
             \/ PlanPrepare(o) \/ PlanActivate(o) \/ PlanRefresh(o) \/ PlanRollback(o)
             \/ PlanBootstrap(o) \/ GiveUp(o)
      PROVE  UNCHANGED Stop!vars
  BY <1>0, <1>5 DEF PlanPrepare, PlanActivate, PlanRefresh, PlanRollback, PlanBootstrap,
                    Plan, GiveUp, git
<1>6. ASSUME NEW o \in Owners, Prepare(o) \/ Activate(o) \/ Refresh(o) \/ Rollback(o)
      PROVE  UNCHANGED Stop!vars
  BY <1>0, <1>6 DEF Prepare, Activate, Refresh, Rollback, Doing, git
<1>7. CASE \/ ReadAuthority \/ \E d \in Decisions : Supply(d)
           \/ ValidateAuthority \/ ValidatePolicy \/ DeliveryTransaction
           \/ EnsureClear \/ PersistIntent \/ Fail \/ Abort
  <2>1. UNCHANGED <<authority, decision, pushes>>
    BY <1>7 DEF ReadAuthority, Supply, ValidateAuthority, ValidatePolicy,
                DeliveryTransaction, EnsureClear, PersistIntent, Fail, Abort, Step, Leave,
                ByOwnersOnly, git
  <2> QED
    BY <1>0, <2>1
<1>8. CASE ReserveDelivery \/ BeginDeliveryCommit \/ Commit \/ Close
  <2>1. UNCHANGED <<authority, decision, pushes>>
    BY <1>8 DEF ReserveDelivery, BeginDeliveryCommit, Commit, Close, Write, Leave,
                ByOwnersOnly, git
  <2> QED
    BY <1>0, <2>1
<1>9. CASE Expire \/ UNCHANGED vars
  BY <1>0, <1>9 DEF Expire, vars, git
<1> QED
  BY <1>1, <1>2, <1>3, <1>4, <1>5, <1>6, <1>7, <1>8, <1>9 DEF Next, Controller, Delivery

\* Every behaviour of the store and its delivery is one of the emergency stop.
THEOREM StopRefinement == Spec => StopSpec
<1>1. Init => Stop!Init
  BY DEF Init, Stop!Init, Undecided
<1>2. IInv /\ [Next]_vars => [Stop!Next]_(Stop!vars)
  BY StopStep
<1> QED
  BY <1>1, <1>2, Invariance, PTL DEF Spec, StopSpec, Stop!Spec
=============================================================================
