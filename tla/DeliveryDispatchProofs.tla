------------------------ MODULE DeliveryDispatchProofs ------------------------
(***************************************************************************)
(* Proofs about DeliveryDispatch, for any tasks, dispatchers, budget and   *)
(* faults: its types, what the session's base consists of, that a merged   *)
(* delivery is recognised, that at most one dispatch is uncertain, that a  *)
(* completed session is quiet, and that the provider is never called over  *)
(* the budget.  After them, proofs about the loop of one dispatch,         *)
(* ReviewLoop: its types with the count of provider calls, that no         *)
(* blocking finding gets lost, and that it implements CorrectionRounds,    *)
(* the form in which DeliveryDispatch uses it.                             *)
(***************************************************************************)
EXTENDS DeliveryDispatch, ReviewLoop, SequenceTheorems, FiniteSetTheorems, TLAPS

(* The places of deliver in which its dispatch is under way.               *)
Working == {"attempt", "review", "commit", "intent", "push"}

(* One process is inside deliver, the holder of the delivery lock, and its *)
(* dispatch is the last of the journal and has no result yet.  Before its  *)
(* intent is on disk no intent has its base.                               *)
Place(d) ==
    /\ pc[d] # "idle" <=> lock = d
    /\ pc[d] # "idle" => task[d] \in Tasks
    /\ pc[d] \notin {"idle", "start"} =>
          /\ cur[d] = Len(starts)
          /\ cur[d] \in Dispatch
          /\ starts[cur[d]].task = task[d]
          /\ starts[cur[d]].result = "none"
    /\ pc[d] \in Working => leaked < Len(starts)
    /\ pc[d] = "attempt" => starts[cur[d]].attempts < starts[cur[d]].allowed
    /\ pc[d] \in {"attempt", "review", "commit", "intent"} =>
          \A i \in intents : starts[i].base # starts[cur[d]].base
    /\ pc[d] = "push" => cur[d] \in intents /\ cur[d] \notin pushed
    /\ pc[d] = "finish" /\ report[d] = "failed" => cur[d] \notin intents

Places == \A d \in Dispatchers : Place(d)

(* What is pushed has an intent, what has an intent did not fail, and two  *)
(* intents have neither a task nor a base in common.  Commits on the       *)
(* target are pushed ones, each where its base ends.                       *)
Commits ==
    /\ pushed \subseteq intents
    /\ \A i \in intents : starts[i].result # "failed"
    /\ \A i, j \in intents :
          starts[i].task = starts[j].task \/ starts[i].base = starts[j].base => i = j
    /\ \A n \in DOMAIN target : target[n] # Foreign =>
          /\ target[n] \in pushed
          /\ starts[target[n]].base = SubSeq(target, 1, n - 1)

(* At most one dispatch is uncertain, and none once the session is done.   *)
Certain ==
    /\ \A j, k \in Uncertain : j = k
    /\ session.status = "COMPLETED" => starts # <<>> \/ Tasks = {}
    /\ grant.state = "bound" => starts # <<>>

(* The inductive invariant.                                                *)
IInv ==
    /\ TypeOK
    /\ Places
    /\ Commits
    /\ LineageOfDeliveries
    /\ Certain
    /\ CompletedIsQuiet

-----------------------------------------------------------------------------
(* A sequence grown at its end keeps its prefixes.                         *)
LEMMA Prefixes ==
    ASSUME NEW S, NEW s \in Seq(S), NEW x \in S
    PROVE  /\ SubSeq(Append(s, x), 1, Len(s)) = s
           /\ \A n \in 1..Len(s) : SubSeq(Append(s, x), 1, n - 1) = SubSeq(s, 1, n - 1)
<1> DEFINE t == Append(s, x)
<1>1. /\ t \in Seq(S) /\ Len(t) = Len(s) + 1 /\ Len(s) \in Nat
      /\ \A i \in 1..Len(s) : t[i] = s[i]
  BY AppendProperties
<1> HIDE DEF t
<1>2. ASSUME NEW n \in 0..Len(s)
      PROVE  SubSeq(t, 1, n) = SubSeq(s, 1, n)
  <2>1. \A i \in 1..n : t[i] \in S /\ s[i] \in S /\ t[i] = s[i]
    BY <1>1, ElementOfSeq
  <2>2. /\ SubSeq(t, 1, n) \in Seq(S) /\ SubSeq(s, 1, n) \in Seq(S)
        /\ Len(SubSeq(t, 1, n)) = n /\ Len(SubSeq(s, 1, n)) = n
        /\ \A i \in 1..n : SubSeq(t, 1, n)[i] = t[i]
        /\ \A i \in 1..n : SubSeq(s, 1, n)[i] = s[i]
    BY <1>1, <2>1, SubSeqProperties
  <2> QED BY <2>1, <2>2, SeqEqual
<1>3. SubSeq(s, 1, Len(s)) = s
  BY SubSeqFull
<1> QED BY <1>1, <1>2, <1>3 DEF t

(* A proper prefix is shorter.                                             *)
LEMMA ShorterPrefix ==
    ASSUME NEW S, NEW s \in Seq(S), NEW n \in 1..Len(s)
    PROVE  Len(SubSeq(s, 1, n - 1)) = n - 1
<1>1. Len(s) \in Nat /\ \A i \in 1..(n - 1) : s[i] \in S
  BY ElementOfSeq
<1> QED BY <1>1, SubSeqProperties

(* The commits of the base are dispatches that have an intent.             *)
LEMMA BaseCommits ==
    ASSUME IInv, NEW n \in DOMAIN session.base
    PROVE  /\ session.base[n] \in intents
           /\ session.base[n] \in Dispatch
           /\ n \in 1..Len(session.base)
           /\ starts[session.base[n]].base # session.base
<1>1. session.base[n] \in pushed /\ starts[session.base[n]].base = SubSeq(session.base, 1, n - 1)
  BY DEF IInv, LineageOfDeliveries
<1>2. session.base \in Seq(0..Len(starts))
  BY DEF IInv, TypeOK
<1>3. n \in 1..Len(session.base) /\ Len(session.base) \in Nat
  BY <1>2
<1>4. Len(SubSeq(session.base, 1, n - 1)) = n - 1
  BY <1>2, <1>3, ShorterPrefix
<1> QED BY <1>1, <1>3, <1>4 DEF IInv, TypeOK, Commits

(* An intent of a task that is integrated is the commit that landed.       *)
LEMMA IntegratedHasLanded ==
    ASSUME IInv, NEW k \in Dispatch, Integrated(k)
    PROVE  /\ Landed(k)
           /\ \E n \in DOMAIN session.base : starts[session.base[n]].base = starts[k].base
<1>1. PICK n \in DOMAIN session.base : starts[session.base[n]].task = starts[k].task
  BY DEF Integrated, IntegratedTask
<1>2. PICK i \in intents : starts[i].task = starts[k].task /\ starts[i].base = starts[k].base
  BY DEF Integrated
<1>3. session.base[n] = i
  BY <1>1, <1>2, BaseCommits DEF IInv, Commits
<1> QED BY <1>1, <1>2, <1>3 DEF Landed

(* What require_reconciled_execution has seen: no dispatch is uncertain,   *)
(* and no intent is for the session's present base.                        *)
LEMMA ReconciledIsCertain ==
    ASSUME IInv, NEW allowed \in BOOLEAN, Reconciled(allowed)
    PROVE  /\ \A k \in Dispatch : starts[k].result # "failed" => Integrated(k) /\ Landed(k)
           /\ Uncertain = {}
           /\ \A i \in intents : starts[i].base # session.base
<1>1. ASSUME NEW k \in Dispatch, starts[k].result # "failed"
      PROVE  Integrated(k)
  <2>1. starts # <<>> /\ k \in DOMAIN starts
    BY DEF IInv, TypeOK, Dispatch
  <2> QED BY <1>1, <2>1 DEF Reconciled, VerifiedFailure
<1>2. Uncertain = {}
  <2>1. DOMAIN starts = Dispatch
    BY DEF IInv, TypeOK, Dispatch
  <2> QED BY <1>1, <2>1, IntegratedHasLanded DEF Uncertain
<1>3. ASSUME NEW i \in intents PROVE starts[i].base # session.base
  <2>1. i \in Dispatch /\ starts[i].result # "failed"
    BY DEF IInv, TypeOK, Commits
  <2> QED BY <1>1, <2>1, IntegratedHasLanded, BaseCommits
<1> QED BY <1>1, <1>2, <1>3, IntegratedHasLanded

-----------------------------------------------------------------------------
LEMMA InitInv == Init => IInv
<1> SUFFICES ASSUME Init PROVE IInv
  OBVIOUS
<1>1. Len(<<>>) = 0 /\ DOMAIN <<>> = {} /\ \A S : <<>> \in Seq(S)
  BY EmptySeq
<1>2. TypeOK
  <2>1. /\ target \in Seq(0..Len(starts)) /\ starts \in Seq(StartRecord)
        /\ leaked \in 0..Len(starts)
        /\ session.base \in Seq(0..Len(starts)) /\ grant.base \in Seq(0..Len(starts))
    BY <1>1 DEF Init
  <2>2. /\ session \in [base : Seq(0..Len(starts)), status : {"READY", "STALE", "COMPLETED"},
                        human : BOOLEAN]
        /\ grant \in [state : {"none", "orphan", "bound"}, base : Seq(0..Len(starts))]
    BY <2>1 DEF Init
  <2>3. cur \in [Dispatchers -> 0..Len(starts)] /\ faults \in 0..MaxFaults
    BY <1>1, DispatchFaultsAssumption DEF Init
  <2> QED BY <2>1, <2>2, <2>3 DEF Init, TypeOK
<1>3. Places
  BY NoneAssumption DEF Init, Places, Place, Working
<1>4. Commits /\ LineageOfDeliveries
  BY <1>1 DEF Init, Commits, LineageOfDeliveries
<1>5. Certain /\ CompletedIsQuiet
  BY <1>1 DEF Init, Certain, CompletedIsQuiet, Uncertain
<1> QED BY <1>2, <1>3, <1>4, <1>5 DEF IInv

(* A process inside deliver is alone there.                                *)
LEMMA Alone ==
    ASSUME IInv, NEW d \in Dispatchers, pc[d] # "idle"
    PROVE  /\ lock = d
           /\ \A e \in Dispatchers : e # d => pc[e] = "idle"
BY DEF IInv, Places, Place

(* Where one process goes in deliver is all there is to say of the places. *)
LEMMA OnePlace ==
    ASSUME IInv, NEW d \in Dispatchers, pc[d] # "idle",
           lock' = lock, NEW label, pc' = [pc EXCEPT ![d] = label], Place(d)'
    PROVE  Places'
<1>1. ASSUME NEW e \in Dispatchers, e # d PROVE Place(e)'
  <2>1. pc'[e] = "idle" /\ lock' # e
    BY <1>1, Alone DEF IInv, TypeOK
  <2> QED BY <2>1 DEF Place, Working
<1> QED BY <1>1 DEF Places

LEMMA LeavePlaces ==
    ASSUME IInv, NEW d \in Dispatchers, pc[d] # "idle", Leave(d)
    PROVE  Places'
<1>1. ASSUME NEW e \in Dispatchers PROVE Place(e)'
  <2>1. pc'[e] = "idle" /\ lock' # e
    BY Alone, NoneAssumption DEF IInv, TypeOK, Leave, Goto
  <2> QED BY <2>1 DEF Place, Working
<1> QED BY <1>1 DEF Places

(* The variables of the processes, as TypeOK has them.                     *)
ControlOK ==
    /\ lock \in Dispatchers \cup {None}
    /\ pc \in [Dispatchers -> {"idle", "start", "attempt", "review", "commit", "intent",
                             "push", "finish"}]
    /\ task \in [Dispatchers -> Tasks \cup {None}]
    /\ cur \in [Dispatchers -> 0..Len(starts)]
    /\ report \in [Dispatchers -> {"none", "failed", "other", "delivered"}]

(* The journal and the session, as TypeOK has them.                        *)
StoreOK ==
    /\ target \in Seq(0..Len(starts))
    /\ branches \subseteq Tasks
    /\ pushed \subseteq Dispatch
    /\ leaked \in 0..Len(starts)
    /\ starts \in Seq(StartRecord)
    /\ intents \subseteq Dispatch
    /\ session \in [base : Seq(0..Len(starts)), status : {"READY", "STALE", "COMPLETED"},
                    human : BOOLEAN]
    /\ grant \in [state : {"none", "orphan", "bound"}, base : Seq(0..Len(starts))]
    /\ sessionLock \in BOOLEAN
    /\ faults \in 0..MaxFaults

LEMMA TypesAre == TypeOK <=> StoreOK /\ ControlOK
BY DEF TypeOK, StoreOK, ControlOK

LEMMA TypesAreNext == TypeOK' <=> StoreOK' /\ ControlOK'
BY DEF TypeOK, StoreOK, ControlOK

LEMMA ControlTypes ==
    ASSUME IInv, NEW d \in Dispatchers, Len(starts') = Len(starts),
           \/ Leave(d)
           \/ \E kind \in {"failed", "other", "delivered"} : Reports(d, kind)
           \/ /\ \E label \in Working : Goto(d, label)
              /\ UNCHANGED <<lock, task, cur, report>>
    PROVE  ControlOK'
<1>1. ControlOK /\ Len(starts) \in Nat
  BY DEF IInv, TypeOK, ControlOK
<1>2. CASE Leave(d)
  BY <1>1, <1>2 DEF Leave, Goto, ControlOK
<1>3. CASE \E kind \in {"failed", "other", "delivered"} : Reports(d, kind)
  <2>1. PICK kind \in {"failed", "other", "delivered"} : Reports(d, kind)
    BY <1>3
  <2>2. report' = [report EXCEPT ![d] = kind] /\ pc' = [pc EXCEPT ![d] = "finish"]
    BY <2>1 DEF Reports, Goto
  <2>3. report' \in [Dispatchers -> {"none", "failed", "other", "delivered"}]
    BY <1>1, <2>2 DEF ControlOK
  <2>4. pc' \in [Dispatchers -> {"idle", "start", "attempt", "review", "commit", "intent",
                                 "push", "finish"}]
    BY <1>1, <2>2 DEF ControlOK
  <2>5. UNCHANGED <<lock, task, cur>>
    BY <2>1 DEF Reports
  <2> QED BY <1>1, <2>3, <2>4, <2>5 DEF ControlOK
<1>4. CASE /\ \E label \in Working : Goto(d, label)
           /\ UNCHANGED <<lock, task, cur, report>>
  BY <1>1, <1>4 DEF Goto, Working, ControlOK
<1> QED BY <1>2, <1>3, <1>4

(* The journal with the same dispatches, each of the same task, base and   *)
(* result.                                                                 *)
SameDispatches ==
    /\ starts' \in Seq(StartRecord)
    /\ Len(starts') = Len(starts)
    /\ \A k \in Dispatch :
          /\ starts'[k].task = starts[k].task
          /\ starts'[k].base = starts[k].base
          /\ starts'[k].result = starts[k].result

(* Tasks and bases are never rewritten: as long as they are what they were *)
(* and the session's base too, so is what has landed, and its lineage.     *)
LEMMA SameBase ==
    ASSUME IInv, session'.base = session.base, pushed \subseteq pushed',
           \A k \in Dispatch : /\ starts'[k].task = starts[k].task
                               /\ starts'[k].base = starts[k].base
    PROVE  /\ \A k \in Dispatch : Landed(k)' <=> Landed(k)
           /\ LineageOfDeliveries'
<1>1. \A n \in DOMAIN session.base : session.base[n] \in Dispatch
  BY BaseCommits
<1>2. ASSUME NEW n \in DOMAIN session.base
      PROVE  /\ session.base[n] \in pushed'
             /\ starts'[session.base[n]].base = SubSeq(session.base, 1, n - 1)
             /\ \A m \in 1..(n - 1) :
                   starts'[session.base[m]].task # starts'[session.base[n]].task
  <2>1. \A m \in 1..(n - 1) : m \in DOMAIN session.base
    <3>1. session.base \in Seq(0..Len(starts))
      BY DEF IInv, TypeOK
    <3> QED BY <3>1
  <2>2. session.base[n] \in Dispatch /\ \A m \in 1..(n - 1) : session.base[m] \in Dispatch
    BY <1>1, <2>1
  <2>3. /\ session.base[n] \in pushed
        /\ starts[session.base[n]].base = SubSeq(session.base, 1, n - 1)
        /\ \A m \in 1..(n - 1) :
              starts[session.base[m]].task # starts[session.base[n]].task
    BY DEF IInv, LineageOfDeliveries
  <2> QED BY <2>2, <2>3
<1>3. LineageOfDeliveries'
  BY <1>2 DEF LineageOfDeliveries
<1>4. ASSUME NEW k \in Dispatch PROVE Landed(k)' <=> Landed(k)
  BY <1>1 DEF Landed
<1> QED BY <1>3, <1>4

(* A step inside deliver that writes neither an intent nor a result, and   *)
(* moves no branch but its own, changes nothing in what is known of the    *)
(* dispatches.                                                             *)
LEMMA LedgerKept ==
    ASSUME IInv, SameDispatches, UNCHANGED <<target, pushed, intents, session>>,
           grant'.state = "bound" => starts # <<>>,
           \A d \in Dispatchers : pc'[d] \in Working => pc[d] \in Working
    PROVE  Commits' /\ LineageOfDeliveries' /\ Certain' /\ CompletedIsQuiet'
<1>1. /\ DOMAIN starts = Dispatch /\ DOMAIN starts' = Dispatch /\ Dispatch' = Dispatch
      /\ starts # <<>> => starts' # <<>>
  BY DEF IInv, TypeOK, Dispatch, SameDispatches
<1>2. intents \subseteq Dispatch /\ pushed \subseteq Dispatch
  BY DEF IInv, TypeOK
<1>3. Commits'
  BY <1>2 DEF IInv, Commits, SameDispatches
<1>4. LineageOfDeliveries' /\ \A k \in Dispatch : Landed(k)' <=> Landed(k)
  BY SameBase DEF SameDispatches
<1>5. Uncertain' = Uncertain
  BY <1>1, <1>4 DEF Uncertain, SameDispatches
<1>6. Certain'
  BY <1>1, <1>5 DEF IInv, Certain
<1>7. CompletedIsQuiet'
  BY <1>5 DEF IInv, CompletedIsQuiet, Working
<1> QED BY <1>3, <1>4, <1>6, <1>7

LEMMA Unchanged ==
    ASSUME IInv, starts' = starts
    PROVE  SameDispatches
BY DEF IInv, TypeOK, SameDispatches

-----------------------------------------------------------------------------
(* Steps of deliver between its start and its intent.                      *)

(* A charged attempt keeps the dispatches what they are.                   *)
LEMMA ChargedDispatch ==
    ASSUME IInv, NEW d \in Dispatchers, MayAttempt(d), starts' = Charged(d)
    PROVE  /\ SameDispatches
           /\ cur[d] \in Dispatch
           /\ starts'[cur[d]].attempts = starts[cur[d]].attempts + 1
<1> DEFINE k == cur[d]
           r == [starts[k] EXCEPT !.attempts = @ + 1]
<1>1. /\ starts \in Seq(StartRecord) /\ k \in Dispatch /\ k \in DOMAIN starts
      /\ starts[k].attempts < starts[k].allowed
      /\ starts[k] \in StartRecord
  <2>1. starts \in Seq(StartRecord) /\ k \in Dispatch /\ starts[k].attempts < starts[k].allowed
    BY DEF IInv, TypeOK, Places, Place, MayAttempt
  <2> QED BY <2>1, ElementOfSeq DEF Dispatch
<1>2. starts' = [starts EXCEPT ![k] = r]
  BY DEF Charged
<1>3. /\ r \in StartRecord
      /\ r.task = starts[k].task /\ r.base = starts[k].base /\ r.result = starts[k].result
      /\ r.attempts = starts[k].attempts + 1
  <2>1. /\ starts[k].attempts \in 0..Limit /\ starts[k].allowed \in 1..Limit /\ Limit \in Nat
    BY <1>1, LimitAssumption DEF StartRecord
  <2>2. starts[k].attempts + 1 \in 0..Limit
    BY <1>1, <2>1
  <2> QED BY <1>1, <2>2 DEF StartRecord
<1> HIDE DEF r
<1>4. /\ starts' \in Seq(StartRecord) /\ Len(starts') = Len(starts)
      /\ \A i \in 1..Len(starts) : starts'[i] = IF i = k THEN r ELSE starts[i]
  BY <1>1, <1>2, <1>3, ExceptSeq
<1> QED BY <1>1, <1>3, <1>4 DEF SameDispatches, Dispatch

LEMMA WorkInv ==
    ASSUME IInv, NEW d \in Dispatchers,
           \/ AttemptCompletes(d) \/ AttemptFails(d) \/ Correct(d) \/ Approve(d)
           \/ Commit(d) \/ Refuse(d)
    PROVE  IInv'
<1>1. /\ pc[d] \in Working /\ pc[d] # "idle"
      /\ UNCHANGED <<target, pushed, intents, session, grant, sessionLock, faults, lock, task, cur>>
      /\ \E label \in Working \cup {"finish"} : pc' = [pc EXCEPT ![d] = label]
  BY DEF AttemptCompletes, AttemptFails, Correct, Approve, Commit, Refuse, MayAttempt, Working,
         Goto, Reports, gitVars, sessionVars
<1>2. /\ Place(d) /\ StoreOK /\ ControlOK
      /\ cur[d] \in Dispatch /\ Len(starts) \in Nat /\ leaked \in Nat
  <2>1. Place(d) /\ StoreOK /\ ControlOK
    BY TypesAre DEF IInv, Places
  <2>2. leaked \in Nat /\ Len(starts) \in Nat
    BY <2>1 DEF StoreOK
  <2> QED BY <1>1, <2>1, <2>2 DEF Place, Working
<1>3. SameDispatches
  <2>1. CASE AttemptCompletes(d) \/ AttemptFails(d)
    BY <2>1, ChargedDispatch DEF AttemptCompletes, AttemptFails
  <2>2. CASE starts' = starts
    BY <2>2, Unchanged
  <2> QED BY <2>1, <2>2 DEF Correct, Approve, Commit, Refuse
<1>4. \A e \in Dispatchers : pc'[e] \in Working => pc[e] \in Working
  BY <1>1, <1>2 DEF ControlOK
<1>5. Commits' /\ LineageOfDeliveries' /\ Certain' /\ CompletedIsQuiet'
  BY <1>1, <1>3, <1>4, LedgerKept DEF IInv, Certain
<1>6. ControlOK'
  <2>1. Len(starts') = Len(starts)
    BY <1>3 DEF SameDispatches
  <2>2. \/ \E kind \in {"failed", "other", "delivered"} : Reports(d, kind)
        \/ /\ \E label \in Working : Goto(d, label)
           /\ UNCHANGED <<lock, task, cur, report>>
    BY DEF AttemptCompletes, AttemptFails, Correct, Approve, Commit, Refuse, Working
  <2> QED BY <2>1, <2>2, ControlTypes
<1>7. leaked' \in 0..Len(starts) /\ branches' \subseteq Tasks
  <2>1. leaked < Len(starts) /\ task[d] \in Tasks
    BY <1>1, <1>2 DEF Place
  <2>2. leaked' \in {leaked, leaked + 1}
    BY DEF AttemptCompletes, AttemptFails, Correct, Approve, Commit, Refuse, gitVars
  <2>3. branches' \in {branches, branches \cup {task[d]}}
    BY DEF AttemptCompletes, AttemptFails, Correct, Approve, Commit, Refuse, gitVars
  <2> QED BY <1>2, <2>1, <2>2, <2>3 DEF StoreOK
<1>8. StoreOK'
  BY <1>1, <1>2, <1>3, <1>7 DEF StoreOK, SameDispatches, Dispatch
<1>9. Place(d)'
  <2>1. /\ pc[d] # "idle" <=> lock = d
        /\ task[d] \in Tasks /\ cur[d] = Len(starts)
        /\ starts[cur[d]].task = task[d] /\ starts[cur[d]].result = "none"
        /\ leaked < Len(starts)
    BY <1>1, <1>2 DEF Place, Working
  <2>2. /\ cur'[d] = Len(starts') /\ cur'[d] \in Dispatch'
        /\ starts'[cur'[d]].task = task'[d] /\ starts'[cur'[d]].result = "none"
        /\ task'[d] \in Tasks /\ pc'[d] # "idle" /\ lock' = d
    BY <1>1, <1>2, <1>3, <2>1 DEF SameDispatches, Dispatch, ControlOK, Working
  <2>3. starts'[cur'[d]].base = starts[cur[d]].base
    BY <1>1, <1>2, <1>3 DEF SameDispatches
  <2>4. \A i \in intents : i \in Dispatch /\ starts'[i].base = starts[i].base
    BY <1>2, <1>3 DEF SameDispatches, StoreOK
  <2>5. CASE pc[d] \in {"attempt", "review", "commit", "intent"} /\ pc'[d] = "finish"
    <3>1. cur'[d] \notin intents'
      BY <1>1, <1>2, <2>5 DEF Place
    <3> QED BY <2>2, <2>5, <3>1 DEF Place, Working
  <2>6. CASE AttemptCompletes(d) \/ Correct(d) \/ Approve(d) \/ Commit(d)
    <3>1. /\ pc[d] \in {"attempt", "review", "commit"}
          /\ pc'[d] \in {"attempt", "review", "commit", "intent"}
          /\ pc'[d] = "attempt" => starts'[cur'[d]].attempts < starts'[cur'[d]].allowed
          /\ leaked' = leaked
      BY <1>2, <2>6 DEF AttemptCompletes, MayAttempt, Correct, Approve, Commit, Goto, ControlOK,
                        gitVars
    <3>2. \A i \in intents' : starts'[i].base # starts'[cur'[d]].base
      BY <1>1, <1>2, <2>3, <2>4, <3>1 DEF Place
    <3>3. leaked' < Len(starts')
      BY <1>3, <2>1, <3>1 DEF SameDispatches
    <3> QED BY <2>2, <3>1, <3>2, <3>3 DEF Place, Working
  <2>7. CASE Refuse(d) /\ pc[d] = "push"
    <3>1. pc'[d] = "finish" /\ report'[d] = "other"
      BY <1>2, <2>7 DEF Refuse, Reports, Goto, ControlOK
    <3> QED BY <2>2, <3>1 DEF Place, Working
  <2>8. ASSUME AttemptFails(d) \/ (Refuse(d) /\ pc[d] # "push")
        PROVE  pc[d] \in {"attempt", "review", "commit", "intent"} /\ pc'[d] = "finish"
    BY <1>2, <2>8 DEF AttemptFails, MayAttempt, Refuse, Reports, Goto, ControlOK
  <2> QED BY <2>5, <2>6, <2>7, <2>8
<1>10. Places'
  BY <1>1, <1>9, OnePlace
<1> QED BY <1>5, <1>6, <1>8, <1>10, TypesAreNext DEF IInv

(* A call of deliver.                                                      *)
LEMMA CallInv ==
    ASSUME IInv, NEW d \in Dispatchers, NEW t \in Tasks, Call(d, t)
    PROVE  IInv'
<1>1. /\ UNCHANGED <<gitVars, starts, intents, sessionVars, cur, report, faults>>
      /\ lock = None /\ lock' = d
      /\ pc' = [pc EXCEPT ![d] = "start"] /\ task' = [task EXCEPT ![d] = t]
  BY DEF Call, Goto
<1>2. StoreOK /\ ControlOK
  BY TypesAre DEF IInv
<1>3. StoreOK' /\ ControlOK'
  BY <1>1, <1>2 DEF StoreOK, ControlOK, gitVars, sessionVars, Dispatch
<1>4. \A e \in Dispatchers : pc[e] = "idle"
  BY <1>1, NoneAssumption DEF IInv, Places, Place
<1>5. Places'
  <2>1. \A e \in Dispatchers : pc'[e] = IF e = d THEN "start" ELSE "idle"
    BY <1>1, <1>2, <1>4 DEF ControlOK
  <2>2. task'[d] = t
    BY <1>1, <1>2 DEF ControlOK
  <2> QED BY <1>1, <2>1, <2>2 DEF Places, Place, Working
<1>6. Commits' /\ LineageOfDeliveries' /\ Certain' /\ CompletedIsQuiet'
  <2>1. \A e \in Dispatchers : pc'[e] \in Working => pc[e] \in Working
    BY <1>1, <1>2 DEF ControlOK, Working
  <2> QED BY <1>1, <2>1, Unchanged, LedgerKept DEF IInv, Certain, gitVars, sessionVars
<1> QED BY <1>3, <1>5, <1>6, TypesAreNext DEF IInv

(* deliver refuses, cannot record its result, or dies.                     *)
LEMMA LeaveInv ==
    ASSUME IInv, NEW d \in Dispatchers, StartRefused(d) \/ FinishContended(d) \/ Crash(d)
    PROVE  IInv'
<1>1. /\ pc[d] # "idle" /\ Leave(d)
      /\ UNCHANGED <<target, pushed, starts, intents, session, grant, sessionLock>>
      /\ faults' \in {faults, faults + 1} /\ (faults' # faults => faults < MaxFaults)
      /\ leaked' \in {leaked, IF pc[d] \in Working THEN leaked + 1 ELSE leaked}
      /\ branches' \in {branches, branches \cup {task[d]}}
  BY DEF StartRefused, FinishContended, Crash, Fault, gitVars, sessionVars, Working
<1>2. /\ Place(d) /\ StoreOK /\ ControlOK /\ Len(starts) \in Nat
  <2>1. Place(d) /\ StoreOK /\ ControlOK
    BY TypesAre DEF IInv, Places
  <2> QED BY <2>1 DEF StoreOK
<1>3. StoreOK'
  <2>1. leaked' \in 0..Len(starts)
    BY <1>1, <1>2 DEF StoreOK, Place
  <2>2. branches' \subseteq Tasks
    BY <1>1, <1>2 DEF StoreOK, Place
  <2>3. faults' \in 0..MaxFaults
    BY <1>1, <1>2, DispatchFaultsAssumption DEF StoreOK
  <2> QED BY <1>1, <1>2, <2>1, <2>2, <2>3 DEF StoreOK, Dispatch
<1>4. ControlOK'
  BY <1>1, ControlTypes
<1>5. Places'
  BY <1>1, LeavePlaces
<1>6. Commits' /\ LineageOfDeliveries' /\ Certain' /\ CompletedIsQuiet'
  <2>1. \A e \in Dispatchers : pc'[e] \in Working => pc[e] \in Working
    BY <1>1, <1>2 DEF ControlOK, Working, Leave, Goto
  <2> QED BY <1>1, <2>1, Unchanged, LedgerKept DEF IInv, Certain
<1> QED BY <1>3, <1>4, <1>5, <1>6, TypesAreNext DEF IInv

(* Operations of the session that leave its base and status alone.         *)
LEMMA SessionQuietInv ==
    ASSUME IInv, Grant \/ GrantInterrupted \/ Hold \/ Release
    PROVE  IInv'
<1>1. /\ UNCHANGED <<gitVars, starts, intents, session, dispatcherVars>>
      /\ grant' \in {grant, [state |-> "bound", base |-> session.base],
                     [state |-> "orphan", base |-> session.base]}
      /\ sessionLock' \in {sessionLock, TRUE, FALSE}
      /\ faults' \in {faults, faults + 1} /\ (faults' # faults => faults < MaxFaults)
      /\ grant' # grant => Len(starts) = Limit
  BY DEF Grant, GrantInterrupted, Hold, Release, Fault, Exhausted
<1>2. StoreOK /\ ControlOK
  BY TypesAre DEF IInv
<1>3. grant'.state = "bound" => starts # <<>>
  <2>1. CASE grant' = grant
    BY <2>1 DEF IInv, Certain
  <2>2. CASE grant' # grant
    BY <1>1, <2>2, EmptySeq, LimitAssumption
  <2> QED BY <2>1, <2>2
<1>4. StoreOK' /\ ControlOK'
  <2>1. /\ grant' \in [state : {"none", "orphan", "bound"}, base : Seq(0..Len(starts))]
        /\ sessionLock' \in BOOLEAN
    <3>1. session.base \in Seq(0..Len(starts))
      BY <1>2 DEF StoreOK
    <3>2. grant' \in [state : {"none", "orphan", "bound"}, base : Seq(0..Len(starts))]
      BY <1>1, <1>2, <3>1 DEF StoreOK
    <3>3. sessionLock' \in BOOLEAN
      BY <1>2 DEF Grant, GrantInterrupted, Hold, Release, StoreOK
    <3> QED BY <3>2, <3>3
  <2>2. faults' \in 0..MaxFaults
    BY <1>1, <1>2, DispatchFaultsAssumption DEF StoreOK
  <2> QED BY <1>1, <1>2, <2>1, <2>2 DEF StoreOK, ControlOK, gitVars, dispatcherVars, Dispatch
<1>5. Places'
  BY <1>1 DEF IInv, Places, Place, gitVars, dispatcherVars, Dispatch
<1>6. Commits' /\ LineageOfDeliveries' /\ Certain' /\ CompletedIsQuiet'
  BY <1>1, <1>3, Unchanged, LedgerKept DEF gitVars, dispatcherVars
<1> QED BY <1>4, <1>5, <1>6, TypesAreNext DEF IInv

-----------------------------------------------------------------------------
(* The start of a dispatch.                                                *)

(* What may be spent is a number of calls within the limit.                *)
LEMMA RemainingBound ==
    ASSUME IInv, Remaining > 0
    PROVE  Remaining \in 1..Limit
<1>1. Len(starts) \in Nat /\ Limit \in Nat /\ FailedInvocations \subseteq 1..Len(starts)
  <2>1. starts \in Seq(StartRecord)
    BY DEF IInv, TypeOK
  <2> QED BY <2>1, LimitAssumption DEF FailedInvocations
<1>2. Cardinality(FailedInvocations) \in Nat
  <2>1. IsFiniteSet(1..Len(starts))
    BY <1>1, FS_Interval
  <2>2. IsFiniteSet(FailedInvocations)
    BY <1>1, <2>1, FS_Subset
  <2> QED BY <2>2, FS_CardinalityType
<1>3. CASE grant.state = "none"
  <2>1. Remaining = Limit - Cardinality(FailedInvocations)
    BY <1>3 DEF Remaining
  <2> QED BY <1>1, <1>2, <2>1
<1>4. CASE grant.state = "bound" /\ grant.base = session.base
  <2>1. Remaining = Limit + 1 - Len(starts)
    BY <1>4 DEF Remaining
  <2>2. Len(starts) > 0
    BY <1>1, <1>4, EmptySeq DEF IInv, Certain, TypeOK
  <2> QED BY <1>1, <2>1, <2>2
<1>5. CASE grant.state # "none" /\ ~(grant.state = "bound" /\ grant.base = session.base)
  <2>1. Remaining = 0
    BY <1>5 DEF Remaining
  <2> QED BY <2>1
<1> QED BY <1>3, <1>4, <1>5

LEMMA StartInv ==
    ASSUME IInv, NEW d \in Dispatchers, Start(d)
    PROVE  IInv'
<1> DEFINE n == Len(starts) + 1
           r == [task |-> task[d], base |-> session.base, leaked |-> leaked,
                 allowed |-> Remaining, attempts |-> 0, result |-> "none"]
<1>1. /\ pc[d] = "start" /\ Reconciled(FALSE) /\ Remaining > 0
      /\ starts' = Append(starts, r)
      /\ cur' = [cur EXCEPT ![d] = n] /\ pc' = [pc EXCEPT ![d] = "attempt"]
      /\ UNCHANGED <<gitVars, intents, sessionVars, lock, task, report, faults>>
  BY DEF Start, Goto
<1>2. StoreOK /\ ControlOK /\ Place(d) /\ Len(starts) \in Nat
  <2>1. StoreOK /\ ControlOK /\ Place(d)
    BY TypesAre DEF IInv, Places
  <2> QED BY <2>1 DEF StoreOK
<1>3. /\ r \in StartRecord
      /\ r.task = task[d] /\ r.base = session.base /\ r.result = "none"
      /\ r.attempts = 0 /\ r.attempts < r.allowed
  <2>1. session.base \in Seq(Nat)
    <3>1. session.base \in Seq(0..Len(starts)) /\ 0..Len(starts) \subseteq Nat
      BY <1>2 DEF StoreOK
    <3> QED BY <3>1, SeqMonotonic
  <2>2. Remaining \in 1..Limit /\ Limit \in Nat
    BY <1>1, RemainingBound, LimitAssumption
  <2>3. task[d] \in Tasks /\ leaked \in Nat
    BY <1>1, <1>2 DEF Place, StoreOK
  <2> QED BY <2>1, <2>2, <2>3 DEF StartRecord
<1> HIDE DEF r
<1>4. /\ starts' \in Seq(StartRecord) /\ Len(starts') = n
      /\ \A k \in Dispatch : starts'[k] = starts[k]
      /\ starts'[n] = r
      /\ Dispatch' = 1..n /\ DOMAIN starts' = 1..n /\ starts' # <<>>
  <2>1. starts \in Seq(StartRecord)
    BY <1>2 DEF StoreOK
  <2> QED BY <1>1, <1>3, <2>1, AppendProperties DEF Dispatch
<1>5. \A i \in intents : i \in Dispatch /\ i # n
  BY <1>2 DEF StoreOK, Dispatch
<1>6. /\ \A k \in Dispatch : starts[k].result # "failed" => Landed(k)
      /\ \A i \in intents : starts[i].base # session.base
  BY <1>1, ReconciledIsCertain
<1>7. StoreOK'
  <2>1. 0..Len(starts) \subseteq 0..n /\ Dispatch \subseteq 1..n
    BY <1>2 DEF Dispatch
  <2>2. Seq(0..Len(starts)) \subseteq Seq(0..n)
    BY <2>1, SeqMonotonic
  <2>3. leaked \in 0..n
    BY <1>2, <2>1 DEF StoreOK
  <2> QED BY <1>1, <1>2, <1>4, <2>1, <2>2, <2>3 DEF StoreOK, gitVars, sessionVars
<1>8. ControlOK'
  <2>1. cur' \in [Dispatchers -> 0..n]
    BY <1>1, <1>2 DEF ControlOK
  <2> QED BY <1>1, <1>2, <1>4, <2>1 DEF ControlOK
<1>9. Place(d)'
  <2>1. pc'[d] = "attempt" /\ cur'[d] = n /\ lock' = d /\ task'[d] = task[d]
    BY <1>1, <1>2, Alone DEF ControlOK
  <2>2. leaked' < Len(starts') /\ n \in 1..n
    BY <1>1, <1>2, <1>4 DEF StoreOK, gitVars
  <2>3. \A i \in intents' : starts'[i].base # starts'[n].base
    BY <1>1, <1>3, <1>4, <1>5, <1>6
  <2>4. task[d] \in Tasks
    BY <1>1, <1>2 DEF Place
  <2> QED BY <1>3, <1>4, <2>1, <2>2, <2>3, <2>4 DEF Place, Working
<1>10. Places'
  BY <1>1, <1>9, OnePlace
<1>11. Commits'
  <2>1. Commits /\ UNCHANGED <<target, pushed, intents>>
    BY <1>1 DEF IInv, gitVars
  <2>2. \A i \in intents : starts'[i] = starts[i]
    BY <1>4, <1>5
  <2>3. \A i \in pushed : starts'[i] = starts[i]
    BY <2>1, <2>2 DEF Commits
  <2> QED BY <2>1, <2>2, <2>3 DEF Commits
<1>12. LineageOfDeliveries' /\ \A k \in Dispatch : Landed(k)' <=> Landed(k)
  BY <1>1, <1>4, SameBase DEF gitVars, sessionVars
<1>13. Certain'
  <2>1. ASSUME NEW k \in Uncertain' PROVE k = n
    <3>1. k \in 1..n /\ starts'[k].result # "failed" /\ ~Landed(k)'
      BY <1>4 DEF Uncertain
    <3>2. k \notin Dispatch
      BY <1>4, <1>6, <1>12, <3>1
    <3> QED BY <1>2, <3>1, <3>2 DEF Dispatch
  <2> QED BY <1>4, <2>1 DEF Certain
<1>14. session'.status # "COMPLETED"
  <2>1. CASE starts # <<>>
    BY <1>1, <2>1 DEF Reconciled, Readable, sessionVars
  <2>2. CASE starts = <<>>
    <3>1. task[d] \in Tasks
      BY <1>1, <1>2 DEF Place
    <3> QED BY <1>1, <2>2, <3>1 DEF IInv, Certain, sessionVars
  <2> QED BY <2>1, <2>2
<1> QED BY <1>7, <1>8, <1>10, <1>11, <1>12, <1>13, <1>14, TypesAreNext DEF IInv, CompletedIsQuiet

-----------------------------------------------------------------------------
(* The intent, the push and the result.                                    *)
LEMMA PutIntentInv ==
    ASSUME IInv, NEW d \in Dispatchers, PutIntent(d)
    PROVE  IInv'
<1>1. /\ pc[d] = "intent"
      /\ \A i \in intents : starts[i].task # task[d]
      /\ intents' = intents \cup {cur[d]} /\ pc' = [pc EXCEPT ![d] = "push"]
      /\ UNCHANGED <<gitVars, starts, sessionVars, lock, task, cur, report, faults>>
  BY DEF PutIntent, Goto
<1>2. StoreOK /\ ControlOK /\ Place(d)
  BY TypesAre DEF IInv, Places
<1>3. /\ cur[d] \in Dispatch /\ starts[cur[d]].result = "none"
      /\ starts[cur[d]].task = task[d]
      /\ \A i \in intents : starts[i].base # starts[cur[d]].base
      /\ cur[d] \notin intents
  BY <1>1, <1>2 DEF Place
<1>4. StoreOK' /\ ControlOK'
  <2>1. ControlOK'
    BY <1>1, ControlTypes DEF Goto, Working
  <2> QED BY <1>1, <1>2, <1>3, <2>1 DEF StoreOK, gitVars, sessionVars, Dispatch
<1>5. Place(d)'
  <2>1. cur[d] \notin pushed
    BY <1>3 DEF IInv, Commits
  <2>2. pc'[d] = "push"
    BY <1>1, <1>2 DEF ControlOK
  <2> QED BY <1>1, <1>2, <2>1, <2>2 DEF Place, Working, gitVars, Dispatch
<1>6. Places'
  BY <1>1, <1>5, OnePlace
<1>7. Commits'
  BY <1>1, <1>3 DEF IInv, Commits, gitVars
<1>8. LineageOfDeliveries' /\ Certain'
  BY <1>1 DEF IInv, LineageOfDeliveries, Certain, Uncertain, Landed, gitVars, sessionVars
<1>9. CompletedIsQuiet'
  BY <1>1, <1>2 DEF IInv, CompletedIsQuiet, Uncertain, Landed, sessionVars, ControlOK
<1> QED BY <1>4, <1>6, <1>7, <1>8, <1>9, TypesAreNext DEF IInv

LEMMA PushInv ==
    ASSUME IInv, NEW d \in Dispatchers, Push(d)
    PROVE  IInv'
<1>1. PICK kind \in {"delivered", "other"} : Reports(d, kind)
  BY DEF Push
<1>2. /\ pc[d] = "push" /\ pushed' = pushed \cup {cur[d]}
      /\ pc' = [pc EXCEPT ![d] = "finish"] /\ report' = [report EXCEPT ![d] = kind]
      /\ UNCHANGED <<target, branches, leaked, starts, intents, sessionVars, faults,
                     lock, task, cur>>
  BY <1>1 DEF Push, Reports, Goto
<1>3. StoreOK /\ ControlOK /\ Place(d)
  BY TypesAre DEF IInv, Places
<1>4. cur[d] \in intents /\ cur[d] \in Dispatch
  BY <1>2, <1>3 DEF Place
<1>5. StoreOK' /\ ControlOK'
  <2>1. ControlOK'
    BY <1>1, <1>2, ControlTypes
  <2> QED BY <1>2, <1>3, <1>4, <2>1 DEF StoreOK, sessionVars, Dispatch
<1>6. Places'
  <2>1. pc'[d] = "finish" /\ report'[d] = kind
    BY <1>2, <1>3 DEF ControlOK
  <2>2. Place(d)'
    BY <1>2, <1>3, <2>1 DEF Place, Working, Dispatch
  <2> QED BY <1>2, <2>2, OnePlace
<1>7. Commits'
  BY <1>2, <1>4 DEF IInv, Commits
<1>8. LineageOfDeliveries' /\ Certain'
  BY <1>2 DEF IInv, LineageOfDeliveries, Certain, Uncertain, Landed, sessionVars
<1>9. CompletedIsQuiet'
  BY <1>2, <1>3 DEF IInv, CompletedIsQuiet, Uncertain, Landed, sessionVars, ControlOK
<1> QED BY <1>5, <1>6, <1>7, <1>8, <1>9, TypesAreNext DEF IInv

LEMMA FinishInv ==
    ASSUME IInv, NEW d \in Dispatchers, Finish(d)
    PROVE  IInv'
<1> DEFINE k == cur[d]
           r == [starts[k] EXCEPT !.result = report[d]]
<1>1. /\ pc[d] = "finish" /\ Leave(d)
      /\ starts' = [starts EXCEPT ![k] = r]
      /\ UNCHANGED <<gitVars, intents, sessionVars, faults>>
  BY DEF Finish
<1>2. StoreOK /\ ControlOK /\ Place(d)
  BY TypesAre DEF IInv, Places
<1>3. /\ starts \in Seq(StartRecord) /\ k \in Dispatch /\ starts[k].result = "none"
      /\ starts[k] \in StartRecord
      /\ report[d] = "failed" => k \notin intents
  <2>1. /\ starts \in Seq(StartRecord) /\ k \in Dispatch /\ starts[k].result = "none"
        /\ report[d] = "failed" => k \notin intents
    BY <1>1, <1>2 DEF StoreOK, Place
  <2> QED BY <2>1, ElementOfSeq DEF Dispatch
<1>4. /\ r \in StartRecord /\ r.result = report[d]
      /\ r.task = starts[k].task /\ r.base = starts[k].base
  <2>1. report[d] \in {"none", "failed", "other", "delivered"}
    BY <1>2 DEF ControlOK
  <2> QED BY <1>3, <2>1 DEF StartRecord
<1> HIDE DEF r
<1>5. /\ starts' \in Seq(StartRecord) /\ Len(starts') = Len(starts)
      /\ \A i \in Dispatch : starts'[i] = IF i = k THEN r ELSE starts[i]
      /\ Dispatch' = Dispatch /\ DOMAIN starts' = Dispatch /\ DOMAIN starts = Dispatch
  <2>1. /\ starts' \in Seq(StartRecord) /\ Len(starts') = Len(starts)
        /\ \A i \in 1..Len(starts) : starts'[i] = IF i = k THEN r ELSE starts[i]
    BY <1>1, <1>3, <1>4, ExceptSeq DEF Dispatch
  <2> QED BY <1>3, <2>1 DEF Dispatch
<1>6. \A i \in Dispatch : /\ starts'[i].task = starts[i].task
                          /\ starts'[i].base = starts[i].base
  BY <1>4, <1>5
<1>7. intents \subseteq Dispatch /\ pushed \subseteq Dispatch
  BY <1>2 DEF StoreOK
<1>8. StoreOK' /\ ControlOK'
  <2>1. ControlOK'
    BY <1>1, <1>5, ControlTypes
  <2> QED BY <1>1, <1>2, <1>5, <2>1 DEF StoreOK, gitVars, sessionVars
<1>9. Places'
  BY <1>1, LeavePlaces
<1>10. Commits'
  <2>1. Commits /\ UNCHANGED <<target, pushed, intents>>
    BY <1>1 DEF IInv, gitVars
  <2>2. \A i \in intents : starts'[i].result # "failed"
    BY <1>3, <1>4, <1>5, <1>7, <2>1 DEF Commits
  <2> QED BY <1>6, <1>7, <2>1, <2>2 DEF Commits
<1>11. LineageOfDeliveries' /\ \A i \in Dispatch : Landed(i)' <=> Landed(i)
  BY <1>1, <1>6, SameBase DEF gitVars, sessionVars
<1>12. Uncertain' \subseteq Uncertain
  BY <1>3, <1>5, <1>11 DEF Uncertain
<1>13. Certain'
  <2>1. starts # <<>> => starts' # <<>>
    BY <1>3, <1>5
  <2> QED BY <1>1, <1>12, <2>1 DEF IInv, Certain, sessionVars
<1>14. CompletedIsQuiet'
  <2>1. \A e \in Dispatchers : pc'[e] \in Working => pc[e] \in Working
    BY <1>1, <1>2 DEF Leave, Goto, ControlOK, Working
  <2> QED BY <1>1, <1>12, <2>1 DEF IInv, CompletedIsQuiet, sessionVars, Working
<1> QED BY <1>8, <1>9, <1>10, <1>11, <1>13, <1>14, TypesAreNext DEF IInv

-----------------------------------------------------------------------------
(* The target branch: a merge puts a commit where its base ends.           *)
LEMMA TargetInv ==
    ASSUME IInv, Drift \/ \E k \in DOMAIN starts : Merge(k)
    PROVE  IInv'
<1>1. PICK x \in 0..Len(starts) :
          /\ target' = Append(target, x)
          /\ x # Foreign => x \in pushed /\ starts[x].base = target
  <2>1. CASE Drift
    <3>1. Foreign \in 0..Len(starts)
      <4>1. Len(starts) \in Nat
        BY DEF IInv, TypeOK
      <4> QED BY <4>1 DEF Foreign
    <3> QED BY <2>1, <3>1 DEF Drift
  <2>2. ASSUME NEW k \in DOMAIN starts, Merge(k)
        PROVE  /\ k \in 0..Len(starts) /\ target' = Append(target, k)
               /\ k \in pushed /\ starts[k].base = target
    <3>1. k \in 0..Len(starts)
      BY DEF IInv, TypeOK
    <3> QED BY <2>2, <3>1 DEF Merge
  <2> QED BY <2>1, <2>2
<1>2. /\ UNCHANGED <<branches, pushed, leaked, starts, intents, sessionVars, dispatcherVars>>
      /\ faults' \in {faults, faults + 1} /\ (faults' # faults => faults < MaxFaults)
  BY DEF Drift, Merge, Fault
<1>3. StoreOK /\ ControlOK /\ target \in Seq(0..Len(starts)) /\ Len(target) \in Nat
  <2>1. StoreOK /\ ControlOK
    BY TypesAre DEF IInv
  <2> QED BY <2>1 DEF StoreOK
<1>4. /\ target' \in Seq(0..Len(starts)) /\ Len(target') = Len(target) + 1
      /\ \A n \in 1..Len(target) : target'[n] = target[n]
      /\ target'[Len(target) + 1] = x
  BY <1>1, <1>3, AppendProperties
<1>5. StoreOK' /\ ControlOK'
  <2>1. faults' \in 0..MaxFaults
    BY <1>2, <1>3, DispatchFaultsAssumption DEF StoreOK
  <2> QED BY <1>2, <1>3, <1>4, <2>1 DEF StoreOK, ControlOK, sessionVars, dispatcherVars, Dispatch
<1>6. Places'
  BY <1>2 DEF IInv, Places, Place, dispatcherVars, Dispatch
<1>7. /\ SubSeq(target', 1, Len(target)) = target
      /\ \A n \in 1..Len(target) : SubSeq(target', 1, n - 1) = SubSeq(target, 1, n - 1)
  BY <1>1, <1>3, Prefixes
<1>8. ASSUME NEW n \in DOMAIN target', target'[n] # Foreign
      PROVE  /\ target'[n] \in pushed
             /\ starts[target'[n]].base = SubSeq(target', 1, n - 1)
  <2>1. n \in 1..(Len(target) + 1)
    BY <1>4
  <2>2. CASE n \in 1..Len(target)
    BY <1>3, <1>4, <1>7, <1>8, <2>2 DEF IInv, Commits
  <2>3. CASE n = Len(target) + 1
    <3>1. n - 1 = Len(target)
      BY <1>3, <2>3
    <3> QED BY <1>1, <1>4, <1>7, <1>8, <2>3, <3>1
  <2> QED BY <1>3, <2>1, <2>2, <2>3
<1>9. Commits'
  <2>1. Commits /\ UNCHANGED <<starts, pushed, intents>>
    BY <1>2 DEF IInv
  <2> QED BY <1>8, <2>1 DEF Commits
<1>10. LineageOfDeliveries' /\ Certain' /\ CompletedIsQuiet'
  BY <1>2 DEF IInv, LineageOfDeliveries, Certain, CompletedIsQuiet, Uncertain, Landed, sessionVars,
              dispatcherVars
<1> QED BY <1>5, <1>6, <1>9, <1>10, TypesAreNext DEF IInv

-----------------------------------------------------------------------------
(* The session follows its deliveries.                                     *)

(* The delivery that proves the head is a pushed one of the present base.  *)
LEMMA ProvenCommit ==
    ASSUME IInv, Exact
    PROVE  \E i \in intents :
              /\ target = Append(session.base, i) /\ i \in Dispatch
              /\ i \in pushed /\ starts[i].base = session.base
<1>1. PICK i \in PendingIntents : target = Append(session.base, i)
  <2>1. PendingIntents # {}
    BY FS_EmptySet DEF Exact
  <2> QED BY <2>1 DEF Exact
<1>2. i \in intents /\ i \in Dispatch /\ starts[i].base = session.base
  BY DEF PendingIntents, IInv, TypeOK
<1>3. session.base \in Seq(0..Len(starts)) /\ i \in 0..Len(starts)
  BY <1>2 DEF IInv, TypeOK, Dispatch
<1>4. target[Len(session.base) + 1] = i /\ Len(session.base) + 1 \in DOMAIN target
  BY <1>1, <1>3
<1>5. i # Foreign
  BY <1>2 DEF Foreign, Dispatch
<1>6. i \in pushed
  BY <1>4, <1>5 DEF IInv, Commits
<1> QED BY <1>1, <1>2, <1>6

LEMMA ReconcileInv ==
    ASSUME IInv, Reconcile
    PROVE  IInv'
<1>1. /\ Exact /\ session' = [session EXCEPT !.base = target, !.status = "READY"]
      /\ UNCHANGED <<gitVars, starts, intents, grant, sessionLock, dispatcherVars, faults>>
  BY DEF Reconcile
<1>2. PICK i \in intents : /\ target = Append(session.base, i) /\ i \in Dispatch
                           /\ i \in pushed /\ starts[i].base = session.base
  BY <1>1, ProvenCommit
<1>3. /\ StoreOK /\ ControlOK /\ target \in Seq(0..Len(starts))
      /\ session.base \in Seq(0..Len(starts)) /\ Len(session.base) \in Nat
      /\ i \in 0..Len(starts)
  <2>1. StoreOK /\ ControlOK
    BY TypesAre DEF IInv
  <2> QED BY <1>2, <2>1 DEF StoreOK, Dispatch
<1>4. session'.base = target /\ session'.status = "READY" /\ session'.human = session.human
  BY <1>1, <1>3 DEF StoreOK
<1>5. StoreOK' /\ ControlOK'
  <2>1. session' \in [base : Seq(0..Len(starts)), status : {"READY", "STALE", "COMPLETED"},
                      human : BOOLEAN]
    <3>1. session \in [base : Seq(0..Len(starts)), status : {"READY", "STALE", "COMPLETED"},
                       human : BOOLEAN]
      BY <1>3 DEF StoreOK
    <3> QED BY <1>1, <1>3, <3>1
  <2> QED BY <1>1, <1>3, <2>1 DEF StoreOK, ControlOK, gitVars, dispatcherVars, Dispatch
<1>6. Places' /\ Commits'
  BY <1>1 DEF IInv, Places, Place, Commits, gitVars, dispatcherVars, Dispatch
<1>7. /\ Len(target) = Len(session.base) + 1
      /\ \A n \in 1..Len(session.base) : target[n] = session.base[n]
      /\ target[Len(session.base) + 1] = i
      /\ DOMAIN session.base = 1..Len(session.base)
      /\ DOMAIN target = 1..(Len(session.base) + 1)
  BY <1>2, <1>3
<1>8. /\ SubSeq(target, 1, Len(session.base)) = session.base
      /\ \A n \in 1..Len(session.base) :
            SubSeq(target, 1, n - 1) = SubSeq(session.base, 1, n - 1)
  BY <1>2, <1>3, Prefixes
<1>9. ASSUME NEW n \in DOMAIN target
      PROVE  /\ target[n] \in pushed
             /\ starts[target[n]].base = SubSeq(target, 1, n - 1)
             /\ \A m \in 1..(n - 1) : starts[target[m]].task # starts[target[n]].task
  <2>1. CASE n \in 1..Len(session.base)
    <3>1. \A m \in 1..(n - 1) : m \in 1..Len(session.base)
      BY <1>3, <2>1
    <3>2. /\ session.base[n] \in pushed
          /\ starts[session.base[n]].base = SubSeq(session.base, 1, n - 1)
          /\ \A m \in 1..(n - 1) : starts[session.base[m]].task # starts[session.base[n]].task
      BY <1>7, <2>1 DEF IInv, LineageOfDeliveries
    <3> QED BY <1>7, <1>8, <2>1, <3>1, <3>2
  <2>2. CASE n = Len(session.base) + 1
    <3>1. n - 1 = Len(session.base)
      BY <1>3, <2>2
    <3>2. ASSUME NEW m \in 1..(n - 1) PROVE starts[target[m]].task # starts[target[n]].task
      <4>1. m \in DOMAIN session.base /\ target[m] = session.base[m]
        BY <1>7, <3>1
      <4>2. session.base[m] \in intents /\ session.base[m] # i
        BY <1>2, <4>1, BaseCommits
      <4> QED BY <1>7, <2>2, <4>1, <4>2 DEF IInv, Commits
    <3> QED BY <1>2, <1>7, <1>8, <2>2, <3>1, <3>2
  <2>3. n \in 1..Len(session.base) \/ n = Len(session.base) + 1
    <3>1. Len(session.base) \in Nat
      BY <1>3
    <3>2. n \in 1..(Len(session.base) + 1)
      BY <1>7
    <3> QED BY <3>1, <3>2
  <2> QED BY <2>1, <2>2, <2>3
<1>10. LineageOfDeliveries'
  BY <1>1, <1>4, <1>9 DEF LineageOfDeliveries, gitVars
<1>11. Uncertain' \subseteq Uncertain
  <2>1. ASSUME NEW k, Landed(k) PROVE Landed(k)'
    <3>1. PICK n \in DOMAIN session.base : /\ starts[session.base[n]].task = starts[k].task
                                           /\ starts[session.base[n]].base = starts[k].base
      BY <2>1 DEF Landed
    <3>2. n \in DOMAIN target /\ target[n] = session.base[n]
      BY <1>3, <1>7
    <3> QED BY <1>1, <1>4, <3>1, <3>2 DEF Landed
  <2> QED BY <1>1, <2>1 DEF Uncertain
<1>12. Certain' /\ CompletedIsQuiet'
  BY <1>1, <1>4, <1>11 DEF IInv, Certain, CompletedIsQuiet
<1> QED BY <1>5, <1>6, <1>10, <1>12, TypesAreNext DEF IInv

LEMMA StatusInv ==
    ASSUME IInv, MarkStale \/ Complete
    PROVE  IInv'
<1>1. /\ UNCHANGED <<gitVars, starts, intents, grant, sessionLock, dispatcherVars>>
      /\ faults' \in {faults, faults + 1} /\ (faults' # faults => faults < MaxFaults)
  BY DEF MarkStale, Complete, Fault
<1>2. StoreOK /\ ControlOK
  BY TypesAre DEF IInv
<1>3. /\ session' \in [base : Seq(0..Len(starts)), status : {"READY", "STALE", "COMPLETED"},
                       human : BOOLEAN]
      /\ session'.base = session.base
      /\ session'.status = IF MarkStale THEN "STALE" ELSE "COMPLETED"
  <2>1. session \in [base : Seq(0..Len(starts)), status : {"READY", "STALE", "COMPLETED"},
                     human : BOOLEAN]
    BY <1>2 DEF StoreOK
  <2>2. CASE MarkStale
    <3>1. session' = [session EXCEPT !.status = "STALE", !.human = TRUE]
      BY <2>2 DEF MarkStale
    <3> QED BY <2>1, <2>2, <3>1
  <2>3. CASE Complete /\ ~MarkStale
    <3>1. session' = [session EXCEPT !.status = "COMPLETED"]
      BY <2>3 DEF Complete
    <3> QED BY <2>1, <2>3, <3>1
  <2> QED BY <2>2, <2>3
<1>4. StoreOK' /\ ControlOK'
  <2>1. faults' \in 0..MaxFaults
    BY <1>1, <1>2, DispatchFaultsAssumption DEF StoreOK
  <2> QED BY <1>1, <1>2, <1>3, <2>1 DEF StoreOK, ControlOK, gitVars, dispatcherVars, Dispatch
<1>5. Places' /\ Commits'
  BY <1>1 DEF IInv, Places, Place, Commits, gitVars, dispatcherVars, Dispatch
<1>6. LineageOfDeliveries' /\ Uncertain' = Uncertain
  BY <1>1, <1>3 DEF IInv, LineageOfDeliveries, Uncertain, Landed, gitVars
<1>7. CASE MarkStale
  <2>1. Certain' /\ CompletedIsQuiet'
    BY <1>1, <1>3, <1>6, <1>7 DEF IInv, Certain, CompletedIsQuiet
  <2> QED BY <1>4, <1>5, <1>6, <2>1, TypesAreNext DEF IInv
<1>8. CASE Complete
  <2>1. Reconciled(TRUE) /\ \A t \in Tasks : IntegratedTask(t)
    BY <1>8 DEF Complete
  <2>2. /\ Uncertain = {}
        /\ \A k \in Dispatch : starts[k].result # "failed" => Integrated(k) /\ Landed(k)
    BY <2>1, ReconciledIsCertain
  <2>3. starts # <<>> \/ Tasks = {}
    <3>1. ASSUME NEW t \in Tasks PROVE starts # <<>>
      <4>1. PICK n \in DOMAIN session.base : TRUE
        BY <2>1 DEF IntegratedTask
      <4>2. session.base[n] \in 1..Len(starts)
        BY BaseCommits DEF Dispatch
      <4> QED BY <4>2, EmptySeq
    <3> QED BY <3>1
  <2>4. ASSUME NEW d \in Dispatchers, pc[d] \in Working PROVE FALSE
    <3>1. Place(d) /\ cur[d] \in Dispatch /\ starts[cur[d]].result = "none"
      BY <2>4 DEF IInv, Places, Place, Working
    <3>2. Integrated(cur[d]) /\ Landed(cur[d])
      BY <2>2, <3>1
    <3>3. CASE pc[d] = "push"
      <4>1. cur[d] \in intents /\ cur[d] \notin pushed
        BY <3>1, <3>3 DEF Place
      <4>2. PICK n \in DOMAIN session.base : starts[session.base[n]].base = starts[cur[d]].base
        BY <3>2 DEF Landed
      <4>3. session.base[n] \in intents /\ session.base[n] \in pushed
        BY BaseCommits DEF IInv, LineageOfDeliveries
      <4> QED BY <4>1, <4>2, <4>3 DEF IInv, Commits
    <3>4. CASE pc[d] # "push"
      <4>1. PICK i \in intents : starts[i].base = starts[cur[d]].base
        BY <3>2 DEF Integrated
      <4> QED BY <2>4, <3>1, <3>4, <4>1 DEF Place, Working
    <3> QED BY <3>3, <3>4
  <2>5. Certain' /\ CompletedIsQuiet'
    BY <1>1, <1>6, <2>2, <2>3, <2>4 DEF IInv, Certain, CompletedIsQuiet, Working, dispatcherVars
  <2> QED BY <1>4, <1>5, <1>6, <2>5, TypesAreNext DEF IInv
<1> QED BY <1>7, <1>8

-----------------------------------------------------------------------------
LEMMA StepInv == IInv /\ [Next]_vars => IInv'
<1> SUFFICES ASSUME IInv, [Next]_vars PROVE IInv'
  OBVIOUS
<1>1. ASSUME NEW d \in Dispatchers, DispatcherStep(d) PROVE IInv'
  BY <1>1, StartInv, LeaveInv, WorkInv, PutIntentInv, PushInv, FinishInv DEF DispatcherStep
<1>2. ASSUME NEW d \in Dispatchers, Crash(d) \/ \E t \in Tasks : Call(d, t) PROVE IInv'
  BY <1>2, LeaveInv, CallInv
<1>3. CASE Drift \/ \E k \in DOMAIN starts : Merge(k)
  BY <1>3, TargetInv
<1>4. CASE SessionStep \/ GrantInterrupted \/ Hold
  BY <1>4, ReconcileInv, StatusInv, SessionQuietInv DEF SessionStep
<1>5. CASE UNCHANGED vars
  <2>1. TypeOK' /\ Places' /\ LineageOfDeliveries'
    BY <1>5 DEF vars, IInv, TypeOK, Places, Place, LineageOfDeliveries, Dispatch
  <2>2. Commits' /\ Certain' /\ CompletedIsQuiet'
    BY <1>5 DEF vars, IInv, Commits, Certain, CompletedIsQuiet, Uncertain, Landed, Dispatch
  <2> QED BY <2>1, <2>2 DEF IInv
<1> QED BY <1>1, <1>2, <1>3, <1>4, <1>5 DEF Next

(* The inductive invariant holds in every behaviour, whichever process of  *)
(* deliver and of the session commands runs, waits or dies.                *)
THEOREM DispatchInvariance == Spec => []IInv
  BY InitInv, StepInv, PTL DEF Spec

(* Every variable keeps its type, whoever dies where: among them the       *)
(* attempts of a dispatch stay within the budget it was started with.      *)
THEOREM DispatchTypes == Spec => []TypeOK
<1>1. IInv => TypeOK
  BY DEF IInv
<1> QED BY <1>1, DispatchInvariance, PTL

(* The session's base consists of approved commits, each made on the one   *)
(* before it, for a task of its own (_reconcile_verified_delivery).        *)
THEOREM LineageHolds == Spec => []LineageOfDeliveries
<1>1. IInv => LineageOfDeliveries
  BY DEF IInv
<1> QED BY <1>1, DispatchInvariance, PTL

(* A second dispatch is never started while the effects of one are unknown *)
(* (require_reconciled_execution).                                         *)
THEOREM OneIsUncertain == Spec => []OneUncertainDispatch
<1>1. IInv => OneUncertainDispatch
  <2> SUFFICES ASSUME IInv PROVE Cardinality(Uncertain) <= 1
    BY DEF OneUncertainDispatch
  <2>1. CASE Uncertain = {}
    BY <2>1, FS_EmptySet
  <2>2. ASSUME NEW k \in Uncertain PROVE Cardinality(Uncertain) = 1
    <3>1. Uncertain = {k}
      BY DEF IInv, Certain
    <3> QED BY <3>1, FS_Singleton
  <2> QED BY <2>1, <2>2
<1> QED BY <1>1, DispatchInvariance, PTL

(* A merged delivery is the only one pending at its base, so the durable   *)
(* intents alone prove it, even if the process that pushed it died.        *)
THEOREM MergeRecognised == Spec => []MergeIsRecognised
<1>1. IInv => MergeIsRecognised
  <2> SUFFICES ASSUME IInv, NEW k \in pushed, target = Append(session.base, k)
               PROVE  Exact
    BY DEF MergeIsRecognised
  <2>1. k \in intents /\ k \in Dispatch /\ session.base \in Seq(0..Len(starts))
        /\ k \in 0..Len(starts)
    BY DEF IInv, Commits, TypeOK, Dispatch
  <2>2. /\ Len(session.base) + 1 \in DOMAIN target /\ target[Len(session.base) + 1] = k
        /\ Len(session.base) + 1 - 1 = Len(session.base)
    BY <2>1
  <2>3. k # Foreign
    BY <2>1 DEF Foreign, Dispatch
  <2>4. starts[k].base = SubSeq(target, 1, Len(session.base) + 1 - 1)
    BY <2>2, <2>3 DEF IInv, Commits
  <2>5. starts[k].base = session.base
    BY <2>1, <2>2, <2>4, Prefixes
  <2>6. PendingIntents = {k}
    BY <2>1, <2>5 DEF PendingIntents, IInv, Commits
  <2> QED BY <2>6, FS_Singleton DEF Exact
<1> QED BY <1>1, DispatchInvariance, PTL

(* A completed session has no dispatch that is not accounted for and none  *)
(* under way (complete, after require_reconciled_execution).               *)
THEOREM CompletedQuiet == Spec => []CompletedIsQuiet
<1>1. IInv => CompletedIsQuiet
  BY DEF IInv
<1> QED BY <1>1, DispatchInvariance, PTL

-----------------------------------------------------------------------------
(* The budget of the provider.                                             *)

(* The dispatches whose work has not landed, and what the owner's grant    *)
(* adds to the limit.                                                      *)
Unlanded == {k \in Dispatch : ~Landed(k)}
Granted == IF grant.state = "bound" THEN 1 ELSE 0

(* Only a first attempt fails in a way that can be accounted for.          *)
FailedAtFirst ==
    /\ \A k \in Dispatch : starts[k].result = "failed" => starts[k].attempts <= 1
    /\ \A d \in Dispatchers :
          pc[d] = "finish" /\ report[d] = "failed" => starts[cur[d]].attempts <= 1

(* There is a call for every dispatch that has not landed, and what an     *)
(* uncertain one may still spend is left beside the others.                *)
Afforded ==
    /\ Cardinality(Unlanded) <= Limit + Granted
    /\ \A k \in Uncertain :
          /\ starts[k].attempts <= starts[k].allowed
          /\ starts[k].allowed + Cardinality(Unlanded \ {k}) <= Limit + Granted

BudgetInv == FailedAtFirst /\ Afforded

LEMMA Finite ==
    ASSUME TypeOK
    PROVE  /\ IsFiniteSet(Dispatch) /\ Cardinality(Dispatch) = Len(starts)
           /\ \A S : S \subseteq Dispatch =>
                 /\ IsFiniteSet(S) /\ Cardinality(S) \in Nat
                 /\ Cardinality(S) <= Len(starts)
           /\ \A S, T : S \subseteq T /\ T \subseteq Dispatch =>
                 Cardinality(S) <= Cardinality(T)
<1>1. Len(starts) \in Nat
  BY DEF TypeOK
<1>2. IsFiniteSet(Dispatch) /\ Cardinality(Dispatch) = Len(starts)
  <2>1. /\ IsFiniteSet(1..Len(starts))
        /\ Cardinality(1..Len(starts)) =
              IF 1 > Len(starts) THEN 0 ELSE Len(starts) - 1 + 1
    BY <1>1, FS_Interval
  <2> QED BY <1>1, <2>1 DEF Dispatch
<1>3. ASSUME NEW S, S \subseteq Dispatch
      PROVE  /\ IsFiniteSet(S) /\ Cardinality(S) \in Nat
             /\ Cardinality(S) <= Len(starts)
  <2>1. IsFiniteSet(S) /\ Cardinality(S) <= Cardinality(Dispatch)
    BY <1>2, <1>3, FS_Subset
  <2> QED BY <1>2, <2>1, FS_CardinalityType
<1>4. ASSUME NEW S, NEW T, S \subseteq T, T \subseteq Dispatch
      PROVE  Cardinality(S) <= Cardinality(T)
  <2>1. IsFiniteSet(T)
    BY <1>3, <1>4
  <2> QED BY <1>4, <2>1, FS_Subset
<1> QED BY <1>2, <1>3, <1>4

(* What a step may change without touching the budget: an attempt within   *)
(* what is allowed, a result of a dispatch that had none, a lineage that   *)
(* grows.                                                                  *)
LEMMA AffordedStays ==
    ASSUME IInv, TypeOK', Afforded,
           Len(starts') = Len(starts),
           \A k \in Dispatch :
               /\ starts'[k].allowed = starts[k].allowed
               /\ starts'[k].result # "failed" => starts[k].result # "failed"
               /\ \/ starts'[k].attempts <= starts'[k].allowed
                  \/ starts'[k].attempts = starts[k].attempts
               /\ Landed(k) => Landed(k)',
           grant.state = "bound" => grant'.state = "bound"
    PROVE  Afforded'
<1>1. Dispatch' = Dispatch /\ DOMAIN starts = Dispatch /\ DOMAIN starts' = Dispatch
  BY DEF IInv, TypeOK, Dispatch
<1>2. Unlanded' \subseteq Unlanded /\ Unlanded \subseteq Dispatch
  BY <1>1 DEF Unlanded
<1>3. Uncertain' \subseteq Uncertain /\ Uncertain \subseteq Dispatch
  BY <1>1 DEF Uncertain
<1>4. /\ Granted \in Nat /\ Granted' \in Nat /\ Granted <= Granted' /\ Limit \in Nat
      /\ (Limit + Granted)' = Limit + Granted'
  BY LimitAssumption DEF Granted
<1>5. Cardinality(Unlanded') <= Limit + Granted'
  <2>1. /\ Cardinality(Unlanded') <= Cardinality(Unlanded)
        /\ Cardinality(Unlanded') \in Nat /\ Cardinality(Unlanded) \in Nat
    BY <1>2, Finite DEF IInv
  <2> QED BY <1>4, <2>1 DEF Afforded
<1>6. ASSUME NEW k \in Uncertain'
      PROVE  /\ starts'[k].attempts <= starts'[k].allowed
             /\ starts'[k].allowed + Cardinality(Unlanded' \ {k}) <= Limit + Granted'
  <2>1. k \in Uncertain /\ k \in Dispatch
    BY <1>3
  <2>2. /\ Cardinality(Unlanded' \ {k}) <= Cardinality(Unlanded \ {k})
        /\ Cardinality(Unlanded' \ {k}) \in Nat /\ Cardinality(Unlanded \ {k}) \in Nat
    <3>1. Unlanded' \ {k} \subseteq Unlanded \ {k} /\ Unlanded \ {k} \subseteq Dispatch
      BY <1>2
    <3>2. Unlanded' \ {k} \subseteq Dispatch
      BY <3>1
    <3> QED BY <3>1, <3>2, Finite DEF IInv
  <2>3. /\ starts[k].attempts <= starts[k].allowed
        /\ starts[k].allowed + Cardinality(Unlanded \ {k}) <= Limit + Granted
    BY <2>1 DEF Afforded
  <2>4. starts[k].allowed \in Nat
    <3>1. starts[k] \in StartRecord
      BY <2>1, ElementOfSeq DEF IInv, TypeOK, Dispatch
    <3> QED BY <3>1, LimitAssumption DEF StartRecord
  <2>5. starts'[k].allowed = starts[k].allowed
    BY <2>1
  <2>6. starts'[k].attempts <= starts'[k].allowed
    BY <2>1, <2>3, <2>5
  <2> QED BY <1>4, <2>2, <2>3, <2>4, <2>5, <2>6
<1> QED BY <1>5, <1>6 DEF Afforded

(* The journal is what it was, but for the attempts and the result of      *)
(* dispatches: what has landed stays landed.                               *)
LEMMA LandedStays ==
    ASSUME IInv, NEW k \in Dispatch, Landed(k),
           \/ session'.base = session.base
           \/ Reconcile,
           \A j \in Dispatch : /\ starts'[j].task = starts[j].task
                               /\ starts'[j].base = starts[j].base
    PROVE  Landed(k)'
<1>1. PICK n \in DOMAIN session.base : /\ starts[session.base[n]].task = starts[k].task
                                       /\ starts[session.base[n]].base = starts[k].base
  BY DEF Landed
<1>2. session.base[n] \in Dispatch
  BY BaseCommits
<1>3. n \in DOMAIN session'.base /\ session'.base[n] = session.base[n]
  <2>1. CASE session'.base = session.base
    BY <2>1
  <2>2. CASE Reconcile
    <3>1. /\ Exact /\ session' = [session EXCEPT !.base = target, !.status = "READY"]
      BY <2>2 DEF Reconcile
    <3>2. PICK i \in intents : target = Append(session.base, i) /\ i \in Dispatch
      BY <3>1, ProvenCommit
    <3>3. session'.base = target /\ session.base \in Seq(0..Len(starts))
      BY <3>1 DEF IInv, TypeOK
    <3> QED BY <3>2, <3>3
  <2> QED BY <2>1, <2>2
<1> QED BY <1>1, <1>2, <1>3 DEF Landed

(* The journal untouched, the lineage as it was or one delivery longer.    *)
LEMMA AffordedUntouched ==
    ASSUME IInv, TypeOK', Afforded, starts' = starts,
           session'.base = session.base \/ Reconcile,
           grant.state = "bound" => grant'.state = "bound"
    PROVE  Afforded'
<1>1. \A k \in Dispatch : Landed(k) => Landed(k)'
  BY LandedStays
<1> QED BY <1>1, AffordedStays

(* An attempt.                                                             *)
LEMMA AttemptBudget ==
    ASSUME IInv, IInv', BudgetInv, NEW d \in Dispatchers,
           AttemptCompletes(d) \/ AttemptFails(d)
    PROVE  BudgetInv'
<1> DEFINE k == cur[d]
<1>1. /\ pc[d] = "attempt" /\ MayAttempt(d) /\ starts' = Charged(d)
      /\ cur' = cur /\ UNCHANGED <<session, grant>>
  BY DEF AttemptCompletes, AttemptFails, MayAttempt, Reports, sessionVars
<1>2. /\ k \in Dispatch /\ starts[k].result = "none"
      /\ starts[k].attempts < starts[k].allowed
  BY <1>1 DEF IInv, Places, Place
<1>3. starts \in Seq(StartRecord) /\ starts[k] \in StartRecord
  <2>1. starts \in Seq(StartRecord)
    BY DEF IInv, TypeOK
  <2> QED BY <1>2, <2>1, ElementOfSeq DEF Dispatch
<1>4. /\ Len(starts') = Len(starts)
      /\ \A i \in Dispatch :
            /\ starts'[i].task = starts[i].task /\ starts'[i].base = starts[i].base
            /\ starts'[i].result = starts[i].result /\ starts'[i].allowed = starts[i].allowed
            /\ i # k => starts'[i].attempts = starts[i].attempts
      /\ starts'[k].attempts = starts[k].attempts + 1
  <2>1. starts' = [starts EXCEPT ![k] = [starts[k] EXCEPT !.attempts = @ + 1]]
    BY <1>1 DEF Charged
  <2>2. Dispatch = DOMAIN starts /\ Len(starts') = Len(starts)
    BY <1>3, <2>1 DEF Dispatch
  <2>3. \A i \in Dispatch : starts'[i] = IF i = k THEN [starts[k] EXCEPT !.attempts = @ + 1]
                                                  ELSE starts[i]
    BY <2>1, <2>2
  <2>4. ASSUME NEW r PROVE r = [starts[k] EXCEPT !.attempts = @ + 1] =>
             /\ r.task = starts[k].task /\ r.base = starts[k].base
             /\ r.result = starts[k].result /\ r.allowed = starts[k].allowed
             /\ r.attempts = starts[k].attempts + 1
    BY <1>3 DEF StartRecord
  <2> HIDE DEF k
  <2> QED BY <1>2, <2>2, <2>3, <2>4
<1>5. starts'[k].attempts <= starts'[k].allowed
  <2>1. starts[k].attempts \in 0..Limit /\ starts[k].allowed \in 1..Limit
    BY <1>3 DEF StartRecord
  <2>2. starts[k].attempts \in Nat /\ starts[k].allowed \in Nat
    BY <2>1, LimitAssumption
  <2> QED BY <1>2, <1>4, <2>2
<1>6. Afforded'
  <2>1. \A i \in Dispatch : Landed(i) => Landed(i)'
    BY <1>1, <1>4, LandedStays
  <2>2. TypeOK'
    BY DEF IInv
  <2> QED BY <1>1, <1>4, <1>5, <2>1, <2>2, AffordedStays DEF BudgetInv
<1>7. FailedAtFirst'
  <2>1. ASSUME NEW i \in Dispatch', starts'[i].result = "failed"
        PROVE  starts'[i].attempts <= 1
    <3>1. i \in Dispatch /\ starts[i].result = "failed" /\ i # k
      BY <1>2, <1>4, <2>1 DEF Dispatch
    <3> QED BY <1>4, <3>1 DEF BudgetInv, FailedAtFirst
  <2>2. ASSUME NEW e \in Dispatchers, pc'[e] = "finish", report'[e] = "failed"
        PROVE  starts'[cur'[e]].attempts <= 1
    <3>1. e = d
      <4>1. \A f \in Dispatchers : f # d => pc[f] = "idle"
        BY <1>1, Alone
      <4>2. \A f \in Dispatchers : f # d => pc'[f] = pc[f]
        BY DEF AttemptCompletes, AttemptFails, Goto, Reports, IInv, TypeOK
      <4> QED BY <2>2, <4>1, <4>2
    <3>2. starts[k].attempts = 0
      BY <2>2, <3>1 DEF AttemptCompletes, AttemptFails, Goto, Reports, IInv, TypeOK
    <3> QED BY <1>1, <1>4, <3>1, <3>2
  <2> QED BY <2>1, <2>2 DEF FailedAtFirst
<1> QED BY <1>6, <1>7 DEF BudgetInv

(* Steps that leave the journal as it is: nobody reports a clean failure   *)
(* there.                                                                  *)
LEMMA JournalBudget ==
    ASSUME IInv, IInv', BudgetInv, starts' = starts,
           session'.base = session.base \/ Reconcile,
           grant.state = "bound" => grant'.state = "bound",
           \A d \in Dispatchers :
               pc'[d] = "finish" /\ report'[d] = "failed" =>
                   pc[d] = "finish" /\ report[d] = "failed" /\ cur'[d] = cur[d]
    PROVE  BudgetInv'
<1>1. Afforded'
  BY AffordedUntouched DEF IInv, BudgetInv
<1>2. FailedAtFirst'
  BY DEF BudgetInv, FailedAtFirst, Dispatch
<1> QED BY <1>1, <1>2 DEF BudgetInv

(* The result: a failure without a commit is one of the first attempt.     *)
LEMMA FinishBudget ==
    ASSUME IInv, IInv', BudgetInv, NEW d \in Dispatchers, Finish(d)
    PROVE  BudgetInv'
<1> DEFINE k == cur[d]
<1>1. /\ pc[d] = "finish" /\ Leave(d)
      /\ starts' = [starts EXCEPT ![k] = [starts[k] EXCEPT !.result = report[d]]]
      /\ UNCHANGED <<session, grant>>
  BY DEF Finish, sessionVars
<1>2. /\ k \in Dispatch /\ starts[k].result = "none"
      /\ starts \in Seq(StartRecord)
  BY <1>1 DEF IInv, TypeOK, Places, Place
<1>3. starts[k] \in StartRecord
  BY <1>2, ElementOfSeq DEF Dispatch
<1>4. /\ Len(starts') = Len(starts)
      /\ \A i \in Dispatch :
            /\ starts'[i].task = starts[i].task /\ starts'[i].base = starts[i].base
            /\ starts'[i].allowed = starts[i].allowed
            /\ starts'[i].attempts = starts[i].attempts
            /\ i # k => starts'[i].result = starts[i].result
      /\ starts'[k].result = report[d]
  <2>1. Dispatch = DOMAIN starts /\ Len(starts') = Len(starts)
    BY <1>1, <1>2 DEF Dispatch
  <2>2. \A i \in Dispatch : starts'[i] = IF i = k THEN [starts[k] EXCEPT !.result = report[d]]
                                                  ELSE starts[i]
    BY <1>1, <2>1
  <2>3. ASSUME NEW r PROVE r = [starts[k] EXCEPT !.result = report[d]] =>
             /\ r.task = starts[k].task /\ r.base = starts[k].base
             /\ r.attempts = starts[k].attempts /\ r.allowed = starts[k].allowed
             /\ r.result = report[d]
    BY <1>3 DEF StartRecord
  <2> HIDE DEF k
  <2> QED BY <1>2, <2>1, <2>2, <2>3
<1>5. Afforded'
  <2>1. \A i \in Dispatch : Landed(i) => Landed(i)'
    BY <1>1, <1>4, LandedStays
  <2>2. \A i \in Dispatch : starts'[i].result # "failed" => starts[i].result # "failed"
    BY <1>2, <1>4
  <2>3. TypeOK'
    BY DEF IInv
  <2> QED BY <1>1, <1>4, <2>1, <2>2, <2>3, AffordedStays DEF BudgetInv
<1>6. FailedAtFirst'
  <2>1. ASSUME NEW i \in Dispatch', starts'[i].result = "failed"
        PROVE  starts'[i].attempts <= 1
    <3>1. i \in Dispatch
      BY <1>4 DEF Dispatch
    <3>2. CASE i = k
      <4>1. starts[k].attempts <= 1
        BY <1>1, <1>4, <2>1, <3>2 DEF BudgetInv, FailedAtFirst
      <4> QED BY <1>4, <3>1, <3>2, <4>1
    <3>3. CASE i # k
      BY <1>4, <2>1, <3>1, <3>3 DEF BudgetInv, FailedAtFirst
    <3> QED BY <3>2, <3>3
  <2>2. \A e \in Dispatchers : pc'[e] = "idle"
    BY <1>1, Alone DEF Leave, Goto, IInv, TypeOK
  <2> QED BY <2>1, <2>2 DEF FailedAtFirst
<1> QED BY <1>5, <1>6 DEF BudgetInv

(* What remains is what the dispatches that have not landed leave of the   *)
(* limit, one call for each (remaining_delivery_attempts).                 *)
LEMMA RemainingIsLeft ==
    ASSUME IInv, BudgetInv, Reconciled(FALSE), Remaining > 0
    PROVE  Remaining + Cardinality(Unlanded) <= Limit + Granted
<1>1. /\ Len(starts) \in Nat /\ Limit \in Nat /\ DOMAIN starts = Dispatch
      /\ Unlanded \subseteq Dispatch
  BY LimitAssumption DEF IInv, TypeOK, Dispatch, Unlanded
<1>2. Cardinality(Unlanded) \in Nat /\ Cardinality(Unlanded) <= Len(starts)
  BY <1>1, Finite DEF IInv
<1>3. CASE grant.state = "none"
  <2>1. Unlanded \subseteq FailedInvocations /\ FailedInvocations \subseteq Dispatch
    BY <1>1, IntegratedHasLanded DEF Unlanded, FailedInvocations
  <2>2. /\ Cardinality(Unlanded) <= Cardinality(FailedInvocations)
        /\ Cardinality(FailedInvocations) \in Nat
    BY <2>1, Finite DEF IInv
  <2>3. Remaining = Limit - Cardinality(FailedInvocations) /\ Granted = 0
    BY <1>3 DEF Remaining, Granted
  <2> QED BY <1>1, <1>2, <2>2, <2>3
<1>4. CASE grant.state = "bound" /\ grant.base = session.base
  <2>1. Remaining = Limit + 1 - Len(starts) /\ Granted = 1
    BY <1>4 DEF Remaining, Granted
  <2> QED BY <1>1, <1>2, <2>1
<1>5. CASE grant.state # "none" /\ ~(grant.state = "bound" /\ grant.base = session.base)
  <2>1. Remaining = 0
    BY <1>5 DEF Remaining
  <2> QED BY <2>1
<1> QED BY <1>3, <1>4, <1>5

(* A dispatch is started with no more calls than are left.                 *)
LEMMA StartBudget ==
    ASSUME IInv, IInv', BudgetInv, NEW d \in Dispatchers, Start(d)
    PROVE  BudgetInv'
<1> DEFINE n == Len(starts) + 1
<1>1. /\ pc[d] = "start" /\ Reconciled(FALSE) /\ Remaining > 0
      /\ starts' = Append(starts, [task |-> task[d], base |-> session.base,
                                   leaked |-> leaked, allowed |-> Remaining,
                                   attempts |-> 0, result |-> "none"])
      /\ pc' = [pc EXCEPT ![d] = "attempt"]
      /\ UNCHANGED <<session, grant, report>>
  BY DEF Start, Goto, sessionVars
<1>2. starts \in Seq(StartRecord) /\ Len(starts) \in Nat
  BY DEF IInv, TypeOK
<1>3. /\ \A k \in Dispatch : starts'[k] = starts[k]
      /\ starts'[n].allowed = Remaining /\ starts'[n].attempts = 0
      /\ starts'[n].result = "none"
      /\ Dispatch' = Dispatch \cup {n} /\ n \notin Dispatch
      /\ DOMAIN starts = Dispatch /\ DOMAIN starts' = Dispatch'
  BY <1>1, <1>2 DEF Dispatch
<1>4. Remaining \in 1..Limit /\ Remaining + Cardinality(Unlanded) <= Limit + Granted
  BY <1>1, RemainingBound, RemainingIsLeft
<1>5. /\ Unlanded \subseteq Dispatch /\ IsFiniteSet(Unlanded) /\ Cardinality(Unlanded) \in Nat
      /\ Limit \in Nat /\ Granted \in Nat /\ Granted' = Granted
      /\ (Limit + Granted)' = Limit + Granted'
  <2>1. Unlanded \subseteq Dispatch
    BY DEF Unlanded
  <2> QED BY <1>1, <2>1, Finite, LimitAssumption DEF IInv, Granted
<1>6. \A k \in Dispatch : Landed(k) => Landed(k)'
  BY <1>1, <1>3, LandedStays
<1>7. Unlanded' \subseteq Unlanded \cup {n}
  BY <1>3, <1>6 DEF Unlanded
<1>8. Cardinality(Unlanded') <= Limit + Granted'
  <2>1. /\ IsFiniteSet(Unlanded \cup {n})
        /\ Cardinality(Unlanded \cup {n}) = Cardinality(Unlanded) + 1
    BY <1>3, <1>5, FS_AddElement
  <2>2. IsFiniteSet(Unlanded') /\ Cardinality(Unlanded') <= Cardinality(Unlanded) + 1
    BY <1>7, <2>1, FS_Subset
  <2>3. Cardinality(Unlanded') \in Nat
    BY <2>2, FS_CardinalityType
  <2> QED BY <1>4, <1>5, <2>2, <2>3
<1>9. ASSUME NEW k \in Uncertain'
      PROVE  /\ starts'[k].attempts <= starts'[k].allowed
             /\ starts'[k].allowed + Cardinality(Unlanded' \ {k}) <= Limit + Granted'
  <2>1. k = n
    <3>1. k \in Dispatch' /\ starts'[k].result # "failed" /\ ~Landed(k)'
      BY <1>3 DEF Uncertain
    <3>2. k \notin Dispatch
      BY <1>1, <1>3, <1>6, <3>1, ReconciledIsCertain
    <3> QED BY <1>3, <3>1, <3>2
  <2>2. Unlanded' \ {n} \subseteq Unlanded
    BY <1>7
  <2>3. IsFiniteSet(Unlanded' \ {n}) /\ Cardinality(Unlanded' \ {n}) <= Cardinality(Unlanded)
    BY <1>5, <2>2, FS_Subset
  <2>4. Cardinality(Unlanded' \ {n}) \in Nat
    BY <2>3, FS_CardinalityType
  <2> HIDE DEF n
  <2> QED BY <1>3, <1>4, <1>5, <2>1, <2>3, <2>4
<1>10. FailedAtFirst'
  <2>1. ASSUME NEW i \in Dispatch', starts'[i].result = "failed"
        PROVE  starts'[i].attempts <= 1
    <3>1. CASE i \in Dispatch
      BY <1>3, <2>1, <3>1 DEF BudgetInv, FailedAtFirst
    <3>2. CASE i = n
      BY <1>3, <3>2
    <3> QED BY <1>3, <3>1, <3>2
  <2>2. \A e \in Dispatchers : pc'[e] # "finish"
    <3>1. \A e \in Dispatchers : e # d => pc[e] = "idle"
      BY <1>1, Alone
    <3>2. pc \in [Dispatchers -> {"idle", "start", "attempt", "review", "commit", "intent",
                                  "push", "finish"}]
      BY DEF IInv, TypeOK
    <3> QED BY <1>1, <3>1, <3>2
  <2> QED BY <2>1, <2>2 DEF FailedAtFirst
<1> QED BY <1>8, <1>9, <1>10 DEF BudgetInv, Afforded

LEMMA BudgetInit == Init => BudgetInv
<1> SUFFICES ASSUME Init PROVE BudgetInv
  OBVIOUS
<1>1. Dispatch = {} /\ DOMAIN starts = {}
  BY DEF Init, Dispatch
<1>2. Unlanded = {} /\ Uncertain = {}
  BY <1>1 DEF Unlanded, Uncertain
<1>3. Cardinality(Unlanded) = 0
  BY <1>2, FS_EmptySet
<1>4. FailedAtFirst
  BY <1>1 DEF Init, FailedAtFirst
<1> QED BY <1>2, <1>3, <1>4, LimitAssumption DEF BudgetInv, Afforded, Granted

(* A process that leaves deliver, or goes on without a clean failure.      *)
LEMMA ProcessBudget ==
    ASSUME IInv, IInv', BudgetInv, NEW d \in Dispatchers,
           \/ StartRefused(d) \/ FinishContended(d) \/ Crash(d)
           \/ \E t \in Tasks : Call(d, t)
           \/ Correct(d) \/ Approve(d) \/ Commit(d) \/ PutIntent(d) \/ Push(d) \/ Refuse(d)
    PROVE  BudgetInv'
<1>1. /\ starts' = starts /\ session' = session /\ grant' = grant
      /\ pc[d] # "idle" => lock = d
  <2>1. starts' = starts /\ session' = session /\ grant' = grant
    BY DEF StartRefused, FinishContended, Crash, Call, Correct, Approve, Commit, PutIntent, Push,
       Refuse, gitVars, sessionVars
  <2> QED BY <2>1, Alone
<1>2. ASSUME NEW e \in Dispatchers, pc'[e] = "finish", report'[e] = "failed"
      PROVE  pc[e] = "finish" /\ report[e] = "failed" /\ cur'[e] = cur[e]
  <2>1. CASE Leave(d) \/ \E t \in Tasks : Call(d, t)
    <3>1. CASE Leave(d)
      BY <1>2, <3>1 DEF Leave, Goto, IInv, TypeOK
    <3>2. CASE \E t \in Tasks : Call(d, t)
      BY <1>2, <3>2 DEF Call, Goto, IInv, TypeOK
    <3> QED BY <2>1, <3>1, <3>2
  <2>2. CASE Correct(d) \/ Approve(d) \/ Commit(d) \/ PutIntent(d)
    BY <1>2, <2>2 DEF Correct, Approve, Commit, PutIntent, Goto, IInv, TypeOK
  <2>3. CASE Push(d) \/ Refuse(d)
    BY <1>2, <2>3 DEF Push, Refuse, Reports, Goto, IInv, TypeOK
  <2> QED BY <2>1, <2>2, <2>3 DEF StartRefused, FinishContended, Crash
<1> QED BY <1>1, <1>2, JournalBudget

LEMMA BudgetStep ==
    ASSUME IInv, IInv', BudgetInv, [Next]_vars
    PROVE  BudgetInv'
<1>1. ASSUME NEW d \in Dispatchers,
             DispatcherStep(d) \/ Crash(d) \/ \E t \in Tasks : Call(d, t)
      PROVE  BudgetInv'
  BY <1>1, StartBudget, AttemptBudget, FinishBudget, ProcessBudget DEF DispatcherStep
<1>2. CASE \/ Drift \/ (\E k \in DOMAIN starts : Merge(k))
           \/ SessionStep \/ GrantInterrupted \/ Hold \/ UNCHANGED vars
  <2>1. starts' = starts /\ UNCHANGED <<pc, report, cur>>
    BY <1>2 DEF Drift, Merge, SessionStep, Reconcile, MarkStale, Complete, Grant, Release,
       GrantInterrupted, Hold, vars, gitVars, sessionVars, dispatcherVars
  <2>2. session'.base = session.base \/ Reconcile
    BY <1>2 DEF Drift, Merge, SessionStep, MarkStale, Complete, Grant, Release,
       GrantInterrupted, Hold, vars, gitVars, sessionVars, dispatcherVars, IInv, TypeOK
  <2>3. grant.state = "bound" => grant'.state = "bound"
    BY <1>2 DEF Drift, Merge, SessionStep, Reconcile, MarkStale, Complete, Grant, Release,
       GrantInterrupted, Hold, vars, gitVars, sessionVars, dispatcherVars
  <2> QED BY <2>1, <2>2, <2>3, JournalBudget
<1> QED BY <1>1, <1>2 DEF Next

(* The calls for work that has not landed: one for every failed dispatch,  *)
(* and those of the uncertain one.                                         *)
LEMMA CallsAreAfforded ==
    ASSUME IInv, BudgetInv
    PROVE  ProviderBudgetKept
<1>1. /\ DOMAIN starts = Dispatch /\ Unlanded \subseteq Dispatch
      /\ Limit \in Nat /\ Granted \in Nat
  BY LimitAssumption DEF IInv, TypeOK, Dispatch, Unlanded, Granted
<1>2. CallsNotLanded = UNION {{k} \X (1..starts[k].attempts) : k \in Unlanded}
  BY <1>1 DEF CallsNotLanded, Unlanded
<1>3. ASSUME NEW k \in Unlanded
      PROVE  /\ starts[k].attempts \in Nat /\ starts[k].allowed \in Nat
             /\ k \notin Uncertain => starts[k].attempts <= 1
  <2>1. starts[k] \in StartRecord
    BY <1>1, ElementOfSeq DEF IInv, TypeOK, Dispatch
  <2>2. k \notin Uncertain => starts[k].result = "failed"
    BY <1>1 DEF Uncertain, Unlanded
  <2> QED BY <1>1, <2>1, <2>2, LimitAssumption DEF StartRecord, BudgetInv, FailedAtFirst
<1>4. ASSUME NEW S, S \subseteq Dispatch
      PROVE  /\ IsFiniteSet(S \X {1}) /\ Cardinality(S \X {1}) = Cardinality(S)
             /\ Cardinality(S) \in Nat
  <2>1. IsFiniteSet(S) /\ Cardinality(S) \in Nat
    BY <1>4, Finite DEF IInv
  <2>2. IsFiniteSet({1}) /\ Cardinality({1}) = 1
    BY FS_Singleton
  <2>3. IsFiniteSet(S \X {1}) /\ Cardinality(S \X {1}) = Cardinality(S) * Cardinality({1})
    BY <2>1, <2>2, FS_Product
  <2> QED BY <2>1, <2>2, <2>3
<1>5. CASE Uncertain = {}
  <2>1. CallsNotLanded \subseteq Unlanded \X {1}
    <3>1. ASSUME NEW k \in Unlanded, NEW n \in 1..starts[k].attempts PROVE n = 1
      BY <1>3, <1>5
    <3> QED BY <1>2, <3>1
  <2>2. Cardinality(CallsNotLanded) <= Cardinality(Unlanded)
    BY <1>1, <1>4, <2>1, FS_Subset
  <2>3. Cardinality(Unlanded) <= Limit + Granted /\ Cardinality(Unlanded) \in Nat
    BY <1>1, <1>4 DEF BudgetInv, Afforded
  <2>4. Cardinality(CallsNotLanded) \in Nat
    BY <1>1, <1>4, <2>1, FS_Subset, FS_CardinalityType
  <2> QED BY <1>1, <2>2, <2>3, <2>4 DEF ProviderBudgetKept, Granted
<1>6. ASSUME NEW k \in Uncertain PROVE ProviderBudgetKept
  <2> DEFINE others == (Unlanded \ {k}) \X {1}
             own == {k} \X (1..starts[k].attempts)
  <2>1. k \in Unlanded /\ \A j \in Unlanded \ {k} : j \notin Uncertain
    BY <1>1 DEF Uncertain, Unlanded, IInv, Certain
  <2>2. CallsNotLanded \subseteq others \cup own
    <3>1. ASSUME NEW j \in Unlanded \ {k}, NEW n \in 1..starts[j].attempts PROVE n = 1
      BY <1>3, <2>1
    <3> QED BY <1>2, <3>1
  <2>3. /\ IsFiniteSet(others) /\ Cardinality(others) = Cardinality(Unlanded \ {k})
        /\ Cardinality(others) \in Nat
    <3>1. Unlanded \ {k} \subseteq Dispatch
      BY <1>1
    <3> QED BY <1>4, <3>1
  <2>4. IsFiniteSet(own) /\ Cardinality(own) = starts[k].attempts
    <3>1. starts[k].attempts \in Nat
      BY <1>3, <2>1
    <3>2. /\ IsFiniteSet(1..starts[k].attempts)
          /\ Cardinality(1..starts[k].attempts) = starts[k].attempts
      <4>1. /\ IsFiniteSet(1..starts[k].attempts)
            /\ Cardinality(1..starts[k].attempts) =
                  IF 1 > starts[k].attempts THEN 0 ELSE starts[k].attempts - 1 + 1
        <5>1. 1 \in Int /\ starts[k].attempts \in Int
          BY <3>1
        <5> QED BY <5>1, FS_Interval
      <4> QED BY <3>1, <4>1
    <3>3. IsFiniteSet({k}) /\ Cardinality({k}) = 1
      BY FS_Singleton
    <3>4. /\ IsFiniteSet(own)
          /\ Cardinality(own) = Cardinality({k}) * Cardinality(1..starts[k].attempts)
      BY <3>2, <3>3, FS_Product
    <3> QED BY <3>1, <3>2, <3>3, <3>4
  <2> HIDE DEF others, own
  <2>5. /\ IsFiniteSet(others \cup own)
        /\ Cardinality(others \cup own) =
              Cardinality(others) + Cardinality(own) - Cardinality(others \cap own)
    BY <2>3, <2>4, FS_Union
  <2>6. Cardinality(others \cap own) \in Nat
    <3>1. others \cap own \subseteq others
      OBVIOUS
    <3> QED BY <2>3, <3>1, FS_Subset, FS_CardinalityType
  <2>7. /\ IsFiniteSet(CallsNotLanded) /\ Cardinality(CallsNotLanded) \in Nat
        /\ Cardinality(CallsNotLanded) <= Cardinality(others \cup own)
    BY <2>2, <2>5, FS_Subset, FS_CardinalityType
  <2>8. /\ starts[k].attempts <= starts[k].allowed
        /\ starts[k].allowed + Cardinality(Unlanded \ {k}) <= Limit + Granted
    BY DEF BudgetInv, Afforded
  <2>9. starts[k].attempts \in Nat /\ starts[k].allowed \in Nat
    BY <1>3, <2>1
  <2>10. Cardinality(CallsNotLanded) <= Limit + Granted
    BY <1>1, <2>3, <2>4, <2>5, <2>6, <2>7, <2>8, <2>9
  <2> QED BY <2>10 DEF ProviderBudgetKept, Granted
<1> QED BY <1>5, <1>6

(* For work that has not landed the provider is called at most Limit       *)
(* times, and once more under the owner's grant, whoever calls deliver and *)
(* dies in it (remaining_delivery_attempts, max_correction_rounds).        *)
THEOREM ProviderBudgetHolds == Spec => []ProviderBudgetKept
<1>1. ASSUME IInv, IInv', BudgetInv, [Next]_vars PROVE BudgetInv'
  BY <1>1, BudgetStep
<1>2. IInv /\ BudgetInv => ProviderBudgetKept
  BY CallsAreAfforded
<1> QED BY <1>1, <1>2, BudgetInit, DispatchInvariance, PTL DEF Spec

-----------------------------------------------------------------------------
(* The correction rounds of one dispatch.                                  *)


\* The calls of the provider are the finished rounds and the current one.
Counted ==
    /\ phase = "attempt" => attempts = round
    /\ phase \in {"review", "repair", "judge"} => attempts = round + 1

LoopInv == LoopTypeOK /\ Counted /\ NothingLost

\* The inductive invariant holds at first, of an empty history.
LEMMA LoopInitInv == LoopInit => LoopInv
  BY MaxRoundsAssumption
  DEF LoopInit, LoopInv, LoopTypeOK, Counted, NothingLost, Verdicts, NoVerdict

\* Stopping with an outcome changes nothing the invariant speaks of but phase.
LEMMA LoopStopInv ==
  ASSUME LoopInv, NEW outcome \in Outcomes, Stop(outcome),
         attempts' \in 0..(MaxRounds + 1)
  PROVE  LoopInv'
  BY DEF LoopInv, LoopTypeOK, Counted, NothingLost, Stop, Outcomes, Verdicts

\* An attempt is one more provider call, and within the limit.
LEMMA LoopAttemptInv == LoopInv /\ (Attempt \/ AttemptEnds) => LoopInv'
<1> SUFFICES ASSUME LoopInv, Attempt \/ AttemptEnds PROVE LoopInv'
  OBVIOUS
<1>0. /\ attempts = round /\ round \in 0..MaxRounds
      /\ attempts + 1 \in 0..(MaxRounds + 1)
  BY MaxRoundsAssumption DEF Attempt, AttemptEnds, LoopInv, LoopTypeOK, Counted
<1>1. CASE Attempt
  BY <1>0, <1>1 DEF Attempt, LoopInv, LoopTypeOK, Counted, NothingLost, Verdicts
<1>2. CASE AttemptEnds
  BY <1>0, <1>2, LoopStopInv DEF AttemptEnds, Outcomes
<1> QED
  BY <1>1, <1>2

\* The next round hands on the blocking findings, and answers for the others.
LEMMA LoopRoundInv == LoopInv /\ NextRound => LoopInv'
<1> SUFFICES ASSUME LoopInv, NextRound PROVE LoopInv'
  OBVIOUS
<1>1. LoopTypeOK'
  <2>1. round' \in 0..MaxRounds
    BY MaxRoundsAssumption DEF NextRound, MayCorrect, LoopInv, LoopTypeOK
  <2>2. /\ verdict.blocking \in SUBSET Findings /\ verdict.minor \in SUBSET Findings
        /\ verdict.resolved \in SUBSET Findings
    BY DEF LoopInv, LoopTypeOK, Verdicts
  <2>3. verdict' \in Verdicts
    BY DEF NextRound, LoopInv, LoopTypeOK
  <2> QED
    BY <2>1, <2>2, <2>3 DEF NextRound, LoopInv, LoopTypeOK
<1>2. Counted'
  BY DEF NextRound, LoopInv, Counted
<1>3. NothingLost'
  <2>1. previous \subseteq verdict.resolved \cup verdict.blocking \cup verdict.minor
    BY DEF NextRound, Answers, Current
  <2> QED
    BY <2>1 DEF NextRound, LoopInv, NothingLost
<1> QED
  BY <1>1, <1>2, <1>3 DEF LoopInv

\* Every step preserves the inductive invariant.
LEMMA LoopNextInv == LoopInv /\ [LoopNext]_loopVars => LoopInv'
<1> SUFFICES ASSUME LoopInv, [LoopNext]_loopVars PROVE LoopInv'
  OBVIOUS
<1>0. attempts \in 0..(MaxRounds + 1)
  BY DEF LoopInv, LoopTypeOK
<1>1. CASE RefuseAttempt
  BY <1>0, <1>1, LoopStopInv DEF RefuseAttempt, Outcomes
<1>2. CASE Attempt \/ AttemptEnds
  BY <1>2, LoopAttemptInv
<1>3. CASE Review
  BY <1>3 DEF Review, LoopInv, LoopTypeOK, Counted, NothingLost
<1>4. CASE ReviewInvalid
  BY <1>4 DEF ReviewInvalid, LoopInv, LoopTypeOK, Counted, NothingLost, Verdicts
<1>5. CASE ReviewUnusable
  BY <1>0, <1>5, LoopStopInv DEF ReviewUnusable, Outcomes
<1>6. CASE AcceptPatch
  BY <1>0, <1>6, LoopStopInv DEF AcceptPatch, Outcomes
<1>7. CASE Reject
  BY <1>0, <1>7, LoopStopInv DEF Reject, Outcomes
<1>8. CASE Unanswered
  BY <1>0, <1>8, LoopStopInv DEF Unanswered, Outcomes
<1>9. CASE NotConverging
  BY <1>0, <1>9, LoopStopInv DEF NotConverging, Outcomes
<1>10. CASE LimitReached
  BY <1>0, <1>10, LoopStopInv DEF LimitReached, Outcomes
<1>11. CASE NextRound
  BY <1>11, LoopRoundInv
<1>12. CASE UNCHANGED loopVars
  BY <1>12 DEF loopVars, LoopInv, LoopTypeOK, Counted, NothingLost, Verdicts
<1> QED
  BY <1>1, <1>2, <1>3, <1>4, <1>5, <1>6, <1>7, <1>8, <1>9, <1>10, <1>11, <1>12
  DEF LoopNext, Done

\* The calls of the provider are counted, and no finding is lost, in every
\* reachable state.
THEOREM ReviewInvariance == LoopSpec => []LoopInv
  BY LoopInitInv, LoopNextInv, PTL DEF LoopSpec

\* Every variable of the review loop keeps its type: never more than
\* max_correction_rounds rounds, nor one provider call more than that.
THEOREM ReviewTypes == LoopSpec => []LoopTypeOK
<1>1. LoopInv => LoopTypeOK
  BY DEF LoopInv
<1> QED
  BY <1>1, ReviewInvariance, PTL

\* _review_resolution_states lets no blocking finding drop out unanswered.
THEOREM NoFindingLost == LoopSpec => []NothingLost
<1>1. LoopInv => NothingLost
  BY DEF LoopInv
<1> QED
  BY <1>1, ReviewInvariance, PTL

-----------------------------------------------------------------------------
\* The initial state of the loop is one of CorrectionRounds.
LEMMA RoundsInit == LoopInit => Rounds!Init
  BY DEF LoopInit, Rounds!Init, Stage

\* Stopping after a review, or before an attempt, is a refusal.
LEMMA StopRefuses ==
  ASSUME phase \in {"attempt", "review", "repair", "judge"},
         NEW outcome \in {"blocked", "human"}, Stop(outcome), UNCHANGED attempts
  PROVE  Rounds!Refuse
<1>1. Stage \in {"attempt", "review"}
  BY DEF Stage
<1>2. Stage' = "other"
  BY DEF Stage, Stop
<1> QED
  BY <1>1, <1>2 DEF Rounds!Refuse

\* Every step of the loop is a step of CorrectionRounds or leaves it alone.
LEMMA RoundsStep ==
  LoopInv /\ [LoopNext]_loopVars => [Rounds!Next]_<<attempts, Stage>>
<1> SUFFICES ASSUME LoopInv, [LoopNext]_loopVars PROVE [Rounds!Next]_<<attempts, Stage>>
  OBVIOUS
<1>1. CASE RefuseAttempt
  BY <1>1, StopRefuses DEF RefuseAttempt, Rounds!Next
<1>2. CASE Attempt
  <2>1. Stage = "attempt" /\ Stage' = "review" /\ attempts' = attempts + 1
    BY <1>2 DEF Attempt, Stage
  <2> QED
    BY <2>1 DEF Rounds!Next, Rounds!Complete
<1>3. CASE AttemptEnds
  <2>1. Stage = "attempt" /\ attempts' = attempts + 1 /\ attempts = round
    BY <1>3 DEF AttemptEnds, Stage, LoopInv, Counted
  <2>2. Stage' = "other" \/ (round = 0 /\ Stage' = "failed")
    BY <1>3 DEF AttemptEnds, Stop, Stage
  <2> QED
    BY <2>1, <2>2 DEF Rounds!Next, Rounds!Fail
<1>4. CASE Review
  BY <1>4 DEF Review, Stage
<1>5. CASE ReviewInvalid
  BY <1>5 DEF ReviewInvalid, Stage
<1>6. CASE ReviewUnusable
  BY <1>6, StopRefuses DEF ReviewUnusable, Rounds!Next
<1>7. CASE AcceptPatch
  <2>1. Stage = "review" /\ Stage' = "commit" /\ UNCHANGED attempts
    BY <1>7 DEF AcceptPatch, Stop, Stage
  <2> QED
    BY <2>1 DEF Rounds!Next, Rounds!Approve
<1>8. CASE Reject
  BY <1>8, StopRefuses DEF Reject, Rounds!Next
<1>9. CASE Unanswered
  BY <1>9, StopRefuses DEF Unanswered, Rounds!Next
<1>10. CASE NotConverging
  BY <1>10, StopRefuses DEF NotConverging, Rounds!Next
<1>11. CASE LimitReached
  BY <1>11, StopRefuses DEF LimitReached, Rounds!Next
<1>12. CASE NextRound
  <2>1. Stage = "review" /\ Stage' = "attempt" /\ UNCHANGED attempts
    BY <1>12 DEF NextRound, Stage
  <2>2. attempts < MaxRounds + 1
    BY <1>12, MaxRoundsAssumption DEF NextRound, MayCorrect, LoopInv, LoopTypeOK, Counted
  <2> QED
    BY <2>1, <2>2 DEF Rounds!Next, Rounds!Correct
<1>13. CASE UNCHANGED loopVars
  BY <1>13 DEF loopVars, Stage
<1> QED
  BY <1>1, <1>2, <1>3, <1>4, <1>5, <1>6, <1>7, <1>8, <1>9, <1>10, <1>11, <1>12, <1>13
  DEF LoopNext, Done

\* The review loop implements CorrectionRounds, which is all that the dispatch
\* model assumes of it: calls within the limit, clean failure only at the first.
THEOREM RoundsRefinement == LoopSpec => RoundsSpec
<1>1. LoopSpec => Rounds!Spec
  BY RoundsInit, RoundsStep, ReviewInvariance, PTL DEF LoopSpec, Rounds!Spec
<1> QED
  BY <1>1 DEF RoundsSpec
=============================================================================
