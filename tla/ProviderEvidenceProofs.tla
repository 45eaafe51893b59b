------------------------ MODULE ProviderEvidenceProofs ------------------------
(***************************************************************************)
(* Proofs about ProviderEvidence, for every bound and lifetime: TypeOK and *)
(* Grounds are inductive together, and EvidenceForward, PlannedTogether    *)
(* and DecisionCurrent follow from them; RenewalAttested follows with      *)
(* Renewing, what a renewal on its way relies on.                          *)
(***************************************************************************)
EXTENDS ProviderEvidence, TLAPS

(* What each process is by the step it is at.                              *)
LEMMA Shapes ==
    ASSUME TypeOK
    PROVE  /\ boot.pc = "probe" =>
                boot \in [pc : {"probe"}, provider : Providers, version : 1..MaxVersion,
                          target : Commits, generation : 1..MaxGeneration,
                          observed : 0..MaxClock]
           /\ owner.pc = "check" =>
                owner \in [pc : {"check"}, renewal : BOOLEAN, target : Commits]
           /\ owner.pc = "save" =>
                owner \in [pc : {"save"}, renewal : BOOLEAN, signed : Evidence, same : BOOLEAN]
           /\ planner.pc = "loaded" =>
                planner \in [pc : {"loaded"}, target : Commits, generation : 1..MaxGeneration,
                             observed : 0..MaxClock]
           /\ planner.pc = "validate" =>
                planner \in [pc : {"validate"}, head : Commits, target : Commits,
                             generation : 1..MaxGeneration, observed : 0..MaxClock,
                             together : BOOLEAN]
           /\ planner.pc = "propose" =>
                planner \in [pc : {"propose"}, together : BOOLEAN, calls : 0..1]
<1>1. boot.pc = "probe" =>
        boot \in [pc : {"probe"}, provider : Providers, version : 1..MaxVersion,
                  target : Commits, generation : 1..MaxGeneration, observed : 0..MaxClock]
  BY DEF TypeOK, Boots, NoBoot
<1>2. owner \in Owners
  BY DEF TypeOK
<1>3. owner.pc = "check" => owner \in [pc : {"check"}, renewal : BOOLEAN, target : Commits]
  BY <1>2 DEF Owners, NoOwner
<1>4. owner.pc = "save" =>
        owner \in [pc : {"save"}, renewal : BOOLEAN, signed : Evidence, same : BOOLEAN]
  BY <1>2 DEF Owners, NoOwner
<1>5. planner \in Planners
  BY DEF TypeOK
<1>6. planner.pc = "loaded" =>
        planner \in [pc : {"loaded"}, target : Commits, generation : 1..MaxGeneration,
                     observed : 0..MaxClock]
  BY <1>5 DEF Planners, NoPlanner
<1>7. planner.pc = "validate" =>
        planner \in [pc : {"validate"}, head : Commits, target : Commits,
                     generation : 1..MaxGeneration, observed : 0..MaxClock,
                     together : BOOLEAN]
  BY <1>5 DEF Planners, NoPlanner
<1>8. planner.pc = "propose" => planner \in [pc : {"propose"}, together : BOOLEAN, calls : 0..1]
  BY <1>5 DEF Planners, NoPlanner
<1> QED BY <1>1, <1>2, <1>3, <1>4, <1>6, <1>7, <1>8

(* The fields that are compared are numbers.                               *)
LEMMA Numbers ==
    /\ \A e \in Evidence : /\ e.version \in Int /\ e.target \in Int
                           /\ e.generation \in Int /\ e.observed \in Int
    /\ TypeOK => head \in Int /\ authority \in Int /\ now \in Int
  BY ProviderBounds DEF Evidence, Commits, TypeOK

LEMMA PlannerNumbers ==
    ASSUME TypeOK, planner.pc \in {"loaded", "validate"}
    PROVE  planner.generation \in Int /\ planner.observed \in Int
  BY Shapes, ProviderBounds

(* Whatever the store accepts over existing evidence is of a later version *)
(* and of no earlier generation.                                           *)
LEMMA AcceptedIsLater ==
    ASSUME NEW old \in Evidence, NEW new \in Evidence, NEW renewal, Accepts(old, new, renewal)
    PROVE  new.version > old.version /\ new.generation >= old.generation
<1>1. /\ old.version \in Int /\ new.version \in Int
      /\ old.generation \in Int /\ new.generation \in Int
  BY Numbers
<1> QED BY <1>1 DEF Accepts, Rotation, ProfilesAdvanced, AuthorityCarries

(* The inductive invariant.                                                *)
IInv == TypeOK /\ Grounds

LEMMA InitInv == Init => IInv
<1> SUFFICES ASSUME Init PROVE IInv
  OBVIOUS
<1>1. 0 \in Commits /\ 0 \in 0..MaxClock /\ 1 \in 1..MaxGeneration
  BY ProviderBounds DEF Commits
<1>2. TypeOK
  BY <1>1 DEF Init, TypeOK, Boots, Owners, Planners, NoOwner
<1>3. Grounds
  BY DEF Init, Grounds, NoOwner, NoPlanner
<1> QED BY <1>2, <1>3 DEF IInv

(* The environment moves head, authority and time forward, and writes no   *)
(* evidence.                                                               *)
LEMMA EnvironmentInv ==
    ASSUME IInv, HeadMoves \/ AuthorityAdvances \/ Tick \/ AttestAdvancement \/ AcknowledgeMerge
    PROVE  IInv'
<1> USE DEF IInv
<1>0. UNCHANGED <<draft, boot, owner, evidence, planner, decision>>
  BY DEF HeadMoves, AuthorityAdvances, Tick, AttestAdvancement, AcknowledgeMerge, Recorded
<1>1. /\ head \in Int /\ head' \in Commits /\ head' \in Int /\ head <= head'
      /\ authority \in Int /\ authority' \in 1..MaxGeneration /\ authority' \in Int
      /\ authority <= authority'
      /\ now \in Int /\ now' \in 0..MaxClock /\ now' \in Int /\ now <= now'
      /\ attested' \subseteq Records
  BY ProviderBounds
  DEF TypeOK, Commits, HeadMoves, AuthorityAdvances, Tick, AttestAdvancement,
      AcknowledgeMerge, Recorded
<1>2. TypeOK'
  BY <1>0, <1>1 DEF TypeOK
<1>3. (evidence # None => evidence.target <= head)'
  <2>1. evidence # None => evidence.target <= head
    BY DEF Grounds
  <2>2. evidence # None => evidence.target \in Int
    BY Numbers DEF TypeOK
  <2> QED BY <1>0, <1>1, <2>1, <2>2
<1>4. (owner.pc = "save" => owner.signed.target <= head)'
  <2>1. owner.pc = "save" => owner.signed.target <= head
    BY DEF Grounds
  <2>2. owner.pc = "save" => owner.signed.target \in Int
    BY Shapes, Numbers
  <2> QED BY <1>0, <1>1, <2>1, <2>2
<1>5. (planner.pc = "loaded" => planner.generation <= authority)'
  <2>1. planner.pc = "loaded" => planner.generation <= authority
    BY DEF Grounds
  <2>2. planner.pc = "loaded" => planner.generation \in Int
    BY PlannerNumbers
  <2> QED BY <1>0, <1>1, <2>1, <2>2
<1>6. (planner.pc = "validate" =>
          /\ planner.generation <= authority
          /\ \/ planner.together
             \/ planner.target # planner.head
             \/ Expired(planner, now)
             \/ planner.generation < authority)'
  <2> SUFFICES ASSUME planner.pc = "validate"
      PROVE  /\ planner.generation <= authority'
             /\ \/ planner.together
                \/ planner.target # planner.head
                \/ Expired(planner, now')
                \/ planner.generation < authority'
    BY <1>0 DEF Expired
  <2>1. planner.generation \in Int /\ planner.observed \in Int
    BY PlannerNumbers
  <2>2. Expired(planner, now) => Expired(planner, now')
    BY <1>1, <2>1, ProviderBounds DEF Expired
  <2>3. planner.generation <= authority => planner.generation <= authority'
    BY <1>1, <2>1
  <2>4. planner.generation < authority => planner.generation < authority'
    BY <1>1, <2>1
  <2>5. /\ planner.generation <= authority
        /\ \/ planner.together
           \/ planner.target # planner.head
           \/ Expired(planner, now)
           \/ planner.generation < authority
    BY DEF Grounds
  <2> QED BY <2>2, <2>3, <2>4, <2>5
<1> QED BY <1>0, <1>2, <1>3, <1>4, <1>5, <1>6 DEF Grounds

LEMMA BootstrapInv ==
    ASSUME IInv, BootstrapReads \/ BootstrapWrites
    PROVE  IInv'
<1> USE ProviderBounds DEF IInv
<1>0. UNCHANGED <<head, authority, now, attested, owner, evidence, planner, decision>>
  BY DEF BootstrapReads, BootstrapWrites
<1>1. Grounds'
  BY <1>0 DEF Grounds, Expired
<1>2. CASE BootstrapReads
  <2>1. NextVersion \in 1..MaxVersion
    BY <1>2 DEF BootstrapReads, NextVersion, TypeOK, Evidence
  <2>2. boot' \in Boots
    BY <1>2, <2>1 DEF BootstrapReads, TypeOK, Boots
  <2> QED BY <1>0, <1>1, <1>2, <2>2 DEF BootstrapReads, TypeOK
<1>3. CASE BootstrapWrites
  <2>1. draft' \in Evidence
    BY <1>3, Shapes DEF BootstrapWrites, Evidence
  <2>2. boot' \in Boots
    BY <1>3 DEF BootstrapWrites, Boots
  <2> QED BY <1>0, <1>1, <2>1, <2>2 DEF TypeOK
<1> QED BY <1>2, <1>3

(* The controller reads: nothing but its own step changes.                 *)
LEMMA ControllerInv ==
    ASSUME IInv, RenewalReads \/ ActivationBegins \/ ActivationSigns
    PROVE  IInv'
<1> USE DEF IInv
<1>0. UNCHANGED <<head, authority, now, attested, draft, boot, evidence, planner, decision>>
  BY DEF RenewalReads, ActivationBegins, ActivationSigns
<1>1. CASE RenewalReads \/ ActivationBegins
  <2>1. draft \in Evidence
    BY <1>1 DEF RenewalReads, ActivationBegins, TypeOK
  <2>a. draft.target \in Commits
    BY <2>1 DEF Evidence
  <2>2. owner' \in [pc : {"check"}, renewal : BOOLEAN, target : Commits]
    <3>1. \E renewal \in BOOLEAN :
              owner' = [pc |-> "check", renewal |-> renewal, target |-> draft.target]
      BY <1>1 DEF RenewalReads, ActivationBegins
    <3> QED BY <2>a, <3>1
  <2>3. owner' \in Owners /\ owner'.pc = "check"
    BY <2>2 DEF Owners
  <2>4. TypeOK'
    BY <1>0, <2>3 DEF TypeOK
  <2> QED BY <1>0, <2>3, <2>4 DEF Grounds, Expired
<1>2. CASE ActivationSigns
  <2>1. /\ owner \in [pc : {"check"}, renewal : BOOLEAN, target : Commits]
        /\ draft \in Evidence \cup {None}
    BY <1>2, Shapes DEF ActivationSigns, TypeOK
  <2>2. CASE draft # None /\ CandidateHolds(draft)
    <3>1. owner' = [pc |-> "save", renewal |-> owner.renewal, signed |-> draft,
                    same |-> owner.target = draft.target]
      BY <1>2, <2>2 DEF ActivationSigns
    <3>2. owner' \in Owners /\ owner'.pc = "save" /\ owner'.signed = draft
      <4>1. draft \in Evidence /\ owner.renewal \in BOOLEAN
        BY <2>1, <2>2
      <4>2. owner' \in [pc : {"save"}, renewal : BOOLEAN, signed : Evidence, same : BOOLEAN]
        BY <3>1, <4>1
      <4> QED BY <3>1, <4>2 DEF Owners
    <3>3. TypeOK'
      BY <1>0, <3>2 DEF TypeOK
    <3>4. draft.target = head /\ head <= head
      BY <2>1, <2>2, Numbers DEF CandidateHolds
    <3>5. /\ (owner.pc = "save" /\ evidence # None => evidence.target <= owner.signed.target)'
          /\ (owner.pc = "save" => owner.signed.target <= head)'
      BY <1>0, <3>2, <3>4 DEF Grounds
    <3> QED BY <1>0, <3>2, <3>3, <3>5 DEF Grounds, Expired
  <2>3. CASE ~(draft # None /\ CandidateHolds(draft))
    <3>1. owner' = NoOwner
      BY <1>2, <2>3 DEF ActivationSigns
    <3>2. owner' \in Owners /\ owner'.pc = "idle"
      BY <3>1 DEF Owners, NoOwner
    <3> QED BY <1>0, <3>2 DEF TypeOK, Grounds, Expired
  <2> QED BY <2>2, <2>3
<1> QED BY <1>1, <1>2

(* Saving replaces the evidence by a later one, and marks a decision.      *)
LEMMA SaveInv ==
    ASSUME IInv, ActivationSaves
    PROVE  IInv'
<1> USE DEF IInv
<1>0. /\ UNCHANGED <<head, authority, now, attested, draft, boot, planner>>
      /\ owner' = NoOwner /\ owner.pc = "save"
  BY DEF ActivationSaves
<1>1. owner'.pc = "idle" /\ owner' \in Owners
  BY <1>0 DEF NoOwner, Owners
<1>2. owner.signed \in Evidence /\ owner.signed # None
  BY <1>0, Shapes, NoneIsNoEvidence
<1>3. CASE UNCHANGED <<evidence, decision>>
  BY <1>0, <1>1, <1>3 DEF TypeOK, Grounds, Expired
<1>4. CASE /\ evidence = None \/ owner.signed = evidence
              \/ Accepts(evidence, owner.signed, owner.renewal)
           /\ evidence' = owner.signed /\ decision' = Replaced
  <2>1. evidence' \in Evidence /\ evidence' # None /\ evidence'.target <= head
    BY <1>0, <1>2, <1>4 DEF Grounds
  <2>2. CASE decision = None
    <3>1. decision' = None
      BY <1>4, <2>2 DEF Replaced
    <3> QED BY <1>0, <1>1, <2>1, <3>1 DEF TypeOK, Grounds, Expired
  <2>3. CASE decision # None
    <3>1. /\ decision.used = "not yet" /\ evidence # None /\ evidence \in Evidence
          /\ evidence.version >= decision.source.version
          /\ decision.replaced => evidence.version > decision.source.version
      BY <2>3 DEF TypeOK, Grounds
    <3>2. decision \in [used : {"not yet"}, source : Evidence, issued : 0..MaxClock,
                        replaced : BOOLEAN]
      BY <2>3, <3>1 DEF TypeOK, Decisions
    <3>3. /\ evidence.version \in Int /\ owner.signed.version \in Int
          /\ decision.source.version \in Int
      BY <1>2, <3>1, <3>2, Numbers
    <3>4. CASE owner.signed = evidence
      <4>1. decision' = decision /\ evidence' = evidence
        BY <1>4, <3>4 DEF Replaced
      <4> QED BY <1>0, <1>1, <4>1 DEF TypeOK, Grounds, Expired
    <3>5. CASE owner.signed # evidence
      <4>1. decision' = [decision EXCEPT !.replaced = TRUE]
        BY <1>4, <2>3, <3>1, <3>5 DEF Replaced
      <4>2. /\ decision' \in Decisions
            /\ decision'.used = "not yet" /\ decision'.source = decision.source
        BY <3>2, <4>1 DEF Decisions
      <4>3. owner.signed.version > evidence.version
        BY <1>2, <1>4, <3>1, <3>5, AcceptedIsLater
      <4>a. evidence.version >= decision.source.version
        BY <3>1
      <4>4. evidence'.version > decision'.source.version
        <5>1. owner.signed.version > decision.source.version
          BY <3>3, <4>3, <4>a
        <5> QED BY <1>4, <4>2, <5>1
      <4>5. evidence'.version >= decision'.source.version
        <5>1. owner.signed.version >= decision.source.version
          BY <3>3, <4>3, <4>a
        <5> QED BY <1>4, <4>2, <5>1
      <4> QED BY <1>0, <1>1, <2>1, <4>2, <4>4, <4>5 DEF TypeOK, Grounds, Expired
    <3> QED BY <3>4, <3>5
  <2> QED BY <2>2, <2>3
<1> QED BY <1>3, <1>4 DEF ActivationSaves

(* Planning loads evidence of the authority in force; what it reads apart  *)
(* is found out when it validates.                                         *)
LEMMA PlannerInv ==
    ASSUME IInv, PlannerLoads \/ PlannerReadsHead \/ PlannerValidates \/ PlannerProposes
    PROVE  IInv'
<1> USE DEF IInv
<1>0. UNCHANGED <<head, authority, now, attested, draft, boot, owner, evidence, decision>>
  BY DEF PlannerLoads, PlannerReadsHead, PlannerValidates, PlannerProposes
<1>1. ASSUME planner' \in Planners,
             (planner.pc = "loaded" => planner.generation <= authority)',
             (planner.pc = "validate" =>
                /\ planner.generation <= authority
                /\ \/ planner.together
                   \/ planner.target # planner.head
                   \/ Expired(planner, now)
                   \/ planner.generation < authority)',
             (planner.pc = "propose" => planner.together)'
      PROVE  IInv'
  BY <1>0, <1>1 DEF TypeOK, Grounds
<1>2. CASE planner' = NoPlanner
  <2>1. planner' \in Planners /\ planner'.pc = "idle"
    BY <1>2 DEF Planners, NoPlanner
  <2> QED BY <1>1, <2>1
<1>3. CASE PlannerLoads
  <2>1. evidence \in Evidence /\ evidence.generation = authority
    BY <1>3 DEF PlannerLoads, Loadable, BoundToAuthority, TypeOK
  <2>2. planner' = [pc |-> "loaded", target |-> evidence.target,
                    generation |-> evidence.generation, observed |-> evidence.observed]
    BY <1>3 DEF PlannerLoads
  <2>3. /\ planner' \in Planners /\ planner'.pc = "loaded"
        /\ planner'.generation = authority /\ authority \in Int
    BY <2>1, <2>2 DEF Planners, Evidence, TypeOK
  <2> QED BY <1>0, <1>1, <2>3
<1>4. CASE PlannerReadsHead
  <2>1. planner \in [pc : {"loaded"}, target : Commits, generation : 1..MaxGeneration,
                     observed : 0..MaxClock]
    BY <1>4, Shapes DEF PlannerReadsHead
  <2>2. planner' = [pc |-> "validate", head |-> head, target |-> planner.target,
                    generation |-> planner.generation, observed |-> planner.observed,
                    together |-> CandidateHolds(planner)]
    BY <1>4 DEF PlannerReadsHead
  <2>3. CandidateHolds(planner) \in BOOLEAN
    BY DEF CandidateHolds, Expired, BoundToAuthority
  <2>4. planner' \in Planners
    BY <2>1, <2>2, <2>3 DEF Planners, TypeOK
  <2>5. /\ planner'.pc = "validate" /\ planner'.head = head
        /\ planner'.target = planner.target
        /\ planner'.generation = planner.generation /\ planner'.observed = planner.observed
        /\ planner'.together = CandidateHolds(planner)
    BY <2>2
  <2>6. planner.generation <= authority /\ planner.generation \in Int /\ authority \in Int
    BY <1>4, PlannerNumbers, Numbers DEF PlannerReadsHead, Grounds
  <2>7. CASE CandidateHolds(planner)
    BY <1>0, <1>1, <2>4, <2>5, <2>6, <2>7
  <2>8. CASE ~CandidateHolds(planner)
    <3>1. \/ planner.target # head
          \/ Expired(planner, now)
          \/ planner.generation < authority
      BY <2>6, <2>8 DEF CandidateHolds, BoundToAuthority
    <3>2. Expired(planner, now) => Expired(planner', now)
      BY <2>5 DEF Expired
    <3> QED BY <1>0, <1>1, <2>4, <2>5, <2>6, <3>1, <3>2 DEF Expired
  <2> QED BY <2>7, <2>8
<1>5. CASE PlannerValidates /\ planner' # NoPlanner
  <2>1. /\ planner.pc = "validate" /\ RuntimeValid
        /\ planner' = [pc |-> "propose", together |-> planner.together, calls |-> 0]
    BY <1>5 DEF PlannerValidates
  <2>2. planner.together \in BOOLEAN /\ planner.generation \in Int /\ authority \in Int
    BY <2>1, Shapes, PlannerNumbers, Numbers
  <2>3. planner.together
    <3>1. /\ planner.target = planner.head
          /\ ~Expired(planner, now)
          /\ ~(planner.generation < authority)
      BY <2>1, <2>2 DEF RuntimeValid, BoundToAuthority
    <3> QED BY <2>1, <3>1 DEF Grounds
  <2>4. planner' \in Planners
    BY <2>1, <2>2 DEF Planners
  <2>5. planner'.pc = "propose" /\ planner'.together
    BY <2>1, <2>3
  <2> QED BY <1>1, <2>4, <2>5
<1>6. CASE PlannerProposes /\ planner' # NoPlanner
  <2>1. planner.pc = "propose" /\ planner' = [planner EXCEPT !.calls = 1]
    BY <1>6 DEF PlannerProposes
  <2>2. planner \in [pc : {"propose"}, together : BOOLEAN, calls : 0..1] /\ planner.together
    BY <2>1, Shapes DEF Grounds
  <2>3. planner' \in Planners
    BY <2>1, <2>2 DEF Planners
  <2>4. planner'.pc = "propose" /\ planner'.together
    BY <2>1, <2>2
  <2> QED BY <1>1, <2>3, <2>4
<1> QED BY <1>2, <1>3, <1>4, <1>5, <1>6

LEMMA DecisionInv ==
    ASSUME IInv, IssueDecision \/ VerifyDecision
    PROVE  IInv'
<1> USE DEF IInv
<1>0. UNCHANGED <<head, authority, now, attested, draft, boot, owner, evidence, planner>>
  BY DEF IssueDecision, VerifyDecision
<1>1. CASE IssueDecision
  <2>1. evidence \in Evidence /\ evidence # None
    BY <1>1 DEF IssueDecision, Eligible, Loadable, TypeOK
  <2>2. decision' = [source |-> evidence, issued |-> now, replaced |-> FALSE,
                     used |-> "not yet"]
    BY <1>1 DEF IssueDecision
  <2>3. /\ decision' \in Decisions /\ decision'.used = "not yet"
        /\ decision'.source = evidence /\ ~decision'.replaced
    BY <2>1, <2>2 DEF Decisions, TypeOK
  <2>4. evidence.version >= evidence.version
    BY <2>1, Numbers
  <2>5. TypeOK'
    BY <1>0, <2>3 DEF TypeOK
  <2>6. (evidence.version >= decision.source.version)'
    BY <1>0, <2>3, <2>4
  <2> QED BY <1>0, <2>1, <2>3, <2>5, <2>6 DEF Grounds, Expired
<1>2. CASE VerifyDecision
  <2>1. decision' = None
    <3>1. CASE SameSource
      <4>1. evidence = decision.source /\ decision # None /\ decision.used = "not yet"
        BY <1>2, <3>1 DEF VerifyDecision, SameSource
      <4>2. evidence \in Evidence /\ evidence.version \in Int
        BY <4>1, Numbers DEF Grounds, TypeOK
      <4>3. ~decision.replaced
        <5>0. evidence.version = decision.source.version
          BY <4>1
        <5>1. ~(evidence.version > decision.source.version)
          BY <4>2, <5>0
        <5> QED BY <4>1, <5>1 DEF Grounds
      <4> QED BY <1>2, <4>3 DEF VerifyDecision
    <3>2. CASE ~SameSource
      BY <1>2, <3>2 DEF VerifyDecision
    <3> QED BY <3>1, <3>2
  <2> QED BY <1>0, <2>1 DEF TypeOK, Grounds, Expired
<1> QED BY <1>1, <1>2

LEMMA CrashInv ==
    ASSUME IInv, Crash
    PROVE  IInv'
<1> USE DEF IInv
<1>0. /\ UNCHANGED <<head, authority, now, attested, evidence, decision>>
      /\ draft' \in Evidence \cup {None}
  BY DEF Crash, TypeOK
<1>1. /\ boot' \in Boots
      /\ owner' \in Owners /\ (owner' = owner \/ owner'.pc = "idle")
      /\ planner' \in Planners /\ (planner' = planner \/ planner'.pc = "idle")
  BY DEF Crash, TypeOK, Boots, Owners, Planners, NoBoot, NoOwner, NoPlanner
<1>2. TypeOK'
  BY <1>0, <1>1 DEF TypeOK
<1> QED BY <1>0, <1>1, <1>2 DEF Grounds, Expired

LEMMA StepInv ==
    ASSUME IInv, [Next]_vars
    PROVE  IInv'
<1>1. CASE UNCHANGED vars
  BY <1>1 DEF IInv, vars, TypeOK, Grounds, Expired
<1>2. CASE Environment
  BY <1>2, EnvironmentInv, CrashInv DEF Environment
<1>3. CASE Bootstrap
  BY <1>3, BootstrapInv DEF Bootstrap
<1>4. CASE Owner
  BY <1>4, EnvironmentInv, ControllerInv, SaveInv DEF Owner
<1>5. CASE Planner
  BY <1>5, PlannerInv DEF Planner
<1>6. CASE Holder
  BY <1>6, DecisionInv DEF Holder
<1> QED BY <1>1, <1>2, <1>3, <1>4, <1>5, <1>6 DEF Next

(* The types of every process, and what its next step relies on, hold in   *)
(* all of ProviderEvidence.                                                *)
THEOREM EvidenceTypes == Spec => []IInv
  BY InitInv, StepInv, PTL DEF Spec

(* Planning asks the provider only with evidence, head and authority that  *)
(* were in force together (_architect_from_config reads them apart).       *)
THEOREM PlanningIsTogether == Spec => []PlannedTogether
<1>1. IInv => PlannedTogether
  BY DEF IInv, Grounds, PlannedTogether
<1> QED BY <1>1, EvidenceTypes, PTL

(* No decision verifies after its evidence was replaced                    *)
(* (ProviderEligibilityAuthority.verify).                                  *)
THEOREM DecisionsAreCurrent == Spec => []DecisionCurrent
<1>1. IInv => DecisionCurrent
  BY DEF IInv, Grounds, DecisionCurrent
<1> QED BY <1>1, EvidenceTypes, PTL

(* Only the controller that saves replaces the evidence.                   *)
LEMMA OnlySavingReplaces ==
    ASSUME [Next]_vars, evidence' # evidence
    PROVE  ActivationSaves
  BY DEF Next, vars, Environment, Bootstrap, Owner, Planner, Holder, HeadMoves,
     AuthorityAdvances, Tick, AttestAdvancement, Recorded, Crash, BootstrapReads,
     BootstrapWrites, AcknowledgeMerge, RenewalReads, ActivationBegins, ActivationSigns,
     PlannerLoads, PlannerReadsHead, PlannerValidates, PlannerProposes, IssueDecision,
     VerifyDecision

(* Evidence goes forward in version, target and generation, however old    *)
(* the candidate (_save_locked under the project's lock).                  *)
THEOREM EvidenceGoesForward == Spec => EvidenceForward
<1>1. ASSUME IInv, [Next]_vars
      PROVE  [evidence' # evidence /\ evidence # None =>
                /\ evidence'.version > evidence.version
                /\ evidence'.target >= evidence.target
                /\ evidence'.generation >= evidence.generation]_vars
  <2> SUFFICES ASSUME evidence' # evidence, evidence # None
               PROVE  /\ evidence'.version > evidence.version
                      /\ evidence'.target >= evidence.target
                      /\ evidence'.generation >= evidence.generation
    OBVIOUS
  <2>1. ActivationSaves
    BY <1>1, OnlySavingReplaces
  <2>2. /\ owner.pc = "save" /\ evidence' = owner.signed
        /\ Accepts(evidence, owner.signed, owner.renewal)
    BY <2>1 DEF ActivationSaves
  <2>3. owner.signed \in Evidence /\ evidence \in Evidence
    BY <1>1, <2>2, Shapes DEF IInv, TypeOK
  <2>4. evidence.target <= owner.signed.target
    BY <1>1, <2>2 DEF IInv, Grounds
  <2>5. owner.signed.target \in Int /\ evidence.target \in Int
    BY <2>3, Numbers
  <2> QED BY <2>2, <2>3, <2>4, <2>5, AcceptedIsLater
<1> QED BY <1>1, EvidenceTypes, PTL DEF Spec, EvidenceForward


-----------------------------------------------------------------------------
(* Renewals.                                                               *)

(* A record leads from its one commit to the other, and with more records  *)
(* no commit is out of reach.                                              *)
LEMMA RecordLeads ==
    ASSUME NEW records, NEW r \in records
    PROVE  Leads(records, r.from, r.to)
  BY DEF Leads

LEMMA MoreRecordsLead ==
    ASSUME NEW few, NEW records, few \subseteq records, NEW from, NEW to,
           Leads(few, from, to)
    PROVE  Leads(records, from, to)
<1> SUFFICES ASSUME NEW S \in SUBSET Commits, from \in S,
                    \A r \in records : r.from \in S => r.to \in S
             PROVE  to \in S
  BY DEF Leads
<1>1. \A r \in few : r.from \in S => r.to \in S
  OBVIOUS
<1> QED BY <1>1 DEF Leads

(* Whatever the controller takes for a legitimate advance is attested.     *)
LEMMA LegitimateIsAttested ==
    ASSUME NEW from, NEW to, LegitimateAdvance(from, to)
    PROVE  Attested(from, to)
<1>1. ASSUME NEW kind, [kind |-> kind, from |-> from, to |-> to] \in attested
      PROVE  Attested(from, to)
  <2>1. Leads(attested, [kind |-> kind, from |-> from, to |-> to].from,
                        [kind |-> kind, from |-> from, to |-> to].to)
    BY <1>1, RecordLeads, Zenon
  <2> QED BY <2>1 DEF Attested
<1>2. ASSUME NEW kind, Chain(kind, from, to)
      PROVE  Attested(from, to)
  <2> DEFINE records == {r \in attested : r.kind = kind}
             sole == {r \in records : \A s \in records : s.from = r.from => s = r}
  <2>1. Leads(sole, from, to)
    BY <1>2 DEF Chain
  <2>2. sole \subseteq attested
    OBVIOUS
  <2> HIDE DEF sole
  <2> QED BY <2>1, <2>2, MoreRecordsLead DEF Attested
<1> QED BY <1>1, <1>2 DEF LegitimateAdvance

(* A renewal on its way: the evidence it follows is still there, and the   *)
(* commit it read first is attested from there.  What was read again may   *)
(* be another commit, and says so.                                         *)
Renewing ==
    /\ owner.pc = "check" /\ owner.renewal =>
          evidence # None /\ Attested(evidence.target, owner.target)
    /\ owner.pc = "save" /\ owner.renewal /\ owner.same =>
          evidence # None /\ Attested(evidence.target, owner.signed.target)

(* Records are only added.                                                 *)
LEMMA AttestedStays ==
    ASSUME IInv, [Next]_vars, NEW from, NEW to, Attested(from, to)
    PROVE  Attested(from, to)'
<1>1. attested \subseteq attested'
  BY DEF Next, vars, Environment, Bootstrap, Owner, Planner, Holder, HeadMoves,
     AuthorityAdvances, Tick, AttestAdvancement, Recorded, Crash, BootstrapReads,
     BootstrapWrites, AcknowledgeMerge, RenewalReads, ActivationBegins, ActivationSigns,
     ActivationSaves, PlannerLoads, PlannerReadsHead, PlannerValidates, PlannerProposes,
     IssueDecision, VerifyDecision
<1>2. Leads(attested', from, to)
  BY <1>1, MoreRecordsLead DEF Attested
<1> QED BY <1>2 DEF Attested, Leads

LEMMA RenewingInv ==
    ASSUME IInv, Renewing, [Next]_vars
    PROVE  Renewing'
<1> USE DEF IInv
<1>1. CASE UNCHANGED <<owner, evidence>> \/ (owner'.pc = "idle")
  <2>1. CASE owner'.pc = "idle"
    BY <2>1 DEF Renewing
  <2>2. CASE UNCHANGED <<owner, evidence>>
    <3>1. ASSUME owner.pc = "check", owner.renewal
          PROVE  /\ evidence # None
                 /\ Attested(evidence.target, owner.target)'
      <4>1. evidence # None /\ Attested(evidence.target, owner.target)
        BY <3>1 DEF Renewing
      <4> DEFINE from == evidence.target
                 to == owner.target
      <4>2. from' = from /\ to' = to
        BY <2>2
      <4>3. \A f, t : Attested(f, t) => Attested(f, t)'
        BY AttestedStays
      <4> QED BY <4>1, <4>2, <4>3 DEF Attested, Leads
    <3>2. ASSUME owner.pc = "save", owner.renewal, owner.same
          PROVE  /\ evidence # None
                 /\ Attested(evidence.target, owner.signed.target)'
      <4>1. evidence # None /\ Attested(evidence.target, owner.signed.target)
        BY <3>2 DEF Renewing
      <4>2. evidence'.target = evidence.target /\ owner'.signed.target = owner.signed.target
        BY <2>2
      <4>3. \A f, t : Attested(f, t) => Attested(f, t)'
        BY AttestedStays
      <4> QED BY <4>1, <4>2, <4>3 DEF Attested, Leads
    <3> QED BY <2>2, <3>1, <3>2 DEF Renewing
  <2> QED BY <1>1, <2>1, <2>2
<1>2. CASE RenewalReads
  <2>1. /\ evidence # None /\ draft # None /\ Renewable(evidence, draft)
        /\ owner' = [pc |-> "check", renewal |-> TRUE, target |-> draft.target]
        /\ UNCHANGED <<evidence, attested>>
    BY <1>2 DEF RenewalReads
  <2>2. Attested(evidence.target, draft.target)
    <3>1. CASE draft.target = evidence.target
      BY <3>1 DEF Attested, Leads
    <3>2. CASE draft.target # evidence.target
      BY <2>1, <3>2, LegitimateIsAttested DEF Renewable
    <3> QED BY <3>1, <3>2
  <2>3. /\ owner'.pc = "check" /\ owner'.target = draft.target
        /\ evidence' = evidence /\ attested' = attested
    BY <2>1
  <2>4. Attested(evidence.target, owner.target)'
    BY <2>2, <2>3 DEF Attested, Leads
  <2> QED BY <2>1, <2>3, <2>4 DEF Renewing
<1>3. CASE ActivationBegins
  <2>1. owner' = [pc |-> "check", renewal |-> FALSE, target |-> draft.target]
    BY <1>3 DEF ActivationBegins
  <2>2. owner'.pc = "check" /\ ~owner'.renewal
    BY <2>1
  <2> QED BY <2>2 DEF Renewing
<1>4. CASE ActivationSigns /\ owner' # NoOwner
  <2>1. /\ owner.pc = "check"
        /\ owner' = [pc |-> "save", renewal |-> owner.renewal, signed |-> draft,
                     same |-> owner.target = draft.target]
        /\ UNCHANGED <<evidence, attested>>
    BY <1>4 DEF ActivationSigns
  <2>2. /\ owner'.pc = "save" /\ owner'.renewal = owner.renewal /\ owner'.signed = draft
        /\ owner'.same = (owner.target = draft.target)
        /\ evidence' = evidence /\ attested' = attested
    BY <2>1
  <2>3. ASSUME owner'.renewal, owner'.same
        PROVE  evidence # None /\ Attested(evidence.target, owner.signed.target)'
    <3>1. evidence # None /\ Attested(evidence.target, owner.target)
      BY <2>1, <2>2, <2>3 DEF Renewing
    <3>2. owner'.signed.target = owner.target
      BY <2>2, <2>3
    <3> QED BY <2>2, <3>1, <3>2 DEF Attested, Leads
  <2> QED BY <2>2, <2>3 DEF Renewing
<1>5. \/ UNCHANGED <<owner, evidence>> \/ owner' = NoOwner
      \/ RenewalReads \/ ActivationBegins \/ ActivationSigns
  BY DEF Next, vars, Environment, Bootstrap, Owner, Planner, Holder, HeadMoves,
     AuthorityAdvances, Tick, AttestAdvancement, Recorded, Crash, BootstrapReads,
     BootstrapWrites, AcknowledgeMerge, ActivationSaves, PlannerLoads, PlannerReadsHead,
     PlannerValidates, PlannerProposes, IssueDecision, VerifyDecision
<1>6. NoOwner.pc = "idle"
  BY DEF NoOwner
<1> QED BY <1>1, <1>2, <1>3, <1>4, <1>5, <1>6

(* A renewal moves the target only along attested merges, unless another   *)
(* candidate was written between its two readings                          *)
(* (renew_provider_candidate, _activate_provider_candidate).               *)
THEOREM RenewalIsAttested == Spec => RenewalAttested
<1>1. Init => Renewing
  BY DEF Init, NoOwner, Renewing
<1>2. ASSUME IInv, Renewing, [Next]_vars
      PROVE  [evidence' # evidence /\ evidence # None /\ owner.renewal /\ owner.same =>
                Attested(evidence.target, evidence'.target)]_vars
  <2> SUFFICES ASSUME evidence' # evidence, owner.renewal, owner.same
               PROVE  Attested(evidence.target, evidence'.target)
    OBVIOUS
  <2>1. owner.pc = "save" /\ evidence' = owner.signed
    BY <1>2, OnlySavingReplaces DEF ActivationSaves
  <2> QED BY <1>2, <2>1 DEF Renewing
<1> QED BY <1>1, <1>2, RenewingInv, EvidenceTypes, PTL DEF Spec, RenewalAttested
=============================================================================
