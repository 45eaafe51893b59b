--------------------------- MODULE ProviderEvidence ---------------------------
(***************************************************************************)
(* The owner-signed evidence about the Architect provider of one project   *)
(* (provider_intelligence.py, provider_eligibility.py, observed_merge.py,  *)
(* external_advancement.py, the provider commands of cli.py and of         *)
(* owner_ed25519_authority.py).                                            *)
(*                                                                         *)
(* A bootstrap probes the provider and writes an unsigned candidate file;  *)
(* the owner's controller activates or renews it under the project's lock; *)
(* planning loads the signed evidence and checks it against the head of    *)
(* the repository and the authority in force; a decision of eligibility is *)
(* issued from it and verified again before its use.  Meanwhile merges     *)
(* move the head, the authority goes from generation to generation, time   *)
(* passes, and any of these processes may be killed.                       *)
(***************************************************************************)
EXTENDS Integers, FiniteSets

CONSTANTS
    None,
    TTL,           \* how long evidence holds (24 hours)
    DecisionTTL,   \* how long a decision holds (an hour)
    MaxHead,       \* bound of the merges
    MaxGeneration, \* bound of the generations of authority
    MaxClock,      \* bound of the time
    MaxVersion,    \* bound of the profile versions
    MaxRecords,    \* bound of the records that attest merges
    Records,       \* the records there may be, each from one commit to a later one
    Reconstituted  \* the generations that changed the constitution

ASSUME ProviderBounds ==
    /\ {TTL, DecisionTTL, MaxGeneration} \subseteq Nat \ {0}
    /\ DecisionTTL < TTL
    /\ {MaxHead, MaxClock, MaxVersion, MaxRecords} \subseteq Nat
    /\ Records \subseteq
          [kind : {"external", "delivery", "observed"}, from : 0..MaxHead, to : 0..MaxHead]
    /\ \A r \in Records : r.from < r.to /\ (r.kind = "observed" => r.to = r.from + 1)
    /\ Reconstituted \subseteq 2..MaxGeneration

VARIABLES
    head,      \* the commit of the main branch checked out, counted from 0
    authority, \* the generation of authority in force
    now,       \* the time
    attested,  \* the records that attest merges
    draft,     \* the candidate in its file, or None
    boot,      \* the bootstrap under way
    owner,     \* the owner's controller, holder of the project's lock unless idle
    evidence,  \* the evidence file, or None
    planner,   \* the planning under way
    decision   \* a decision somebody holds, or None

vars == <<head, authority, now, attested, draft, boot, owner, evidence, planner, decision>>

Commits == 0..MaxHead

(* The interfaces an Architect is reached by.                              *)
Providers == {"codex", "local"}

(* Signed evidence: the provider and the version of its profile, the       *)
(* commit and the generation of authority it is bound to, and when it was  *)
(* observed.  A generation fixes its constitution; whether the probe       *)
(* showed every capability and gate is left open where it is asked.        *)
Evidence ==
    [provider : Providers, version : 1..MaxVersion, target : Commits,
     generation : 1..MaxGeneration, observed : 0..MaxClock]

ASSUME NoneIsNoEvidence == None \notin Evidence

Expired(e, time) == time >= e.observed + TTL

(* Evidence of another generation or constitution is bound to stale        *)
(* authority.                                                              *)
BoundToAuthority(e) == e.generation = authority

(* The constitution is the same and the generation the same or the next.   *)
AuthorityCarries(old, new) ==
    /\ new.generation - old.generation \in 0..1
    /\ ((old.generation + 1)..new.generation) \cap Reconstituted = {}

(* ProviderIntelligenceStore.load.                                         *)
Loadable == evidence # None /\ ~Expired(evidence, now) /\ BoundToAuthority(evidence)

-----------------------------------------------------------------------------
(* The environment.                                                        *)

(* A pull request is merged into main.                                     *)
HeadMoves ==
    /\ head < MaxHead
    /\ head' = head + 1
    /\ UNCHANGED <<authority, now, attested, draft, boot, owner, evidence, planner, decision>>

AuthorityAdvances ==
    /\ authority < MaxGeneration
    /\ authority' = authority + 1
    /\ UNCHANGED <<head, now, attested, draft, boot, owner, evidence, planner, decision>>

Tick ==
    /\ now < MaxClock
    /\ now' = now + 1
    /\ UNCHANGED <<head, authority, attested, draft, boot, owner, evidence, planner, decision>>

(* A record stands for merges from one commit to a later one: authorised   *)
(* by the owner beforehand, or delivered with a receipt.                   *)
Recorded(r) ==
    /\ Cardinality(attested) < MaxRecords
    /\ r.to <= head
    /\ attested' = attested \cup {r}
    /\ UNCHANGED <<head, authority, now, draft, boot, owner, evidence, planner, decision>>

AttestAdvancement ==
    \E r \in Records \ attested : r.kind \in {"external", "delivery"} /\ Recorded(r)

(* acknowledge_observed_merge: after the fact the owner attests one merge  *)
(* and its first parent, under the project's lock.                         *)
AcknowledgeMerge ==
    /\ owner.pc = "idle"
    /\ \E r \in Records \ attested : r.kind = "observed" /\ Recorded(r)

-----------------------------------------------------------------------------
(* Bootstrap: the provider is probed, and a candidate for the owner is     *)
(* written.                                                                *)

NoBoot == [pc |-> "idle"]
NoOwner == [pc |-> "idle"]
NoPlanner == [pc |-> "idle"]

NextVersion == IF evidence = None THEN 1 ELSE evidence.version + 1

(* Head, authority, time and the evidence to follow are read before the    *)
(* probe.  (Evidence that still holds, of the same interface, is left      *)
(* alone unless a renewal is asked for: nothing is written then.)          *)
BootstrapReads ==
    /\ boot.pc = "idle"
    /\ NextVersion <= MaxVersion
    /\ \E provider \in Providers :
          boot' = [pc |-> "probe", provider |-> provider, version |-> NextVersion,
                   target |-> head, generation |-> authority, observed |-> now]
    /\ UNCHANGED <<head, authority, now, attested, draft, owner, evidence, planner, decision>>

(* The candidate file is overwritten, whatever reads it meanwhile.         *)
BootstrapWrites ==
    /\ boot.pc = "probe"
    /\ draft' = [provider |-> boot.provider, version |-> boot.version,
                 target |-> boot.target, generation |-> boot.generation,
                 observed |-> boot.observed]
    /\ boot' = NoBoot
    /\ UNCHANGED <<head, authority, now, attested, owner, evidence, planner, decision>>

-----------------------------------------------------------------------------
(* What the owner's controller and the store accept.                       *)

(* MUTANT: any record that ends at the new target will do.                 *)
EndsThere(from, to) == \E r \in attested : r.to = to

(* The records lead from one commit to the other: whatever holds the one   *)
(* and is closed under the records holds the other.                        *)
Leads(records, from, to) ==
    \A S \in SUBSET Commits :
        from \in S /\ (\A r \in records : r.from \in S => r.to \in S) => to \in S

(* Records of one kind lead from one commit to the other, each the only    *)
(* one that starts where the one before it ended.                          *)
Chain(kind, from, to) ==
    LET records == {r \in attested : r.kind = kind}
        sole == {r \in records : \A s \in records : s.from = r.from => s = r}
    IN  Leads(sole, from, to)

(* One record of an external advance, a chain of them, a chain of observed *)
(* merges, or one delivery.                                                *)
LegitimateAdvance(from, to) ==
    \/ [kind |-> "external", from |-> from, to |-> to] \in attested
    \/ Chain("external", from, to)
    \/ Chain("observed", from, to)
    \/ [kind |-> "delivery", from |-> from, to |-> to] \in attested

(* The one migration of an interface: from Codex to the local Architect.   *)
Rotation(old, new) ==
    /\ old.provider = "codex" /\ new.provider = "local"
    /\ new.version > old.version
    /\ new.observed > old.observed
    /\ AuthorityCarries(old, new)

ProfilesAdvanced(old, new) == new.provider = old.provider /\ new.version > old.version

(* MUTANT: the versions of the profiles are not compared.                  *)
AcceptsAnyVersion(old, new, renewal) ==
    \/ renewal /\ Rotation(old, new)
    \/ old.generation <= new.generation /\ new.target # old.target
    \/ old.generation <= new.generation /\ Expired(old, new.observed)
    \/ /\ renewal
       /\ new.target = old.target
       /\ AuthorityCarries(old, new)
       /\ new.observed > old.observed

(* ProviderIntelligenceStore._save_locked over existing evidence: a        *)
(* rotation, evidence that has expired or is of another target, or an      *)
(* explicit renewal.                                                       *)
Accepts(old, new, renewal) ==
    \/ renewal /\ Rotation(old, new)
    \/ /\ ProfilesAdvanced(old, new)
       /\ old.generation <= new.generation
       /\ Expired(old, new.observed) \/ new.target # old.target
    \/ /\ renewal
       /\ ProfilesAdvanced(old, new)
       /\ new.target = old.target
       /\ AuthorityCarries(old, new)
       /\ new.observed > old.observed

(* renew_provider_candidate reads the evidence and the candidate.  A new   *)
(* target has to be the head and attested from the old one.                *)
Renewable(old, new) ==
    /\ new.target # old.target => new.target = head /\ LegitimateAdvance(old.target, new.target)
    /\ Rotation(old, new) \/ ProfilesAdvanced(old, new)
    /\ new.observed > old.observed

RenewalReads ==
    /\ owner.pc = "idle"
    /\ evidence # None /\ draft # None
    /\ Renewable(evidence, draft)
    /\ owner' = [pc |-> "check", renewal |-> TRUE, target |-> draft.target]
    /\ UNCHANGED <<head, authority, now, attested, draft, boot, evidence, planner, decision>>

ActivationBegins ==
    /\ owner.pc = "idle"
    /\ draft # None
    /\ owner' = [pc |-> "check", renewal |-> FALSE, target |-> draft.target]
    /\ UNCHANGED <<head, authority, now, attested, draft, boot, evidence, planner, decision>>

(* _activate_provider_candidate reads the candidate, for a renewal once    *)
(* more, and signs it when it is of the head and the authority in force.   *)
(* same is history: the target is the one the renewal read first.          *)
CandidateHolds(e) == e.target = head /\ ~Expired(e, now) /\ BoundToAuthority(e)

ActivationSigns ==
    /\ owner.pc = "check"
    /\ owner' = IF draft # None /\ CandidateHolds(draft)
                THEN [pc |-> "save", renewal |-> owner.renewal, signed |-> draft,
                      same |-> owner.target = draft.target]
                ELSE NoOwner
    /\ UNCHANGED <<head, authority, now, attested, draft, boot, evidence, planner, decision>>

(* The evidence is replaced at once.  replaced is history: the evidence    *)
(* was replaced since the decision was issued.                             *)
Replaced ==
    IF decision # None /\ decision.used = "not yet" /\ owner.signed # evidence
    THEN [decision EXCEPT !.replaced = TRUE]
    ELSE decision

ActivationSaves ==
    /\ owner.pc = "save"
    /\ IF evidence = None \/ owner.signed = evidence
          \/ Accepts(evidence, owner.signed, owner.renewal)
       THEN evidence' = owner.signed /\ decision' = Replaced
       ELSE UNCHANGED <<evidence, decision>>
    /\ owner' = NoOwner
    /\ UNCHANGED <<head, authority, now, attested, draft, boot, planner>>

-----------------------------------------------------------------------------
(* Who uses the evidence: a planning or a decision.  Neither writes        *)
(* anything the other reads, so one at a time is enough.                   *)
OneConsumer == planner.pc = "idle" /\ decision = None

(* Planning: session assess or session continue with the evidence's        *)
(* provider.                                                               *)

PlannerLoads ==
    /\ OneConsumer
    /\ Loadable
    /\ planner' = [pc |-> "loaded", target |-> evidence.target,
                   generation |-> evidence.generation, observed |-> evidence.observed]
    /\ UNCHANGED <<head, authority, now, attested, draft, boot, owner, evidence, decision>>

(* together is history: the evidence, the head, the authority in force and *)
(* the time agreed when the head was read.                                 *)
PlannerReadsHead ==
    /\ planner.pc = "loaded"
    /\ planner' = [pc |-> "validate", head |-> head, target |-> planner.target,
                   generation |-> planner.generation, observed |-> planner.observed,
                   together |-> CandidateHolds(planner)]
    /\ UNCHANGED <<head, authority, now, attested, draft, boot, owner, evidence, decision>>

(* MUTANT: the authority in force is not resolved again.                   *)
RuntimeTargetOnly == planner.target = planner.head /\ ~Expired(planner, now)

(* _validate_provider_intelligence_runtime.                                *)
RuntimeValid ==
    /\ planner.target = planner.head
    /\ ~Expired(planner, now)
    /\ BoundToAuthority(planner)

(* The provider's program may have changed, too.                           *)
PlannerValidates ==
    /\ planner.pc = "validate"
    /\ \/ /\ RuntimeValid
          /\ planner' = [pc |-> "propose", together |-> planner.together, calls |-> 0]
       \/ planner' = NoPlanner
    /\ UNCHANGED <<head, authority, now, attested, draft, boot, owner, evidence, decision>>

(* The one candidate is selected when every gate and capability is there,  *)
(* and asked; an answer that is no JSON is asked for once more, and any    *)
(* other answer, a refusal or a failure ends the planning.                 *)
PlannerProposes ==
    /\ planner.pc = "propose"
    /\ \/ /\ planner.calls = 0
          /\ planner' = [planner EXCEPT !.calls = 1]
       \/ planner' = NoPlanner
    /\ UNCHANGED <<head, authority, now, attested, draft, boot, owner, evidence, decision>>

-----------------------------------------------------------------------------
(* Decisions of eligibility: issued from the loaded evidence for a target  *)
(* the caller names.                                                       *)

Eligible(target) == Loadable /\ evidence.target = target

IssueDecision ==
    /\ OneConsumer
    /\ \E target \in 0..head :
          /\ Eligible(target)
          /\ decision' = [source |-> evidence, issued |-> now, replaced |-> FALSE,
                          used |-> "not yet"]
    /\ UNCHANGED <<head, authority, now, attested, draft, boot, owner, evidence, planner>>

DecisionExpired ==
    now >= decision.issued + DecisionTTL \/ Expired(decision.source, now)

(* MUTANT: the state a decision came from is not part of its identity.     *)
SameBinding ==
    /\ evidence.provider = decision.source.provider
    /\ evidence.target = decision.source.target
    /\ evidence.generation = decision.source.generation

(* Verifying resolves the decision anew and compares everything but its    *)
(* two times; the hash of the evidence is among what is compared.  A       *)
(* decision is used once; that a replaced one was used is kept as history. *)
SameSource == evidence = decision.source

VerifyDecision ==
    /\ decision # None
    /\ decision.used = "not yet"
    /\ \/ /\ ~DecisionExpired
          /\ Eligible(decision.source.target)
          /\ SameSource
          /\ decision' = IF decision.replaced THEN [used |-> "stale"] ELSE None
       \/ decision' = None
    /\ UNCHANGED <<head, authority, now, attested, draft, boot, owner, evidence, planner>>

(* A process is killed; the owner's lock goes with it.  The evidence is    *)
(* replaced by a rename, but the candidate is written in place: what a     *)
(* bootstrap killed over it leaves may be no candidate at all.             *)
Crash ==
    /\ \/ /\ boot.pc # "idle"
          /\ boot' = NoBoot
          /\ draft' \in {draft, None}
          /\ UNCHANGED <<owner, planner>>
       \/ owner.pc # "idle" /\ owner' = NoOwner /\ UNCHANGED <<boot, draft, planner>>
       \/ planner.pc # "idle" /\ planner' = NoPlanner /\ UNCHANGED <<boot, draft, owner>>
    /\ UNCHANGED <<head, authority, now, attested, evidence, decision>>

-----------------------------------------------------------------------------
Init ==
    /\ head = 0
    /\ authority = 1
    /\ now = 0
    /\ attested = {}
    /\ draft = None
    /\ boot = NoBoot
    /\ owner = NoOwner
    /\ evidence = None
    /\ planner = NoPlanner
    /\ decision = None

Environment == HeadMoves \/ AuthorityAdvances \/ Tick \/ AttestAdvancement \/ Crash

Bootstrap == BootstrapReads \/ BootstrapWrites

Owner ==
    AcknowledgeMerge \/ RenewalReads \/ ActivationBegins \/ ActivationSigns \/ ActivationSaves

Planner == PlannerLoads \/ PlannerReadsHead \/ PlannerValidates \/ PlannerProposes

Holder == IssueDecision \/ VerifyDecision

Next == Environment \/ Bootstrap \/ Owner \/ Planner \/ Holder

Spec == Init /\ [][Next]_vars

-----------------------------------------------------------------------------
(* Properties.                                                             *)

(* The data of each process, by the step it is at.                         *)
Boots ==
    {NoBoot} \cup
    [pc : {"probe"}, provider : Providers, version : 1..MaxVersion, target : Commits,
     generation : 1..MaxGeneration, observed : 0..MaxClock]

Owners ==
    {NoOwner} \cup
    [pc : {"check"}, renewal : BOOLEAN, target : Commits] \cup
    [pc : {"save"}, renewal : BOOLEAN, signed : Evidence, same : BOOLEAN]

Planners ==
    {NoPlanner} \cup
    [pc : {"loaded"}, target : Commits, generation : 1..MaxGeneration,
     observed : 0..MaxClock] \cup
    [pc : {"validate"}, head : Commits, target : Commits, generation : 1..MaxGeneration,
     observed : 0..MaxClock, together : BOOLEAN] \cup
    [pc : {"propose"}, together : BOOLEAN, calls : 0..1]

Decisions ==
    [used : {"not yet"}, source : Evidence, issued : 0..MaxClock, replaced : BOOLEAN]
    \cup [used : {"stale"}]

(* The types of the files, the processes and the bounds.                   *)
TypeOK ==
    /\ head \in Commits
    /\ authority \in 1..MaxGeneration
    /\ now \in 0..MaxClock
    /\ attested \subseteq Records
    /\ draft \in Evidence \cup {None}
    /\ evidence \in Evidence \cup {None}
    /\ boot \in Boots
    /\ owner \in Owners
    /\ planner \in Planners
    /\ decision \in Decisions \cup {None}

(* What the steps under way rely on.  Under the project's lock the signed  *)
(* candidate is of no earlier commit than the evidence it replaces;        *)
(* planning that did not read evidence, head and authority together will   *)
(* find out; and a decision of replaced evidence is of an older version.   *)
Grounds ==
    /\ evidence # None => evidence.target <= head
    /\ owner.pc = "save" /\ evidence # None => evidence.target <= owner.signed.target
    /\ owner.pc = "save" => owner.signed.target <= head
    /\ planner.pc = "loaded" => planner.generation <= authority
    /\ planner.pc = "validate" =>
          /\ planner.generation <= authority
          /\ \/ planner.together
             \/ planner.target # planner.head
             \/ Expired(planner, now)
             \/ planner.generation < authority
    /\ planner.pc = "propose" => planner.together
    /\ decision # None =>
          /\ decision.used = "not yet"
          /\ evidence # None
          /\ evidence.version >= decision.source.version
          /\ decision.replaced => evidence.version > decision.source.version

(* Signed evidence never comes back: whatever the owner's controller       *)
(* saves, and however late the candidate was written, the profile's        *)
(* version goes up, and neither the target nor the generation go back      *)
(* (_save_locked under the project's lock).                                *)
EvidenceForward ==
    [][evidence' # evidence /\ evidence # None =>
          /\ evidence'.version > evidence.version
          /\ evidence'.target >= evidence.target
          /\ evidence'.generation >= evidence.generation]_vars

(* Planning reads the evidence, the head and the authority one after the   *)
(* other; still, when it asks the provider, there was a moment when the    *)
(* evidence was of the head and of the authority then in force, and had    *)
(* not expired (_architect_from_config).                                   *)
PlannedTogether == planner.pc = "propose" => planner.together

(* A renewal moves the target of the evidence only along merges that are   *)
(* attested one after the other, provided the candidate is still of the    *)
(* commit the renewal read first: _activate_provider_candidate reads it    *)
(* again, and a bootstrap may have written another one.                    *)
Attested(from, to) == Leads(attested, from, to)

RenewalAttested ==
    [][evidence' # evidence /\ evidence # None /\ owner.renewal /\ owner.same =>
          Attested(evidence.target, evidence'.target)]_vars

(* owner_ed25519_authority.py:205: "Require delivery or authenticated      *)
(* external evidence for a target advance."  Whatever candidate a renewal  *)
(* signs, the target it moves to is attested.  (Violated: the candidate is *)
(* read twice, and only the first one's target was looked up.)             *)
AdvanceAttested ==
    [][evidence' # evidence /\ evidence # None /\ owner.renewal =>
          Attested(evidence.target, evidence'.target)]_vars

(* A decision that verifies comes from evidence that was not replaced      *)
(* since it was issued, not even by something with the same provider,      *)
(* target and generation: versions do not repeat, and the hash of the      *)
(* evidence is part of the decision (ProviderEligibilityAuthority.verify). *)
DecisionCurrent == decision # None => decision.used # "stale"
=============================================================================
