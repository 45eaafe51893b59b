---------------------------- MODULE RiskEvidence ----------------------------
(***************************************************************************)
(* The signed historical evidence of a project and the delivery decision   *)
(* that rests on it.                                                       *)
(*                                                                         *)
(* The Owner keeps a directory of files: a signed baseline with its        *)
(* journal and activation, two ledgers of events, and one signed renewal   *)
(* per kind with a journal, an activation and the predecessors' copies     *)
(* (tools/owner_ed25519_authority.py, tools/owner_historical_epoch.py).    *)
(* Owner commands exclude each other by the project lock, but they write   *)
(* file after file and may be killed between two files.  A delivery takes  *)
(* no lock: it reads the same files one after the other                    *)
(* (historical_evidence.py), assesses the risk, decides under the active   *)
(* policy and checks the decision again (delivery.py, compliance.py),      *)
(* while the files, the ledgers, the authority and the branch move.        *)
(*                                                                         *)
(* A hash is modelled by what it identifies.  Baselines are numbered as    *)
(* signed: their operation ids are taken to be fresh.  Renewal operation   *)
(* ids are the Owner's and may be used again.                              *)
(***************************************************************************)
EXTENDS Integers, Sequences, FiniteSets

CONSTANTS
    Ops,        \* operation ids of renewals
    None,       \* an absent file
    Day,        \* how long a baseline is fresh
    MaxAge,     \* policy_seconds: how long an observation may be used
    GateAge,    \* gate_seconds: how long a gate's observation may be used
    MaxTime,    \* bound of the clock
    MaxEpochs,  \* bound of the baselines signed
    MaxRenewals,\* bound of the renewals begun
    MaxEvents,  \* bound of the records of a ledger
    MaxChanges, \* bound of the changes of authority and branch
    MaxCrashes  \* bound of the Owner processes killed

ASSUME EvidenceBounds ==
    {Day, MaxAge, GateAge, MaxTime, MaxEpochs, MaxRenewals, MaxEvents, MaxChanges, MaxCrashes}
        \subseteq Nat

VARIABLES
    dir,       \* the active directory
    stages,    \* the directories rollovers have staged
    archives,  \* the archived directories, by their baseline
    owner,     \* the Owner command: what it has still to do
    reader,    \* the delivery that decides
    authority, \* generation and kill switch of the active policy
    branch,    \* HEAD, and the head the registry holds
    now,       \* the clock
    spent      \* what was used of the bounds

vars == <<dir, stages, archives, owner, reader, authority, branch, now, spent>>
ownerVars == <<dir, stages, archives, owner>>

-----------------------------------------------------------------------------
(* The directory.                                                          *)

Kinds == {"rollback", "incident"}
Files == {"baseline", "bjournal", "bactivation", "ledgers", "rollback", "incident",
          "journal", "activation", "history"}

(* What the files hold, as far as a property depends on it.                *)
Hashes == Ops \X Nat \X Nat
Ledgers == [baseline : Nat, records : Nat]
Baselines ==
    [id : Nat \ {0}, gen : Nat \ {0}, prev : Nat, head : Nat, auth : Nat, at : Nat]
Observations ==
    [op : Ops, gen : Nat, baseline : Nat, start : Nat, end : Nat, auth : Nat, count : Nat,
     pred : Hashes \cup {None}]
Activations == [op : Ops, gen : Nat, baseline : Nat, hash : [Kinds -> Hashes]]

ASSUME NoneIsAbsent == None \notin Ledgers \cup Baselines \cup Observations \cup Activations

EmptyDirectory ==
    [baseline |-> None, bjournal |-> None, bactivation |-> None,
     ledgers |-> [k \in Kinds |-> None], rollback |-> None, incident |-> None,
     journal |-> None, activation |-> None, history |-> {}]

(* One renewal observed one kind: `count' records from `start' to `end'.    *)
(* Hash is evidence_hash: the operation, the time and what it counted.     *)
Hash(e) == <<e.op, e.end, e.count>>
HashOrNone(e) == IF e = None THEN None ELSE Hash(e)

(* MUTANT: the ledger of rollbacks is bound by its name, not by its content. *)
LedgerByName(d, k, b, n) ==
    /\ d.ledgers[k] # None
    /\ d.ledgers[k].baseline = b
    /\ k = "incident" => d.ledgers[k].records = n

(* The ledger is the one that was signed: of baseline b, with n records.   *)
LedgerIs(d, k, b, n) == d.ledgers[k] = [baseline |-> b, records |-> n]

(* Baseline b as its own files confirm it: journal, activation, ledgers.   *)
SelfConsistent(d, b) ==
    /\ d.bjournal = [status |-> "COMMITTED", baseline |-> b.id]
    /\ d.bactivation = b.id
    /\ \A k \in Kinds : LedgerIs(d, k, b.id, 0)

(* _assert_archive: the predecessor of b lies archived, as it was signed.  *)
Archived(b) ==
    /\ b.prev \in DOMAIN archives
    /\ LET d == archives[b.prev] IN
       /\ d.baseline # None
       /\ d.baseline.id = b.prev
       /\ d.baseline.gen = b.gen - 1
       /\ d.baseline.at < b.at
       /\ SelfConsistent(d, d.baseline)

(* Baseline b is of generation 1, or its predecessor lies archived and is   *)
(* one of ids.                                                             *)
Rests(b, ids) ==
    IF b.gen = 1 THEN b.prev = 0 ELSE Archived(b) /\ b.prev \in ids

(* verify_archived_epoch_chain follows the predecessors to generation 1:   *)
(* some archived ones are what b and each of them rest on.                 *)
Chain(b) ==
    \E ids \in SUBSET DOMAIN archives :
        /\ Rests(b, ids)
        /\ \A id \in ids : Rests(archives[id].baseline, ids)

BoundNow(b) == b.auth = authority.generation /\ b.head = branch.registered

BaselineLoads(d, b) == SelfConsistent(d, b) /\ Chain(b) /\ BoundNow(b)

-----------------------------------------------------------------------------
(* Evidence.                                                               *)

Activated(d, k, e) ==
    /\ d.activation # None
    /\ d.activation.op = e.op
    /\ d.activation.gen = e.gen
    /\ d.activation.baseline = e.baseline
    /\ d.activation.hash[k] = Hash(e)

JournalConfirms(d, k, e) ==
    /\ d.journal # None
    /\ d.journal.status = "COMMITTED"
    /\ d.journal.op = e.op
    /\ d.journal.gen = e.gen
    /\ d.journal.baseline = e.baseline
    /\ d.journal.auth = e.auth
    /\ d.journal.pred[k] = e.pred
    /\ d.journal.hash[k] = Hash(e)

Succeeds(d, k, e) ==
    /\ \E p \in d.history :
          /\ p.kind = k
          /\ Hash(p.evidence) = e.pred
          /\ p.evidence.baseline = e.baseline
          /\ p.evidence.auth = e.auth
          /\ p.evidence.end = e.start
          /\ p.evidence.gen = e.gen - 1
    /\ JournalConfirms(d, k, e)
    /\ \A p \in d.history : p.kind = k => p.evidence.op # e.op

EvidenceLoads(d, k, e) ==
    /\ LedgerIs(d, k, e.baseline, e.count)
    /\ Activated(d, k, e)
    /\ e.gen > 1 => Succeeds(d, k, e)

Fresh(e) == now - e.end <= MaxAge

(* The renewal's fallback: a predecessor whose ledger has moved on is      *)
(* taken when activation and journal confirm it (stale evidence is kept,   *)
(* not used).                                                              *)
CommittedRenewal(d, k, e) ==
    Activated(d, k, e) /\ JournalConfirms(d, k, e) /\ e.auth = authority.generation

Predecessor(d, k) ==
    d[k] # None => EvidenceLoads(d, k, d[k]) \/ CommittedRenewal(d, k, d[k])

-----------------------------------------------------------------------------
(* Owner commands.  A command checks everything, then writes; what is left *)
(* to write is owner.todo.  A refused command changes nothing, and what a  *)
(* command verifies after its last write changes nothing either.  The head *)
(* they compare with HEAD is the one verify_read_only has just observed,   *)
(* so the stored one matters only where a baseline is loaded.              *)

Write(file, value) == [file |-> file, value |-> value]
Idle == owner.todo = <<>>
Nothing == [todo |-> <<>>, new |-> None]

BaselinePayload(gen, prev) ==
    [id |-> spent.epochs + 1, gen |-> gen, prev |-> prev,
     head |-> branch.head, auth |-> authority.generation, at |-> now]

EmptyLedgers(b) == [k \in Kinds |-> [baseline |-> b.id, records |-> 0]]

BaselineWrites(b) ==
    << Write("bjournal", [status |-> "PREPARED", baseline |-> b.id]),
       Write("ledgers", EmptyLedgers(b)),
       Write("baseline", b),
       Write("bjournal", [status |-> "COMMITTED", baseline |-> b.id]),
       Write("bactivation", b.id) >>

CreateBaseline ==
    /\ Idle
    /\ dir.baseline = None
    /\ dir.bjournal = None
    /\ \A k \in Kinds : dir.ledgers[k] = None
    /\ spent.epochs < MaxEpochs
    /\ owner' = [owner EXCEPT !.todo = BaselineWrites(BaselinePayload(1, 0))]
    /\ spent' = [spent EXCEPT !.epochs = @ + 1]
    /\ UNCHANGED <<dir, stages, archives, reader, authority, branch, now>>

(* The renewals on disk are of one command, or there are none yet.         *)
Symmetric ==
    \/ \A k \in Kinds : dir[k] = None
    \/ /\ \A k \in Kinds : dir[k] # None
       /\ dir["rollback"].gen = dir["incident"].gen

First == dir["rollback"] = None
CoverageStart == IF First THEN dir.baseline.at ELSE dir["rollback"].end

RenewAccepted(op) ==
    /\ dir.baseline # None
    /\ BaselineLoads(dir, dir.baseline)
    /\ dir.baseline.head = branch.head
    /\ \A k \in Kinds : Predecessor(dir, k)
    /\ Symmetric
    /\ ~\A k \in Kinds : dir[k] # None /\ dir[k].op = op
    /\ now > CoverageStart
    /\ \A k \in Kinds :
          dir.ledgers[k] # None /\ dir.ledgers[k].baseline = dir.baseline.id

Observation(k, op) ==
    [op |-> op, gen |-> IF First THEN 1 ELSE dir["rollback"].gen + 1,
     baseline |-> dir.baseline.id, start |-> CoverageStart, end |-> now,
     auth |-> authority.generation, count |-> dir.ledgers[k].records,
     pred |-> HashOrNone(dir[k])]

RenewalJournal(status, op) ==
    [status |-> status, op |-> op, gen |-> Observation("rollback", op).gen,
     baseline |-> dir.baseline.id, auth |-> authority.generation,
     pred |-> [k \in Kinds |-> HashOrNone(dir[k])],
     hash |-> [k \in Kinds |-> Hash(Observation(k, op))]]

Copy(k) == [kind |-> k, evidence |-> dir[k]]
Copied == \E k \in Kinds : Copy(k) \in dir.history

Copies ==
    IF First THEN <<>>
    ELSE << Write("history", dir.history \cup {Copy("rollback")}),
            Write("history", dir.history \cup {Copy("rollback"), Copy("incident")}) >>

(* A predecessor that is already copied stops the command after the        *)
(* journal: an interrupted renewal leaves one.                             *)
RenewalWrites(op) ==
    <<Write("journal", RenewalJournal("PREPARED", op))>> \o
    IF ~First /\ Copied THEN <<>>
    ELSE Copies \o
         << Write("rollback", Observation("rollback", op)),
            Write("incident", Observation("incident", op)),
            Write("journal", RenewalJournal("COMMITTED", op)),
            Write("activation",
                  [op |-> op, gen |-> Observation("rollback", op).gen,
                   baseline |-> dir.baseline.id,
                   hash |-> [k \in Kinds |-> Hash(Observation(k, op))]]) >>

RenewEvidence(op) ==
    /\ Idle
    /\ RenewAccepted(op)
    /\ spent.renewals < MaxRenewals
    /\ owner' = [owner EXCEPT !.todo = RenewalWrites(op)]
    /\ spent' = [spent EXCEPT !.renewals = @ + 1]
    /\ UNCHANGED <<dir, stages, archives, reader, authority, branch, now>>

(* A file is written at once (_atomic_write).                              *)
WriteFile ==
    /\ ~Idle
    /\ Head(owner.todo).file \in DOMAIN dir
    /\ dir' = [dir EXCEPT ![Head(owner.todo).file] = Head(owner.todo).value]
    /\ owner' = [owner EXCEPT !.todo = Tail(@)]
    /\ UNCHANGED <<stages, archives, reader, authority, branch, now, spent>>

-----------------------------------------------------------------------------
(* Rollover: stage a new directory, archive the active one, activate the   *)
(* staged one, and put everything back if the new baseline does not load.  *)

Step(name) == [file |-> name, value |-> None]
At(name) == ~Idle /\ Head(owner.todo).file = name

NewDirectory(b) ==
    [EmptyDirectory EXCEPT
        !.baseline = b, !.bjournal = [status |-> "COMMITTED", baseline |-> b.id],
        !.bactivation = b.id, !.ledgers = EmptyLedgers(b)]

(* The daemon's status may refuse the command, which then changes nothing. *)
Rollover ==
    /\ Idle
    /\ dir.baseline # None
    /\ now > dir.baseline.at
    /\ dir.baseline.head = branch.head => now - dir.baseline.at >= Day
    /\ dir.baseline.id \notin DOMAIN archives
    /\ \A s \in stages : s.baseline.gen # dir.baseline.gen + 1
    /\ spent.epochs < MaxEpochs
    /\ owner' = [todo |-> <<Step("stage"), Step("archive"), Step("activate"), Step("verify")>>,
                 new |-> NewDirectory(BaselinePayload(dir.baseline.gen + 1, dir.baseline.id))]
    /\ spent' = [spent EXCEPT !.epochs = @ + 1]
    /\ UNCHANGED <<dir, stages, archives, reader, authority, branch, now>>

WriteStage ==
    /\ At("stage")
    /\ stages' = stages \cup {owner.new}
    /\ owner' = [owner EXCEPT !.todo = Tail(@)]
    /\ UNCHANGED <<dir, archives, reader, authority, branch, now, spent>>

ArchiveActive ==
    /\ At("archive")
    /\ archives' = [id \in DOMAIN archives \cup {dir.baseline.id} |->
                       IF id = dir.baseline.id THEN dir ELSE archives[id]]
    /\ dir' = EmptyDirectory
    /\ owner' = [owner EXCEPT !.todo = Tail(@)]
    /\ UNCHANGED <<stages, reader, authority, branch, now, spent>>

(* MUTANT: the predecessor is put back only when the new epoch was active. *)
PutBackIfActive(active) == IF active THEN <<Step("unstage"), Step("restore")>> ELSE <<>>

(* MUTANT: the failed epoch is staged again without asking whether it is   *)
(* there.                                                                  *)
PutBackAlways(active) == <<Step("unstage"), Step("restore")>>

PutBack(active) ==
    (IF active THEN <<Step("unstage")>> ELSE <<>>) \o <<Step("restore")>>

ActivateStage ==
    /\ At("activate")
    /\ IF Archived(owner.new.baseline)
       THEN /\ dir' = owner.new
            /\ stages' = stages \ {owner.new}
            /\ owner' = [owner EXCEPT !.todo = Tail(@)]
       ELSE /\ owner' = [owner EXCEPT !.todo = PutBack(FALSE)]
            /\ UNCHANGED <<dir, stages>>
    /\ UNCHANGED <<archives, reader, authority, branch, now, spent>>

VerifyActive ==
    /\ At("verify")
    /\ owner' = IF BaselineLoads(dir, owner.new.baseline) /\ now - owner.new.baseline.at <= Day
                THEN Nothing ELSE [owner EXCEPT !.todo = PutBack(TRUE)]
    /\ UNCHANGED <<dir, stages, archives, reader, authority, branch, now, spent>>

Unstage ==
    /\ At("unstage")
    /\ stages' = stages \cup {dir}
    /\ dir' = EmptyDirectory
    /\ owner' = [owner EXCEPT !.todo = Tail(@)]
    /\ UNCHANGED <<archives, reader, authority, branch, now, spent>>

Restore ==
    /\ At("restore")
    /\ dir' = archives[owner.new.baseline.prev]
    /\ archives' = [id \in DOMAIN archives \ {owner.new.baseline.prev} |-> archives[id]]
    /\ owner' = Nothing
    /\ UNCHANGED <<stages, reader, authority, branch, now, spent>>

(* The Owner's process is killed; its lock goes with it.                   *)
Crash ==
    /\ ~Idle
    /\ spent.crashes < MaxCrashes
    /\ owner' = Nothing
    /\ spent' = [spent EXCEPT !.crashes = @ + 1]
    /\ UNCHANGED <<dir, stages, archives, reader, authority, branch, now>>

-----------------------------------------------------------------------------
(* The delivery.  Every load reads one file and then, later, the files     *)
(* that must confirm it.  A load that raises or returns no evidence ends   *)
(* the delivery: absent evidence is UNKNOWN, and UNKNOWN is CRITICAL.      *)

Awaiting ==
    [pc |-> "idle", kind |-> "rollback", started |-> 0, auth |-> 0, baseline |-> None,
     rollback |-> None, incident |-> None, decision |-> None, seen |-> EmptyDirectory.ledgers]

Reads(pc) == reader.pc = pc
Refuse == reader' = Awaiting
Proceed(pc) == reader' = [reader EXCEPT !.pc = pc]
EnvUnchanged == UNCHANGED <<ownerVars, authority, branch, now, spent>>

StartAssessment ==
    /\ Reads("idle")
    /\ reader' = [Awaiting EXCEPT
                    !.pc = "baseline", !.auth = authority.generation, !.started = now,
                    !.seen = dir.ledgers]
    /\ EnvUnchanged

ReadBaseline ==
    /\ Reads("baseline")
    /\ IF dir.baseline = None THEN Refuse
       ELSE reader' = [reader EXCEPT !.pc = "baseline files", !.baseline = dir.baseline]
    /\ EnvUnchanged

CheckBaseline ==
    /\ Reads("baseline files")
    /\ IF BaselineLoads(dir, reader.baseline) THEN Proceed("evidence") ELSE Refuse
    /\ EnvUnchanged

ReadEvidence ==
    /\ Reads("evidence")
    /\ IF dir[reader.kind] = None THEN Refuse
       ELSE reader' = [reader EXCEPT !.pc = "evidence files", ![reader.kind] = dir[reader.kind]]
    /\ EnvUnchanged

Prospective(e) ==
    /\ e.baseline = reader.baseline.id
    /\ e.start >= reader.baseline.at
    /\ e.start <= reader.started

CheckEvidence ==
    /\ Reads("evidence files")
    /\ LET e == reader[reader.kind] IN
       IF ~(EvidenceLoads(dir, reader.kind, e) /\ Fresh(e) /\ Prospective(e)) THEN Refuse
       ELSE IF reader.kind = "rollback"
            THEN reader' = [reader EXCEPT !.pc = "baseline", !.kind = "incident"]
            ELSE Proceed("assess")
    /\ EnvUnchanged

-----------------------------------------------------------------------------
(* Risk.  Levels are ordered; what the patch, the review and the           *)
(* validations say is one of the signals.                                  *)

Levels == <<"LOW", "MEDIUM", "HIGH", "CRITICAL">>
RollbackLevel(e) == IF e.count = 0 THEN 1 ELSE 3
IncidentLevel(e) == IF e.count = 0 THEN 1 ELSE 3
RiskLevel(patch) ==
    LET signals == {patch, RollbackLevel(reader.rollback), IncidentLevel(reader.incident)}
    IN CHOOSE l \in signals : \A s \in signals : s <= l

(* MUTANT: each observation is checked, but not that they are of one time. *)
AnySnapshot == TRUE

(* Both kinds were observed up to the same time.                           *)
OneSnapshot == reader.rollback.end = reader.incident.end

Assess ==
    /\ Reads("assess")
    /\ IF /\ \A k \in Kinds : reader[k].auth = authority.generation
          /\ OneSnapshot
       THEN \E patch \in DOMAIN Levels :
               IF Levels[RiskLevel(patch)] = "CRITICAL" THEN Refuse ELSE Proceed("decide")
       ELSE Refuse
    /\ EnvUnchanged

(* MUTANT: the assessment is not compared with the authority in force. *)
AnyAuthority == TRUE

(* risk-authority: the assessment was made under the generation in force.  *)
AssessedUnderCurrent == reader.auth = authority.generation

(* The snapshot is found in the coverage of both observations, at either   *)
(* end, and is fresh under the policy.                                     *)
SnapshotBound ==
    /\ now - reader.rollback.end <= MaxAge
    /\ \A k \in Kinds : reader.rollback.end \in {reader[k].start, reader[k].end}

Decide ==
    /\ Reads("decide")
    /\ IF AssessedUnderCurrent /\ SnapshotBound
       THEN reader' = [reader EXCEPT !.pc = "policy", !.auth = authority.generation]
       ELSE Refuse
    /\ EnvUnchanged

(* merge_policy_from_verified_active reads the authority again.            *)
ActivePolicy == [auth |-> authority.generation, stop |-> authority.stopped]

(* The switch blocks by itself and as a gate; the other gates are the      *)
(* delivery's own facts, checked before.                                   *)
Eligible(policy) == ~policy.stop

Evaluate ==
    /\ Reads("policy")
    /\ IF Eligible(ActivePolicy)
       THEN reader' = [reader EXCEPT
                         !.pc = "compliance", !.decision = [auth |-> ActivePolicy.auth, at |-> now]]
       ELSE Refuse
    /\ EnvUnchanged

(* Compliance compares the decision with the policy active by then: its    *)
(* generation, its stop signal, the decision's expiry and the gates' age.  *)
Comply ==
    /\ Reads("compliance")
    /\ IF /\ reader.decision.auth = ActivePolicy.auth
          /\ now - reader.decision.at < MaxAge
          /\ now - reader.decision.at <= GateAge
       THEN Proceed("approved") ELSE Refuse
    /\ EnvUnchanged

Deliver ==
    /\ Reads("approved")
    /\ Refuse
    /\ EnvUnchanged

-----------------------------------------------------------------------------
(* The world around them.                                                  *)

Tick ==
    /\ now < MaxTime
    /\ now' = now + 1
    /\ UNCHANGED <<ownerVars, reader, authority, branch, spent>>

(* An event is appended to a ledger of the active directory.               *)
RecordEvent(k) ==
    /\ dir.ledgers[k] # None
    /\ dir.ledgers[k].records < MaxEvents
    /\ dir' = [dir EXCEPT !.ledgers[k].records = @ + 1]
    /\ UNCHANGED <<stages, archives, owner, reader, authority, branch, now, spent>>

Change ==
    /\ spent.changes < MaxChanges
    /\ spent' = [spent EXCEPT !.changes = @ + 1]

(* Every publication and every change of the switch is a new generation.   *)
ChangeAuthority ==
    /\ Change
    /\ \E stopped \in BOOLEAN :
          authority' = [generation |-> authority.generation + 1, stopped |-> stopped]
    /\ UNCHANGED <<ownerVars, reader, branch, now>>

Commit ==
    /\ Change
    /\ branch' = [branch EXCEPT !.head = @ + 1]
    /\ UNCHANGED <<ownerVars, reader, authority, now>>

RefreshRegistry ==
    /\ branch.registered # branch.head
    /\ branch' = [branch EXCEPT !.registered = branch.head]
    /\ UNCHANGED <<ownerVars, reader, authority, now, spent>>

Init ==
    /\ dir = EmptyDirectory
    /\ stages = {}
    /\ archives = [id \in {} |-> EmptyDirectory]
    /\ owner = Nothing
    /\ reader = Awaiting
    /\ authority = [generation |-> 1, stopped |-> FALSE]
    /\ branch = [head |-> 1, registered |-> 1]
    /\ now = 1
    /\ spent = [epochs |-> 0, renewals |-> 0, changes |-> 0, crashes |-> 0]

OwnerStep ==
    \/ CreateBaseline
    \/ \E op \in Ops : RenewEvidence(op)
    \/ WriteFile
    \/ Rollover \/ WriteStage \/ ArchiveActive \/ ActivateStage
    \/ VerifyActive \/ Unstage \/ Restore
    \/ Crash

ReaderStep ==
    \/ StartAssessment \/ ReadBaseline \/ CheckBaseline \/ ReadEvidence \/ CheckEvidence
    \/ Assess \/ Decide \/ Evaluate \/ Comply \/ Deliver

WorldStep ==
    \/ Tick
    \/ \E k \in Kinds : RecordEvent(k)
    \/ ChangeAuthority \/ Commit \/ RefreshRegistry

Next == OwnerStep \/ ReaderStep \/ WorldStep

Spec == Init /\ [][Next]_vars

-----------------------------------------------------------------------------
(* Properties.                                                             *)

DirectoryOK(d) ==
    /\ DOMAIN d = Files
    /\ d["baseline"] \in Baselines \cup {None}
    /\ d["ledgers"] \in [Kinds -> Ledgers \cup {None}]
    /\ \A k \in Kinds : d[k] \in Observations \cup {None}
    /\ d["activation"] \in Activations \cup {None}

Places ==
    {"idle", "baseline", "baseline files", "evidence", "evidence files", "assess", "decide",
     "policy", "compliance", "approved"}

ReaderOK ==
    /\ DOMAIN reader = DOMAIN Awaiting
    /\ reader.pc \in Places
    /\ reader.kind \in Kinds
    /\ {reader.started, reader.auth} \subseteq Nat
    /\ reader.baseline \in Baselines \cup {None}
    /\ \A k \in Kinds : reader[k] \in Observations \cup {None}
    /\ reader.seen \in [Kinds -> Ledgers \cup {None}]

(* The values the files, the delivery and the bounds may take.             *)
TypeOK ==
    /\ DirectoryOK(dir)
    /\ \A s \in stages : DirectoryOK(s)
    /\ \A id \in DOMAIN archives : DirectoryOK(archives[id])
    /\ ReaderOK
    /\ authority \in [generation : Nat, stopped : BOOLEAN]
    /\ branch \in [head : Nat, registered : Nat]
    /\ now \in Nat
    /\ spent \in [epochs : Nat, renewals : Nat, changes : Nat, crashes : Nat]

(* What _risk_assessment_for_attempt combines is one observation: the two  *)
(* files a decision rests on were written by one renewal, of the baseline  *)
(* it read, although they were read at different times with renewals,      *)
(* rollovers and crashes between.                                          *)
OneObservation ==
    Reads("approved") =>
        /\ reader.rollback.op = reader.incident.op
        /\ reader.rollback.gen = reader.incident.gen
        /\ reader.rollback.end = reader.incident.end
        /\ \A k \in Kinds : reader[k].baseline = reader.baseline.id

(* The baseline, both observations and the assessment a decision rests on  *)
(* were made under one authority generation, the one that was in force     *)
(* when _integrity_bound_decision took them up.                            *)
OneAuthority ==
    reader.pc \in {"policy", "compliance", "approved"} =>
        /\ reader.baseline.auth = reader.auth
        /\ \A k \in Kinds : reader[k].auth = reader.auth

(* A delivery is never approved on a count of events lower than what the   *)
(* ledgers of its epoch already held when the assessment began.  (Events   *)
(* that reach the ledgers of an epoch whose rollover then fails stay in    *)
(* its staged directory, and the restored epoch does not count them.)      *)
NoUnseenEvent ==
    Reads("approved") =>
        \A k \in Kinds :
            reader.seen[k] # None /\ reader.seen[k].baseline = reader.baseline.id
            => reader[k].count >= reader.seen[k].records

(* An active epoch rests on every epoch before it, as signed, and a        *)
(* rollover that fails without being killed leaves an active epoch behind. *)
EpochChain ==
    /\ dir.baseline # None => Chain(dir.baseline)
    /\ Idle /\ spent.crashes = 0 /\ spent.epochs > 0 => dir.baseline # None

(* A renewal whose target, authority and time are right and whose          *)
(* predecessor is committed is not refused because the append-only ledgers *)
(* have advanced since they were signed (owner_ed25519_authority.py:726).  *)
LedgerMayAdvance ==
    Idle /\ dir.baseline # None /\ dir.bactivation = dir.baseline.id
         /\ dir.baseline.head = branch.head /\ BoundNow(dir.baseline) /\ Chain(dir.baseline)
         /\ Symmetric /\ ~First
         /\ (\A k \in Kinds : CommittedRenewal(dir, k, dir[k]))
         /\ now > CoverageStart
    => \A op \in Ops \ {dir[k].op : k \in Kinds} : RenewAccepted(op)
=============================================================================
