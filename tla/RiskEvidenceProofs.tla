-------------------------- MODULE RiskEvidenceProofs --------------------------
(***************************************************************************)
(* Proofs about RiskEvidence, for any operation ids and bounds: its types  *)
(* with the shape of what an Owner command has still to do, and what a     *)
(* delivery decision rests on.                                             *)
(***************************************************************************)
EXTENDS RiskEvidence, SequenceTheorems, TLAPS

-----------------------------------------------------------------------------
(* Types, and what an Owner command has still to do.                       *)

(* What a rollover has still to do, by its next step.                      *)
ToStage == <<Step("stage"), Step("archive"), Step("activate"), Step("verify")>>
ToArchive == <<Step("archive"), Step("activate"), Step("verify")>>
ToActivate == <<Step("activate"), Step("verify")>>
ToVerify == <<Step("verify")>>
ToUnstage == <<Step("unstage"), Step("restore")>>
ToRestore == <<Step("restore")>>

(* A rollover before the active directory is archived, while no directory  *)
(* is active, and while the new one is.                                    *)
Before == owner.todo \in {ToStage, ToArchive}
Staged == owner.todo \in {ToActivate, ToRestore}
Active == owner.todo \in {ToVerify, ToUnstage}
Rolling == Before \/ Staged \/ Active

(* The directory that a failed rollover puts back.                         *)
Old == archives[owner.new.baseline.prev]

(* What a command writes into the directory has the type of its file.      *)
ItemOK(w) ==
    /\ w.file \in Files
    /\ w.file = "baseline" => w.value \in Baselines
    /\ w.file = "ledgers" => w.value \in [Kinds -> Ledgers]
    /\ w.file \in Kinds => w.value \in Observations
    /\ w.file = "activation" => w.value \in Activations

(* The rollover at hand: the new directory, the active one, the archive.   *)
RolloverOK ==
    /\ owner.new.baseline \in Baselines
    /\ owner.new.baseline.id = spent.epochs
    /\ owner.new.baseline.prev < spent.epochs
    /\ owner.new = NewDirectory(owner.new.baseline)
    /\ Before =>
          /\ dir.baseline # None
          /\ owner.new.baseline.prev = dir.baseline.id
          /\ dir.baseline.id \notin DOMAIN archives
    /\ Staged => dir = EmptyDirectory
    /\ Active =>
          /\ dir.baseline = owner.new.baseline
          /\ dir.rollback = None
          /\ dir.activation = None
          /\ \A k \in Kinds : dir.ledgers[k] # None => dir.ledgers[k].baseline = spent.epochs
    /\ Staged \/ Active => owner.new.baseline.prev \in DOMAIN archives

Writing == \A i \in DOMAIN owner.todo : ItemOK(owner.todo[i])

TodoOK ==
    /\ DOMAIN owner = {"todo", "new"}
    /\ \E S : owner.todo \in Seq(S)
    /\ Writing \/ (Rolling /\ RolloverOK)

(* Baselines are numbered as they are signed, each after its predecessor,  *)
(* and archived under their number; the first of all has none.             *)
NumberOK(b) == b.prev < b.id /\ b.id <= spent.epochs
Numbered ==
    /\ dir.baseline # None => NumberOK(dir.baseline)
    /\ \A id \in DOMAIN archives :
          /\ archives[id].baseline # None
          /\ archives[id].baseline.id = id
          /\ NumberOK(archives[id].baseline)
    /\ \A i \in DOMAIN owner.todo : owner.todo[i].file = "baseline" =>
          /\ NumberOK(owner.todo[i].value)
          /\ owner.todo[i].value.gen = 1
          /\ owner.todo[i].value.prev = 0

Shape == TypeOK /\ TodoOK

(* Sequences put together from tuples.                                     *)
LEMMA TwoTuple == ASSUME NEW a, NEW b PROVE <<a>> \o <<b>> = <<a, b>>
<1> DEFINE s == <<a>> \o <<b>>
           t == <<a, b>>
<1>1. <<a>> \in Seq({a, b}) /\ <<b>> \in Seq({a, b}) /\ t \in Seq({a, b})
  OBVIOUS
<1>2. s \in Seq({a, b}) /\ Len(s) = 2 /\ Len(t) = 2
  BY <1>1
<1>3. \A i \in 1..Len(s) : s[i] = t[i]
  BY <1>1, <1>2
<1> HIDE DEF s, t
<1>4. s = t
  BY <1>1, <1>2, <1>3, SeqEqual
<1> QED
  BY <1>4 DEF s, t

LEMMA FiveTuple ==
  ASSUME NEW a, NEW b, NEW c, NEW d, NEW e
  PROVE  <<a>> \o (<<>> \o <<b, c, d, e>>) = <<a, b, c, d, e>>
<1> DEFINE S == {a, b, c, d, e}
           s == <<a>> \o (<<>> \o <<b, c, d, e>>)
           t == <<a, b, c, d, e>>
<1>1. <<a>> \in Seq(S) /\ <<>> \in Seq(S) /\ <<b, c, d, e>> \in Seq(S) /\ t \in Seq(S)
  OBVIOUS
<1>2. s \in Seq(S) /\ Len(s) = 5 /\ Len(t) = 5
  BY <1>1
<1>3. \A i \in 1..Len(s) : s[i] = t[i]
  BY <1>1, <1>2
<1> HIDE DEF s, t, S
<1>4. s = t
  BY <1>1, <1>2, <1>3, SeqEqual
<1> QED
  BY <1>4 DEF s, t

LEMMA SevenTuple ==
  ASSUME NEW a, NEW f, NEW g, NEW b, NEW c, NEW d, NEW e
  PROVE  <<a>> \o (<<f, g>> \o <<b, c, d, e>>) = <<a, f, g, b, c, d, e>>
<1> DEFINE S == {a, b, c, d, e, f, g}
           s == <<a>> \o (<<f, g>> \o <<b, c, d, e>>)
           t == <<a, f, g, b, c, d, e>>
<1>1. <<a>> \in Seq(S) /\ <<f, g>> \in Seq(S) /\ <<b, c, d, e>> \in Seq(S) /\ t \in Seq(S)
  OBVIOUS
<1>2. s \in Seq(S) /\ Len(s) = 7 /\ Len(t) = 7
  BY <1>1
<1>3. \A i \in 1..Len(s) : s[i] = t[i]
  BY <1>1, <1>2
<1> HIDE DEF s, t, S
<1>4. s = t
  BY <1>1, <1>2, <1>3, SeqEqual
<1> QED
  BY <1>4 DEF s, t

(* The steps of a rollover and of putting the old directory back.          *)
LEMMA RolloverSteps ==
  /\ Tail(ToStage) = ToArchive /\ Tail(ToArchive) = ToActivate
  /\ Tail(ToActivate) = ToVerify /\ Tail(ToUnstage) = ToRestore
  /\ PutBack(TRUE) = ToUnstage /\ PutBack(FALSE) = ToRestore
<1>1. PutBack(TRUE) = ToUnstage
  BY TwoTuple DEF PutBack, ToUnstage
<1>2. PutBack(FALSE) = ToRestore
  BY DEF PutBack, ToRestore
<1>3. Tail(ToStage) = ToArchive /\ Tail(ToArchive) = ToActivate
  BY DEF ToStage, ToArchive, ToActivate
<1>4. Tail(ToActivate) = ToVerify /\ Tail(ToUnstage) = ToRestore
  BY DEF ToActivate, ToVerify, ToUnstage, ToRestore
<1> QED
  BY <1>1, <1>2, <1>3, <1>4

LEMMA NextSteps ==
  /\ ToStage # <<>> /\ ToArchive # <<>> /\ ToActivate # <<>>
  /\ ToVerify # <<>> /\ ToUnstage # <<>> /\ ToRestore # <<>>
  /\ Head(ToStage).file = "stage" /\ Head(ToArchive).file = "archive"
  /\ Head(ToActivate).file = "activate" /\ Head(ToVerify).file = "verify"
  /\ Head(ToUnstage).file = "unstage" /\ Head(ToRestore).file = "restore"
  BY DEF ToStage, ToArchive, ToActivate, ToVerify, ToUnstage, ToRestore, Step

LEMMA StepsAreSequences ==
  ASSUME NEW s \in {ToStage, ToArchive, ToActivate, ToVerify, ToUnstage, ToRestore}
  PROVE  \E S : s \in Seq(S)
<1> DEFINE S == {Step("stage"), Step("archive"), Step("activate"), Step("verify"),
                 Step("unstage"), Step("restore")}
<1>1. ToStage \in Seq(S) /\ ToArchive \in Seq(S)
  BY DEF ToStage, ToArchive
<1>2. ToActivate \in Seq(S) /\ ToVerify \in Seq(S)
  BY DEF ToActivate, ToVerify
<1>3. ToUnstage \in Seq(S) /\ ToRestore \in Seq(S)
  BY DEF ToUnstage, ToRestore
<1> HIDE DEF S
<1> QED
  BY <1>1, <1>2, <1>3

(* Which step comes next tells what is left to do.                         *)
LEMMA StepIsAt ==
  ASSUME TodoOK, NEW name \in {"stage", "archive", "activate", "verify", "unstage", "restore"},
         At(name)
  PROVE  /\ Rolling /\ RolloverOK
         /\ name = "stage" => owner.todo = ToStage
         /\ name = "archive" => owner.todo = ToArchive
         /\ name = "activate" => owner.todo = ToActivate
         /\ name = "verify" => owner.todo = ToVerify
         /\ name = "unstage" => owner.todo = ToUnstage
         /\ name = "restore" => owner.todo = ToRestore
<1>1. ~Writing
  <2>1. owner.todo # <<>> /\ Head(owner.todo).file = name
    BY DEF At, Idle
  <2>2. 1 \in DOMAIN owner.todo /\ owner.todo[1].file = name
    BY <2>1 DEF TodoOK
  <2>3. name \notin Files
    BY DEF Files
  <2> QED
    BY <2>2, <2>3 DEF Writing, ItemOK
<1>2. Rolling /\ RolloverOK
  BY <1>1 DEF TodoOK
<1>3. Head(owner.todo).file = name
  BY DEF At
<1> QED
  BY <1>2, <1>3, NextSteps DEF Rolling, Before, Staged, Active

(* A file is only written by a command that writes files.                  *)
LEMMA WriteIsWriting ==
  ASSUME TodoOK, ~Idle, Head(owner.todo).file \in Files
  PROVE  Writing /\ 1 \in DOMAIN owner.todo /\ owner.todo[1] = Head(owner.todo)
<1>1. 1 \in DOMAIN owner.todo /\ owner.todo[1] = Head(owner.todo)
  BY DEF TodoOK, Idle
<1>2. ~Rolling
  BY NextSteps DEF Rolling, Before, Staged, Active, Files
<1> QED
  BY <1>1, <1>2 DEF TodoOK

(* No rollover is under way when nothing is left to do.                    *)
LEMMA IdleIsWriting ==
  ASSUME NEW s, s = <<>>
  PROVE  /\ s \notin {ToStage, ToArchive, ToActivate, ToVerify, ToUnstage, ToRestore}
         /\ \E S : s \in Seq(S)
         /\ \A i \in DOMAIN s : ItemOK(s[i])
<1>1. s \in Seq({})
  OBVIOUS
<1>2. DOMAIN s = {}
  OBVIOUS
<1> QED
  BY <1>1, <1>2, NextSteps

(* One step of a command leaves the rest of it to do.                      *)
LEMMA TodoTail ==
  ASSUME TodoOK, ~Idle, owner' = [owner EXCEPT !.todo = Tail(@)]
  PROVE  /\ DOMAIN owner' = {"todo", "new"}
         /\ owner'.todo = Tail(owner.todo)
         /\ owner'.new = owner.new
         /\ \E S : owner'.todo \in Seq(S)
         /\ Len(owner.todo) \in Nat \ {0}
         /\ DOMAIN owner.todo = 1..Len(owner.todo)
         /\ DOMAIN owner'.todo = 1..(Len(owner.todo) - 1)
         /\ Len(owner'.todo) = Len(owner.todo) - 1
         /\ \A i \in DOMAIN owner'.todo : owner'.todo[i] = owner.todo[i + 1]
<1>1. PICK S : owner.todo \in Seq(S)
  BY DEF TodoOK
<1>2. /\ DOMAIN owner' = {"todo", "new"}
      /\ owner'.todo = Tail(owner.todo)
      /\ owner'.new = owner.new
  BY DEF TodoOK
<1>3. owner.todo # <<>>
  BY DEF Idle
<1>4. /\ Tail(owner.todo) \in Seq(S)
      /\ Len(owner.todo) \in Nat \ {0}
      /\ DOMAIN owner.todo = 1..Len(owner.todo)
      /\ Len(Tail(owner.todo)) = Len(owner.todo) - 1
      /\ DOMAIN Tail(owner.todo) = 1..(Len(owner.todo) - 1)
      /\ \A i \in 1..(Len(owner.todo) - 1) : Tail(owner.todo)[i] = owner.todo[i + 1]
  BY <1>1, <1>3
<1> QED
  BY <1>2, <1>4

(* Writing a file changes that file and nothing else.                      *)
LEMMA FileWritten ==
  ASSUME Shape, WriteFile
  PROVE  /\ Writing /\ Writing'
         /\ 1 \in DOMAIN owner.todo
         /\ owner.todo[1] = Head(owner.todo)
         /\ DOMAIN dir' = Files
         /\ \A f \in Files : dir'[f] = IF f = owner.todo[1].file THEN owner.todo[1].value ELSE dir[f]
<1>1. /\ Writing
      /\ 1 \in DOMAIN owner.todo
      /\ owner.todo[1] = Head(owner.todo)
  BY WriteIsWriting DEF Shape, TypeOK, DirectoryOK, WriteFile
<1>2. Writing'
  <2>1. \A i \in DOMAIN owner'.todo : i + 1 \in DOMAIN owner.todo /\ owner'.todo[i] = owner.todo[i + 1]
    BY TodoTail DEF WriteFile, Shape
  <2> QED
    BY <1>1, <2>1 DEF Writing, ItemOK
<1>3. /\ DOMAIN dir' = Files
      /\ \A f \in Files : dir'[f] = IF f = owner.todo[1].file THEN owner.todo[1].value ELSE dir[f]
  <2>1. DOMAIN dir = Files
    BY DEF Shape, TypeOK, DirectoryOK
  <2>2. dir' = [dir EXCEPT ![owner.todo[1].file] = owner.todo[1].value]
    BY <1>1 DEF WriteFile
  <2> QED
    BY <2>1, <2>2
<1> QED
  BY <1>1, <1>2, <1>3

(* The directory that holds nothing, and the one of a new baseline.        *)
LEMMA EmptyDirectoryFiles ==
  /\ DOMAIN EmptyDirectory = Files
  /\ EmptyDirectory.baseline = None /\ EmptyDirectory.activation = None
  /\ EmptyDirectory.rollback = None /\ EmptyDirectory.incident = None
  /\ EmptyDirectory.ledgers = [k \in Kinds |-> None]
  /\ DirectoryOK(EmptyDirectory)
<1>1. /\ DOMAIN EmptyDirectory = Files
      /\ EmptyDirectory.baseline = None /\ EmptyDirectory.activation = None
      /\ EmptyDirectory.rollback = None /\ EmptyDirectory.incident = None
      /\ EmptyDirectory.ledgers = [k \in Kinds |-> None]
  BY DEF EmptyDirectory, Files
<1> QED
  BY <1>1 DEF DirectoryOK, Kinds

LEMMA NewDirectoryFiles ==
  ASSUME NEW b \in Baselines
  PROVE  /\ DOMAIN NewDirectory(b) = Files
         /\ NewDirectory(b).baseline = b /\ NewDirectory(b).activation = None
         /\ NewDirectory(b).rollback = None /\ NewDirectory(b).incident = None
         /\ NewDirectory(b).ledgers = [k \in Kinds |-> [baseline |-> b.id, records |-> 0]]
         /\ DirectoryOK(NewDirectory(b))
         /\ b # None
<1>1. /\ DOMAIN NewDirectory(b) = Files
      /\ NewDirectory(b).baseline = b /\ NewDirectory(b).activation = None
      /\ NewDirectory(b).rollback = None /\ NewDirectory(b).incident = None
      /\ NewDirectory(b).ledgers = [k \in Kinds |-> [baseline |-> b.id, records |-> 0]]
  BY EmptyDirectoryFiles DEF NewDirectory, EmptyLedgers, Files
<1>2. b.id \in Nat /\ b # None
  BY NoneIsAbsent DEF Baselines
<1>3. NewDirectory(b).ledgers \in [Kinds -> Ledgers \cup {None}]
  BY <1>1, <1>2 DEF Ledgers
<1> QED
  BY <1>1, <1>2, <1>3 DEF DirectoryOK, Kinds

(* The next baseline is a baseline, with the next id.                      *)
LEMMA PayloadIsBaseline ==
  ASSUME TypeOK, NEW gen \in Nat \ {0}, NEW prev \in Nat
  PROVE  /\ BaselinePayload(gen, prev) \in Baselines
         /\ BaselinePayload(gen, prev).id = spent.epochs + 1
         /\ BaselinePayload(gen, prev).gen = gen
         /\ BaselinePayload(gen, prev).prev = prev
         /\ BaselinePayload(gen, prev).at = now
<1>1. /\ spent.epochs + 1 \in Nat \ {0}
      /\ authority.generation \in Nat /\ branch.head \in Nat /\ now \in Nat
  BY DEF TypeOK
<1> QED
  BY <1>1 DEF BaselinePayload, Baselines

(* What CreateBaseline has to write.                                       *)
LEMMA BaselineTodo ==
  ASSUME NEW b \in Baselines, NEW s, s = BaselineWrites(b)
  PROVE  /\ DOMAIN s = 1..5 /\ \E S : s \in Seq(S)
         /\ s[1].file = "bjournal" /\ s[4].file = "bjournal" /\ s[5].file = "bactivation"
         /\ s[2].file = "ledgers"
         /\ s[2].value = [k \in Kinds |-> [baseline |-> b.id, records |-> 0]]
         /\ s[3].file = "baseline" /\ s[3].value = b
         /\ \A i \in DOMAIN s : ItemOK(s[i])
<1>1. PICK v1, v4 : s = << Write("bjournal", v1), Write("ledgers", EmptyLedgers(b)),
                          Write("baseline", b), Write("bjournal", v4), Write("bactivation", b.id) >>
  BY DEF BaselineWrites
<1>2. DOMAIN s = 1..5
  BY <1>1
<1>3. \E S : s \in Seq(S)
  <2> DEFINE S == {Write("bjournal", v1), Write("ledgers", EmptyLedgers(b)),
                   Write("baseline", b), Write("bjournal", v4), Write("bactivation", b.id)}
  <2>1. s \in Seq(S)
    BY <1>1
  <2> HIDE DEF S
  <2> QED
    BY <2>1
<1>4. /\ s[1].file = "bjournal" /\ s[4].file = "bjournal" /\ s[5].file = "bactivation"
      /\ s[2].file = "ledgers"
      /\ s[2].value = [k \in Kinds |-> [baseline |-> b.id, records |-> 0]]
      /\ s[3].file = "baseline" /\ s[3].value = b
  BY <1>1 DEF Write, EmptyLedgers
<1>5. s[2].value \in [Kinds -> Ledgers]
  <2>1. b.id \in Nat
    BY DEF Baselines
  <2> QED
    BY <1>4, <2>1 DEF Ledgers
<1>6. \A i \in 1..5 : ItemOK(s[i])
  BY <1>4, <1>5 DEF ItemOK, Files, Kinds
<1> QED
  BY <1>2, <1>3, <1>4, <1>6

(* What a renewal observes, counts and activates is of its type.           *)
LEMMA RenewalValues ==
  ASSUME TypeOK, NEW op \in Ops, RenewAccepted(op)
  PROVE  /\ \A k \in Kinds : Observation(k, op) \in Observations
         /\ \A k \in Kinds : Observation(k, op).end = now
         /\ CoverageStart \in Nat /\ now > CoverageStart
         /\ [k \in Kinds |-> Hash(Observation(k, op))] \in [Kinds -> Hashes]
         /\ \A k \in Kinds : Hash(Observation(k, op))[2] = now
         /\ dir.baseline \in Baselines
         /\ Observation("rollback", op).gen \in Nat
<1>1. dir.baseline \in Baselines /\ dir.baseline.id \in Nat /\ dir.baseline.at \in Nat
  BY DEF RenewAccepted, TypeOK, DirectoryOK, Baselines
<1>2. ~First => dir["rollback"].gen \in Nat /\ dir["rollback"].end \in Nat
  BY DEF First, TypeOK, DirectoryOK, Observations, Kinds
<1>3. \A k \in Kinds : dir.ledgers[k].records \in Nat
  BY DEF RenewAccepted, TypeOK, DirectoryOK, Ledgers
<1>4. \A k \in Kinds : HashOrNone(dir[k]) \in Hashes \cup {None}
  <2> SUFFICES ASSUME NEW k \in Kinds, dir[k] # None PROVE Hash(dir[k]) \in Hashes
    BY DEF HashOrNone
  <2>1. dir[k] \in Observations
    BY DEF TypeOK, DirectoryOK
  <2> QED
    BY <2>1 DEF Hash, Hashes, Observations
<1>5. CoverageStart \in Nat
  BY <1>1, <1>2 DEF CoverageStart
<1>6. (IF First THEN 1 ELSE dir["rollback"].gen + 1) \in Nat
  BY <1>2
<1>7. authority.generation \in Nat /\ now \in Nat
  BY DEF TypeOK
<1>8. \A k \in Kinds : Observation(k, op) \in Observations
  <2> SUFFICES ASSUME NEW k \in Kinds PROVE Observation(k, op) \in Observations
    OBVIOUS
  <2>1. dir.ledgers[k].records \in Nat /\ HashOrNone(dir[k]) \in Hashes \cup {None}
    BY <1>3, <1>4
  <2> QED
    BY <1>1, <1>5, <1>6, <1>7, <2>1 DEF Observation, Observations
<1>9. \A k \in Kinds : Observation(k, op).end = now
  BY DEF Observation
<1>10. \A k \in Kinds : Hash(Observation(k, op)) \in Hashes /\ Hash(Observation(k, op))[2] = now
  BY <1>8, <1>9 DEF Hash, Hashes, Observations
<1>11. Observation("rollback", op).gen \in Nat
  BY <1>8 DEF Observations, Kinds
<1> QED
  BY <1>1, <1>5, <1>8, <1>9, <1>10, <1>11 DEF RenewAccepted

RenewedActivation(op) ==
    [op |-> op, gen |-> Observation("rollback", op).gen, baseline |-> dir.baseline.id,
     hash |-> [k \in Kinds |-> Hash(Observation(k, op))]]

(* What RenewEvidence has to write: the journal alone, or the copies, the  *)
(* two observations, the journal and last the activation.                  *)
LEMMA RenewalTodo ==
  ASSUME TypeOK, NEW op \in Ops, RenewAccepted(op), NEW s, s = RenewalWrites(op)
  PROVE  /\ \E S : s \in Seq(S)
         /\ \A i \in DOMAIN s : ItemOK(s[i])
         /\ \/ DOMAIN s = 1..1 /\ Len(s) = 1 /\ s[1].file = "journal"
            \/ \E n \in {5, 7} :
                  /\ Len(s) = n /\ DOMAIN s = 1..n
                  /\ \A i \in 1..(n - 4) : s[i].file \in {"journal", "history"}
                  /\ s[n - 3] = Write("rollback", Observation("rollback", op))
                  /\ s[n - 2] = Write("incident", Observation("incident", op))
                  /\ s[n - 1].file = "journal"
                  /\ s[n] = Write("activation", RenewedActivation(op))
<1> DEFINE r == Write("rollback", Observation("rollback", op))
           i == Write("incident", Observation("incident", op))
           a == Write("activation", RenewedActivation(op))
           p == Write("journal", RenewalJournal("PREPARED", op))
           c == Write("journal", RenewalJournal("COMMITTED", op))
           h == Write("history", dir.history \cup {Copy("rollback")})
           g == Write("history", dir.history \cup {Copy("rollback"), Copy("incident")})
<1>1. s = <<p>> \/ s = <<p, r, i, c, a>> \/ s = <<p, h, g, r, i, c, a>>
  <2>1. s = <<p>> \o (IF ~First /\ Copied THEN <<>> ELSE (Copies \o <<r, i, c, a>>))
    BY DEF RenewalWrites, RenewedActivation
  <2>2. Copies = IF First THEN <<>> ELSE <<h, g>>
    BY DEF Copies
  <2> HIDE DEF r, i, a, p, c, h, g
  <2>3. <<p>> \o <<>> = <<p>>
    OBVIOUS
  <2>4. <<p>> \o (<<>> \o <<r, i, c, a>>) = <<p, r, i, c, a>>
    BY FiveTuple
  <2>5. <<p>> \o (<<h, g>> \o <<r, i, c, a>>) = <<p, h, g, r, i, c, a>>
    BY SevenTuple
  <2> QED
    BY <2>1, <2>2, <2>3, <2>4, <2>5, Zenon
<1>2. /\ p.file = "journal" /\ c.file = "journal" /\ h.file = "history" /\ g.file = "history"
      /\ ItemOK(p) /\ ItemOK(c) /\ ItemOK(h) /\ ItemOK(g)
  BY DEF Write, ItemOK, Files, Kinds
<1>3. ItemOK(r) /\ ItemOK(i)
  BY RenewalValues DEF Write, ItemOK, Files, Kinds
<1>4. ItemOK(a)
  <2>1. RenewedActivation(op) \in Activations
    <3>1. dir.baseline.id \in Nat /\ Observation("rollback", op).gen \in Nat
          /\ [k \in Kinds |-> Hash(Observation(k, op))] \in [Kinds -> Hashes]
      BY RenewalValues DEF Baselines
    <3> QED
      BY <3>1 DEF RenewedActivation, Activations
  <2> QED
    BY <2>1 DEF Write, ItemOK, Files, Kinds
<1> HIDE DEF r, i, a, p, c, h, g
<1>5. CASE s = <<p>>
  <2>1. s \in Seq({p})
    BY <1>5
  <2>2. DOMAIN s = 1..1 /\ Len(s) = 1 /\ s[1] = p
    BY <1>5
  <2>3. \A j \in DOMAIN s : ItemOK(s[j])
    BY <1>2, <2>2
  <2> QED
    BY <1>2, <2>1, <2>2, <2>3
<1>6. CASE s = <<p, r, i, c, a>>
  <2>1. s \in Seq({p, r, i, c, a})
    BY <1>6
  <2>2. DOMAIN s = 1..5 /\ Len(s) = 5
    BY <1>6
  <2>3. s[1] = p /\ s[2] = r /\ s[3] = i /\ s[4] = c /\ s[5] = a
    BY <1>6
  <2>4. \A j \in 1..5 : ItemOK(s[j])
    BY <1>2, <1>3, <1>4, <2>3
  <2> QED
    BY <1>2, <2>1, <2>2, <2>3, <2>4 DEF r, i, a
<1>7. CASE s = <<p, h, g, r, i, c, a>>
  <2>1. s \in Seq({p, h, g, r, i, c, a})
    BY <1>7
  <2>2. DOMAIN s = 1..7 /\ Len(s) = 7
    BY <1>7
  <2>3. s[1] = p /\ s[2] = h /\ s[3] = g /\ s[4] = r /\ s[5] = i /\ s[6] = c /\ s[7] = a
    BY <1>7
  <2>4. \A j \in 1..7 : ItemOK(s[j])
    BY <1>2, <1>3, <1>4, <2>3
  <2>5. \A j \in 1..3 : s[j].file \in {"journal", "history"}
    BY <1>2, <2>3
  <2> QED
    BY <1>2, <2>1, <2>2, <2>3, <2>4, <2>5 DEF r, i, a
<1> QED
  BY <1>1, <1>5, <1>6, <1>7

LEMMA InitShape == Init => Shape
<1> SUFFICES ASSUME Init PROVE Shape
  OBVIOUS
<1>1. DirectoryOK(dir)
  BY EmptyDirectoryFiles DEF Init
<1>2. \A s \in stages : DirectoryOK(s)
  BY DEF Init
<1>3. DOMAIN archives = {}
  BY DEF Init
<1>4. ReaderOK
  <2>1. reader.seen = [k \in Kinds |-> None]
    BY EmptyDirectoryFiles DEF Init, Awaiting
  <2> QED
    BY <2>1 DEF Init, ReaderOK, Awaiting, Places, Kinds
<1>5. TodoOK
  <2>1. owner.todo = <<>> /\ DOMAIN owner = {"todo", "new"}
    BY DEF Init, Nothing
  <2> QED
    BY <2>1, IdleIsWriting DEF TodoOK, Writing
<1>6. /\ authority \in [generation : Nat, stopped : BOOLEAN]
      /\ branch \in [head : Nat, registered : Nat]
      /\ now \in Nat
      /\ spent \in [epochs : Nat, renewals : Nat, changes : Nat, crashes : Nat]
  BY DEF Init
<1> QED
  BY <1>1, <1>2, <1>3, <1>4, <1>5, <1>6 DEF Shape, TypeOK

(* Nothing left to do is of the right shape.                               *)
LEMMA NothingTodo == ASSUME owner' = Nothing PROVE TodoOK' /\ Writing' /\ ~Rolling' /\ owner'.todo = <<>>
<1>1. owner'.todo = <<>> /\ DOMAIN owner' = {"todo", "new"}
  BY DEF Nothing
<1> QED
  BY <1>1, IdleIsWriting DEF TodoOK, Writing, Rolling, Before, Staged, Active

(* The owner's work is not touched by what leaves its files alone.         *)
LEMMA TodoKept ==
  ASSUME Shape, UNCHANGED <<archives, owner>>, spent'.epochs = spent.epochs,
         UNCHANGED dir
  PROVE  TodoOK'
  BY DEF Shape, TodoOK, Writing, Rolling, Before, Staged, Active, RolloverOK

LEMMA CreateBaselineShape == ASSUME Shape, CreateBaseline PROVE Shape'
<1>1. BaselinePayload(1, 0) \in Baselines
  BY PayloadIsBaseline DEF Shape
<1>2. owner'.todo = BaselineWrites(BaselinePayload(1, 0)) /\ DOMAIN owner' = {"todo", "new"}
  BY DEF CreateBaseline, Shape, TodoOK
<1>3. TodoOK'
  BY <1>1, <1>2, BaselineTodo DEF TodoOK, Writing
<1>4. spent' \in [epochs : Nat, renewals : Nat, changes : Nat, crashes : Nat]
  BY DEF CreateBaseline, Shape, TypeOK
<1> QED
  BY <1>3, <1>4 DEF CreateBaseline, Shape, TypeOK, ReaderOK, DirectoryOK

LEMMA RenewEvidenceShape == ASSUME Shape, NEW op \in Ops, RenewEvidence(op) PROVE Shape'
<1>1. owner'.todo = RenewalWrites(op) /\ DOMAIN owner' = {"todo", "new"}
  BY DEF RenewEvidence, Shape, TodoOK
<1>2. TodoOK'
  BY <1>1, RenewalTodo DEF RenewEvidence, Shape, TodoOK, Writing
<1>3. spent' \in [epochs : Nat, renewals : Nat, changes : Nat, crashes : Nat]
  BY DEF RenewEvidence, Shape, TypeOK
<1> QED
  BY <1>2, <1>3 DEF RenewEvidence, Shape, TypeOK, ReaderOK, DirectoryOK

LEMMA WriteFileShape == ASSUME Shape, WriteFile PROVE Shape'
<1>1. TodoOK'
  BY FileWritten, TodoTail DEF WriteFile, Shape, TodoOK
<1>2. DirectoryOK(dir)'
  <2>1. ItemOK(owner.todo[1])
    BY FileWritten DEF Writing
  <2>2. DirectoryOK(dir)
    BY DEF Shape, TypeOK
  <2>3. dir'["baseline"] \in Baselines \cup {None}
    BY <2>1, <2>2, FileWritten DEF ItemOK, DirectoryOK, Files
  <2>4. dir'["ledgers"] \in [Kinds -> Ledgers \cup {None}]
    <3>1. CASE owner.todo[1].file = "ledgers"
      <4>1. dir'["ledgers"] \in [Kinds -> Ledgers]
        BY <2>1, <3>1, FileWritten DEF ItemOK, Files
      <4> QED
        BY <4>1
    <3>2. CASE owner.todo[1].file # "ledgers"
      BY <2>2, <3>2, FileWritten DEF DirectoryOK, Files
    <3> QED
      BY <3>1, <3>2
  <2>5. \A k \in Kinds : dir'[k] \in Observations \cup {None}
    BY <2>1, <2>2, FileWritten DEF ItemOK, DirectoryOK, Files, Kinds
  <2>6. dir'["activation"] \in Activations \cup {None}
    BY <2>1, <2>2, FileWritten DEF ItemOK, DirectoryOK, Files
  <2> QED
    BY <2>3, <2>4, <2>5, <2>6, FileWritten DEF DirectoryOK
<1> QED
  BY <1>1, <1>2 DEF WriteFile, Shape, TypeOK, ReaderOK

LEMMA RolloverShape == ASSUME Shape, Numbered, Rollover PROVE Shape'
<1> DEFINE b == BaselinePayload(dir.baseline.gen + 1, dir.baseline.id)
<1>1. dir.baseline \in Baselines
  BY DEF Rollover, Shape, TypeOK, DirectoryOK
<1>2. /\ b \in Baselines /\ b.id = spent.epochs + 1 /\ b.prev = dir.baseline.id
  <2>1. dir.baseline.gen + 1 \in Nat \ {0} /\ dir.baseline.id \in Nat
    BY <1>1 DEF Baselines
  <2> QED
    BY <2>1, PayloadIsBaseline DEF Shape
<1> HIDE DEF b
<1>3. owner'.todo = ToStage /\ owner'.new = NewDirectory(b) /\ DOMAIN owner' = {"todo", "new"}
  BY DEF Rollover, b, ToStage
<1>4. NewDirectory(b).baseline = b
  BY <1>2, NewDirectoryFiles
<1>5. spent' \in [epochs : Nat, renewals : Nat, changes : Nat, crashes : Nat]
      /\ spent'.epochs = spent.epochs + 1
  BY DEF Rollover, Shape, TypeOK
<1>6. Before' /\ ~Staged' /\ ~Active'
  BY <1>3, NextSteps DEF Before, Staged, Active
<1>7. dir.baseline.id < spent.epochs + 1
  BY <1>1 DEF Numbered, NumberOK, Rollover, Baselines, Shape, TypeOK
<1>8. RolloverOK'
  BY <1>2, <1>3, <1>4, <1>5, <1>6, <1>7 DEF Rollover, RolloverOK
<1>9. TodoOK'
  BY <1>3, <1>6, <1>8, StepsAreSequences DEF TodoOK, Rolling
<1> QED
  BY <1>5, <1>9 DEF Rollover, Shape, TypeOK, ReaderOK, DirectoryOK

LEMMA WriteStageShape == ASSUME Shape, WriteStage PROVE Shape'
<1>1. owner.todo = ToStage /\ RolloverOK
  BY StepIsAt DEF WriteStage, Shape
<1>2. owner'.todo = ToArchive /\ owner'.new = owner.new /\ DOMAIN owner' = {"todo", "new"}
  BY <1>1, RolloverSteps DEF WriteStage, Shape, TodoOK
<1>3. Before /\ Before' /\ ~Staged' /\ ~Active'
  BY <1>1, <1>2, NextSteps DEF Before, Staged, Active
<1>4. TodoOK'
  BY <1>1, <1>2, <1>3, StepsAreSequences DEF WriteStage, TodoOK, Rolling, RolloverOK
<1>5. DirectoryOK(owner.new)
  BY <1>1, NewDirectoryFiles DEF RolloverOK
<1>6. \A s \in stages' : DirectoryOK(s)
  BY <1>5 DEF WriteStage, Shape, TypeOK
<1> QED
  BY <1>4, <1>6 DEF WriteStage, Shape, TypeOK, ReaderOK, DirectoryOK

(* The active directory is archived under its number.                      *)
LEMMA Archiving ==
  ASSUME Shape, ArchiveActive
  PROVE  /\ owner.todo = ToArchive /\ owner'.todo = ToActivate /\ RolloverOK
         /\ Before /\ Staged' /\ ~Before' /\ ~Active'
         /\ owner'.new = owner.new
         /\ dir' = EmptyDirectory
         /\ owner.new.baseline.prev = dir.baseline.id
         /\ dir.baseline.id \notin DOMAIN archives
         /\ DOMAIN archives' = DOMAIN archives \cup {dir.baseline.id}
         /\ archives'[dir.baseline.id] = dir
         /\ \A id \in DOMAIN archives : archives'[id] = archives[id]
         /\ Old' = dir
<1>1. owner.todo = ToArchive /\ RolloverOK
  BY StepIsAt DEF ArchiveActive, Shape
<1>2. owner'.todo = ToActivate /\ owner'.new = owner.new
  BY <1>1, RolloverSteps DEF ArchiveActive, Shape, TodoOK
<1>3. Before /\ ~Before' /\ Staged' /\ ~Active'
  BY <1>1, <1>2, NextSteps DEF Before, Staged, Active
<1>4. owner.new.baseline.prev = dir.baseline.id /\ dir.baseline.id \notin DOMAIN archives
  BY <1>1, <1>3 DEF RolloverOK
<1>5. /\ DOMAIN archives' = DOMAIN archives \cup {dir.baseline.id}
      /\ archives'[dir.baseline.id] = dir
      /\ \A id \in DOMAIN archives : archives'[id] = archives[id]
  BY <1>4 DEF ArchiveActive
<1>6. Old' = dir
  BY <1>2, <1>4, <1>5 DEF Old
<1> QED
  BY <1>1, <1>2, <1>3, <1>4, <1>5, <1>6 DEF ArchiveActive

LEMMA ArchiveActiveShape == ASSUME Shape, ArchiveActive PROVE Shape'
<1>1. TodoOK'
  <2>1. DOMAIN owner' = {"todo", "new"}
    BY DEF ArchiveActive, Shape, TodoOK
  <2>2. RolloverOK'
    BY Archiving DEF ArchiveActive, RolloverOK
  <2> QED
    BY <2>1, <2>2, Archiving, StepsAreSequences DEF TodoOK, Rolling
<1>2. DirectoryOK(dir')
  BY Archiving, EmptyDirectoryFiles
<1>3. \A id \in DOMAIN archives' : DirectoryOK(archives'[id])
  BY Archiving DEF Shape, TypeOK
<1> QED
  BY <1>1, <1>2, <1>3 DEF ArchiveActive, Shape, TypeOK, ReaderOK, DirectoryOK

(* The staged directory is activated, or the old one is to be put back.    *)
LEMMA Activating ==
  ASSUME Shape, ActivateStage
  PROVE  /\ owner.todo = ToActivate /\ RolloverOK /\ Staged /\ ~Before /\ ~Active
         /\ owner'.new = owner.new /\ UNCHANGED archives
         /\ DOMAIN owner' = {"todo", "new"}
         /\ \/ /\ Archived(owner.new.baseline)
               /\ owner'.todo = ToVerify /\ Active' /\ ~Before' /\ ~Staged'
               /\ dir' = owner.new
            \/ /\ owner'.todo = ToRestore /\ Staged' /\ ~Before' /\ ~Active'
               /\ UNCHANGED <<dir, stages>>
         /\ stages' \subseteq stages
<1>1. owner.todo = ToActivate /\ RolloverOK
  BY StepIsAt DEF ActivateStage, Shape
<1>2. Staged /\ ~Before /\ ~Active
  BY <1>1, NextSteps DEF Before, Staged, Active
<1>3. owner'.new = owner.new /\ DOMAIN owner' = {"todo", "new"}
      /\ owner'.todo = IF Archived(owner.new.baseline) THEN ToVerify ELSE ToRestore
  BY <1>1, RolloverSteps DEF ActivateStage, Shape, TodoOK
<1>4. CASE Archived(owner.new.baseline)
  <2>1. Active' /\ ~Before' /\ ~Staged'
    BY <1>3, <1>4, NextSteps DEF Before, Staged, Active
  <2> QED
    BY <1>1, <1>2, <1>3, <1>4, <2>1 DEF ActivateStage
<1>5. CASE ~Archived(owner.new.baseline)
  <2>1. Staged' /\ ~Before' /\ ~Active'
    BY <1>3, <1>5, NextSteps DEF Before, Staged, Active
  <2> QED
    BY <1>1, <1>2, <1>3, <1>5, <2>1 DEF ActivateStage
<1> QED
  BY <1>4, <1>5

LEMMA ActivateStageShape == ASSUME Shape, ActivateStage PROVE Shape'
<1>1. RolloverOK /\ owner.new.baseline \in Baselines /\ owner.new = NewDirectory(owner.new.baseline)
  BY Activating DEF RolloverOK
<1>2. RolloverOK'
  <2>1. CASE UNCHANGED dir /\ Staged' /\ ~Before' /\ ~Active'
    BY <1>1, <2>1, Activating DEF ActivateStage, RolloverOK
  <2>2. CASE dir' = owner.new /\ Active' /\ ~Before' /\ ~Staged'
    <3>1. /\ dir'.baseline = owner.new.baseline
          /\ dir'.rollback = None /\ dir'.activation = None
          /\ dir'.ledgers = [k \in Kinds |-> [baseline |-> owner.new.baseline.id, records |-> 0]]
      BY <1>1, <2>2, NewDirectoryFiles
    <3>2. \A k \in Kinds : dir'.ledgers[k].baseline = spent.epochs
      BY <1>1, <3>1 DEF RolloverOK
    <3> QED
      BY <1>1, <2>2, <3>1, <3>2, Activating DEF ActivateStage, RolloverOK
  <2> QED
    BY <2>1, <2>2, Activating
<1>3. TodoOK'
  BY <1>2, Activating, StepsAreSequences DEF TodoOK, Rolling
<1>4. DirectoryOK(owner.new)
  BY <1>1, NewDirectoryFiles
<1>5. DirectoryOK(dir')
  BY <1>4, Activating DEF Shape, TypeOK
<1>6. \A s \in stages' : DirectoryOK(s)
  BY Activating DEF Shape, TypeOK
<1> QED
  BY <1>3, <1>5, <1>6 DEF ActivateStage, Shape, TypeOK, ReaderOK, DirectoryOK

(* The verification ends the rollover or turns it back.                    *)
LEMMA Verifying ==
  ASSUME Shape, VerifyActive
  PROVE  /\ owner.todo = ToVerify /\ RolloverOK /\ Active /\ ~Before /\ ~Staged
         /\ \/ owner' = Nothing
            \/ /\ owner'.todo = ToUnstage /\ Active' /\ ~Before' /\ ~Staged'
               /\ owner'.new = owner.new /\ DOMAIN owner' = {"todo", "new"}
<1>1. owner.todo = ToVerify /\ RolloverOK
  BY StepIsAt DEF VerifyActive, Shape
<1>2. Active /\ ~Before /\ ~Staged
  BY <1>1, NextSteps DEF Before, Staged, Active
<1>3. CASE owner' = Nothing
  BY <1>1, <1>2, <1>3
<1>4. CASE owner' = [owner EXCEPT !.todo = PutBack(TRUE)]
  <2>1. owner'.todo = ToUnstage /\ owner'.new = owner.new /\ DOMAIN owner' = {"todo", "new"}
    BY <1>4, RolloverSteps DEF Shape, TodoOK
  <2>2. Active' /\ ~Before' /\ ~Staged'
    BY <2>1, NextSteps DEF Before, Staged, Active
  <2> QED
    BY <1>1, <1>2, <2>1, <2>2
<1> QED
  BY <1>3, <1>4 DEF VerifyActive

LEMMA VerifyActiveShape == ASSUME Shape, VerifyActive PROVE Shape'
<1>1. CASE owner' = Nothing
  BY <1>1, NothingTodo DEF VerifyActive, Shape, TypeOK, ReaderOK, DirectoryOK
<1>2. CASE owner'.todo = ToUnstage /\ Active' /\ ~Before' /\ ~Staged'
           /\ owner'.new = owner.new /\ DOMAIN owner' = {"todo", "new"}
  <2>1. RolloverOK'
    BY <1>2, Verifying DEF VerifyActive, RolloverOK
  <2>2. TodoOK'
    BY <1>2, <2>1, StepsAreSequences DEF TodoOK, Rolling
  <2> QED
    BY <2>2 DEF VerifyActive, Shape, TypeOK, ReaderOK, DirectoryOK
<1> QED
  BY <1>1, <1>2, Verifying

LEMMA Unstaging ==
  ASSUME Shape, Unstage
  PROVE  /\ owner.todo = ToUnstage /\ RolloverOK /\ Active /\ ~Before /\ ~Staged
         /\ owner'.todo = ToRestore /\ Staged' /\ ~Before' /\ ~Active'
         /\ owner'.new = owner.new /\ DOMAIN owner' = {"todo", "new"}
<1>1. owner.todo = ToUnstage /\ RolloverOK
  BY StepIsAt DEF Unstage, Shape
<1>2. owner'.todo = ToRestore /\ owner'.new = owner.new /\ DOMAIN owner' = {"todo", "new"}
  BY <1>1, RolloverSteps DEF Unstage, Shape, TodoOK
<1> QED
  BY <1>1, <1>2, NextSteps DEF Before, Staged, Active

LEMMA UnstageShape == ASSUME Shape, Unstage PROVE Shape'
<1>1. RolloverOK'
  BY Unstaging DEF Unstage, RolloverOK
<1>2. TodoOK'
  BY <1>1, Unstaging, StepsAreSequences DEF TodoOK, Rolling
<1>3. DirectoryOK(dir') /\ \A s \in stages' : DirectoryOK(s)
  BY EmptyDirectoryFiles DEF Unstage, Shape, TypeOK
<1> QED
  BY <1>2, <1>3 DEF Unstage, Shape, TypeOK, ReaderOK, DirectoryOK

LEMMA Restoring ==
  ASSUME Shape, Restore
  PROVE  /\ owner.todo = ToRestore /\ RolloverOK /\ Staged /\ ~Before /\ ~Active
         /\ owner.new.baseline.prev \in DOMAIN archives
         /\ dir' = Old
         /\ owner' = Nothing
         /\ DOMAIN archives' = DOMAIN archives \ {owner.new.baseline.prev}
         /\ \A id \in DOMAIN archives' : archives'[id] = archives[id]
<1>1. owner.todo = ToRestore /\ RolloverOK
  BY StepIsAt DEF Restore, Shape
<1>2. Staged /\ ~Before /\ ~Active
  BY <1>1, NextSteps DEF Before, Staged, Active
<1> QED
  BY <1>1, <1>2 DEF Restore, RolloverOK, Old

LEMMA RestoreShape == ASSUME Shape, Restore PROVE Shape'
<1>1. DirectoryOK(dir')
  BY Restoring DEF Old, Shape, TypeOK
<1>2. \A id \in DOMAIN archives' : DirectoryOK(archives'[id])
  BY Restoring DEF Shape, TypeOK
<1> QED
  BY <1>1, <1>2, Restoring, NothingTodo DEF Restore, Shape, TypeOK, ReaderOK

LEMMA CrashShape == ASSUME Shape, Crash PROVE Shape'
<1>1. spent' \in [epochs : Nat, renewals : Nat, changes : Nat, crashes : Nat]
  BY DEF Crash, Shape, TypeOK
<1> QED
  BY <1>1, NothingTodo DEF Crash, Shape, TypeOK, ReaderOK, DirectoryOK

(* A step of the delivery leaves everything else alone.                    *)
LEMMA ReaderStepFrame == ReaderStep => EnvUnchanged
  BY DEF ReaderStep, StartAssessment, ReadBaseline, CheckBaseline, ReadEvidence, CheckEvidence,
         Assess, Decide, Evaluate, Comply, Deliver

LEMMA AwaitingFields ==
  /\ DOMAIN Awaiting = {"pc", "kind", "started", "auth", "baseline", "rollback", "incident",
                        "decision", "seen"}
  /\ Awaiting.pc = "idle" /\ Awaiting.kind = "rollback"
  /\ Awaiting.started = 0 /\ Awaiting.auth = 0 /\ Awaiting.baseline = None
  /\ Awaiting.rollback = None /\ Awaiting.incident = None
  /\ Awaiting.seen = [k \in Kinds |-> None]
  BY EmptyDirectoryFiles DEF Awaiting

(* What each step of the delivery changes of what it holds.                *)
LEMMA RefuseEffect == ASSUME Refuse PROVE ReaderOK' /\ reader'.pc = "idle" /\ reader'.kind = "rollback"
                                          /\ reader'.auth = 0 /\ reader'.seen = [k \in Kinds |-> None]
  BY AwaitingFields DEF Refuse, ReaderOK, Places, Kinds

LEMMA ProceedEffect ==
  ASSUME ReaderOK, NEW pc \in Places, Proceed(pc)
  PROVE  /\ ReaderOK' /\ reader'.pc = pc
         /\ reader'.kind = reader.kind /\ reader'.auth = reader.auth
         /\ reader'.started = reader.started
         /\ reader'.baseline = reader.baseline /\ reader'.seen = reader.seen
         /\ reader'.decision = reader.decision
         /\ reader'.rollback = reader.rollback /\ reader'.incident = reader.incident
         /\ \A k \in Kinds : reader'[k] = reader[k]
  BY AwaitingFields DEF Proceed, ReaderOK, Kinds

LEMMA StartEffect ==
  ASSUME Shape, StartAssessment
  PROVE  /\ ReaderOK' /\ reader'.pc = "baseline" /\ reader'.kind = "rollback"
         /\ reader'.auth = authority.generation /\ reader'.seen = dir.ledgers
<1>1. /\ DOMAIN reader' = DOMAIN Awaiting
      /\ reader'.pc = "baseline" /\ reader'.kind = "rollback"
      /\ reader'.auth = authority.generation /\ reader'.seen = dir.ledgers
      /\ reader'.started = now /\ reader'.baseline = None
      /\ reader'.rollback = None /\ reader'.incident = None
  BY AwaitingFields DEF StartAssessment
<1> QED
  BY <1>1 DEF ReaderOK, Places, Kinds, Shape, TypeOK, DirectoryOK

LEMMA ReadBaselineEffect ==
  ASSUME Shape, ReadBaseline, dir.baseline # None
  PROVE  /\ ReaderOK' /\ reader'.pc = "baseline files" /\ reader'.kind = reader.kind
         /\ reader'.auth = reader.auth /\ reader'.baseline = dir.baseline
         /\ reader'.seen = reader.seen
         /\ reader'.rollback = reader.rollback /\ reader'.incident = reader.incident
<1>1. /\ DOMAIN reader' = DOMAIN Awaiting
      /\ reader'.pc = "baseline files" /\ reader'.kind = reader.kind
      /\ reader'.auth = reader.auth /\ reader'.baseline = dir.baseline
      /\ reader'.seen = reader.seen /\ reader'.started = reader.started
      /\ reader'.rollback = reader.rollback /\ reader'.incident = reader.incident
  <2>1. reader' = [reader EXCEPT !.pc = "baseline files", !.baseline = dir.baseline]
    BY DEF ReadBaseline
  <2>2. DOMAIN reader = DOMAIN Awaiting
    BY DEF Shape, TypeOK, ReaderOK
  <2> QED
    BY <2>1, <2>2, AwaitingFields
<1>2. ReaderOK /\ dir.baseline \in Baselines
  BY DEF Shape, TypeOK, DirectoryOK
<1> QED
  BY <1>1, <1>2 DEF ReaderOK, Places, Kinds

LEMMA ReadEvidenceEffect ==
  ASSUME Shape, ReadEvidence, dir[reader.kind] # None
  PROVE  /\ ReaderOK' /\ reader'.pc = "evidence files" /\ reader'.kind = reader.kind
         /\ reader'.auth = reader.auth /\ reader'.baseline = reader.baseline
         /\ reader'.seen = reader.seen
         /\ \A k \in Kinds : reader'[k] = IF k = reader.kind THEN dir[k] ELSE reader[k]
<1>1. /\ reader' = [reader EXCEPT !.pc = "evidence files", ![reader.kind] = dir[reader.kind]]
      /\ DOMAIN reader = DOMAIN Awaiting /\ reader.kind \in {"rollback", "incident"}
  BY DEF ReadEvidence, Shape, TypeOK, ReaderOK, Kinds
<1>2. /\ DOMAIN reader' = DOMAIN Awaiting
      /\ reader'.pc = "evidence files" /\ reader'.kind = reader.kind
      /\ reader'.auth = reader.auth /\ reader'.baseline = reader.baseline
      /\ reader'.seen = reader.seen /\ reader'.started = reader.started
  BY <1>1, AwaitingFields
<1>3. \A k \in Kinds : reader'[k] = IF k = reader.kind THEN dir[k] ELSE reader[k]
  BY <1>1, AwaitingFields DEF Kinds
<1>4. \A k \in Kinds : reader'[k] \in Observations \cup {None}
  BY <1>3 DEF Shape, TypeOK, ReaderOK, DirectoryOK
<1>5. ReaderOK'
  BY <1>2, <1>4 DEF ReaderOK, Places, Shape, TypeOK
<1> QED
  BY <1>2, <1>3, <1>5

LEMMA CheckEvidenceEffect ==
  ASSUME Shape, CheckEvidence, ~Refuse
  PROVE  /\ EvidenceLoads(dir, reader.kind, reader[reader.kind])
         /\ Prospective(reader[reader.kind])
         /\ ReaderOK'
         /\ reader'.auth = reader.auth /\ reader'.baseline = reader.baseline
         /\ reader'.seen = reader.seen
         /\ reader'.rollback = reader.rollback /\ reader'.incident = reader.incident
         /\ \/ /\ reader.kind = "rollback"
               /\ reader'.pc = "baseline" /\ reader'.kind = "incident"
            \/ /\ reader.kind = "incident"
               /\ reader'.pc = "assess" /\ reader'.kind = "incident"
<1>1. /\ EvidenceLoads(dir, reader.kind, reader[reader.kind])
      /\ Prospective(reader[reader.kind])
  BY DEF CheckEvidence
<1>2. CASE reader.kind = "rollback"
  <2>1. reader' = [reader EXCEPT !.pc = "baseline", !.kind = "incident"]
    BY <1>1, <1>2 DEF CheckEvidence
  <2>2. /\ DOMAIN reader' = DOMAIN Awaiting
        /\ reader'.pc = "baseline" /\ reader'.kind = "incident"
        /\ reader'.auth = reader.auth /\ reader'.baseline = reader.baseline
        /\ reader'.seen = reader.seen /\ reader'.started = reader.started
        /\ reader'.rollback = reader.rollback /\ reader'.incident = reader.incident
    BY <2>1, AwaitingFields DEF Shape, TypeOK, ReaderOK
  <2> QED
    BY <1>1, <1>2, <2>2 DEF ReaderOK, Places, Kinds, Shape, TypeOK
<1>3. CASE reader.kind = "incident"
  <2>1. Proceed("assess")
    BY <1>1, <1>3 DEF CheckEvidence
  <2> QED
    BY <1>1, <1>3, <2>1, ProceedEffect DEF Shape, TypeOK, Places
<1> QED
  BY <1>2, <1>3 DEF Shape, TypeOK, ReaderOK, Kinds

LEMMA DecisionEffect ==
  ASSUME Shape, Assess \/ Decide \/ Evaluate \/ Comply \/ Deliver, ~Refuse
  PROVE  /\ ReaderOK'
         /\ reader'.kind = reader.kind /\ reader'.baseline = reader.baseline
         /\ reader'.seen = reader.seen
         /\ reader'.rollback = reader.rollback /\ reader'.incident = reader.incident
         /\ \A k \in Kinds : reader'[k] = reader[k]
         /\ \/ /\ reader.pc = "assess" /\ reader'.pc = "decide" /\ reader'.auth = reader.auth
               /\ OneSnapshot
               /\ \A k \in Kinds : reader[k].auth = authority.generation
            \/ /\ reader.pc = "decide" /\ reader'.pc = "policy"
               /\ reader.auth = authority.generation /\ reader'.auth = reader.auth
            \/ reader.pc = "policy" /\ reader'.pc = "compliance" /\ reader'.auth = reader.auth
            \/ reader.pc = "compliance" /\ reader'.pc = "approved" /\ reader'.auth = reader.auth
<1>0. ReaderOK /\ authority.generation \in Nat /\ {"decide", "policy", "compliance", "approved"} \subseteq Places
  BY DEF Shape, TypeOK, Places
<1>1. CASE Assess
  <2>1. Proceed("decide") /\ reader.pc = "assess" /\ OneSnapshot
        /\ \A k \in Kinds : reader[k].auth = authority.generation
    BY <1>1 DEF Assess, Reads
  <2> QED
    BY <1>0, <2>1, ProceedEffect
<1>2. CASE Decide
  <2>1. /\ reader.pc = "decide" /\ reader.auth = authority.generation
        /\ reader' = [reader EXCEPT !.pc = "policy", !.auth = authority.generation]
    BY <1>2 DEF Decide, Reads, AssessedUnderCurrent
  <2>2. /\ DOMAIN reader' = DOMAIN Awaiting
        /\ reader'.pc = "policy" /\ reader'.kind = reader.kind
        /\ reader'.auth = reader.auth /\ reader'.baseline = reader.baseline
        /\ reader'.seen = reader.seen /\ reader'.started = reader.started
        /\ reader'.rollback = reader.rollback /\ reader'.incident = reader.incident
    BY <1>0, <2>1, AwaitingFields DEF ReaderOK
  <2> QED
    BY <1>0, <2>1, <2>2 DEF ReaderOK, Kinds
<1>3. CASE Evaluate
  <2>1. PICK d : reader' = [reader EXCEPT !.pc = "compliance", !.decision = d]
    BY <1>3 DEF Evaluate
  <2>2. /\ DOMAIN reader' = DOMAIN Awaiting
        /\ reader'.pc = "compliance" /\ reader'.kind = reader.kind
        /\ reader'.auth = reader.auth /\ reader'.baseline = reader.baseline
        /\ reader'.seen = reader.seen /\ reader'.started = reader.started
        /\ reader'.rollback = reader.rollback /\ reader'.incident = reader.incident
    BY <1>0, <2>1, AwaitingFields DEF ReaderOK
  <2> QED
    BY <1>0, <1>3, <2>2 DEF ReaderOK, Kinds, Evaluate, Reads
<1>4. CASE Comply
  <2>1. Proceed("approved") /\ reader.pc = "compliance"
    BY <1>4 DEF Comply, Reads
  <2> QED
    BY <1>0, <2>1, ProceedEffect
<1>5. CASE Deliver
  BY <1>5 DEF Deliver
<1> QED
  BY <1>1, <1>2, <1>3, <1>4, <1>5

(* Every step of the delivery gives up, or goes on in one of these ways.   *)
LEMMA ReaderSteps ==
  ASSUME Shape, ReaderStep
  PROVE  \/ Refuse
         \/ StartAssessment
         \/ ReadBaseline /\ dir.baseline # None
         \/ CheckBaseline /\ BaselineLoads(dir, reader.baseline) /\ Proceed("evidence")
         \/ ReadEvidence /\ dir[reader.kind] # None
         \/ CheckEvidence /\ ~Refuse
         \/ (Assess \/ Decide \/ Evaluate \/ Comply \/ Deliver) /\ ~Refuse
  BY DEF ReaderStep, ReadBaseline, CheckBaseline, ReadEvidence

LEMMA ReaderStepShape == ASSUME Shape, ReaderStep PROVE Shape'
<1>1. ReaderOK'
  BY ReaderSteps, RefuseEffect, StartEffect, ReadBaselineEffect, ReadEvidenceEffect,
     CheckEvidenceEffect, DecisionEffect, ProceedEffect DEF Places, Shape, TypeOK
<1>2. UNCHANGED <<dir, stages, archives, owner, authority, branch, now, spent>>
  BY ReaderStepFrame DEF EnvUnchanged, ownerVars
<1>3. TodoOK'
  BY <1>2, TodoKept
<1> QED
  BY <1>1, <1>2, <1>3 DEF Shape, TypeOK, DirectoryOK

(* An event is recorded in one ledger and changes no other file.           *)
LEMMA Recording ==
  ASSUME Shape, NEW k \in Kinds, RecordEvent(k)
  PROVE  /\ DOMAIN dir' = Files
         /\ \A f \in Files \ {"ledgers"} : dir'[f] = dir[f]
         /\ DOMAIN dir'.ledgers = Kinds
         /\ \A j \in Kinds \ {k} : dir'.ledgers[j] = dir.ledgers[j]
         /\ dir.ledgers[k] \in Ledgers /\ dir'.ledgers[k] \in Ledgers
         /\ dir'.ledgers[k].baseline = dir.ledgers[k].baseline
         /\ dir'.ledgers[k].records = dir.ledgers[k].records + 1
         /\ dir'.ledgers[k] # None
<1>1. DOMAIN dir = Files /\ dir.ledgers \in [Kinds -> Ledgers \cup {None}]
  BY DEF Shape, TypeOK, DirectoryOK
<1>2. dir.ledgers[k] \in Ledgers
  BY <1>1 DEF RecordEvent
<1>3. DOMAIN dir' = Files /\ \A f \in Files \ {"ledgers"} : dir'[f] = dir[f]
  BY <1>1 DEF RecordEvent
<1>4. dir'.ledgers = [dir.ledgers EXCEPT ![k] = [dir.ledgers[k] EXCEPT !.records = @ + 1]]
  BY <1>1 DEF RecordEvent, Files
<1>5. /\ DOMAIN dir'.ledgers = Kinds
      /\ \A j \in Kinds \ {k} : dir'.ledgers[j] = dir.ledgers[j]
      /\ dir'.ledgers[k] = [dir.ledgers[k] EXCEPT !.records = @ + 1]
  BY <1>1, <1>4
<1>6. /\ dir'.ledgers[k] \in Ledgers
      /\ dir'.ledgers[k].baseline = dir.ledgers[k].baseline
      /\ dir'.ledgers[k].records = dir.ledgers[k].records + 1
  BY <1>2, <1>5 DEF Ledgers
<1> QED
  BY <1>2, <1>3, <1>5, <1>6, NoneIsAbsent

LEMMA RecordEventShape == ASSUME Shape, NEW k \in Kinds, RecordEvent(k) PROVE Shape'
<1>1. DirectoryOK(dir')
  <2>1. dir'.ledgers \in [Kinds -> Ledgers \cup {None}]
    <3>1. dir'.ledgers = [j \in Kinds |-> dir'.ledgers[j]]
      <4>1. dir'.ledgers = [dir.ledgers EXCEPT ![k] = [dir.ledgers[k] EXCEPT !.records = @ + 1]]
        BY DEF RecordEvent, Shape, TypeOK, DirectoryOK, Files
      <4> QED
        BY <4>1 DEF Shape, TypeOK, DirectoryOK
    <3>2. \A j \in Kinds : dir'.ledgers[j] \in Ledgers \cup {None}
      BY Recording DEF Shape, TypeOK, DirectoryOK
    <3> QED
      BY <3>1, <3>2
  <2> QED
    BY <2>1, Recording DEF Shape, TypeOK, DirectoryOK, Files, Kinds
<1>2. TodoOK'
  <2>1. ASSUME Rolling, RolloverOK PROVE RolloverOK'
    <3>1. ~Staged
      BY <2>1, EmptyDirectoryFiles DEF RolloverOK, RecordEvent
    <3>2. dir'.baseline = dir.baseline /\ dir'.rollback = dir.rollback
          /\ dir'.activation = dir.activation
      BY Recording DEF Files
    <3>3. \A j \in Kinds : dir'.ledgers[j] # None =>
             dir.ledgers[j] # None /\ dir'.ledgers[j].baseline = dir.ledgers[j].baseline
      BY Recording, NoneIsAbsent
    <3> QED
      BY <2>1, <3>1, <3>2, <3>3 DEF RecordEvent, RolloverOK, Before, Staged, Active
  <2> QED
    BY <2>1 DEF RecordEvent, Shape, TodoOK, Writing, Rolling, Before, Staged, Active
<1> QED
  BY <1>1, <1>2 DEF RecordEvent, Shape, TypeOK, ReaderOK

LEMMA WorldStepShape == ASSUME Shape, WorldStep PROVE Shape'
<1>1. CASE Tick
  <2>1. now' \in Nat /\ UNCHANGED <<dir, stages, archives, owner, reader, authority, branch, spent>>
    BY <1>1 DEF Tick, ownerVars, Shape, TypeOK
  <2> QED
    BY <2>1, TodoKept DEF Shape, TypeOK, ReaderOK, DirectoryOK
<1>2. ASSUME NEW k \in Kinds, RecordEvent(k) PROVE Shape'
  BY <1>2, RecordEventShape
<1>3. ASSUME Change PROVE /\ spent' \in [epochs : Nat, renewals : Nat, changes : Nat, crashes : Nat]
                          /\ spent'.epochs = spent.epochs /\ spent'.crashes = spent.crashes
  BY <1>3 DEF Change, Shape, TypeOK
<1>4. CASE ChangeAuthority
  <2>1. UNCHANGED <<dir, stages, archives, owner, reader, branch, now>>
        /\ authority' \in [generation : Nat, stopped : BOOLEAN]
    BY <1>4 DEF ChangeAuthority, ownerVars, Shape, TypeOK
  <2>2. Change
    BY <1>4 DEF ChangeAuthority
  <2> QED
    BY <1>3, <2>1, <2>2, TodoKept DEF Shape, TypeOK, ReaderOK, DirectoryOK
<1>5. CASE Commit
  <2>1. UNCHANGED <<dir, stages, archives, owner, reader, authority, now>>
        /\ branch' \in [head : Nat, registered : Nat]
    BY <1>5 DEF Commit, ownerVars, Shape, TypeOK
  <2>2. Change
    BY <1>5 DEF Commit
  <2> QED
    BY <1>3, <2>1, <2>2, TodoKept DEF Shape, TypeOK, ReaderOK, DirectoryOK
<1>6. CASE RefreshRegistry
  <2>1. UNCHANGED <<dir, stages, archives, owner, reader, authority, now, spent>>
        /\ branch' \in [head : Nat, registered : Nat]
    BY <1>6 DEF RefreshRegistry, ownerVars, Shape, TypeOK
  <2> QED
    BY <2>1, TodoKept DEF Shape, TypeOK, ReaderOK, DirectoryOK
<1> QED
  BY <1>1, <1>2, <1>4, <1>5, <1>6 DEF WorldStep

-----------------------------------------------------------------------------
(* The numbers of baselines.                                               *)

(* No step of a rollover is the writing of a file.                         *)
LEMMA StepsAreNoFiles ==
  ASSUME NEW s \in {ToStage, ToArchive, ToActivate, ToVerify, ToUnstage, ToRestore},
         NEW i \in DOMAIN s
  PROVE  s[i].file \notin Files
<1>1. \A name \in {"stage", "archive", "activate", "verify", "unstage", "restore"} :
         Step(name).file \notin Files
  BY DEF Step, Files
<1>2. CASE s = ToStage
  BY <1>1, <1>2 DEF ToStage
<1>3. CASE s = ToArchive
  BY <1>1, <1>3 DEF ToArchive
<1>4. CASE s = ToActivate
  BY <1>1, <1>4 DEF ToActivate
<1>5. CASE s = ToVerify
  BY <1>1, <1>5 DEF ToVerify
<1>6. CASE s = ToUnstage
  BY <1>1, <1>6 DEF ToUnstage
<1>7. CASE s = ToRestore
  BY <1>1, <1>7 DEF ToRestore
<1> QED
  BY <1>2, <1>3, <1>4, <1>5, <1>6, <1>7

LEMMA RollingWritesNoFile ==
  ASSUME Rolling PROVE \A i \in DOMAIN owner.todo : owner.todo[i].file \notin Files
  BY StepsAreNoFiles DEF Rolling, Before, Staged, Active

LEMMA RollingWritesNoFileNext ==
  ASSUME Rolling' PROVE \A i \in DOMAIN owner'.todo : owner'.todo[i].file \notin Files
  BY StepsAreNoFiles DEF Rolling, Before, Staged, Active

(* A renewal writes no baseline and no ledger.                             *)
LEMMA RenewalFiles ==
  ASSUME TypeOK, NEW op \in Ops, RenewAccepted(op), NEW s, s = RenewalWrites(op),
         NEW i \in DOMAIN s
  PROVE  s[i].file \in {"journal", "history", "rollback", "incident", "activation"}
<1>1. CASE DOMAIN s = 1..1 /\ s[1].file = "journal"
  BY <1>1
<1>2. CASE ~(DOMAIN s = 1..1 /\ s[1].file = "journal")
  <2>1. PICK n \in {5, 7} :
          /\ DOMAIN s = 1..n
          /\ \A j \in 1..(n - 4) : s[j].file \in {"journal", "history"}
          /\ s[n - 3] = Write("rollback", Observation("rollback", op))
          /\ s[n - 2] = Write("incident", Observation("incident", op))
          /\ s[n - 1].file = "journal"
          /\ s[n] = Write("activation", RenewedActivation(op))
    BY <1>2, RenewalTodo
  <2>2. s[n - 3].file = "rollback" /\ s[n - 2].file = "incident" /\ s[n].file = "activation"
    BY <2>1 DEF Write
  <2>3. i \in 1..(n - 4) \/ i \in {n - 3, n - 2, n - 1, n}
    BY <2>1
  <2> QED
    BY <2>1, <2>2, <2>3
<1> QED
  BY <1>1, <1>2

(* What is left of the numbering when neither directory, archive nor the   *)
(* files still to be written get a baseline they had not.                  *)
LEMMA NumberedKept ==
  ASSUME Numbered, Shape, spent'.epochs \in Nat, spent.epochs <= spent'.epochs,
         dir'.baseline = dir.baseline \/ dir'.baseline = None,
         \A id \in DOMAIN archives' : id \in DOMAIN archives /\ archives'[id] = archives[id],
         \A i \in DOMAIN owner'.todo : owner'.todo[i].file = "baseline" =>
            \E j \in DOMAIN owner.todo : owner.todo[j] = owner'.todo[i]
  PROVE  Numbered'
<1>1. spent.epochs \in Nat
  BY DEF Shape, TypeOK
<1>2. ASSUME NEW b, b.id \in Nat, NumberOK(b) PROVE NumberOK(b)'
  BY <1>1, <1>2 DEF NumberOK
<1>3. dir'.baseline # None => NumberOK(dir.baseline)'
  BY <1>2 DEF Numbered, Shape, TypeOK, DirectoryOK, Baselines
<1>4. \A id \in DOMAIN archives : archives[id].baseline.id \in Nat
  BY DEF Numbered, Shape, TypeOK, DirectoryOK, Baselines
<1>5. ASSUME NEW j \in DOMAIN owner.todo, owner.todo[j].file = "baseline"
      PROVE  owner.todo[j].value.id \in Nat
  <2>1. Writing
    BY <1>5, RollingWritesNoFile DEF Shape, TodoOK, Files
  <2> QED
    BY <1>5, <2>1 DEF Writing, ItemOK, Baselines
<1>6. \A id \in DOMAIN archives' :
         /\ archives'[id].baseline # None
         /\ archives'[id].baseline.id = id
         /\ NumberOK(archives[id].baseline)'
  BY <1>2, <1>4 DEF Numbered
<1>7. \A i \in DOMAIN owner'.todo : owner'.todo[i].file = "baseline" =>
         /\ NumberOK(owner.todo[i].value)'
         /\ owner'.todo[i].value.gen = 1
         /\ owner'.todo[i].value.prev = 0
  <2> SUFFICES ASSUME NEW i \in DOMAIN owner'.todo, owner'.todo[i].file = "baseline"
               PROVE  /\ NumberOK(owner.todo[i].value)'
                      /\ owner'.todo[i].value.gen = 1
                      /\ owner'.todo[i].value.prev = 0
    OBVIOUS
  <2>1. PICK j \in DOMAIN owner.todo : owner.todo[j] = owner'.todo[i]
    OBVIOUS
  <2>2. NumberOK(owner.todo[j].value) /\ owner.todo[j].value.id \in Nat
        /\ owner'.todo[i].value.gen = 1 /\ owner'.todo[i].value.prev = 0
    BY <1>5, <2>1 DEF Numbered
  <2> QED
    BY <1>1, <2>1, <2>2 DEF NumberOK
<1> QED
  BY <1>3, <1>6, <1>7 DEF Numbered

Base == Shape /\ Numbered

LEMMA InitNumbered == Init => Numbered
<1> SUFFICES ASSUME Init PROVE Numbered
  OBVIOUS
<1>1. dir.baseline = None /\ DOMAIN archives = {} /\ DOMAIN owner.todo = {}
  BY EmptyDirectoryFiles DEF Init, Nothing
<1> QED
  BY <1>1 DEF Numbered

LEMMA WriteFileNumbered == ASSUME Base, WriteFile PROVE Numbered'
<1>1. Shape /\ Numbered
  BY DEF Base
<1>2. \A i \in DOMAIN owner'.todo : i + 1 \in DOMAIN owner.todo /\ owner'.todo[i] = owner.todo[i + 1]
  BY <1>1, TodoTail DEF WriteFile, Shape
<1>3. dir'.baseline = dir.baseline \/ (owner.todo[1].file = "baseline" /\ dir'.baseline = owner.todo[1].value)
  BY <1>1, FileWritten DEF Files
<1>4. dir'.baseline # None => NumberOK(dir'.baseline)
  BY <1>1, <1>3, FileWritten DEF Numbered
<1> QED
  BY <1>1, <1>2, <1>4 DEF WriteFile, Numbered, NumberOK

LEMMA OwnerStepNumbered == ASSUME Base, OwnerStep PROVE Numbered'
<1>0. Shape /\ Numbered /\ spent.epochs \in Nat /\ TypeOK
  BY DEF Base, Shape, TypeOK
<1>1. CASE CreateBaseline
  <2> DEFINE b == BaselinePayload(1, 0)
  <2>1. /\ spent'.epochs = spent.epochs + 1 /\ UNCHANGED <<dir, archives>>
        /\ owner'.todo = BaselineWrites(b)
    BY <1>1 DEF CreateBaseline, Shape, Base, TodoOK, TypeOK
  <2>2. b \in Baselines /\ b.id = spent.epochs + 1 /\ b.gen = 1 /\ b.prev = 0
    BY <1>0, PayloadIsBaseline
  <2> HIDE DEF b
  <2>3. \A i \in DOMAIN owner'.todo : owner'.todo[i].file = "baseline" => owner'.todo[i].value = b
    <3>1. DOMAIN owner'.todo = 1..5 /\ owner'.todo[1].file = "bjournal"
          /\ owner'.todo[2].file = "ledgers" /\ owner'.todo[3].value = b
          /\ owner'.todo[4].file = "bjournal" /\ owner'.todo[5].file = "bactivation"
      BY <2>1, <2>2, BaselineTodo
    <3> QED
      BY <3>1
  <2>4. ASSUME NEW c \in Baselines, NumberOK(c) PROVE c.prev < c.id /\ c.id <= spent'.epochs
    BY <1>0, <2>1, <2>4 DEF NumberOK, Baselines
  <2>5. dir.baseline # None =>
           dir.baseline.prev < dir.baseline.id /\ dir.baseline.id <= spent'.epochs
    BY <1>0, <2>4 DEF Numbered, TypeOK, DirectoryOK
  <2>6. \A id \in DOMAIN archives :
           /\ archives[id].baseline.prev < archives[id].baseline.id
           /\ archives[id].baseline.id <= spent'.epochs
    BY <1>0, <2>4 DEF Numbered, TypeOK, DirectoryOK
  <2>7. b.prev < b.id /\ b.id <= spent'.epochs
    BY <1>0, <2>1, <2>2
  <2> QED
    BY <1>0, <2>1, <2>2, <2>3, <2>5, <2>6, <2>7 DEF Numbered, NumberOK
<1>2. ASSUME NEW op \in Ops, RenewEvidence(op) PROVE Numbered'
  <2>1. owner'.todo = RenewalWrites(op) /\ RenewAccepted(op)
        /\ UNCHANGED <<dir, archives>> /\ spent'.epochs = spent.epochs
    BY <1>0, <1>2 DEF RenewEvidence, Shape, TodoOK, TypeOK
  <2>2. \A i \in DOMAIN owner'.todo : owner'.todo[i].file # "baseline"
    BY <1>0, <2>1, RenewalFiles
  <2> QED
    BY <1>0, <2>1, <2>2, NumberedKept
<1>3. CASE WriteFile
  BY <1>3, WriteFileNumbered
<1>4. CASE Rollover
  <2>1. /\ owner'.todo = ToStage /\ UNCHANGED <<dir, archives>>
        /\ spent'.epochs = spent.epochs + 1
    BY <1>0, <1>4 DEF Rollover, ToStage, TypeOK
  <2>2. \A i \in DOMAIN owner'.todo : owner'.todo[i].file # "baseline"
    BY <2>1, StepsAreNoFiles DEF Files
  <2> QED
    BY <1>0, <2>1, <2>2, NumberedKept
<1>5. CASE WriteStage
  <2>1. owner.todo = ToStage
    BY <1>0, <1>5, StepIsAt DEF WriteStage, Shape
  <2>2. owner'.todo = ToArchive /\ UNCHANGED <<dir, archives, spent>>
    BY <1>0, <1>5, <2>1, RolloverSteps DEF WriteStage, Shape, TodoOK
  <2>3. \A i \in DOMAIN owner'.todo : owner'.todo[i].file # "baseline"
    BY <2>2, StepsAreNoFiles DEF Files
  <2> QED
    BY <1>0, <2>2, <2>3, NumberedKept
<1>6. CASE ArchiveActive
  <2>1. /\ owner'.todo = ToActivate /\ dir'.baseline = None /\ UNCHANGED spent
        /\ DOMAIN archives' = DOMAIN archives \cup {dir.baseline.id}
        /\ archives'[dir.baseline.id] = dir
        /\ \A id \in DOMAIN archives : archives'[id] = archives[id]
        /\ dir.baseline # None
    BY <1>0, <1>6, Archiving, EmptyDirectoryFiles DEF ArchiveActive, RolloverOK
  <2>2. \A i \in DOMAIN owner'.todo : owner'.todo[i].file # "baseline"
    BY <2>1, StepsAreNoFiles DEF Files
  <2> QED
    BY <1>0, <2>1, <2>2 DEF Numbered, NumberOK
<1>7. CASE ActivateStage
  <2>1. /\ owner'.todo \in {ToVerify, ToRestore} /\ UNCHANGED <<archives, spent>>
        /\ dir'.baseline = dir.baseline \/ dir'.baseline = owner.new.baseline
    BY <1>0, <1>7, Activating DEF ActivateStage
  <2>2. \A i \in DOMAIN owner'.todo : owner'.todo[i].file # "baseline"
    BY <2>1, StepsAreNoFiles DEF Files
  <2>3. NumberOK(owner.new.baseline)
    BY <1>0, <1>7, Activating DEF RolloverOK, NumberOK, Baselines
  <2> QED
    BY <1>0, <2>1, <2>2, <2>3 DEF Numbered, NumberOK
<1>8. CASE VerifyActive
  <2>1. \A i \in DOMAIN owner'.todo : owner'.todo[i].file # "baseline"
    BY <1>0, <1>8, Verifying, NothingTodo, StepsAreNoFiles DEF Files
  <2>2. UNCHANGED <<dir, archives, spent>>
    BY <1>8 DEF VerifyActive
  <2> QED
    BY <1>0, <2>1, <2>2, NumberedKept
<1>9. CASE Unstage
  <2>1. owner'.todo = ToRestore /\ dir'.baseline = None /\ UNCHANGED <<archives, spent>>
    BY <1>0, <1>9, Unstaging, EmptyDirectoryFiles DEF Unstage
  <2>2. \A i \in DOMAIN owner'.todo : owner'.todo[i].file # "baseline"
    BY <2>1, StepsAreNoFiles DEF Files
  <2> QED
    BY <1>0, <2>1, <2>2, NumberedKept
<1>10. CASE Restore
  <2>1. owner'.todo = <<>> /\ UNCHANGED spent
    BY <1>0, <1>10, Restoring, NothingTodo DEF Restore
  <2> QED
    BY <1>0, <1>10, <2>1, Restoring DEF Numbered, NumberOK, Old
<1>11. CASE Crash
  <2>1. owner'.todo = <<>> /\ UNCHANGED <<dir, archives>> /\ spent'.epochs = spent.epochs
    BY <1>0, <1>11, NothingTodo DEF Crash, TypeOK
  <2> QED
    BY <1>0, <2>1, NumberedKept
<1> QED
  BY <1>1, <1>2, <1>3, <1>4, <1>5, <1>6, <1>7, <1>8, <1>9, <1>10, <1>11 DEF OwnerStep

LEMMA BaseStep == Base /\ [Next]_vars => Base'
<1> SUFFICES ASSUME Base, [Next]_vars PROVE Base'
  OBVIOUS
<1>0. Shape /\ Numbered /\ spent.epochs \in Nat
  BY DEF Base, Shape, TypeOK
<1>1. CASE OwnerStep
  <2>1. Shape'
    BY <1>0, <1>1, CreateBaselineShape, RenewEvidenceShape, WriteFileShape, RolloverShape,
       WriteStageShape, ArchiveActiveShape, ActivateStageShape, VerifyActiveShape,
       UnstageShape, RestoreShape, CrashShape DEF OwnerStep
  <2> QED
    BY <1>1, <2>1, OwnerStepNumbered DEF Base
<1>2. CASE ReaderStep
  <2>1. UNCHANGED <<dir, archives, owner, spent>>
    BY <1>2, ReaderStepFrame DEF EnvUnchanged, ownerVars
  <2>2. Numbered'
    BY <1>0, <2>1, NumberedKept
  <2> QED
    BY <1>0, <1>2, <2>2, ReaderStepShape DEF Base
<1>3. CASE WorldStep
  <2>1. UNCHANGED <<archives, owner>> /\ spent'.epochs = spent.epochs /\ dir'.baseline = dir.baseline
    <3>1. CASE \E k \in Kinds : RecordEvent(k)
      BY <1>0, <3>1, Recording DEF RecordEvent, Files
    <3>2. CASE Tick \/ RefreshRegistry
      BY <3>2 DEF Tick, RefreshRegistry, ownerVars
    <3>3. CASE ChangeAuthority \/ Commit
      BY <1>0, <3>3 DEF ChangeAuthority, Commit, Change, ownerVars, Shape, TypeOK
    <3> QED
      BY <1>3, <3>1, <3>2, <3>3 DEF WorldStep
  <2>2. Numbered'
    BY <1>0, <2>1, NumberedKept
  <2> QED
    BY <1>0, <1>3, <2>2, WorldStepShape DEF Base
<1>4. CASE UNCHANGED vars
  BY <1>0, <1>4, TodoKept, NumberedKept DEF vars, Base, Shape, TypeOK, ReaderOK, DirectoryOK
<1> QED
  BY <1>1, <1>2, <1>3, <1>4 DEF Next

(* Files, archives, what is held and what is still to be written have      *)
(* their types, and baselines their numbers, in every reachable state.     *)
THEOREM EvidenceInvariance == Spec => []Base
<1>1. Init => Base
  BY InitShape, InitNumbered DEF Base
<1> QED
  BY <1>1, BaseStep, PTL DEF Spec

(* Every file of the active, the staged and the archived directories, and  *)
(* all that a delivery holds of them, has its type or is absent.           *)
THEOREM FilesTyped == Spec => []TypeOK
<1>1. Base => TypeOK
  BY DEF Base, Shape
<1> QED
  BY <1>1, EvidenceInvariance, PTL

-----------------------------------------------------------------------------
(* The chain of epochs.                                                    *)

(* Chain with the archive as a parameter.                                  *)
ArchivedIn(a, b) ==
    /\ b.prev \in DOMAIN a
    /\ a[b.prev].baseline # None
    /\ a[b.prev].baseline.id = b.prev
    /\ a[b.prev].baseline.gen = b.gen - 1
    /\ a[b.prev].baseline.at < b.at
    /\ SelfConsistent(a[b.prev], a[b.prev].baseline)

RestsIn(a, b, ids) == IF b.gen = 1 THEN b.prev = 0 ELSE ArchivedIn(a, b) /\ b.prev \in ids

ChainIn(a, b) ==
    \E ids \in SUBSET DOMAIN a :
        /\ RestsIn(a, b, ids)
        /\ \A id \in ids : RestsIn(a, a[id].baseline, ids)

LEMMA ChainIsChainIn == \A b : Chain(b) <=> ChainIn(archives, b)
  BY DEF Chain, Rests, Archived, ChainIn, RestsIn, ArchivedIn

(* Archiving more breaks no chain.                                         *)
LEMMA ChainKept ==
  ASSUME NEW a, NEW c, DOMAIN a \subseteq DOMAIN c,
         \A id \in DOMAIN a : c[id] = a[id],
         NEW b, ChainIn(a, b)
  PROVE  ChainIn(c, b)
<1>1. PICK ids \in SUBSET DOMAIN a :
        /\ RestsIn(a, b, ids)
        /\ \A id \in ids : RestsIn(a, a[id].baseline, ids)
  BY DEF ChainIn
<1>2. ASSUME NEW e, RestsIn(a, e, ids) PROVE RestsIn(c, e, ids)
  BY <1>2 DEF RestsIn, ArchivedIn
<1>3. /\ ids \in SUBSET DOMAIN c
      /\ RestsIn(c, b, ids)
      /\ \A id \in ids : RestsIn(c, c[id].baseline, ids)
  BY <1>1, <1>2
<1> QED
  BY <1>3 DEF ChainIn

(* What rests on an archived baseline rests on what that one rests on.     *)
LEMMA ChainExtends ==
  ASSUME NEW a, NEW b, b.gen # 1, ArchivedIn(a, b), ChainIn(a, a[b.prev].baseline)
  PROVE  ChainIn(a, b)
<1>1. PICK ids \in SUBSET DOMAIN a :
        /\ RestsIn(a, a[b.prev].baseline, ids)
        /\ \A id \in ids : RestsIn(a, a[id].baseline, ids)
  BY DEF ChainIn
<1> DEFINE more == ids \cup {b.prev}
<1>2. ASSUME NEW e, RestsIn(a, e, ids) PROVE RestsIn(a, e, more)
  BY <1>2 DEF RestsIn
<1>3. /\ more \in SUBSET DOMAIN a
      /\ \A id \in more : RestsIn(a, a[id].baseline, more)
  BY <1>1, <1>2 DEF ArchivedIn
<1>4. RestsIn(a, b, more)
  BY DEF RestsIn
<1> HIDE DEF more
<1> QED
  BY <1>3, <1>4 DEF ChainIn

(* A baseline rests on earlier ones only: its chain does not need the      *)
(* archived copy of itself.                                                *)
LEMMA ChainWithout ==
  ASSUME NEW a, NEW n \in DOMAIN a,
         \A id \in DOMAIN a : /\ id \in Nat
                              /\ a[id].baseline.id = id
                              /\ a[id].baseline.prev \in Nat
                              /\ a[id].baseline.prev < id,
         NEW c, DOMAIN c = DOMAIN a \ {n}, \A id \in DOMAIN c : c[id] = a[id],
         ChainIn(a, a[n].baseline)
  PROVE  ChainIn(c, a[n].baseline)
<1>1. PICK ids \in SUBSET DOMAIN a :
        /\ RestsIn(a, a[n].baseline, ids)
        /\ \A id \in ids : RestsIn(a, a[id].baseline, ids)
  BY DEF ChainIn
<1> DEFINE earlier == {id \in ids : id < n}
<1>2. earlier \in SUBSET DOMAIN c
  <2> SUFFICES ASSUME NEW id \in earlier PROVE id \in DOMAIN c
    OBVIOUS
  <2>1. id \in DOMAIN a /\ id # n
    BY <1>1
  <2> QED
    BY <2>1
<1>3. ASSUME NEW i \in DOMAIN a, i <= n, RestsIn(a, a[i].baseline, ids)
      PROVE  RestsIn(c, a[i].baseline, earlier)
  <2>1. CASE a[i].baseline.gen = 1
    BY <1>3, <2>1 DEF RestsIn
  <2>2. CASE a[i].baseline.gen # 1
    <3>1. ArchivedIn(a, a[i].baseline) /\ a[i].baseline.prev \in ids
      BY <1>3, <2>2 DEF RestsIn
    <3>2. a[i].baseline.prev < n /\ a[i].baseline.prev \in DOMAIN c
      <4>1. a[i].baseline.prev \in Nat /\ i \in Nat /\ n \in Nat /\ a[i].baseline.prev < i
        OBVIOUS
      <4>2. a[i].baseline.prev < n
        BY <1>3, <4>1
      <4> QED
        BY <1>1, <3>1, <4>2, <4>1
    <3>3. ArchivedIn(c, a[i].baseline)
      BY <3>1, <3>2 DEF ArchivedIn
    <3> QED
      BY <2>2, <3>1, <3>2, <3>3 DEF RestsIn
  <2> QED
    BY <2>1, <2>2
<1>4. RestsIn(c, a[n].baseline, earlier)
  BY <1>1, <1>3
<1>5. \A id \in earlier : RestsIn(c, c[id].baseline, earlier)
  <2> SUFFICES ASSUME NEW id \in earlier PROVE RestsIn(c, c[id].baseline, earlier)
    OBVIOUS
  <2>1. id \in DOMAIN a /\ id <= n /\ RestsIn(a, a[id].baseline, ids) /\ c[id] = a[id]
    BY <1>1, <1>2
  <2> QED
    BY <1>3, <2>1
<1> HIDE DEF earlier
<1> QED
  BY <1>2, <1>4, <1>5 DEF ChainIn

(* The active epoch and the one that a rollover may put back rest on all   *)
(* before them; without a crash, what leaves no epoch active is going to   *)
(* activate one.                                                           *)
Returns(file) == file \in {"baseline", "activate", "restore"}

ChainInv ==
    /\ dir.baseline # None => ChainIn(archives, dir.baseline)
    /\ Staged \/ Active => ChainIn(archives, Old.baseline)
    /\ spent.crashes = 0 /\ spent.epochs > 0 =>
          dir.baseline # None \/ \E i \in DOMAIN owner.todo : Returns(owner.todo[i].file)

LEMMA InitChain == Init => ChainInv
  BY EmptyDirectoryFiles, NothingTodo, IdleIsWriting DEF Init, ChainInv, Nothing, Staged, Active

(* The first baseline rests on none.                                       *)
LEMMA FirstChain == ASSUME NEW a, NEW b, b.gen = 1, b.prev = 0 PROVE ChainIn(a, b)
<1>1. {} \in SUBSET DOMAIN a /\ RestsIn(a, b, {})
  BY DEF RestsIn
<1> QED
  BY <1>1 DEF ChainIn

(* Steps that leave the baselines, the archive and the rollover alone.     *)
LEMMA ChainSame ==
  ASSUME Base, ChainInv, UNCHANGED <<archives, owner>>, dir'.baseline = dir.baseline,
         spent'.epochs = spent.epochs, spent'.crashes = spent.crashes
  PROVE  ChainInv'
  BY DEF ChainInv, Staged, Active, Old

LEMMA WriteFileChain == ASSUME Base, ChainInv, WriteFile PROVE ChainInv'
<1>0. Shape /\ Numbered
  BY DEF Base
<1>1. ~Staged' /\ ~Active'
  <2>1. Base'
    BY BaseStep DEF Next, OwnerStep
  <2>2. Writing' /\ DOMAIN owner'.todo = 1..(Len(owner.todo) - 1) /\ Len(owner.todo) \in Nat
    BY <1>0, FileWritten, TodoTail DEF WriteFile, Shape
  <2>3. ASSUME Rolling' PROVE FALSE
    <3>1. 1 \in DOMAIN owner'.todo
      BY <2>3 DEF Rolling, Before, Staged, Active, ToStage, ToArchive, ToActivate, ToVerify,
                  ToUnstage, ToRestore
    <3> QED
      BY <2>2, <2>3, <3>1, RollingWritesNoFileNext DEF Writing, ItemOK
  <2> QED
    BY <2>3 DEF Rolling
<1>2. dir'.baseline # None => ChainIn(archives', dir'.baseline)
  <2>1. CASE owner.todo[1].file = "baseline"
    <3>1. dir'.baseline = owner.todo[1].value
      BY <1>0, <2>1, FileWritten DEF Files
    <3> QED
      BY <1>0, <2>1, <3>1, FileWritten, FirstChain DEF Numbered
  <2>2. CASE owner.todo[1].file # "baseline"
    <3>1. dir'.baseline = dir.baseline
      BY <1>0, <2>2, FileWritten DEF Files
    <3> QED
      BY <3>1 DEF ChainInv, WriteFile
  <2> QED
    BY <2>1, <2>2
<1>3. ASSUME spent'.crashes = 0, spent'.epochs > 0, dir'.baseline = None
      PROVE  \E i \in DOMAIN owner'.todo : Returns(owner'.todo[i].file)
  <2>1. owner.todo[1].file # "baseline" /\ dir.baseline = None
    <3>1. ItemOK(owner.todo[1])
      BY <1>0, FileWritten DEF Writing
    <3>2. owner.todo[1].file # "baseline"
      BY <1>0, <1>3, <3>1, FileWritten, NoneIsAbsent DEF Files, ItemOK
    <3> QED
      BY <1>0, <1>3, <3>2, FileWritten DEF Files
  <2>2. PICK i \in DOMAIN owner.todo : Returns(owner.todo[i].file)
    BY <1>3, <2>1 DEF WriteFile, ChainInv
  <2>3. i # 1
    <3>1. owner.todo[1].file \in Files
      BY <1>0, FileWritten DEF Writing, ItemOK
    <3> QED
      BY <2>1, <2>2, <3>1 DEF Returns, Files
  <2>4. i - 1 \in DOMAIN owner'.todo /\ owner'.todo[i - 1] = owner.todo[i]
    <3>1. /\ Len(owner.todo) \in Nat \ {0}
          /\ DOMAIN owner.todo = 1..Len(owner.todo)
          /\ DOMAIN owner'.todo = 1..(Len(owner.todo) - 1)
          /\ \A j \in DOMAIN owner'.todo : owner'.todo[j] = owner.todo[j + 1]
      BY <1>0, TodoTail DEF WriteFile, Shape
    <3> QED
      BY <2>3, <3>1
  <2> QED
    BY <2>2, <2>4
<1> QED
  BY <1>1, <1>2, <1>3 DEF ChainInv

LEMMA OwnerStepChain == ASSUME Base, ChainInv, OwnerStep PROVE ChainInv'
<1>0. Shape /\ Numbered /\ TypeOK /\ spent.epochs \in Nat /\ spent.crashes \in Nat
  BY DEF Base, Shape, TypeOK
<1>1. CASE CreateBaseline
  <2> DEFINE b == BaselinePayload(1, 0)
  <2>1. UNCHANGED <<dir, archives>> /\ owner'.todo = BaselineWrites(b)
    BY <1>0, <1>1 DEF CreateBaseline, Shape, TodoOK
  <2>2. b \in Baselines
    BY <1>0, PayloadIsBaseline
  <2> HIDE DEF b
  <2>3. 3 \in DOMAIN owner'.todo /\ owner'.todo[3].file = "baseline"
        /\ 1 \in DOMAIN owner'.todo /\ owner'.todo[1].file \in Files
    BY <2>1, <2>2, BaselineTodo DEF Files
  <2>4. ~Staged' /\ ~Active'
    BY <2>3, RollingWritesNoFileNext DEF Rolling
  <2>5. \E i \in DOMAIN owner'.todo : Returns(owner'.todo[i].file)
    BY <2>3 DEF Returns
  <2> QED
    BY <2>1, <2>4, <2>5 DEF ChainInv
<1>2. ASSUME NEW op \in Ops, RenewEvidence(op) PROVE ChainInv'
  <2>1. owner'.todo = RenewalWrites(op) /\ RenewAccepted(op) /\ UNCHANGED <<dir, archives>>
        /\ spent'.epochs = spent.epochs /\ dir.baseline # None
    BY <1>0, <1>2 DEF RenewEvidence, RenewAccepted, Shape, TodoOK, TypeOK
  <2>2. 1 \in DOMAIN owner'.todo /\ owner'.todo[1].file \in Files
    <3>1. 1 \in DOMAIN owner'.todo
      BY <1>0, <2>1, RenewalTodo
    <3> QED
      BY <1>0, <2>1, <3>1, RenewalFiles DEF Files
  <2>3. ~Staged' /\ ~Active'
    BY <2>2, RollingWritesNoFileNext DEF Rolling
  <2> QED
    BY <2>1, <2>3 DEF ChainInv
<1>3. CASE WriteFile
  BY <1>3, WriteFileChain
<1>4. CASE Rollover
  <2>1. UNCHANGED <<dir, archives>> /\ owner'.todo = ToStage /\ dir.baseline # None
    BY <1>4 DEF Rollover, ToStage
  <2>2. ~Staged' /\ ~Active'
    BY <2>1, NextSteps DEF Staged, Active
  <2> QED
    BY <2>1, <2>2 DEF ChainInv
<1>5. CASE WriteStage
  <2>1. owner.todo = ToStage /\ Rolling /\ RolloverOK
    BY <1>0, <1>5, StepIsAt DEF WriteStage, Shape
  <2>2. owner'.todo = ToArchive /\ UNCHANGED <<dir, archives>> /\ dir.baseline # None
    BY <1>0, <1>5, <2>1, RolloverSteps DEF WriteStage, Shape, TodoOK, RolloverOK, Before
  <2>3. ~Staged' /\ ~Active'
    BY <2>2, NextSteps DEF Staged, Active
  <2> QED
    BY <2>2, <2>3 DEF ChainInv
<1>6. CASE ArchiveActive
  <2>1. ChainIn(archives', dir.baseline)
    <3>1. dir.baseline # None
      BY <1>0, <1>6, Archiving DEF RolloverOK
    <3>2. ChainIn(archives, dir.baseline)
      BY <3>1 DEF ChainInv
    <3> QED
      BY <1>0, <1>6, <3>2, Archiving, ChainKept
  <2>2. Old' = dir /\ dir'.baseline = None
    BY <1>0, <1>6, Archiving, EmptyDirectoryFiles
  <2>3. \E i \in DOMAIN owner'.todo : Returns(owner'.todo[i].file)
    <3>1. owner'.todo = ToActivate
      BY <1>0, <1>6, Archiving
    <3>2. 1 \in DOMAIN owner'.todo /\ owner'.todo[1].file = "activate"
      BY <3>1 DEF ToActivate, Step
    <3> QED
      BY <3>2 DEF Returns
  <2>4. ChainIn(archives', Old'.baseline)
    BY <2>1, <2>2
  <2> QED
    BY <2>2, <2>3, <2>4 DEF ChainInv
<1>7. CASE ActivateStage
  <2>1. UNCHANGED archives /\ Old' = Old /\ RolloverOK /\ ChainIn(archives, Old.baseline)
    BY <1>0, <1>7, Activating DEF Old, ChainInv
  <2>2. CASE Archived(owner.new.baseline) /\ dir' = owner.new
    <3>1. owner.new.baseline \in Baselines /\ owner.new = NewDirectory(owner.new.baseline)
      BY <2>1 DEF RolloverOK
    <3>2. owner.new.baseline # None
      BY <3>1, NewDirectoryFiles
    <3>3. ArchivedIn(archives, owner.new.baseline)
      BY <2>2 DEF Archived, ArchivedIn
    <3>4. owner.new.baseline.gen # 1
      <4>1. Old.baseline \in Baselines
        BY <1>0, <3>3 DEF ArchivedIn, Old, TypeOK, DirectoryOK
      <4>2. Old.baseline.gen = owner.new.baseline.gen - 1 /\ Old.baseline.gen \in Nat \ {0}
        BY <3>3, <4>1 DEF ArchivedIn, Old, Baselines
      <4> QED
        BY <4>2
    <3>5. ChainIn(archives, owner.new.baseline)
      BY <2>1, <3>3, <3>4, ChainExtends DEF Old
    <3> QED
      BY <2>1, <2>2, <3>2, <3>5 DEF ChainInv
  <2>3. CASE owner'.todo = ToRestore /\ UNCHANGED dir
    <3>1. 1 \in DOMAIN owner'.todo /\ owner'.todo[1].file = "restore"
      BY <2>3 DEF ToRestore, Step
    <3> QED
      BY <2>1, <2>3, <3>1 DEF ChainInv, Returns
  <2> QED
    BY <1>0, <1>7, <2>2, <2>3, Activating
<1>8. CASE VerifyActive
  <2>1. UNCHANGED <<dir, archives>> /\ dir.baseline # None
    <3>1. owner.new.baseline \in Baselines /\ dir.baseline = owner.new.baseline
      BY <1>0, <1>8, Verifying DEF RolloverOK
    <3> QED
      BY <1>8, <3>1, NewDirectoryFiles DEF VerifyActive
  <2>2. CASE owner' = Nothing
    BY <2>1, <2>2, NothingTodo DEF ChainInv, Rolling
  <2>3. CASE owner'.new = owner.new
    <3>1. Old' = Old /\ ChainIn(archives, Old.baseline)
      BY <1>0, <1>8, <2>1, <2>3, Verifying DEF Old, ChainInv
    <3> QED
      BY <2>1, <3>1 DEF ChainInv
  <2> QED
    BY <1>0, <1>8, <2>2, <2>3, Verifying
<1>9. CASE Unstage
  <2>1. Old' = Old /\ UNCHANGED archives /\ ChainIn(archives, Old.baseline) /\ dir'.baseline = None
    BY <1>0, <1>9, Unstaging, EmptyDirectoryFiles DEF Unstage, Old, ChainInv
  <2>2. 1 \in DOMAIN owner'.todo /\ owner'.todo[1].file = "restore"
    BY <1>0, <1>9, Unstaging DEF ToRestore, Step
  <2> QED
    BY <2>1, <2>2 DEF ChainInv, Returns
<1>10. CASE Restore
  <2>1. /\ dir' = Old /\ Old = archives[owner.new.baseline.prev]
        /\ owner.new.baseline.prev \in DOMAIN archives
        /\ ChainIn(archives, Old.baseline)
    BY <1>0, <1>10, Restoring DEF Old, ChainInv
  <2>2. \A id \in DOMAIN archives :
           /\ id \in Nat
           /\ archives[id].baseline.id = id
           /\ archives[id].baseline.prev \in Nat
           /\ archives[id].baseline.prev < id
    BY <1>0 DEF Numbered, NumberOK, TypeOK, DirectoryOK, Baselines
  <2>3. ChainIn(archives', Old.baseline)
    <3>1. DOMAIN archives' = DOMAIN archives \ {owner.new.baseline.prev}
          /\ \A id \in DOMAIN archives' : archives'[id] = archives[id]
      BY <1>0, <1>10, Restoring
    <3> QED
      BY <2>1, <2>2, <3>1, ChainWithout
  <2>4. dir'.baseline # None
    BY <1>0, <2>1 DEF Numbered
  <2> QED
    BY <1>0, <1>10, <2>1, <2>3, <2>4, Restoring, NothingTodo DEF ChainInv, Rolling
<1>11. CASE Crash
  <2>1. UNCHANGED <<dir, archives>> /\ spent'.crashes = spent.crashes + 1 /\ ~Staged' /\ ~Active'
    BY <1>0, <1>11, NothingTodo DEF Crash, TypeOK, Rolling
  <2> QED
    BY <1>0, <2>1 DEF ChainInv
<1> QED
  BY <1>1, <1>2, <1>3, <1>4, <1>5, <1>6, <1>7, <1>8, <1>9, <1>10, <1>11 DEF OwnerStep

LEMMA ChainStep == Base /\ ChainInv /\ [Next]_vars => ChainInv'
<1> SUFFICES ASSUME Base, ChainInv, [Next]_vars PROVE ChainInv'
  OBVIOUS
<1>0. Shape
  BY DEF Base
<1>1. CASE OwnerStep
  BY <1>1, OwnerStepChain
<1>2. CASE ReaderStep
  BY <1>2, ReaderStepFrame, ChainSame DEF EnvUnchanged, ownerVars
<1>3. CASE WorldStep
  <2>1. CASE \E k \in Kinds : RecordEvent(k)
    <3>1. UNCHANGED <<archives, owner, spent>> /\ dir'.baseline = dir.baseline
      BY <1>0, <2>1, Recording DEF RecordEvent, Files
    <3> QED
      BY <3>1, ChainSame
  <2>2. CASE Tick \/ RefreshRegistry
    BY <2>2, ChainSame DEF Tick, RefreshRegistry, ownerVars
  <2>3. CASE ChangeAuthority \/ Commit
    <3>1. spent'.epochs = spent.epochs /\ spent'.crashes = spent.crashes
      BY <1>0, <2>3 DEF ChangeAuthority, Commit, Change, Shape, TypeOK
    <3> QED
      BY <2>3, <3>1, ChainSame DEF ChangeAuthority, Commit, ownerVars
  <2> QED
    BY <1>3, <2>1, <2>2, <2>3 DEF WorldStep
<1>4. CASE UNCHANGED vars
  BY <1>4, ChainSame DEF vars
<1> QED
  BY <1>1, <1>2, <1>3, <1>4 DEF Next

(* However rollovers fail, are turned back or are killed between two files, *)
(* the active epoch rests on archived epochs back to generation 1, each as *)
(* it was signed; and unless an Owner process was killed, an idle project  *)
(* that ever had an epoch has one.                                         *)
THEOREM EpochsRest == Spec => []EpochChain
<1>1. Base /\ ChainInv => EpochChain
  <2> SUFFICES ASSUME Base, ChainInv PROVE EpochChain
    OBVIOUS
  <2>1. Idle => DOMAIN owner.todo = {}
    BY DEF Idle
  <2> QED
    BY <2>1, ChainIsChainIn DEF ChainInv, EpochChain
<1> QED
  BY <1>1, InitChain, ChainStep, EvidenceInvariance, PTL DEF Spec

-----------------------------------------------------------------------------
(* One authority.                                                          *)

(* A baseline or an observation was made under a generation not before the *)
(* one the assessment began with, and not after the one in force.          *)
Since(e) == e.auth \in reader.auth..authority.generation

AuthInv ==
    /\ reader.auth <= authority.generation
    /\ reader.pc \in {"evidence", "evidence files", "assess", "decide"} => Since(reader.baseline)
    /\ reader.pc = "decide" => \A k \in Kinds : Since(reader[k])
    /\ OneAuthority

LEMMA InitAuth == Init => AuthInv
<1> SUFFICES ASSUME Init PROVE AuthInv
  OBVIOUS
<1>1. reader.pc = "idle" /\ reader.auth = 0 /\ authority.generation = 1
  BY AwaitingFields DEF Init
<1> QED
  BY <1>1 DEF AuthInv, OneAuthority

(* The generation in force only grows.                                     *)
LEMMA AuthGrows ==
  ASSUME TypeOK, AuthInv, UNCHANGED reader,
         authority'.generation \in Nat, authority.generation <= authority'.generation
  PROVE  AuthInv'
<1>1. reader.auth \in Nat /\ authority.generation \in Nat
  BY DEF TypeOK, ReaderOK
<1>2. ASSUME NEW e, Since(e) PROVE e.auth \in reader.auth..authority'.generation
  BY <1>1, <1>2 DEF Since
<1>3. reader'.auth <= authority'.generation
  <2>1. reader.auth <= authority.generation
    BY DEF AuthInv
  <2> QED
    BY <1>1, <2>1
<1>4. Since(reader.baseline) => Since(reader.baseline)'
  BY <1>2 DEF Since
<1>5. \A k \in Kinds : Since(reader[k]) => Since(reader[k])'
  BY <1>2 DEF Since
<1>6. OneAuthority'
  BY DEF AuthInv, OneAuthority
<1> QED
  BY <1>3, <1>4, <1>5, <1>6 DEF AuthInv

LEMMA ReaderStepAuth == ASSUME Base, AuthInv, ReaderStep PROVE AuthInv'
<1>0. Shape /\ reader.auth \in Nat /\ authority.generation \in Nat
  BY DEF Base, Shape, TypeOK, ReaderOK
<1>1. UNCHANGED authority
  BY ReaderStepFrame DEF EnvUnchanged
<1>2. CASE Refuse
  <2>1. reader'.pc = "idle" /\ reader'.auth <= authority'.generation
    BY <1>0, <1>1, <1>2, RefuseEffect
  <2> QED
    BY <2>1 DEF AuthInv, OneAuthority
<1>3. CASE StartAssessment
  <2>1. reader'.pc = "baseline" /\ reader'.auth <= authority'.generation
    BY <1>0, <1>1, <1>3, StartEffect
  <2> QED
    BY <2>1 DEF AuthInv, OneAuthority
<1>4. CASE ReadBaseline /\ dir.baseline # None
  BY <1>0, <1>1, <1>4, ReadBaselineEffect DEF AuthInv, OneAuthority
<1>5. CASE CheckBaseline /\ BaselineLoads(dir, reader.baseline) /\ Proceed("evidence")
  <2>1. /\ reader'.pc = "evidence" /\ reader'.auth = reader.auth
        /\ reader'.baseline = reader.baseline
    BY <1>0, <1>5, ProceedEffect DEF Shape, TypeOK, Places
  <2>2. reader.baseline.auth = authority.generation
    BY <1>5 DEF BaselineLoads, BoundNow
  <2>3. reader.auth <= authority.generation
    BY DEF AuthInv
  <2>4. Since(reader.baseline)' /\ reader'.auth <= authority'.generation
    BY <1>0, <1>1, <2>1, <2>2, <2>3 DEF Since
  <2> QED
    BY <2>1, <2>4 DEF AuthInv, OneAuthority
<1>6. CASE ReadEvidence /\ dir[reader.kind] # None
  <2>1. reader.pc = "evidence"
    BY <1>6 DEF ReadEvidence, Reads
  <2> QED
    BY <1>0, <1>1, <1>6, <2>1, ReadEvidenceEffect DEF AuthInv, Since, OneAuthority
<1>7. CASE CheckEvidence /\ ~Refuse
  <2>1. reader.pc = "evidence files"
    BY <1>7 DEF CheckEvidence, Reads
  <2> QED
    BY <1>0, <1>1, <1>7, <2>1, CheckEvidenceEffect DEF AuthInv, Since, OneAuthority
<1>8. CASE (Assess \/ Decide \/ Evaluate \/ Comply \/ Deliver) /\ ~Refuse
  <2>1. CASE reader.pc = "assess" /\ reader'.pc = "decide"
    BY <1>0, <1>1, <1>8, <2>1, DecisionEffect DEF AuthInv, Since, OneAuthority
  <2>2. CASE reader.pc = "decide" /\ reader'.pc = "policy"
    BY <1>0, <1>1, <1>8, <2>2, DecisionEffect DEF AuthInv, Since, OneAuthority
  <2>3. CASE reader.pc \in {"policy", "compliance"} /\ reader'.pc \in {"compliance", "approved"}
    BY <1>0, <1>1, <1>8, <2>3, DecisionEffect DEF AuthInv, OneAuthority
  <2> QED
    BY <1>0, <1>8, <2>1, <2>2, <2>3, DecisionEffect
<1> QED
  BY <1>0, <1>2, <1>3, <1>4, <1>5, <1>6, <1>7, <1>8, ReaderSteps

LEMMA AuthStep == Base /\ AuthInv /\ [Next]_vars => AuthInv'
<1> SUFFICES ASSUME Base, AuthInv, [Next]_vars PROVE AuthInv'
  OBVIOUS
<1>0. TypeOK /\ authority.generation \in Nat
  BY DEF Base, Shape, TypeOK
<1>1. CASE ReaderStep
  BY <1>1, ReaderStepAuth
<1>2. CASE OwnerStep
  <2>1. UNCHANGED <<reader, authority>>
    BY <1>2 DEF OwnerStep, CreateBaseline, RenewEvidence, WriteFile, Rollover, WriteStage,
                ArchiveActive, ActivateStage, VerifyActive, Unstage, Restore, Crash
  <2> QED
    BY <1>0, <2>1, AuthGrows
<1>3. CASE WorldStep
  <2>1. UNCHANGED reader /\ authority'.generation \in Nat
        /\ authority.generation <= authority'.generation
    BY <1>0, <1>3 DEF WorldStep, Tick, RecordEvent, ChangeAuthority, Commit, RefreshRegistry
  <2> QED
    BY <1>0, <2>1, AuthGrows
<1>4. CASE UNCHANGED vars
  BY <1>0, <1>4, AuthGrows DEF vars
<1> QED
  BY <1>1, <1>2, <1>3, <1>4 DEF Next

(* Whatever is published while a delivery reads its evidence file after    *)
(* file, the baseline, both observations and the assessment it decides on  *)
(* were made under one authority generation.                               *)
THEOREM AuthorityIsOne == Spec => []OneAuthority
<1>1. AuthInv => OneAuthority
  BY DEF AuthInv
<1> QED
  BY <1>1, InitAuth, AuthStep, EvidenceInvariance, PTL DEF Spec

-----------------------------------------------------------------------------
(* One observation.                                                        *)

(* The time an activation was written for, and up to which time a          *)
(* directory is covered by observations.                                   *)
End(a) == a.hash["rollback"][2]
Cover(d) == IF d.rollback = None THEN d.baseline.at ELSE d.rollback.end

(* Both kinds were activated for one time, up to which at least the        *)
(* directory's rollbacks are observed; none of it is later than t.         *)
Ordered(d, t) ==
    /\ d.baseline = None => d.rollback = None
    /\ d.rollback = None => d.activation = None
    /\ d.baseline # None => Cover(d) <= t
    /\ d.activation # None =>
          /\ d.activation.hash["incident"][2] = End(d.activation)
          /\ End(d.activation) <= d.rollback.end

(* A baseline, the observation of rollbacks and an activation that are     *)
(* still to be written are each the only one of a command.                 *)
BaselinePending ==
    \A i \in DOMAIN owner.todo : owner.todo[i].file = "baseline" =>
        /\ dir.baseline = None
        /\ owner.todo[i].value.at <= now
        /\ \A j \in DOMAIN owner.todo :
              owner.todo[j].file \in {"baseline", "rollback", "activation"} => j = i

RollbackPending ==
    \A i \in DOMAIN owner.todo : owner.todo[i].file = "rollback" =>
        /\ dir.baseline # None
        /\ owner.todo[i].value.end <= now
        /\ dir.rollback # None => dir.rollback.end <= owner.todo[i].value.end
        /\ \A j \in DOMAIN owner.todo : owner.todo[j].file = "rollback" => j = i

(* The activation is written last, for the time of the observation that    *)
(* is written before it and a later time than the one in force.            *)
ActivationPending ==
    \A i \in DOMAIN owner.todo : owner.todo[i].file = "activation" =>
        /\ i = Len(owner.todo)
        /\ owner.todo[i].value.hash["incident"][2] = End(owner.todo[i].value)
        /\ End(owner.todo[i].value) <= now
        /\ dir.activation # None => End(dir.activation) < End(owner.todo[i].value)
        /\ \A j \in DOMAIN owner.todo : owner.todo[j].file = "rollback" =>
              owner.todo[j].value.end = End(owner.todo[i].value)
        /\ \/ dir.rollback # None /\ dir.rollback.end = End(owner.todo[i].value)
           \/ \E j \in DOMAIN owner.todo : owner.todo[j].file = "rollback"

RolloverOrdered ==
    /\ Staged \/ Active => Ordered(Old, now)
    /\ Before => Cover(dir) <= owner.new.baseline.at
    /\ Rolling => owner.new.baseline.at <= now

EndsInv ==
    /\ Ordered(dir, now)
    /\ BaselinePending
    /\ RollbackPending
    /\ ActivationPending
    /\ RolloverOrdered

(* Observation e has been activated: no later activation is for its time.  *)
Fits(d, e) ==
    /\ d.baseline # None => e.end <= Cover(d)
    /\ d.activation # None /\ End(d.activation) = e.end =>
          d.activation.op = e.op /\ d.activation.gen = e.gen /\ d.activation.baseline = e.baseline

Surpassed(e) ==
    \A i \in DOMAIN owner.todo :
        /\ owner.todo[i].file = "baseline" => e.end <= owner.todo[i].value.at
        /\ owner.todo[i].file = "rollback" => e.end <= owner.todo[i].value.end
        /\ owner.todo[i].file = "activation" => e.end < End(owner.todo[i].value)

Held(e) ==
    /\ e.end <= now
    /\ Fits(dir, e)
    /\ Staged \/ Active => Fits(Old, e)
    /\ Rolling => e.end <= owner.new.baseline.at
    /\ Surpassed(e)

(* The times are numbers.                                                  *)
LEMMA Times ==
  ASSUME NEW d, DirectoryOK(d)
  PROVE  /\ d.baseline # None => d.baseline.at \in Nat
         /\ d.rollback # None => d.rollback.end \in Nat
         /\ d.baseline # None => Cover(d) \in Nat
         /\ d.activation # None => End(d.activation) \in Nat
<1>1. d.baseline # None => d.baseline.at \in Nat
  BY DEF DirectoryOK, Baselines
<1>2. d.rollback # None => d.rollback.end \in Nat
  <2>1. d["rollback"] \in Observations \cup {None}
    BY DEF DirectoryOK, Kinds
  <2> QED
    BY <2>1 DEF Observations
<1>3. d.activation # None => End(d.activation) \in Nat
  <2> SUFFICES ASSUME d.activation # None PROVE End(d.activation) \in Nat
    OBVIOUS
  <2>1. d.activation.hash \in [Kinds -> Hashes]
    BY DEF DirectoryOK, Activations
  <2>2. d.activation.hash["rollback"] \in Hashes
    BY <2>1 DEF Kinds
  <2> QED
    BY <2>2 DEF End, Hashes
<1> QED
  BY <1>1, <1>2, <1>3 DEF Cover

LEMMA PendingTimes ==
  ASSUME Writing, NEW i \in DOMAIN owner.todo
  PROVE  /\ owner.todo[i].file = "baseline" => owner.todo[i].value.at \in Nat
         /\ owner.todo[i].file = "rollback" => owner.todo[i].value.end \in Nat
         /\ owner.todo[i].file = "activation" => End(owner.todo[i].value) \in Nat
<1> DEFINE w == owner.todo[i]
<1>1. ItemOK(w)
  BY DEF Writing
<1> HIDE DEF w
<1>2. w.file = "baseline" => w.value.at \in Nat
  BY <1>1 DEF ItemOK, Baselines
<1>3. w.file = "rollback" => w.value.end \in Nat
  BY <1>1 DEF ItemOK, Observations, Kinds
<1>4. w.file = "activation" => End(w.value) \in Nat
  <2> SUFFICES ASSUME w.file = "activation" PROVE End(w.value) \in Nat
    OBVIOUS
  <2>1. w.value.hash \in [Kinds -> Hashes]
    BY <1>1 DEF ItemOK, Activations
  <2>2. w.value.hash["rollback"] \in Hashes
    BY <2>1 DEF Kinds
  <2> QED
    BY <2>2 DEF End, Hashes
<1> QED
  BY <1>2, <1>3, <1>4 DEF w

(* Order and fit depend on three files only, and order outlasts time.      *)
LEMMA SameFiles ==
  ASSUME NEW c, NEW d, NEW t,
         c.baseline = d.baseline, c.rollback = d.rollback, c.activation = d.activation
  PROVE  /\ Cover(c) = Cover(d)
         /\ Ordered(d, t) => Ordered(c, t)
         /\ \A e : Fits(d, e) => Fits(c, e)
  BY DEF Cover, Ordered, Fits

LEMMA OrderedLater ==
  ASSUME NEW d, DirectoryOK(d), NEW t \in Nat, NEW u \in Nat, t <= u, Ordered(d, t)
  PROVE  Ordered(d, u)
<1>1. d.baseline # None => Cover(d) <= u
  <2> SUFFICES ASSUME d.baseline # None PROVE Cover(d) <= u
    OBVIOUS
  <2>1. Cover(d) \in Nat /\ Cover(d) <= t
    BY Times DEF Ordered
  <2> QED
    BY <2>1
<1> QED
  BY <1>1 DEF Ordered

LEMMA EmptyOrdered ==
  /\ \A t : Ordered(EmptyDirectory, t)
  /\ \A e : Fits(EmptyDirectory, e)
  BY EmptyDirectoryFiles DEF Ordered, Fits

LEMMA NewOrdered ==
  ASSUME NEW b \in Baselines
  PROVE  /\ \A t : b.at <= t => Ordered(NewDirectory(b), t)
         /\ \A e : e.end <= b.at => Fits(NewDirectory(b), e)
<1>1. /\ NewDirectory(b).baseline = b /\ b # None
      /\ NewDirectory(b).rollback = None /\ NewDirectory(b).activation = None
  BY NewDirectoryFiles
<1>2. Cover(NewDirectory(b)) = b.at
  BY <1>1 DEF Cover
<1> QED
  BY <1>1, <1>2 DEF Ordered, Fits

LEMMA InitEnds == Init => EndsInv
<1> SUFFICES ASSUME Init PROVE EndsInv
  OBVIOUS
<1>1. dir = EmptyDirectory /\ DOMAIN owner.todo = {} /\ owner.todo = <<>>
  BY DEF Init, Nothing
<1>2. ~Before /\ ~Staged /\ ~Active
  BY <1>1, IdleIsWriting DEF Before, Staged, Active
<1> QED
  BY <1>1, <1>2, EmptyOrdered
     DEF EndsInv, BaselinePending, RollbackPending, ActivationPending, RolloverOrdered, Rolling

(* A command that has none of these files to write.                        *)
LEMMA NonePending ==
  ASSUME \A i \in DOMAIN owner'.todo :
            owner'.todo[i].file \notin {"baseline", "rollback", "activation"}
  PROVE  BaselinePending' /\ RollbackPending' /\ ActivationPending' /\ \A e : Surpassed(e)'
  BY DEF BaselinePending, RollbackPending, ActivationPending, Surpassed

LEMMA NothingPending ==
  ASSUME owner' = Nothing
  PROVE  /\ BaselinePending' /\ RollbackPending' /\ ActivationPending' /\ \A e : Surpassed(e)'
         /\ ~Before' /\ ~Staged' /\ ~Active' /\ ~Rolling'
<1>1. DOMAIN owner'.todo = {}
  BY DEF Nothing
<1>2. ~Rolling'
  BY NothingTodo
<1> QED
  BY <1>1, <1>2, NonePending DEF Rolling

LEMMA RollingPending ==
  ASSUME Rolling'
  PROVE  BaselinePending' /\ RollbackPending' /\ ActivationPending' /\ \A e : Surpassed(e)'
  BY RollingWritesNoFileNext, NonePending DEF Files

(* A command that writes files rolls nothing over.                         *)
LEMMA WritingNotRolling ==
  ASSUME Writing', 1 \in DOMAIN owner'.todo \/ owner'.todo = <<>>
  PROVE  ~Rolling' /\ ~Before' /\ ~Staged' /\ ~Active'
<1>1. CASE 1 \in DOMAIN owner'.todo
  BY <1>1, RollingWritesNoFileNext DEF Writing, ItemOK, Rolling
<1>2. CASE owner'.todo = <<>>
  BY <1>2, NextSteps DEF Rolling, Before, Staged, Active
<1> QED
  BY <1>1, <1>2

LEMMA CreateBaselineEnds == ASSUME Base, EndsInv, CreateBaseline
                            PROVE  EndsInv' /\ \A e : Held(e) => Held(e)'
<1> DEFINE b == BaselinePayload(1, 0)
<1>0. Shape /\ TypeOK /\ now \in Nat
  BY DEF Base, Shape, TypeOK
<1>1. /\ UNCHANGED <<dir, archives, now>> /\ owner'.todo = BaselineWrites(b)
      /\ dir.baseline = None
  BY <1>0 DEF CreateBaseline, Shape, TodoOK
<1>2. b \in Baselines /\ b.at = now
  BY <1>0, PayloadIsBaseline
<1> HIDE DEF b
<1>3. /\ DOMAIN owner'.todo = 1..5
      /\ owner'.todo[1].file = "bjournal" /\ owner'.todo[2].file = "ledgers"
      /\ owner'.todo[3].file = "baseline" /\ owner'.todo[3].value = b
      /\ owner'.todo[4].file = "bjournal" /\ owner'.todo[5].file = "bactivation"
  BY <1>1, <1>2, BaselineTodo
<1>4. \A i \in DOMAIN owner'.todo :
         /\ owner'.todo[i].file \notin {"rollback", "activation"}
         /\ owner'.todo[i].file = "baseline" => i = 3
  BY <1>3
<1>5. RollbackPending' /\ ActivationPending' /\ \A e : e.end <= now => Surpassed(e)'
  BY <1>2, <1>3, <1>4 DEF RollbackPending, ActivationPending, Surpassed
<1>6. BaselinePending'
  BY <1>0, <1>1, <1>2, <1>3, <1>4 DEF BaselinePending
<1>7. ~Rolling' /\ ~Before' /\ ~Staged' /\ ~Active'
  <2>1. 1 \in DOMAIN owner'.todo /\ owner'.todo[1].file \in Files
    BY <1>3 DEF Files
  <2> QED
    BY <2>1, RollingWritesNoFileNext DEF Rolling
<1>8. EndsInv'
  BY <1>1, <1>5, <1>6, <1>7 DEF EndsInv, RolloverOrdered
<1>9. ASSUME NEW e, Held(e) PROVE Held(e)'
  BY <1>1, <1>5, <1>7, <1>9 DEF Held
<1> QED
  BY <1>8, <1>9

(* Everything observed and activated so far is from before the renewal.    *)
LEMMA RenewalIsLater ==
  ASSUME Base, EndsInv, NEW op \in Ops, RenewAccepted(op)
  PROVE  /\ dir.baseline # None /\ Cover(dir) <= now /\ Cover(dir) < now /\ Cover(dir) \in Nat
         /\ dir.rollback # None => dir.rollback.end <= now
         /\ dir.activation # None => End(dir.activation) < now
<1>0. TypeOK /\ DirectoryOK(dir) /\ now \in Nat
  BY DEF Base, Shape, TypeOK
<1>1. dir.baseline # None
  BY DEF RenewAccepted
<1>2. Cover(dir) = CoverageStart
  BY <1>0 DEF Cover, CoverageStart, First, DirectoryOK, Files
<1>3. Cover(dir) \in Nat /\ Cover(dir) < now
  BY <1>0, <1>2, RenewalValues
<1>4. dir.rollback # None => dir.rollback.end <= now
  BY <1>0, <1>3 DEF Cover
<1>5. dir.activation # None => End(dir.activation) < now
  <2> SUFFICES ASSUME dir.activation # None PROVE End(dir.activation) < now
    OBVIOUS
  <2>1. End(dir.activation) <= dir.rollback.end /\ dir.rollback # None
    BY DEF EndsInv, Ordered
  <2>2. dir.rollback.end < now /\ dir.rollback.end \in Nat /\ End(dir.activation) \in Nat
    BY <1>0, <1>3, <2>1, Times DEF Cover
  <2> QED
    BY <1>0, <2>1, <2>2
<1> QED
  BY <1>0, <1>1, <1>3, <1>4, <1>5

LEMMA RenewEvidenceEnds == ASSUME Base, EndsInv, NEW op \in Ops, RenewEvidence(op)
                           PROVE  EndsInv' /\ \A e : e.end \in Nat /\ Held(e) => Held(e)'
<1>0. Shape /\ TypeOK /\ now \in Nat
  BY DEF Base, Shape, TypeOK
<1>1. /\ UNCHANGED <<dir, archives, now>> /\ owner'.todo = RenewalWrites(op)
      /\ RenewAccepted(op)
  BY <1>0 DEF RenewEvidence, Shape, TodoOK
<1>2. \A i \in DOMAIN owner'.todo : owner'.todo[i].file # "baseline"
  BY <1>0, <1>1, RenewalFiles
<1>3. 1 \in DOMAIN owner'.todo
  BY <1>0, <1>1, RenewalTodo
<1>4. ~Rolling' /\ ~Before' /\ ~Staged' /\ ~Active'
  <2>1. owner'.todo[1].file \in Files
    BY <1>0, <1>1, <1>3, RenewalFiles DEF Files
  <2> QED
    BY <1>3, <2>1, RollingWritesNoFileNext DEF Rolling
<1>5. BaselinePending'
  BY <1>2 DEF BaselinePending
<1>6. RollbackPending' /\ ActivationPending' /\ \A e : e.end \in Nat /\ Held(e) => Surpassed(e)'
  <2>1. CASE DOMAIN owner'.todo = 1..1 /\ owner'.todo[1].file = "journal"
    BY <2>1, NonePending
  <2>2. CASE ~(DOMAIN owner'.todo = 1..1 /\ owner'.todo[1].file = "journal")
    <3>1. PICK n \in {5, 7} :
            /\ Len(owner'.todo) = n /\ DOMAIN owner'.todo = 1..n
            /\ \A i \in 1..(n - 4) : owner'.todo[i].file \in {"journal", "history"}
            /\ owner'.todo[n - 3] = Write("rollback", Observation("rollback", op))
            /\ owner'.todo[n - 2] = Write("incident", Observation("incident", op))
            /\ owner'.todo[n - 1].file = "journal"
            /\ owner'.todo[n] = Write("activation", RenewedActivation(op))
      BY <1>0, <1>1, <2>2, RenewalTodo
    <3>2. /\ owner'.todo[n - 3].file = "rollback" /\ owner'.todo[n - 3].value.end = now
          /\ owner'.todo[n - 2].file = "incident" /\ owner'.todo[n].file = "activation"
          /\ owner'.todo[n].value = RenewedActivation(op)
      BY <3>1 DEF Write, Observation
    <3>3. /\ RenewedActivation(op).hash["incident"][2] = now
          /\ End(RenewedActivation(op)) = now
      BY <1>0, <1>1, RenewalValues DEF RenewedActivation, End, Kinds
    <3>4. \A i \in DOMAIN owner'.todo :
             /\ owner'.todo[i].file = "rollback" => i = n - 3
             /\ owner'.todo[i].file = "activation" => i = n
      <4> SUFFICES ASSUME NEW i \in DOMAIN owner'.todo
                   PROVE  /\ owner'.todo[i].file = "rollback" => i = n - 3
                          /\ owner'.todo[i].file = "activation" => i = n
        OBVIOUS
      <4>1. i \in 1..(n - 4) \/ i = n - 3 \/ i = n - 2 \/ i = n - 1 \/ i = n
        BY <3>1
      <4> QED
        BY <3>1, <3>2, <4>1
    <3>5. n - 3 \in DOMAIN owner'.todo
      BY <3>1
    <3>6. RollbackPending'
      BY <1>0, <1>1, <3>2, <3>4, RenewalIsLater DEF RollbackPending
    <3>7. ActivationPending'
      BY <1>0, <1>1, <3>1, <3>2, <3>3, <3>4, <3>5, RenewalIsLater DEF ActivationPending
    <3>8. ASSUME NEW e, e.end \in Nat, Held(e) PROVE Surpassed(e)'
      <4>1. e.end <= Cover(dir)
        BY <1>1, <3>8, RenewalIsLater DEF Held, Fits
      <4>2. e.end < now
        BY <1>0, <1>1, <3>8, <4>1, RenewalIsLater
      <4> QED
        BY <1>0, <1>2, <3>2, <3>3, <3>4, <3>8, <4>2 DEF Surpassed
    <3> QED
      BY <3>6, <3>7, <3>8
  <2> QED
    BY <2>1, <2>2
<1>7. EndsInv'
  BY <1>1, <1>4, <1>5, <1>6 DEF EndsInv, RolloverOrdered
<1>8. ASSUME NEW e, e.end \in Nat, Held(e) PROVE Held(e)'
  BY <1>1, <1>4, <1>6, <1>8 DEF Held
<1> QED
  BY <1>7, <1>8

(* What writing a file leaves to write.                                    *)
LEMMA WriteFileLeaves ==
  ASSUME Base, WriteFile
  PROVE  /\ Writing /\ Writing' /\ ~Rolling' /\ ~Before' /\ ~Staged' /\ ~Active'
         /\ Len(owner.todo) \in Nat \ {0} /\ DOMAIN owner.todo = 1..Len(owner.todo)
         /\ Len(owner'.todo) = Len(owner.todo) - 1
         /\ \A i \in DOMAIN owner'.todo :
               i \in Nat \ {0} /\ i + 1 \in DOMAIN owner.todo /\ owner'.todo[i] = owner.todo[i + 1]
         /\ \A i \in DOMAIN owner.todo :
               i # 1 => i - 1 \in DOMAIN owner'.todo /\ owner'.todo[i - 1] = owner.todo[i]
         /\ UNCHANGED <<archives, now>>
<1>0. Shape
  BY DEF Base
<1>1. Writing /\ Writing'
  BY <1>0, FileWritten
<1>2. /\ Len(owner.todo) \in Nat \ {0} /\ DOMAIN owner.todo = 1..Len(owner.todo)
      /\ Len(owner'.todo) = Len(owner.todo) - 1
      /\ DOMAIN owner'.todo = 1..(Len(owner.todo) - 1)
      /\ \A i \in DOMAIN owner'.todo : owner'.todo[i] = owner.todo[i + 1]
  BY <1>0, TodoTail DEF WriteFile, Shape
<1>3. owner'.todo = <<>> \/ 1 \in DOMAIN owner'.todo
  <2>1. CASE Len(owner.todo) = 1
    <3>1. PICK S : owner'.todo \in Seq(S)
      BY <1>0, TodoTail DEF WriteFile, Shape
    <3> QED
      BY <1>2, <2>1, <3>1
  <2>2. CASE Len(owner.todo) # 1
    BY <1>2, <2>2
  <2> QED
    BY <2>1, <2>2
<1>4. ~Rolling' /\ ~Before' /\ ~Staged' /\ ~Active'
  BY <1>1, <1>3, WritingNotRolling
<1>5. /\ \A i \in DOMAIN owner'.todo :
            i \in Nat \ {0} /\ i + 1 \in DOMAIN owner.todo /\ owner'.todo[i] = owner.todo[i + 1]
      /\ \A i \in DOMAIN owner.todo :
            i # 1 => i - 1 \in DOMAIN owner'.todo /\ owner'.todo[i - 1] = owner.todo[i]
  BY <1>2
<1> QED
  BY <1>1, <1>2, <1>4, <1>5 DEF WriteFile

LEMMA WriteBaselineEnds ==
  ASSUME Base, EndsInv, WriteFile, owner.todo[1].file = "baseline"
  PROVE  EndsInv' /\ \A e : Held(e) => Held(e)'
<1>0. Shape /\ 1 \in DOMAIN owner.todo
  BY FileWritten DEF Base
<1>1. /\ dir.baseline = None /\ owner.todo[1].value.at <= now
      /\ \A j \in DOMAIN owner.todo :
            owner.todo[j].file \in {"baseline", "rollback", "activation"} => j = 1
  BY <1>0 DEF EndsInv, BaselinePending
<1>2. dir.rollback = None /\ dir.activation = None
  BY <1>1 DEF EndsInv, Ordered
<1>3. /\ dir'.baseline = owner.todo[1].value
      /\ dir'.rollback = None /\ dir'.activation = None
  BY <1>0, <1>2, FileWritten DEF Files
<1>4. dir'.baseline # None
  BY <1>0, <1>3, FileWritten, NoneIsAbsent DEF Writing, ItemOK
<1>5. \A i \in DOMAIN owner'.todo :
         owner'.todo[i].file \notin {"baseline", "rollback", "activation"}
  <2> SUFFICES ASSUME NEW i \in DOMAIN owner'.todo,
                      owner'.todo[i].file \in {"baseline", "rollback", "activation"}
               PROVE  FALSE
    OBVIOUS
  <2>1. i \in Nat \ {0} /\ i + 1 \in DOMAIN owner.todo /\ owner'.todo[i] = owner.todo[i + 1]
    BY WriteFileLeaves
  <2>2. i + 1 = 1
    BY <1>1, <2>1
  <2> QED
    BY <2>1, <2>2
<1>6. Cover(dir') = owner.todo[1].value.at
  BY <1>3 DEF Cover
<1>7. Ordered(dir, now)'
  BY <1>1, <1>3, <1>4, <1>6, WriteFileLeaves DEF Ordered
<1>8. EndsInv'
  BY <1>5, <1>7, NonePending, WriteFileLeaves DEF EndsInv, RolloverOrdered
<1>9. ASSUME NEW e, Held(e) PROVE Held(e)'
  <2>1. e.end <= owner.todo[1].value.at
    BY <1>0, <1>9 DEF Held, Surpassed
  <2>2. Fits(dir, e)'
    BY <1>3, <1>4, <1>6, <2>1 DEF Fits
  <2> QED
    BY <1>5, <1>9, <2>2, NonePending, WriteFileLeaves DEF Held
<1> QED
  BY <1>8, <1>9

(* What is left of the files to write keeps its order as long as the       *)
(* directory does.                                                         *)
LEMMA BaselineLeft ==
  ASSUME Base, EndsInv, WriteFile, owner.todo[1].file # "baseline"
  PROVE  /\ dir'.baseline = dir.baseline
         /\ BaselinePending'
         /\ \A e : Surpassed(e) => Surpassed(e)'
<1>0. Shape /\ 1 \in DOMAIN owner.todo
  BY FileWritten DEF Base
<1>1. dir'.baseline = dir.baseline
  BY <1>0, FileWritten DEF Files
<1>2. BaselinePending'
  <2> SUFFICES ASSUME NEW i \in DOMAIN owner'.todo, owner'.todo[i].file = "baseline"
               PROVE  /\ dir'.baseline = None
                      /\ owner'.todo[i].value.at <= now'
                      /\ \A j \in DOMAIN owner'.todo :
                            owner'.todo[j].file \in {"baseline", "rollback", "activation"} => j = i
    BY DEF BaselinePending
  <2>1. i \in Nat \ {0} /\ i + 1 \in DOMAIN owner.todo /\ owner'.todo[i] = owner.todo[i + 1]
    BY WriteFileLeaves
  <2>2. /\ dir.baseline = None /\ owner.todo[i + 1].value.at <= now
        /\ \A j \in DOMAIN owner.todo :
              owner.todo[j].file \in {"baseline", "rollback", "activation"} => j = i + 1
    BY <2>1 DEF EndsInv, BaselinePending
  <2>3. ASSUME NEW j \in DOMAIN owner'.todo,
               owner'.todo[j].file \in {"baseline", "rollback", "activation"}
        PROVE  j = i
    <3>1. j \in Nat \ {0} /\ j + 1 \in DOMAIN owner.todo /\ owner'.todo[j] = owner.todo[j + 1]
      BY WriteFileLeaves
    <3>2. j + 1 = i + 1
      BY <2>2, <2>3, <3>1
    <3> QED
      BY <2>1, <3>1, <3>2
  <2> QED
    BY <1>1, <2>1, <2>2, <2>3, WriteFileLeaves
<1>3. ASSUME NEW e, Surpassed(e) PROVE Surpassed(e)'
  <2> SUFFICES ASSUME NEW i \in DOMAIN owner'.todo
               PROVE  /\ owner'.todo[i].file = "baseline" => e.end <= owner'.todo[i].value.at
                      /\ owner'.todo[i].file = "rollback" => e.end <= owner'.todo[i].value.end
                      /\ owner'.todo[i].file = "activation" => e.end < End(owner'.todo[i].value)
    BY DEF Surpassed
  <2>1. i + 1 \in DOMAIN owner.todo /\ owner'.todo[i] = owner.todo[i + 1]
    BY WriteFileLeaves
  <2> QED
    BY <1>3, <2>1 DEF Surpassed
<1> QED
  BY <1>1, <1>2, <1>3

LEMMA RollbackLeft ==
  ASSUME Base, EndsInv, WriteFile, owner.todo[1].file # "baseline"
  PROVE  RollbackPending'
<1>0. Shape /\ 1 \in DOMAIN owner.todo
  BY FileWritten DEF Base
<1> SUFFICES ASSUME NEW i \in DOMAIN owner'.todo, owner'.todo[i].file = "rollback"
             PROVE  /\ dir'.baseline # None
                    /\ owner'.todo[i].value.end <= now'
                    /\ dir'.rollback # None => dir'.rollback.end <= owner'.todo[i].value.end
                    /\ \A j \in DOMAIN owner'.todo : owner'.todo[j].file = "rollback" => j = i
  BY DEF RollbackPending
<1>1. i \in Nat \ {0} /\ i + 1 \in DOMAIN owner.todo /\ owner'.todo[i] = owner.todo[i + 1]
  BY WriteFileLeaves
<1>2. /\ dir.baseline # None /\ owner.todo[i + 1].value.end <= now
      /\ dir.rollback # None => dir.rollback.end <= owner.todo[i + 1].value.end
      /\ \A j \in DOMAIN owner.todo : owner.todo[j].file = "rollback" => j = i + 1
  BY <1>1 DEF EndsInv, RollbackPending
<1>3. owner.todo[1].file # "rollback"
  <2> SUFFICES ASSUME owner.todo[1].file = "rollback" PROVE FALSE
    OBVIOUS
  <2>1. 1 = i + 1
    BY <1>0, <1>2
  <2> QED
    BY <1>1, <2>1
<1>4. dir'.rollback = dir.rollback
  BY <1>0, <1>3, FileWritten DEF Files
<1>5. ASSUME NEW j \in DOMAIN owner'.todo, owner'.todo[j].file = "rollback" PROVE j = i
  <2>1. j \in Nat \ {0} /\ j + 1 \in DOMAIN owner.todo /\ owner'.todo[j] = owner.todo[j + 1]
    BY WriteFileLeaves
  <2>2. j + 1 = i + 1
    BY <1>2, <1>5, <2>1
  <2> QED
    BY <1>1, <2>1, <2>2
<1> QED
  BY <1>1, <1>2, <1>4, <1>5, BaselineLeft, WriteFileLeaves

LEMMA ActivationLeft ==
  ASSUME Base, EndsInv, WriteFile, owner.todo[1].file # "activation"
  PROVE  ActivationPending'
<1>0. Shape /\ 1 \in DOMAIN owner.todo
  BY FileWritten DEF Base
<1> SUFFICES ASSUME NEW i \in DOMAIN owner'.todo, owner'.todo[i].file = "activation"
             PROVE  LET a == owner'.todo[i].value IN
                    /\ i = Len(owner'.todo)
                    /\ a.hash["incident"][2] = End(a)
                    /\ End(a) <= now'
                    /\ dir'.activation # None => End(dir'.activation) < End(a)
                    /\ \A j \in DOMAIN owner'.todo : owner'.todo[j].file = "rollback" =>
                          owner'.todo[j].value.end = End(a)
                    /\ \/ dir'.rollback # None /\ dir'.rollback.end = End(a)
                       \/ \E j \in DOMAIN owner'.todo : owner'.todo[j].file = "rollback"
  BY DEF ActivationPending, End
<1> DEFINE a == owner'.todo[i].value
<1>1. i \in Nat \ {0} /\ i + 1 \in DOMAIN owner.todo /\ owner'.todo[i] = owner.todo[i + 1]
  BY WriteFileLeaves
<1>2. /\ i + 1 = Len(owner.todo)
      /\ a.hash["incident"][2] = End(a)
      /\ End(a) <= now
      /\ dir.activation # None => End(dir.activation) < End(a)
      /\ \A j \in DOMAIN owner.todo : owner.todo[j].file = "rollback" =>
            owner.todo[j].value.end = End(a)
      /\ \/ dir.rollback # None /\ dir.rollback.end = End(a)
         \/ \E j \in DOMAIN owner.todo : owner.todo[j].file = "rollback"
  BY <1>1 DEF EndsInv, ActivationPending
<1> HIDE DEF a
<1>3. i = Len(owner'.todo)
  BY <1>1, <1>2, WriteFileLeaves
<1>4. dir'.activation = dir.activation
  BY <1>0, FileWritten DEF Files
<1>5. ASSUME NEW j \in DOMAIN owner'.todo, owner'.todo[j].file = "rollback"
      PROVE  owner'.todo[j].value.end = End(a)
  <2>1. j + 1 \in DOMAIN owner.todo /\ owner'.todo[j] = owner.todo[j + 1]
    BY WriteFileLeaves
  <2> QED
    BY <1>2, <1>5, <2>1
<1>6. \/ dir'.rollback # None /\ dir'.rollback.end = End(a)
      \/ \E j \in DOMAIN owner'.todo : owner'.todo[j].file = "rollback"
  <2>1. CASE owner.todo[1].file = "rollback"
    <3>1. dir'.rollback = owner.todo[1].value
      BY <1>0, <2>1, FileWritten DEF Files
    <3>2. ItemOK(owner.todo[1])
      BY <1>0, FileWritten DEF Writing
    <3>3. dir'.rollback # None
      BY <2>1, <3>1, <3>2, NoneIsAbsent DEF ItemOK, Kinds
    <3> QED
      BY <1>0, <1>2, <2>1, <3>1, <3>3
  <2>2. CASE owner.todo[1].file # "rollback"
    <3>1. dir'.rollback = dir.rollback
      BY <1>0, <2>2, FileWritten DEF Files
    <3>2. CASE dir.rollback # None /\ dir.rollback.end = End(a)
      BY <3>1, <3>2
    <3>3. CASE \E j \in DOMAIN owner.todo : owner.todo[j].file = "rollback"
      <4>1. PICK j \in DOMAIN owner.todo : owner.todo[j].file = "rollback"
        BY <3>3
      <4>2. j - 1 \in DOMAIN owner'.todo /\ owner'.todo[j - 1] = owner.todo[j]
        BY <2>2, <4>1, WriteFileLeaves
      <4> QED
        BY <4>1, <4>2
    <3> QED
      BY <1>2, <3>2, <3>3
  <2> QED
    BY <2>1, <2>2
<1> QED
  BY <1>2, <1>3, <1>4, <1>5, <1>6, WriteFileLeaves DEF a

LEMMA WriteRollbackEnds ==
  ASSUME Base, EndsInv, WriteFile, owner.todo[1].file = "rollback"
  PROVE  EndsInv' /\ \A e : Held(e) => Held(e)'
<1>0. Shape /\ DirectoryOK(dir) /\ 1 \in DOMAIN owner.todo /\ Writing
  BY FileWritten DEF Base, Shape, TypeOK
<1> DEFINE r == owner.todo[1].value
<1>1. /\ dir.baseline # None /\ r.end <= now
      /\ dir.rollback # None => dir.rollback.end <= r.end
  BY <1>0 DEF EndsInv, RollbackPending
<1>2. r \in Observations /\ r.end \in Nat /\ r # None
  <2>1. ItemOK(owner.todo[1])
    BY <1>0 DEF Writing
  <2> QED
    BY <2>1, NoneIsAbsent DEF ItemOK, Kinds, Observations
<1>3. /\ dir'.baseline = dir.baseline /\ dir'.rollback = r
      /\ dir'.activation = dir.activation
  BY <1>0, FileWritten DEF Files
<1>5. \A e : Held(e) => e.end <= r.end
  BY <1>0 DEF Held, Surpassed
<1> HIDE DEF r
<1>6. Cover(dir') = r.end
  BY <1>2, <1>3 DEF Cover
<1>7. ASSUME dir'.activation # None
      PROVE  /\ dir'.activation.hash["incident"][2] = End(dir'.activation)
             /\ End(dir'.activation) <= dir'.rollback.end
  <2>1. /\ dir.activation.hash["incident"][2] = End(dir.activation)
        /\ End(dir.activation) <= dir.rollback.end /\ dir.rollback # None
    BY <1>3, <1>7 DEF EndsInv, Ordered
  <2>2. End(dir.activation) \in Nat /\ dir.rollback.end \in Nat
    BY <1>0, <1>3, <1>7, <2>1, Times
  <2>3. End(dir.activation) <= r.end
    BY <1>1, <1>2, <2>1, <2>2
  <2> QED
    BY <1>3, <2>1, <2>3
<1>8. Ordered(dir', now')
  BY <1>1, <1>2, <1>3, <1>6, <1>7, WriteFileLeaves DEF Ordered
<1>9. EndsInv'
  BY <1>8, BaselineLeft, RollbackLeft, ActivationLeft, WriteFileLeaves DEF EndsInv, RolloverOrdered
<1>10. ASSUME NEW e, Held(e) PROVE Held(e)'
  <2>1. Fits(dir', e)
    BY <1>3, <1>5, <1>6, <1>10 DEF Held, Fits
  <2> QED
    BY <1>10, <2>1, BaselineLeft, WriteFileLeaves DEF Held
<1> QED
  BY <1>9, <1>10

LEMMA WriteActivationEnds ==
  ASSUME Base, EndsInv, WriteFile, owner.todo[1].file = "activation"
  PROVE  EndsInv' /\ \A e : e.end \in Nat /\ Held(e) => Held(e)'
<1>0. Shape /\ 1 \in DOMAIN owner.todo /\ Writing
  BY FileWritten DEF Base
<1> DEFINE a == owner.todo[1].value
<1>1. /\ 1 = Len(owner.todo)
      /\ a.hash["incident"][2] = End(a)
      /\ \A j \in DOMAIN owner.todo : owner.todo[j].file = "rollback" =>
            owner.todo[j].value.end = End(a)
      /\ \/ dir.rollback # None /\ dir.rollback.end = End(a)
         \/ \E j \in DOMAIN owner.todo : owner.todo[j].file = "rollback"
  BY <1>0 DEF EndsInv, ActivationPending
<1>2. dir.rollback # None /\ dir.rollback.end = End(a)
  <2>0. DOMAIN owner.todo = 1..Len(owner.todo)
    BY WriteFileLeaves
  <2>1. DOMAIN owner.todo = 1..1
    BY <1>1, <2>0, Zenon
  <2>2. \A j \in DOMAIN owner.todo : j = 1
    BY <2>1
  <2> QED
    BY <1>0, <1>1, <2>2
<1>3. End(a) \in Nat
  BY <1>0, PendingTimes
<1>4. DOMAIN owner'.todo = {}
  <2> SUFFICES ASSUME NEW i \in DOMAIN owner'.todo PROVE FALSE
    OBVIOUS
  <2>1. i \in Nat \ {0} /\ i + 1 \in DOMAIN owner.todo
    BY WriteFileLeaves
  <2>2. i + 1 \in 1..1
    BY <1>1, <2>1, WriteFileLeaves
  <2> QED
    BY <2>1, <2>2
<1>5. /\ dir'.baseline = dir.baseline /\ dir'.rollback = dir.rollback
      /\ dir'.activation = a
  BY <1>0, FileWritten DEF Files
<1>6. \A e : Held(e) => e.end < End(a)
  BY <1>0 DEF Held, Surpassed
<1> HIDE DEF a
<1>7. Cover(dir') = Cover(dir)
  BY <1>5 DEF Cover
<1>8. End(a) <= dir'.rollback.end
  BY <1>2, <1>3, <1>5
<1>9. Ordered(dir', now')
  BY <1>1, <1>2, <1>5, <1>7, <1>8, WriteFileLeaves DEF EndsInv, Ordered
<1>10. BaselinePending' /\ RollbackPending' /\ ActivationPending' /\ \A e : Surpassed(e)'
  BY <1>4, NonePending
<1>11. EndsInv'
  BY <1>9, <1>10, WriteFileLeaves DEF EndsInv, RolloverOrdered
<1>12. ASSUME NEW e, e.end \in Nat, Held(e) PROVE Held(e)'
  <2>1. End(dir'.activation) # e.end
    BY <1>3, <1>5, <1>6, <1>12
  <2>2. Fits(dir', e)
    BY <1>5, <1>7, <1>12, <2>1 DEF Held, Fits
  <2> QED
    BY <1>10, <1>12, <2>2, WriteFileLeaves DEF Held
<1> QED
  BY <1>11, <1>12

LEMMA WriteFileEnds ==
  ASSUME Base, EndsInv, WriteFile
  PROVE  EndsInv' /\ \A e : e.end \in Nat /\ Held(e) => Held(e)'
<1>1. CASE owner.todo[1].file = "baseline"
  BY <1>1, WriteBaselineEnds
<1>2. CASE owner.todo[1].file = "rollback"
  BY <1>2, WriteRollbackEnds
<1>3. CASE owner.todo[1].file = "activation"
  BY <1>3, WriteActivationEnds
<1>4. CASE owner.todo[1].file \notin {"baseline", "rollback", "activation"}
  <2>1. Shape
    BY DEF Base
  <2>2. /\ dir'.baseline = dir.baseline /\ dir'.rollback = dir.rollback
        /\ dir'.activation = dir.activation
    BY <1>4, <2>1, FileWritten DEF Files
  <2>3. Ordered(dir', now') /\ \A e : Fits(dir, e) => Fits(dir', e)
    BY <2>2, SameFiles, WriteFileLeaves DEF EndsInv
  <2>4. EndsInv'
    BY <1>4, <2>3, BaselineLeft, RollbackLeft, ActivationLeft, WriteFileLeaves
       DEF EndsInv, RolloverOrdered
  <2>5. ASSUME NEW e, Held(e) PROVE Held(e)'
    BY <1>4, <2>3, <2>5, BaselineLeft, WriteFileLeaves DEF Held
  <2> QED
    BY <2>4, <2>5
<1> QED
  BY <1>1, <1>2, <1>3, <1>4

(* A rollover sets the time that covers the new epoch after all that was   *)
(* observed in the old one, and puts the old directory back as it was.     *)
LEMMA RollingEnds ==
  ASSUME Base, EndsInv,
         Rollover \/ WriteStage \/ ArchiveActive \/ ActivateStage \/ VerifyActive
         \/ Unstage \/ Restore \/ Crash
  PROVE  EndsInv' /\ \A e : Held(e) => Held(e)'
<1>0. Shape /\ TypeOK /\ DirectoryOK(dir) /\ now \in Nat /\ spent.epochs \in Nat
  BY DEF Base, Shape, TypeOK
<1>1. UNCHANGED now
  BY DEF Rollover, WriteStage, ArchiveActive, ActivateStage, VerifyActive, Unstage, Restore, Crash
<1>2. CASE Rollover
  <2> DEFINE b == BaselinePayload(dir.baseline.gen + 1, dir.baseline.id)
  <2>1. dir.baseline \in Baselines /\ dir.baseline # None
    BY <1>0, <1>2 DEF Rollover, DirectoryOK
  <2>2. b \in Baselines /\ b.at = now
    <3>1. dir.baseline.gen + 1 \in Nat \ {0} /\ dir.baseline.id \in Nat
      BY <2>1 DEF Baselines
    <3> QED
      BY <1>0, <3>1, PayloadIsBaseline
  <2> HIDE DEF b
  <2>3. owner'.todo = ToStage /\ owner'.new = NewDirectory(b) /\ UNCHANGED dir
    BY <1>2 DEF Rollover, ToStage, b
  <2>4. owner'.new.baseline.at = now
    BY <2>2, <2>3, NewDirectoryFiles
  <2>5. Rolling' /\ Before' /\ ~Staged' /\ ~Active'
    BY <2>3, NextSteps DEF Rolling, Before, Staged, Active
  <2>6. Cover(dir') <= owner'.new.baseline.at /\ owner'.new.baseline.at <= now'
    BY <1>0, <1>1, <2>1, <2>3, <2>4 DEF EndsInv, Ordered
  <2>7. EndsInv'
    BY <1>1, <2>3, <2>5, <2>6, RollingPending DEF EndsInv, RolloverOrdered
  <2>8. ASSUME NEW e, Held(e) PROVE Held(e)'
    BY <1>1, <2>3, <2>4, <2>5, <2>8, RollingPending DEF Held
  <2> QED
    BY <2>7, <2>8
<1>3. CASE WriteStage
  <2>1. owner.todo = ToStage
    BY <1>0, <1>3, StepIsAt DEF WriteStage, Shape
  <2>2. owner'.todo = ToArchive /\ owner'.new = owner.new /\ UNCHANGED dir
    BY <1>0, <1>3, <2>1, RolloverSteps DEF WriteStage, Shape, TodoOK
  <2>3. Before /\ Rolling /\ Rolling' /\ Before' /\ ~Staged' /\ ~Active'
    BY <2>1, <2>2, NextSteps DEF Rolling, Before, Staged, Active
  <2>4. EndsInv'
    BY <1>1, <2>2, <2>3, RollingPending DEF EndsInv, RolloverOrdered
  <2>5. ASSUME NEW e, Held(e) PROVE Held(e)'
    BY <1>1, <2>2, <2>3, <2>5, RollingPending DEF Held
  <2> QED
    BY <2>4, <2>5
<1>4. CASE ArchiveActive
  <2>1. /\ Rolling /\ Rolling' /\ Staged' /\ ~Before' /\ ~Active'
        /\ Old' = dir /\ dir' = EmptyDirectory /\ owner'.new = owner.new
    BY <1>0, <1>4, Archiving DEF Rolling
  <2>2. EndsInv'
    BY <1>1, <2>1, RollingPending, EmptyOrdered DEF EndsInv, RolloverOrdered
  <2>3. ASSUME NEW e, Held(e) PROVE Held(e)'
    BY <1>1, <2>1, <2>3, RollingPending, EmptyOrdered DEF Held
  <2> QED
    BY <2>2, <2>3
<1>5. CASE ActivateStage
  <2>1. /\ Rolling /\ Rolling' /\ ~Before' /\ Staged
        /\ Old' = Old /\ owner'.new = owner.new
        /\ dir' = dir \/ dir' = owner.new
        /\ owner.new.baseline \in Baselines /\ owner.new = NewDirectory(owner.new.baseline)
    BY <1>0, <1>5, Activating DEF Rolling, Old, RolloverOK
  <2>2. Ordered(owner.new, now) /\ \A e : e.end <= owner.new.baseline.at => Fits(owner.new, e)
    BY <2>1, NewOrdered DEF EndsInv, RolloverOrdered
  <2>3. EndsInv'
    BY <1>1, <2>1, <2>2, RollingPending DEF EndsInv, RolloverOrdered
  <2>4. ASSUME NEW e, Held(e) PROVE Held(e)'
    BY <1>1, <2>1, <2>2, <2>4, RollingPending DEF Held
  <2> QED
    BY <2>3, <2>4
<1>6. CASE VerifyActive
  <2>1. Active /\ Rolling /\ UNCHANGED <<dir, archives>>
    BY <1>0, <1>6, Verifying DEF Rolling, VerifyActive
  <2>2. CASE owner' = Nothing
    BY <1>1, <2>1, <2>2, NothingPending DEF EndsInv, RolloverOrdered, Held
  <2>3. CASE Active' /\ ~Before' /\ ~Staged' /\ owner'.new = owner.new
    <3>1. Rolling' /\ Old' = Old
      BY <2>1, <2>3 DEF Rolling, Old
    <3> QED
      BY <1>1, <2>1, <2>3, <3>1, RollingPending DEF EndsInv, RolloverOrdered, Held
  <2> QED
    BY <1>0, <1>6, <2>2, <2>3, Verifying
<1>7. CASE Unstage
  <2>1. /\ Rolling /\ Active /\ Rolling' /\ Staged' /\ ~Before' /\ ~Active'
        /\ Old' = Old /\ dir' = EmptyDirectory /\ owner'.new = owner.new
    BY <1>0, <1>7, Unstaging DEF Rolling, Old, Unstage
  <2>2. EndsInv'
    BY <1>1, <2>1, RollingPending, EmptyOrdered DEF EndsInv, RolloverOrdered
  <2>3. ASSUME NEW e, Held(e) PROVE Held(e)'
    BY <1>1, <2>1, <2>3, RollingPending, EmptyOrdered DEF Held
  <2> QED
    BY <2>2, <2>3
<1>8. CASE Restore
  <2>1. Staged /\ dir' = Old /\ owner' = Nothing
    BY <1>0, <1>8, Restoring
  <2>2. EndsInv'
    BY <1>1, <2>1, NothingPending DEF EndsInv, RolloverOrdered
  <2>3. ASSUME NEW e, Held(e) PROVE Held(e)'
    BY <1>1, <2>1, <2>3, NothingPending DEF Held
  <2> QED
    BY <2>2, <2>3
<1>9. CASE Crash
  <2>1. UNCHANGED dir /\ owner' = Nothing
    BY <1>9 DEF Crash
  <2>2. EndsInv'
    BY <1>1, <2>1, NothingPending DEF EndsInv, RolloverOrdered
  <2>3. ASSUME NEW e, Held(e) PROVE Held(e)'
    BY <1>1, <2>1, <2>3, NothingPending DEF Held
  <2> QED
    BY <2>2, <2>3
<1> QED
  BY <1>2, <1>3, <1>4, <1>5, <1>6, <1>7, <1>8, <1>9

LEMMA RollingIsOK == ASSUME Shape, Rolling PROVE RolloverOK
<1>1. ~Writing
  <2>1. 1 \in DOMAIN owner.todo
    BY DEF Rolling, Before, Staged, Active, ToStage, ToArchive, ToActivate, ToVerify,
           ToUnstage, ToRestore
  <2> QED
    BY <2>1, RollingWritesNoFile DEF Writing, ItemOK
<1> QED
  BY <1>1 DEF Shape, TodoOK

(* Events and the passing of time disturb none of this.                    *)
LEMMA EndsLater ==
  ASSUME Base, EndsInv, UNCHANGED <<archives, owner>>,
         dir'.baseline = dir.baseline, dir'.rollback = dir.rollback,
         dir'.activation = dir.activation,
         now' \in Nat, now <= now'
  PROVE  EndsInv' /\ \A e : e.end \in Nat /\ Held(e) => Held(e)'
<1>0. Shape /\ DirectoryOK(dir) /\ now \in Nat /\ \A id \in DOMAIN archives : DirectoryOK(archives[id])
  BY DEF Base, Shape, TypeOK
<1>1. Ordered(dir', now')
  <2>1. Ordered(dir, now')
    BY <1>0, OrderedLater DEF EndsInv
  <2> QED
    BY <2>1, SameFiles
<1>2. Cover(dir') = Cover(dir) /\ \A e : Fits(dir, e) => Fits(dir', e)
  BY SameFiles
<1>3. UNCHANGED <<Before, Staged, Active, Rolling, Old>>
  BY DEF Before, Staged, Active, Rolling, Old
<1>4. RolloverOrdered'
  <2>1. ASSUME Staged \/ Active PROVE Ordered(Old, now')
    <3>1. DirectoryOK(Old)
      BY <1>0, <2>1, RollingIsOK DEF Rolling, RolloverOK, Old
    <3> QED
      BY <1>0, <2>1, <3>1, OrderedLater DEF EndsInv, RolloverOrdered
  <2>2. ASSUME Rolling PROVE owner.new.baseline.at <= now'
    <3>1. owner.new.baseline.at \in Nat
      BY <1>0, <2>2, RollingIsOK DEF RolloverOK, Baselines
    <3>2. owner.new.baseline.at <= now
      BY <2>2 DEF EndsInv, RolloverOrdered
    <3> QED
      BY <1>0, <3>1, <3>2
  <2> QED
    BY <1>2, <1>3, <2>1, <2>2 DEF EndsInv, RolloverOrdered
<1>5. ASSUME NEW i \in DOMAIN owner.todo
      PROVE  /\ owner.todo[i].file = "baseline" => owner.todo[i].value.at \in Nat
             /\ owner.todo[i].file = "rollback" => owner.todo[i].value.end \in Nat
             /\ owner.todo[i].file = "activation" => End(owner.todo[i].value) \in Nat
  <2>1. CASE Writing
    BY <2>1, PendingTimes
  <2>2. CASE Rolling
    BY <2>2, RollingWritesNoFile DEF Files
  <2> QED
    BY <1>0, <2>1, <2>2 DEF Shape, TodoOK
<1>6. BaselinePending'
  <2>1. \A i \in DOMAIN owner.todo : owner.todo[i].file = "baseline" =>
           owner.todo[i].value.at <= now'
    BY <1>0, <1>5 DEF EndsInv, BaselinePending
  <2> QED
    BY <2>1 DEF EndsInv, BaselinePending
<1>7. RollbackPending'
  <2>1. \A i \in DOMAIN owner.todo : owner.todo[i].file = "rollback" =>
           owner.todo[i].value.end <= now'
    BY <1>0, <1>5 DEF EndsInv, RollbackPending
  <2> QED
    BY <2>1 DEF EndsInv, RollbackPending
<1>8. ActivationPending'
  <2>1. \A i \in DOMAIN owner.todo : owner.todo[i].file = "activation" =>
           End(owner.todo[i].value) <= now'
    BY <1>0, <1>5 DEF EndsInv, ActivationPending
  <2> QED
    BY <2>1 DEF EndsInv, ActivationPending, End
<1>9. EndsInv'
  BY <1>1, <1>4, <1>6, <1>7, <1>8 DEF EndsInv
<1>10. ASSUME NEW e, e.end \in Nat, Held(e) PROVE Held(e)'
  <2>1. e.end <= now'
    <3>1. e.end <= now
      BY <1>10 DEF Held
    <3> QED
      BY <1>0, <1>10, <3>1
  <2>2. Surpassed(e)'
    BY <1>10 DEF Held, Surpassed
  <2> QED
    BY <1>2, <1>3, <1>10, <2>1, <2>2 DEF Held
<1> QED
  BY <1>9, <1>10

LEMMA EndsStep == Base /\ EndsInv /\ [Next]_vars => EndsInv' /\ \A e : e.end \in Nat /\ Held(e) => Held(e)'
<1> SUFFICES ASSUME Base, EndsInv, [Next]_vars
             PROVE  EndsInv' /\ \A e : e.end \in Nat /\ Held(e) => Held(e)'
  OBVIOUS
<1>0. Shape /\ now \in Nat
  BY DEF Base, Shape, TypeOK
<1>1. CASE OwnerStep
  BY <1>1, CreateBaselineEnds, RenewEvidenceEnds, WriteFileEnds, RollingEnds DEF OwnerStep
<1>2. CASE ReaderStep
  <2>1. UNCHANGED <<archives, owner, dir, now>>
    BY <1>2, ReaderStepFrame DEF EnvUnchanged, ownerVars
  <2> QED
    BY <1>0, <2>1, EndsLater
<1>3. CASE WorldStep
  <2>1. /\ UNCHANGED <<archives, owner>> /\ now' \in Nat /\ now <= now'
        /\ dir'.baseline = dir.baseline /\ dir'.rollback = dir.rollback
        /\ dir'.activation = dir.activation
    <3>1. CASE \E k \in Kinds : RecordEvent(k)
      BY <1>0, <3>1, Recording DEF RecordEvent, Files
    <3>2. CASE Tick \/ RefreshRegistry \/ ChangeAuthority \/ Commit
      BY <1>0, <3>2 DEF Tick, RefreshRegistry, ChangeAuthority, Commit, ownerVars
    <3> QED
      BY <1>3, <3>1, <3>2 DEF WorldStep
  <2> QED
    BY <2>1, EndsLater
<1>4. CASE UNCHANGED vars
  BY <1>0, <1>4, EndsLater DEF vars
<1> QED
  BY <1>1, <1>2, <1>3, <1>4 DEF Next

(* From which place on a delivery holds both observations, and from which  *)
(* place on it has compared their times.                                   *)
Decided == reader.pc \in {"decide", "policy", "compliance", "approved"}
Observed == reader.pc = "assess" \/ Decided

Renewed(e, f) == e.op = f.op /\ e.gen = f.gen /\ e.baseline = f.baseline

(* The observation of rollbacks stays activated, or is surpassed, while    *)
(* the one of incidents is read.                                           *)
ReaderEnds ==
    /\ reader.kind = "incident" => reader.rollback # None /\ Held(reader.rollback)
    /\ reader.pc = "evidence files" => reader[reader.kind] # None
    /\ Observed =>
          /\ reader.kind = "incident"
          /\ reader.incident # None
          /\ reader.incident.baseline = reader.baseline.id
          /\ reader.rollback.end = reader.incident.end => Renewed(reader.rollback, reader.incident)
    /\ Decided => reader.rollback.end = reader.incident.end

LEMMA InitReaderEnds == Init => ReaderEnds
  BY AwaitingFields DEF Init, ReaderEnds, Observed, Decided

(* Evidence that loads is held.                                            *)
LEMMA LoadedIsHeld ==
  ASSUME Base, EndsInv, NEW e \in Observations, EvidenceLoads(dir, "rollback", e)
  PROVE  Held(e)
<1>0. Shape /\ DirectoryOK(dir) /\ now \in Nat /\ e.end \in Nat
  BY DEF Base, Shape, TypeOK, Observations
<1>1. dir.activation # None /\ Renewed(dir.activation, e) /\ End(dir.activation) = e.end
  BY DEF EvidenceLoads, Activated, Hash, End, Renewed
<1>2. dir.rollback # None /\ dir.baseline # None /\ e.end <= Cover(dir) /\ Cover(dir) <= now
  BY <1>1 DEF EndsInv, Ordered, Cover
<1>3. Cover(dir) \in Nat /\ Cover(dir) = dir.rollback.end
  BY <1>0, <1>2, Times DEF Cover
<1>4. Fits(dir, e) /\ e.end <= now
  BY <1>0, <1>1, <1>2, <1>3 DEF Fits, Renewed
<1>5. CASE Writing /\ ~Rolling
  <2>1. Surpassed(e)
    <3> SUFFICES ASSUME NEW i \in DOMAIN owner.todo
                 PROVE  /\ owner.todo[i].file = "baseline" => e.end <= owner.todo[i].value.at
                        /\ owner.todo[i].file = "rollback" => e.end <= owner.todo[i].value.end
                        /\ owner.todo[i].file = "activation" => e.end < End(owner.todo[i].value)
      BY DEF Surpassed
    <3>1. owner.todo[i].file # "baseline"
      BY <1>2 DEF EndsInv, BaselinePending
    <3>2. ASSUME owner.todo[i].file = "rollback" PROVE e.end <= owner.todo[i].value.end
      <4>1. dir.rollback.end <= owner.todo[i].value.end
        BY <1>2, <3>2 DEF EndsInv, RollbackPending
      <4>2. owner.todo[i].value.end \in Nat
        BY <1>5, <3>2, PendingTimes
      <4> QED
        BY <1>0, <1>2, <1>3, <4>1, <4>2
    <3>3. ASSUME owner.todo[i].file = "activation" PROVE e.end < End(owner.todo[i].value)
      BY <1>1, <3>3 DEF EndsInv, ActivationPending
    <3> QED
      BY <3>1, <3>2, <3>3
  <2> QED
    BY <1>4, <1>5, <2>1 DEF Held, Rolling
<1>6. CASE Rolling
  <2>1. RolloverOK
    BY <1>0, <1>6, RollingIsOK
  <2>2. ~Staged /\ ~Active /\ Before
    BY <1>1, <1>6, <2>1, EmptyDirectoryFiles DEF RolloverOK, Rolling
  <2>3. e.end <= owner.new.baseline.at
    <3>1. Cover(dir) <= owner.new.baseline.at
      BY <2>2 DEF EndsInv, RolloverOrdered
    <3>2. owner.new.baseline.at \in Nat
      BY <2>1 DEF RolloverOK, Baselines
    <3> QED
      BY <1>0, <1>2, <1>3, <3>1, <3>2
  <2>4. Surpassed(e)
    BY <1>6, RollingWritesNoFile DEF Surpassed, Files
  <2> QED
    BY <1>4, <2>2, <2>3, <2>4 DEF Held
<1> QED
  BY <1>0, <1>5, <1>6 DEF Shape, TodoOK

(* Incidents that load with an observation held, for the same time, were   *)
(* observed by the same renewal.                                           *)
LEMMA LoadedWithHeld ==
  ASSUME EndsInv, NEW e, Held(e), NEW f, EvidenceLoads(dir, "incident", f), e.end = f.end
  PROVE  Renewed(e, f)
<1>1. /\ dir.activation # None /\ Renewed(dir.activation, f)
      /\ dir.activation.hash["incident"][2] = f.end
  BY DEF EvidenceLoads, Activated, Hash, Renewed
<1>2. End(dir.activation) = f.end
  BY <1>1 DEF EndsInv, Ordered
<1>3. Renewed(dir.activation, e)
  BY <1>1, <1>2 DEF Held, Fits, Renewed
<1> QED
  BY <1>1, <1>3 DEF Renewed

(* Other steps leave the delivery with what it holds.                      *)
LEMMA OtherStepEnds ==
  ASSUME Base, EndsInv, ReaderEnds, [Next]_vars, UNCHANGED reader
  PROVE  ReaderEnds'
<1>1. reader.kind = "incident" => Held(reader.rollback)'
  <2> SUFFICES ASSUME reader.kind = "incident" PROVE Held(reader.rollback)'
    OBVIOUS
  <2> DEFINE e == reader.rollback
  <2>1. Held(e) /\ e # None
    BY DEF ReaderEnds
  <2>2. e.end \in Nat
    BY <2>1 DEF Base, Shape, TypeOK, ReaderOK, Observations, Kinds
  <2>3. ASSUME NEW f, f.end \in Nat, Held(f) PROVE Held(f)'
    BY <2>3, EndsStep
  <2> QED
    BY <2>1, <2>2, <2>3 DEF Held, Surpassed, Fits
<1> QED
  BY <1>1 DEF ReaderEnds, Observed, Decided, Renewed

LEMMA ReaderStepEnds == ASSUME Base, EndsInv, ReaderEnds, ReaderStep PROVE ReaderEnds'
<1>0. Shape /\ TypeOK /\ ReaderOK
  BY DEF Base, Shape, TypeOK
<1>1. UNCHANGED <<dir, archives, owner, now>>
  BY ReaderStepFrame DEF EnvUnchanged, ownerVars
<1>2. reader'.rollback = reader.rollback /\ Held(reader.rollback) => Held(reader.rollback)'
  BY <1>1 DEF Held, Surpassed, Fits, Staged, Active, Rolling, Before, Old
<1>3. CASE Refuse
  BY <1>3, RefuseEffect DEF ReaderEnds, Observed, Decided
<1>4. CASE StartAssessment
  BY <1>0, <1>4, StartEffect DEF ReaderEnds, Observed, Decided
<1>5. CASE ReadBaseline /\ dir.baseline # None
  BY <1>0, <1>2, <1>5, ReadBaselineEffect DEF ReaderEnds, Observed, Decided
<1>6. CASE CheckBaseline /\ BaselineLoads(dir, reader.baseline) /\ Proceed("evidence")
  BY <1>0, <1>2, <1>6, ProceedEffect DEF ReaderEnds, Observed, Decided, Places
<1>7. CASE ReadEvidence /\ dir[reader.kind] # None
  <2>1. /\ reader'.pc = "evidence files" /\ reader'.kind = reader.kind
        /\ reader'[reader.kind] = dir[reader.kind]
        /\ reader.kind = "incident" => reader'.rollback = reader.rollback
    BY <1>0, <1>7, ReadEvidenceEffect DEF ReaderOK, Kinds
  <2> QED
    BY <1>2, <1>7, <2>1 DEF ReaderEnds, Observed, Decided
<1>8. CASE CheckEvidence /\ ~Refuse
  <2>1. reader.pc = "evidence files" /\ reader[reader.kind] # None
    BY <1>8 DEF CheckEvidence, Reads, ReaderEnds
  <2>2. /\ EvidenceLoads(dir, reader.kind, reader[reader.kind])
        /\ reader[reader.kind].baseline = reader.baseline.id
        /\ reader'.baseline = reader.baseline
        /\ reader'.rollback = reader.rollback /\ reader'.incident = reader.incident
    BY <1>0, <1>8, CheckEvidenceEffect DEF Prospective
  <2>3. CASE reader.kind = "rollback" /\ reader'.pc = "baseline" /\ reader'.kind = "incident"
    <3>1. reader.rollback \in Observations /\ reader.rollback # None
      BY <1>0, <2>1, <2>3 DEF ReaderOK, Kinds
    <3>2. Held(reader.rollback)
      BY <2>2, <2>3, <3>1, LoadedIsHeld
    <3> QED
      BY <1>2, <2>2, <2>3, <3>1, <3>2 DEF ReaderEnds, Observed, Decided
  <2>4. CASE reader.kind = "incident" /\ reader'.pc = "assess" /\ reader'.kind = "incident"
    <3>1. Held(reader.rollback) /\ reader.rollback # None
      BY <2>4 DEF ReaderEnds
    <3>2. EvidenceLoads(dir, "incident", reader.incident)
      BY <2>2, <2>4
    <3>3. reader.rollback.end = reader.incident.end => Renewed(reader.rollback, reader.incident)
      BY <3>1, <3>2, LoadedWithHeld
    <3> QED
      BY <1>2, <2>1, <2>2, <2>4, <3>1, <3>3 DEF ReaderEnds, Observed, Decided, Renewed
  <2> QED
    BY <1>0, <1>8, <2>3, <2>4, CheckEvidenceEffect
<1>9. CASE (Assess \/ Decide \/ Evaluate \/ Comply \/ Deliver) /\ ~Refuse
  <2>1. /\ reader'.kind = reader.kind /\ reader'.baseline = reader.baseline
        /\ reader'.rollback = reader.rollback /\ reader'.incident = reader.incident
        /\ reader'.pc \in {"decide", "policy", "compliance", "approved"}
        /\ Observed
        /\ Decided \/ OneSnapshot
    BY <1>0, <1>9, DecisionEffect DEF Observed, Decided
  <2>2. reader.rollback.end = reader.incident.end
    BY <2>1 DEF ReaderEnds, OneSnapshot
  <2> QED
    BY <1>2, <2>1, <2>2 DEF ReaderEnds, Observed, Decided, Renewed
<1> QED
  BY <1>0, <1>3, <1>4, <1>5, <1>6, <1>7, <1>8, <1>9, ReaderSteps

LEMMA ReaderEndsStep == Base /\ EndsInv /\ ReaderEnds /\ [Next]_vars => ReaderEnds'
<1> SUFFICES ASSUME Base, EndsInv, ReaderEnds, [Next]_vars PROVE ReaderEnds'
  OBVIOUS
<1>1. CASE ReaderStep
  BY <1>1, ReaderStepEnds
<1>2. CASE ~ReaderStep
  <2>1. UNCHANGED reader
    BY <1>2 DEF Next, vars, OwnerStep, CreateBaseline, RenewEvidence, WriteFile, Rollover,
                WriteStage, ArchiveActive, ActivateStage, VerifyActive, Unstage, Restore, Crash,
                WorldStep, Tick, RecordEvent, ChangeAuthority, Commit, RefreshRegistry
  <2> QED
    BY <2>1, OtherStepEnds
<1> QED
  BY <1>1, <1>2

(* The two observations a delivery decides on are of one renewal and of    *)
(* the baseline it read: once the first is read, whatever renews, rolls    *)
(* over or is killed before the second is read, an activation for the same *)
(* time is the same activation.                                            *)
THEOREM ObservationIsOne == Spec => []OneObservation
<1>1. ReaderEnds => OneObservation
  <2> SUFFICES ASSUME ReaderEnds, reader.pc = "approved" PROVE OneObservation
    BY DEF OneObservation, Reads
  <2>1. Observed /\ Decided
    BY DEF Observed, Decided
  <2>2. /\ reader.rollback.end = reader.incident.end
        /\ Renewed(reader.rollback, reader.incident)
        /\ reader.incident.baseline = reader.baseline.id
    BY <2>1 DEF ReaderEnds
  <2> QED
    BY <2>2 DEF OneObservation, Renewed, Kinds
<1>2. Init => EndsInv /\ ReaderEnds
  BY InitEnds, InitReaderEnds
<1> QED
  BY <1>1, <1>2, EndsStep, ReaderEndsStep, EvidenceInvariance, PTL DEF Spec

-----------------------------------------------------------------------------
(* No event unseen.                                                        *)

(* What was seen of an epoch's ledgers is still in them.                   *)
Counts(ledgers, seen) ==
    \A k \in Kinds :
        ledgers[k] # None /\ seen[k] # None /\ ledgers[k].baseline = seen[k].baseline
            => seen[k].records <= ledgers[k].records

(* The ledgers are of one of the first n epochs.                           *)
UpTo(ledgers, n) == \A k \in Kinds : ledgers[k] # None => ledgers[k].baseline <= n
Older(ledgers) == \A k \in Kinds : ledgers[k] # None => ledgers[k].baseline < spent.epochs

(* The ledgers of a new epoch are the only ones of it: those of the active *)
(* directory, of the one that may be put back and the ones seen are older. *)
LedgersPending ==
    \A i \in DOMAIN owner.todo : owner.todo[i].file = "ledgers" =>
        /\ \A k \in Kinds : owner.todo[i].value[k].baseline = spent.epochs
        /\ \A j \in DOMAIN owner.todo : owner.todo[j].file = "ledgers" => j = i
        /\ Older(dir.ledgers) /\ Older(reader.seen)

RolloverLedgers ==
    /\ Before \/ owner.todo = ToActivate => Older(dir.ledgers) /\ Older(reader.seen)
    /\ Staged \/ Active => Older(Old.ledgers) /\ Counts(Old.ledgers, reader.seen)

LedgerInv ==
    /\ Counts(dir.ledgers, reader.seen)
    /\ UpTo(dir.ledgers, spent.epochs)
    /\ UpTo(reader.seen, spent.epochs)
    /\ LedgersPending
    /\ RolloverLedgers

LEMMA InitLedgers == Init => LedgerInv
<1> SUFFICES ASSUME Init PROVE LedgerInv
  OBVIOUS
<1>1. /\ dir.ledgers = [k \in Kinds |-> None] /\ reader.seen = [k \in Kinds |-> None]
      /\ DOMAIN owner.todo = {} /\ owner.todo = <<>>
  BY EmptyDirectoryFiles, AwaitingFields DEF Init, Nothing
<1>2. ~Before /\ ~Staged /\ ~Active /\ owner.todo # ToActivate
  BY <1>1, IdleIsWriting DEF Before, Staged, Active
<1> QED
  BY <1>1, <1>2 DEF LedgerInv, Counts, UpTo, LedgersPending, RolloverLedgers

LEMMA LedgerTypes ==
  ASSUME NEW d, DirectoryOK(d), NEW k \in Kinds, d.ledgers[k] # None
  PROVE  d.ledgers[k] \in Ledgers /\ d.ledgers[k].baseline \in Nat /\ d.ledgers[k].records \in Nat
<1>1. d.ledgers \in [Kinds -> Ledgers \cup {None}]
  BY DEF DirectoryOK
<1>2. d.ledgers[k] \in Ledgers
  BY <1>1
<1> QED
  BY <1>2 DEF Ledgers

LEMMA SeenTypes ==
  ASSUME TypeOK, NEW k \in Kinds, reader.seen[k] # None
  PROVE  reader.seen[k].baseline \in Nat /\ reader.seen[k].records \in Nat
  BY DEF TypeOK, ReaderOK, Ledgers

(* Ledgers of which nothing older was seen count all that was seen.        *)
LEMMA NewCounts ==
  ASSUME TypeOK, NEW ledgers, \A k \in Kinds : ledgers[k].baseline = spent.epochs,
         Older(reader.seen)
  PROVE  Counts(ledgers, reader.seen) /\ UpTo(ledgers, spent.epochs)
<1>1. spent.epochs \in Nat
  BY DEF TypeOK
<1>2. \A k \in Kinds : reader.seen[k] # None => reader.seen[k].baseline # spent.epochs
  BY <1>1, SeenTypes DEF Older
<1> QED
  BY <1>1, <1>2 DEF Counts, UpTo

(* All that is known of the epochs so far is older than the next.          *)
LEMMA NextIsNewer ==
  ASSUME TypeOK, LedgerInv, spent'.epochs = spent.epochs + 1, UNCHANGED <<dir, reader>>
  PROVE  /\ Older(dir.ledgers)' /\ Older(reader.seen)'
         /\ UpTo(dir.ledgers, spent.epochs)' /\ UpTo(reader.seen, spent.epochs)'
<1>1. spent.epochs \in Nat /\ DirectoryOK(dir)
  BY DEF TypeOK
<1>2. \A k \in Kinds : dir.ledgers[k] # None =>
         dir.ledgers[k].baseline < spent'.epochs /\ dir.ledgers[k].baseline <= spent'.epochs
  BY <1>1, LedgerTypes DEF LedgerInv, UpTo
<1>3. \A k \in Kinds : reader.seen[k] # None =>
         reader.seen[k].baseline < spent'.epochs /\ reader.seen[k].baseline <= spent'.epochs
  BY <1>1, SeenTypes DEF LedgerInv, UpTo
<1> QED
  BY <1>2, <1>3 DEF Older, UpTo

LEMMA EmptyLedger ==
  /\ \A seen : Counts(EmptyDirectory.ledgers, seen)
  /\ \A n : UpTo(EmptyDirectory.ledgers, n)
  /\ Older(EmptyDirectory.ledgers)
<1>1. \A k \in Kinds : EmptyDirectory.ledgers[k] = None
  BY EmptyDirectoryFiles
<1> QED
  BY <1>1 DEF Counts, UpTo, Older

LEMMA NoLedgersPending ==
  ASSUME \A i \in DOMAIN owner'.todo : owner'.todo[i].file # "ledgers"
  PROVE  LedgersPending'
  BY DEF LedgersPending

LEMMA WriteFileLedgers == ASSUME Base, LedgerInv, WriteFile PROVE LedgerInv'
<1>0. Shape /\ TypeOK /\ 1 \in DOMAIN owner.todo
  BY FileWritten DEF Base, Shape
<1>1. UNCHANGED <<reader, spent, archives>>
  BY DEF WriteFile
<1>2. RolloverLedgers'
  <2>1. owner'.todo # ToActivate
    BY WriteFileLeaves, NextSteps DEF Staged
  <2> QED
    BY <2>1, WriteFileLeaves DEF RolloverLedgers
<1>3. CASE owner.todo[1].file = "ledgers"
  <2>1. dir'.ledgers = owner.todo[1].value
    BY <1>0, <1>3, FileWritten DEF Files
  <2>2. /\ \A k \in Kinds : dir'.ledgers[k].baseline = spent.epochs
        /\ \A j \in DOMAIN owner.todo : owner.todo[j].file = "ledgers" => j = 1
        /\ Older(reader.seen)
    BY <1>0, <1>3, <2>1 DEF LedgerInv, LedgersPending
  <2>3. Counts(dir'.ledgers, reader.seen) /\ UpTo(dir'.ledgers, spent.epochs)
    BY <1>0, <2>2, NewCounts
  <2>4. \A i \in DOMAIN owner'.todo : owner'.todo[i].file # "ledgers"
    <3> SUFFICES ASSUME NEW i \in DOMAIN owner'.todo, owner'.todo[i].file = "ledgers" PROVE FALSE
      OBVIOUS
    <3>1. i \in Nat \ {0} /\ i + 1 \in DOMAIN owner.todo /\ owner'.todo[i] = owner.todo[i + 1]
      BY WriteFileLeaves
    <3>2. i + 1 = 1
      BY <2>2, <3>1
    <3> QED
      BY <3>1, <3>2
  <2>5. LedgersPending'
    BY <2>4, NoLedgersPending
  <2> QED
    BY <1>1, <1>2, <2>3, <2>5 DEF LedgerInv
<1>4. CASE owner.todo[1].file # "ledgers"
  <2>1. dir'.ledgers = dir.ledgers
    BY <1>0, <1>4, FileWritten DEF Files
  <2>2. LedgersPending'
    <3> SUFFICES ASSUME NEW i \in DOMAIN owner'.todo, owner'.todo[i].file = "ledgers"
                 PROVE  /\ \A k \in Kinds : owner'.todo[i].value[k].baseline = spent'.epochs
                        /\ \A j \in DOMAIN owner'.todo : owner'.todo[j].file = "ledgers" => j = i
                        /\ Older(dir.ledgers)' /\ Older(reader.seen)'
      BY DEF LedgersPending
    <3>1. i \in Nat \ {0} /\ i + 1 \in DOMAIN owner.todo /\ owner'.todo[i] = owner.todo[i + 1]
      BY WriteFileLeaves
    <3>2. /\ \A k \in Kinds : owner.todo[i + 1].value[k].baseline = spent.epochs
          /\ \A j \in DOMAIN owner.todo : owner.todo[j].file = "ledgers" => j = i + 1
          /\ Older(dir.ledgers) /\ Older(reader.seen)
      BY <3>1 DEF LedgerInv, LedgersPending
    <3>3. ASSUME NEW j \in DOMAIN owner'.todo, owner'.todo[j].file = "ledgers" PROVE j = i
      <4>1. j \in Nat \ {0} /\ j + 1 \in DOMAIN owner.todo /\ owner'.todo[j] = owner.todo[j + 1]
        BY WriteFileLeaves
      <4>2. j + 1 = i + 1
        BY <3>2, <3>3, <4>1
      <4> QED
        BY <3>1, <4>1, <4>2
    <3>4. Older(dir.ledgers)' /\ Older(reader.seen)'
      BY <1>1, <2>1, <3>2 DEF Older
    <3> QED
      BY <1>1, <3>1, <3>2, <3>3, <3>4
  <2> QED
    BY <1>1, <1>2, <2>1, <2>2 DEF LedgerInv
<1> QED
  BY <1>3, <1>4

LEMMA RollingNoLedgers == ASSUME Rolling' PROVE LedgersPending'
  BY RollingWritesNoFileNext, NoLedgersPending DEF Files

LEMMA NothingLedgers ==
  ASSUME owner' = Nothing PROVE LedgersPending' /\ RolloverLedgers'
<1>1. owner'.todo = <<>> /\ DOMAIN owner'.todo = {}
  BY DEF Nothing
<1> QED
  BY <1>1, NothingPending, NoLedgersPending, NextSteps DEF RolloverLedgers

LEMMA OwnerStepLedgers == ASSUME Base, LedgerInv, OwnerStep PROVE LedgerInv'
<1>0. Shape /\ TypeOK /\ DirectoryOK(dir) /\ spent.epochs \in Nat
  BY DEF Base, Shape, TypeOK
<1>1. UNCHANGED reader
  BY DEF OwnerStep, CreateBaseline, RenewEvidence, WriteFile, Rollover, WriteStage,
         ArchiveActive, ActivateStage, VerifyActive, Unstage, Restore, Crash
<1>2. CASE CreateBaseline
  <2> DEFINE b == BaselinePayload(1, 0)
  <2>1. /\ UNCHANGED <<dir, archives, reader>> /\ owner'.todo = BaselineWrites(b)
        /\ spent'.epochs = spent.epochs + 1
        /\ \A k \in Kinds : dir.ledgers[k] = None
    BY <1>0, <1>2 DEF CreateBaseline, Shape, TodoOK, TypeOK
  <2>2. b \in Baselines /\ b.id = spent.epochs + 1
    BY <1>0, PayloadIsBaseline
  <2> HIDE DEF b
  <2>3. /\ DOMAIN owner'.todo = 1..5
        /\ owner'.todo[1].file = "bjournal" /\ owner'.todo[3].file = "baseline"
        /\ owner'.todo[4].file = "bjournal" /\ owner'.todo[5].file = "bactivation"
    BY <2>1, <2>2, BaselineTodo
  <2>4. \A i \in DOMAIN owner'.todo : owner'.todo[i].file = "ledgers" => i = 2
    BY <2>3
  <2>5. \A k \in Kinds : owner'.todo[2].value[k].baseline = spent'.epochs
    <3>1. owner'.todo[2].value = EmptyLedgers(b)
      BY <2>1 DEF BaselineWrites, Write
    <3> QED
      BY <2>1, <2>2, <3>1 DEF EmptyLedgers
  <2>6. LedgersPending'
    BY <1>0, <2>1, <2>4, <2>5, NextIsNewer DEF LedgersPending
  <2>7. RolloverLedgers'
    <3>1. 1 \in DOMAIN owner'.todo /\ owner'.todo[1].file \in Files
      BY <2>3 DEF Files
    <3>2. ~Rolling'
      BY <3>1, RollingWritesNoFileNext
    <3> QED
      BY <3>2 DEF RolloverLedgers, Rolling, Staged
  <2> QED
    BY <1>0, <2>1, <2>6, <2>7, NextIsNewer DEF LedgerInv
<1>3. ASSUME NEW op \in Ops, RenewEvidence(op) PROVE LedgerInv'
  <2>1. /\ UNCHANGED <<dir, archives, reader>> /\ owner'.todo = RenewalWrites(op)
        /\ RenewAccepted(op) /\ spent'.epochs = spent.epochs
    BY <1>0, <1>3 DEF RenewEvidence, Shape, TodoOK, TypeOK
  <2>2. \A i \in DOMAIN owner'.todo : owner'.todo[i].file \in Files \ {"ledgers"}
    BY <1>0, <2>1, RenewalFiles DEF Files
  <2>3. 1 \in DOMAIN owner'.todo
    BY <1>0, <2>1, RenewalTodo
  <2>4. ~Rolling'
    BY <2>2, <2>3, RollingWritesNoFileNext
  <2> QED
    BY <2>1, <2>2, <2>4, NoLedgersPending DEF LedgerInv, RolloverLedgers, Rolling, Staged
<1>4. CASE WriteFile
  BY <1>4, WriteFileLedgers
<1>5. CASE Rollover
  <2>1. /\ UNCHANGED <<dir, archives, reader>> /\ owner'.todo = ToStage
        /\ spent'.epochs = spent.epochs + 1
    BY <1>0, <1>5 DEF Rollover, ToStage, TypeOK
  <2>2. Rolling' /\ Before' /\ ~Staged' /\ ~Active'
    BY <2>1, NextSteps DEF Rolling, Before, Staged, Active
  <2> QED
    BY <1>0, <2>1, <2>2, NextIsNewer, RollingNoLedgers DEF LedgerInv, RolloverLedgers
<1>6. CASE WriteStage
  <2>1. owner.todo = ToStage
    BY <1>0, <1>6, StepIsAt DEF WriteStage, Shape
  <2>2. owner'.todo = ToArchive /\ UNCHANGED <<dir, archives, reader, spent>>
    BY <1>0, <1>6, <2>1, RolloverSteps DEF WriteStage, Shape, TodoOK
  <2>3. Before /\ Rolling' /\ ~Staged' /\ ~Active'
    BY <2>1, <2>2, NextSteps DEF Rolling, Before, Staged, Active
  <2> QED
    BY <2>2, <2>3, RollingNoLedgers DEF LedgerInv, RolloverLedgers, Older
<1>7. CASE ArchiveActive
  <2>1. /\ Before /\ Rolling' /\ Staged' /\ Old' = dir /\ dir' = EmptyDirectory
        /\ UNCHANGED <<reader, spent>>
    BY <1>0, <1>7, Archiving DEF Rolling, ArchiveActive
  <2>2. Older(dir.ledgers) /\ Older(reader.seen)
    BY <2>1 DEF LedgerInv, RolloverLedgers
  <2>3. RolloverLedgers'
    BY <2>1, <2>2, EmptyLedger DEF LedgerInv, RolloverLedgers, Older
  <2> QED
    BY <2>1, <2>3, EmptyLedger, RollingNoLedgers DEF LedgerInv
<1>8. CASE ActivateStage
  <2>1. /\ owner.todo = ToActivate /\ Staged /\ Rolling' /\ ~Before' /\ owner'.todo # ToActivate
        /\ Old' = Old /\ UNCHANGED <<reader, spent>>
        /\ dir' = dir \/ dir' = owner.new
        /\ RolloverOK
    BY <1>0, <1>8, Activating, NextSteps DEF Rolling, Old, ActivateStage
  <2>2. Older(reader.seen) /\ Older(Old.ledgers) /\ Counts(Old.ledgers, reader.seen)
    BY <2>1 DEF LedgerInv, RolloverLedgers
  <2>3. RolloverLedgers'
    BY <2>1, <2>2 DEF RolloverLedgers, Older
  <2>4. Counts(owner.new.ledgers, reader.seen) /\ UpTo(owner.new.ledgers, spent.epochs)
    <3>1. \A k \in Kinds : owner.new.ledgers[k].baseline = spent.epochs
      <4>1. /\ owner.new.baseline \in Baselines /\ owner.new.baseline.id = spent.epochs
            /\ owner.new = NewDirectory(owner.new.baseline)
        BY <2>1 DEF RolloverOK
      <4>2. owner.new.ledgers =
               [k \in Kinds |-> [baseline |-> owner.new.baseline.id, records |-> 0]]
        BY <4>1, NewDirectoryFiles
      <4> QED
        BY <4>1, <4>2
    <3> QED
      BY <1>0, <2>2, <3>1, NewCounts
  <2> QED
    BY <2>1, <2>3, <2>4, RollingNoLedgers DEF LedgerInv
<1>9. CASE VerifyActive
  <2>1. Active /\ UNCHANGED <<dir, archives, reader, spent>>
    BY <1>0, <1>9, Verifying DEF VerifyActive
  <2>2. CASE owner' = Nothing
    BY <2>1, <2>2, NothingLedgers DEF LedgerInv
  <2>3. CASE owner'.todo = ToUnstage /\ Active' /\ ~Before' /\ owner'.new = owner.new
    <3>1. Rolling' /\ Old' = Old /\ owner'.todo # ToActivate
      BY <2>1, <2>3, NextSteps DEF Rolling, Old
    <3> QED
      BY <2>1, <2>3, <3>1, RollingNoLedgers DEF LedgerInv, RolloverLedgers, Older
  <2> QED
    BY <1>0, <1>9, <2>2, <2>3, Verifying
<1>10. CASE Unstage
  <2>1. /\ Active /\ Rolling' /\ owner'.todo # ToActivate /\ ~Before'
        /\ Old' = Old /\ dir' = EmptyDirectory /\ UNCHANGED <<reader, spent>>
    BY <1>0, <1>10, Unstaging, NextSteps DEF Rolling, Old, Unstage
  <2> QED
    BY <2>1, EmptyLedger, RollingNoLedgers DEF LedgerInv, RolloverLedgers, Older
<1>11. CASE Restore
  <2>1. Staged /\ dir' = Old /\ owner' = Nothing /\ UNCHANGED <<reader, spent>>
    BY <1>0, <1>11, Restoring DEF Restore
  <2>2. Older(Old.ledgers) /\ Counts(Old.ledgers, reader.seen)
    BY <2>1 DEF LedgerInv, RolloverLedgers
  <2>3. UpTo(Old.ledgers, spent.epochs)
    <3>1. DirectoryOK(Old)
      BY <1>0, <1>11, Restoring DEF TypeOK, Old
    <3> QED
      BY <1>0, <2>2, <3>1, LedgerTypes DEF Older, UpTo
  <2> QED
    BY <2>1, <2>2, <2>3, NothingLedgers DEF LedgerInv
<1>12. CASE Crash
  <2>1. UNCHANGED <<dir, reader>> /\ owner' = Nothing /\ spent'.epochs = spent.epochs
    BY <1>0, <1>12 DEF Crash, TypeOK
  <2> QED
    BY <2>1, NothingLedgers DEF LedgerInv
<1> QED
  BY <1>2, <1>3, <1>4, <1>5, <1>6, <1>7, <1>8, <1>9, <1>10, <1>11, <1>12 DEF OwnerStep

(* An event recorded is counted.                                           *)
LEMMA RecordEventLedgers == ASSUME Base, LedgerInv, NEW k \in Kinds, RecordEvent(k) PROVE LedgerInv'
<1>0. Shape /\ TypeOK /\ spent.epochs \in Nat
  BY DEF Base, Shape, TypeOK
<1>1. UNCHANGED <<reader, owner, archives, spent>>
  BY DEF RecordEvent
<1>2. \A j \in Kinds : dir'.ledgers[j] # None =>
         /\ dir.ledgers[j] # None
         /\ dir'.ledgers[j].baseline = dir.ledgers[j].baseline
  BY <1>0, Recording, NoneIsAbsent
<1>3. UpTo(dir'.ledgers, spent.epochs) /\ (Older(dir.ledgers) => Older(dir.ledgers)')
  BY <1>1, <1>2 DEF LedgerInv, UpTo, Older
<1>4. Counts(dir'.ledgers, reader.seen)
  <2> SUFFICES ASSUME NEW j \in Kinds, dir'.ledgers[j] # None, reader.seen[j] # None,
                      dir'.ledgers[j].baseline = reader.seen[j].baseline
               PROVE  reader.seen[j].records <= dir'.ledgers[j].records
    BY DEF Counts
  <2>1. reader.seen[j].records <= dir.ledgers[j].records
    BY <1>2 DEF LedgerInv, Counts
  <2>2. CASE j = k
    <3>1. dir'.ledgers[k].records = dir.ledgers[k].records + 1 /\ dir.ledgers[k].records \in Nat
      BY <1>0, Recording DEF Ledgers
    <3>2. reader.seen[k].records \in Nat
      BY <1>0, <2>2, SeenTypes
    <3> QED
      BY <2>1, <2>2, <3>1, <3>2
  <2>3. CASE j # k
    <3>1. dir'.ledgers[j] = dir.ledgers[j]
      BY <1>0, <2>3, Recording
    <3> QED
      BY <2>1, <3>1
  <2> QED
    BY <2>2, <2>3
<1>5. UNCHANGED <<Before, Staged, Active, Old>> /\ (Older(reader.seen) => Older(reader.seen)')
  BY <1>1 DEF Before, Staged, Active, Old, Older
<1>6. LedgersPending'
  BY <1>1, <1>3, <1>5 DEF LedgerInv, LedgersPending
<1>7. RolloverLedgers'
  <2>1. Older(Old.ledgers) => Older(Old.ledgers)'
    BY <1>1, <1>5 DEF Older
  <2> QED
    BY <1>1, <1>3, <1>5, <2>1 DEF LedgerInv, RolloverLedgers
<1> QED
  BY <1>1, <1>3, <1>4, <1>6, <1>7 DEF LedgerInv

(* What leaves the ledgers, the command and what was seen alone.           *)
LEMMA LedgersSame ==
  ASSUME Base, LedgerInv, UNCHANGED <<dir, archives, owner>>,
         spent'.epochs = spent.epochs, reader'.seen = reader.seen
  PROVE  LedgerInv'
<1>1. UNCHANGED <<Before, Staged, Active, Old>>
  BY DEF Before, Staged, Active, Old
<1>2. UNCHANGED <<Older(dir.ledgers), Older(reader.seen), Older(Old.ledgers)>>
  BY <1>1 DEF Older
<1>3. LedgersPending' /\ RolloverLedgers'
  BY <1>1, <1>2 DEF LedgerInv, LedgersPending, RolloverLedgers
<1> QED
  BY <1>3 DEF LedgerInv

(* An assessment begins with what the ledgers hold, or with nothing.       *)
LEMMA SeenLedgers ==
  ASSUME Base, LedgerInv, UNCHANGED <<dir, archives, owner, spent>>,
         reader'.seen = dir.ledgers \/ reader'.seen = [k \in Kinds |-> None]
  PROVE  LedgerInv'
<1>0. TypeOK /\ Shape /\ DirectoryOK(dir) /\ spent.epochs \in Nat
  BY DEF Base, Shape, TypeOK
<1>1. UNCHANGED <<Before, Staged, Active, Old>>
  BY DEF Before, Staged, Active, Old
<1>2. Older(dir.ledgers)' <=> Older(dir.ledgers)
  BY DEF Older
<1>3. Older(dir.ledgers) => Older(reader.seen)'
  BY DEF Older
<1>4. UpTo(reader'.seen, spent.epochs)
  BY DEF LedgerInv, UpTo
<1>5. Counts(dir.ledgers, reader'.seen)
  <2>1. \A k \in Kinds : dir.ledgers[k] # None => dir.ledgers[k].records \in Nat
    BY <1>0, LedgerTypes
  <2> QED
    BY <2>1 DEF Counts
<1>6. LedgersPending'
  BY <1>2, <1>3 DEF LedgerInv, LedgersPending
<1>7. RolloverLedgers'
  <2>1. ASSUME Staged \/ Active PROVE Older(Old.ledgers)' /\ Counts(Old.ledgers, reader'.seen)
    <3>1. Older(Old.ledgers)
      BY <2>1 DEF LedgerInv, RolloverLedgers
    <3>2. CASE reader'.seen = [k \in Kinds |-> None]
      BY <1>1, <3>1, <3>2 DEF Older, Counts
    <3>3. CASE reader'.seen = dir.ledgers
      <4>1. RolloverOK
        BY <1>0, <2>1, RollingIsOK DEF Rolling
      <4>2. \A k \in Kinds : dir.ledgers[k] # None => dir.ledgers[k].baseline = spent.epochs
        BY <2>1, <4>1, EmptyDirectoryFiles DEF RolloverOK
      <4>3. DirectoryOK(Old)
        BY <1>0, <2>1, <4>1 DEF RolloverOK, Old, TypeOK
      <4>4. \A k \in Kinds : Old.ledgers[k] # None => Old.ledgers[k].baseline # spent.epochs
        BY <1>0, <3>1, <4>3, LedgerTypes DEF Older
      <4>5. Counts(Old.ledgers, reader'.seen)
        BY <3>3, <4>2, <4>4 DEF Counts
      <4> QED
        BY <1>1, <3>1, <4>5 DEF Older
    <3> QED
      BY <3>2, <3>3
  <2>2. Counts(Old.ledgers, reader.seen)' <=> Counts(Old.ledgers, reader'.seen)
    BY <1>1 DEF Counts
  <2> QED
    BY <1>1, <1>2, <1>3, <2>1, <2>2 DEF LedgerInv, RolloverLedgers
<1>8. Counts(dir.ledgers, reader.seen)' /\ UpTo(dir.ledgers, spent.epochs)' /\ UpTo(reader.seen, spent.epochs)'
  BY <1>4, <1>5 DEF LedgerInv, Counts, UpTo
<1> QED
  BY <1>6, <1>7, <1>8 DEF LedgerInv

LEMMA LedgerStep == Base /\ LedgerInv /\ [Next]_vars => LedgerInv'
<1> SUFFICES ASSUME Base, LedgerInv, [Next]_vars PROVE LedgerInv'
  OBVIOUS
<1>0. Shape /\ TypeOK /\ ReaderOK
  BY DEF Base, Shape, TypeOK
<1>1. CASE OwnerStep
  BY <1>1, OwnerStepLedgers
<1>2. CASE ReaderStep
  <2>1. UNCHANGED <<dir, archives, owner, spent>>
    BY <1>2, ReaderStepFrame DEF EnvUnchanged, ownerVars
  <2>2. \/ reader'.seen = reader.seen
        \/ reader'.seen = dir.ledgers
        \/ reader'.seen = [k \in Kinds |-> None]
    BY <1>0, <1>2, ReaderSteps, RefuseEffect, StartEffect, ReadBaselineEffect, ReadEvidenceEffect,
       CheckEvidenceEffect, DecisionEffect, ProceedEffect DEF Places
  <2> QED
    BY <2>1, <2>2, LedgersSame, SeenLedgers
<1>3. CASE WorldStep
  <2>1. CASE \E k \in Kinds : RecordEvent(k)
    BY <2>1, RecordEventLedgers
  <2>2. CASE Tick \/ RefreshRegistry
    BY <2>2, LedgersSame DEF Tick, RefreshRegistry, ownerVars
  <2>3. CASE ChangeAuthority \/ Commit
    <3>1. spent'.epochs = spent.epochs
      BY <1>0, <2>3 DEF ChangeAuthority, Commit, Change, TypeOK
    <3> QED
      BY <2>3, <3>1, LedgersSame DEF ChangeAuthority, Commit, ownerVars
  <2> QED
    BY <1>3, <2>1, <2>2, <2>3 DEF WorldStep
<1>4. CASE UNCHANGED vars
  BY <1>4, LedgersSame DEF vars
<1> QED
  BY <1>1, <1>2, <1>3, <1>4 DEF Next

(* An observation counts at least what was seen of the ledger it counts.   *)
CountSeen(k) ==
    reader.seen[k] # None /\ reader.seen[k].baseline = reader[k].baseline
        => reader.seen[k].records <= reader[k].count

ReaderCounts ==
    /\ reader.kind = "incident" => CountSeen("rollback")
    /\ Observed => CountSeen("incident")

(* Evidence that loads counts all that its ledger holds.                   *)
LEMMA LoadedCounts ==
  ASSUME Base, LedgerInv, NEW k \in Kinds, reader[k] # None, EvidenceLoads(dir, k, reader[k])
  PROVE  CountSeen(k)
<1>1. dir.ledgers[k] = [baseline |-> reader[k].baseline, records |-> reader[k].count]
  BY DEF EvidenceLoads, LedgerIs
<1>2. dir.ledgers[k] # None
  <2>1. reader[k].baseline \in Nat /\ reader[k].count \in Nat
    BY DEF Base, Shape, TypeOK, ReaderOK, Observations
  <2>2. dir.ledgers[k] \in Ledgers
    BY <1>1, <2>1 DEF Ledgers
  <2> QED
    BY <2>2, NoneIsAbsent
<1>3. dir.ledgers[k].baseline = reader[k].baseline /\ dir.ledgers[k].records = reader[k].count
  BY <1>1
<1> QED
  BY <1>2, <1>3 DEF CountSeen, LedgerInv, Counts

LEMMA ReaderCountsStep ==
  Base /\ EndsInv /\ ReaderEnds /\ LedgerInv /\ ReaderCounts /\ [Next]_vars => ReaderCounts'
<1> SUFFICES ASSUME Base, EndsInv, ReaderEnds, LedgerInv, ReaderCounts, [Next]_vars
             PROVE  ReaderCounts'
  OBVIOUS
<1>0. Shape /\ TypeOK /\ ReaderOK
  BY DEF Base, Shape, TypeOK
<1>1. CASE ~ReaderStep
  <2>1. UNCHANGED reader
    BY <1>1 DEF Next, vars, OwnerStep, CreateBaseline, RenewEvidence, WriteFile, Rollover,
                WriteStage, ArchiveActive, ActivateStage, VerifyActive, Unstage, Restore, Crash,
                WorldStep, Tick, RecordEvent, ChangeAuthority, Commit, RefreshRegistry
  <2> QED
    BY <2>1 DEF ReaderCounts, CountSeen, Observed, Decided
<1>2. ASSUME reader'.rollback = reader.rollback, reader'.seen = reader.seen,
             CountSeen("rollback")
      PROVE  CountSeen("rollback")'
  BY <1>2 DEF CountSeen
<1>3. ASSUME reader'.incident = reader.incident, reader'.seen = reader.seen,
             CountSeen("incident")
      PROVE  CountSeen("incident")'
  BY <1>3 DEF CountSeen
<1>4. CASE Refuse
  BY <1>4, RefuseEffect DEF ReaderCounts, Observed, Decided
<1>5. CASE StartAssessment
  BY <1>0, <1>5, StartEffect DEF ReaderCounts, Observed, Decided
<1>6. CASE ReadBaseline /\ dir.baseline # None
  BY <1>0, <1>2, <1>6, ReadBaselineEffect DEF ReaderCounts, Observed, Decided
<1>7. CASE CheckBaseline /\ BaselineLoads(dir, reader.baseline) /\ Proceed("evidence")
  BY <1>0, <1>2, <1>7, ProceedEffect DEF ReaderCounts, Observed, Decided, Places
<1>8. CASE ReadEvidence /\ dir[reader.kind] # None
  <2>1. /\ reader'.pc = "evidence files" /\ reader'.kind = reader.kind
        /\ reader'.seen = reader.seen
        /\ reader.kind = "incident" => reader'.rollback = reader.rollback
    BY <1>0, <1>8, ReadEvidenceEffect DEF ReaderOK, Kinds
  <2> QED
    BY <1>2, <1>8, <2>1 DEF ReaderCounts, Observed, Decided
<1>9. CASE CheckEvidence /\ ~Refuse
  <2>1. reader[reader.kind] # None
    BY <1>9 DEF CheckEvidence, Reads, ReaderEnds
  <2>2. CountSeen(reader.kind)
    BY <1>0, <1>9, <2>1, CheckEvidenceEffect, LoadedCounts DEF ReaderOK
  <2> QED
    BY <1>0, <1>2, <1>3, <1>9, <2>2, CheckEvidenceEffect DEF ReaderCounts, Observed, Decided
<1>10. CASE (Assess \/ Decide \/ Evaluate \/ Comply \/ Deliver) /\ ~Refuse
  <2>1. Observed /\ reader'.kind = reader.kind /\ reader'.seen = reader.seen
        /\ reader'.rollback = reader.rollback /\ reader'.incident = reader.incident
    BY <1>0, <1>10, DecisionEffect DEF Observed, Decided
  <2> QED
    BY <1>2, <1>3, <2>1 DEF ReaderCounts
<1> QED
  BY <1>0, <1>1, <1>4, <1>5, <1>6, <1>7, <1>8, <1>9, <1>10, ReaderSteps

(* However ledgers grow and epochs change while a delivery reads, it never *)
(* decides on a count below what the ledgers of its epoch held when the    *)
(* assessment began.                                                       *)
THEOREM NoEventUnseen == Spec => []NoUnseenEvent
<1>1. Base /\ ReaderEnds /\ ReaderCounts => NoUnseenEvent
  <2> SUFFICES ASSUME Base, ReaderEnds, ReaderCounts, reader.pc = "approved",
                      NEW k \in Kinds, reader.seen[k] # None,
                      reader.seen[k].baseline = reader.baseline.id
               PROVE  reader[k].count >= reader.seen[k].records
    BY DEF NoUnseenEvent, Reads
  <2>1. Observed /\ Decided
    BY DEF Observed, Decided
  <2>2. /\ reader.kind = "incident"
        /\ reader.rollback.baseline = reader.baseline.id
        /\ reader.incident.baseline = reader.baseline.id
    BY <2>1 DEF ReaderEnds, Renewed
  <2>3. CountSeen("rollback") /\ CountSeen("incident")
    BY <2>1, <2>2 DEF ReaderCounts
  <2>4. reader.seen[k].records <= reader[k].count
    BY <2>2, <2>3 DEF CountSeen, Kinds
  <2>5. reader.seen[k].records \in Nat /\ reader[k].count \in Nat
    <3>1. reader[k] \in Observations
      BY <2>1 DEF ReaderEnds, Base, Shape, TypeOK, ReaderOK, Kinds
    <3> QED
      BY <3>1, SeenTypes DEF Base, Shape, Observations
  <2> QED
    BY <2>4, <2>5
<1>2. Init => EndsInv /\ ReaderEnds /\ LedgerInv /\ ReaderCounts
  BY InitEnds, InitReaderEnds, InitLedgers, AwaitingFields
     DEF Init, ReaderCounts, Observed, Decided
<1> QED
  BY <1>1, <1>2, EndsStep, ReaderEndsStep, LedgerStep, ReaderCountsStep, EvidenceInvariance, PTL
     DEF Spec
=============================================================================
