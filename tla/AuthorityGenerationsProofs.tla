----------------------- MODULE AuthorityGenerationsProofs -----------------------
(***************************************************************************)
(* Proofs about AuthorityGenerations, for any number of readers,           *)
(* generations and crashes: types, the succession of generations, and that *)
(* active() implements AuthorityRegister, so that no read is downgraded;   *)
(* and that a single activation settles.                                   *)
(***************************************************************************)
EXTENDS AuthorityGenerations, TLAPS

\* What makes TypeOK and Succession inductive: whatever a journal, a local
\* variable or the predecessor names has a file, and a selector that has been
\* read names an active generation; only a read in progress knows anything.
GroundedAt(p) ==
    /\ seen[p] # 0 => file[seen[p]] # "absent"
    /\ pc[p] \in {"redoSelector", "redoFloor"} => seen[p] \in Active
    /\ sel[p] # 0 => sel[p] \in Active
    /\ pc[p] \in {"load", "floor", "scan"} \/ caller[p] = "floor" => sel[p] # 0
    /\ known[p] \subseteq Active
    /\ pc[p] \notin Reading => known[p] = {}

GroundedOwner ==
    /\ predecessor # 0 => predecessor \in Active
    /\ pc[Owner] \in Committing \cup {"decided"} => predecessor # 0
    /\ pc[Owner] = "writeFile" => Proposed \in Generations /\ file[Proposed] # "absent"
    /\ pc[Owner] \in {"writeSelector", "writeFloor"} => Proposed \in Active

Grounded ==
    /\ transition # 0 => file[transition] # "absent"
    /\ \A p \in Processes : GroundedAt(p)
    /\ GroundedOwner

IInv == TypeOK /\ Succession /\ Grounded

\* The inductive invariant holds of the generation a cutover installed.
LEMMA InitInv == Init => IInv
  BY OwnerAssumption, MaxGenerationAssumption, MaxCrashesAssumption
  DEF Init, IInv, TypeOK, Succession, Grounded, GroundedAt, GroundedOwner, Active,
      Generations, Processes, Reading, Committing

\* Readers and the owner are different processes; 0 stands for no generation.
LEMMA ConstantFacts ==
    /\ 0 \in 0..MaxGeneration
    /\ Generations \subseteq 0..MaxGeneration
    /\ 0 \notin Generations
    /\ Generations \subseteq Nat
    /\ Readers \subseteq Processes
    /\ Owner \in Processes
    /\ \A p \in Processes : p \notin Readers <=> p = Owner
  BY OwnerAssumption, MaxGenerationAssumption DEF Processes, Generations

\* Files that do not change keep what the invariant says of them alone.
LEMMA FilesKept ==
  ASSUME IInv, UNCHANGED files
  PROVE  /\ Active' = Active
         /\ Succession'
         /\ (transition # 0 => file[transition] # "absent")'
  BY DEF IInv, Succession, Grounded, Active, files

\* Beginning a read keeps the invariant.
LEMMA BeginInv ==
  ASSUME IInv, NEW p \in Processes, Begin(p)
  PROVE  IInv'
<1>1. UNCHANGED files /\ Active' = Active /\ Succession'
      /\ (transition # 0 => file[transition] # "absent")'
  BY FilesKept DEF Begin
<1>2. TypeOK'
  <2>1. known' \in [Processes -> SUBSET Generations]
    BY DEF Begin, IInv, TypeOK, Active
  <2> QED
    BY <1>1, <2>1, ConstantFacts DEF Begin, IInv, TypeOK, files, locals, Reading
<1>3. ASSUME NEW q \in Processes PROVE GroundedAt(q)'
  BY <1>1 DEF Begin, IInv, TypeOK, Grounded, GroundedAt, files, locals, Reading
<1>4. GroundedOwner'
  BY <1>1, OwnerAssumption
  DEF Begin, IInv, TypeOK, Grounded, GroundedOwner, files, Processes, Committing, Proposed
<1> QED
  BY <1>1, <1>2, <1>3, <1>4 DEF IInv, Grounded

\* A refusal keeps it.
LEMMA RefuseInv ==
  ASSUME IInv, NEW p \in Processes, Refuse(p)
  PROVE  IInv'
<1>1. UNCHANGED files /\ Active' = Active /\ Succession'
      /\ (transition # 0 => file[transition] # "absent")'
  BY FilesKept DEF Refuse
<1>2. TypeOK'
  BY <1>1, ConstantFacts
  DEF Refuse, Forget, IInv, TypeOK, files
<1>3. ASSUME NEW q \in Processes PROVE GroundedAt(q)'
  BY <1>1 DEF Refuse, Forget, IInv, TypeOK, Grounded, GroundedAt, files
<1>4. GroundedOwner'
  BY <1>1, OwnerAssumption
  DEF Refuse, IInv, TypeOK, Grounded, GroundedOwner, files, Processes, Committing, Proposed
<1> QED
  BY <1>1, <1>2, <1>3, <1>4 DEF IInv, Grounded

\* So does the death of a process.
LEMMA CrashInv ==
  ASSUME IInv, NEW p \in Processes, Crash(p)
  PROVE  IInv'
<1>1. UNCHANGED files /\ Active' = Active /\ Succession'
      /\ (transition # 0 => file[transition] # "absent")'
  BY FilesKept DEF Crash
<1>2. TypeOK'
  BY <1>1, ConstantFacts, MaxCrashesAssumption DEF Crash, Forget, IInv, TypeOK, files
<1>3. ASSUME NEW q \in Processes PROVE GroundedAt(q)'
  BY <1>1 DEF Crash, Forget, IInv, TypeOK, Grounded, GroundedAt, files
<1>4. GroundedOwner'
  BY <1>1, OwnerAssumption
  DEF Crash, IInv, TypeOK, Grounded, GroundedOwner, files, Processes, Committing, Proposed
<1> QED
  BY <1>1, <1>2, <1>3, <1>4 DEF IInv, Grounded

\* The steps of a read that write no file.
LEMMA LookInv ==
  ASSUME IInv, NEW p \in Processes,
         Look(p) \/ Fetch(p) \/ Select(p) \/ Load(p) \/ ReadFloor(p)
  PROVE  IInv'
<1>1. UNCHANGED files /\ Active' = Active /\ Succession'
      /\ (transition # 0 => file[transition] # "absent")'
  BY FilesKept DEF Look, Fetch, Select, Load, ReadFloor
<1>2. TypeOK'
  <2>1. CASE Look(p)
    BY <1>1, <2>1, ConstantFacts
    DEF Look, Goto, Quietly, IInv, TypeOK, Grounded, GroundedAt, files, locals, Reading
  <2>2. CASE Fetch(p)
    BY <1>1, <2>2, ConstantFacts DEF Fetch, Goto, Quietly, IInv, TypeOK, files, Reading
  <2>3. CASE Select(p)
    <3>1. selector \in 0..MaxGeneration
      BY ConstantFacts DEF IInv, TypeOK, Active
    <3> QED
      BY <1>1, <2>3, <3>1, ConstantFacts DEF Select, Goto, Quietly, IInv, TypeOK, files, Reading
  <2>4. CASE Load(p)
    BY <1>1, <2>4, ConstantFacts DEF Load, Goto, Quietly, IInv, TypeOK, files, Reading
  <2>5. CASE ReadFloor(p)
    BY <1>1, <2>5, ConstantFacts DEF ReadFloor, Goto, Quietly, IInv, TypeOK, files, Reading
  <2> QED
    BY <2>1, <2>2, <2>3, <2>4, <2>5
<1>3. ASSUME NEW q \in Processes PROVE GroundedAt(q)'
  <2>1. selector # 0
    BY ConstantFacts DEF IInv, TypeOK, Active
  <2> QED
    BY <1>1, <2>1
    DEF Look, Fetch, Select, Load, ReadFloor, Goto, Quietly, IInv, TypeOK, Grounded,
        GroundedAt, files, locals, Reading
<1>4. GroundedOwner'
  BY <1>1, ConstantFacts
  DEF Look, Fetch, Select, Load, ReadFloor, Goto, Quietly, IInv, TypeOK, Grounded,
      GroundedOwner, files, Committing, Proposed
<1> QED
  BY <1>1, <1>2, <1>3, <1>4 DEF IInv, Grounded

\* Returning an answer: what publish keeps as predecessor is active.
LEMMA AnswerInv ==
  ASSUME IInv,
         (\E p \in Processes : Return(p)) \/ ReadPredecessor \/ Validate
  PROVE  IInv'
<1> PICK p \in Processes :
      /\ Answers(p)
      /\ pc[p] = "scan"
      /\ \/ p # Owner /\ pc' = [pc EXCEPT ![p] = "idle"] /\ predecessor' = predecessor
         \/ p = Owner /\ pc' = [pc EXCEPT ![p] = "decided"] /\ predecessor' = sel[p]
         \/ /\ p = Owner /\ predecessor # 0 /\ predecessor' = predecessor
            /\ \E to \in {"decided", "commit", "idle"} : pc' = [pc EXCEPT ![p] = to]
  BY ConstantFacts DEF Return, ReadPredecessor, Validate, Goto
<1>1. UNCHANGED files /\ Active' = Active /\ Succession'
      /\ (transition # 0 => file[transition] # "absent")'
  BY FilesKept DEF Answers
<1>2. sel[p] \in Active /\ sel[p] \in 0..MaxGeneration /\ sel[p] # 0
  BY DEF IInv, TypeOK, Grounded, GroundedAt
<1>3. TypeOK'
  BY <1>1, <1>2, ConstantFacts
  DEF Answers, Forget, IInv, TypeOK, files, Committing
<1>4. ASSUME NEW q \in Processes PROVE GroundedAt(q)'
  BY <1>1, <1>2
  DEF Answers, Forget, IInv, TypeOK, Grounded, GroundedAt, files
<1>5. GroundedOwner'
  BY <1>1, <1>2, ConstantFacts
  DEF Answers, IInv, TypeOK, Grounded, GroundedOwner, files, Committing, Proposed
<1> QED
  BY <1>1, <1>3, <1>4, <1>5 DEF IInv, Grounded

\* A saved generation can become active: every one before it is.
LEMMA ActivateFile ==
  ASSUME IInv, NEW n \in Generations, file[n] # "absent",
         file' = [file EXCEPT ![n] = "ACTIVE"]
  PROVE  /\ Active' = Active \cup {n}
         /\ Succession'
         /\ n \notin Active => \A m \in Active : m < n
         /\ \A m \in Generations : file[m] # "absent" => file'[m] # "absent"
<1>1. file \in [Generations -> {"absent", "VERIFIED", "ACTIVE"}]
  BY DEF IInv, TypeOK
<1>2. Active' = Active \cup {n}
  BY <1>1 DEF Active
<1>3. Succession'
  BY <1>1, <1>2 DEF IInv, Succession
<1>4. n \notin Active => \A m \in Active : m < n
  <2> SUFFICES ASSUME n \notin Active, NEW m \in Active, ~(m < n) PROVE FALSE
    OBVIOUS
  <2>1. m \in Generations /\ file[m] # "absent" /\ m \in Nat /\ n \in Nat /\ m # n
    BY ConstantFacts DEF Active
  <2>2. n \in 1..(m - 1)
    BY <2>1, MaxGenerationAssumption DEF Generations
  <2> QED
    BY <2>1, <2>2 DEF IInv, Succession
<1> QED
  BY <1>1, <1>2, <1>3, <1>4

\* Redoing a journal, whether it is stale or not, keeps the invariant.
LEMMA RedoInv ==
  ASSUME IInv, NEW p \in Processes,
         RedoFile(p) \/ RedoSelector(p) \/ RedoFloor(p) \/ RedoUnlink(p)
  PROVE  IInv'
<1>1. CASE RedoFile(p)
  <2>1. seen[p] \in Generations /\ file[seen[p]] # "absent"
    BY <1>1, ConstantFacts, MaxGenerationAssumption
    DEF RedoFile, Goto, IInv, TypeOK, Grounded, GroundedAt, Generations
  <2>2. /\ Active' = Active \cup {seen[p]} /\ Succession'
        /\ \A m \in Generations : file[m] # "absent" => file'[m] # "absent"
    BY <1>1, <2>1, ActivateFile DEF RedoFile
  <2>3. TypeOK'
    BY <1>1, <2>2, ConstantFacts
    DEF RedoFile, Goto, Quietly, locals, IInv, TypeOK, Reading
  <2>4. (transition # 0 => file[transition] # "absent")'
    BY <1>1, <2>2, MaxGenerationAssumption
    DEF RedoFile, IInv, TypeOK, Grounded, Generations
  <2>5. ASSUME NEW q \in Processes PROVE GroundedAt(q)'
    <3>1. seen[q] \in 0..MaxGeneration
      BY DEF IInv, TypeOK
    <3>2. seen[q] # 0 => file'[seen[q]] # "absent"
      BY <2>2, <3>1, MaxGenerationAssumption DEF IInv, Grounded, GroundedAt, Generations
    <3> QED
      BY <1>1, <2>1, <2>2, <3>2
      DEF RedoFile, Goto, Quietly, locals, IInv, TypeOK, Grounded, GroundedAt, Reading
  <2>6. GroundedOwner'
    BY <1>1, <2>2, ConstantFacts
    DEF RedoFile, Goto, Quietly, IInv, TypeOK, Grounded, GroundedOwner, Proposed, Committing
  <2> QED
    BY <2>2, <2>3, <2>4, <2>5, <2>6 DEF IInv, Grounded
<1>2. CASE RedoSelector(p) \/ RedoFloor(p) \/ RedoUnlink(p)
  <2>1. Active' = Active /\ Succession' /\ file' = file
    BY <1>2 DEF RedoSelector, RedoFloor, RedoUnlink, Active, IInv, Succession
  <2>2. /\ RedoSelector(p) => selector' \in Active
        /\ RedoFloor(p) => floor' \in Generations
    BY DEF RedoSelector, RedoFloor, Goto, IInv, Grounded, GroundedAt, Active
  <2>3. TypeOK'
    BY <1>2, <2>1, <2>2, ConstantFacts
    DEF RedoSelector, RedoFloor, RedoUnlink, Goto, Quietly, locals, IInv, TypeOK, Reading
  <2>4. (transition # 0 => file[transition] # "absent")'
    BY <1>2, <2>1 DEF RedoSelector, RedoFloor, RedoUnlink, IInv, Grounded
  <2>5. ASSUME NEW q \in Processes PROVE GroundedAt(q)'
    BY <1>2, <2>1
    DEF RedoSelector, RedoFloor, RedoUnlink, Goto, Quietly, locals, IInv, TypeOK,
        Grounded, GroundedAt, Reading
  <2>6. GroundedOwner'
    BY <1>2, <2>1, ConstantFacts
    DEF RedoSelector, RedoFloor, RedoUnlink, Goto, Quietly, IInv, TypeOK, Grounded,
        GroundedOwner, Proposed, Committing
  <2> QED
    BY <2>1, <2>3, <2>4, <2>5, <2>6 DEF IInv, Grounded
<1> QED
  BY <1>1, <1>2

\* What publish writes keeps it.
LEMMA PublishInv ==
  ASSUME IInv,
         Prepare \/ Journal \/ WriteFile \/ WriteSelector \/ WriteFloor \/ Unlink
  PROVE  IInv'
<1>0. /\ Owner \in Processes /\ predecessor \in Active /\ predecessor \in Nat
      /\ predecessor \in Generations
  BY ConstantFacts
  DEF Prepare, Journal, WriteFile, WriteSelector, WriteFloor, Unlink, Goto, IInv,
      Grounded, GroundedOwner, Committing, Active
<1>1. CASE Prepare
  <2>1. Proposed \in Generations
    BY <1>0, <1>1, MaxGenerationAssumption DEF Prepare, Proposed, Generations
  <2>2. Active' = Active
    BY <1>1, <2>1 DEF Prepare, Active, IInv, TypeOK
  <2>3. 1..(Proposed - 1) \subseteq Active
    <3> SUFFICES ASSUME NEW k \in 1..(Proposed - 1) PROVE k \in Active
      OBVIOUS
    <3>1. k = predecessor \/ k \in 1..(predecessor - 1)
      BY <1>0 DEF Proposed
    <3> QED
      BY <1>0, <3>1 DEF IInv, Succession, Active
  <2>4. Succession'
    BY <1>1, <2>1, <2>2, <2>3 DEF Prepare, IInv, TypeOK, Succession
  <2>5. /\ \A m \in Generations : file[m] # "absent" => file'[m] # "absent"
        /\ file' \in [Generations -> {"absent", "VERIFIED", "ACTIVE"}]
    BY <1>1, <2>1 DEF Prepare, IInv, TypeOK
  <2>6. TypeOK'
    BY <1>1, <2>2, <2>5, ConstantFacts DEF Prepare, Goto, Quietly, locals, IInv, TypeOK
  <2>7. (transition # 0 => file[transition] # "absent")'
    BY <1>1, <2>5, MaxGenerationAssumption DEF Prepare, IInv, TypeOK, Grounded, Generations
  <2>8. ASSUME NEW q \in Processes PROVE GroundedAt(q)'
    <3>1. seen[q] # 0 => file'[seen[q]] # "absent"
      BY <2>5, MaxGenerationAssumption
      DEF IInv, TypeOK, Grounded, GroundedAt, Generations
    <3> QED
      BY <1>1, <2>2, <3>1
      DEF Prepare, Goto, Quietly, locals, IInv, TypeOK, Grounded, GroundedAt, Reading
  <2>9. GroundedOwner'
    BY <1>0, <1>1, <2>2 DEF Prepare, Goto, Quietly, IInv, TypeOK, Grounded, GroundedOwner,
                            Committing
  <2> QED
    BY <2>4, <2>6, <2>7, <2>8, <2>9 DEF IInv, Grounded
<1>2. CASE WriteFile
  <2>1. Proposed \in Generations /\ file[Proposed] # "absent"
    BY <1>2 DEF WriteFile, Goto, IInv, Grounded, GroundedOwner
  <2>2. /\ Active' = Active \cup {Proposed} /\ Succession'
        /\ \A m \in Generations : file[m] # "absent" => file'[m] # "absent"
    BY <1>2, <2>1, ActivateFile DEF WriteFile
  <2>3. TypeOK'
    BY <1>2, <2>2, ConstantFacts
    DEF WriteFile, Goto, Quietly, locals, IInv, TypeOK, Committing
  <2>4. (transition # 0 => file[transition] # "absent")'
    BY <1>2, <2>2, MaxGenerationAssumption
    DEF WriteFile, IInv, TypeOK, Grounded, Generations
  <2>5. ASSUME NEW q \in Processes PROVE GroundedAt(q)'
    <3>1. seen[q] # 0 => file'[seen[q]] # "absent"
      BY <2>2, MaxGenerationAssumption
      DEF IInv, TypeOK, Grounded, GroundedAt, Generations
    <3> QED
      BY <1>2, <2>2, <3>1
      DEF WriteFile, Goto, Quietly, locals, IInv, TypeOK, Grounded, GroundedAt, Reading
  <2>6. GroundedOwner'
    BY <1>0, <1>2, <2>2
    DEF WriteFile, Goto, Quietly, IInv, TypeOK, Grounded, GroundedOwner, Proposed, Committing
  <2> QED
    BY <2>2, <2>3, <2>4, <2>5, <2>6 DEF IInv, Grounded
<1>3. CASE Journal \/ WriteSelector \/ WriteFloor \/ Unlink
  <2>1. Active' = Active /\ Succession' /\ file' = file
    BY <1>3 DEF Journal, WriteSelector, WriteFloor, Unlink, Active, IInv, Succession
  <2>2. /\ Journal => Proposed \in Generations
        /\ WriteSelector \/ WriteFloor => Proposed \in Active
    BY <1>0, MaxGenerationAssumption
    DEF Journal, WriteSelector, WriteFloor, Goto, IInv, Grounded, GroundedOwner, Proposed,
        Generations
  <2>3. TypeOK'
    <3>1. Proposed \in Active => Proposed \in Generations
      BY DEF Active
    <3>2. /\ transition' \in 0..MaxGeneration
          /\ selector' \in Active'
          /\ floor' \in Generations
      BY <1>3, <2>1, <2>2, <3>1, ConstantFacts
      DEF Journal, WriteSelector, WriteFloor, Unlink, IInv, TypeOK
    <3>3. \E to \in Committing \cup {"idle"} : pc' = [pc EXCEPT ![Owner] = to]
      BY <1>3 DEF Journal, WriteSelector, WriteFloor, Unlink, Goto, Committing
    <3>4. UNCHANGED <<locals, predecessor, known, answer, crashes>>
      BY <1>3 DEF Journal, WriteSelector, WriteFloor, Unlink, Quietly
    <3> QED
      BY <2>1, <3>2, <3>3, <3>4, ConstantFacts DEF locals, IInv, TypeOK, Reading, Committing
  <2>4. (transition # 0 => file[transition] # "absent")'
    BY <1>3, <2>1 DEF Journal, WriteSelector, WriteFloor, Unlink, IInv, Grounded
  <2>5. ASSUME NEW q \in Processes PROVE GroundedAt(q)'
    BY <1>3, <2>1
    DEF Journal, WriteSelector, WriteFloor, Unlink, Goto, Quietly, locals, IInv, TypeOK,
        Grounded, GroundedAt, Reading
  <2>6. GroundedOwner'
    BY <1>0, <1>3, <2>1, <2>2
    DEF Journal, WriteSelector, WriteFloor, Unlink, Goto, Quietly, IInv, TypeOK, Grounded,
        GroundedOwner, Proposed, Committing
  <2> QED
    BY <2>1, <2>3, <2>4, <2>5, <2>6 DEF IInv, Grounded
<1> QED
  BY <1>1, <1>2, <1>3

\* One case per action; the failures of a read are refusals.
LEMMA NextInv ==
  ASSUME IInv, [Next]_vars
  PROVE  IInv'
<1>1. ASSUME NEW p \in Processes, Read(p) PROVE IInv'
  <2>1. CASE FetchGone(p) \/ RedoUnlinkGone(p) \/ ScanFails(p)
    BY <2>1, RefuseInv DEF FetchGone, RedoUnlinkGone, ScanFails
  <2> QED
    BY <1>1, <2>1, BeginInv, LookInv, RedoInv, AnswerInv DEF Read, Recover
<1>2. ASSUME NEW p \in Processes, Crash(p) PROVE IInv'
  BY <1>2, CrashInv
<1>3. CASE Publish
  <2>1. CASE Decline
    BY <2>1, RefuseInv, ConstantFacts DEF Decline
  <2> QED
    BY <1>3, <2>1, AnswerInv, PublishInv DEF Publish
<1>4. CASE UNCHANGED vars
  BY <1>4 DEF vars, files, locals, IInv, TypeOK, Succession, Grounded, GroundedAt,
              GroundedOwner, Active, Proposed
<1> QED
  BY <1>1, <1>2, <1>3, <1>4 DEF Next

-----------------------------------------------------------------------------
\* The inductive invariant holds in every reachable state, whoever crashes in
\* the middle of a commit or of a recovery.
THEOREM AuthorityInvariance == Spec => []IInv
<1>1. Init => IInv
  BY InitInv
<1>2. IInv /\ [Next]_vars => IInv'
  BY NextInv
<1> QED
  BY <1>1, <1>2, PTL DEF Spec

\* active() never holds a generation whose file is not ACTIVE, and a journal
\* that is redone always names one.
THEOREM AuthorityTypes == Spec => []TypeOK
<1>1. IInv => TypeOK
  BY DEF IInv
<1> QED
  BY <1>1, AuthorityInvariance, PTL

\* Publishing and the redoing of stale journals leave no gap among the
\* generations: each was saved after the one before it became active.
THEOREM SuccessionHolds == Spec => []Succession
<1>1. IInv => Succession
  BY DEF IInv
<1> QED
  BY <1>1, AuthorityInvariance, PTL

-----------------------------------------------------------------------------

\* The register as the store implements it.
ReadingNow == {p \in Processes : pc[p] \in Reading}
registerVars == <<Active, ReadingNow, known, answer>>

\* The initial files are an initial register.
LEMMA RegisterInit == Init => Register!Init
  BY OwnerAssumption, MaxGenerationAssumption
  DEF Init, Register!Init, Active, Generations, Reading

\* A step of one process changes who is reading by that process alone.
LEMMA MoveReading ==
  ASSUME IInv, NEW p \in Processes, NEW to, pc' = [pc EXCEPT ![p] = to]
  PROVE  ReadingNow' = IF to \in Reading THEN ReadingNow \cup {p} ELSE ReadingNow \ {p}
<1>1. \A q \in Processes : pc'[q] = IF q = p THEN to ELSE pc[q]
  BY DEF IInv, TypeOK
<1> QED
  BY <1>1 DEF ReadingNow

\* A saved generation made active is newer than all active ones; an active
\* one made active again is no change.
LEMMA ActivateStep ==
  ASSUME IInv, NEW n \in Generations, file[n] # "absent",
         file' = [file EXCEPT ![n] = "ACTIVE"],
         UNCHANGED <<known, answer>>, ReadingNow' = ReadingNow
  PROVE  Register!Activate \/ UNCHANGED registerVars
<1>1. Active' = Active \cup {n} /\ (n \notin Active => \A m \in Active : m < n)
  BY ActivateFile
<1>2. CASE n \in Active
  BY <1>1, <1>2 DEF registerVars
<1>3. CASE n \notin Active
  BY <1>1, <1>3 DEF Register!Activate, ReadingNow
<1> QED
  BY <1>2, <1>3

\* Leaving a read without an answer refuses; leaving anything else is no step
\* of the register.
LEMMA LeaveStep ==
  ASSUME IInv, NEW p \in Processes, Forget(p), UNCHANGED <<files, answer>>,
         pc' = [pc EXCEPT ![p] = "idle"]
  PROVE  Register!Refuse(p) \/ UNCHANGED registerVars
<1>1. Active' = Active
  BY FilesKept
<1>2. ReadingNow' = ReadingNow \ {p}
  BY MoveReading DEF Reading
<1>3. known' = [known EXCEPT ![p] = {}]
  BY DEF Forget
<1>4. CASE p \in ReadingNow
  BY <1>1, <1>2, <1>3, <1>4 DEF Register!Refuse, Register!Leave, ReadingNow
<1>5. CASE p \notin ReadingNow
  <2>1. known[p] = {}
    BY <1>5 DEF ReadingNow, IInv, Grounded, GroundedAt
  <2>2. known' = known
    BY <1>3, <2>1 DEF IInv, TypeOK
  <2> QED
    BY <1>1, <1>2, <1>5, <2>2 DEF registerVars
<1> QED
  BY <1>4, <1>5

\* The answer is active and, as no generation is above the floor nor the floor
\* above the answer, as new as any the read began with.
LEMMA AnswerStep ==
  ASSUME IInv, NEW p \in Processes, Answers(p), pc[p] = "scan",
         NEW to, to \notin Reading, pc' = [pc EXCEPT ![p] = to]
  PROVE  Register!Answer(p)
<1>1. Active' = Active
  BY FilesKept DEF Answers
<1>2. ReadingNow' = ReadingNow \ {p} /\ p \in ReadingNow
  BY MoveReading DEF ReadingNow, Reading
<1>3. sel[p] \in Active
  BY DEF IInv, Grounded, GroundedAt
<1>4. \A m \in known[p] : m <= sel[p]
  <2> TAKE m \in known[p]
  <2>1. m \in Active /\ m \in Nat /\ low[p] \in Nat /\ sel[p] \in Nat
    BY ConstantFacts DEF IInv, TypeOK, Grounded, GroundedAt, Active
  <2>2. m <= low[p] /\ low[p] <= sel[p]
    BY <2>1 DEF Answers, FloorHolds
  <2> QED
    BY <2>1, <2>2
<1> QED
  BY <1>1, <1>2, <1>3, <1>4
  DEF Answers, Forget, Register!Answer, Register!Leave, ReadingNow

\* Every step of a read or of publish is a step of the register or none.
LEMMA RegisterStep ==
  ASSUME IInv, [Next]_vars
  PROVE  [Register!Next]_registerVars
<1>1. ASSUME NEW p \in Processes, Begin(p) PROVE Register!Begin(p)
  <2>1. Active' = Active
    BY <1>1, FilesKept DEF Begin
  <2>2. ReadingNow' = ReadingNow \cup {p} /\ p \notin ReadingNow
    BY <1>1, MoveReading DEF Begin, ReadingNow, Reading
  <2> QED
    BY <1>1, <2>1, <2>2 DEF Begin, Register!Begin, ReadingNow
<1>2. ASSUME NEW p \in Processes,
             Look(p) \/ Fetch(p) \/ RedoSelector(p) \/ RedoFloor(p) \/ RedoUnlink(p)
             \/ Select(p) \/ Load(p) \/ ReadFloor(p)
      PROVE  UNCHANGED registerVars
  <2>1. UNCHANGED <<file, known, answer>>
    BY <1>2
    DEF Look, Fetch, RedoSelector, RedoFloor, RedoUnlink, Select, Load, ReadFloor, Quietly,
        files
  <2>2. PICK to \in Reading : pc' = [pc EXCEPT ![p] = to] /\ pc[p] \in Reading
    <3>1. caller[p] \in {"select", "floor"}
      BY DEF IInv, TypeOK
    <3> QED
      BY <1>2, <3>1
      DEF Look, Fetch, RedoSelector, RedoFloor, RedoUnlink, Select, Load, ReadFloor, Goto,
          Reading
  <2>3. ReadingNow' = ReadingNow
    BY <2>2, MoveReading DEF ReadingNow
  <2> QED
    BY <2>1, <2>3 DEF registerVars, Active
<1>3. ASSUME NEW p \in Processes, RedoFile(p)
      PROVE  Register!Activate \/ UNCHANGED registerVars
  <2>1. seen[p] \in Generations /\ file[seen[p]] # "absent"
    BY <1>3, MaxGenerationAssumption
    DEF RedoFile, Goto, IInv, TypeOK, Grounded, GroundedAt, Generations
  <2>2. ReadingNow' = ReadingNow
    BY <1>3, MoveReading DEF RedoFile, Goto, Reading, ReadingNow
  <2> QED
    BY <1>3, <2>1, <2>2, ActivateStep DEF RedoFile, Quietly
<1>4. ASSUME NEW p \in Processes, Return(p) PROVE Register!Answer(p)
  BY <1>4, AnswerStep DEF Return, Goto, Reading
<1>5. ReadPredecessor \/ Validate => Register!Answer(Owner)
  BY AnswerStep, ConstantFacts DEF ReadPredecessor, Validate, Goto, Reading
<1>6. ASSUME NEW p \in Processes, Refuse(p) \/ Crash(p)
      PROVE  Register!Refuse(p) \/ UNCHANGED registerVars
  BY <1>6, LeaveStep DEF Refuse, Crash
<1>7. ASSUME Prepare \/ Journal \/ WriteFile \/ WriteSelector \/ WriteFloor \/ Unlink
      PROVE  Register!Activate \/ UNCHANGED registerVars
  <2>1. PICK to : to \notin Reading /\ pc' = [pc EXCEPT ![Owner] = to] /\ pc[Owner] \notin Reading
    BY <1>7
    DEF Prepare, Journal, WriteFile, WriteSelector, WriteFloor, Unlink, Goto, Reading
  <2>2. ReadingNow' = ReadingNow
    BY <2>1, MoveReading, ConstantFacts DEF ReadingNow
  <2>3. UNCHANGED <<known, answer>>
    BY <1>7 DEF Prepare, Journal, WriteFile, WriteSelector, WriteFloor, Unlink, Quietly
  <2>4. CASE WriteFile
    <3>1. Proposed \in Generations /\ file[Proposed] # "absent"
      BY <2>4 DEF WriteFile, Goto, IInv, Grounded, GroundedOwner
    <3> QED
      BY <2>2, <2>3, <2>4, <3>1, ActivateStep DEF WriteFile
  <2>5. CASE Prepare
    <3>1. Active' = Active
      BY <2>5 DEF Prepare, Active, IInv, TypeOK
    <3> QED
      BY <2>2, <2>3, <3>1 DEF registerVars
  <2>6. CASE Journal \/ WriteSelector \/ WriteFloor \/ Unlink
    <3>1. Active' = Active
      BY <2>6 DEF Journal, WriteSelector, WriteFloor, Unlink, Active
    <3> QED
      BY <2>2, <2>3, <3>1 DEF registerVars
  <2> QED
    BY <1>7, <2>4, <2>5, <2>6
<1>8. CASE UNCHANGED vars
  BY <1>8 DEF vars, files, registerVars, ReadingNow, Active
<1>9. ASSUME NEW p \in Processes, Read(p) \/ Crash(p)
      PROVE  Register!Next \/ UNCHANGED registerVars
  BY <1>9, <1>1, <1>2, <1>3, <1>4, <1>6
  DEF Read, Recover, FetchGone, RedoUnlinkGone, ScanFails, Register!Next
<1>10. Publish => Register!Next \/ UNCHANGED registerVars
  BY <1>5, <1>6, <1>7, ConstantFacts DEF Publish, Decline, Register!Next
<1> QED
  BY <1>8, <1>9, <1>10 DEF Next

\* active(), reading the files without a lock while others redo journals,
\* commit generations and crash, implements AuthorityRegister: what it returns
\* is active and never older than what was active when it was called.
THEOREM RegisterRefinement == Spec => RegisterSpec
<1>1. Init => Register!Init
  BY RegisterInit
<1>2. IInv /\ [Next]_vars => [Register!Next]_registerVars
  BY RegisterStep
<1>3. Spec => Register!Spec
  BY <1>1, <1>2, AuthorityInvariance, PTL DEF Spec, Register!Spec, registerVars, ReadingNow
<1> QED
  BY <1>3 DEF RegisterSpec
-----------------------------------------------------------------------------
\* With one activation to make, the files are before it, past it, or the
\* journal is there; whoever carries it out has written all that comes before.
Fresh == 2 \notin Active /\ selector = 1 /\ floor = 1
Done == 2 \in Active /\ selector = 2 /\ floor = 2
Underway == transition = 2 \/ Done

RedoneBy(p) ==
    /\ pc[p] \in {"redoFile", "redoSelector", "redoFloor", "redoUnlink"} =>
        seen[p] = 2 /\ Underway
    /\ pc[p] \in {"redoSelector", "redoFloor"} => 2 \in Active
    /\ pc[p] = "redoFloor" => selector = 2
    /\ pc[p] = "redoUnlink" => Done

CommittedByOwner ==
    /\ pc[Owner] \in {"writeFile", "writeSelector", "writeFloor", "unlink"} =>
        predecessor = 1 /\ Underway
    /\ pc[Owner] \in {"writeSelector", "writeFloor"} => 2 \in Active
    /\ pc[Owner] = "writeFloor" => selector = 2
    /\ pc[Owner] = "unlink" => Done

OneActivation ==
    /\ file[1] = "ACTIVE"
    /\ transition \in {0, 2}
    /\ transition = 2 \/ Fresh \/ Done
    /\ \A p \in Processes : RedoneBy(p)
    /\ CommittedByOwner

\* What a step that moves one process and writes no file has to show.
LEMMA QuietStep ==
  ASSUME MaxGeneration = 2, IInv, OneActivation, UNCHANGED files,
         NEW p \in Processes, NEW to, pc' = [pc EXCEPT ![p] = to],
         \A q \in Processes : q # p => seen'[q] = seen[q],
         to \in Committing \cup {"redoFile", "redoSelector", "redoFloor", "redoUnlink"} =>
            \/ to = "redoFile" /\ seen'[p] = 2 /\ Underway
            \/ to = "commit",
         pc[Owner] \in {"writeFile", "writeSelector", "writeFloor", "unlink"} =>
            predecessor' = predecessor \/ p = Owner
  PROVE  OneActivation'
<1>1. /\ Active' = Active /\ Fresh' = Fresh /\ Done' = Done /\ Underway' = Underway
      /\ selector' = selector /\ file' = file /\ transition' = transition
  BY FilesKept DEF Fresh, Done, Underway, files
<1>2. \A q \in Processes : pc'[q] = IF q = p THEN to ELSE pc[q]
  BY DEF IInv, TypeOK
<1>3. ASSUME NEW q \in Processes PROVE RedoneBy(q)'
  BY <1>1, <1>2 DEF OneActivation, RedoneBy
<1>4. CommittedByOwner'
  BY <1>1, <1>2, ConstantFacts DEF OneActivation, CommittedByOwner, Committing
<1> QED
  BY <1>1, <1>3, <1>4 DEF OneActivation

\* Nothing but generation 2 is ever written, each file after the one before it.
LEMMA WriteStep ==
  ASSUME MaxGeneration = 2, IInv, OneActivation, NEW p \in Processes,
         \/ RedoFile(p) \/ RedoSelector(p) \/ RedoFloor(p) \/ RedoUnlink(p)
         \/ (p = Owner /\ (WriteFile \/ WriteSelector \/ WriteFloor \/ Unlink))
  PROVE  OneActivation'
<1>1. /\ RedoFile(p) \/ RedoSelector(p) \/ RedoFloor(p) => seen[p] = 2
      /\ WriteFile \/ WriteSelector \/ WriteFloor => Proposed = 2
  BY ConstantFacts
  DEF OneActivation, RedoneBy, CommittedByOwner, RedoFile, RedoSelector, RedoFloor,
      WriteFile, WriteSelector, WriteFloor, Goto, Proposed
<1>2. /\ file' = file \/ file' = [file EXCEPT ![2] = "ACTIVE"]
      /\ selector' = selector \/ (2 \in Active /\ selector' = 2)
      /\ floor' = floor \/ (2 \in Active /\ selector = 2 /\ floor' = 2)
      /\ transition' = transition \/ (Done /\ transition' = 0)
      /\ predecessor' = predecessor
  BY <1>1, ConstantFacts
  DEF OneActivation, RedoneBy, CommittedByOwner, RedoFile, RedoSelector, RedoFloor, RedoUnlink,
      WriteFile, WriteSelector, WriteFloor, Unlink, Goto, Quietly
<1>3. /\ file'[1] = "ACTIVE" /\ (2 \in Active => 2 \in Active')
      /\ file' = [file EXCEPT ![2] = "ACTIVE"] => 2 \in Active'
      /\ file' = file => Active' = Active
  BY <1>2 DEF OneActivation, IInv, TypeOK, Active, Generations
<1>4. Underway
  BY ConstantFacts
  DEF OneActivation, RedoneBy, CommittedByOwner, RedoFile, RedoSelector, RedoFloor, RedoUnlink,
      WriteFile, WriteSelector, WriteFloor, Unlink, Goto
<1>5. /\ Done => Done'
      /\ Underway => Underway'
      /\ selector = 2 => selector' = 2
      /\ transition' \in {0, 2}
  BY <1>2, <1>3 DEF Done, Underway, OneActivation
<1>6. ASSUME NEW q \in Processes PROVE RedoneBy(q)'
  <2>1. CASE q = p /\ (RedoFile(p) \/ RedoSelector(p) \/ RedoFloor(p) \/ RedoUnlink(p))
    <3>1. CASE RedoFile(p)
      BY <1>1, <1>3, <1>4, <1>5, <2>1, <3>1
      DEF RedoneBy, RedoFile, Goto, locals, IInv, TypeOK
    <3>2. CASE RedoSelector(p)
      BY <1>1, <1>3, <1>4, <1>5, <2>1, <3>2
      DEF OneActivation, RedoneBy, RedoSelector, Goto, locals, IInv, TypeOK
    <3>3. CASE RedoFloor(p)
      BY <1>1, <1>3, <1>4, <1>5, <2>1, <3>3
      DEF OneActivation, RedoneBy, RedoFloor, Goto, locals, IInv, TypeOK, Done
    <3>4. CASE RedoUnlink(p)
      BY <2>1, <3>4 DEF RedoneBy, RedoUnlink, Goto, IInv, TypeOK
    <3> QED
      BY <2>1, <3>1, <3>2, <3>3, <3>4
  <2>2. CASE q = p /\ p = Owner /\ (WriteFile \/ WriteSelector \/ WriteFloor \/ Unlink)
    BY <2>2 DEF RedoneBy, WriteFile, WriteSelector, WriteFloor, Unlink, Goto, IInv, TypeOK
  <2>3. CASE q # p
    <3>1. pc'[q] = pc[q] /\ seen'[q] = seen[q]
      BY <2>3
      DEF RedoFile, RedoSelector, RedoFloor, RedoUnlink, WriteFile, WriteSelector, WriteFloor,
          Unlink, Goto, locals, IInv, TypeOK
    <3> QED
      BY <1>3, <1>5, <3>1 DEF OneActivation, RedoneBy
  <2> QED
    BY <2>1, <2>2, <2>3
<1>7. CommittedByOwner'
  <2>1. CASE p = Owner /\ (WriteFile \/ WriteSelector \/ WriteFloor \/ Unlink)
    <3>1. CASE WriteFile
      BY <1>1, <1>2, <1>3, <1>5, <3>1, ConstantFacts
      DEF OneActivation, CommittedByOwner, WriteFile, Goto, IInv, TypeOK
    <3>2. CASE WriteSelector
      BY <1>1, <1>2, <1>3, <1>5, <3>2, ConstantFacts
      DEF OneActivation, CommittedByOwner, WriteSelector, Goto, IInv, TypeOK
    <3>3. CASE WriteFloor
      BY <1>1, <1>2, <1>3, <1>5, <3>3, ConstantFacts
      DEF OneActivation, CommittedByOwner, WriteFloor, Goto, IInv, TypeOK, Done
    <3>4. CASE Unlink
      BY <3>4, ConstantFacts DEF CommittedByOwner, Unlink, Goto, IInv, TypeOK
    <3> QED
      BY <2>1, <3>1, <3>2, <3>3, <3>4
  <2>2. CASE RedoFile(p) \/ RedoSelector(p) \/ RedoFloor(p) \/ RedoUnlink(p)
    <3>1. pc'[Owner] = pc[Owner] \/ pc'[Owner] \in Reading
      BY <2>2, ConstantFacts
      DEF RedoFile, RedoSelector, RedoFloor, RedoUnlink, Goto, IInv, TypeOK, Reading
    <3> QED
      BY <1>2, <1>3, <1>5, <3>1 DEF OneActivation, CommittedByOwner, Reading
  <2> QED
    BY <2>1, <2>2
<1> QED
  BY <1>3, <1>4, <1>5, <1>6, <1>7 DEF OneActivation, Underway

\* One case per kind of step.
LEMMA OneActivationStep ==
  ASSUME MaxGeneration = 2, IInv, OneActivation, [Next]_vars
  PROVE  OneActivation'
<1>1. ASSUME NEW p \in Processes, Begin(p) PROVE OneActivation'
  <2>1. pc[Owner] \in {"writeFile", "writeSelector", "writeFloor", "unlink"} =>
            predecessor' = predecessor
    BY <1>1 DEF Begin
  <2> QED
    BY <1>1, <2>1, QuietStep DEF Begin, locals, Committing
<1>2. ASSUME NEW p \in Processes, Refuse(p) \/ Crash(p) PROVE OneActivation'
  BY <1>2, QuietStep DEF Refuse, Crash, Forget, IInv, TypeOK, Committing
<1>3. ASSUME NEW p \in Processes, Look(p) \/ Select(p) \/ Load(p) \/ ReadFloor(p)
      PROVE  OneActivation'
  <2>1. caller[p] \in {"select", "floor"}
    BY DEF IInv, TypeOK
  <2> QED
    BY <1>3, <2>1, QuietStep
    DEF Look, Select, Load, ReadFloor, Goto, Quietly, locals, Committing
<1>4. ASSUME NEW p \in Processes, Fetch(p) PROVE OneActivation'
  <2>1. transition = 2 /\ seen'[p] = 2
    BY <1>4 DEF Fetch, OneActivation, IInv, TypeOK
  <2>2. \A q \in Processes : q # p => seen'[q] = seen[q]
    BY <1>4 DEF Fetch, IInv, TypeOK
  <2> QED
    BY <1>4, <2>1, <2>2, QuietStep DEF Fetch, Goto, Quietly, Underway, Committing
<1>5. ASSUME NEW p \in Processes, Return(p) \/ (p = Owner /\ (ReadPredecessor \/ Validate))
      PROVE  OneActivation'
  <2>1. \E to \in {"idle", "decided", "commit"} : pc' = [pc EXCEPT ![p] = to]
    BY <1>5 DEF Return, ReadPredecessor, Validate, Goto
  <2>2. UNCHANGED files /\ (p = Owner \/ predecessor' = predecessor)
    BY <1>5 DEF Return, ReadPredecessor, Validate, Answers
  <2>3. \A q \in Processes : q # p => seen'[q] = seen[q]
    BY <1>5 DEF Return, ReadPredecessor, Validate, Answers, Forget, IInv, TypeOK
  <2> QED
    BY <2>1, <2>2, <2>3, QuietStep DEF Committing
<1>6. CASE Prepare
  <2>1. Proposed # 1 /\ predecessor \in Nat /\ predecessor # 0 /\ Proposed \in Generations
    BY <1>6, ConstantFacts
    DEF Prepare, Goto, Proposed, IInv, TypeOK, Grounded, GroundedOwner, Committing, Generations
  <2>2. Active' = Active /\ file'[1] = file[1]
    BY <1>6, <2>1, ConstantFacts DEF Prepare, Active, IInv, TypeOK
  <2>3. UNCHANGED <<selector, floor, transition, seen>>
    BY <1>6 DEF Prepare, locals
  <2>4. Fresh' = Fresh /\ Done' = Done /\ Underway' = Underway
    BY <2>2, <2>3 DEF Fresh, Done, Underway
  <2>5. \A q \in Processes : pc'[q] = IF q = Owner THEN "idle" ELSE pc[q]
    BY <1>6 DEF Prepare, Goto, IInv, TypeOK
  <2>6. ASSUME NEW q \in Processes PROVE RedoneBy(q)'
    BY <2>2, <2>3, <2>4, <2>5 DEF OneActivation, RedoneBy
  <2>7. CommittedByOwner'
    BY <2>5, ConstantFacts DEF CommittedByOwner
  <2> QED
    BY <2>2, <2>3, <2>4, <2>6, <2>7 DEF OneActivation
<1>7. CASE Journal
  <2>1. predecessor = 1 /\ Proposed = 2
    BY <1>7, ConstantFacts
    DEF Journal, Goto, Proposed, IInv, TypeOK, Grounded, GroundedOwner, Committing
  <2>2. Active' = Active /\ Done' = Done /\ Underway'
    BY <1>7, <2>1 DEF Journal, Active, Done, Underway
  <2>3. UNCHANGED <<file, selector, floor, predecessor, seen>> /\ transition' = 2
    BY <1>7, <2>1 DEF Journal, Quietly, locals
  <2>4. \A q \in Processes : pc'[q] = IF q = Owner THEN "writeFile" ELSE pc[q]
    BY <1>7 DEF Journal, Goto, IInv, TypeOK
  <2>5. ASSUME NEW q \in Processes PROVE RedoneBy(q)'
    BY <2>2, <2>3, <2>4 DEF OneActivation, RedoneBy
  <2>6. CommittedByOwner'
    BY <2>1, <2>2, <2>3, <2>4, ConstantFacts DEF CommittedByOwner
  <2> QED
    BY <2>3, <2>5, <2>6 DEF OneActivation
<1>8. CASE UNCHANGED vars
  BY <1>8
  DEF vars, files, locals, OneActivation, RedoneBy, CommittedByOwner, Fresh, Done, Underway,
      Active
<1>9. ASSUME NEW p \in Processes, Read(p) PROVE OneActivation'
  BY <1>1, <1>2, <1>3, <1>4, <1>5, <1>9, WriteStep
  DEF Read, Recover, FetchGone, RedoUnlinkGone, ScanFails
<1>10. CASE Publish
  <2>1. CASE Decline
    BY <1>2, <2>1, ConstantFacts DEF Decline
  <2>2. CASE ReadPredecessor \/ Validate
    BY <1>5, <2>2, ConstantFacts
  <2>3. CASE WriteFile \/ WriteSelector \/ WriteFloor \/ Unlink
    BY <2>3, WriteStep, ConstantFacts
  <2> QED
    BY <1>6, <1>7, <1>10, <2>1, <2>2, <2>3 DEF Publish
<1> QED
  BY <1>2, <1>8, <1>9, <1>10 DEF Next

\* With one activation to make, any number of readers and crashes leave the
\* files in agreement once nobody is at work and no journal waits: a journal is
\* removed only when all it names is written.  (With two activations they may not.)
THEOREM OneActivationSettles ==
  ASSUME MaxGeneration = 2
  PROVE  Spec => []Settled
<1>1. Init => OneActivation
  BY ConstantFacts, OwnerAssumption
  DEF Init, OneActivation, RedoneBy, CommittedByOwner, Fresh, Active, Generations, Processes
<1>2. IInv /\ OneActivation /\ [Next]_vars => OneActivation'
  BY OneActivationStep
<1>3. IInv /\ OneActivation => Settled
  BY DEF IInv, TypeOK, OneActivation, Fresh, Done, Settled, Quiet, Active, Generations
<1> QED
  BY <1>1, <1>2, <1>3, AuthorityInvariance, PTL DEF Spec

=============================================================================
