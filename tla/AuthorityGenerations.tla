------------------------- MODULE AuthorityGenerations -------------------------
(***************************************************************************)
(* AuthorityGenerationStore on disk: one file per generation, the selector *)
(* active.json, generation-floor.json and the journal                      *)
(* metadata-transition.json.  Only an owner process writes generations,    *)
(* under the project lock; but every reader first redoes a journal it      *)
(* finds, and holds no lock while it does.                                 *)
(*                                                                         *)
(* The project lock serialises owners from their first read to their last  *)
(* write, so one owner stands for all of them.  A file is written          *)
(* atomically (_atomic_write), and what a journal says is determined by    *)
(* its generation.  Signatures and hashes hold, and generation 1 is the    *)
(* one a legacy cutover installed.                                         *)
(***************************************************************************)
EXTENDS Naturals, FiniteSets

CONSTANTS
    Readers,
    Owner,
    MaxGeneration,   \* bound
    MaxCrashes       \* bound

ASSUME OwnerAssumption == Owner \notin Readers
ASSUME MaxGenerationAssumption == MaxGeneration \in Nat \ {0}
ASSUME MaxCrashesAssumption == MaxCrashes \in Nat

VARIABLES
    file,         \* status of each generation-<n>.json
    selector,     \* generation named by active.json
    floor,        \* number in generation-floor.json
    transition,   \* generation journalled in metadata-transition.json, or 0
    pc,
    caller,       \* "select" or "floor": where _recover_metadata returns to
    seen,         \* journal that _recover_metadata has read
    sel,          \* selector that active() has read
    low,          \* floor that _floor has read
    predecessor,  \* owner: what publish read first, or 0
    known,        \* history: generations active when the read began
    answer,       \* history: what the last read returned, or 0
    crashes

files == <<file, selector, floor, transition>>
locals == <<caller, seen, sel, low>>
vars == <<files, pc, locals, predecessor, known, answer, crashes>>

Processes == Readers \cup {Owner}
Generations == 1..MaxGeneration
Reading == {"look", "fetch", "redoFile", "redoSelector", "redoFloor", "redoUnlink",
            "select", "load", "floor", "scan"}
Committing == {"commit", "writeFile", "writeSelector", "writeFloor", "unlink"}

Active == {n \in Generations : file[n] = "ACTIVE"}

Init ==
    /\ file = [n \in Generations |-> IF n = 1 THEN "ACTIVE" ELSE "absent"]
    /\ selector = 1
    /\ floor = 1
    /\ transition = 0
    /\ pc = [p \in Processes |-> "idle"]
    /\ caller = [p \in Processes |-> "select"]
    /\ seen = [p \in Processes |-> 0]
    /\ sel = [p \in Processes |-> 0]
    /\ low = [p \in Processes |-> 0]
    /\ predecessor = 0
    /\ known = [p \in Processes |-> {}]
    /\ answer = [p \in Processes |-> 0]
    /\ crashes = 0

-----------------------------------------------------------------------------
Goto(p, from, to) ==
    /\ pc[p] = from
    /\ pc' = [pc EXCEPT ![p] = to]

Quietly == UNCHANGED <<predecessor, known, answer, crashes>>

\* Local variables end with the call.
Forget(p) ==
    /\ caller' = [caller EXCEPT ![p] = "select"]
    /\ seen' = [seen EXCEPT ![p] = 0]
    /\ sel' = [sel EXCEPT ![p] = 0]
    /\ low' = [low EXCEPT ![p] = 0]
    /\ known' = [known EXCEPT ![p] = {}]

\* An AuthorityGenerationError leaves active(), and publish with it.
Refuse(p) ==
    /\ pc' = [pc EXCEPT ![p] = "idle"]
    /\ Forget(p)
    /\ UNCHANGED <<files, predecessor, answer, crashes>>

\* active() is called.  An owner's first call is the start of publish, the
\* others are the validation that runs before anything is written.
Begin(p) ==
    /\ pc[p] = "idle" \/ pc[p] = "decided"
    /\ pc' = [pc EXCEPT ![p] = "look"]
    /\ known' = [known EXCEPT ![p] = Active]
    /\ answer' = [answer EXCEPT ![p] = 0]
    /\ predecessor' = IF p = Owner /\ pc[p] = "idle" THEN 0 ELSE predecessor
    /\ UNCHANGED <<files, locals, crashes>>

\* _recover_metadata: return at once if there is no journal.
Look(p) ==
    /\ Goto(p, "look", IF transition = 0 THEN caller[p] ELSE "fetch")
    /\ UNCHANGED <<files, locals>>
    /\ Quietly

\* MUTANT: the journal is taken to be there still.
FetchUnchecked(p) ==
    /\ Goto(p, "fetch", "redoFile")
    /\ seen' = [seen EXCEPT ![p] = transition]
    /\ UNCHANGED <<files, caller, sel, low>>
    /\ Quietly

\* The journal is read; another process may have removed it since.
Fetch(p) ==
    /\ transition # 0
    /\ Goto(p, "fetch", "redoFile")
    /\ seen' = [seen EXCEPT ![p] = transition]
    /\ UNCHANGED <<files, caller, sel, low>>
    /\ Quietly

FetchGone(p) ==
    /\ pc[p] = "fetch" /\ transition = 0
    /\ Refuse(p)

RedoFile(p) ==
    /\ Goto(p, "redoFile", "redoSelector")
    /\ file' = [file EXCEPT ![seen[p]] = "ACTIVE"]
    /\ UNCHANGED <<selector, floor, transition, locals>>
    /\ Quietly

RedoSelector(p) ==
    /\ Goto(p, "redoSelector", "redoFloor")
    /\ selector' = seen[p]
    /\ UNCHANGED <<file, floor, transition, locals>>
    /\ Quietly

RedoFloor(p) ==
    /\ Goto(p, "redoFloor", "redoUnlink")
    /\ floor' = seen[p]
    /\ UNCHANGED <<file, selector, transition, locals>>
    /\ Quietly

\* path.unlink() removes whichever journal is there now.
RedoUnlink(p) ==
    /\ transition # 0
    /\ Goto(p, "redoUnlink", caller[p])
    /\ transition' = 0
    /\ seen' = [seen EXCEPT ![p] = 0]
    /\ UNCHANGED <<file, selector, floor, caller, sel, low>>
    /\ Quietly

RedoUnlinkGone(p) ==
    /\ pc[p] = "redoUnlink" /\ transition = 0
    /\ Refuse(p)

Select(p) ==
    /\ Goto(p, "select", "load")
    /\ sel' = [sel EXCEPT ![p] = selector]
    /\ UNCHANGED <<files, caller, seen, low>>
    /\ Quietly

\* The selected file must be the ACTIVE form, which the selector's hash names;
\* it always is (TypeOK).  _floor then starts with _recover_metadata again.
Load(p) ==
    /\ sel[p] \in Active
    /\ Goto(p, "load", "look")
    /\ caller' = [caller EXCEPT ![p] = "floor"]
    /\ UNCHANGED <<files, seen, sel, low>>
    /\ Quietly

ReadFloor(p) ==
    /\ Goto(p, "floor", "scan")
    /\ low' = [low EXCEPT ![p] = floor]
    /\ UNCHANGED <<files, caller, seen, sel>>
    /\ Quietly

\* MUTANT: _floor trusts its file and does not scan the generations.
FloorUnscanned(p) == low[p] <= sel[p]

\* _floor's comparison with every generation file, then active()'s own.
FloorHolds(p) == /\ \A n \in Active : n <= low[p]
                 /\ low[p] <= sel[p]

\* A reader's active() returns the generation.
Answers(p) ==
    /\ FloorHolds(p)
    /\ answer' = [answer EXCEPT ![p] = sel[p]]
    /\ Forget(p)
    /\ UNCHANGED <<files, crashes>>

Return(p) ==
    /\ p # Owner
    /\ Goto(p, "scan", "idle")
    /\ Answers(p)
    /\ UNCHANGED predecessor

\* publish: the predecessor is read, and for validation read again, an
\* activation doing so several times.
ReadPredecessor ==
    /\ predecessor = 0
    /\ Goto(Owner, "scan", "decided")
    /\ Answers(Owner)
    /\ predecessor' = sel[Owner]

Validate ==
    /\ predecessor # 0
    /\ \E to \in IF sel[Owner] = predecessor THEN {"decided", "commit"} ELSE {"idle"} :
        Goto(Owner, "scan", to)
    /\ Answers(Owner)
    /\ UNCHANGED predecessor

ScanFails(p) ==
    /\ pc[p] = "scan" /\ ~FloorHolds(p)
    /\ Refuse(p)

-----------------------------------------------------------------------------
\* MUTANT: the next generation is the first that has no file yet.
NextUnprepared == 1 + Cardinality({n \in Generations : file[n] # "absent"})

\* publish proposes the generation after the one it read.
Proposed == predecessor + 1

\* publish("prepare"): the signed candidate is saved.
Prepare ==
    /\ Proposed <= MaxGeneration
    /\ file[Proposed] = "absent"
    /\ Goto(Owner, "commit", "idle")
    /\ file' = [file EXCEPT ![Proposed] = "VERIFIED"]
    /\ UNCHANGED <<selector, floor, transition, locals>>
    /\ Quietly

\* publish("activate"): _commit_metadata writes the journal first.
Journal ==
    /\ Proposed <= MaxGeneration
    /\ file[Proposed] = "VERIFIED"
    /\ Goto(Owner, "commit", "writeFile")
    /\ transition' = Proposed
    /\ UNCHANGED <<file, selector, floor, locals>>
    /\ Quietly

WriteFile ==
    /\ Goto(Owner, "writeFile", "writeSelector")
    /\ file' = [file EXCEPT ![Proposed] = "ACTIVE"]
    /\ UNCHANGED <<selector, floor, transition, locals>>
    /\ Quietly

WriteSelector ==
    /\ Goto(Owner, "writeSelector", "writeFloor")
    /\ selector' = Proposed
    /\ UNCHANGED <<file, floor, transition, locals>>
    /\ Quietly

WriteFloor ==
    /\ Goto(Owner, "writeFloor", "unlink")
    /\ floor' = Proposed
    /\ UNCHANGED <<file, selector, transition, locals>>
    /\ Quietly

Unlink ==
    /\ Goto(Owner, "unlink", "idle")
    /\ transition' = 0
    /\ UNCHANGED <<file, selector, floor, locals>>
    /\ Quietly

\* publish ends without writing: it only verifies, or it refuses the proposal,
\* which names an occupied generation or differs from what was prepared.
Decline ==
    /\ pc[Owner] \in {"decided", "commit"}
    /\ Refuse(Owner)

\* The process dies, or a write fails with an OSError, before its next step.
Crash(p) ==
    /\ crashes < MaxCrashes
    /\ pc[p] # "idle"
    /\ pc' = [pc EXCEPT ![p] = "idle"]
    /\ Forget(p)
    /\ crashes' = crashes + 1
    /\ UNCHANGED <<files, predecessor, answer>>

Recover(p) == Look(p) \/ Fetch(p) \/ FetchGone(p) \/ RedoFile(p) \/ RedoSelector(p)
              \/ RedoFloor(p) \/ RedoUnlink(p) \/ RedoUnlinkGone(p)
Read(p) == Begin(p) \/ Recover(p) \/ Select(p) \/ Load(p) \/ ReadFloor(p)
           \/ Return(p) \/ ScanFails(p)
Publish == ReadPredecessor \/ Validate \/ Prepare \/ Journal \/ WriteFile \/ WriteSelector
           \/ WriteFloor \/ Unlink \/ Decline

Next == (\E p \in Processes : Read(p) \/ Crash(p)) \/ Publish

Spec == Init /\ [][Next]_vars

\* Readers poll: the daemon resolves authority on every wake.  Nothing makes
\* an owner act.
FairSpec == Spec /\ \A p \in Readers : WF_vars(Read(p))
-----------------------------------------------------------------------------
\* Types, with what a process knows of the files it works on: a journal names
\* a generation that was saved, and active() holds a loaded ACTIVE one.
TypeOK ==
    /\ file \in [Generations -> {"absent", "VERIFIED", "ACTIVE"}]
    /\ selector \in Active
    /\ floor \in Generations
    /\ transition \in 0..MaxGeneration
    /\ pc \in [Processes -> {"idle", "decided"} \cup Reading \cup Committing]
    /\ \A p \in Readers : pc[p] \in {"idle"} \cup Reading
    /\ caller \in [Processes -> {"select", "floor"}]
    /\ seen \in [Processes -> 0..MaxGeneration]
    /\ sel \in [Processes -> 0..MaxGeneration]
    /\ low \in [Processes -> 0..MaxGeneration]
    /\ predecessor \in 0..MaxGeneration
    /\ known \in [Processes -> SUBSET Generations]
    /\ answer \in [Processes -> 0..MaxGeneration]
    /\ crashes \in 0..MaxCrashes
    /\ \A p \in Processes :
        /\ pc[p] \in {"redoFile", "redoSelector", "redoFloor"} => seen[p] # 0
        /\ pc[p] = "load" => sel[p] \in Active

\* A generation is saved only after every one before it is active: the chain
\* of predecessors that publish checks has no gap, whoever redoes what.
Succession ==
    \A n \in Generations : file[n] # "absent" => 1..(n - 1) \subseteq Active

\* Whatever stale journals are redone, active() never returns a generation
\* older than one that was active when it was called.
Register == INSTANCE AuthorityRegister WITH
    active <- Active,
    reading <- {p \in Processes : pc[p] \in Reading}
RegisterSpec == Register!Spec

\* When nobody is at work and no journal waits, active.json, the floor and
\* the files agree, so that active() succeeds.
Quiet == transition = 0 /\ \A p \in Processes : pc[p] = "idle"
Settled == Quiet => Active \subseteq 1..floor /\ floor <= selector /\ selector \in Active

\* A journalled activation survives any crash: it is carried out, by whoever
\* comes next.
ActivationRecovered ==
    \A n \in Generations : transition = n ~> (n \in Active /\ selector = n /\ floor = n)
=============================================================================
