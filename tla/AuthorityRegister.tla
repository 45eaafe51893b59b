--------------------------- MODULE AuthorityRegister ---------------------------
(***************************************************************************)
(* What AuthorityGenerationStore promises the runtime: generations become  *)
(* active one after the other, and a read that succeeds returns one that   *)
(* is active and no older than any that was active when the read began.    *)
(* A read may always refuse; then the caller has no authority at all.      *)
(***************************************************************************)
EXTENDS Naturals

CONSTANTS Processes, Generations

VARIABLES
    active,    \* the generations activated so far
    reading,   \* who is reading
    known,     \* per process, what was active when its read began
    answer     \* per process, what its last read returned, or 0

Activate ==
    /\ \E n \in Generations :
        /\ \A m \in active : m < n
        /\ active' = active \cup {n}
    /\ UNCHANGED <<reading, known, answer>>

Begin(p) ==
    /\ p \notin reading
    /\ reading' = reading \cup {p}
    /\ known' = [known EXCEPT ![p] = active]
    /\ answer' = [answer EXCEPT ![p] = 0]
    /\ UNCHANGED active

Leave(p) ==
    /\ reading' = reading \ {p}
    /\ known' = [known EXCEPT ![p] = {}]

Answer(p) ==
    /\ p \in reading
    /\ \E n \in active :
        /\ \A m \in known[p] : m <= n
        /\ answer' = [answer EXCEPT ![p] = n]
    /\ Leave(p)
    /\ UNCHANGED active

Refuse(p) ==
    /\ p \in reading
    /\ Leave(p)
    /\ UNCHANGED <<active, answer>>

Init ==
    /\ active = {1}
    /\ reading = {}
    /\ known = [p \in Processes |-> {}]
    /\ answer = [p \in Processes |-> 0]

Next == Activate \/ \E p \in Processes : Begin(p) \/ Answer(p) \/ Refuse(p)

Spec == Init /\ [][Next]_<<active, reading, known, answer>>
=============================================================================
