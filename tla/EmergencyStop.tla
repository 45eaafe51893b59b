----------------------------- MODULE EmergencyStop -----------------------------
(***************************************************************************)
(* What the owner's emergency stop promises: every change of the switch    *)
(* starts a new generation, and a decision is delivered at most once, at a *)
(* moment when the switch is clear and its generation is the current one.  *)
(***************************************************************************)
EXTENDS Naturals

CONSTANTS Decisions

VARIABLES
    generation,   \* 0 before the authority is bootstrapped
    stopped,
    bound,        \* per decision, the generation it was made under, or 0
    delivered     \* per decision, how often it has been delivered

vars == <<generation, stopped, bound, delivered>>

Init ==
    /\ generation = 0
    /\ stopped = FALSE
    /\ bound = [d \in Decisions |-> 0]
    /\ delivered = [d \in Decisions |-> 0]

Bootstrap ==
    /\ generation = 0
    /\ generation' \in Nat \ {0}
    /\ UNCHANGED <<stopped, bound, delivered>>

Switch ==
    /\ generation > 0
    /\ generation' = generation + 1
    /\ stopped' \in BOOLEAN
    /\ UNCHANGED <<bound, delivered>>

\* A decision may be out of date already when it is made.
Decide(d) ==
    /\ bound[d] = 0
    /\ \E g \in 1..generation : bound' = [bound EXCEPT ![d] = g]
    /\ UNCHANGED <<generation, stopped, delivered>>

Deliver(d) ==
    /\ ~stopped
    /\ bound[d] = generation
    /\ delivered[d] = 0
    /\ delivered' = [delivered EXCEPT ![d] = 1]
    /\ UNCHANGED <<generation, stopped, bound>>

Next == Bootstrap \/ Switch \/ \E d \in Decisions : Decide(d) \/ Deliver(d)

Spec == Init /\ [][Next]_vars
=============================================================================
