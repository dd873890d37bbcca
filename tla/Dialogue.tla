------------------------------ MODULE Dialogue ------------------------------
(***************************************************************************)
(* What the conversation is meant to be: one question at a time. It is     *)
(* asked when no other is open, closed when it is answered, left behind or *)
(* too old, and its answer makes at most one plan.                         *)
(***************************************************************************)
EXTENDS Naturals

CONSTANT Questions

VARIABLES
    state,   \* where a question stands
    plansOf  \* how many plans its answers made

vars == <<state, plansOf>>

Init ==
    /\ state = [q \in Questions |-> "unasked"]
    /\ plansOf = [q \in Questions |-> 0]

Ask(q) ==
    /\ state[q] = "unasked"
    /\ \A other \in Questions : state[other] # "open"
    /\ state' = [state EXCEPT ![q] = "open"]
    /\ UNCHANGED plansOf

Close(q) ==
    /\ state[q] = "open"
    /\ state' = [state EXCEPT ![q] = "closed"]
    /\ UNCHANGED plansOf

PlanFor(q) ==
    /\ state[q] = "closed"
    /\ plansOf[q] = 0
    /\ plansOf' = [plansOf EXCEPT ![q] = 1]
    /\ UNCHANGED state

Next == \E q \in Questions : Ask(q) \/ Close(q) \/ PlanFor(q)

Spec == Init /\ [][Next]_vars
=============================================================================
