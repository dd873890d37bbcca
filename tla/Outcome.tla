------------------------------- MODULE Outcome -------------------------------
(***************************************************************************)
(* What the user is promised about a plan, whatever happens between the    *)
(* page and the backend: only a request that was let in while the plan was *)
(* open decides it, each at most once and the way it asked for, and the    *)
(* page only ever tells a decision that was really taken. Requests that    *)
(* were let in together may all decide; the last one is the outcome. What  *)
(* was told may be forgotten (a reload).                                   *)
(***************************************************************************)
CONSTANTS Plans, Requests

VARIABLES
    outcome,   \* what is saved of a plan
    admitted,  \* the requests let in that did not decide yet, and may never
    taken,     \* the decisions that were taken of a plan
    told       \* those the page tells

Decisions == {"executed", "rejected"}

Init ==
    /\ outcome = [p \in Plans |-> "open"]
    /\ admitted = [p \in Plans |-> {}]
    /\ taken = [p \in Plans |-> {}]
    /\ told = [p \in Plans |-> {}]

Admit(p, r, d) ==
    /\ outcome[p] = "open"
    /\ admitted' = [admitted EXCEPT ![p] = @ \cup {<<r, d>>}]
    /\ UNCHANGED <<outcome, taken, told>>

Decide(p, r, d) ==
    /\ <<r, d>> \in admitted[p]
    /\ outcome' = [outcome EXCEPT ![p] = d]
    /\ admitted' = [admitted EXCEPT ![p] = @ \ {<<r, d>>}]
    /\ taken' = [taken EXCEPT ![p] = @ \cup {d}]
    /\ UNCHANGED told

Tell(p, d) ==
    /\ d \in taken[p]
    /\ told' = [told EXCEPT ![p] = @ \cup {d}]
    /\ UNCHANGED <<outcome, admitted, taken>>

Forget ==
    /\ told' = [p \in Plans |-> {}]
    /\ UNCHANGED <<outcome, admitted, taken>>

Next ==
    \/ \E p \in Plans, d \in Decisions :
          \/ Tell(p, d)
          \/ \E r \in Requests : Admit(p, r, d) \/ Decide(p, r, d)
    \/ Forget

Spec == Init /\ [][Next]_<<outcome, admitted, taken, told>>
==============================================================================
