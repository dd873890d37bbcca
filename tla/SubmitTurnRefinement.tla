------------------------ MODULE SubmitTurnRefinement ------------------------
(***************************************************************************)
(* How the stored questions of SubmitTurn are the questions of Dialogue:   *)
(* one that has expired by the latest clock is closed, though its row      *)
(* stays open.                                                             *)
(***************************************************************************)
EXTENDS SubmitTurn

OpenToAll(c) == \A t \in Turns : Open(c, now[t])

DialogueState ==
    [c \in Turns |-> IF status[c] = "none" THEN "unasked"
                     ELSE IF OpenToAll(c) THEN "open" ELSE "closed"]

DialoguePlans == [c \in Turns |-> Cardinality({t \in plans : answer[t] = c})]

Talk == INSTANCE Dialogue WITH
            Questions <- Turns, state <- DialogueState, plansOf <- DialoguePlans

(* Turns that come one after the other, of clients whose clocks agree,     *)
(* keep to one open question, which makes at most one plan. Any of them    *)
(* may be lost halfway.                                                    *)
ImplementsDialogue == Talk!Spec
=============================================================================
