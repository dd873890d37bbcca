---------------------------- MODULE MCSubmitTurn ----------------------------
(***************************************************************************)
(* Instances of SubmitTurn for TLC: the turns are numbers, so that a       *)
(* number is also the rank of the random id.                               *)
(***************************************************************************)
EXTENDS SubmitTurnRefinement

MCRank == [t \in Turns |-> t]
=============================================================================
