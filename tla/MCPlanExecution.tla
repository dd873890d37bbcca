--------------------------- MODULE MCPlanExecution ---------------------------
(***************************************************************************)
(* A small instance of PlanExecution for TLC. Plan p1 creates a fact and   *)
(* then cancels the one an earlier plan left; plan p2 edits that same one. *)
(* The facts are reminders: their table knows "done" and "canceled".      *)
(***************************************************************************)
EXTENDS PlanExecutionRefinement, TLC

CONSTANTS p1, p2, make, cancel, edit, seed

MCPlanOf == make :> p1 @@ cancel :> p1 @@ edit :> p2
MCEffect == make :> "create" @@ cancel :> "canceled" @@ edit :> "update"
MCTarget == [a \in {make, cancel, edit} |-> seed]
MCClosedAs == [f \in {make, cancel, edit, seed} |-> {"canceled", "done"}]
MCPosition == make :> 1 @@ cancel :> 2 @@ edit :> 3

Symmetry == Permutations(Requests)
=============================================================================
