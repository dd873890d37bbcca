----------------------- MODULE PlanExecutionRefinement -----------------------
(***************************************************************************)
(* How the states of PlanExecution are states of PlanLifecycle. The status *)
(* "executing" is never stored: it is the time a request spends between    *)
(* letting a confirmation in and saving the plan.                          *)
(***************************************************************************)
EXTENDS PlanExecution

Executing(p) ==
    \E r \in Requests : plan[r] = p /\ pc[r] \in {"execute", "record", "save"}

LifecycleStatus ==
    [p \in Plans |->
        IF planStatus[p] = "awaiting_confirmation" /\ Executing(p)
          THEN "executing" ELSE planStatus[p]]

LifecycleDone == {a \in Actions : applied[a] # {}}

Lifecycle == INSTANCE PlanLifecycle WITH
    status <- LifecycleStatus, done <- LifecycleDone, Interruptible <- MayLose

(* Requests that come one after the other, however many confirmations,     *)
(* rejections, recoveries and direct changes there are of the same plans,  *)
(* any of them lost halfway, keep the promise of PlanLifecycle.            *)
ImplementsLifecycle == Lifecycle!Spec
=============================================================================
