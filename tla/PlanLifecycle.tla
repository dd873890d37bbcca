---------------------------- MODULE PlanLifecycle ----------------------------
(***************************************************************************)
(* What the backend promises about a plan: the state machine its design    *)
(* is built around. A plan waits for the user, is rejected or executed,    *)
(* and each of its actions takes effect only while the plan is executing.  *)
(* A plan has succeeded only when all of them took effect; one that failed *)
(* keeps what did. An execution that is interrupted leaves the plan        *)
(* waiting for the user as before, with the effects it had by then.        *)
(***************************************************************************)
CONSTANTS
    Plans, Actions, PlanOf,
    Interruptible  \* whether an execution can be lost halfway

VARIABLES
    status,  \* where a plan stands
    done     \* the actions whose effect has been written

vars == <<status, done>>

Status == {"absent", "awaiting_confirmation", "executing", "succeeded", "failed", "rejected"}

ActionsOf(p) == {a \in Actions : PlanOf[a] = p}

Init ==
    /\ status = [p \in Plans |-> "absent"]
    /\ done = {}

Move(p, from, to) ==
    /\ status[p] = from
    /\ status' = [status EXCEPT ![p] = to]
    /\ UNCHANGED done

Propose(p) == Move(p, "absent", "awaiting_confirmation")
Reject(p)  == Move(p, "awaiting_confirmation", "rejected")
Begin(p)   == Move(p, "awaiting_confirmation", "executing")

Perform(a) ==
    /\ status[PlanOf[a]] = "executing"
    /\ a \notin done
    /\ done' = done \cup {a}
    /\ UNCHANGED status

Succeed(p) == Move(p, "executing", "succeeded") /\ ActionsOf(p) \subseteq done
Fail(p)    == Move(p, "executing", "failed")

Interrupt(p) == Interruptible /\ Move(p, "executing", "awaiting_confirmation")

(* One step of the execution of p. *)
Work(p) == (\E a \in ActionsOf(p) : Perform(a)) \/ Succeed(p) \/ Fail(p)

Next == \E p \in Plans : Propose(p) \/ Reject(p) \/ Begin(p) \/ Work(p) \/ Interrupt(p)

(* What never happens, whatever is carried to its end. *)
Safety == Init /\ [][Next]_vars

(* An execution that has begun is carried to its end, or interrupted. *)
Spec == Safety /\ \A p \in Plans : WF_vars(Work(p))
=============================================================================
