----------------------------- MODULE SubmitTurn -----------------------------
(***************************************************************************)
(* A turn of the conversation: ExecutionPlanner.submit_turn, which answers *)
(* what the user wrote with a plan to confirm, a question or a message,    *)
(* and the use case around it, which records the turn. A question is kept  *)
(* as a pending clarification: the next turn may answer it, and is planned *)
(* from what it lacked, or may leave it behind.                            *)
(*                                                                         *)
(* The turns are those of one conversation (every query names it) and are  *)
(* served by threads of their own. Each repository call commits on its own *)
(* connection, so each is a step here; between two of them a turn may be   *)
(* lost. The clock of a turn is the one its client sends.                  *)
(***************************************************************************)
EXTENDS Naturals, FiniteSets

CONSTANTS
    Turns,        \* POST /agent/turns requests
    Times,        \* what the clocks of the clients may show
    Life,         \* how long a question is open: the 24 hours of expires_at
    Rank,         \* the order of the random ids, which breaks ties
    Skewed,       \* whether a clock may show less than an earlier turn's
    MaxInFlight,  \* turns served at one time
    MayLose,      \* whether a turn can be lost halfway
    None          \* no question

ASSUME ConstantsAssumption ==
    /\ Times \subseteq Nat
    /\ Life \in Nat \ {0}
    /\ Rank \in [Turns -> Nat]
    /\ \A t, u \in Turns : Rank[t] = Rank[u] => t = u
    /\ Skewed \in BOOLEAN
    /\ MaxInFlight \in Nat
    /\ MayLose \in BOOLEAN
    /\ None \notin Turns

VARIABLES
    status,   \* pending_clarifications.status of the question a turn asked
    plans,    \* turns whose plan is stored
    ledger,   \* execution_ledger entries of those plans
    history,  \* conversation_turns
    pc,       \* where the thread of a turn stands
    now,      \* the clock its client sent
    seen,     \* the open question it read first, to abandon it
    answer,   \* the question it answers
    outcome   \* what planning made of it

stored == <<status, plans, ledger, history>>
local  == <<now, seen, answer, outcome>>
vars   == <<stored, pc, local>>

Closed == {"resolved", "abandoned"}
QuestionStatus == {"none", "open"} \cup Closed
Roles == {"user", "assistant"}
Events == {"plan_created", "confirmation_created"}

(* What planning, policy and target validation come to, and the step that  *)
(* follows. "message" is a planned message; "refused" is the question of   *)
(* ManagementTargetValidator, which is not stored, or the message about a  *)
(* planned question or plan that came without its content.                 *)
StepOf == [message |-> "tell_user", refused |-> "tell_user",
           clarify |-> "ask", plan |-> "store_plan"]
Outcomes == DOMAIN StepOf

InFlight == {t \in Turns : pc[t] \notin {"idle", "answered", "lost"}}
Goto(t, l) == pc' = [pc EXCEPT ![t] = l]

Init ==
    /\ status = [t \in Turns |-> "none"]
    /\ plans = {}
    /\ ledger = {}
    /\ history = {}
    /\ pc = [t \in Turns |-> "idle"]
    /\ now = [t \in Turns |-> 0]
    /\ seen = [t \in Turns |-> None]
    /\ answer = [t \in Turns |-> None]
    /\ outcome = [t \in Turns |-> "none"]

Start(t, n) ==
    /\ pc[t] = "idle"
    /\ Cardinality(InFlight) < MaxInFlight
    /\ Skewed \/ \A u \in Turns : now[u] <= n
    /\ now' = [now EXCEPT ![t] = n]
    /\ Goto(t, "read_open")
    /\ UNCHANGED <<stored, seen, answer, outcome>>

-----------------------------------------------------------------------------
(* latest_open: the open question of the latest created_at that, by the    *)
(* clock of the turn that asks, has not expired. A question is created at  *)
(* the clock of the turn that asked it.                                    *)

EverOpen(c, n) == status[c] = "open" \* faulty: no "expires_at > %s"

Open(c, n) == status[c] = "open" /\ now[c] + Life > n

Older(c, d) == now[c] < now[d] \/ (now[c] = now[d] /\ Rank[c] <= Rank[d])

LatestOpen(n) == {d \in Turns : Open(d, n) /\ \A c \in Turns : Open(c, n) => Older(c, d)}

ReadOpen(t) ==
    /\ pc[t] = "read_open"
    /\ \/ \E c \in LatestOpen(now[t]) : seen' = [seen EXCEPT ![t] = c]
       \/ LatestOpen(now[t]) = {} /\ UNCHANGED seen
    /\ Goto(t, "match")
    /\ UNCHANGED <<stored, now, answer, outcome>>

(* _try_resolve_pending_clarification reads the open question again: the   *)
(* text is an answer to it, or is planned on its own.                      *)
MatchAnswer(t) ==
    /\ pc[t] = "match"
    /\ \E c \in LatestOpen(now[t]) : answer' = [answer EXCEPT ![t] = c]
    /\ Goto(t, "resolve")
    /\ UNCHANGED <<stored, now, seen, outcome>>

MatchNothing(t) ==
    /\ pc[t] = "match"
    /\ Goto(t, "plan")
    /\ UNCHANGED <<stored, local>>

SetStatus(c, s) == status' = [status EXCEPT ![c] = s]

ResolveLater(t) == \* faulty: the question is left open
    /\ pc[t] = "resolve"
    /\ Goto(t, "plan")
    /\ UNCHANGED <<stored, local>>

(* mark_resolved, whatever the status of the question is by now.           *)
Resolve(t) ==
    /\ pc[t] = "resolve"
    /\ SetStatus(answer[t], "resolved")
    /\ Goto(t, "plan")
    /\ UNCHANGED <<plans, ledger, history, local>>

-----------------------------------------------------------------------------
ReplacesByPlan(t, o) == \* faulty: a new question does not replace the open one
    seen[t] # None /\ answer[t] = None /\ o \in {"refused", "plan"}

(* The turn did not answer the question it found open, and was planned as  *)
(* more than a message: the question is left behind, also when the turn is *)
(* refused afterwards.                                                     *)
Replaces(t, o) == seen[t] # None /\ answer[t] = None /\ o # "message"

(* An answer makes a candidate, which policy or validation may still turn  *)
(* down; a text of its own may make anything.                              *)
Plan(t, o) ==
    /\ pc[t] = "plan"
    /\ answer[t] # None => o # "message"
    /\ outcome' = [outcome EXCEPT ![t] = o]
    /\ Goto(t, IF Replaces(t, o) THEN "abandon" ELSE StepOf[o])
    /\ UNCHANGED <<stored, now, seen, answer>>

AbandonAsResolved(t) == \* faulty: mark_resolved for mark_abandoned
    /\ pc[t] = "abandon"
    /\ SetStatus(seen[t], "resolved")
    /\ Goto(t, StepOf[outcome[t]])
    /\ UNCHANGED <<plans, ledger, history, local>>

(* mark_abandoned, whatever the status of the question is by now.          *)
Abandon(t) ==
    /\ pc[t] = "abandon"
    /\ SetStatus(seen[t], "abandoned")
    /\ Goto(t, StepOf[outcome[t]])
    /\ UNCHANGED <<plans, ledger, history, local>>

AskAgain(t) == \* faulty: the question answered is saved again under its id
    /\ pc[t] = "ask"
    /\ SetStatus(IF answer[t] = None THEN t ELSE answer[t], "open")
    /\ Goto(t, "tell_user")
    /\ UNCHANGED <<plans, ledger, history, local>>

AskPending(t) == \* faulty: the status a confirmation starts with
    /\ pc[t] = "ask"
    /\ SetStatus(t, "pending")
    /\ Goto(t, "tell_user")
    /\ UNCHANGED <<plans, ledger, history, local>>

(* _save_planning_clarification, under an id of its own.                   *)
Ask(t) ==
    /\ pc[t] = "ask"
    /\ SetStatus(t, "open")
    /\ Goto(t, "tell_user")
    /\ UNCHANGED <<plans, ledger, history, local>>

StorePlan(t) ==
    /\ pc[t] = "store_plan"
    /\ plans' = plans \cup {t}
    /\ Goto(t, "plan_created")
    /\ UNCHANGED <<status, ledger, history, local>>

RecordOnce(t, event) == \* faulty: one of the two ledger entries is left out
    /\ pc[t] = event
    /\ ledger' = ledger \cup {<<event, t>>}
    /\ Goto(t, "tell_user")
    /\ UNCHANGED <<status, plans, history, local>>

(* append_ledger for the plan, then for its confirmation.                  *)
Record(t, event) ==
    /\ pc[t] = event
    /\ ledger' = ledger \cup {<<event, t>>}
    /\ Goto(t, IF event = "plan_created" THEN "confirmation_created" ELSE "tell_user")
    /\ UNCHANGED <<status, plans, history, local>>

(* record_user_turn, then record_assistant_turn, after which the response  *)
(* is sent and the thread ends.                                            *)
Tell(t, role) ==
    /\ pc[t] = IF role = "user" THEN "tell_user" ELSE "tell_assistant"
    /\ history' = history \cup {<<role, t>>}
    /\ Goto(t, IF role = "user" THEN "tell_assistant" ELSE "answered")
    /\ UNCHANGED <<status, plans, ledger, local>>

(* The process stops or a call raises: nothing is undone.                  *)
Lose(t) ==
    /\ MayLose
    /\ t \in InFlight
    /\ Goto(t, "lost")
    /\ UNCHANGED <<stored, local>>

Step(t) ==
    \/ ReadOpen(t) \/ MatchAnswer(t) \/ MatchNothing(t) \/ Resolve(t)
    \/ \E o \in Outcomes : Plan(t, o)
    \/ Abandon(t) \/ Ask(t) \/ StorePlan(t)
    \/ \E e \in Events : Record(t, e)
    \/ \E role \in Roles : Tell(t, role)

Next == \E t \in Turns : (\E n \in Times : Start(t, n)) \/ Step(t) \/ Lose(t)

Spec == Init /\ [][Next]_vars

-----------------------------------------------------------------------------
Labels == {"idle", "read_open", "match", "resolve", "plan", "abandon", "ask", "store_plan",
           "plan_created", "confirmation_created", "tell_user", "tell_assistant",
           "answered", "lost"}

(* The values the variables may take. *)
TypeOK ==
    /\ status \in [Turns -> QuestionStatus]
    /\ plans \subseteq Turns
    /\ ledger \subseteq Events \X Turns
    /\ history \subseteq Roles \X Turns
    /\ pc \in [Turns -> Labels]
    /\ now \in [Turns -> Nat]
    /\ seen \in [Turns -> Turns \cup {None}]
    /\ answer \in [Turns -> Turns \cup {None}]
    /\ outcome \in [Turns -> Outcomes \cup {"none"}]

(* A question whose answer became a plan is closed: no later turn is       *)
(* taken for an answer to it. Planning saves, resolves and abandons with   *)
(* updates that do not look at what is stored.                             *)
AnsweredIsClosed ==
    \A t \in plans : answer[t] # None => status[answer[t]] \in Closed

(* A turn answers a question that was asked, by another turn, and that had *)
(* not expired by the clock of the turn that answers.                      *)
AnswersAreFresh ==
    \A t, c \in Turns : answer[t] = c =>
        c # t /\ status[c] # "none" /\ outcome[c] = "clarify" /\ now[t] < now[c] + Life

(* A resolved question has the plan its answer made, or the answer was     *)
(* turned down, is still being worked on, or was lost.                     *)
ResolvedIsAnswered ==
    \A c \in Turns : status[c] = "resolved" =>
        \E t \in Turns :
            /\ answer[t] = c
            /\ \/ t \in plans
               \/ outcome[t] \in {"refused", "clarify"}
               \/ pc[t] \in {"plan", "store_plan", "lost"}

(* The ledger knows how a stored plan came about, unless its turn was lost *)
(* on the way, and the history shows no plan that is not stored.           *)
PlansAreRecorded ==
    /\ \A t \in plans :
          \/ \A e \in Events : <<e, t>> \in ledger
          \/ pc[t] \in Events \cup {"lost"}
    /\ \A role \in Roles, t \in Turns :
          <<role, t>> \in history /\ outcome[t] = "plan" => t \in plans

(* A closed question is never open again.                                  *)
ClosedStays ==
    [][\A c \in Turns : status[c] \in Closed => status'[c] \in Closed]_vars
=============================================================================
