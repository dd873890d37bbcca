---------------------------- MODULE PlanExecution ----------------------------
(***************************************************************************)
(* The execution of a confirmed plan by the backend, in its Postgres       *)
(* deployment: ExecutionCoordinator (confirm_plan, reject_plan), the plan  *)
(* store it reads and writes (PostgresExecutionStore), the recovery tokens *)
(* that store issues, the fact tables the action handlers write            *)
(* (calendar_events, expense_records, reminders) and the direct UI actions *)
(* that write the same facts.                                              *)
(*                                                                         *)
(* FastAPI runs every handler in a thread of its own and nothing in the    *)
(* code locks a plan, so a request is a process here and each of its       *)
(* database statements that another request can tell apart is a step:      *)
(* get_plan is three SELECTs of a READ COMMITTED transaction, save_plan is *)
(* one transaction, every fact write and every ledger entry commits on its *)
(* own connection. Between two steps a request may be lost (the process    *)
(* stops, or a database call raises), and what it committed stays.         *)
(***************************************************************************)
EXTENDS Naturals, FiniteSets

CONSTANTS
    Plans,        \* ids of the plans SubmitTurn may store
    Actions,      \* ids of the domain actions of those plans
    Seeds,        \* actions of earlier plans, whose facts exist from the start
    Requests,     \* HTTP requests, each served once by a thread
    PlanOf,       \* the plan of an action
    Effect,       \* what the handler of an action does to its fact
    Target,       \* the fact named by target_id in the payload of an action
    ClosedAs,     \* the closed statuses the table of a fact knows
    Position,     \* place of an action in "order by created_at, id"
    Fallible,     \* actions whose handler may raise, before or after its fact commits
    Kinds,        \* the endpoints the clients of a run use
    MaxInFlight,  \* requests served at one time
    MayLose,      \* whether a request can be lost halfway
    None          \* no plan, no token

(* A fact is named by the action that created it (source_action_id).       *)
Facts == Actions \cup Seeds

(* A token is named by what it was issued for: the plan whose compilation  *)
(* made it, or the request that recovered it.                              *)
Tokens == Plans \cup Requests

Closed == {"canceled", "done", "submitted"}
FactStatus == {"absent", "open"} \cup Closed
Settled == {"succeeded", "failed", "rejected"}
PlanStatus == {"absent", "awaiting_confirmation"} \cup Settled
ActionStatus == PlanStatus
ConfirmationStatus == {"none", "pending", "confirmed", "rejected"}
Endpoints == {"confirm", "reject", "recover", "direct"}

ASSUME ConstantsAssumption ==
    /\ Actions \cap Seeds = {}
    /\ Plans \cap Requests = {}
    /\ None \notin Plans \cup Requests
    /\ IsFiniteSet(Requests)
    /\ PlanOf \in [Actions -> Plans]
    /\ Effect \in [Actions -> {"create", "update"} \cup Closed]
    /\ Target \in [Actions -> Facts]
    /\ ClosedAs \in [Facts -> SUBSET Closed]
    /\ Position \in [Actions -> Nat]
    /\ \A a, b \in Actions : Position[a] = Position[b] => a = b
    /\ Fallible \subseteq Actions
    /\ Kinds \subseteq Endpoints
    /\ MaxInFlight \in Nat
    /\ MayLose \in BOOLEAN

VARIABLES
    planStatus,    \* execution_plans.status
    actionStatus,  \* domain_actions.status
    confirmation,  \* confirmations.status, "none" when there is no row
    session,       \* confirmation_token_sessions: the plan a token is for
    live,          \* recovery tokens that have not expired
    ledger,        \* execution_ledger
    factIds,       \* rows inserted for a source action, named by the inserter
    factStatus,    \* status of the fact of a source action
    directPlans,   \* requests whose direct action was stored as a plan
    pc,            \* where the thread of a request stands
    kind,          \* the endpoint it serves
    plan,          \* the plan in its path
    token,         \* the token it was let in with
    seenPlan,      \* its local copy of the plan: the status,
    seenActions,   \* the statuses of the actions
    seenConfirm,   \* and that of the confirmation
    todo,          \* the selected actions it has not executed yet
    applied        \* history: requests that wrote the effect of an action

stored == <<planStatus, actionStatus, confirmation>>
tokens == <<session, live>>
facts  == <<factIds, factStatus, applied>>
input  == <<kind, plan>>
copy   == <<seenPlan, seenActions, seenConfirm, todo>>
vars   == <<stored, tokens, ledger, facts, directPlans, pc, input, token, copy>>

ActionsOf(p) == {a \in Actions : PlanOf[a] = p}

Answers == {"answered", "replayed", "refused", "lost"}
InFlight == {r \in Requests : pc[r] \notin Answers \cup {"idle"}}

All(status) == [a \in Actions |-> status]

Entry(event, subject, r) == [event |-> event, subject |-> subject, by |-> r]
Executed(a, r) == Entry("action_executed", a, r)

-----------------------------------------------------------------------------
Init ==
    /\ planStatus = [p \in Plans |-> "absent"]
    /\ actionStatus = [a \in Actions |-> "absent"]
    /\ confirmation = [p \in Plans |-> "none"]
    /\ session = [r \in Requests |-> None]
    /\ live = {}
    /\ ledger = {}
    /\ factIds = [f \in Facts |-> {}]
    /\ factStatus = [f \in Facts |-> IF f \in Seeds THEN "open" ELSE "absent"]
    /\ directPlans = {}
    /\ pc = [r \in Requests |-> "idle"]
    /\ kind = [r \in Requests |-> "none"]
    /\ plan = [r \in Requests |-> None]
    /\ token = [r \in Requests |-> None]
    /\ seenPlan = [r \in Requests |-> "absent"]
    /\ seenActions = [r \in Requests |-> All("absent")]
    /\ seenConfirm = [r \in Requests |-> "none"]
    /\ todo = [r \in Requests |-> {}]
    /\ applied = [a \in Actions |-> {}]

(* The thread of r goes on to l, or answers and forgets its local copy.    *)
Goto(r, l) == pc' = [pc EXCEPT ![r] = l]
Answer(r, a) ==
    /\ Goto(r, a)
    /\ seenPlan' = [seenPlan EXCEPT ![r] = "absent"]
    /\ seenActions' = [seenActions EXCEPT ![r] = All("absent")]
    /\ seenConfirm' = [seenConfirm EXCEPT ![r] = "none"]
    /\ todo' = [todo EXCEPT ![r] = {}]

SaveWithoutConfirmation(p, status, statuses, card) == \* faulty: no _save_confirmation
    /\ planStatus' = [planStatus EXCEPT ![p] = status]
    /\ actionStatus' = [a \in Actions |->
          IF a \in ActionsOf(p) THEN statuses[a] ELSE actionStatus[a]]
    /\ confirmation' = [confirmation EXCEPT ![p] = IF @ = "none" THEN card ELSE @]

(* save_plan: one transaction puts the given plan over whatever is stored  *)
(* by now. A plan without a confirmation leaves that row alone.            *)
SavePlan(p, status, statuses, card) ==
    /\ planStatus' = [planStatus EXCEPT ![p] = status]
    /\ actionStatus' = [a \in Actions |->
          IF a \in ActionsOf(p) THEN statuses[a] ELSE actionStatus[a]]
    /\ confirmation' = [confirmation EXCEPT ![p] = IF card = "none" THEN @ ELSE card]

(* SubmitTurn stores a compiled plan. ManagementTargetValidator has seen   *)
(* the targets open in the context it was given, which may be old by now:  *)
(* all that is left of the check is that they exist.                       *)
Propose(p) ==
    /\ planStatus[p] = "absent"
    /\ \A a \in ActionsOf(p) : Effect[a] # "create" => factStatus[Target[a]] # "absent"
    /\ SavePlan(p, "awaiting_confirmation", All("awaiting_confirmation"),
                IF ActionsOf(p) = {} THEN "none" ELSE "pending")
    /\ UNCHANGED <<tokens, ledger, facts, directPlans, pc, input, token, copy>>

(* A request arrives and a thread starts on it.                            *)
Start(r, k, p) ==
    /\ pc[r] = "idle"
    /\ Cardinality(InFlight) < MaxInFlight
    /\ kind' = [kind EXCEPT ![r] = k]
    /\ plan' = [plan EXCEPT ![r] = IF k = "direct" THEN None ELSE p]
    /\ Goto(r, IF k = "direct" THEN "mutate" ELSE IF k = "recover" THEN "list" ELSE "read_plan")
    /\ UNCHANGED <<stored, tokens, ledger, facts, directPlans, token, copy>>

-----------------------------------------------------------------------------
(* get_plan: the row of the plan, then its actions, then its confirmation. *)

RefuseUnknown(r) ==
    /\ pc[r] = "read_plan"
    /\ planStatus[plan[r]] = "absent"
    /\ Answer(r, "refused")
    /\ UNCHANGED <<stored, tokens, ledger, facts, directPlans, input, token>>

ReadPlan(r) ==
    /\ pc[r] = "read_plan"
    /\ planStatus[plan[r]] # "absent"
    /\ seenPlan' = [seenPlan EXCEPT ![r] = planStatus[plan[r]]]
    /\ Goto(r, "read_actions")
    /\ UNCHANGED <<stored, tokens, ledger, facts, directPlans, input, token>>
    /\ UNCHANGED <<seenActions, seenConfirm, todo>>

ReadActions(r) ==
    /\ pc[r] = "read_actions"
    /\ seenActions' = [seenActions EXCEPT ![r] = [a \in Actions |->
          IF a \in ActionsOf(plan[r]) THEN actionStatus[a] ELSE "absent"]]
    /\ Goto(r, "read_confirmation")
    /\ UNCHANGED <<stored, tokens, ledger, facts, directPlans, input, token>>
    /\ UNCHANGED <<seenPlan, seenConfirm, todo>>

ReadConfirmation(r) ==
    /\ pc[r] = "read_confirmation"
    /\ seenConfirm' = [seenConfirm EXCEPT ![r] = confirmation[plan[r]]]
    /\ Goto(r, kind[r])
    /\ UNCHANGED <<stored, tokens, ledger, facts, directPlans, input, token>>
    /\ UNCHANGED <<seenPlan, seenActions, todo>>

-----------------------------------------------------------------------------
(* list_pending_plans_for_conversation: the plans that await confirmation, *)
(* each read with get_plan and given a fresh token if it is still pending. *)

ListPending(r) ==
    /\ pc[r] = "list"
    /\ planStatus[plan[r]] = "awaiting_confirmation"
    /\ Goto(r, "read_plan")
    /\ UNCHANGED <<stored, tokens, ledger, facts, directPlans, input, token, copy>>

ListNothing(r) ==
    /\ pc[r] = "list"
    /\ planStatus[plan[r]] # "awaiting_confirmation"
    /\ Answer(r, "answered")
    /\ UNCHANGED <<stored, tokens, ledger, facts, directPlans, input, token>>

IssueRecoveryToken(r) ==
    /\ pc[r] = "recover"
    /\ \/ /\ seenConfirm[r] = "pending"
          /\ session' = [session EXCEPT ![r] = plan[r]]
          /\ live' = live \cup {r}
       \/ seenConfirm[r] # "pending" /\ UNCHANGED tokens
    /\ Answer(r, "answered")
    /\ UNCHANGED <<stored, ledger, facts, directPlans, input, token>>

(* now() passes expires_at of a recovery token.                            *)
Expire(t) ==
    /\ t \in live
    /\ live' = live \ {t}
    /\ UNCHANGED <<stored, session, ledger, facts, directPlans, pc, input, token, copy>>

TokenValidForAnyPlan(p, t) == \* faulty: the queries forget "plan_id = %s"
    \/ t \in Plans /\ confirmation[t] # "none"
    \/ t \in live

(* verify_confirm_token: the token of the confirmation row, which never    *)
(* expires, or an active session of the plan.                              *)
TokenValid(p, t) ==
    \/ t = p /\ confirmation[p] # "none"
    \/ t \in live /\ session[t] = p

-----------------------------------------------------------------------------
(* confirm_plan, after get_plan: t is the token in the body and whole says *)
(* whether action_ids is absent or names every required action.            *)

Replayable(r, t) ==
    seenPlan[r] = "succeeded" /\ TokenValid(plan[r], t)

Confirmable(r, t) ==
    /\ seenPlan[r] = "awaiting_confirmation"
    /\ seenConfirm[r] = "pending"
    /\ TokenValid(plan[r], t)
    /\ \A a \in ActionsOf(plan[r]) : seenActions[r][a] = "awaiting_confirmation"

AcceptConfirm(r) ==
    /\ pc[r] = "confirm"
    /\ \E t \in Tokens :
          /\ Confirmable(r, t)
          /\ token' = [token EXCEPT ![r] = t]
    /\ todo' = [todo EXCEPT ![r] = ActionsOf(plan[r])]
    /\ seenConfirm' = [seenConfirm EXCEPT ![r] = "confirmed"]
    /\ Goto(r, "execute")
    /\ UNCHANGED <<stored, tokens, ledger, facts, directPlans, input, seenPlan, seenActions>>

ReplayConfirm(r) ==
    /\ pc[r] = "confirm"
    /\ \E t \in Tokens : Replayable(r, t)
    /\ Answer(r, "replayed")
    /\ UNCHANGED <<stored, tokens, ledger, facts, directPlans, input, token>>

RefuseConfirm(r) ==
    /\ pc[r] = "confirm"
    /\ \E t \in Tokens, whole \in BOOLEAN :
          ~ (Replayable(r, t) \/ (whole /\ Confirmable(r, t)))
    /\ Answer(r, "refused")
    /\ UNCHANGED <<stored, tokens, ledger, facts, directPlans, input, token>>

(* _execute_action takes the selected actions in the order of the read.    *)
IsNext(r, a) ==
    /\ a \in todo[r]
    /\ \A b \in todo[r] : Position[a] <= Position[b]

CreateFactAgain(r, a) == \* faulty: no "on conflict (source_action_id)"
    /\ Effect[a] = "create"
    /\ factIds' = [factIds EXCEPT ![a] = @ \cup {r}]
    /\ factStatus' = [factStatus EXCEPT ![a] = "open"]

(* A handler that creates: an insert that an existing row of the same      *)
(* source action turns into a read.                                        *)
CreateFact(r, a) ==
    /\ Effect[a] = "create"
    /\ factIds' = [factIds EXCEPT ![a] = IF @ = {} THEN {r} ELSE @]
    /\ factStatus' = [factStatus EXCEPT ![a] = IF @ = "absent" THEN "open" ELSE @]

ChangeableWhenClosed(f, what) == \* faulty: no "status = 'scheduled'" in the update
    factStatus[f] # "absent" /\ what \in {"update"} \cup ClosedAs[f]

(* A handler that changes: an update of a row that must still be open.     *)
Changeable(f, what) == factStatus[f] = "open" /\ what \in {"update"} \cup ClosedAs[f]

ChangeFact(f, what) ==
    /\ Changeable(f, what)
    /\ factStatus' = [factStatus EXCEPT ![f] = IF what = "update" THEN @ ELSE what]
    /\ UNCHANGED factIds

Writes(r, a) == CreateFact(r, a) \/ (Effect[a] # "create" /\ ChangeFact(Target[a], Effect[a]))

ExecuteSucceeds(r, a) ==
    /\ pc[r] = "execute"
    /\ IsNext(r, a)
    /\ Writes(r, a)
    /\ applied' = [applied EXCEPT ![a] = @ \cup {r}]
    /\ seenActions' = [seenActions EXCEPT ![r][a] = "succeeded"]
    /\ Goto(r, "record")
    /\ UNCHANGED <<stored, tokens, ledger, directPlans, input, token>>
    /\ UNCHANGED <<seenPlan, seenConfirm, todo>>

(* ExecutionRunner catches whatever the handler raises: a refused update,  *)
(* or an error that comes before the fact is written, or at or after its   *)
(* commit, when the fact is there and the action counts as failed.         *)
ExecuteFails(r, a) ==
    /\ pc[r] = "execute"
    /\ IsNext(r, a)
    /\ \/ /\ \/ a \in Fallible
             \/ Effect[a] # "create" /\ ~ Changeable(Target[a], Effect[a])
          /\ UNCHANGED facts
       \/ /\ a \in Fallible
          /\ Writes(r, a)
          /\ applied' = [applied EXCEPT ![a] = @ \cup {r}]
    /\ seenActions' = [seenActions EXCEPT ![r][a] = "failed"]
    /\ Goto(r, "record")
    /\ UNCHANGED <<stored, tokens, ledger, directPlans, input, token>>
    /\ UNCHANGED <<seenPlan, seenConfirm, todo>>

(* append_ledger for the outcome of a, after which the loop goes on at l.  *)
Record(r, a, entries, l) ==
    /\ pc[r] = "record"
    /\ IsNext(r, a)
    /\ ledger' = ledger \cup entries
    /\ todo' = [todo EXCEPT ![r] = @ \ {a}]
    /\ Goto(r, l)
    /\ UNCHANGED <<stored, tokens, facts, directPlans, input, token>>
    /\ UNCHANGED <<seenPlan, seenActions, seenConfirm>>

Outcome(r, a) ==
    IF seenActions[r][a] = "failed" THEN Entry("action_failed", a, r) ELSE Executed(a, r)

After(r, a) == IF todo[r] = {a} THEN "save" ELSE "execute"

RecordFailureOnly(r, a) == \* faulty: a success leaves no ledger entry
    Record(r, a, {Outcome(r, a)} \ {Executed(a, r)}, After(r, a))

RecordExecutedAlways(r, a) == \* faulty: result.status is not looked at
    Record(r, a, {Executed(a, r)}, After(r, a))

RecordAndSaveEarly(r, a) == \* faulty: save_plan inside the loop, then return
    Record(r, a, {Outcome(r, a)}, "save")

RecordOutcome(r, a) == Record(r, a, {Outcome(r, a)}, After(r, a))

(* The confirmed plan is saved with the status its actions give it.        *)
SaveAs(r, status, statuses, card) ==
    /\ pc[r] = "save"
    /\ SavePlan(plan[r], status, statuses, card)
    /\ Answer(r, "answered")
    /\ UNCHANGED <<tokens, ledger, facts, directPlans, input, token>>

AnyFailed(r) == \E a \in ActionsOf(plan[r]) : seenActions[r][a] = "failed"

SaveBeforeOutcome(r) == \* faulty: the status is derived after save_plan
    SaveAs(r, "executing", seenActions[r], seenConfirm[r])

SaveFailedForRetry(r) == \* faulty: a failed plan is offered again
    SaveAs(r, IF AnyFailed(r) THEN "awaiting_confirmation" ELSE "succeeded",
           seenActions[r], seenConfirm[r])

SaveSucceededOnly(r) == \* faulty: a failed action raises before save_plan
    IF AnyFailed(r) THEN SaveAs(r, planStatus[plan[r]], actionStatus, "none")
                    ELSE SaveAs(r, "succeeded", seenActions[r], seenConfirm[r])

SaveExecuted(r) ==
    SaveAs(r, IF AnyFailed(r) THEN "failed" ELSE "succeeded",
           seenActions[r], seenConfirm[r])

-----------------------------------------------------------------------------
(* reject_plan, after get_plan. It asks for no token.                      *)

RejectAnyPlan(r) == \* faulty: the status of the plan is not looked at
    /\ pc[r] = "reject"
    /\ SavePlan(plan[r], "rejected", All("rejected"),
                IF seenConfirm[r] = "none" THEN "none" ELSE "rejected")
    /\ Goto(r, "record_rejection")
    /\ UNCHANGED <<tokens, ledger, facts, directPlans, input, token, copy>>

SaveRejected(r) ==
    /\ pc[r] = "reject"
    /\ seenPlan[r] = "awaiting_confirmation"
    /\ SavePlan(plan[r], "rejected", All("rejected"),
                IF seenConfirm[r] = "none" THEN "none" ELSE "rejected")
    /\ Goto(r, "record_rejection")
    /\ UNCHANGED <<tokens, ledger, facts, directPlans, input, token, copy>>

RefuseReject(r) ==
    /\ pc[r] = "reject"
    /\ seenPlan[r] # "awaiting_confirmation"
    /\ Answer(r, "refused")
    /\ UNCHANGED <<stored, tokens, ledger, facts, directPlans, input, token>>

RecordRejection(r) ==
    /\ pc[r] = "record_rejection"
    /\ ledger' = ledger \cup {Entry("plan_rejected", plan[r], r)}
    /\ Answer(r, "answered")
    /\ UNCHANGED <<stored, tokens, facts, directPlans, input, token>>

-----------------------------------------------------------------------------
(* A direct UI action: the service changes the fact, then the auditor      *)
(* stores a plan that has already succeeded and its ledger entry.          *)

DirectChange(r, f, what) ==
    /\ pc[r] = "mutate"
    /\ ChangeFact(f, what)
    /\ Goto(r, "save_direct")
    /\ UNCHANGED <<stored, tokens, ledger, applied, directPlans, input, token, copy>>

(* The fact is missing, belongs to another conversation, or is closed.     *)
RefuseDirect(r) ==
    /\ pc[r] = "mutate"
    /\ Answer(r, "refused")
    /\ UNCHANGED <<stored, tokens, ledger, facts, directPlans, input, token>>

SaveDirectPlan(r) ==
    /\ pc[r] = "save_direct"
    /\ directPlans' = directPlans \cup {r}
    /\ Goto(r, "record_direct")
    /\ UNCHANGED <<stored, tokens, ledger, facts, input, token, copy>>

RecordDirect(r) ==
    /\ pc[r] = "record_direct"
    /\ ledger' = ledger \cup {Entry("direct_action_executed", r, r)}
    /\ Answer(r, "answered")
    /\ UNCHANGED <<stored, tokens, facts, directPlans, input, token>>

-----------------------------------------------------------------------------
(* The process stops or a database call raises: nothing is undone.         *)
Lose(r) ==
    /\ MayLose
    /\ r \in InFlight
    /\ Answer(r, "lost")
    /\ UNCHANGED <<stored, tokens, ledger, facts, directPlans, input, token>>

Step(r) ==
    \/ RefuseUnknown(r) \/ ReadPlan(r) \/ ReadActions(r) \/ ReadConfirmation(r)
    \/ ListPending(r) \/ ListNothing(r) \/ IssueRecoveryToken(r)
    \/ AcceptConfirm(r) \/ ReplayConfirm(r) \/ RefuseConfirm(r)
    \/ \E a \in Actions : ExecuteSucceeds(r, a) \/ ExecuteFails(r, a) \/ RecordOutcome(r, a)
    \/ SaveExecuted(r)
    \/ SaveRejected(r) \/ RefuseReject(r) \/ RecordRejection(r)
    \/ \E f \in Facts, what \in {"update"} \cup Closed : DirectChange(r, f, what)
    \/ RefuseDirect(r) \/ SaveDirectPlan(r) \/ RecordDirect(r)

Next ==
    \/ \E p \in Plans : Propose(p)
    \/ \E r \in Requests, k \in Kinds, p \in Plans : Start(r, k, p)
    \/ \E t \in Requests : Expire(t)
    \/ \E r \in Requests : Step(r) \/ Lose(r)

Spec == Init /\ [][Next]_vars

(* A thread the server has started is run until it answers.                *)
FairSpec == Spec /\ \A r \in Requests : WF_vars(Step(r))

-----------------------------------------------------------------------------
(* Types. *)
Labels == {"idle", "list", "read_plan", "read_actions", "read_confirmation",
           "confirm", "reject", "recover", "execute", "record", "save",
           "record_rejection", "mutate", "save_direct", "record_direct"} \cup Answers

LedgerEntry ==
    [event: {"action_executed", "action_failed", "plan_rejected", "direct_action_executed"},
     subject: Actions \cup Plans \cup Requests, by: Requests]

(* The values the variables may take. *)
TypeOK ==
    /\ planStatus \in [Plans -> PlanStatus]
    /\ actionStatus \in [Actions -> ActionStatus]
    /\ confirmation \in [Plans -> ConfirmationStatus]
    /\ session \in [Requests -> Plans \cup {None}]
    /\ live \subseteq Requests
    /\ ledger \subseteq LedgerEntry
    /\ factIds \in [Facts -> SUBSET Requests]
    /\ factStatus \in [Facts -> FactStatus]
    /\ directPlans \subseteq Requests
    /\ pc \in [Requests -> Labels]
    /\ kind \in [Requests -> Endpoints \cup {"none"}]
    /\ plan \in [Requests -> Plans \cup {None}]
    /\ token \in [Requests -> Tokens \cup {None}]
    /\ seenPlan \in [Requests -> PlanStatus]
    /\ seenActions \in [Requests -> [Actions -> ActionStatus]]
    /\ seenConfirm \in [Requests -> ConfirmationStatus]
    /\ todo \in [Requests -> SUBSET Actions]
    /\ applied \in [Actions -> SUBSET Requests]

-----------------------------------------------------------------------------
(* Safety of any number of concurrent requests, any of them lost halfway.  *)

(* The three tables of a stored plan agree: save_plan overwrites them from *)
(* a local copy, which get_plan may have torn between two saves.           *)
PlanRowsAgree ==
    \A p \in Plans :
        LET statuses == {actionStatus[a] : a \in ActionsOf(p)}
            card(s) == confirmation[p] = IF ActionsOf(p) = {} THEN "none" ELSE s
        IN  /\ planStatus[p] = "absent" => statuses \subseteq {"absent"}
            /\ planStatus[p] = "awaiting_confirmation" =>
                  statuses \subseteq {"awaiting_confirmation"} /\ card("pending")
            /\ planStatus[p] = "succeeded" =>
                  statuses = {"succeeded"} /\ card("confirmed")
            /\ planStatus[p] = "failed" =>
                  "failed" \in statuses /\ statuses \subseteq {"succeeded", "failed"}
                  /\ card("confirmed")
            /\ planStatus[p] = "rejected" =>
                  statuses \subseteq {"rejected"} /\ card("rejected")

(* What has become of the fact of an action that was reported executed.    *)
TookEffect(a) ==
    /\ Effect[a] = "create" => factIds[a] # {} /\ factStatus[a] # "absent"
    /\ Effect[a] # "create" => factStatus[Target[a]] # "absent"
    /\ Effect[a] \in Closed => factStatus[Target[a]] = Effect[a]

(* A ledger entry "action_executed" is true of the facts, then and later.  *)
LedgerTellsFacts ==
    \A a \in Actions, r \in Requests : Executed(a, r) \in ledger => TookEffect(a)

(* A plan that reads "succeeded" was executed to the end by one request,   *)
(* with a ledger entry for each of its actions.                            *)
SucceededIsLedgered ==
    \A p \in Plans : planStatus[p] = "succeeded" =>
        \E r \in Requests : \A a \in ActionsOf(p) : Executed(a, r) \in ledger

(* However often an action is executed, by repeated confirmations or after *)
(* a lost one, it makes one row ("network retries or repeated confirms     *)
(* must not create twice").                                                *)
CreatedOnce == \A f \in Facts : Cardinality(factIds[f]) <= 1

(* A token was issued for plan p by its compilation or by a recovery.      *)
IssuedFor(t, p) == t = p \/ (t \in Requests /\ session[t] = p)

(* Facts are written for a plan only by a request let in with a token that *)
(* was issued for that very plan.                                          *)
WritesHaveConsent ==
    \A a \in Actions : \A r \in applied[a] : IssuedFor(token[r], PlanOf[a])

(* A fact written for a plan has the ledger entry of its action, "failed"  *)
(* at most where the handler raised after the commit, unless the request   *)
(* that wrote it was lost or is about to record it.                        *)
WritesAreAudited ==
    \A a \in Actions : \A r \in applied[a] :
        \/ Executed(a, r) \in ledger
        \/ a \in Fallible /\ Entry("action_failed", a, r) \in ledger
        \/ pc[r] = "lost"
        \/ /\ pc[r] = "record" /\ a \in todo[r]
           /\ seenActions[r][a] = "succeeded" \/ (a \in Fallible /\ seenActions[r][a] = "failed")

(* A settled plan is never again open to confirmation, whatever local copy *)
(* is saved over it.                                                       *)
SettledStays ==
    [][\A p \in Plans : planStatus[p] \in Settled => planStatus'[p] \in Settled]_vars

(* A closed fact keeps its status: chat and direct actions that race to    *)
(* close it cannot both do so.                                             *)
ClosedStays ==
    [][\A f \in Facts : factStatus[f] \in Closed => factStatus'[f] = factStatus[f]]_vars

(* A confirmation that was let in settles its plan, unless it is lost.     *)
ConfirmSettles ==
    \A r \in Requests, p \in Plans :
        (pc[r] = "execute" /\ plan[r] = p) ~> (pc[r] = "lost" \/ planStatus[p] \in Settled)

-----------------------------------------------------------------------------
(* What the repository says and concurrent requests can break.             *)

(* executor.py: only a plan awaiting confirmation can be rejected, so a    *)
(* rejected plan has written no fact.                                      *)
RejectedWroteNothing ==
    \A p \in Plans : planStatus[p] = "rejected" =>
        \A a \in ActionsOf(p) : applied[a] = {}

(* Repeated confirmation is idempotent: a plan that one request executed   *)
(* to the end does not turn into a failed one.                             *)
RepeatedConfirmKeepsSuccess ==
    [][\A p \in Plans : planStatus[p] = "succeeded" => planStatus'[p] # "failed"]_vars
=============================================================================
