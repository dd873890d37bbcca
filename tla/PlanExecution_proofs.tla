----------------------- MODULE PlanExecution_proofs -----------------------
(***************************************************************************)
(* Proofs about PlanExecution, for every set of plans, actions and         *)
(* requests, any number of them in flight and any of them lost halfway.    *)
(***************************************************************************)
EXTENDS PlanExecutionRefinement, FiniteSetTheorems, TLAPS

(* A request that is past its arrival names a plan and serves an endpoint. *)
OnAPlan == {"list", "read_plan", "read_actions", "read_confirmation", "confirm",
            "reject", "recover", "execute", "record", "save", "record_rejection"}

RequestOK ==
    \A r \in Requests : pc[r] \in OnAPlan =>
        plan[r] \in Plans /\ kind[r] \in {"confirm", "reject", "recover"}

Typing == TypeOK /\ RequestOK

LEMMA InitTyping == Init => Typing
  BY ConstantsAssumption
     DEF Init, Typing, TypeOK, RequestOK, OnAPlan, All, PlanStatus, ActionStatus,
         ConfirmationStatus, FactStatus, Labels, Answers, Facts, Tokens

LEMMA BlankCopyTyping ==
    /\ All("absent") \in [Actions -> ActionStatus]
    /\ "absent" \in PlanStatus
    /\ "none" \in ConfirmationStatus
  BY DEF All, ActionStatus, PlanStatus, ConfirmationStatus

LEMMA WritesTyped ==
  ASSUME Typing, NEW r \in Requests, NEW a \in Actions, Writes(r, a)
  PROVE  factIds' \in [Facts -> SUBSET Requests] /\ factStatus' \in [Facts -> FactStatus]
<1> USE DEF Typing, TypeOK
<1>1. CASE CreateFact(r, a)
  BY <1>1 DEF CreateFact, FactStatus
<1>2. CASE ChangeFact(Target[a], Effect[a])
  <2>1. Target[a] \in Facts
    BY ConstantsAssumption
  <2>2. Effect[a] \in {"update"} \cup Closed
    BY <1>2, <2>1, ConstantsAssumption DEF ChangeFact, Changeable
  <2> QED
    BY <1>2, <2>1, <2>2 DEF ChangeFact, FactStatus
<1> QED
  BY <1>1, <1>2, Zenon DEF Writes

LEMMA NextTyping == Typing /\ [Next]_vars => Typing'
<1> SUFFICES ASSUME Typing, [Next]_vars PROVE Typing'
    OBVIOUS
<1> USE DEF Typing, TypeOK, RequestOK, OnAPlan, Labels, Answers, Goto, Answer, copy
<1>1. CASE UNCHANGED vars
  BY <1>1 DEF vars, stored, tokens, facts, input
<1>2. ASSUME NEW p \in Plans, Propose(p) PROVE Typing'
  BY <1>2 DEF Propose, SavePlan, All, tokens, facts, input, PlanStatus, ActionStatus, ConfirmationStatus
<1>3. ASSUME NEW r \in Requests, NEW k \in Kinds, NEW p \in Plans, Start(r, k, p) PROVE Typing'
  BY <1>3, ConstantsAssumption DEF Start, stored, tokens, facts, Endpoints
<1>4. ASSUME NEW t \in Requests, Expire(t) PROVE Typing'
  BY <1>4 DEF Expire, stored, facts, input
<1>5. ASSUME NEW r \in Requests, RefuseUnknown(r) PROVE Typing'
  BY <1>5, BlankCopyTyping DEF RefuseUnknown, stored, tokens, facts, input
<1>6. ASSUME NEW r \in Requests, ReadPlan(r) PROVE Typing'
  BY <1>6 DEF ReadPlan, stored, tokens, facts, input
<1>7. ASSUME NEW r \in Requests, ReadActions(r) PROVE Typing'
  BY <1>7 DEF ReadActions, stored, tokens, facts, input, ActionStatus, PlanStatus
<1>8. ASSUME NEW r \in Requests, ReadConfirmation(r) PROVE Typing'
  BY <1>8 DEF ReadConfirmation, stored, tokens, facts, input
<1>9. ASSUME NEW r \in Requests, ListNothing(r) PROVE Typing'
  BY <1>9, BlankCopyTyping DEF ListNothing, stored, tokens, facts, input
<1>10. ASSUME NEW r \in Requests, ListPending(r) PROVE Typing'
  BY <1>10 DEF ListPending, stored, tokens, facts, input
<1>11. ASSUME NEW r \in Requests, IssueRecoveryToken(r) PROVE Typing'
  BY <1>11, BlankCopyTyping DEF IssueRecoveryToken, stored, tokens, facts, input
<1>12. ASSUME NEW r \in Requests, AcceptConfirm(r) PROVE Typing'
  BY <1>12 DEF AcceptConfirm, stored, tokens, facts, input, ConfirmationStatus, ActionsOf
<1>13. ASSUME NEW r \in Requests, ReplayConfirm(r) \/ RefuseConfirm(r) \/ RefuseReject(r)
       PROVE  Typing'
  <2>1. CASE ReplayConfirm(r)
    BY <2>1, BlankCopyTyping DEF ReplayConfirm, stored, tokens, facts, input
  <2>2. CASE RefuseConfirm(r)
    BY <2>2, BlankCopyTyping DEF RefuseConfirm, stored, tokens, facts, input
  <2>3. CASE RefuseReject(r)
    BY <2>3, BlankCopyTyping DEF RefuseReject, stored, tokens, facts, input
  <2> QED
    BY <1>13, <2>1, <2>2, <2>3
<1>14. ASSUME NEW r \in Requests, NEW a \in Actions, ExecuteSucceeds(r, a) PROVE Typing'
  <2>1. factIds' \in [Facts -> SUBSET Requests] /\ factStatus' \in [Facts -> FactStatus]
    BY <1>14, WritesTyped DEF ExecuteSucceeds
  <2>2. applied' \in [Actions -> SUBSET Requests]
    BY <1>14 DEF ExecuteSucceeds
  <2>3. seenActions' \in [Requests -> [Actions -> ActionStatus]]
    BY <1>14 DEF ExecuteSucceeds, ActionStatus, PlanStatus, Settled
  <2> QED
    BY <1>14, <2>1, <2>2, <2>3 DEF ExecuteSucceeds, stored, tokens, input
<1>15. ASSUME NEW r \in Requests, NEW a \in Actions, ExecuteFails(r, a) PROVE Typing'
  <2>1. CASE UNCHANGED facts
    BY <1>15, <2>1 DEF ExecuteFails, stored, tokens, facts, input, ActionStatus, PlanStatus, Settled
  <2>2. CASE Writes(r, a) /\ applied' = [applied EXCEPT ![a] = @ \cup {r}]
    <3>1. factIds' \in [Facts -> SUBSET Requests] /\ factStatus' \in [Facts -> FactStatus]
      BY <2>2, WritesTyped
    <3>2. applied' \in [Actions -> SUBSET Requests]
      BY <2>2
    <3>3. seenActions' \in [Requests -> [Actions -> ActionStatus]]
      BY <1>15 DEF ExecuteFails, ActionStatus, PlanStatus, Settled
    <3> QED
      BY <1>15, <3>1, <3>2, <3>3 DEF ExecuteFails, stored, tokens, input
  <2> QED
    BY <1>15, <2>1, <2>2 DEF ExecuteFails
<1>16. ASSUME NEW r \in Requests, NEW a \in Actions, RecordOutcome(r, a) PROVE Typing'
  BY <1>16 DEF RecordOutcome, Record, Outcome, After, Entry, Executed, LedgerEntry,
               stored, tokens, facts, input
<1>17. ASSUME NEW r \in Requests, SaveExecuted(r) PROVE Typing'
  <2>1. planStatus' \in [Plans -> PlanStatus]
    BY <1>17 DEF SaveExecuted, SaveAs, SavePlan, PlanStatus, Settled
  <2>2. actionStatus' \in [Actions -> ActionStatus] /\ confirmation' \in [Plans -> ConfirmationStatus]
    BY <1>17 DEF SaveExecuted, SaveAs, SavePlan
  <2> QED
    BY <1>17, <2>1, <2>2, BlankCopyTyping DEF SaveExecuted, SaveAs, tokens, facts, input
<1>18. ASSUME NEW r \in Requests, SaveRejected(r) PROVE Typing'
  BY <1>18 DEF SaveRejected, SavePlan, All, tokens, facts, input,
               PlanStatus, ActionStatus, ConfirmationStatus, Settled
<1>19. ASSUME NEW r \in Requests, RecordRejection(r) PROVE Typing'
  BY <1>19, BlankCopyTyping DEF RecordRejection, Entry, LedgerEntry, stored, tokens, facts, input
<1>20. ASSUME NEW r \in Requests, NEW f \in Facts, NEW what \in {"update"} \cup Closed,
              DirectChange(r, f, what)
       PROVE  Typing'
  BY <1>20 DEF DirectChange, ChangeFact, Changeable, stored, tokens, input, FactStatus, Closed
<1>21. ASSUME NEW r \in Requests, RefuseDirect(r) PROVE Typing'
  BY <1>21, BlankCopyTyping DEF RefuseDirect, stored, tokens, facts, input
<1>22. ASSUME NEW r \in Requests, SaveDirectPlan(r) PROVE Typing'
  BY <1>22 DEF SaveDirectPlan, stored, tokens, facts, input
<1>23. ASSUME NEW r \in Requests, RecordDirect(r) PROVE Typing'
  BY <1>23, BlankCopyTyping DEF RecordDirect, Entry, LedgerEntry, stored, tokens, facts, input
<1>24. ASSUME NEW r \in Requests, Lose(r) PROVE Typing'
  BY <1>24, BlankCopyTyping DEF Lose, stored, tokens, facts, input
<1> QED
  BY <1>1, <1>2, <1>3, <1>4, <1>5, <1>6, <1>7, <1>8, <1>9, <1>10, <1>11, <1>12, <1>13, <1>14,
     <1>15, <1>16, <1>17, <1>18, <1>19, <1>20, <1>21, <1>22, <1>23, <1>24 DEF Next, Step

LEMMA AlwaysTyping == Spec => []Typing
  BY InitTyping, NextTyping, PTL DEF Spec

(* The variables keep their types in every reachable state.                *)
THEOREM TypeCorrect == Spec => []TypeOK
<1>1. Typing => TypeOK
  BY DEF Typing
<1> QED
  BY <1>1, AlwaysTyping, PTL
-----------------------------------------------------------------------------
(* What a step can change. *)

(* The handler of a writes its fact, and returns, or raises after that.    *)
Performs(r, a) ==
    /\ Writes(r, a)
    /\ applied' = [applied EXCEPT ![a] = @ \cup {r}]
    /\ ExecuteSucceeds(r, a) \/ (a \in Fallible /\ ExecuteFails(r, a))

LEMMA FactsFrame ==
  ASSUME [Next]_vars
  PROVE  \/ UNCHANGED facts
         \/ \E r \in Requests, a \in Actions : Performs(r, a)
         \/ \E r \in Requests, f \in Facts, what \in {"update"} \cup Closed : DirectChange(r, f, what)
<1>1. ASSUME NEW r \in Requests, NEW a \in Actions, ExecuteSucceeds(r, a) PROVE Performs(r, a)
  BY <1>1 DEF ExecuteSucceeds, Performs
<1>2. ASSUME NEW r \in Requests, NEW a \in Actions, ExecuteFails(r, a)
      PROVE  UNCHANGED facts \/ Performs(r, a)
  BY <1>2 DEF ExecuteFails, Performs
<1> QED
  BY <1>1, <1>2
     DEF Next, Step, vars, Propose, Start, Expire, RefuseUnknown, ReadPlan, ReadActions, ReadConfirmation,
         ListPending, ListNothing, IssueRecoveryToken, AcceptConfirm, ReplayConfirm, RefuseConfirm,
         RecordOutcome, Record, SaveExecuted, SaveAs, SaveRejected, RefuseReject,
         RecordRejection, RefuseDirect, SaveDirectPlan, RecordDirect, Lose

LEMMA StoredFrame ==
  ASSUME [Next]_vars
  PROVE  \/ UNCHANGED stored
         \/ \E p \in Plans : Propose(p)
         \/ \E r \in Requests : SaveExecuted(r) \/ SaveRejected(r)
  BY DEF Next, Step, vars, Start, Expire, RefuseUnknown, ReadPlan, ReadActions, ReadConfirmation,
         ListPending, ListNothing, IssueRecoveryToken, AcceptConfirm, ReplayConfirm, RefuseConfirm,
         ExecuteSucceeds, ExecuteFails, RecordOutcome, Record, RefuseReject, RecordRejection,
         DirectChange, RefuseDirect, SaveDirectPlan, RecordDirect, Lose

LEMMA LedgerGrows ==
  ASSUME [Next]_vars
  PROVE  ledger \subseteq ledger'
  BY DEF Next, Step, vars, Propose, Start, Expire, RefuseUnknown, ReadPlan, ReadActions, ReadConfirmation,
         ListPending, ListNothing, IssueRecoveryToken, AcceptConfirm, ReplayConfirm, RefuseConfirm,
         ExecuteSucceeds, ExecuteFails, RecordOutcome, Record, SaveExecuted, SaveAs, SaveRejected, RefuseReject,
         RecordRejection, DirectChange, RefuseDirect, SaveDirectPlan, RecordDirect, Lose

LEMMA SessionFrame ==
  ASSUME [Next]_vars
  PROVE  \/ UNCHANGED session
         \/ \E r \in Requests : IssueRecoveryToken(r)
  BY DEF Next, Step, vars, tokens, Propose, Start, Expire, RefuseUnknown, ReadPlan, ReadActions, ReadConfirmation,
         ListPending, ListNothing, AcceptConfirm, ReplayConfirm, RefuseConfirm,
         ExecuteSucceeds, ExecuteFails, RecordOutcome, Record, SaveExecuted, SaveAs, SaveRejected, RefuseReject,
         RecordRejection, DirectChange, RefuseDirect, SaveDirectPlan, RecordDirect, Lose

(* What belongs to the thread of a request.                                *)
Local(r) == <<pc[r], kind[r], plan[r], token[r], seenPlan[r], seenActions[r], seenConfirm[r], todo[r]>>

LEMMA OthersKeep ==
  ASSUME Typing, NEW q \in Requests, NEW r \in Requests, q # r, Step(q)
  PROVE  UNCHANGED Local(r)
<1> USE DEF Local, Typing, TypeOK, Goto, Answer, input, copy
<1>1. CASE RefuseUnknown(q) \/ ReadPlan(q) \/ ReadActions(q) \/ ReadConfirmation(q)
  BY <1>1 DEF RefuseUnknown, ReadPlan, ReadActions, ReadConfirmation
<1>2. CASE ListPending(q) \/ ListNothing(q) \/ IssueRecoveryToken(q)
  BY <1>2 DEF ListPending, ListNothing, IssueRecoveryToken
<1>3. CASE AcceptConfirm(q) \/ ReplayConfirm(q) \/ RefuseConfirm(q)
  BY <1>3 DEF AcceptConfirm, ReplayConfirm, RefuseConfirm
<1>4. ASSUME NEW a \in Actions, ExecuteSucceeds(q, a) \/ ExecuteFails(q, a) \/ RecordOutcome(q, a)
      PROVE  UNCHANGED Local(r)
  BY <1>4 DEF ExecuteSucceeds, ExecuteFails, RecordOutcome, Record
<1>5. CASE SaveExecuted(q) \/ SaveRejected(q) \/ RefuseReject(q) \/ RecordRejection(q)
  BY <1>5 DEF SaveExecuted, SaveAs, SaveRejected, RefuseReject, RecordRejection
<1>6. ASSUME NEW f \in Facts, NEW what \in {"update"} \cup Closed, DirectChange(q, f, what)
      PROVE  UNCHANGED Local(r)
  BY <1>6 DEF DirectChange
<1>7. CASE RefuseDirect(q) \/ SaveDirectPlan(q) \/ RecordDirect(q)
  BY <1>7 DEF RefuseDirect, SaveDirectPlan, RecordDirect
<1> QED
  BY <1>1, <1>2, <1>3, <1>4, <1>5, <1>6, <1>7, Zenon DEF Step

LEMMA OwnStep ==
  ASSUME Typing, [Next]_vars, NEW r \in Requests
  PROVE  \/ UNCHANGED Local(r)
         \/ Step(r) \/ Lose(r)
         \/ \E k \in Kinds, p \in Plans : Start(r, k, p)
<1> USE DEF Local, Typing, TypeOK, Goto, Answer, input, copy
<1>1. CASE UNCHANGED vars
  BY <1>1 DEF vars
<1>2. CASE \E p \in Plans : Propose(p)
  BY <1>2 DEF Propose
<1>3. CASE \E t \in Requests : Expire(t)
  BY <1>3 DEF Expire
<1>4. ASSUME NEW q \in Requests, NEW k \in Kinds, NEW p \in Plans, Start(q, k, p), q # r
      PROVE  UNCHANGED Local(r)
  BY <1>4 DEF Start
<1>5. ASSUME NEW q \in Requests, Lose(q), q # r
      PROVE  UNCHANGED Local(r)
  BY <1>5 DEF Lose
<1>6. ASSUME NEW q \in Requests, Step(q), q # r
      PROVE  UNCHANGED Local(r)
  BY <1>6, OthersKeep
<1> QED
  BY <1>1, <1>2, <1>3, <1>4, <1>5, <1>6, Zenon DEF Next

-----------------------------------------------------------------------------
(* Facts: rows are inserted once, stay, and are closed once.               *)

LEMMA FactsStep ==
  ASSUME [Next]_vars
  PROVE  \/ UNCHANGED <<factIds, factStatus>>
         \/ \E r \in Requests, a \in Actions : CreateFact(r, a)
         \/ \E f \in Facts, what \in {"update"} \cup Closed : ChangeFact(f, what)
<1>1. ASSUME NEW r \in Requests, NEW a \in Actions, Performs(r, a)
      PROVE  \/ CreateFact(r, a)
             \/ \E f \in Facts, what \in {"update"} \cup Closed : ChangeFact(f, what)
  BY <1>1, ConstantsAssumption DEF Performs, Writes
<1>2. ASSUME NEW r \in Requests, NEW f \in Facts, NEW what \in {"update"} \cup Closed,
             DirectChange(r, f, what)
      PROVE  ChangeFact(f, what)
  BY <1>2 DEF DirectChange
<1> QED
  BY <1>1, <1>2, FactsFrame DEF facts

LEMMA FactKept ==
  ASSUME Typing, [Next]_vars, NEW f \in Facts
  PROVE  /\ factStatus[f] \in Closed => factStatus'[f] = factStatus[f]
         /\ factStatus[f] # "absent" => factStatus'[f] # "absent"
         /\ factIds[f] # {} => factIds'[f] = factIds[f]
         /\ factIds'[f] = factIds[f] \/ \E r \in Requests : factIds'[f] = {r}
<1> USE DEF Typing, TypeOK
<1>1. CASE UNCHANGED <<factIds, factStatus>>
  BY <1>1
<1>2. ASSUME NEW r \in Requests, NEW a \in Actions, CreateFact(r, a)
      PROVE  /\ factStatus[f] # "absent" => factStatus'[f] = factStatus[f]
             /\ factIds'[f] = factIds[f] \/ (factIds[f] = {} /\ factIds'[f] = {r})
  BY <1>2 DEF CreateFact, Facts
<1>3. ASSUME NEW g \in Facts, NEW what \in {"update"} \cup Closed, ChangeFact(g, what)
      PROVE  /\ factStatus[f] # "open" => factStatus'[f] = factStatus[f]
             /\ factStatus[f] # "absent" => factStatus'[f] # "absent"
             /\ factIds'[f] = factIds[f]
  BY <1>3 DEF ChangeFact, Changeable, Closed
<1>4. "open" \notin Closed /\ "absent" \notin Closed
  BY DEF Closed
<1> QED
  BY <1>1, <1>2, <1>3, <1>4, FactsStep

LEMMA EffectStays ==
  ASSUME Typing, [Next]_vars, NEW a \in Actions, TookEffect(a)
  PROVE  TookEffect(a)'
<1>1. a \in Facts /\ Target[a] \in Facts
  BY ConstantsAssumption DEF Facts
<1>2. "create" \notin Closed
  BY DEF Closed
<1> QED
  BY <1>1, <1>2, FactKept DEF TookEffect

LEMMA EffectTaken ==
  ASSUME Typing, NEW r \in Requests, NEW a \in Actions, ExecuteSucceeds(r, a)
  PROVE  TookEffect(a)'
<1>1. CASE CreateFact(r, a)
  BY <1>1 DEF CreateFact, TookEffect, Typing, TypeOK, Facts, Closed
<1>2. CASE Effect[a] # "create" /\ ChangeFact(Target[a], Effect[a])
  <2>1. Target[a] \in Facts
    BY ConstantsAssumption
  <2>2. Effect[a] \in {"update"} \cup Closed
    BY <1>2, ConstantsAssumption
  <2>3. factStatus'[Target[a]] = IF Effect[a] = "update" THEN "open" ELSE Effect[a]
    BY <1>2, <2>1 DEF ChangeFact, Changeable, Typing, TypeOK
  <2> QED
    BY <1>2, <2>2, <2>3 DEF TookEffect, Closed
<1> QED
  BY <1>1, <1>2, Zenon DEF ExecuteSucceeds, Writes

(* A closed fact keeps the status it was closed with.                      *)
THEOREM ClosedFactsStay == Spec => ClosedStays
<1>1. Typing /\ [Next]_vars
        => [\A f \in Facts : factStatus[f] \in Closed => factStatus'[f] = factStatus[f]]_vars
  BY FactKept
<1> QED
  BY <1>1, AlwaysTyping, PTL DEF Spec, ClosedStays

SingleRow == \A f \in Facts : factIds[f] = {} \/ \E r \in Requests : factIds[f] = {r}

(* However often it is executed, an action inserts one row.                *)
THEOREM OneRowPerAction == Spec => []CreatedOnce
<1>1. Init => SingleRow
  BY DEF Init, SingleRow
<1>2. Typing /\ SingleRow /\ [Next]_vars => SingleRow'
  BY FactKept DEF SingleRow
<1>3. SingleRow => CreatedOnce
  BY FS_EmptySet, FS_Singleton DEF SingleRow, CreatedOnce
<1> QED
  BY <1>1, <1>2, <1>3, AlwaysTyping, PTL DEF Spec

-----------------------------------------------------------------------------
(* Plans: they stay stored, and settled.                                   *)

LEMMA PlanKept ==
  ASSUME Typing, [Next]_vars, NEW p \in Plans
  PROVE  /\ planStatus[p] # "absent" => planStatus'[p] # "absent"
         /\ planStatus[p] \in Settled => planStatus'[p] \in Settled
<1> USE DEF Typing, TypeOK, Settled
<1>1. CASE UNCHANGED stored
  BY <1>1 DEF stored
<1>2. CASE \E q \in Plans : Propose(q)
  BY <1>2 DEF Propose, SavePlan
<1>3. ASSUME NEW r \in Requests, SaveExecuted(r)
      PROVE  planStatus'[p] = planStatus[p] \/ planStatus'[p] \in {"failed", "succeeded"}
  BY <1>3 DEF SaveExecuted, SaveAs, SavePlan
<1>4. ASSUME NEW r \in Requests, SaveRejected(r)
      PROVE  planStatus'[p] = planStatus[p] \/ planStatus'[p] = "rejected"
  BY <1>4 DEF SaveRejected, SavePlan
<1> QED
  BY <1>1, <1>2, <1>3, <1>4, StoredFrame

(* A settled plan is never again open to confirmation.                     *)
THEOREM SettledPlansStay == Spec => SettledStays
<1>1. Typing /\ [Next]_vars
        => [\A p \in Plans : planStatus[p] \in Settled => planStatus'[p] \in Settled]_vars
  BY PlanKept
<1> QED
  BY <1>1, AlwaysTyping, PTL DEF Spec, SettledStays

-----------------------------------------------------------------------------
(* The inductive invariant of a request that has read a plan.              *)

Working == {"execute", "record", "save"}
HasRead == {"read_actions", "read_confirmation", "confirm", "reject", "recover",
            "record_rejection"} \cup Working

(* A stored plan has a confirmation row just when it has actions.          *)
CardOK ==
    \A p \in Plans : confirmation[p] = "none" <=> planStatus[p] = "absent" \/ ActionsOf(p) = {}

(* A request has read a stored plan, and whether it has a confirmation.    *)
SeenOK ==
    \A r \in Requests :
        /\ pc[r] \in HasRead => planStatus[plan[r]] # "absent"
        /\ pc[r] \in {"confirm", "reject", "recover"} =>
              (seenConfirm[r] = "none" <=> ActionsOf(plan[r]) = {})

(* A request issues its token in its last step.                            *)
SessionOK == \A t \in Requests : session[t] # None => pc[t] \in Answers

(* A request that executes a plan was let in with a token for it.          *)
LetIn(r) ==
    /\ IssuedFor(token[r], plan[r])
    /\ seenConfirm[r] = "confirmed"
    /\ ActionsOf(plan[r]) # {}
    /\ todo[r] \subseteq ActionsOf(plan[r])

(* What it has executed is known by outcome, and its successes are in the  *)
(* ledger; what is left awaits confirmation, but for the action at hand.   *)
Progress(r) ==
    /\ \A a \in ActionsOf(plan[r]) \ todo[r] :
          \/ seenActions[r][a] = "failed"
          \/ seenActions[r][a] = "succeeded" /\ Executed(a, r) \in ledger
    /\ \A a \in todo[r] :
          IF pc[r] = "record" /\ IsNext(r, a)
            THEN \/ seenActions[r][a] = "failed"
                 \/ seenActions[r][a] = "succeeded" /\ TookEffect(a)
            ELSE seenActions[r][a] = "awaiting_confirmation"
    /\ pc[r] = "save" => todo[r] = {}

WorkOK == \A r \in Requests : pc[r] \in Working => LetIn(r) /\ Progress(r)

(* Only a request let in has written anything for a plan.                  *)
AppliedOK ==
    \A a \in Actions : \A r \in applied[a] : pc[r] \in Working \cup Answers


IInv == Typing /\ CardOK /\ SeenOK /\ SessionOK /\ WorkOK /\ AppliedOK

(* How a request comes to have read a plan.                                *)
LEMMA ComesToRead ==
  ASSUME Typing, NEW r \in Requests, Step(r), pc'[r] \in HasRead
  PROVE  /\ UNCHANGED plan
         /\ ReadPlan(r) \/ pc[r] \in HasRead
         /\ pc'[r] \in {"confirm", "reject", "recover"} => ReadConfirmation(r)
  BY DEF Typing, TypeOK, Step, HasRead, Working, Goto, Answer, Answers, input, After, RefuseUnknown, ReadPlan, ReadActions, ReadConfirmation, ListPending, ListNothing,
         IssueRecoveryToken, AcceptConfirm, ReplayConfirm, RefuseConfirm,
         ExecuteSucceeds, ExecuteFails, RecordOutcome, Record, SaveExecuted, SaveAs, SaveRejected,
         RefuseReject, RecordRejection, DirectChange, RefuseDirect, SaveDirectPlan, RecordDirect

(* How a request comes to execute one.                                     *)
LEMMA ComesToWork ==
  ASSUME Typing, NEW r \in Requests, Step(r), pc'[r] \in Working
  PROVE  \/ AcceptConfirm(r)
         \/ \E a \in Actions : ExecuteSucceeds(r, a) \/ ExecuteFails(r, a) \/ RecordOutcome(r, a)
  BY DEF Typing, TypeOK, RequestOK, OnAPlan, Step, Working, Goto, Answer, RefuseUnknown, ReadPlan, ReadActions, ReadConfirmation, ListPending, ListNothing,
         IssueRecoveryToken, ReplayConfirm, RefuseConfirm,
         SaveExecuted, SaveAs, SaveRejected,
         RefuseReject, RecordRejection, DirectChange, RefuseDirect, SaveDirectPlan, RecordDirect

(* What a request that executes a plan, or has answered, can do next.      *)
LEMMA AtWork ==
  ASSUME Typing, NEW r \in Requests, Step(r), pc[r] \in Working
  PROVE  \/ \E a \in Actions : ExecuteSucceeds(r, a) \/ ExecuteFails(r, a) \/ RecordOutcome(r, a)
         \/ SaveExecuted(r)
  BY DEF Step, Working, RefuseUnknown, ReadPlan, ReadActions, ReadConfirmation, ListPending, ListNothing,
         IssueRecoveryToken, AcceptConfirm, ReplayConfirm, RefuseConfirm,
         SaveRejected,
         RefuseReject, RecordRejection, DirectChange, RefuseDirect, SaveDirectPlan, RecordDirect

LEMMA Answered ==
  ASSUME Typing, [Next]_vars, NEW r \in Requests, pc[r] \in Answers
  PROVE  UNCHANGED Local(r)
<1>1. ~ Step(r)
  BY DEF Step, Answers, RefuseUnknown, ReadPlan, ReadActions, ReadConfirmation, ListPending, ListNothing,
         IssueRecoveryToken, AcceptConfirm, ReplayConfirm, RefuseConfirm,
         ExecuteSucceeds, ExecuteFails, RecordOutcome, Record, SaveExecuted, SaveAs, SaveRejected,
         RefuseReject, RecordRejection, DirectChange, RefuseDirect, SaveDirectPlan, RecordDirect
<1>2. ~ Lose(r) /\ \A k \in Kinds, p \in Plans : ~ Start(r, k, p)
  BY DEF Lose, InFlight, Start, Answers
<1> QED
  BY <1>1, <1>2, OwnStep

LEMMA WorkGoesOn ==
  ASSUME Typing, [Next]_vars, NEW r \in Requests, pc[r] \in Working
  PROVE  pc'[r] \in Working \cup Answers
<1> USE DEF Typing, TypeOK, Working, Answers, Goto, Answer
<1>1. CASE UNCHANGED Local(r)
  BY <1>1 DEF Local
<1>2. CASE Lose(r)
  BY <1>2 DEF Lose
<1>3. ASSUME NEW k \in Kinds, NEW p \in Plans, Start(r, k, p) PROVE FALSE
  BY <1>3 DEF Start
<1>4. ASSUME NEW a \in Actions, ExecuteSucceeds(r, a) \/ ExecuteFails(r, a) \/ RecordOutcome(r, a)
      PROVE  pc'[r] \in Working
  BY <1>4 DEF ExecuteSucceeds, ExecuteFails, RecordOutcome, Record, After
<1>5. CASE SaveExecuted(r)
  BY <1>5 DEF SaveExecuted, SaveAs
<1> QED
  BY <1>1, <1>2, <1>3, <1>4, <1>5, OwnStep, AtWork

LEMMA NextIsUnique ==
  ASSUME Typing, NEW r \in Requests, NEW a \in Actions, NEW b \in Actions, IsNext(r, a), IsNext(r, b)
  PROVE  a = b
<1>1. Position[a] <= Position[b] /\ Position[b] <= Position[a]
  BY DEF IsNext
<1>2. Position[a] = Position[b]
  BY <1>1, ConstantsAssumption
<1> QED
  BY <1>2, ConstantsAssumption

LEMMA InitIInv == Init => IInv
<1> SUFFICES ASSUME Init PROVE IInv
    OBVIOUS
<1>1. CardOK /\ SeenOK /\ WorkOK
  BY DEF Init, CardOK, SeenOK, WorkOK, HasRead, Working
<1>2. SessionOK /\ AppliedOK
  BY DEF Init, SessionOK, AppliedOK
<1> QED
  BY <1>1, <1>2, InitTyping DEF IInv

LEMMA NextSession == Typing /\ SessionOK /\ [Next]_vars => SessionOK'
<1> SUFFICES ASSUME Typing, SessionOK, [Next]_vars, NEW t \in Requests, session'[t] # None
             PROVE  pc'[t] \in Answers
    BY DEF SessionOK
<1>1. CASE session'[t] = session[t]
  BY <1>1, Answered DEF SessionOK, Local
<1>2. ASSUME NEW r \in Requests, IssueRecoveryToken(r), session'[t] # session[t]
      PROVE  pc'[t] \in Answers
  BY <1>2 DEF IssueRecoveryToken, tokens, Answer, Goto, Answers, Typing, TypeOK
<1> QED
  BY <1>1, <1>2, SessionFrame

LEMMA IssuedStays ==
  ASSUME Typing, SessionOK, [Next]_vars, NEW p \in Plans, NEW t, IssuedFor(t, p)
  PROVE  IssuedFor(t, p)'
<1>1. SUFFICES ASSUME t \in Requests, session[t] = p PROVE session'[t] = p
  BY DEF IssuedFor
<1>2. pc[t] \in Answers
  BY <1>1, ConstantsAssumption DEF SessionOK
<1>3. ASSUME NEW r \in Requests, IssueRecoveryToken(r) PROVE session'[t] = session[t]
  BY <1>1, <1>2, <1>3 DEF IssueRecoveryToken, tokens, Answers, Typing, TypeOK
<1> QED
  BY <1>1, <1>3, SessionFrame

LEMMA NextCard == IInv /\ [Next]_vars => CardOK'
<1> SUFFICES ASSUME IInv, [Next]_vars PROVE CardOK'
    OBVIOUS
<1> USE DEF IInv, Typing, TypeOK
<1>1. CASE UNCHANGED stored
  BY <1>1 DEF stored, CardOK, ActionsOf
<1>2. ASSUME NEW p \in Plans, Propose(p) PROVE CardOK'
  BY <1>2 DEF Propose, SavePlan, CardOK, ActionsOf
<1>3. ASSUME NEW r \in Requests, SaveExecuted(r) PROVE CardOK'
  <2>1. seenConfirm[r] = "confirmed" /\ ActionsOf(plan[r]) # {} /\ plan[r] \in Plans
    BY <1>3 DEF SaveExecuted, SaveAs, WorkOK, Working, LetIn, RequestOK, OnAPlan
  <2> QED
    BY <1>3, <2>1 DEF SaveExecuted, SaveAs, SavePlan, CardOK, ActionsOf
<1>4. ASSUME NEW r \in Requests, SaveRejected(r) PROVE CardOK'
  <2>1. /\ seenConfirm[r] = "none" <=> ActionsOf(plan[r]) = {}
        /\ plan[r] \in Plans /\ planStatus[plan[r]] # "absent"
    BY <1>4 DEF SaveRejected, SeenOK, HasRead, Working, RequestOK, OnAPlan
  <2> QED
    BY <1>4, <2>1 DEF SaveRejected, SavePlan, CardOK, ActionsOf
<1> QED
  BY <1>1, <1>2, <1>3, <1>4, StoredFrame

LEMMA NextSeen == IInv /\ [Next]_vars => SeenOK'
<1> SUFFICES ASSUME IInv, [Next]_vars, NEW r \in Requests
             PROVE  /\ pc'[r] \in HasRead => planStatus'[plan'[r]] # "absent"
                    /\ pc'[r] \in {"confirm", "reject", "recover"} =>
                          (seenConfirm'[r] = "none" <=> ActionsOf(plan[r])' = {})
    BY DEF SeenOK
<1> USE DEF IInv, Typing, RequestOK, OnAPlan, HasRead, Working
<1>1. CASE UNCHANGED Local(r)
  BY <1>1, PlanKept DEF Local, SeenOK, ActionsOf
<1>2. CASE Step(r)
  <2>1. CASE ReadPlan(r)
    BY <2>1 DEF ReadPlan, Goto, stored, input, TypeOK
  <2>2. CASE ReadConfirmation(r)
    <3>1. plan[r] \in Plans /\ planStatus[plan[r]] # "absent"
      BY <2>2 DEF ReadConfirmation, SeenOK
    <3>2. seenConfirm'[r] = "none" <=> ActionsOf(plan[r]) = {}
      BY <2>2, <3>1 DEF ReadConfirmation, CardOK, TypeOK
    <3> QED
      BY <2>2, <3>1, <3>2, PlanKept DEF ReadConfirmation, input, ActionsOf
  <2>3. ASSUME ~ ReadPlan(r), pc'[r] \in HasRead PROVE planStatus'[plan'[r]] # "absent"
    BY <1>2, <2>3, ComesToRead, PlanKept DEF SeenOK
  <2>4. ASSUME pc'[r] \in {"confirm", "reject", "recover"} PROVE ReadConfirmation(r)
    BY <1>2, <2>4, ComesToRead
  <2> QED
    BY <2>1, <2>2, <2>3, <2>4
<1>3. CASE Lose(r)
  BY <1>3 DEF Lose, Answer, Goto, TypeOK
<1>4. ASSUME NEW k \in Kinds, NEW p \in Plans, Start(r, k, p)
      PROVE  pc'[r] \in {"mutate", "list", "read_plan"}
  BY <1>4 DEF Start, Goto, TypeOK
<1> QED
  BY <1>1, <1>2, <1>3, <1>4, OwnStep

LEMMA NextApplied == IInv /\ [Next]_vars => AppliedOK'
<1> SUFFICES ASSUME IInv, [Next]_vars, NEW a \in Actions, NEW r \in applied'[a]
             PROVE  pc'[r] \in Working \cup Answers
    BY DEF AppliedOK
<1> USE DEF IInv, Typing, TypeOK
<1>1. CASE r \in applied[a]
  <2>1. r \in Requests /\ pc[r] \in Working \cup Answers
    BY <1>1 DEF AppliedOK
  <2> QED
    BY <2>1, WorkGoesOn, Answered DEF Local
<1>2. CASE r \notin applied[a]
  <2>1. PICK q \in Requests, b \in Actions : Performs(q, b)
    BY <1>2, FactsFrame DEF facts, DirectChange
  <2>2. r = q
    BY <1>2, <2>1 DEF Performs
  <2> QED
    BY <2>1, <2>2 DEF Performs, ExecuteSucceeds, ExecuteFails, Goto, Working
<1> QED
  BY <1>1, <1>2

LEMMA NextWork == IInv /\ [Next]_vars => WorkOK'
<1> SUFFICES ASSUME IInv, [Next]_vars, NEW r \in Requests, pc'[r] \in Working
             PROVE  LetIn(r)' /\ Progress(r)'
    BY DEF WorkOK
<1> USE DEF IInv, Typing
<1>1. CASE UNCHANGED Local(r)
  <2>1. LetIn(r) /\ Progress(r) /\ plan[r] \in Plans
    BY <1>1 DEF Local, WorkOK, RequestOK, OnAPlan, Working
  <2>2. LetIn(r)'
    BY <1>1, <2>1, IssuedStays DEF Local, LetIn, ActionsOf, IssuedFor
  <2>3. \A a \in Actions : TookEffect(a) => TookEffect(a)'
    BY EffectStays
  <2> QED
    BY <1>1, <2>1, <2>2, <2>3, LedgerGrows DEF Local, Progress, LetIn, IsNext, ActionsOf, Executed, Entry
<1>2. CASE AcceptConfirm(r)
  <2>1. PICK t \in Tokens : Confirmable(r, t) /\ token' = [token EXCEPT ![r] = t]
    BY <1>2 DEF AcceptConfirm
  <2>2. plan[r] \in Plans /\ ActionsOf(plan[r]) # {}
    BY <1>2, <2>1 DEF AcceptConfirm, Confirmable, SeenOK, RequestOK, OnAPlan
  <2>3. IssuedFor(t, plan[r])
    BY <2>1 DEF Confirmable, TokenValid, IssuedFor, TypeOK
  <2>4. LetIn(r)'
    BY <1>2, <2>1, <2>2, <2>3 DEF AcceptConfirm, LetIn, IssuedFor, ActionsOf, tokens, input, TypeOK
  <2>5. Progress(r)'
    BY <1>2, <2>1, <2>2 DEF AcceptConfirm, Confirmable, Progress, ActionsOf, input, Goto, TypeOK
  <2> QED
    BY <2>4, <2>5
<1>3. ASSUME NEW a \in Actions, ExecuteSucceeds(r, a)
      PROVE  LetIn(r)' /\ Progress(r)'
  <2>1. LetIn(r) /\ Progress(r) /\ IsNext(r, a) /\ pc[r] = "execute"
    BY <1>3 DEF ExecuteSucceeds, WorkOK, Working
  <2>2. LetIn(r)'
    BY <1>3, <2>1 DEF ExecuteSucceeds, LetIn, IssuedFor, ActionsOf, tokens, input
  <2>3. TookEffect(a)'
    BY <1>3, EffectTaken
  <2>4. /\ pc'[r] = "record" /\ todo'[r] = todo[r] /\ plan'[r] = plan[r] /\ ledger' = ledger
        /\ seenActions'[r] = [seenActions[r] EXCEPT ![a] = "succeeded"]
        /\ seenActions[r] \in [Actions -> ActionStatus]
    BY <1>3 DEF ExecuteSucceeds, Goto, input, TypeOK
  <2>5. \A b \in todo[r] : IsNext(r, b) => b = a
    BY <2>1, NextIsUnique DEF TypeOK
  <2> QED
    BY <2>1, <2>2, <2>3, <2>4, <2>5 DEF Progress, LetIn, IsNext, ActionsOf, Executed, Entry
<1>4. ASSUME NEW a \in Actions, ExecuteFails(r, a)
      PROVE  LetIn(r)' /\ Progress(r)'
  <2>1. LetIn(r) /\ Progress(r) /\ IsNext(r, a) /\ pc[r] = "execute"
    BY <1>4 DEF ExecuteFails, WorkOK, Working
  <2>2. LetIn(r)'
    BY <1>4, <2>1 DEF ExecuteFails, LetIn, IssuedFor, ActionsOf, tokens, input
  <2>3. /\ pc'[r] = "record" /\ todo'[r] = todo[r] /\ plan'[r] = plan[r] /\ ledger' = ledger
        /\ seenActions'[r] = [seenActions[r] EXCEPT ![a] = "failed"]
        /\ seenActions[r] \in [Actions -> ActionStatus]
    BY <1>4 DEF ExecuteFails, Goto, input, TypeOK
  <2>4. \A b \in todo[r] : IsNext(r, b) => b = a
    BY <2>1, NextIsUnique DEF TypeOK
  <2> QED
    BY <2>1, <2>2, <2>3, <2>4 DEF Progress, LetIn, IsNext, ActionsOf, Executed, Entry
<1>5. ASSUME NEW a \in Actions, RecordOutcome(r, a)
      PROVE  LetIn(r)' /\ Progress(r)'
  <2>1. LetIn(r) /\ Progress(r) /\ IsNext(r, a) /\ pc[r] = "record"
    BY <1>5 DEF RecordOutcome, Record, WorkOK, Working
  <2>2. LetIn(r)'
    BY <1>5, <2>1 DEF RecordOutcome, Record, LetIn, IssuedFor, ActionsOf, tokens, input, TypeOK
  <2>3. /\ pc'[r] = After(r, a) /\ todo'[r] = todo[r] \ {a} /\ plan'[r] = plan[r]
        /\ ledger' = ledger \cup {Outcome(r, a)} /\ seenActions'[r] = seenActions[r]
    BY <1>5 DEF RecordOutcome, Record, Goto, input, TypeOK
  <2>4. \A b \in todo[r] \ {a} : seenActions[r][b] = "awaiting_confirmation"
    BY <2>1, NextIsUnique DEF TypeOK, Progress
  <2>5. seenActions[r][a] = "failed" \/ (seenActions[r][a] = "succeeded" /\ Executed(a, r) \in ledger')
    BY <2>1, <2>3 DEF Progress, IsNext, Outcome
  <2>6. After(r, a) # "record" /\ (After(r, a) = "save" => todo[r] \ {a} = {})
    BY DEF After
  <2> QED
    BY <2>1, <2>2, <2>3, <2>4, <2>5, <2>6 DEF Progress, ActionsOf, Executed, Entry
<1>6. CASE Step(r)
  BY <1>2, <1>3, <1>4, <1>5, <1>6, ComesToWork
<1>7. ~ Lose(r)
  BY DEF Lose, Answer, Goto, Working, TypeOK
<1>8. ASSUME NEW k \in Kinds, NEW p \in Plans, Start(r, k, p) PROVE FALSE
  BY <1>8 DEF Start, Goto, Working, TypeOK
<1> QED
  BY <1>1, <1>6, <1>7, <1>8, OwnStep

LEMMA AlwaysIInv == Spec => []IInv
<1>1. IInv /\ [Next]_vars => IInv'
  BY NextTyping, NextSession, NextCard, NextSeen, NextWork, NextApplied DEF IInv
<1> QED
  BY <1>1, InitIInv, PTL DEF Spec

-----------------------------------------------------------------------------
(* Safety. *)

LEMMA NewExecuted ==
  ASSUME Typing, [Next]_vars, NEW a \in Actions, NEW r \in Requests,
         Executed(a, r) \in ledger', Executed(a, r) \notin ledger
  PROVE  RecordOutcome(r, a) /\ seenActions[r][a] # "failed"
<1>1. PICK q \in Requests, b \in Actions : RecordOutcome(q, b)
  BY DEF Next, Step, vars, Propose, Start, Expire, RefuseUnknown, ReadPlan, ReadActions, ReadConfirmation,
         ListPending, ListNothing, IssueRecoveryToken, AcceptConfirm, ReplayConfirm, RefuseConfirm,
         ExecuteSucceeds, ExecuteFails, SaveExecuted, SaveAs, SaveRejected, RefuseReject,
         RecordRejection, DirectChange, RefuseDirect, SaveDirectPlan, RecordDirect, Lose, Executed, Entry
<1> QED
  BY <1>1 DEF RecordOutcome, Record, Outcome, Executed, Entry

(* A ledger entry "action_executed" is true of the facts, then and later.  *)
THEOREM LedgerIsTrue == Spec => []LedgerTellsFacts
<1>1. Init => LedgerTellsFacts
  BY DEF Init, LedgerTellsFacts
<1>2. IInv /\ LedgerTellsFacts /\ [Next]_vars => LedgerTellsFacts'
  <2> SUFFICES ASSUME IInv, LedgerTellsFacts, [Next]_vars, NEW a \in Actions, NEW r \in Requests,
                      Executed(a, r) \in ledger'
               PROVE  TookEffect(a)'
      BY DEF LedgerTellsFacts, Executed, Entry
  <2>1. TookEffect(a)
    <3>1. CASE Executed(a, r) \in ledger
      BY <3>1 DEF LedgerTellsFacts
    <3>2. CASE Executed(a, r) \notin ledger
      BY <3>2, NewExecuted DEF IInv, RecordOutcome, Record, WorkOK, Working, Progress, IsNext
    <3> QED
      BY <3>1, <3>2
  <2> QED
    BY <2>1, EffectStays DEF IInv
<1> QED
  BY <1>1, <1>2, AlwaysIInv, PTL DEF Spec

(* A plan that reads "succeeded" was executed to the end by one request.   *)
THEOREM SuccessIsLedgered == Spec => []SucceededIsLedgered
<1>1. Init => SucceededIsLedgered
  BY DEF Init, SucceededIsLedgered
<1>2. IInv /\ SucceededIsLedgered /\ [Next]_vars => SucceededIsLedgered'
  <2> SUFFICES ASSUME IInv, SucceededIsLedgered, [Next]_vars, NEW p \in Plans,
                      planStatus'[p] = "succeeded"
               PROVE  \E r \in Requests : \A a \in ActionsOf(p) : Executed(a, r) \in ledger'
      BY DEF SucceededIsLedgered, ActionsOf, Executed, Entry
  <2> USE DEF IInv, Typing, TypeOK
  <2>1. CASE planStatus[p] = "succeeded"
    BY <2>1, LedgerGrows DEF SucceededIsLedgered
  <2>2. ASSUME planStatus[p] # "succeeded", NEW r \in Requests, SaveExecuted(r)
        PROVE  \A a \in ActionsOf(p) : Executed(a, r) \in ledger'
    <3>1. plan[r] = p /\ ~ AnyFailed(r) /\ ledger' = ledger
      BY <2>2 DEF SaveExecuted, SaveAs, SavePlan
    <3>2. Progress(r) /\ todo[r] = {}
      BY <2>2 DEF SaveExecuted, SaveAs, WorkOK, Working, Progress
    <3> QED
      BY <3>1, <3>2 DEF AnyFailed, Progress
  <2>3. ASSUME planStatus[p] # "succeeded", NEW r \in Requests, SaveRejected(r)
        PROVE  FALSE
    BY <2>3 DEF SaveRejected, SavePlan
  <2>4. ASSUME planStatus[p] # "succeeded", NEW q \in Plans, Propose(q)
        PROVE  FALSE
    BY <2>4 DEF Propose, SavePlan
  <2> QED
    BY <2>1, <2>2, <2>3, <2>4, StoredFrame DEF stored
<1> QED
  BY <1>1, <1>2, AlwaysIInv, PTL DEF Spec

(* Facts are written for a plan only with a token issued for that plan.    *)
THEOREM ConsentToWrites == Spec => []WritesHaveConsent
<1>1. Init => WritesHaveConsent
  BY DEF Init, WritesHaveConsent
<1>2. IInv /\ WritesHaveConsent /\ [Next]_vars => WritesHaveConsent'
  <2> SUFFICES ASSUME IInv, WritesHaveConsent, [Next]_vars, NEW a \in Actions, NEW r \in applied'[a]
               PROVE  IssuedFor(token[r], PlanOf[a])'
      BY DEF WritesHaveConsent, IssuedFor
  <2> USE DEF IInv, Typing
  <2>1. PlanOf[a] \in Plans
    BY ConstantsAssumption
  <2>2. CASE r \in applied[a]
    <3>1. r \in Requests /\ pc[r] \in Working \cup Answers /\ IssuedFor(token[r], PlanOf[a])
      BY <2>2 DEF AppliedOK, WritesHaveConsent, TypeOK
    <3>2. token'[r] = token[r]
      <4>1. CASE pc[r] \in Answers
        BY <3>1, <4>1, Answered DEF Local
      <4>2. CASE UNCHANGED Local(r)
        BY <4>2 DEF Local
      <4>3. CASE pc[r] \in Working /\ Step(r)
        BY <3>1, <4>3, AtWork DEF ExecuteSucceeds, ExecuteFails, RecordOutcome, Record, SaveExecuted, SaveAs
      <4>4. CASE Lose(r) \/ \E k \in Kinds, p \in Plans : Start(r, k, p)
        BY <4>4 DEF Lose, Start
      <4> QED
        BY <3>1, <4>1, <4>2, <4>3, <4>4, OwnStep
    <3> QED
      BY <2>1, <3>1, <3>2, IssuedStays DEF IssuedFor
  <2>3. CASE r \notin applied[a]
    <3>1. Performs(r, a) /\ r \in Requests
      BY <2>3, FactsFrame DEF facts, DirectChange, Performs, TypeOK
    <3>2. /\ pc[r] = "execute" /\ IsNext(r, a)
          /\ UNCHANGED <<token, session>>
      BY <3>1 DEF Performs, ExecuteSucceeds, ExecuteFails, tokens
    <3>3. LetIn(r) /\ a \in todo[r]
      BY <3>1, <3>2 DEF IsNext, WorkOK, Working
    <3> QED
      BY <3>2, <3>3 DEF LetIn, IssuedFor, ActionsOf
  <2> QED
    BY <2>2, <2>3
<1> QED
  BY <1>1, <1>2, AlwaysIInv, PTL DEF Spec

(* A fact written for a plan has the ledger entry of its action, "failed"  *)
(* at most where the handler raised after the commit, unless the request   *)
(* that wrote it was lost or is about to record it.                        *)
THEOREM WritesAudited == Spec => []WritesAreAudited
<1> DEFINE Wrote(r, a) == seenActions[r][a] = "succeeded" \/ (a \in Fallible /\ seenActions[r][a] = "failed")
           Audited(a, r) == \/ Executed(a, r) \in ledger
                            \/ a \in Fallible /\ Entry("action_failed", a, r) \in ledger
<1>1. Init => WritesAreAudited
  BY DEF Init, WritesAreAudited
<1>2. IInv /\ WritesAreAudited /\ [Next]_vars => WritesAreAudited'
  <2> SUFFICES ASSUME IInv, WritesAreAudited, [Next]_vars, NEW a \in Actions, NEW r \in applied'[a]
               PROVE  \/ Audited(a, r)'
                      \/ pc'[r] = "lost"
                      \/ pc'[r] = "record" /\ a \in todo'[r] /\ Wrote(r, a)'
      BY DEF WritesAreAudited, Executed, Entry
  <2> USE DEF IInv, Typing
  <2>1. CASE r \notin applied[a]
    <3>1. Performs(r, a) /\ r \in Requests
      BY <2>1, FactsFrame DEF facts, DirectChange, Performs, TypeOK
    <3>2. CASE ExecuteSucceeds(r, a)
      BY <3>1, <3>2 DEF ExecuteSucceeds, IsNext, Goto, TypeOK
    <3>3. CASE a \in Fallible /\ ExecuteFails(r, a)
      BY <3>1, <3>3 DEF ExecuteFails, IsNext, Goto, TypeOK
    <3> QED
      BY <3>1, <3>2, <3>3 DEF Performs
  <2>2. CASE Audited(a, r)
    BY <2>2, LedgerGrows DEF Executed, Entry
  <2>3. CASE r \in applied[a] /\ pc[r] = "lost"
    <3>1. r \in Requests
      BY <2>3 DEF TypeOK
    <3> QED
      BY <2>3, <3>1, Answered DEF Local, Answers
  <2>4. CASE r \in applied[a] /\ pc[r] = "record" /\ a \in todo[r] /\ Wrote(r, a)
    <3>1. r \in Requests
      BY <2>4 DEF TypeOK
    <3>2. CASE UNCHANGED Local(r)
      BY <2>4, <3>2 DEF Local
    <3>3. CASE Lose(r)
      BY <3>1, <3>3 DEF Lose, Answer, Goto, TypeOK
    <3>4. ASSUME NEW k \in Kinds, NEW p \in Plans, Start(r, k, p) PROVE FALSE
      BY <2>4, <3>4 DEF Start
    <3>5. ASSUME NEW b \in Actions, RecordOutcome(r, b) PROVE Audited(a, r)'
      <4>1. IsNext(r, a)
        BY <2>4, <3>1 DEF WorkOK, Working, Progress
      <4>2. a = b
        BY <3>1, <3>5, <4>1, NextIsUnique DEF RecordOutcome, Record
      <4>3. ledger' = ledger \cup {Outcome(r, a)}
        BY <3>5, <4>2 DEF RecordOutcome, Record
      <4>4. Outcome(r, a) = Executed(a, r) \/ (a \in Fallible /\ Outcome(r, a) = Entry("action_failed", a, r))
        BY <2>4 DEF Outcome
      <4> QED
        BY <4>3, <4>4 DEF Executed, Entry
    <3>6. ASSUME NEW b \in Actions, ExecuteSucceeds(r, b) \/ ExecuteFails(r, b) PROVE FALSE
      BY <2>4, <3>6 DEF ExecuteSucceeds, ExecuteFails
    <3>7. ~ SaveExecuted(r)
      BY <2>4 DEF SaveExecuted, SaveAs
    <3> QED
      BY <2>4, <3>1, <3>2, <3>3, <3>4, <3>5, <3>6, <3>7, OwnStep, AtWork DEF Working
  <2>5. \/ r \notin applied[a]
        \/ Audited(a, r)
        \/ pc[r] = "lost"
        \/ pc[r] = "record" /\ a \in todo[r] /\ Wrote(r, a)
    BY DEF WritesAreAudited
  <2> QED
    BY <2>1, <2>2, <2>3, <2>4, <2>5
<1> QED
  BY <1>1, <1>2, AlwaysIInv, PTL DEF Spec

(* PlanRowsAgree, said of each action.                                     *)
Rows(p) ==
    LET each(S) == \A a \in ActionsOf(p) : actionStatus[a] \in S
        card(s) == confirmation[p] = IF ActionsOf(p) = {} THEN "none" ELSE s
    IN  /\ planStatus[p] = "absent" => each({"absent"})
        /\ planStatus[p] = "awaiting_confirmation" => each({"awaiting_confirmation"}) /\ card("pending")
        /\ planStatus[p] = "succeeded" =>
              ActionsOf(p) # {} /\ each({"succeeded"}) /\ card("confirmed")
        /\ planStatus[p] = "failed" =>
              /\ \E a \in ActionsOf(p) : actionStatus[a] = "failed"
              /\ each({"succeeded", "failed"}) /\ card("confirmed")
        /\ planStatus[p] = "rejected" => each({"rejected"}) /\ card("rejected")

LEMMA NextRows ==
  ASSUME IInv, [Next]_vars, NEW p \in Plans, Rows(p)
  PROVE  Rows(p)'
<1> USE DEF IInv, Typing, TypeOK
<1>1. CASE UNCHANGED stored
  BY <1>1 DEF stored, Rows, ActionsOf
<1>2. ASSUME NEW q \in Plans, Propose(q) PROVE Rows(p)'
  <2>1. CASE q = p
    <3>1. confirmation[p] = "none"
      BY <1>2, <2>1 DEF Propose, CardOK
    <3>2. /\ planStatus'[p] = "awaiting_confirmation"
          /\ \A a \in ActionsOf(p) : actionStatus'[a] = "awaiting_confirmation"
          /\ confirmation'[p] = IF ActionsOf(p) = {} THEN "none" ELSE "pending"
      BY <1>2, <2>1, <3>1 DEF Propose, SavePlan, All, ActionsOf
    <3> QED
      BY <3>2 DEF Rows, ActionsOf
  <2>2. CASE q # p
    BY <1>2, <2>2 DEF Propose, SavePlan, Rows, ActionsOf
  <2> QED
    BY <2>1, <2>2
<1>3. ASSUME NEW r \in Requests, SaveExecuted(r) PROVE Rows(p)'
  <2>1. /\ plan[r] \in Plans /\ seenConfirm[r] = "confirmed" /\ ActionsOf(plan[r]) # {}
        /\ \A a \in ActionsOf(plan[r]) : seenActions[r][a] \in {"succeeded", "failed"}
    BY <1>3 DEF SaveExecuted, SaveAs, WorkOK, Working, LetIn, Progress, RequestOK, OnAPlan
  <2>2. CASE plan[r] = p
    <3>1. /\ planStatus'[p] = IF AnyFailed(r) THEN "failed" ELSE "succeeded"
          /\ \A a \in ActionsOf(p) : actionStatus'[a] = seenActions[r][a]
          /\ confirmation'[p] = "confirmed"
      BY <1>3, <2>1, <2>2 DEF SaveExecuted, SaveAs, SavePlan, ActionsOf
    <3> QED
      BY <2>1, <2>2, <3>1 DEF Rows, AnyFailed, ActionsOf
  <2>3. CASE plan[r] # p
    <3>1. /\ planStatus'[p] = planStatus[p] /\ confirmation'[p] = confirmation[p]
          /\ \A a \in ActionsOf(p) : actionStatus'[a] = actionStatus[a]
      BY <1>3, <2>1, <2>3 DEF SaveExecuted, SaveAs, SavePlan, ActionsOf
    <3> QED
      BY <3>1 DEF Rows, ActionsOf
  <2> QED
    BY <2>2, <2>3
<1>4. ASSUME NEW r \in Requests, SaveRejected(r) PROVE Rows(p)'
  <2>1. /\ plan[r] \in Plans
        /\ confirmation[plan[r]] = "none" <=> ActionsOf(plan[r]) = {}
        /\ seenConfirm[r] = "none" <=> ActionsOf(plan[r]) = {}
    BY <1>4 DEF SaveRejected, SeenOK, CardOK, HasRead, Working, RequestOK, OnAPlan
  <2>2. CASE plan[r] = p
    <3>1. /\ planStatus'[p] = "rejected"
          /\ \A a \in ActionsOf(p) : actionStatus'[a] = "rejected"
          /\ confirmation'[p] = IF ActionsOf(p) = {} THEN "none" ELSE "rejected"
      BY <1>4, <2>1, <2>2 DEF SaveRejected, SavePlan, All, ActionsOf
    <3> QED
      BY <3>1 DEF Rows, ActionsOf
  <2>3. CASE plan[r] # p
    <3>1. /\ planStatus'[p] = planStatus[p] /\ confirmation'[p] = confirmation[p]
          /\ \A a \in ActionsOf(p) : actionStatus'[a] = actionStatus[a]
      BY <1>4, <2>1, <2>3 DEF SaveRejected, SavePlan, ActionsOf
    <3> QED
      BY <3>1 DEF Rows, ActionsOf
  <2> QED
    BY <2>2, <2>3
<1> QED
  BY <1>1, <1>2, <1>3, <1>4, StoredFrame

(* The rows of a plan, its actions and its confirmation always agree.      *)
THEOREM RowsAgree == Spec => []PlanRowsAgree
<1> DEFINE RowsOK == \A p \in Plans : Rows(p)
<1>1. Init => RowsOK
  BY DEF Init, All, Rows, ActionsOf
<1>2. IInv /\ RowsOK /\ [Next]_vars => RowsOK'
  BY NextRows
<1>3. RowsOK => PlanRowsAgree
  BY DEF Rows, PlanRowsAgree
<1> QED
  BY <1>1, <1>2, <1>3, AlwaysIInv, PTL DEF Spec
-----------------------------------------------------------------------------
(* Requests that are served one after the other implement PlanLifecycle,   *)
(* any of them lost halfway. The abstract step is taken where a request is *)
(* let in, where it writes a fact, where it saves the plan, and where it   *)
(* is lost while it executes one: that what it has read is still so        *)
(* (CopyIsNow) is what concurrent requests break.                          *)

AloneInFlight == \A r, s \in InFlight : r = s

(* What a request has read of its plan is still so.                        *)
Reading == {"read_actions", "read_confirmation", "confirm", "reject", "recover"}
CopyIsNow ==
    \A r \in Requests :
        /\ pc[r] \in Reading => seenPlan[r] = planStatus[plan[r]]
        /\ pc[r] \in Working => planStatus[plan[r]] = "awaiting_confirmation"

(* What a request has seen succeed has had its effect.                     *)
SuccessesAreReal ==
    \A r \in Requests : pc[r] \in Working =>
        \A a \in ActionsOf(plan[r]) : seenActions[r][a] = "succeeded" => applied[a] # {}

OneByOne == AloneInFlight /\ CopyIsNow /\ SuccessesAreReal

Serial == MaxInFlight = 1

(* The request that takes a step is the only one that is served.           *)
LEMMA ServedAlone ==
  ASSUME IInv, OneByOne, Serial, NEW r \in Requests,
         Step(r) \/ Lose(r) \/ \E k \in Kinds, p \in Plans : Start(r, k, p)
  PROVE  /\ AloneInFlight'
         /\ \A p \in Plans : Executing(p) <=> (pc[r] \in Working /\ plan[r] = p)
         /\ \A p \in Plans : Executing(p)' <=> (pc'[r] \in Working /\ plan'[r] = p)
<1> USE DEF IInv, Typing, TypeOK, OneByOne
<1>1. Step(r) \/ Lose(r) => r \in InFlight
  BY DEF InFlight, Lose, Answers, Step, RefuseUnknown, ReadPlan, ReadActions, ReadConfirmation,
         ListPending, ListNothing, IssueRecoveryToken, AcceptConfirm, ReplayConfirm, RefuseConfirm,
         ExecuteSucceeds, ExecuteFails, RecordOutcome, Record, SaveExecuted, SaveAs, SaveRejected,
         RefuseReject, RecordRejection, DirectChange, RefuseDirect, SaveDirectPlan, RecordDirect
<1>2. ASSUME NEW k \in Kinds, NEW p \in Plans, Start(r, k, p) PROVE InFlight = {}
  <2>1. \A s \in InFlight : InFlight = {s}
    BY DEF AloneInFlight
  <2>2. \A s \in InFlight : Cardinality({s}) = 1
    BY FS_Singleton
  <2>3. \A s \in InFlight : Cardinality(InFlight) = 1
    BY <2>1, <2>2
  <2> QED
    BY <1>2, <2>3 DEF Start, Serial
<1>3. InFlight \subseteq {r}
  BY <1>1, <1>2 DEF AloneInFlight
<1>4. \A s \in Requests : s # r => pc'[s] = pc[s] /\ plan'[s] = plan[s]
  <2>1. ASSUME NEW s \in Requests, s # r, Step(r) PROVE pc'[s] = pc[s] /\ plan'[s] = plan[s]
    BY <2>1, OthersKeep DEF Local
  <2>2. ASSUME NEW k \in Kinds, NEW p \in Plans, Start(r, k, p), NEW s \in Requests, s # r
        PROVE  pc'[s] = pc[s] /\ plan'[s] = plan[s]
    BY <2>2 DEF Start, Goto
  <2>3. ASSUME NEW s \in Requests, s # r, Lose(r) PROVE pc'[s] = pc[s] /\ plan'[s] = plan[s]
    BY <2>3 DEF Lose, Answer, Goto, input
  <2> QED
    BY <2>1, <2>2, <2>3
<1>5. InFlight' \subseteq {r}
  BY <1>3, <1>4 DEF InFlight
<1>6. \A s \in Requests : s # r => pc[s] \notin Working /\ pc'[s] \notin Working
  <2>1. \A s \in Requests : s # r => pc[s] \in Answers \cup {"idle"}
    BY <1>3 DEF InFlight
  <2> QED
    BY <1>4, <2>1 DEF Working, Answers
<1>7. AloneInFlight'
  BY <1>5 DEF AloneInFlight
<1>8. \A p \in Plans : Executing(p) <=> (pc[r] \in Working /\ plan[r] = p)
  BY <1>6 DEF Executing, Working
<1>9. \A p \in Plans : Executing(p)' <=> (pc'[r] \in Working /\ plan'[r] = p)
  BY <1>6 DEF Executing, Working
<1> QED
  BY <1>7, <1>8, <1>9

(* A request that executes a plan goes on until it saves it or is lost.    *)
LEMMA WorkIsFinished ==
  ASSUME IInv, [Next]_vars, NEW r \in Requests, pc[r] \in Working
  PROVE  (pc'[r] \in Working /\ plan'[r] = plan[r]) \/ SaveExecuted(r) \/ Lose(r)
<1> USE DEF IInv, Typing, TypeOK, Working
<1>1. \A k \in Kinds, p \in Plans : ~ Start(r, k, p)
  BY DEF Start
<1>2. ASSUME NEW a \in Actions, ExecuteSucceeds(r, a) \/ ExecuteFails(r, a) \/ RecordOutcome(r, a)
      PROVE  pc'[r] \in Working /\ plan'[r] = plan[r]
  BY <1>2 DEF ExecuteSucceeds, ExecuteFails, RecordOutcome, Record, After, Goto, input
<1>3. CASE UNCHANGED Local(r)
  BY <1>3 DEF Local
<1> QED
  BY <1>1, <1>2, <1>3, OwnStep, AtWork

(* What no other step does to the plans and the effects.                   *)
LEMMA QuietStep ==
  ASSUME IInv, [Next]_vars
  PROVE  \/ \E p \in Plans : Propose(p)
         \/ \E r \in Requests : AcceptConfirm(r) \/ SaveExecuted(r) \/ SaveRejected(r)
         \/ \E r \in Requests, a \in Actions : Performs(r, a)
         \/ \E r \in Requests : Lose(r) /\ pc[r] \in Working
         \/ /\ UNCHANGED <<planStatus, applied>>
            /\ \A p \in Plans : Executing(p)' <=> Executing(p)
<1> USE DEF IInv, Typing, TypeOK
<1> SUFFICES ASSUME \A p \in Plans : ~ Propose(p),
                    \A r \in Requests : ~ AcceptConfirm(r) /\ ~ SaveExecuted(r) /\ ~ SaveRejected(r),
                    \A r \in Requests, a \in Actions : ~ Performs(r, a),
                    \A r \in Requests : Lose(r) => pc[r] \notin Working
             PROVE  /\ UNCHANGED <<planStatus, applied>>
                    /\ \A p \in Plans : Executing(p)' <=> Executing(p)
  OBVIOUS
<1>1. UNCHANGED planStatus
  BY StoredFrame DEF stored
<1>2. UNCHANGED applied
  BY FactsFrame DEF facts, DirectChange
<1>3. ASSUME NEW r \in Requests, pc'[r] \in Working PROVE pc[r] \in Working /\ plan'[r] = plan[r]
  <2>1. CASE UNCHANGED Local(r)
    BY <1>3, <2>1 DEF Local
  <2>2. CASE Step(r)
    BY <1>3, <2>2, ComesToWork DEF ExecuteSucceeds, ExecuteFails, RecordOutcome, Record, Working, input
  <2>3. CASE Lose(r)
    BY <1>3, <2>3 DEF Lose, Answer, Goto, Working, Answers
  <2>4. ASSUME NEW k \in Kinds, NEW p \in Plans, Start(r, k, p) PROVE FALSE
    BY <1>3, <2>4 DEF Start, Goto, Working
  <2> QED
    BY <2>1, <2>2, <2>3, <2>4, OwnStep
<1>4. \A p \in Plans : Executing(p)' <=> Executing(p)
  BY <1>3, WorkIsFinished DEF Executing, Working
<1> QED
  BY <1>1, <1>2, <1>4

(* A request that is being served finds its plan as it was, until it saves *)
(* it itself.                                                              *)
LEMMA PlanWaits ==
  ASSUME IInv, OneByOne, [Next]_vars, NEW r \in Requests, pc[r] \in HasRead,
         ~ SaveExecuted(r), ~ SaveRejected(r)
  PROVE  planStatus'[plan[r]] = planStatus[plan[r]]
<1> USE DEF IInv, Typing, TypeOK
<1>1. plan[r] \in Plans /\ planStatus[plan[r]] # "absent" /\ r \in InFlight
  BY DEF SeenOK, RequestOK, OnAPlan, HasRead, Working, InFlight, Answers
<1>2. ASSUME NEW p \in Plans, Propose(p) PROVE planStatus'[plan[r]] = planStatus[plan[r]]
  BY <1>1, <1>2 DEF Propose, SavePlan
<1>3. ASSUME NEW s \in Requests, SaveExecuted(s) \/ SaveRejected(s) PROVE FALSE
  <2>1. s \in InFlight
    BY <1>3 DEF SaveExecuted, SaveAs, SaveRejected, InFlight, Answers
  <2> QED
    BY <1>1, <1>3, <2>1 DEF OneByOne, AloneInFlight
<1> QED
  BY <1>1, <1>2, <1>3, StoredFrame DEF stored

LEMMA NextCopy ==
  ASSUME IInv, OneByOne, [Next]_vars
  PROVE  CopyIsNow'
<1> SUFFICES ASSUME NEW r \in Requests
             PROVE  /\ pc'[r] \in Reading => seenPlan'[r] = planStatus'[plan'[r]]
                    /\ pc'[r] \in Working => planStatus'[plan'[r]] = "awaiting_confirmation"
  BY DEF CopyIsNow
<1> USE DEF IInv, Typing, TypeOK, OneByOne
<1>1. CASE UNCHANGED Local(r)
  <2>1. CASE pc[r] \in Reading \cup Working
    <3>1. pc[r] \in HasRead
      BY <2>1 DEF Reading, HasRead
    <3>2. ~ SaveExecuted(r) /\ ~ SaveRejected(r)
      BY <1>1, <2>1 DEF Local, SaveExecuted, SaveAs, SaveRejected, Answer, Goto
    <3> QED
      BY <1>1, <3>1, <3>2, PlanWaits DEF Local, CopyIsNow
  <2> QED
    BY <1>1, <2>1 DEF Local
<1>2. CASE Step(r)
  <2>1. CASE ReadPlan(r)
    BY <2>1 DEF ReadPlan, Goto, Reading, Working, stored, input
  <2>2. CASE ReadActions(r) \/ ReadConfirmation(r)
    <3>1. pc[r] \in Reading /\ seenPlan'[r] = seenPlan[r] /\ plan' = plan /\ UNCHANGED planStatus
      BY <2>2 DEF ReadActions, ReadConfirmation, Reading, stored, input
    <3>2. pc'[r] \notin Working
      BY <2>2 DEF ReadActions, ReadConfirmation, Goto, Working, RequestOK, OnAPlan
    <3> QED
      BY <3>1, <3>2 DEF CopyIsNow
  <2>3. CASE AcceptConfirm(r)
    <3>1. /\ pc[r] = "confirm" /\ seenPlan[r] = "awaiting_confirmation" /\ pc'[r] = "execute"
          /\ UNCHANGED <<planStatus, plan>>
      BY <2>3 DEF AcceptConfirm, Confirmable, Goto, stored, input
    <3> QED
      BY <3>1 DEF CopyIsNow, Reading
  <2>4. ASSUME NEW a \in Actions, ExecuteSucceeds(r, a) \/ ExecuteFails(r, a) \/ RecordOutcome(r, a)
        PROVE  pc[r] \in Working /\ pc'[r] \in Working /\ UNCHANGED <<planStatus, plan>>
    BY <2>4 DEF ExecuteSucceeds, ExecuteFails, RecordOutcome, Record, After, Goto, Working, stored, input
  <2>5. pc'[r] \in Reading => ReadPlan(r) \/ ReadActions(r) \/ ReadConfirmation(r)
    BY <1>2 DEF Step, Goto, Answer, Answers, Reading, After, RefuseUnknown, ListPending, ListNothing,
         IssueRecoveryToken, AcceptConfirm, ReplayConfirm, RefuseConfirm,
         ExecuteSucceeds, ExecuteFails, RecordOutcome, Record, SaveExecuted, SaveAs, SaveRejected,
         RefuseReject, RecordRejection, DirectChange, RefuseDirect, SaveDirectPlan, RecordDirect
  <2> QED
    BY <1>2, <2>1, <2>2, <2>3, <2>4, <2>5, ComesToWork DEF CopyIsNow, Reading, Working
<1>3. CASE Lose(r)
  BY <1>3 DEF Lose, Answer, Goto, Reading, Working
<1>4. ASSUME NEW k \in Kinds, NEW p \in Plans, Start(r, k, p)
      PROVE  pc'[r] \in {"mutate", "list", "read_plan"}
  BY <1>4 DEF Start, Goto
<1> QED
  BY <1>1, <1>2, <1>3, <1>4, OwnStep DEF Reading, Working

LEMMA NextSuccesses ==
  ASSUME IInv, OneByOne, [Next]_vars
  PROVE  SuccessesAreReal'
<1> USE DEF IInv, Typing, TypeOK, OneByOne
<1> SUFFICES ASSUME NEW r \in Requests, pc'[r] \in Working, NEW a \in ActionsOf(plan'[r]),
                    seenActions'[r][a] = "succeeded"
             PROVE  applied'[a] # {}
  BY DEF SuccessesAreReal, ActionsOf
<1>1. a \in Actions
  BY DEF ActionsOf
<1>2. applied[a] \subseteq applied'[a]
  <2>1. ASSUME NEW s \in Requests, NEW b \in Actions, Performs(s, b)
        PROVE  applied[a] \subseteq applied'[a]
    BY <1>1, <2>1 DEF Performs
  <2> QED
    BY <2>1, FactsFrame DEF facts, DirectChange
<1>3. CASE UNCHANGED Local(r)
  BY <1>2, <1>3 DEF Local, SuccessesAreReal
<1>4. CASE AcceptConfirm(r)
  BY <1>4 DEF AcceptConfirm, Confirmable, input
<1>5. ASSUME NEW b \in Actions, ExecuteSucceeds(r, b) PROVE applied'[a] # {}
  BY <1>1, <1>2, <1>5 DEF ExecuteSucceeds, SuccessesAreReal, Working, input
<1>6. ASSUME NEW b \in Actions, ExecuteFails(r, b) PROVE applied'[a] # {}
  <2>1. /\ pc[r] \in Working /\ plan'[r] = plan[r]
        /\ seenActions'[r] = [seenActions[r] EXCEPT ![b] = "failed"]
    BY <1>6 DEF ExecuteFails, Working, input
  <2> QED
    BY <1>1, <1>2, <2>1 DEF SuccessesAreReal
<1>7. ASSUME NEW b \in Actions, RecordOutcome(r, b) PROVE applied'[a] # {}
  BY <1>2, <1>7 DEF RecordOutcome, Record, SuccessesAreReal, Working, input
<1>8. ~ Lose(r)
  BY DEF Lose, Answer, Goto, Working
<1>9. ASSUME NEW k \in Kinds, NEW p \in Plans, Start(r, k, p) PROVE FALSE
  BY <1>9 DEF Start, Goto, Working
<1> QED
  BY <1>3, <1>4, <1>5, <1>6, <1>7, <1>8, <1>9, OwnStep, ComesToWork

LEMMA AlwaysOneByOne ==
  ASSUME Serial
  PROVE  Spec => []OneByOne
<1>1. Init => OneByOne
  BY DEF Init, OneByOne, AloneInFlight, InFlight, CopyIsNow, Reading, Working, SuccessesAreReal
<1>2. IInv /\ OneByOne /\ [Next]_vars => OneByOne'
  <2> SUFFICES ASSUME IInv, OneByOne, [Next]_vars PROVE AloneInFlight'
    BY NextCopy, NextSuccesses DEF OneByOne
  <2>1. CASE UNCHANGED pc
    BY <2>1 DEF OneByOne, AloneInFlight, InFlight
  <2>2. ASSUME NEW r \in Requests, Step(r) \/ Lose(r) \/ \E k \in Kinds, p \in Plans : Start(r, k, p)
        PROVE  AloneInFlight'
    BY <2>2, ServedAlone
  <2> QED
    BY <2>1, <2>2 DEF Next, vars, Propose, Expire
<1> QED
  BY <1>1, <1>2, AlwaysIInv, PTL DEF Spec

(* Each step is one of PlanLifecycle, or none.                             *)
LEMMA LifecycleStep ==
  ASSUME IInv, OneByOne, Serial, [Next]_vars
  PROVE  Lifecycle!Next \/ UNCHANGED <<LifecycleStatus, LifecycleDone>>
<1> USE DEF IInv, Typing, TypeOK, OneByOne
<1>1. ASSUME NEW p \in Plans, Propose(p) PROVE Lifecycle!Propose(p)
  <2>1. /\ UNCHANGED <<pc, plan, applied>> /\ planStatus[p] = "absent"
        /\ planStatus' = [planStatus EXCEPT ![p] = "awaiting_confirmation"]
    BY <1>1 DEF Propose, SavePlan, facts, input
  <2>2. ~ Executing(p)
    BY <2>1 DEF Executing, SeenOK, HasRead, Working
  <2>3. \A q \in Plans : Executing(q)' <=> Executing(q)
    BY <2>1 DEF Executing
  <2>4. /\ LifecycleStatus' = [LifecycleStatus EXCEPT ![p] = "awaiting_confirmation"]
        /\ LifecycleStatus[p] = "absent"
    BY <2>1, <2>2, <2>3 DEF LifecycleStatus
  <2> QED
    BY <2>1, <2>4 DEF Lifecycle!Propose, Lifecycle!Move, LifecycleDone
<1>2. ASSUME NEW r \in Requests, AcceptConfirm(r) PROVE Lifecycle!Begin(plan[r])
  <2>1. /\ pc[r] = "confirm" /\ pc'[r] = "execute" /\ plan'[r] = plan[r] /\ plan[r] \in Plans
        /\ UNCHANGED <<planStatus, applied>> /\ seenPlan[r] = "awaiting_confirmation"
    BY <1>2 DEF AcceptConfirm, Confirmable, Goto, RequestOK, OnAPlan, stored, facts, input
  <2>2. planStatus[plan[r]] = "awaiting_confirmation"
    BY <2>1 DEF CopyIsNow, Reading
  <2>3. \A q \in Plans : ~ Executing(q) /\ (Executing(q)' <=> q = plan[r])
    BY <1>2, <2>1, ServedAlone DEF Step, Working
  <2>4. /\ LifecycleStatus' = [LifecycleStatus EXCEPT ![plan[r]] = "executing"]
        /\ LifecycleStatus[plan[r]] = "awaiting_confirmation"
    BY <2>1, <2>2, <2>3 DEF LifecycleStatus
  <2> QED
    BY <2>1, <2>4 DEF Lifecycle!Begin, Lifecycle!Move, LifecycleDone
<1>3. ASSUME NEW r \in Requests, NEW a \in Actions, Performs(r, a)
      PROVE  Lifecycle!Perform(a) \/ UNCHANGED <<LifecycleStatus, LifecycleDone>>
  <2>1. /\ pc[r] = "execute" /\ pc'[r] = "record" /\ plan'[r] = plan[r] /\ plan[r] \in Plans
        /\ UNCHANGED planStatus /\ applied' = [applied EXCEPT ![a] = @ \cup {r}] /\ Step(r)
    BY <1>3 DEF Performs, ExecuteSucceeds, ExecuteFails, Goto, RequestOK, OnAPlan, stored, input, Step
  <2>2. PlanOf[a] = plan[r]
    BY <1>3, <2>1 DEF Performs, ExecuteSucceeds, ExecuteFails, IsNext, WorkOK, Working, LetIn, ActionsOf
  <2>3. \A q \in Plans : (Executing(q)' <=> q = plan[r]) /\ (Executing(q) <=> q = plan[r])
    BY <2>1, ServedAlone DEF Working
  <2>4. planStatus[plan[r]] = "awaiting_confirmation"
    BY <2>1 DEF CopyIsNow, Working
  <2>5. UNCHANGED LifecycleStatus /\ LifecycleStatus[PlanOf[a]] = "executing"
    BY <2>1, <2>2, <2>3, <2>4 DEF LifecycleStatus
  <2>6. LifecycleDone' = LifecycleDone \cup {a}
    BY <2>1 DEF LifecycleDone
  <2> QED
    BY <2>5, <2>6 DEF Lifecycle!Perform
<1>4. ASSUME NEW r \in Requests, SaveExecuted(r)
      PROVE  Lifecycle!Succeed(plan[r]) \/ Lifecycle!Fail(plan[r])
  <2>1. /\ pc[r] = "save" /\ pc'[r] = "answered" /\ plan'[r] = plan[r] /\ plan[r] \in Plans
        /\ UNCHANGED applied
        /\ planStatus' = [planStatus EXCEPT ![plan[r]] =
                            IF AnyFailed(r) THEN "failed" ELSE "succeeded"]
    BY <1>4 DEF SaveExecuted, SaveAs, SavePlan, Answer, Goto, RequestOK, OnAPlan, facts, input
  <2>2. planStatus[plan[r]] = "awaiting_confirmation"
    BY <2>1 DEF CopyIsNow, Working
  <2>3. \A q \in Plans : ~ Executing(q)' /\ (Executing(q) <=> q = plan[r])
    BY <1>4, <2>1, ServedAlone DEF Step, Working
  <2>4. /\ LifecycleStatus' = [LifecycleStatus EXCEPT ![plan[r]] =
                                 IF AnyFailed(r) THEN "failed" ELSE "succeeded"]
        /\ LifecycleStatus[plan[r]] = "executing"
    BY <2>1, <2>2, <2>3 DEF LifecycleStatus
  <2>5. ~ AnyFailed(r) => Lifecycle!ActionsOf(plan[r]) \subseteq LifecycleDone
    <3>1. \A a \in ActionsOf(plan[r]) : seenActions[r][a] \in {"failed", "succeeded"}
      BY <2>1 DEF WorkOK, Working, Progress
    <3>2. \A a \in ActionsOf(plan[r]) : seenActions[r][a] = "succeeded" => applied[a] # {}
      BY <2>1 DEF SuccessesAreReal, Working
    <3> QED
      BY <3>1, <3>2 DEF LifecycleDone, ActionsOf, AnyFailed, Lifecycle!ActionsOf
  <2>6. UNCHANGED LifecycleDone
    BY <2>1 DEF LifecycleDone
  <2>7. CASE AnyFailed(r)
    BY <2>4, <2>6, <2>7 DEF Lifecycle!Fail, Lifecycle!Move
  <2>8. CASE ~ AnyFailed(r)
    BY <2>4, <2>5, <2>6, <2>8 DEF Lifecycle!Succeed, Lifecycle!Move
  <2> QED
    BY <2>7, <2>8
<1>5. ASSUME NEW r \in Requests, SaveRejected(r) PROVE Lifecycle!Reject(plan[r])
  <2>1. /\ pc[r] = "reject" /\ pc'[r] = "record_rejection" /\ plan[r] \in Plans
        /\ UNCHANGED applied /\ seenPlan[r] = "awaiting_confirmation"
        /\ planStatus' = [planStatus EXCEPT ![plan[r]] = "rejected"]
    BY <1>5 DEF SaveRejected, SavePlan, Goto, RequestOK, OnAPlan, facts
  <2>2. planStatus[plan[r]] = "awaiting_confirmation"
    BY <2>1 DEF CopyIsNow, Reading
  <2>3. \A q \in Plans : ~ Executing(q)' /\ ~ Executing(q)
    BY <1>5, <2>1, ServedAlone DEF Step, Working
  <2>4. /\ LifecycleStatus' = [LifecycleStatus EXCEPT ![plan[r]] = "rejected"]
        /\ LifecycleStatus[plan[r]] = "awaiting_confirmation"
    BY <2>1, <2>2, <2>3 DEF LifecycleStatus
  <2> QED
    BY <2>1, <2>4 DEF Lifecycle!Reject, Lifecycle!Move, LifecycleDone
<1>6. CASE UNCHANGED <<planStatus, applied>> /\ \A p \in Plans : Executing(p)' <=> Executing(p)
  BY <1>6 DEF LifecycleStatus, LifecycleDone
<1>7. ASSUME NEW r \in Requests, Lose(r), pc[r] \in Working PROVE Lifecycle!Interrupt(plan[r])
  <2>1. /\ MayLose /\ pc'[r] = "lost" /\ plan'[r] = plan[r] /\ plan[r] \in Plans
        /\ UNCHANGED <<planStatus, applied>>
    BY <1>7 DEF Lose, Answer, Goto, RequestOK, OnAPlan, Working, stored, facts, input
  <2>2. planStatus[plan[r]] = "awaiting_confirmation"
    BY <1>7 DEF CopyIsNow
  <2>3. \A q \in Plans : ~ Executing(q)' /\ (Executing(q) <=> q = plan[r])
    BY <1>7, <2>1, ServedAlone DEF Working
  <2>4. /\ LifecycleStatus' = [LifecycleStatus EXCEPT ![plan[r]] = "awaiting_confirmation"]
        /\ LifecycleStatus[plan[r]] = "executing"
    BY <2>1, <2>2, <2>3 DEF LifecycleStatus
  <2> QED
    BY <2>1, <2>4 DEF Lifecycle!Interrupt, Lifecycle!Move, LifecycleDone
<1>8. ASSUME NEW r \in Requests,
             AcceptConfirm(r) \/ SaveExecuted(r) \/ SaveRejected(r) \/ (Lose(r) /\ pc[r] \in Working)
      PROVE  plan[r] \in Plans
  BY <1>8 DEF AcceptConfirm, SaveExecuted, SaveAs, SaveRejected, RequestOK, OnAPlan, Working
<1>9. \A a \in Actions : PlanOf[a] \in Plans /\ a \in Lifecycle!ActionsOf(PlanOf[a])
  BY ConstantsAssumption DEF Lifecycle!ActionsOf
<1> QED
  BY <1>1, <1>2, <1>3, <1>4, <1>5, <1>6, <1>7, <1>8, <1>9, QuietStep DEF Lifecycle!Next, Lifecycle!Work

(* Requests that are served one after the other, any of them lost halfway, *)
(* keep the promise of the plan state machine: a plan is rejected or       *)
(* executed, its actions take effect only while it executes, it has        *)
(* succeeded only when all of them did, and an execution that is lost      *)
(* leaves it waiting (confirm_plan and reject_plan). That an execution     *)
(* ends is left to the run.                                                *)
THEOREM PlansKeepTheirLifecycle ==
  ASSUME MaxInFlight = 1
  PROVE  Spec => Lifecycle!Safety
<1>1. Init => Lifecycle!Init
  <2> SUFFICES ASSUME Init PROVE Lifecycle!Init
    OBVIOUS
  <2>1. LifecycleStatus = [p \in Plans |-> "absent"]
    BY DEF Init, LifecycleStatus
  <2>2. LifecycleDone = {}
    BY DEF Init, LifecycleDone
  <2> QED
    BY <2>1, <2>2 DEF Lifecycle!Init
<1>2. IInv /\ OneByOne /\ [Next]_vars => [Lifecycle!Next]_(Lifecycle!vars)
  BY LifecycleStep DEF Serial, Lifecycle!vars
<1>3. Spec => []OneByOne
  BY AlwaysOneByOne DEF Serial
<1> QED
  BY <1>1, <1>2, <1>3, AlwaysIInv, PTL DEF Spec, Lifecycle!Safety
=============================================================================
