-------------------------- MODULE SubmitTurn_proofs --------------------------
(***************************************************************************)
(* What SubmitTurn keeps for any number of concurrent turns, any clocks    *)
(* and any loss. The inductive invariant says, beside the types, what a    *)
(* turn has done by each of its steps (PhaseOK), what it may rely on about *)
(* the questions it has read (AnswerOK) and what it has recorded           *)
(* (RecordOK).                                                             *)
(***************************************************************************)
EXTENDS SubmitTurnRefinement, FiniteSetTheorems, TLAPS

Ended == {"tell_user", "tell_assistant", "answered"}
Planning == {"idle", "read_open", "match", "resolve", "plan"}

(* What a turn has done by the step it stands at.                          *)
PhaseOK ==
    \A t \in Turns :
        /\ pc[t] \in {"idle", "read_open", "match"} => answer[t] = None
        /\ pc[t] = "resolve" => answer[t] \in Turns
        /\ pc[t] \in Planning => outcome[t] = "none"
        /\ pc[t] = "abandon" =>
              seen[t] \in Turns /\ answer[t] = None /\ outcome[t] \in Outcomes \ {"message"}
        /\ pc[t] = "ask" => outcome[t] = "clarify"
        /\ pc[t] = "store_plan" => outcome[t] = "plan"
        /\ status[t] # "none" => outcome[t] = "clarify" /\ pc[t] \in Ended \cup {"lost"}
        /\ t \in plans => outcome[t] = "plan" /\ pc[t] \in Events \cup Ended \cup {"lost"}
        /\ pc[t] \in Events => t \in plans
        /\ pc[t] \in Ended /\ outcome[t] = "plan" => t \in plans

(* The questions a turn has read were asked; one it answers is closed,     *)
(* unless the turn has not come to that.                                   *)
AnswerOK ==
    \A t, c \in Turns :
        /\ seen[t] = c => status[c] # "none"
        /\ answer[t] = c =>
              /\ c # t
              /\ status[c] # "none"
              /\ now[t] < now[c] + Life
              /\ status[c] \in Closed \/ (pc[t] \in {"resolve", "lost"} /\ t \notin plans)

(* What a turn has recorded by the step it stands at.                      *)
RecordOK ==
    /\ \A t \in plans :
          /\ pc[t] \in {"confirmation_created"} \cup Ended => <<"plan_created", t>> \in ledger
          /\ pc[t] \in Ended => <<"confirmation_created", t>> \in ledger
    /\ \A role \in Roles, t \in Turns : <<role, t>> \in history =>
          /\ pc[t] \in {"tell_assistant", "answered", "lost"}
          /\ outcome[t] = "plan" => t \in plans

IInv == TypeOK /\ PhaseOK /\ AnswerOK /\ RecordOK /\ ResolvedIsAnswered
-----------------------------------------------------------------------------
USE DEF Goto, SetStatus, stored, local

(* The outcomes of planning and the steps they lead to. *)
LEMMA Outcomes4 ==
    /\ Outcomes = {"message", "refused", "clarify", "plan"}
    /\ StepOf["message"] = "tell_user" /\ StepOf["refused"] = "tell_user"
    /\ StepOf["clarify"] = "ask" /\ StepOf["plan"] = "store_plan"
BY DEF Outcomes, StepOf

(* Every step keeps the types. *)
LEMMA NextTyping ==
    ASSUME TypeOK, PhaseOK, Next
    PROVE  TypeOK'
<1> USE ConstantsAssumption DEF TypeOK, QuestionStatus, Closed, Labels, Events, Roles, PhaseOK
<1>1. CASE \E t \in Turns, n \in Times : Start(t, n)
  BY <1>1 DEF Start
<1>2. ASSUME NEW t \in Turns, Step(t) \/ Lose(t)
      PROVE  TypeOK'
  <2>1. CASE ReadOpen(t)
    BY <2>1 DEF ReadOpen, LatestOpen, Open
  <2>2. CASE MatchAnswer(t)
    BY <2>2 DEF MatchAnswer, LatestOpen, Open
  <2>3. CASE MatchNothing(t)
    BY <2>3 DEF MatchNothing
  <2>4. CASE Resolve(t)
    BY <2>4 DEF Resolve
  <2>5. CASE \E o \in Outcomes : Plan(t, o)
    BY <2>5, Outcomes4 DEF Plan, Replaces
  <2>6. CASE Abandon(t)
    BY <2>6, Outcomes4 DEF Abandon
  <2>7. CASE Ask(t)
    BY <2>7 DEF Ask
  <2>8. CASE StorePlan(t)
    BY <2>8 DEF StorePlan
  <2>9. CASE \E e \in Events : Record(t, e)
    BY <2>9 DEF Record
  <2>10. CASE \E role \in Roles : Tell(t, role)
    BY <2>10 DEF Tell
  <2>11. CASE Lose(t)
    BY <2>11 DEF Lose, InFlight
  <2>12. QED
    BY <1>2, <2>1, <2>2, <2>3, <2>4, <2>5, <2>6, <2>7, <2>8, <2>9, <2>10, <2>11 DEF Step
<1>3. QED
  BY <1>1, <1>2 DEF Next

(* Every step keeps what a turn has done by the step it stands at. *)
LEMMA NextPhase ==
    ASSUME TypeOK, PhaseOK, AnswerOK, Next
    PROVE  PhaseOK'
<1> USE ConstantsAssumption DEF TypeOK, QuestionStatus, Closed, Events, Roles, PhaseOK, Planning, Ended, AnswerOK
<1>1. CASE \E t \in Turns, n \in Times : Start(t, n)
  BY <1>1 DEF Start
<1>2. ASSUME NEW t \in Turns, Step(t) \/ Lose(t)
      PROVE  PhaseOK'
  <2>1. CASE ReadOpen(t)
    BY <2>1 DEF ReadOpen, LatestOpen, Open
  <2>2. CASE MatchAnswer(t)
    BY <2>2 DEF MatchAnswer, LatestOpen, Open
  <2>3. CASE MatchNothing(t)
    BY <2>3 DEF MatchNothing
  <2>4. CASE Resolve(t)
    BY <2>4 DEF Resolve
  <2>5. CASE \E o \in Outcomes : Plan(t, o)
    BY <2>5, Outcomes4 DEF Plan, Replaces
  <2>6. CASE Abandon(t)
    BY <2>6, Outcomes4 DEF Abandon
  <2>7. CASE Ask(t)
    BY <2>7 DEF Ask
  <2>8. CASE StorePlan(t)
    BY <2>8 DEF StorePlan
  <2>9. CASE \E e \in Events : Record(t, e)
    BY <2>9 DEF Record
  <2>10. CASE \E role \in Roles : Tell(t, role)
    BY <2>10 DEF Tell
  <2>11. CASE Lose(t)
    BY <2>11 DEF Lose, InFlight
  <2>12. QED
    BY <1>2, <2>1, <2>2, <2>3, <2>4, <2>5, <2>6, <2>7, <2>8, <2>9, <2>10, <2>11 DEF Step
<1>3. QED
  BY <1>1, <1>2 DEF Next

(* Every step keeps what the turns know of the questions. *)
LEMMA NextAnswer ==
    ASSUME TypeOK, PhaseOK, AnswerOK, Next
    PROVE  AnswerOK'
<1> USE ConstantsAssumption DEF TypeOK, QuestionStatus, Closed, Events, Roles, PhaseOK, Planning, Ended, AnswerOK
<1>1. CASE \E t \in Turns, n \in Times : Start(t, n)
  BY <1>1 DEF Start
<1>2. ASSUME NEW t \in Turns, Step(t) \/ Lose(t)
      PROVE  AnswerOK'
  <2>1. CASE ReadOpen(t)
    BY <2>1 DEF ReadOpen, LatestOpen, Open
  <2>2. CASE MatchAnswer(t)
    BY <2>2 DEF MatchAnswer, LatestOpen, Open
  <2>3. CASE MatchNothing(t)
    BY <2>3 DEF MatchNothing
  <2>4. CASE Resolve(t)
    BY <2>4 DEF Resolve
  <2>5. CASE \E o \in Outcomes : Plan(t, o)
    BY <2>5, Outcomes4 DEF Plan, Replaces
  <2>6. CASE Abandon(t)
    BY <2>6, Outcomes4 DEF Abandon
  <2>7. CASE Ask(t)
    BY <2>7 DEF Ask
  <2>8. CASE StorePlan(t)
    BY <2>8 DEF StorePlan
  <2>9. CASE \E e \in Events : Record(t, e)
    BY <2>9 DEF Record
  <2>10. CASE \E role \in Roles : Tell(t, role)
    BY <2>10 DEF Tell
  <2>11. CASE Lose(t)
    BY <2>11 DEF Lose, InFlight
  <2>12. QED
    BY <1>2, <2>1, <2>2, <2>3, <2>4, <2>5, <2>6, <2>7, <2>8, <2>9, <2>10, <2>11 DEF Step
<1>3. QED
  BY <1>1, <1>2 DEF Next

(* Every step keeps what a turn has recorded. *)
LEMMA NextRecord ==
    ASSUME TypeOK, PhaseOK, RecordOK, Next
    PROVE  RecordOK'
<1> USE ConstantsAssumption DEF TypeOK, QuestionStatus, Closed, Events, Roles, PhaseOK, Planning, Ended, RecordOK
<1>1. CASE \E t \in Turns, n \in Times : Start(t, n)
  BY <1>1 DEF Start
<1>2. ASSUME NEW t \in Turns, Step(t) \/ Lose(t)
      PROVE  RecordOK'
  <2>1. CASE ReadOpen(t)
    BY <2>1 DEF ReadOpen, LatestOpen, Open
  <2>2. CASE MatchAnswer(t)
    BY <2>2 DEF MatchAnswer, LatestOpen, Open
  <2>3. CASE MatchNothing(t)
    BY <2>3 DEF MatchNothing
  <2>4. CASE Resolve(t)
    BY <2>4 DEF Resolve
  <2>5. CASE \E o \in Outcomes : Plan(t, o)
    BY <2>5, Outcomes4 DEF Plan, Replaces
  <2>6. CASE Abandon(t)
    BY <2>6, Outcomes4 DEF Abandon
  <2>7. CASE Ask(t)
    BY <2>7 DEF Ask
  <2>8. CASE StorePlan(t)
    BY <2>8 DEF StorePlan
  <2>9. CASE \E e \in Events : Record(t, e)
    BY <2>9 DEF Record
  <2>10. CASE \E role \in Roles : Tell(t, role)
    BY <2>10 DEF Tell
  <2>11. CASE Lose(t)
    BY <2>11 DEF Lose, InFlight
  <2>12. QED
    BY <1>2, <2>1, <2>2, <2>3, <2>4, <2>5, <2>6, <2>7, <2>8, <2>9, <2>10, <2>11 DEF Step
<1>3. QED
  BY <1>1, <1>2 DEF Next

(* Every step keeps that a resolved question has been answered. *)
LEMMA NextResolved ==
    ASSUME TypeOK, PhaseOK, AnswerOK, ResolvedIsAnswered, Next
    PROVE  ResolvedIsAnswered'
<1> USE ConstantsAssumption DEF TypeOK, QuestionStatus, Closed, Events, Roles, PhaseOK, Planning, Ended, AnswerOK, ResolvedIsAnswered
<1>1. CASE \E t \in Turns, n \in Times : Start(t, n)
  BY <1>1 DEF Start
<1>2. ASSUME NEW t \in Turns, Step(t) \/ Lose(t)
      PROVE  ResolvedIsAnswered'
  <2>1. CASE ReadOpen(t)
    BY <2>1 DEF ReadOpen, LatestOpen, Open
  <2>2. CASE MatchAnswer(t)
    BY <2>2 DEF MatchAnswer, LatestOpen, Open
  <2>3. CASE MatchNothing(t)
    BY <2>3 DEF MatchNothing
  <2>4. CASE Resolve(t)
    BY <2>4 DEF Resolve
  <2>5. CASE \E o \in Outcomes : Plan(t, o)
    BY <2>5, Outcomes4 DEF Plan, Replaces
  <2>6. CASE Abandon(t)
    BY <2>6, Outcomes4 DEF Abandon
  <2>7. CASE Ask(t)
    BY <2>7 DEF Ask
  <2>8. CASE StorePlan(t)
    BY <2>8 DEF StorePlan
  <2>9. CASE \E e \in Events : Record(t, e)
    BY <2>9 DEF Record
  <2>10. CASE \E role \in Roles : Tell(t, role)
    BY <2>10 DEF Tell
  <2>11. CASE Lose(t)
    BY <2>11 DEF Lose, InFlight
  <2>12. QED
    BY <1>2, <2>1, <2>2, <2>3, <2>4, <2>5, <2>6, <2>7, <2>8, <2>9, <2>10, <2>11 DEF Step
<1>3. QED
  BY <1>1, <1>2 DEF Next

-----------------------------------------------------------------------------
(* The parts together are inductive. *)
LEMMA AlwaysIInv == Spec => []IInv
<1>1. Init => IInv
  BY ConstantsAssumption DEF Init, IInv, TypeOK, QuestionStatus, Labels, PhaseOK, Planning,
     Ended, Events, AnswerOK, RecordOK, ResolvedIsAnswered
<1>2. IInv /\ [Next]_vars => IInv'
  <2>1. CASE Next
    BY <2>1, NextTyping, NextPhase, NextAnswer, NextRecord, NextResolved DEF IInv
  <2>2. CASE UNCHANGED vars
    BY <2>2 DEF vars, IInv, TypeOK, PhaseOK, AnswerOK, RecordOK, ResolvedIsAnswered
  <2>3. QED
    BY <2>1, <2>2
<1>3. QED
  BY <1>1, <1>2, PTL DEF Spec

(* The variables of submit_turn and of its tables keep their types.        *)
THEOREM TypeCorrect == Spec => []TypeOK
BY AlwaysIInv, PTL DEF IInv

(* However turns interleave between latest_open, mark_resolved and         *)
(* save_plan, a question whose answer became a plan is closed.             *)
THEOREM AnswersClose == Spec => []AnsweredIsClosed
<1>1. IInv => AnsweredIsClosed
  BY ConstantsAssumption DEF IInv, TypeOK, AnswerOK, PhaseOK, Events, Ended, AnsweredIsClosed
<1>2. QED
  BY <1>1, AlwaysIInv, PTL

(* latest_open gives a turn only questions that were asked and have not    *)
(* expired by the clock of that turn.                                      *)
THEOREM FreshAnswers == Spec => []AnswersAreFresh
<1>1. IInv => AnswersAreFresh
  BY DEF IInv, AnswerOK, PhaseOK, AnswersAreFresh
<1>2. QED
  BY <1>1, AlwaysIInv, PTL

(* mark_resolved is called for an answer only, and the answer is carried   *)
(* on to a plan unless it is turned down or its turn is lost.              *)
THEOREM ResolutionsHaveAnswers == Spec => []ResolvedIsAnswered
BY AlwaysIInv, PTL DEF IInv

(* Ledger and history tell of a plan what submit_turn has stored of it.    *)
THEOREM RecordsOfPlans == Spec => []PlansAreRecorded
<1>1. IInv => PlansAreRecorded
  BY DEF IInv, TypeOK, PhaseOK, Events, Ended, RecordOK, PlansAreRecorded
<1>2. QED
  BY <1>1, AlwaysIInv, PTL

(* No update of a pending clarification opens it again.                    *)
THEOREM ClosedQuestionsStay == Spec => ClosedStays
<1>1. IInv /\ [Next]_vars => \A c \in Turns : status[c] \in Closed => status'[c] \in Closed
  <2> SUFFICES ASSUME IInv, [Next]_vars, NEW c \in Turns, status[c] \in Closed
               PROVE  status'[c] \in Closed
    OBVIOUS
  <2> USE DEF IInv, TypeOK, Closed
  <2>1. CASE Next
    <3>1. CASE \E t \in Turns, n \in Times : Start(t, n)
      BY <3>1 DEF Start
    <3>2. ASSUME NEW t \in Turns, Step(t) \/ Lose(t)
          PROVE  status'[c] \in Closed
      <4>1. CASE Ask(t)
        BY <4>1 DEF Ask, PhaseOK, Ended
      <4>2. CASE Resolve(t) \/ Abandon(t)
        BY <4>2 DEF Resolve, Abandon
      <4>3. CASE UNCHANGED status
        BY <4>3
      <4>4. QED
        BY <3>2, <4>1, <4>2, <4>3 DEF Step, ReadOpen, MatchAnswer, MatchNothing, Plan,
           StorePlan, Record, Tell, Lose
    <3>3. QED
      BY <2>1, <3>1, <3>2 DEF Next
  <2>2. CASE UNCHANGED vars
    BY <2>2 DEF vars
  <2>3. QED
    BY <2>1, <2>2
<1>2. QED
  BY <1>1, AlwaysIInv, PTL DEF Spec, ClosedStays
-----------------------------------------------------------------------------
(* Turns that come one after the other, of clients whose clocks agree,     *)
(* implement Dialogue.                                                     *)

Alone == \A t, u \in InFlight : t = u

LatestClock == \A t \in InFlight, u \in Turns : now[u] <= now[t]

OneOpen == \A c, d \in Turns : OpenToAll(c) /\ OpenToAll(d) => c = d

(* The turn being served has read the question that is open, or closed it. *)
KnowsTheOpen ==
    \A t, c \in Turns : OpenToAll(c) =>
        /\ pc[t] \in {"match", "abandon"} => seen[t] = c
        /\ pc[t] = "resolve" => answer[t] = c
        /\ pc[t] = "plan" => seen[t] = c /\ answer[t] = None
        /\ pc[t] # "ask"

(* Of two turns that answer one question one was lost before its plan.     *)
OneAnswer ==
    \A t, u \in Turns : t # u /\ answer[t] # None /\ answer[t] = answer[u] =>
        \/ pc[t] = "lost" /\ t \notin plans
        \/ pc[u] = "lost" /\ u \notin plans

SerialInv == Alone /\ LatestClock /\ OneOpen /\ KnowsTheOpen /\ OneAnswer

Serial == MaxInFlight = 1 /\ Skewed = FALSE

(* What latest_open gives the only turn there is, is what is open to all.  *)
LEMMA LatestIsOpenToAll ==
    ASSUME IInv, SerialInv, NEW t \in InFlight
    PROVE  /\ \A c \in LatestOpen(now[t]) : c \in Turns /\ OpenToAll(c) /\ status[c] = "open"
           /\ \A c \in Turns : OpenToAll(c) => c \in LatestOpen(now[t])
<1> USE ConstantsAssumption DEF IInv, TypeOK, SerialInv, InFlight
<1>1. \A c \in Turns : Open(c, now[t]) <=> OpenToAll(c)
  <2> SUFFICES ASSUME NEW c \in Turns PROVE Open(c, now[t]) <=> OpenToAll(c)
    OBVIOUS
  <2>1. OpenToAll(c) => Open(c, now[t])
    BY DEF OpenToAll
  <2>2. \A u \in Turns : now[u] <= now[t] /\ now[u] \in Nat
    BY DEF LatestClock
  <2>3. now[t] \in Nat /\ now[c] \in Nat /\ Life \in Nat
    OBVIOUS
  <2>4. Open(c, now[t]) => OpenToAll(c)
    BY <2>2, <2>3 DEF OpenToAll, Open
  <2> QED
    BY <2>1, <2>4
<1>2. \A c \in LatestOpen(now[t]) : c \in Turns /\ OpenToAll(c) /\ status[c] = "open"
  BY <1>1 DEF LatestOpen, Open
<1>3. ASSUME NEW c \in Turns, OpenToAll(c) PROVE c \in LatestOpen(now[t])
  <2>1. \A d \in Turns : Open(d, now[t]) => d = c
    BY <1>1, <1>3 DEF OneOpen
  <2>2. Older(c, c)
    BY DEF Older
  <2> QED
    BY <1>1, <1>3, <2>1, <2>2 DEF LatestOpen
<1> QED
  BY <1>2, <1>3

(* A question that opens is one just asked; the clocks only close others.  *)
LEMMA NothingReopens ==
    ASSUME IInv, Serial, NEW t \in Turns, (\E n \in Times : Start(t, n)) \/ Step(t) \/ Lose(t)
    PROVE  \A c \in Turns : OpenToAll(c)' => OpenToAll(c) \/ (Ask(t) /\ c = t)
<1> USE ConstantsAssumption DEF IInv, TypeOK
<1>1. ASSUME NEW n \in Times, Start(t, n), NEW c \in Turns, OpenToAll(c)' PROVE OpenToAll(c)
  <2>1. status[t] = "none" /\ UNCHANGED status
    BY <1>1 DEF Start, PhaseOK, Ended
  <2>2. c # t /\ status[c] = "open" /\ \A u \in Turns : now'[c] + Life > now'[u]
    BY <1>1, <2>1 DEF OpenToAll, Open
  <2>3. \A u \in Turns : u # t => now'[u] = now[u]
    BY <1>1 DEF Start
  <2>4. now'[t] = n /\ now[t] <= n /\ n \in Nat /\ now[t] \in Nat /\ now[c] \in Nat
    BY <1>1 DEF Start, Serial
  <2>5. now[c] + Life > n
    BY <2>2, <2>3, <2>4
  <2>6. now[c] + Life > now[t]
    BY <2>4, <2>5
  <2>7. \A u \in Turns : now[c] + Life > now[u]
    BY <2>2, <2>3, <2>6
  <2> QED
    BY <2>2, <2>7 DEF OpenToAll, Open
<1>2. ASSUME Resolve(t) \/ Abandon(t), NEW c \in Turns, OpenToAll(c)' PROVE OpenToAll(c)
  <2>1. UNCHANGED now /\ (status'[c] = "open" => status[c] = "open")
    BY <1>2 DEF Resolve, Abandon
  <2> QED
    BY <1>2, <2>1 DEF OpenToAll, Open
<1>3. ASSUME Ask(t), NEW c \in Turns, c # t, OpenToAll(c)' PROVE OpenToAll(c)
  <2>1. UNCHANGED now /\ status'[c] = status[c]
    BY <1>3 DEF Ask
  <2> QED
    BY <1>3, <2>1 DEF OpenToAll, Open
<1>4. CASE UNCHANGED <<status, now>>
  BY <1>4 DEF OpenToAll, Open
<1> QED
  BY <1>1, <1>2, <1>3, <1>4 DEF Step, ReadOpen, MatchAnswer, MatchNothing, Plan,
     StorePlan, Record, Tell, Lose

(* Only the turn that takes a step is served, before and after.            *)
LEMMA AloneKept ==
    ASSUME IInv, SerialInv, Serial, NEW t \in Turns,
           (\E n \in Times : Start(t, n)) \/ Step(t) \/ Lose(t)
    PROVE  /\ InFlight' \subseteq {t}
           /\ \A u \in Turns : u # t => pc'[u] = pc[u] /\ pc[u] \in {"idle", "answered", "lost"}
           /\ LatestClock'
<1> USE ConstantsAssumption DEF IInv, TypeOK, SerialInv
<1>1. ASSUME NEW n \in Times, Start(t, n) PROVE InFlight = {}
  <2>1. \A u \in InFlight : InFlight = {u}
    BY DEF Alone
  <2>2. \A u \in InFlight : Cardinality(InFlight) = 1
    <3>1. \A u \in InFlight : Cardinality({u}) = 1
      BY FS_Singleton
    <3> QED
      BY <2>1, <3>1
  <2> QED
    BY <1>1, <2>2 DEF Start, Serial
<1>2. Step(t) \/ Lose(t) => t \in InFlight
  BY DEF Step, Lose, InFlight, ReadOpen, MatchAnswer, MatchNothing, Resolve, Plan, Abandon, Ask,
     StorePlan, Record, Tell, Events, Roles
<1>3. \A u \in Turns : u # t => u \notin InFlight
  BY <1>1, <1>2 DEF Alone
<1>4. \A u \in Turns : u # t => pc'[u] = pc[u]
  BY DEF Start, Step, Lose, ReadOpen, MatchAnswer, MatchNothing, Resolve, Plan, Abandon, Ask,
     StorePlan, Record, Tell
<1>5. InFlight' \subseteq {t}
  BY <1>3, <1>4 DEF InFlight
<1>6. LatestClock'
  <2>1. ASSUME NEW n \in Times, Start(t, n) PROVE \A u \in Turns : now'[u] <= now'[t]
    BY <2>1 DEF Start, Serial
  <2>2. ASSUME Step(t) \/ Lose(t) PROVE UNCHANGED now /\ \A u \in Turns : now[u] <= now[t]
    BY <1>2, <2>2 DEF LatestClock, Step, Lose, ReadOpen, MatchAnswer, MatchNothing, Resolve, Plan,
       Abandon, Ask, StorePlan, Record, Tell
  <2> QED
    BY <1>5, <2>1, <2>2 DEF LatestClock
<1> QED
  BY <1>3, <1>4, <1>5, <1>6 DEF InFlight

(* The turn goes on knowing what is open, or has closed it.                *)
LEMMA KnowsKept ==
    ASSUME IInv, SerialInv, Serial, NEW t \in Turns,
           (\E n \in Times : Start(t, n)) \/ Step(t) \/ Lose(t)
    PROVE  OneOpen' /\ KnowsTheOpen'
<1> USE ConstantsAssumption DEF IInv, TypeOK, SerialInv
<1>1. \A u \in Turns : u # t => pc'[u] \in {"idle", "answered", "lost"}
  BY AloneKept
<1>2. \A c \in Turns : OpenToAll(c)' => OpenToAll(c) \/ (Ask(t) /\ c = t)
  BY NothingReopens
<1>3. OneOpen'
  <2>1. Ask(t) => \A c \in Turns : ~ OpenToAll(c)
    BY DEF Ask, KnowsTheOpen
  <2> QED
    BY <1>2, <2>1 DEF OneOpen
<1>4. ASSUME NEW c \in Turns, OpenToAll(c)', ~ Ask(t)
      PROVE  /\ pc'[t] \in {"match", "abandon"} => seen'[t] = c
             /\ pc'[t] = "resolve" => answer'[t] = c
             /\ pc'[t] = "plan" => seen'[t] = c /\ answer'[t] = None
             /\ pc'[t] # "ask"
  <2>1. OpenToAll(c)
    BY <1>2, <1>4
  <2>2. \A d \in Turns : OpenToAll(d) => d = c
    BY <2>1 DEF OneOpen
  <2>3. /\ pc[t] \in {"match", "abandon"} => seen[t] = c
        /\ pc[t] = "resolve" => answer[t] = c
        /\ pc[t] = "plan" => seen[t] = c /\ answer[t] = None
    BY <2>1 DEF KnowsTheOpen
  <2>4. CASE \E n \in Times : Start(t, n)
    BY <2>4 DEF Start
  <2>5. CASE ReadOpen(t)
    <3>1. t \in InFlight
      BY <2>5 DEF ReadOpen, InFlight
    <3>2. c \in LatestOpen(now[t]) /\ \A d \in LatestOpen(now[t]) : d = c
      BY <2>1, <2>2, <3>1, LatestIsOpenToAll
    <3> QED
      BY <2>5, <3>2 DEF ReadOpen
  <2>6. CASE MatchAnswer(t)
    <3>1. t \in InFlight
      BY <2>6 DEF MatchAnswer, InFlight
    <3>2. \A d \in LatestOpen(now[t]) : d = c
      BY <2>2, <3>1, LatestIsOpenToAll
    <3> QED
      BY <2>6, <3>2 DEF MatchAnswer
  <2>7. CASE MatchNothing(t)
    BY <2>3, <2>7 DEF MatchNothing, PhaseOK
  <2>8. CASE Resolve(t) \/ Abandon(t)
    <3>1. status'[c] # "open"
      BY <2>3, <2>8 DEF Resolve, Abandon
    <3> QED
      BY <1>4, <3>1 DEF OpenToAll, Open
  <2>9. ASSUME NEW o \in Outcomes, Plan(t, o)
        PROVE  pc'[t] \in {"abandon", "tell_user"} /\ (pc'[t] = "abandon" => seen'[t] = c)
    BY <2>3, <2>9, Outcomes4 DEF Plan, Replaces
  <2>10. CASE StorePlan(t) \/ (\E e \in Events : Record(t, e)) \/ (\E role \in Roles : Tell(t, role))
              \/ Lose(t)
    BY <2>10 DEF StorePlan, Record, Tell, Lose
  <2> QED
    BY <1>4, <2>4, <2>5, <2>6, <2>7, <2>8, <2>9, <2>10 DEF Step
<1>5. KnowsTheOpen'
  <2>1. Ask(t) => pc'[t] = "tell_user"
    BY DEF Ask
  <2> QED
    BY <1>1, <1>4, <2>1 DEF KnowsTheOpen
<1> QED
  BY <1>3, <1>5

(* A question is answered while it is open, and no plan answers one that   *)
(* still is.                                                               *)
LEMMA OneAnswerKept ==
    ASSUME IInv, SerialInv, Serial, NEW t \in Turns,
           (\E n \in Times : Start(t, n)) \/ Step(t) \/ Lose(t)
    PROVE  OneAnswer'
<1> USE ConstantsAssumption DEF IInv, TypeOK, SerialInv
<1>1. \A u \in Turns : u # t => pc'[u] = pc[u] /\ pc[u] \in {"idle", "answered", "lost"}
  BY AloneKept
<1>2. CASE MatchAnswer(t)
  <2>1. t \in InFlight
    BY <1>2 DEF MatchAnswer, InFlight
  <2>2. status[answer'[t]] = "open" /\ answer'[t] \in Turns
    BY <1>2, <2>1, LatestIsOpenToAll DEF MatchAnswer
  <2>3. \A u \in Turns : u # t /\ answer[u] = answer'[t] => pc[u] = "lost" /\ u \notin plans
    BY <1>1, <2>2 DEF AnswerOK, Closed
  <2>4. UNCHANGED plans /\ \A u \in Turns : u # t => answer'[u] = answer[u] /\ pc'[u] = pc[u]
    BY <1>2, <1>1 DEF MatchAnswer
  <2> QED
    BY <2>3, <2>4 DEF OneAnswer
<1>3. CASE ~ MatchAnswer(t)
  <2>1. UNCHANGED answer
    BY <1>3 DEF Start, Step, Lose, ReadOpen, MatchNothing, Resolve, Plan, Abandon, Ask,
       StorePlan, Record, Tell
  <2>2. pc[t] # "lost"
    BY DEF Start, Step, Lose, InFlight, ReadOpen, MatchAnswer, MatchNothing, Resolve, Plan, Abandon,
       Ask, StorePlan, Record, Tell, Events, Roles
  <2>3. \A u \in Turns : u # t => (u \in plans' <=> u \in plans)
    BY <1>3 DEF Start, Step, Lose, ReadOpen, MatchNothing, Resolve, Plan, Abandon, Ask,
       StorePlan, Record, Tell
  <2> QED
    BY <1>1, <2>1, <2>2, <2>3 DEF OneAnswer
<1> QED
  BY <1>2, <1>3

LEMMA AlwaysSerial ==
    ASSUME Serial
    PROVE  Spec => []SerialInv
<1>1. Init => SerialInv
  BY ConstantsAssumption DEF Init, SerialInv, Alone, LatestClock, OneOpen, KnowsTheOpen, OneAnswer,
     InFlight, OpenToAll, Open
<1>2. IInv /\ SerialInv /\ [Next]_vars => SerialInv'
  <2> SUFFICES ASSUME IInv, SerialInv, [Next]_vars PROVE SerialInv'
    OBVIOUS
  <2>1. CASE Next
    <3>1. PICK t \in Turns : (\E n \in Times : Start(t, n)) \/ Step(t) \/ Lose(t)
      BY <2>1 DEF Next
    <3>2. Alone' /\ LatestClock'
      BY <3>1, AloneKept DEF Alone
    <3> QED
      BY <3>1, <3>2, KnowsKept, OneAnswerKept DEF SerialInv
  <2>2. CASE UNCHANGED vars
    BY <2>2 DEF vars, SerialInv, Alone, LatestClock, OneOpen, KnowsTheOpen, OneAnswer, InFlight,
       OpenToAll, Open
  <2> QED
    BY <2>1, <2>2
<1> QED
  BY <1>1, <1>2, AlwaysIInv, PTL DEF Spec

(* A question that was asked stays asked.                                  *)
LEMMA AskedStays ==
    ASSUME IInv, NEW t \in Turns, (\E n \in Times : Start(t, n)) \/ Step(t) \/ Lose(t), ~ Ask(t)
    PROVE  \A c \in Turns : status'[c] = "none" <=> status[c] = "none"
<1> USE ConstantsAssumption DEF IInv, TypeOK
<1>1. CASE Resolve(t) \/ Abandon(t)
  <2>1. answer[t] \in Turns => status[answer[t]] # "none"
    BY DEF AnswerOK
  <2>2. seen[t] \in Turns => status[seen[t]] # "none"
    BY DEF AnswerOK
  <2> QED
    BY <1>1, <2>1, <2>2 DEF Resolve, Abandon, PhaseOK
<1>2. CASE UNCHANGED status
  BY <1>2
<1> QED
  BY <1>1, <1>2 DEF Start, Step, Lose, ReadOpen, MatchAnswer, MatchNothing, Plan,
     StorePlan, Record, Tell

(* Each step is one of Dialogue, or none.                                  *)
LEMMA DialogueStep ==
    ASSUME IInv, SerialInv, Serial, NEW t \in Turns,
           (\E n \in Times : Start(t, n)) \/ Step(t) \/ Lose(t)
    PROVE  Talk!Next \/ UNCHANGED <<DialogueState, DialoguePlans>>
<1> USE ConstantsAssumption DEF IInv, TypeOK, SerialInv
<1>1. CASE Ask(t)
  <2>1. \A c \in Turns : ~ OpenToAll(c)
    BY <1>1 DEF Ask, KnowsTheOpen
  <2>2. \A c \in Turns : c # t => ~ OpenToAll(c)' /\ status'[c] = status[c]
    BY <1>1, <2>1, NothingReopens DEF Ask
  <2>3. status[t] = "none"
    BY <1>1 DEF Ask, PhaseOK, Ended
  <2>4. t \in InFlight
    BY <1>1 DEF Ask, InFlight
  <2>5. OpenToAll(t)'
    <3>1. \A u \in Turns : now[u] <= now[t] /\ now[u] \in Nat
      BY <2>4 DEF LatestClock
    <3>2. \A u \in Turns : now[t] + Life > now[u]
      BY <3>1
    <3>3. status'[t] = "open" /\ UNCHANGED now
      BY <1>1 DEF Ask
    <3> QED
      BY <3>2, <3>3 DEF OpenToAll, Open
  <2>6. DialogueState' = [DialogueState EXCEPT ![t] = "open"]
    <3>1. status'[t] # "none"
      BY <1>1 DEF Ask
    <3> QED
      BY <2>1, <2>2, <2>5, <3>1 DEF DialogueState
  <2>7. UNCHANGED DialoguePlans
    BY <1>1 DEF Ask, DialoguePlans
  <2>8. DialogueState[t] = "unasked" /\ \A c \in Turns : DialogueState[c] # "open"
    BY <2>1, <2>3 DEF DialogueState
  <2> QED
    BY <2>6, <2>7, <2>8 DEF Talk!Next, Talk!Ask
<1>2. CASE StorePlan(t)
  <2>1. UNCHANGED DialogueState
    BY <1>2 DEF StorePlan, DialogueState, OpenToAll, Open
  <2>2. plans' = plans \cup {t} /\ UNCHANGED answer /\ t \notin plans
    BY <1>2 DEF StorePlan, PhaseOK, Events, Ended
  <2>3. CASE answer[t] = None
    <3>1. \A c \in Turns : {u \in plans' : answer'[u] = c} = {u \in plans : answer[u] = c}
      BY <2>2, <2>3
    <3> QED
      BY <2>1, <3>1 DEF DialoguePlans
  <2>4. CASE answer[t] \in Turns
    <3> DEFINE q == answer[t]
    <3>1. \A u \in plans : answer[u] # q
      BY <1>2, <2>2, <2>4 DEF OneAnswer, StorePlan
    <3>2. {u \in plans : answer[u] = q} = {} /\ {u \in plans' : answer'[u] = q} = {t}
      BY <2>2, <3>1
    <3>3. DialoguePlans[q] = 0 /\ Cardinality({u \in plans' : answer'[u] = q}) = 1
      BY <2>4, <3>2, FS_EmptySet, FS_Singleton DEF DialoguePlans
    <3>4. \A c \in Turns : c # q =>
             {u \in plans' : answer'[u] = c} = {u \in plans : answer[u] = c}
      BY <2>2
    <3>5. DialoguePlans' = [DialoguePlans EXCEPT ![q] = 1]
      <4>1. DialoguePlans = [c \in Turns |-> Cardinality({u \in plans : answer[u] = c})]
            /\ DialoguePlans' = [c \in Turns |-> Cardinality({u \in plans' : answer'[u] = c})]
        BY DEF DialoguePlans
      <4>2. \A c \in Turns : c # q => DialoguePlans'[c] = DialoguePlans[c]
        BY <3>4, <4>1
      <4>3. DialoguePlans'[q] = 1
        BY <2>4, <3>3, <4>1
      <4> QED
        BY <4>1, <4>2, <4>3
    <3>6. status[q] \in Closed
      BY <1>2, <2>4 DEF AnswerOK, StorePlan
    <3>7. DialogueState[q] = "closed"
      BY <2>4, <3>6 DEF DialogueState, OpenToAll, Open, Closed
    <3> QED
      BY <2>1, <2>4, <3>3, <3>5, <3>7 DEF Talk!Next, Talk!PlanFor
  <2> QED
    BY <2>3, <2>4
<1>3. CASE ~ Ask(t) /\ ~ StorePlan(t)
  <2>1. UNCHANGED plans
    BY <1>3 DEF Start, Step, Lose, ReadOpen, MatchAnswer, MatchNothing, Resolve, Plan, Abandon,
       Record, Tell
  <2>2. \A u \in plans : answer'[u] = answer[u]
    <3>1. CASE MatchAnswer(t)
      BY <3>1 DEF MatchAnswer, PhaseOK, Events, Ended
    <3>2. CASE UNCHANGED answer
      BY <3>2
    <3> QED
      BY <1>3, <3>1, <3>2 DEF Start, Step, Lose, ReadOpen, MatchNothing, Resolve, Plan, Abandon,
         Record, Tell
  <2>3. UNCHANGED DialoguePlans
    <3>1. \A c \in Turns : {u \in plans' : answer'[u] = c} = {u \in plans : answer[u] = c}
      BY <2>1, <2>2
    <3> QED
      BY <3>1 DEF DialoguePlans
  <2>4. \A c \in Turns : (OpenToAll(c)' => OpenToAll(c))
                      /\ (status'[c] = "none" <=> status[c] = "none")
    BY <1>3, NothingReopens, AskedStays
  <2>5. ASSUME NEW q \in Turns, OpenToAll(q), ~ OpenToAll(q)'
        PROVE  Talk!Close(q)
    <3>1. \A c \in Turns : c # q => ~ OpenToAll(c) /\ ~ OpenToAll(c)'
      BY <2>4, <2>5 DEF OneOpen
    <3>2. status[q] # "none"
      BY <2>5 DEF OpenToAll, Open
    <3>3. DialogueState' = [DialogueState EXCEPT ![q] = "closed"]
      BY <2>4, <2>5, <3>1, <3>2 DEF DialogueState
    <3>4. DialogueState[q] = "open"
      BY <2>5, <3>2 DEF DialogueState
    <3> QED
      BY <2>3, <3>3, <3>4 DEF Talk!Close
  <2>6. ASSUME \A q \in Turns : OpenToAll(q) => OpenToAll(q)'
        PROVE  UNCHANGED DialogueState
    <3>1. \A q \in Turns : OpenToAll(q) <=> OpenToAll(q)'
      BY <2>4, <2>6
    <3> QED
      BY <2>4, <3>1 DEF DialogueState
  <2> QED
    BY <2>3, <2>5, <2>6 DEF Talk!Next
<1> QED
  BY <1>1, <1>2, <1>3

(* One question at a time is open, and its answer makes at most one plan,  *)
(* when turns are served one after the other for clients whose clocks      *)
(* agree, any of which may be lost halfway (latest_open, mark_resolved,    *)
(* mark_abandoned and _save_planning_clarification).                       *)
THEOREM TurnsAreADialogue ==
    ASSUME MaxInFlight = 1, Skewed = FALSE
    PROVE  Spec => ImplementsDialogue
<1>1. Init => Talk!Init
  <2> SUFFICES ASSUME Init PROVE Talk!Init
    OBVIOUS
  <2>1. DialogueState = [c \in Turns |-> "unasked"]
    BY DEF Init, DialogueState
  <2>2. \A c \in Turns : {t \in plans : answer[t] = c} = {}
    BY DEF Init
  <2>3. DialoguePlans = [c \in Turns |-> 0]
    BY <2>2, FS_EmptySet DEF DialoguePlans
  <2> QED
    BY <2>1, <2>3 DEF Talk!Init
<1>2. IInv /\ SerialInv /\ [Next]_vars => [Talk!Next]_(Talk!vars)
  <2> SUFFICES ASSUME IInv, SerialInv, [Next]_vars
               PROVE  Talk!Next \/ UNCHANGED <<DialogueState, DialoguePlans>>
    BY DEF Talk!vars
  <2>1. CASE Next
    <3>1. PICK t \in Turns : (\E n \in Times : Start(t, n)) \/ Step(t) \/ Lose(t)
      BY <2>1 DEF Next
    <3> QED
      BY <3>1, DialogueStep DEF Serial
  <2>2. CASE UNCHANGED vars
    <3>1. UNCHANGED DialogueState
      BY <2>2 DEF vars, DialogueState, OpenToAll, Open
    <3>2. UNCHANGED DialoguePlans
      BY <2>2 DEF vars, DialoguePlans
    <3> QED
      BY <3>1, <3>2
  <2> QED
    BY <2>1, <2>2
<1>3. Spec => []SerialInv
  BY AlwaysSerial DEF Serial
<1> QED
  BY <1>1, <1>2, <1>3, AlwaysIInv, PTL DEF Spec, ImplementsDialogue, Talk!Spec
=============================================================================
