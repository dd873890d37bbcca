--------------------------- MODULE Workbench_proofs ---------------------------
(***************************************************************************)
(* The page tells of a plan only decisions that a request was let in to    *)
(* take and that were saved, for any plans, facts and handlers, any        *)
(* failures, requests of other clients that overlap and a page that is     *)
(* closed at any time; and an edit moves nothing else. A page whose        *)
(* handlers do not overlap and whose requests do not fail is, when it is   *)
(* quiet, up to date in what it offers and shows and has given native. Its *)
(* lists and its timeline leave out no row that must be there, and offer   *)
(* no button that is refused.                                              *)
(***************************************************************************)
EXTENDS WorkbenchProperties, FactLists, FactEditing, FiniteSetTheorems,
        SequenceTheorems, WellFoundedInduction, TLAPS

Stages == {"unused", "sent", "deciding", "served", "refused", "first", "second", "orphan",
           "done"}
Docks == {"idle", "understanding", "executing", "confirming", "completed", "failed"}
ElementKinds == {"user", "reply", "intake", "error", "summary", "card", "result", "cancelled",
                 "files", "history-user", "history-reply"}
Elements == [kind: ElementKinds, of: Plans \cup Jobs \cup {None}, token: Tokens \cup {None}]
Turns == [by: Jobs, plan: Plans \cup {None}]
Reads == Surfaces \cup {"turns", "pending", "files"}
Handlers == [kind: JobKinds \cup {"none"}, of: Plans \cup Facts \cup {None},
             token: Tokens \cup {None}, stage: Stages, sync: BOOLEAN,
             focus: Facts \cup {None}, history: BOOLEAN, got: SUBSET Reads,
             facts: [Facts -> FactStatus], turns: SUBSET Turns,
             pending: SUBSET Plans, files: SUBSET Jobs]

Decided == {"succeeded", "failed", "rejected"}
DecisionRecords == [plan: Plans \cup {None}, outcome: Decided \cup {None},
                    stage: {"none", "allowed", "decided", "saved", "lost"}]

BackendTypes ==
    /\ plan \in [Plans -> PlanStatus]
    /\ fact \in [Facts -> FactStatus]
    /\ turns \subseteq Turns
    /\ files \subseteq Jobs
    /\ live \subseteq Plans \X Tokens
    /\ decision \in [Requests -> DecisionRecords]

PageTypes ==
    /\ open \in BOOLEAN /\ submitted \in BOOLEAN
    /\ platform \in {"ios", None}
    /\ focused \in Facts \cup {None} /\ highlighted \in Facts \cup {None}
    /\ draft \in Facts \cup {None}
    /\ storage \in [Plans -> {Original, None}]
    /\ conversation \subseteq Elements
    /\ shown \in [Facts -> FactStatus] /\ synced \in [Facts -> FactStatus]
    /\ dock \in Docks

JobTypes == job \in [Jobs -> Handlers]

PageTypeOK == BackendTypes /\ PageTypes /\ JobTypes

-----------------------------------------------------------------------------
(* What the requests to decide a plan leave behind: a fact that is there   *)
(* was written by one that executes, and what is saved of a plan is the    *)
(* outcome of one that was saved.                                          *)
RequestOk(r) ==
    /\ decision[r].stage = "none" <=> decision[r].plan = None
    /\ decision[r].stage = "allowed" => decision[r].outcome # "rejected"
    /\ decision[r].stage \in {"decided", "saved"} => decision[r].outcome \in Decided
    /\ Saved(r) => plan[decision[r].plan] \in Decided

DecisionsSound ==
    /\ \A r \in Requests : RequestOk(r)
    /\ \A p \in Plans : fact[Creates[p]] # "absent" => Executions(p) # {}
    /\ \A p \in Plans : plan[p] \in Decided =>
          \E r \in AskedOf(p) : Saved(r) /\ decision[r].outcome = plan[p]

Executed(ds, p) ==
    \E d \in Requests : ds[d].plan = p /\ ds[d].stage = "saved" /\ ds[d].outcome # "rejected"
Rejected(ds, p) ==
    \E d \in Requests : ds[d].plan = p /\ ds[d].stage = "saved" /\ ds[d].outcome = "rejected"

(* What a handler is about, how far its request has come in the backend,   *)
(* and what it was answered.                                               *)
Knows(j, r, ds, said) ==
    /\ r.kind \in {"confirm", "cancel"} => r.of \in Plans
    /\ r.kind = "submit" => r.of \in Plans \cup {None}
    /\ r.kind \in {"direct", "edit"} => r.of \in Facts
    /\ r.stage \in {"unused", "sent", "orphan"} => ds[j].stage = "none"
    /\ r.stage = "deciding" =>
          /\ ds[j].plan = r.of /\ ds[j].stage \in {"allowed", "decided"}
          /\ r.kind = IF ds[j].outcome = "rejected" THEN "cancel" ELSE "confirm"
    /\ r.kind = "cancel" /\ r.stage \in {"served", "first", "second"} => Rejected(ds, r.of)
    /\ r.kind = "confirm" /\ r.stage \in {"served", "first", "second"} => Executed(ds, r.of)
    /\ r.turns \subseteq said

HandlersKnow == \A j \in Jobs : Knows(j, job[j], decision, turns)

(* Turns are of handlers that were started.                                *)
Started(j) == job[j].stage # "unused"
TurnsStarted == \A t \in turns : Started(t.by)

(* What stands in the conversation is of plans and of handlers that were   *)
(* started, and what was typed was typed on this page.                     *)
Grounded(e) ==
    /\ e.kind = "card" => e.of \in Plans
    /\ e.kind \in {"user", "history-user"} => e.of \in Jobs /\ Started(e.of)
    /\ e.kind = "user" => submitted
ElementsGrounded == \A e \in conversation : Grounded(e)

PageInv ==
    /\ PageTypeOK
    /\ DecisionsSound
    /\ HandlersKnow
    /\ TurnsStarted
    /\ ElementsGrounded
    /\ ToldTheTruth
    /\ NoTurnTwice

-----------------------------------------------------------------------------
(* What is saved stays saved, and no turn is forgotten.                    *)
Onwards ==
    /\ \A d \in Requests : decision[d].stage = "saved" => decision'[d] = decision[d]
    /\ turns \subseteq turns'

LEMMA StaysDecided ==
    ASSUME Onwards, NEW p
    PROVE  /\ Executed(decision, p) => Executed(decision', p)
           /\ Rejected(decision, p) => Rejected(decision', p)
  BY DEF Onwards, Executed, Rejected

LEMMA KnowsLater ==
    ASSUME NEW j, NEW r, Knows(j, r, decision, turns), Onwards, decision'[j] = decision[j]
    PROVE  Knows(j, r, decision', turns')
  <1>1. /\ Executed(decision, r.of) => Executed(decision', r.of)
        /\ Rejected(decision, r.of) => Rejected(decision', r.of)
    BY StaysDecided
  <1>2. r.turns \subseteq turns'
    BY DEF Knows, Onwards
  <1> QED  BY <1>1, <1>2 DEF Knows

(* A step of one handler.                                                  *)
Takes(j, r) ==
    /\ job' = [job EXCEPT ![j] = r]
    /\ r \in Handlers /\ r.stage # "unused"
    /\ Knows(j, r, decision', turns')
    /\ \A k \in Jobs : k # j => decision'[k] = decision[k]

LEMMA OneHandler ==
    ASSUME PageInv, NEW j \in Jobs, NEW r, Takes(j, r), Onwards
    PROVE  /\ JobTypes' /\ HandlersKnow'
           /\ \A k \in Jobs : k # j => job'[k] = job[k]
           /\ \A k \in Jobs : Started(k) => Started(k)'
           /\ Started(j)'
  <1>1. JobTypes'
    BY DEF PageInv, PageTypeOK, JobTypes, Takes
  <1>2. job'[j] = r /\ \A k \in Jobs : k # j => job'[k] = job[k]
    BY DEF PageInv, PageTypeOK, JobTypes, Takes
  <1>3. Started(j)' /\ \A k \in Jobs : Started(k) => Started(k)'
    BY <1>2 DEF Started, Takes
  <1>4. ASSUME NEW k \in Jobs PROVE Knows(k, job'[k], decision', turns')
    <2>1. CASE k = j
      BY <2>1, <1>2 DEF Takes
    <2>2. CASE k # j
      <3>1. Knows(k, job[k], decision, turns) /\ decision'[k] = decision[k]
        BY <2>2 DEF PageInv, HandlersKnow, Takes
      <3> QED  BY <2>2, <3>1, <1>2, KnowsLater
    <2> QED  BY <2>1, <2>2
  <1> QED  BY <1>1, <1>2, <1>3, <1>4 DEF HandlersKnow

(* Elements a step may add: decisions that were taken, and turns out of    *)
(* the history as long as nothing was typed on this page.                  *)
Founded(e) ==
    /\ e \in Elements
    /\ e.kind # "user"
    /\ e.kind = "card" => e.of \in Plans
    /\ e.kind = "result" => Executed(decision', e.of)
    /\ e.kind = "cancelled" => Rejected(decision', e.of)
    /\ e.kind = "history-user" => ~ submitted' /\ e.of \in Jobs /\ Started(e.of)

(* What was decided and saved is told rightly.                             *)
LEMMA DecidedIsTold ==
    ASSUME DecisionsSound, fact \in [Facts -> FactStatus], NEW p \in Plans
    PROVE  /\ Rejected(decision, p) =>
                 /\ \E r \in Rejections(p) : Saved(r)
                 /\ Executions(p) = {} => plan[p] = "rejected" /\ fact[Creates[p]] = "absent"
           /\ Executed(decision, p) =>
                 /\ \E r \in Executions(p) : Saved(r)
                 /\ Rejections(p) = {} => plan[p] \in {"succeeded", "failed"}
  <1>1. Rejected(decision, p) => \E r \in Rejections(p) : Saved(r)
    BY DEF Rejected, Rejections, AskedOf, Saved
  <1>2. Executed(decision, p) => \E r \in Executions(p) : Saved(r)
    BY DEF Executed, Executions, Rejections, AskedOf, Saved
  <1>3. ASSUME NEW r \in AskedOf(p), Saved(r)
        PROVE  \E q \in AskedOf(p) : Saved(q) /\ decision[q].outcome = plan[p] /\ plan[p] \in Decided
    BY <1>3 DEF DecisionsSound, RequestOk, AskedOf
  <1>4. ASSUME NEW q \in AskedOf(p), decision[q].outcome = plan[p], plan[p] \in Decided
        PROVE  /\ Executions(p) = {} => plan[p] = "rejected"
               /\ Rejections(p) = {} => plan[p] \in {"succeeded", "failed"}
    BY <1>4 DEF Executions, Rejections, Decided
  <1>5. Executions(p) = {} => fact[Creates[p]] = "absent"
    BY DEF DecisionsSound
  <1>6. Rejections(p) \subseteq AskedOf(p) /\ Executions(p) \subseteq AskedOf(p)
    BY DEF Executions, Rejections
  <1> QED  BY <1>1, <1>2, <1>3, <1>4, <1>5, <1>6

TellsDecided ==
    \A p \in Plans : /\ Told("cancelled", p) => Rejected(decision, p)
                     /\ Told("result", p) => Executed(decision, p)

LEMMA TellingIsTrue ==
    DecisionsSound /\ fact \in [Facts -> FactStatus] /\ TellsDecided => ToldTheTruth
  BY DecidedIsTold DEF ToldTheTruth, TellsDecided

LEMMA WhatIsTold ==
    ASSUME ToldTheTruth, NEW p \in Plans
    PROVE  /\ Told("cancelled", p) => Rejected(decision, p)
           /\ Told("result", p) => Executed(decision, p)
  BY DEF ToldTheTruth, Executions, Rejections, AskedOf, Saved, Rejected, Executed

LEMMA ScreenKept ==
    ASSUME PageInv, \A e \in conversation' : e \in conversation \/ Founded(e),
           submitted => submitted', Onwards, DecisionsSound', BackendTypes',
           \A k \in Jobs : Started(k) => Started(k)'
    PROVE  (conversation \subseteq Elements)' /\ ElementsGrounded' /\ ToldTheTruth' /\ NoTurnTwice'
  <1>1. (conversation \subseteq Elements)'
    BY DEF PageInv, PageTypeOK, PageTypes, Founded
  <1>2. ElementsGrounded'
    BY DEF PageInv, ElementsGrounded, Grounded, Founded
  <1>3. ToldTheTruth'
    <2>1. ASSUME NEW p \in Plans
          PROVE  /\ Told("cancelled", p)' => Rejected(decision, p)'
                 /\ Told("result", p)' => Executed(decision, p)'
      <3>1. /\ Told("cancelled", p) => Rejected(decision', p)
            /\ Told("result", p) => Executed(decision', p)
        BY WhatIsTold, StaysDecided DEF PageInv
      <3>2. /\ Founded(Element("cancelled", p)) => Rejected(decision', p)
            /\ Founded(Element("result", p)) => Executed(decision', p)
        BY DEF Founded, Element
      <3>3. /\ Rejected(decision', p) <=> Rejected(decision, p)'
            /\ Executed(decision', p) <=> Executed(decision, p)'
        BY DEF Rejected, Executed
      <3> QED  BY <3>1, <3>2, <3>3 DEF Told
    <2>2. DecisionsSound' /\ (fact \in [Facts -> FactStatus])'
      BY DEF BackendTypes
    <2>3. (DecisionsSound /\ fact \in [Facts -> FactStatus] /\ TellsDecided => ToldTheTruth)'
      BY TellingIsTrue, PTL
    <2> QED  BY <2>1, <2>2, <2>3 DEF TellsDecided
  <1>4. \A k \in Jobs : Element("user", k) \in conversation' =>
                            Element("user", k) \in conversation /\ submitted
    BY DEF Founded, Element, PageInv, ElementsGrounded, Grounded
  <1>5. \A k \in Jobs : Element("history-user", k) \in conversation' =>
                            Element("history-user", k) \in conversation \/ ~ submitted'
    BY DEF Founded, Element
  <1>6. NoTurnTwice'
    BY <1>4, <1>5 DEF PageInv, NoTurnTwice
  <1> QED  BY <1>1, <1>2, <1>3, <1>6

(* What most steps keep: a handler goes on, and what it adds is founded. *)
LEMMA HandlerStep ==
    ASSUME PageInv, NEW j \in Jobs, NEW r, Takes(j, r), Onwards,
           BackendTypes', DecisionsSound', \A t \in turns' \ turns : t.by = j,
           (conversation \subseteq Elements)' => PageTypes',
           \A e \in conversation' : e \in conversation \/ Founded(e),
           submitted => submitted'
    PROVE  PageInv'
  <1>1. /\ JobTypes' /\ HandlersKnow' /\ Started(j)'
        /\ \A k \in Jobs : Started(k) => Started(k)'
    BY OneHandler
  <1>2. (conversation \subseteq Elements)' /\ ElementsGrounded' /\ ToldTheTruth' /\ NoTurnTwice'
    BY <1>1, ScreenKept
  <1>3. TurnsStarted'
    <2>1. turns' \subseteq Turns
      BY DEF BackendTypes
    <2> QED  BY <1>1, <2>1 DEF PageInv, TurnsStarted, Turns
  <1> QED  BY <1>1, <1>2, <1>3 DEF PageInv, PageTypeOK

-----------------------------------------------------------------------------
(* The handlers that begin.                                                *)
LEMMA NoJobTyped == NoJob \in Handlers
  BY DEF NoJob, EmptySurfaces, Handlers, Stages, FactStatus

LEMMA BeginTakes ==
    ASSUME PageInv, NEW j \in Jobs, NEW kind \in JobKinds, NEW of \in Plans \cup Facts \cup {None},
           NEW token \in Tokens \cup {None}, NEW stage \in {"sent", "first"}, NEW sync \in BOOLEAN,
           NEW tapped \in Facts \cup {None}, NEW history \in BOOLEAN,
           Begin(j, kind, of, token, stage, sync, tapped, history), Onwards,
           kind \in {"confirm", "cancel"} => of \in Plans /\ stage = "sent",
           kind = "submit" => of = None, kind \in {"direct", "edit"} => of \in Facts,
           decision' = decision
    PROVE  job[j].stage = "unused" /\ \E r : Takes(j, r)
  <1> DEFINE r == [NoJob EXCEPT !.kind = kind, !.of = of, !.token = token,
                     !.stage = stage, !.sync = sync, !.focus = tapped, !.history = history]
  <1>1. /\ r \in Handlers /\ r.kind = kind /\ r.of = of /\ r.stage = stage
        /\ r.turns = {}
    <2>1. EmptySurfaces \in [Facts -> FactStatus]
      BY DEF EmptySurfaces, FactStatus
    <2> QED  BY <2>1, ZenonT(40) DEF NoJob, Handlers, Stages
  <1>2. job' = [job EXCEPT ![j] = r] /\ job[j].stage = "unused"
    BY DEF Begin
  <1>3. Knows(j, r, decision', turns')
    <2>1. decision[j].stage = "none"
      BY <1>2 DEF PageInv, HandlersKnow, Knows
    <2> QED  BY <1>1, <2>1 DEF Knows
  <1>4. Takes(j, r)
    BY <1>1, <1>2, <1>3 DEF Takes
  <1> QED  BY <1>2, <1>4

LEMMA SoundKept ==
    ASSUME DecisionsSound, UNCHANGED <<plan, fact, decision>>
    PROVE  DecisionsSound'
  BY DEF DecisionsSound, RequestOk, Executions, Rejections, AskedOf, Saved

LEMMA BackendKept ==
    ASSUME PageInv, UNCHANGED backend
    PROVE  /\ BackendTypes' /\ DecisionsSound' /\ Onwards
           /\ turns' = turns /\ plan' = plan /\ decision' = decision
  BY SoundKept DEF PageInv, PageTypeOK, BackendTypes, Onwards, backend

LEMMA BeginOnAPage ==
    ASSUME ConstantsOk, PageInv, NEW j \in Jobs,
           \/ Open(j) \/ \E f \in Facts : ViewChanged(j, f)
           \/ HandleConfirm(j) \/ HandleCancel(j) \/ HandleSummaryAction(j)
           \/ HandleSubmitSummaryEdit(j)
    PROVE  PageInv'
  <1>1. UNCHANGED backend /\ conversation' = conversation /\ submitted' = submitted
    BY DEF Open, ViewChanged, HandleConfirm, HandleCancel, HandleSummaryAction,
           HandleSubmitSummaryEdit, screen, session
  <1>2. BackendTypes' /\ DecisionsSound' /\ Onwards /\ UNCHANGED <<turns, decision>>
    BY <1>1, BackendKept
  <1>3. \E r : Takes(j, r)
    <2>0. BackendTypes /\ PageTypes /\ None \notin Facts
      BY DEF PageInv, PageTypeOK, ConstantsOk
    <2>1. CASE Open(j)
      BY <2>1, <1>2, BeginTakes DEF Open, BeginRefresh, JobKinds
    <2>2. CASE \E f \in Facts : ViewChanged(j, f)
      BY <2>2, <1>2, BeginTakes DEF ViewChanged, BeginRefresh, JobKinds
    <2>3. CASE HandleConfirm(j)
      <3>1. PICK e \in conversation :
               e.kind = "card" /\ BeginOnPage(j, "confirm", e.of, e.token, TRUE)
        BY <2>3 DEF HandleConfirm
      <3>2. e.of \in Plans /\ e.token \in Tokens \cup {None}
        BY <2>0, <3>1 DEF PageInv, ElementsGrounded, Grounded, PageTypes, Elements
      <3> QED  BY <2>0, <3>1, <3>2, <1>2, BeginTakes DEF BeginOnPage, JobKinds, PageTypes
    <2>4. CASE HandleCancel(j)
      <3>1. PICK e \in conversation :
               e.kind = "card" /\ BeginOnPage(j, "cancel", e.of, None, TRUE)
        BY <2>4 DEF HandleCancel
      <3>2. e.of \in Plans
        BY <3>1 DEF PageInv, ElementsGrounded, Grounded
      <3> QED  BY <2>0, <3>1, <3>2, <1>2, BeginTakes DEF BeginOnPage, JobKinds, PageTypes
    <2>5. CASE HandleSummaryAction(j)
      BY <2>0, <2>5, <1>2, BeginTakes DEF HandleSummaryAction, BeginOnPage, JobKinds, PageTypes
    <2>6. CASE HandleSubmitSummaryEdit(j)
      BY <2>0, <2>6, <1>2, BeginTakes
         DEF HandleSubmitSummaryEdit, BeginOnPage, JobKinds, PageTypes
    <2> QED  BY <2>1, <2>2, <2>3, <2>4, <2>5, <2>6
  <1>4. PageTypes'
    <2>1. PageTypes
      BY DEF PageInv, PageTypeOK
    <2> QED  BY <2>1 DEF PageTypes, Open, ViewChanged, HandleConfirm, HandleCancel,
                HandleSummaryAction, HandleSubmitSummaryEdit, screen, session, Docks
  <1>5. PICK r : Takes(j, r)
    BY <1>3
  <1> QED  BY <1>1, <1>2, <1>4, <1>5, HandlerStep

LEMMA BeginAnew ==
    ASSUME ConstantsOk, PageInv, NEW j \in Jobs, HostContext(j)
    PROVE  PageInv'
  <1>1. UNCHANGED backend /\ conversation' = {} /\ submitted' = submitted
    BY DEF HostContext, session
  <1>2. BackendTypes' /\ DecisionsSound' /\ Onwards /\ UNCHANGED <<turns, decision>>
    BY <1>1, BackendKept
  <1>3. PICK r : Takes(j, r)
    BY <1>2, BeginTakes DEF HostContext, BeginRefresh, JobKinds
  <1>4. PageTypes'
    <2>1. PageTypes
      BY DEF PageInv, PageTypeOK
    <2> QED  BY <2>1 DEF PageTypes, HostContext, session, EmptySurfaces, FactStatus
  <1> QED  BY <1>1, <1>2, <1>3, <1>4, HandlerStep

(* What is typed stands in the conversation: it was not there before, in   *)
(* the history either, as its handler had not begun.                       *)
LEMMA BeginTyped ==
    ASSUME ConstantsOk, PageInv, NEW j \in Jobs,
           HandleSubmittedText(j) \/ HandleSubmittedAttachment(j)
    PROVE  PageInv'
  <1>1. /\ UNCHANGED backend /\ submitted' = TRUE
        /\ conversation' = conversation \cup {Element("user", j)}
    BY DEF HandleSubmittedText, HandleSubmittedAttachment
  <1>2. BackendTypes' /\ DecisionsSound' /\ Onwards /\ UNCHANGED <<turns, decision>>
    BY <1>1, BackendKept
  <1>3. job[j].stage = "unused" /\ \E r : Takes(j, r)
    <2>0. BackendTypes /\ PageTypes
      BY DEF PageInv, PageTypeOK
    <2>1. CASE HandleSubmittedText(j)
      BY <2>0, <2>1, <1>2, BeginTakes
         DEF HandleSubmittedText, BeginFromNative, BeginOnPage, JobKinds, PageTypes
    <2>2. CASE HandleSubmittedAttachment(j)
      BY <2>2, <1>2, BeginTakes DEF HandleSubmittedAttachment, BeginFromNative, JobKinds
    <2> QED  BY <2>1, <2>2
  <1>4. PICK r : Takes(j, r)
    BY <1>3
  <1>5. /\ JobTypes' /\ HandlersKnow' /\ Started(j)'
        /\ \A k \in Jobs : Started(k) => Started(k)'
    BY <1>2, <1>4, OneHandler
  <1>6. PageTypes'
    <2>1. PageTypes
      BY DEF PageInv, PageTypeOK
    <2>2. Element("user", j) \in Elements
      BY DEF Element, Elements, ElementKinds
    <2> QED  BY <1>1, <2>1, <2>2 DEF PageTypes, HandleSubmittedText, HandleSubmittedAttachment, Docks
  <1>7. ElementsGrounded'
    BY <1>1, <1>5 DEF PageInv, ElementsGrounded, Grounded, Element
  <1>8. ToldTheTruth'
    BY <1>1 DEF PageInv, ToldTheTruth, Told, Element, Executions, Rejections, AskedOf, Saved, backend
  <1>9. NoTurnTwice'
    <2>1. Element("history-user", j) \notin conversation
      BY <1>3 DEF PageInv, ElementsGrounded, Grounded, Element, Started
    <2>2. \A k \in Jobs : /\ Element("history-user", k) \in conversation' =>
                                Element("history-user", k) \in conversation
                          /\ k # j /\ Element("user", k) \in conversation' =>
                                Element("user", k) \in conversation
      BY <1>1 DEF Element
    <2> QED  BY <2>1, <2>2 DEF PageInv, NoTurnTwice
  <1>10. TurnsStarted'
    BY <1>2, <1>5 DEF PageInv, PageTypeOK, BackendTypes, TurnsStarted, Turns
  <1> QED  BY <1>2, <1>5, <1>6, <1>7, <1>8, <1>9, <1>10 DEF PageInv, PageTypeOK

-----------------------------------------------------------------------------
(* The backend serves a request.                                           *)
LEMMA ReachTakes ==
    ASSUME PageInv, NEW j \in Jobs, NEW stage \in {"deciding", "served", "refused"},
           NEW of \in Plans \cup Facts \cup {None}, Reach(j, stage, of),
           job[j].stage # "unused", \A k \in Jobs : k # j => decision'[k] = decision[k],
           job[j].stage = "sent" =>
               Knows(j, [job[j] EXCEPT !.stage = stage, !.of = of], decision', turns')
    PROVE  \E r : Takes(j, r)
  <1>1. job[j] \in Handlers
    BY DEF PageInv, PageTypeOK, JobTypes
  <1>2. CASE job[j].stage = "sent"
    <2> DEFINE r == [job[j] EXCEPT !.stage = stage, !.of = of]
    <2>1. r \in Handlers /\ r.stage # "unused"
      BY <1>1 DEF Handlers, Stages
    <2>2. job' = [job EXCEPT ![j] = r]
      BY <1>2 DEF Reach
    <2>3. Takes(j, r)
      BY <1>2, <2>1, <2>2 DEF Takes
    <2> QED  BY <2>3
  <1>3. CASE job[j].stage # "sent"
    <2> DEFINE r == [NoJob EXCEPT !.stage = "done"]
    <2>1. r \in Handlers /\ r.stage # "unused"
      BY NoJobTyped DEF Handlers, Stages
    <2>2. Knows(j, r, decision', turns')
      BY DEF Knows, NoJob
    <2>3. Takes(j, r)
      BY <1>3, <2>1, <2>2 DEF Takes, Reach, End
    <2> QED  BY <2>3
  <1> QED  BY <1>2, <1>3

LEMMA ServeTurnStep ==
    ASSUME ConstantsOk, PageInv, NEW j \in Jobs, ServeTurn(j)
    PROVE  PageInv'
  <1>1. PICK p \in {q \in Plans : plan[q] = "absent"} \cup {None} :
          /\ turns' = turns \cup {[by |-> j, plan |-> p]}
          /\ plan' = [q \in Plans |-> IF q = p THEN "awaiting_confirmation" ELSE plan[q]]
          /\ live' = IF p = None THEN live ELSE live \cup {<<p, Original>>}
          /\ Reach(j, "served", p)
    BY DEF ServeTurn
  <1>2. job[j].kind = "submit" /\ job[j].stage # "unused"
        /\ UNCHANGED <<fact, files, decision, session, storage, screen, synced, dock, draft>>
    BY DEF ServeTurn, Requested
  <1>3. Onwards
    BY <1>1, <1>2 DEF Onwards
  <1>4. BackendTypes'
    <2>0. BackendTypes /\ None \notin Plans
      BY DEF PageInv, PageTypeOK, ConstantsOk
    <2>1. (plan \in [Plans -> PlanStatus])' /\ (turns \subseteq Turns)'
      BY <1>1, <2>0 DEF BackendTypes, PlanStatus, Turns
    <2>2. (live \subseteq Plans \X Tokens)'
      BY <1>1, <2>0 DEF BackendTypes, Tokens
    <2> QED  BY <1>2, <2>0, <2>1, <2>2 DEF BackendTypes
  <1>5. DecisionsSound'
    <2>1. \A q \in Plans : plan[q] \in Decided => plan'[q] = plan[q]
      BY <1>1 DEF ConstantsOk, Decided
    <2>2. \A q \in Plans : plan'[q] \in Decided => plan'[q] = plan[q]
      BY <1>1 DEF Decided
    <2>3. DecisionsSound /\ decision \in [Requests -> DecisionRecords]
      BY DEF PageInv, PageTypeOK, BackendTypes
    <2>4. ASSUME NEW r \in Requests PROVE RequestOk(r)'
      <3>1. RequestOk(r) /\ (Saved(r) => decision[r].plan \in Plans)
        BY <2>3 DEF DecisionsSound, RequestOk, Saved, DecisionRecords
      <3> QED  BY <1>2, <2>1, <3>1 DEF RequestOk, Saved
    <2> QED  BY <1>2, <2>2, <2>3, <2>4 DEF DecisionsSound, Executions, Rejections, AskedOf, Saved
  <1>6. Knows(j, [job[j] EXCEPT !.stage = "served", !.of = p], decision', turns')
    <2>1. job[j] \in Handlers /\ Knows(j, job[j], decision, turns)
      BY DEF PageInv, PageTypeOK, JobTypes, HandlersKnow
    <2> QED  BY <1>1, <1>2, <2>1 DEF Knows, Handlers
  <1>7. PICK r : Takes(j, r)
    BY <1>1, <1>2, <1>6, ReachTakes
  <1>8. PageTypes'
    BY <1>2 DEF PageInv, PageTypeOK, PageTypes, session, screen
  <1>9. conversation' = conversation /\ submitted' = submitted
    BY <1>2 DEF session, screen
  <1> QED  BY <1>1, <1>3, <1>4, <1>5, <1>7, <1>8, <1>9, HandlerStep

LEMMA ServeAttachmentStep ==
    ASSUME PageInv, NEW j \in Jobs, ServeAttachment(j)
    PROVE  PageInv'
  <1>0. job[j] \in Handlers /\ Knows(j, job[j], decision, turns)
    BY DEF PageInv, PageTypeOK, JobTypes, HandlersKnow
  <1>1. /\ job[j].kind = "attach" /\ job[j].stage # "unused"
        /\ Reach(j, "served", job[j].of)
        /\ UNCHANGED <<plan, fact, turns, live, decision, session, storage, screen, synced, dock,
                       draft>>
    BY DEF ServeAttachment, Requested
  <1>2. Onwards /\ DecisionsSound'
    BY <1>1, SoundKept DEF PageInv, Onwards
  <1>3. BackendTypes'
    BY <1>1 DEF ServeAttachment, PageInv, PageTypeOK, BackendTypes
  <1>4. Knows(j, [job[j] EXCEPT !.stage = "served", !.of = job[j].of], decision', turns')
    BY <1>0, <1>1 DEF Knows, Handlers
  <1>5. job[j].of \in Plans \cup Facts \cup {None}
    BY <1>0 DEF Handlers
  <1>6. PICK r : Takes(j, r)
    BY <1>1, <1>2, <1>4, <1>5, ReachTakes
  <1>7. PageTypes'
    BY <1>1 DEF PageInv, PageTypeOK, PageTypes, session, screen
  <1>8. conversation' = conversation /\ submitted' = submitted
    BY <1>1 DEF session, screen
  <1> QED  BY <1>1, <1>2, <1>3, <1>6, <1>7, <1>8, HandlerStep

(* A request that is refused, and one that is served or let in as it asks. *)
LEMMA Answered ==
    ASSUME PageInv, NEW j \in Jobs, NEW stage \in {"deciding", "served", "refused"},
           Reach(j, stage, job[j].of), job[j].stage # "unused",
           job[j].stage = "sent" =>
               Knows(j, [job[j] EXCEPT !.stage = stage, !.of = job[j].of], decision', turns'),
           \A k \in Jobs : k # j => decision'[k] = decision[k],
           UNCHANGED <<turns, session, storage, screen, synced, dock, draft>>,
           BackendTypes', DecisionsSound', Onwards
    PROVE  PageInv'
  <1>1. job[j].of \in Plans \cup Facts \cup {None}
    BY DEF PageInv, PageTypeOK, JobTypes, Handlers
  <1>2. PICK r : Takes(j, r)
    BY <1>1, ReachTakes
  <1>3. PageTypes'
    BY DEF PageInv, PageTypeOK, PageTypes, session, screen
  <1>4. conversation' = conversation /\ submitted' = submitted
    BY DEF session, screen
  <1> QED  BY <1>2, <1>3, <1>4, HandlerStep

(* What no handler does leaves the handlers and the page as they are.      *)
LEMMA Elsewhere ==
    ASSUME PageInv, BackendTypes', PageTypes', DecisionsSound', Onwards,
           \A k \in Jobs : decision'[k] = decision[k],
           UNCHANGED <<turns, submitted, conversation, job>>
    PROVE  PageInv'
  <1>1. JobTypes' /\ TurnsStarted' /\ \A k \in Jobs : Started(k) => Started(k)'
    BY DEF PageInv, PageTypeOK, JobTypes, TurnsStarted, Started
  <1>2. HandlersKnow'
    BY KnowsLater DEF PageInv, HandlersKnow
  <1>3. ElementsGrounded' /\ ToldTheTruth' /\ NoTurnTwice'
    BY <1>1, ScreenKept
  <1> QED  BY <1>1, <1>2, <1>3 DEF PageInv, PageTypeOK

(* Letting a request in changes nothing yet.                               *)
LEMMA LetsIn ==
    ASSUME ConstantsOk, PageInv, NEW r \in Requests, decision[r].stage = "none", NEW p \in Plans,
           \/ decision' = [decision EXCEPT ![r] = LetIn(p, None, "allowed")]
           \/ decision' = [decision EXCEPT ![r] = LetIn(p, "rejected", "decided")],
           UNCHANGED <<plan, fact, turns, files, live>>
    PROVE  /\ BackendTypes' /\ DecisionsSound' /\ Onwards
           /\ decision'[r].plan = p
           /\ \A q \in Requests : q # r => decision'[q] = decision[q]
  <1>0. BackendTypes /\ DecisionsSound
    BY DEF PageInv, PageTypeOK
  <1>1. \A q \in Requests : q # r => decision'[q] = decision[q]
    BY <1>0 DEF BackendTypes
  <1>2. decision'[r] \in {LetIn(p, None, "allowed"), LetIn(p, "rejected", "decided")}
    BY <1>0 DEF BackendTypes
  <1>3. /\ decision'[r].plan = p
        /\ \/ decision'[r].stage = "allowed" /\ decision'[r].outcome = None
           \/ decision'[r].stage = "decided" /\ decision'[r].outcome = "rejected"
    BY <1>2 DEF LetIn
  <1>4. BackendTypes'
    <2>1. {LetIn(p, None, "allowed"), LetIn(p, "rejected", "decided")} \subseteq DecisionRecords
      BY DEF LetIn, DecisionRecords, Decided
    <2> QED  BY <1>0, <2>1 DEF BackendTypes
  <1>5. \A q \in Requests : RequestOk(q)'
    <2>1. ASSUME NEW q \in Requests, q # r PROVE RequestOk(q)'
      BY <1>0, <1>1, <2>1 DEF DecisionsSound, RequestOk, Saved
    <2>2. RequestOk(r)'
      BY <1>3 DEF RequestOk, Saved, Decided, ConstantsOk
    <2> QED  BY <2>1, <2>2
  <1>6. \A q \in Requests : decision[q].stage # "none" => q # r
    OBVIOUS
  <1>7. decision[r].plan \notin Plans
    BY <1>0 DEF DecisionsSound, RequestOk, ConstantsOk
  <1>8. \A q \in Plans : Executions(q) \subseteq Executions(q)'
    BY <1>1, <1>7 DEF Executions, Rejections, AskedOf
  <1>9. \A q \in Plans : \A d \in AskedOf(q) :
           Saved(d) => d \in AskedOf(q)' /\ Saved(d)' /\ decision'[d] = decision[d]
    BY <1>1, <1>6 DEF AskedOf, Saved
  <1>10. DecisionsSound'
    BY <1>0, <1>5, <1>8, <1>9 DEF DecisionsSound
  <1>11. Onwards
    BY <1>1, <1>6 DEF Onwards
  <1> QED  BY <1>1, <1>3, <1>4, <1>10, <1>11

LEMMA ServeConfirmStep ==
    ASSUME ConstantsOk, PageInv, NEW j \in Jobs, ServeConfirm(j)
    PROVE  PageInv'
  <1>1. /\ job[j].kind = "confirm" /\ job[j].stage \in {"sent", "orphan"}
        /\ UNCHANGED <<plan, fact, turns, files, live, session, storage, screen, synced, dock, draft>>
    BY DEF ServeConfirm, Requested
  <1>2. /\ job[j] \in Handlers /\ Knows(j, job[j], decision, turns) /\ j \in Requests
        /\ job[j].of \in Plans
    BY <1>1 DEF PageInv, PageTypeOK, JobTypes, HandlersKnow, Knows, Requests
  <1>3. CASE /\ decision' = [decision EXCEPT ![j] = LetIn(job[j].of, None, "allowed")]
             /\ Reach(j, "deciding", job[j].of)
    <2>1. decision[j].stage = "none"
      BY <1>1, <1>2 DEF Knows
    <2>2. /\ BackendTypes' /\ DecisionsSound' /\ Onwards
          /\ \A k \in Jobs : k # j => decision'[k] = decision[k]
      BY <1>1, <1>2, <1>3, <2>1, LetsIn DEF Requests
    <2>3. decision'[j] = LetIn(job[j].of, None, "allowed")
      BY <1>2, <1>3 DEF PageInv, PageTypeOK, BackendTypes
    <2>4. Knows(j, [job[j] EXCEPT !.stage = "deciding", !.of = job[j].of], decision', turns')
      BY <1>1, <1>2, <2>3 DEF Knows, Handlers, LetIn, ConstantsOk
    <2> QED  BY <1>1, <1>3, <2>2, <2>4, Answered
  <1>4. CASE plan[job[j].of] = "succeeded" /\ Reach(j, "served", job[j].of) /\ UNCHANGED decision
    <2>1. BackendTypes' /\ DecisionsSound' /\ Onwards
      BY <1>1, <1>4, BackendKept DEF backend
    <2>2. Executed(decision, job[j].of)
      BY <1>2, <1>4 DEF PageInv, DecisionsSound, Decided, AskedOf, Saved, Executed
    <2>3. Knows(j, [job[j] EXCEPT !.stage = "served", !.of = job[j].of], decision', turns')
      BY <1>1, <1>2, <1>4, <2>2 DEF Knows, Handlers
    <2> QED  BY <1>1, <1>4, <2>1, <2>3, Answered
  <1>5. CASE Reach(j, "refused", job[j].of) /\ UNCHANGED decision
    <2>1. BackendTypes' /\ DecisionsSound' /\ Onwards
      BY <1>1, <1>5, BackendKept DEF backend
    <2>2. Knows(j, [job[j] EXCEPT !.stage = "refused", !.of = job[j].of], decision', turns')
      BY <1>1, <1>2, <1>5 DEF Knows, Handlers
    <2> QED  BY <1>1, <1>5, <2>1, <2>2, Answered
  <1> QED  BY <1>3, <1>4, <1>5 DEF ServeConfirm

LEMMA ServeRejectStep ==
    ASSUME ConstantsOk, PageInv, NEW j \in Jobs, ServeReject(j)
    PROVE  PageInv'
  <1>1. /\ job[j].kind = "cancel" /\ job[j].stage \in {"sent", "orphan"}
        /\ UNCHANGED <<plan, fact, turns, files, live, session, storage, screen, synced, dock, draft>>
    BY DEF ServeReject, Requested
  <1>2. /\ job[j] \in Handlers /\ Knows(j, job[j], decision, turns) /\ j \in Requests
        /\ job[j].of \in Plans
    BY <1>1 DEF PageInv, PageTypeOK, JobTypes, HandlersKnow, Knows, Requests
  <1>3. CASE plan[job[j].of] = "awaiting_confirmation"
    <2>0. /\ decision' = [decision EXCEPT ![j] = LetIn(job[j].of, "rejected", "decided")]
          /\ Reach(j, "deciding", job[j].of)
      BY <1>3 DEF ServeReject
    <2>1. decision[j].stage = "none"
      BY <1>1, <1>2 DEF Knows
    <2>2. /\ BackendTypes' /\ DecisionsSound' /\ Onwards
          /\ \A k \in Jobs : k # j => decision'[k] = decision[k]
      BY <1>1, <1>2, <2>0, <2>1, LetsIn DEF Requests
    <2>3. decision'[j] = LetIn(job[j].of, "rejected", "decided")
      BY <1>2, <2>0 DEF PageInv, PageTypeOK, BackendTypes
    <2>4. Knows(j, [job[j] EXCEPT !.stage = "deciding", !.of = job[j].of], decision', turns')
      BY <1>1, <1>2, <2>3 DEF Knows, Handlers, LetIn
    <2> QED  BY <1>1, <2>0, <2>2, <2>4, Answered
  <1>4. CASE plan[job[j].of] # "awaiting_confirmation"
    <2>0. Reach(j, "refused", job[j].of) /\ UNCHANGED decision
      BY <1>4 DEF ServeReject
    <2>1. BackendTypes' /\ DecisionsSound' /\ Onwards
      BY <1>1, <2>0, BackendKept DEF backend
    <2>2. Knows(j, [job[j] EXCEPT !.stage = "refused", !.of = job[j].of], decision', turns')
      BY <1>1, <1>2, <2>0 DEF Knows, Handlers
    <2> QED  BY <1>1, <2>0, <2>1, <2>2, Answered
  <1> QED  BY <1>3, <1>4

LEMMA OtherAsksStep ==
    ASSUME ConstantsOk, PageInv, NEW r \in Others, NEW p \in Plans, OtherClientAsks(r, p)
    PROVE  PageInv'
  <1>1. /\ decision[r].stage = "none" /\ UNCHANGED <<plan, fact, turns, files, live, job>>
        /\ UNCHANGED <<session, storage, screen, synced, dock, draft>>
        /\ \/ decision' = [decision EXCEPT ![r] = LetIn(p, None, "allowed")]
           \/ decision' = [decision EXCEPT ![r] = LetIn(p, "rejected", "decided")]
    BY DEF OtherClientAsks
  <1>2. r \in Requests /\ r \notin Jobs
    BY DEF Requests, ConstantsOk
  <1>3. /\ BackendTypes' /\ DecisionsSound' /\ Onwards
        /\ \A k \in Jobs : decision'[k] = decision[k]
    BY <1>1, <1>2, LetsIn DEF Requests
  <1>4. PageTypes' /\ UNCHANGED <<turns, submitted, conversation, job>>
    BY <1>1 DEF PageInv, PageTypeOK, PageTypes, session, screen
  <1> QED  BY <1>3, <1>4, Elsewhere

-----------------------------------------------------------------------------
(* A request that was let in goes on in the backend, towards the same      *)
(* decision of the same plan, and its handler with it if it still waits.   *)
WithIt(r, stage) ==
    job' = [j \in Jobs |-> IF j = r /\ job[j].stage = "deciding"
                           THEN [job[j] EXCEPT !.stage = stage] ELSE job[j]]

LEMMA GoesOn ==
    ASSUME ConstantsOk, PageInv, NEW r \in Requests, decision[r].stage \in {"allowed", "decided"},
           \A q \in Requests : q # r => decision'[q] = decision[q],
           decision'[r].plan = decision[r].plan,
           decision'[r].outcome = "rejected" <=> decision[r].outcome = "rejected",
           NEW stage \in {"deciding", "served", "refused"}, WithIt(r, stage),
           stage = "deciding" => decision'[r].stage = "decided",
           stage = "served" => decision'[r].stage = "saved",
           UNCHANGED <<turns, session, storage, screen, synced, dock, draft>>,
           BackendTypes', DecisionsSound'
    PROVE  PageInv'
  <1>1. Onwards
    BY DEF Onwards
  <1>2. PageTypes' /\ conversation' = conversation /\ submitted' = submitted
    BY DEF PageInv, PageTypeOK, PageTypes, session, screen
  <1>3. CASE r \in Jobs
    <2>0. job[r] \in Handlers /\ Knows(r, job[r], decision, turns) /\ job \in [Jobs -> Handlers]
      BY <1>3 DEF PageInv, PageTypeOK, JobTypes, HandlersKnow
    <2> DEFINE h == IF job[r].stage = "deciding" THEN [job[r] EXCEPT !.stage = stage] ELSE job[r]
    <2>1. job' = [job EXCEPT ![r] = h]
      BY <2>0 DEF WithIt
    <2>2. h \in Handlers /\ h.stage # "unused"
      BY <2>0 DEF Handlers, Stages, Knows
    <2>3. Knows(r, h, decision', turns')
      <3>1. CASE job[r].stage # "deciding"
        <4>1. /\ Executed(decision, job[r].of) => Executed(decision', job[r].of)
              /\ Rejected(decision, job[r].of) => Rejected(decision', job[r].of)
          BY <1>1, StaysDecided
        <4>2. job[r].stage \notin {"unused", "sent", "orphan"}
          BY <2>0 DEF Knows
        <4> QED  BY <2>0, <3>1, <4>1, <4>2 DEF Knows
      <3>2. CASE job[r].stage = "deciding"
        <4>1. /\ h.kind = job[r].kind /\ h.of = job[r].of /\ h.turns = job[r].turns
              /\ h.stage = stage
          BY <2>0, <3>2 DEF Handlers
        <4>2. /\ h.kind \in {"confirm", "cancel"} /\ h.of \in Plans /\ h.turns \subseteq turns'
              /\ decision'[r].plan = h.of
              /\ h.kind = IF decision'[r].outcome = "rejected" THEN "cancel" ELSE "confirm"
          BY <2>0, <3>2, <4>1 DEF Knows
        <4>3. stage = "served" =>
                 IF h.kind = "cancel" THEN Rejected(decision', h.of) ELSE Executed(decision', h.of)
          BY <4>2 DEF Rejected, Executed
        <4> HIDE DEF h
        <4> QED  BY <4>1, <4>2, <4>3 DEF Knows
      <3> QED  BY <3>1, <3>2
    <2>4. \A k \in Jobs : k # r => decision'[k] = decision[k]
      BY DEF Requests
    <2> HIDE DEF h
    <2>5. Takes(r, h)
      BY <2>1, <2>2, <2>3, <2>4 DEF Takes
    <2> QED  BY <1>1, <1>2, <1>3, <2>5, HandlerStep
  <1>4. CASE r \notin Jobs
    <2>1. \A k \in Jobs : decision'[k] = decision[k]
      BY <1>4 DEF Requests
    <2>2. job' = job
      <3>1. job' = [j \in Jobs |-> job[j]]
        BY <1>4 DEF WithIt
      <3> QED  BY <3>1 DEF PageInv, PageTypeOK, JobTypes
    <2>3. UNCHANGED <<turns, submitted, conversation, job>>
      BY <1>2, <2>2
    <2> QED  BY <1>1, <1>2, <2>1, <2>3, Elsewhere
  <1> QED  BY <1>3, <1>4

(* Its plan, and the other requests.                                       *)
LEMMA LetInBefore ==
    ASSUME ConstantsOk, PageInv, NEW r \in Requests, decision[r].stage \in {"allowed", "decided"}
    PROVE  /\ decision[r].plan \in Plans /\ decision[r] \in DecisionRecords
           /\ decision[r].stage = "decided" => decision[r].outcome \in Decided
           /\ decision[r].stage = "allowed" => decision[r].outcome # "rejected"
  BY DEF PageInv, PageTypeOK, BackendTypes, DecisionsSound, RequestOk, DecisionRecords

LEMMA ExecuteStep ==
    ASSUME ConstantsOk, PageInv, NEW r \in Requests, Execute(r)
    PROVE  PageInv'
  <1> DEFINE p == decision[r].plan
             written == [fact EXCEPT ![Creates[p]] = IF @ = "absent" THEN "open" ELSE @]
  <1>0. BackendTypes /\ DecisionsSound
    BY DEF PageInv, PageTypeOK
  <1>1. PICK outcome \in {"succeeded", "failed"} :
          /\ decision' = [decision EXCEPT ![r].outcome = outcome, ![r].stage = "decided"]
          /\ fact' \in {fact, written}
    BY DEF Execute
  <1>2. /\ decision[r].stage = "allowed"
        /\ UNCHANGED <<plan, turns, files, live, session, storage, screen, synced, dock, draft, job>>
    BY DEF Execute
  <1>3. p \in Plans /\ decision[r] \in DecisionRecords /\ decision[r].outcome # "rejected"
    BY <1>2, LetInBefore
  <1>4. /\ \A q \in Requests : q # r => decision'[q] = decision[q]
        /\ decision'[r] = [decision[r] EXCEPT !.outcome = outcome, !.stage = "decided"]
    BY <1>0, <1>1 DEF BackendTypes
  <1>5. /\ decision'[r].plan = p /\ decision'[r].outcome = outcome
        /\ decision'[r].stage = "decided" /\ decision'[r] \in DecisionRecords
    BY <1>3, <1>4 DEF DecisionRecords, Decided
  <1>6. Creates[p] \in Facts /\ (fact \in [Facts -> FactStatus])'
        /\ \A f \in Facts : f # Creates[p] => fact'[f] = fact[f]
    BY <1>0, <1>1, <1>3 DEF BackendTypes, FactStatus, ConstantsOk
  <1>7. BackendTypes'
    <2>1. decision' \in [Requests -> DecisionRecords]
      BY <1>0, <1>1, <1>4, <1>5 DEF BackendTypes
    <2> QED  BY <1>0, <1>2, <1>6, <2>1 DEF BackendTypes
  <1>8. DecisionsSound'
    <2>1. ASSUME NEW q \in Requests PROVE RequestOk(q)'
      <3>1. CASE q = r
        BY <1>3, <1>5, <3>1 DEF RequestOk, Saved, Decided, ConstantsOk
      <3>2. CASE q # r
        BY <1>0, <1>2, <1>4, <3>2 DEF DecisionsSound, RequestOk, Saved
      <3> QED  BY <3>1, <3>2
    <2>2. ASSUME NEW q \in Plans, fact'[Creates[q]] # "absent" PROVE Executions(q)' # {}
      <3>1. CASE q = p
        <4>1. r \in Executions(q)'
          BY <1>5, <3>1 DEF Executions, Rejections, AskedOf
        <4> QED  BY <4>1
      <3>2. CASE q # p
        <4>1. Creates[q] # Creates[p] /\ Creates[q] \in Facts
          BY <1>3, <3>2 DEF ConstantsOk
        <4>2. Executions(q) # {}
          BY <1>0, <1>6, <2>2, <4>1 DEF DecisionsSound
        <4>3. Executions(q) \subseteq Executions(q)'
          BY <1>3, <1>4, <1>5, <3>2 DEF Executions, Rejections, AskedOf
        <4> QED  BY <4>2, <4>3
      <3> QED  BY <3>1, <3>2
    <2>3. ASSUME NEW q \in Plans, plan'[q] \in Decided
          PROVE  \E d \in AskedOf(q)' : Saved(d)' /\ decision'[d].outcome = plan'[q]
      <3>1. PICK d \in AskedOf(q) : Saved(d) /\ decision[d].outcome = plan[q]
        BY <1>0, <1>2, <2>3 DEF DecisionsSound
      <3>2. d \in Requests /\ d # r
        BY <1>2, <3>1 DEF AskedOf, Saved
      <3> QED  BY <1>2, <1>4, <3>1, <3>2 DEF AskedOf, Saved
    <2> QED  BY <2>1, <2>2, <2>3 DEF DecisionsSound
  <1>9. WithIt(r, "deciding")
    <2>0. job \in [Jobs -> Handlers]
      BY DEF PageInv, PageTypeOK, JobTypes
    <2>1. \A k \in Jobs : job[k].stage = "deciding" => [job[k] EXCEPT !.stage = "deciding"] = job[k]
      BY <2>0 DEF Handlers
    <2> QED  BY <1>2, <2>0, <2>1 DEF WithIt
  <1>10. decision'[r].outcome # "rejected"
    BY <1>5
  <1> HIDE DEF p, written
  <1> QED  BY <1>2, <1>3, <1>4, <1>5, <1>7, <1>8, <1>9, <1>10, GoesOn DEF p

LEMMA SaveStep ==
    ASSUME ConstantsOk, PageInv, NEW r \in Requests, SaveDecision(r)
    PROVE  PageInv'
  <1> DEFINE p == decision[r].plan
  <1>0. BackendTypes /\ DecisionsSound
    BY DEF PageInv, PageTypeOK
  <1>1. /\ decision[r].stage = "decided" /\ WithIt(r, "served")
        /\ plan' = [plan EXCEPT ![p] = decision[r].outcome]
        /\ decision' = [decision EXCEPT ![r].stage = "saved"]
        /\ UNCHANGED <<fact, turns, files, live, session, storage, screen, synced, dock, draft>>
    BY DEF SaveDecision, WithIt
  <1>2. p \in Plans /\ decision[r] \in DecisionRecords /\ decision[r].outcome \in Decided
    BY <1>1, LetInBefore
  <1>3. /\ \A q \in Requests : q # r => decision'[q] = decision[q]
        /\ decision'[r] = [decision[r] EXCEPT !.stage = "saved"]
    BY <1>0, <1>1 DEF BackendTypes
  <1>4. /\ decision'[r].plan = p /\ decision'[r].outcome = decision[r].outcome
        /\ decision'[r].stage = "saved" /\ decision'[r] \in DecisionRecords
    BY <1>2, <1>3 DEF DecisionRecords
  <1>5. /\ plan'[p] = decision[r].outcome /\ \A q \in Plans : q # p => plan'[q] = plan[q]
        /\ (plan \in [Plans -> PlanStatus])'
    BY <1>0, <1>1, <1>2 DEF BackendTypes, PlanStatus, Decided
  <1>6. BackendTypes'
    <2>1. decision' \in [Requests -> DecisionRecords]
      BY <1>0, <1>1, <1>3, <1>4 DEF BackendTypes
    <2> QED  BY <1>0, <1>1, <1>5, <2>1 DEF BackendTypes
  <1>7. DecisionsSound'
    <2>1. ASSUME NEW q \in Requests PROVE RequestOk(q)'
      <3>1. CASE q = r
        BY <1>2, <1>4, <1>5, <3>1 DEF RequestOk, Saved, ConstantsOk
      <3>2. CASE q # r
        <4>1. RequestOk(q) /\ (Saved(q) => decision[q].plan \in Plans)
          BY <1>0 DEF DecisionsSound, RequestOk, Saved, BackendTypes, DecisionRecords
        <4> QED  BY <1>2, <1>3, <1>5, <3>2, <4>1 DEF RequestOk, Saved
      <3> QED  BY <3>1, <3>2
    <2>2. ASSUME NEW q \in Plans PROVE Executions(q)' = Executions(q)
      BY <1>3, <1>4 DEF Executions, Rejections, AskedOf
    <2>3. ASSUME NEW q \in Plans, plan'[q] \in Decided
          PROVE  \E d \in AskedOf(q)' : Saved(d)' /\ decision'[d].outcome = plan'[q]
      <3>1. CASE q = p
        BY <1>4, <1>5, <3>1 DEF AskedOf, Saved
      <3>2. CASE q # p
        <4>1. PICK d \in AskedOf(q) : Saved(d) /\ decision[d].outcome = plan[q]
          BY <1>0, <1>5, <2>3, <3>2 DEF DecisionsSound
        <4>2. d \in Requests /\ d # r
          BY <1>1, <4>1 DEF AskedOf, Saved
        <4> QED  BY <1>3, <1>5, <3>2, <4>1, <4>2 DEF AskedOf, Saved
      <3> QED  BY <3>1, <3>2
    <2> QED  BY <1>0, <1>1, <2>1, <2>2, <2>3 DEF DecisionsSound
  <1> HIDE DEF p
  <1> QED  BY <1>1, <1>3, <1>4, <1>6, <1>7, GoesOn DEF p

LEMMA LoseStep ==
    ASSUME ConstantsOk, PageInv, NEW r \in Requests, LoseDecision(r)
    PROVE  PageInv'
  <1>0. BackendTypes /\ DecisionsSound
    BY DEF PageInv, PageTypeOK
  <1>1. /\ decision[r].stage \in {"allowed", "decided"} /\ WithIt(r, "refused")
        /\ decision' = [decision EXCEPT ![r].stage = "lost"]
        /\ UNCHANGED <<plan, fact, turns, files, live, session, storage, screen, synced, dock, draft>>
    BY DEF LoseDecision, WithIt
  <1>2. decision[r].plan \in Plans /\ decision[r] \in DecisionRecords
    BY <1>1, LetInBefore
  <1>3. /\ \A q \in Requests : q # r => decision'[q] = decision[q]
        /\ decision'[r] = [decision[r] EXCEPT !.stage = "lost"]
    BY <1>0, <1>1 DEF BackendTypes
  <1>4. /\ decision'[r].plan = decision[r].plan /\ decision'[r].outcome = decision[r].outcome
        /\ decision'[r].stage = "lost" /\ decision'[r] \in DecisionRecords
    BY <1>2, <1>3 DEF DecisionRecords
  <1>5. BackendTypes'
    <2>1. decision' \in [Requests -> DecisionRecords]
      BY <1>0, <1>1, <1>3, <1>4 DEF BackendTypes
    <2> QED  BY <1>0, <1>1, <2>1 DEF BackendTypes
  <1>6. DecisionsSound'
    <2>1. ASSUME NEW q \in Requests PROVE RequestOk(q)'
      <3>1. CASE q = r
        BY <1>2, <1>4, <3>1 DEF RequestOk, Saved, ConstantsOk
      <3>2. CASE q # r
        BY <1>0, <1>1, <1>3, <3>2 DEF DecisionsSound, RequestOk, Saved
      <3> QED  BY <3>1, <3>2
    <2>2. ASSUME NEW q \in Plans PROVE Executions(q)' = Executions(q)
      BY <1>3, <1>4 DEF Executions, Rejections, AskedOf
    <2>3. ASSUME NEW q \in Plans, plan'[q] \in Decided
          PROVE  \E d \in AskedOf(q)' : Saved(d)' /\ decision'[d].outcome = plan'[q]
      <3>1. PICK d \in AskedOf(q) : Saved(d) /\ decision[d].outcome = plan[q]
        BY <1>0, <1>1, <2>3 DEF DecisionsSound
      <3>2. d \in Requests /\ d # r
        BY <1>1, <3>1 DEF AskedOf, Saved
      <3> QED  BY <1>1, <1>3, <3>1, <3>2 DEF AskedOf, Saved
    <2> QED  BY <1>0, <1>1, <2>1, <2>2, <2>3 DEF DecisionsSound
  <1> QED  BY <1>1, <1>3, <1>4, <1>5, <1>6, GoesOn

(* Direct actions change facts that are there, which those of plans that   *)
(* wait are not.                                                           *)
LEMMA ServeDirectStep ==
    ASSUME ConstantsOk, PageInv, NEW j \in Jobs, ServeDirect(j)
    PROVE  PageInv'
  <1>1. /\ job[j].kind \in {"direct", "edit"} /\ job[j].stage # "unused"
        /\ UNCHANGED <<plan, turns, files, live, decision, session, storage, screen, synced, dock,
                       draft>>
    BY DEF ServeDirect, Requested
  <1>2. job[j].of \in Facts /\ job[j] \in Handlers /\ Knows(j, job[j], decision, turns)
    BY <1>1 DEF PageInv, PageTypeOK, JobTypes, HandlersKnow, Knows
  <1>3. Onwards
    BY <1>1 DEF Onwards
  <1>6. \A stage \in {"served", "refused"} :
           Knows(j, [job[j] EXCEPT !.stage = stage, !.of = job[j].of], decision', turns')
    BY <1>1, <1>2 DEF Knows, Handlers
  <1>4. CASE fact[job[j].of] \in {"open", "edited"}
    <2>1. PICK s \in {"edited", "closed"} : fact' = [fact EXCEPT ![job[j].of] = s]
      BY <1>4 DEF ServeDirect
    <2>2. fact \in [Facts -> FactStatus]
      BY DEF PageInv, PageTypeOK, BackendTypes
    <2>3. BackendTypes'
      BY <1>1, <2>1, <2>2 DEF FactStatus, PageInv, PageTypeOK, BackendTypes
    <2>4. DecisionsSound'
      <3>1. \A p \in Plans : fact'[Creates[p]] # "absent" => fact[Creates[p]] # "absent"
        BY <1>4, <2>1, <2>2 DEF ConstantsOk
      <3> QED  BY <1>1, <3>1 DEF PageInv, DecisionsSound, RequestOk, Executions, Rejections,
                                 AskedOf, Saved
    <2>5. Reach(j, "served", job[j].of)
      BY <1>4 DEF ServeDirect
    <2> QED  BY <1>1, <1>3, <1>6, <2>3, <2>4, <2>5, Answered
  <1>5. CASE fact[job[j].of] \notin {"open", "edited"}
    <2>1. Reach(j, "refused", job[j].of) /\ UNCHANGED fact
      BY <1>5 DEF ServeDirect
    <2>2. BackendTypes' /\ DecisionsSound'
      BY <1>1, <2>1, BackendKept DEF backend
    <2> QED  BY <1>1, <1>3, <1>6, <2>1, <2>2, Answered
  <1> QED  BY <1>4, <1>5

-----------------------------------------------------------------------------
(* Requests that fail, and tokens that expire.                             *)
LEMMA MoveTakes ==
    ASSUME PageInv, NEW j \in Jobs, NEW stage \in {"refused", "first"}, Move(j, stage),
           stage = "first" => job[j].stage = "served", UNCHANGED <<turns, decision>>
    PROVE  \E r : Takes(j, r)
  <1> DEFINE r == [job[j] EXCEPT !.stage = stage]
  <1>0. job[j] \in Handlers /\ Knows(j, job[j], decision', turns')
    BY DEF PageInv, PageTypeOK, JobTypes, HandlersKnow
  <1>1. r \in Handlers /\ r.stage # "unused"
    BY <1>0 DEF Handlers, Stages
  <1>2. job' = [job EXCEPT ![j] = r]
    BY DEF Move
  <1>3. Knows(j, r, decision', turns')
    BY <1>0 DEF Knows, Handlers
  <1>4. Takes(j, r)
    BY <1>1, <1>2, <1>3 DEF Takes
  <1> QED  BY <1>4

LEMMA EndTakes ==
    ASSUME NEW j \in Jobs, End(j), decision' = decision
    PROVE  \E r : Takes(j, r)
  <1> DEFINE r == [NoJob EXCEPT !.stage = "done"]
  <1>1. r \in Handlers /\ r.stage # "unused"
    BY NoJobTyped DEF Handlers, Stages
  <1>2. Knows(j, r, decision', turns')
    BY DEF Knows, NoJob
  <1>3. Takes(j, r)
    BY <1>1, <1>2 DEF Takes, End
  <1> QED  BY <1>3

LEMMA FailRequestStep ==
    ASSUME PageInv, NEW j \in Jobs, FailRequest(j)
    PROVE  PageInv'
  <1>1. UNCHANGED <<backend, session, storage, screen, synced, dock, draft>> /\ Move(j, "refused")
    BY DEF FailRequest
  <1>2. BackendTypes' /\ DecisionsSound' /\ Onwards /\ UNCHANGED <<turns, decision>>
    BY <1>1, BackendKept
  <1>3. PICK r : Takes(j, r)
    BY <1>1, <1>2, MoveTakes
  <1>4. PageTypes'
    BY <1>1 DEF PageInv, PageTypeOK, PageTypes, session, screen
  <1>5. conversation' = conversation /\ submitted' = submitted
    BY <1>1 DEF session, screen
  <1> QED  BY <1>2, <1>3, <1>4, <1>5, HandlerStep

LEMMA ExpireStep ==
    ASSUME PageInv, ExpireTokens
    PROVE  PageInv'
  <1>1. /\ live' \subseteq live
        /\ UNCHANGED <<plan, fact, turns, files, decision, session, storage, screen, synced, dock,
                       draft, job>>
    BY DEF ExpireTokens
  <1>2. BackendTypes' /\ PageTypes'
    BY <1>1 DEF PageInv, PageTypeOK, BackendTypes, PageTypes, session, screen
  <1>3. DecisionsSound' /\ Onwards
    BY <1>1, SoundKept DEF PageInv, Onwards
  <1>4. UNCHANGED <<turns, submitted, conversation, job, decision>>
    BY <1>1 DEF session, screen
  <1> QED  BY <1>2, <1>3, <1>4, Elsewhere

LEMMA DockStep ==
    ASSUME PageInv, OpenEditor \/ CloseEditor \/ RefuseForm \/ NativeStatus \/ NativeError
    PROVE  PageInv'
  <1>1. UNCHANGED <<backend, session, storage, screen, synced, job>>
    BY DEF OpenEditor, CloseEditor, RefuseForm, NativeStatus, NativeError
  <1>2. BackendTypes' /\ DecisionsSound' /\ Onwards /\ UNCHANGED <<turns, decision>>
    BY <1>1, BackendKept
  <1>3. draft' \in Facts \cup {None} /\ dock' \in Docks
    BY DEF PageInv, PageTypeOK, PageTypes, Docks, OpenEditor, CloseEditor, RefuseForm,
           NativeStatus, NativeError
  <1>4. PageTypes'
    BY <1>1, <1>3 DEF PageInv, PageTypeOK, PageTypes, session, screen
  <1>5. UNCHANGED <<turns, submitted, conversation, job>>
    BY <1>1, <1>2 DEF session, screen
  <1> QED  BY <1>2, <1>4, <1>5, Elsewhere

-----------------------------------------------------------------------------
(* The answers.                                                            *)
LEMMA SubmitAnsweredStep ==
    ASSUME ConstantsOk, PageInv, NEW j \in Jobs, SubmitAnswered(j)
    PROVE  PageInv'
  <1>1. /\ job[j].kind = "submit" /\ job[j].stage = "served" /\ Move(j, "first")
        /\ UNCHANGED <<backend, session, shown, highlighted, synced, dock, draft>>
    BY DEF SubmitAnswered
  <1>2. BackendTypes' /\ DecisionsSound' /\ Onwards /\ UNCHANGED <<turns, decision>>
    BY <1>1, BackendKept
  <1>3. PICK r : Takes(j, r)
    BY <1>1, <1>2, MoveTakes
  <1>4. job[j].of \in Plans \cup {None}
    BY <1>1 DEF PageInv, HandlersKnow, Knows
  <1>5. \A e \in conversation' : e \in conversation \/ Founded(e)
    <2>1. CASE job[j].of = None
      <3>1. Founded(Element("reply", j))
        BY DEF Founded, Element, Elements, ElementKinds
      <3> QED  BY <2>1, <3>1 DEF SubmitAnswered
    <2>2. CASE job[j].of # None
      <3>1. Founded(Element("summary", job[j].of)) /\ Founded(Card(job[j].of, Original))
        BY <1>4, <2>2 DEF Founded, Element, Card, Elements, ElementKinds, Tokens
      <3> QED  BY <2>2, <3>1 DEF SubmitAnswered, AskedWith
    <2> QED  BY <2>1, <2>2
  <1>6. (storage \in [Plans -> {Original, None}])'
    BY DEF SubmitAnswered, CacheToken, PageInv, PageTypeOK, PageTypes
  <1>7. (conversation \subseteq Elements)' => PageTypes'
    BY <1>1, <1>6 DEF PageInv, PageTypeOK, PageTypes, session
  <1>8. submitted' = submitted
    BY <1>1 DEF session
  <1> QED  BY <1>2, <1>3, <1>5, <1>7, <1>8, HandlerStep

LEMMA AttachAnsweredStep ==
    ASSUME PageInv, NEW j \in Jobs, AttachAnswered(j)
    PROVE  PageInv'
  <1>1. /\ job[j].stage = "served" /\ Move(j, "first")
        /\ conversation' = conversation \cup {Element("intake", j)}
        /\ UNCHANGED <<backend, session, storage, shown, highlighted, synced, dock, draft>>
    BY DEF AttachAnswered
  <1>2. BackendTypes' /\ DecisionsSound' /\ Onwards /\ UNCHANGED <<turns, decision>>
    BY <1>1, BackendKept
  <1>3. PICK r : Takes(j, r)
    BY <1>1, <1>2, MoveTakes
  <1>4. Founded(Element("intake", j))
    BY DEF Founded, Element, Elements, ElementKinds
  <1>5. (conversation \subseteq Elements)' => PageTypes'
    BY <1>1 DEF PageInv, PageTypeOK, PageTypes, session
  <1>6. submitted' = submitted
    BY <1>1 DEF session
  <1> QED  BY <1>1, <1>2, <1>3, <1>4, <1>5, <1>6, HandlerStep

LEMMA ConfirmAnsweredStep ==
    ASSUME PageInv, NEW j \in Jobs, ConfirmAnswered(j)
    PROVE  PageInv'
  <1>1. /\ job[j].kind = "confirm" /\ job[j].stage = "served" /\ Move(j, "first")
        /\ ClearToken(job[j].of)
        /\ conversation' = (conversation \ CardsOf(job[j].of)) \cup {Element("result", job[j].of)}
        /\ UNCHANGED <<backend, session, shown, highlighted, synced, dock, draft>>
    BY DEF ConfirmAnswered
  <1>2. BackendTypes' /\ DecisionsSound' /\ Onwards /\ UNCHANGED <<turns, decision>> /\ plan' = plan
    BY <1>1, BackendKept
  <1>3. PICK r : Takes(j, r)
    BY <1>1, <1>2, MoveTakes
  <1>4. job[j].of \in Plans /\ Executed(decision, job[j].of)
    BY <1>1 DEF PageInv, HandlersKnow, Knows
  <1>5. Founded(Element("result", job[j].of))
    BY <1>2, <1>4 DEF Founded, Element, Elements, ElementKinds
  <1>6. (storage \in [Plans -> {Original, None}])'
    BY <1>1 DEF ClearToken, PageInv, PageTypeOK, PageTypes
  <1>7. (conversation \subseteq Elements)' => PageTypes'
    BY <1>1, <1>6 DEF PageInv, PageTypeOK, PageTypes, session
  <1>8. submitted' = submitted
    BY <1>1 DEF session
  <1> QED  BY <1>1, <1>2, <1>3, <1>5, <1>7, <1>8, HandlerStep

LEMMA OtherAnsweredStep ==
    ASSUME PageInv, NEW j \in Jobs, CancelAnswered(j) \/ ActionAnswered(j)
    PROVE  PageInv'
  <1>1. job[j].stage = "served" /\ Move(j, "first") /\ UNCHANGED <<backend, session, screen, synced, dock>>
    BY DEF CancelAnswered, ActionAnswered
  <1>2. BackendTypes' /\ DecisionsSound' /\ Onwards /\ UNCHANGED <<turns, decision>>
    BY <1>1, BackendKept
  <1>3. PICK r : Takes(j, r)
    BY <1>1, <1>2, MoveTakes
  <1>4. (storage \in [Plans -> {Original, None}])' /\ draft' \in Facts \cup {None}
    BY DEF CancelAnswered, ActionAnswered, ClearToken, PageInv, PageTypeOK, PageTypes
  <1>5. PageTypes'
    BY <1>1, <1>4 DEF PageInv, PageTypeOK, PageTypes, session, screen
  <1>6. conversation' = conversation /\ submitted' = submitted
    BY <1>1 DEF session, screen
  <1> QED  BY <1>2, <1>3, <1>5, <1>6, HandlerStep

LEMMA FailedStep ==
    ASSUME PageInv, NEW j \in Jobs, Failed(j)
    PROVE  PageInv'
  <1>1. End(j) /\ UNCHANGED <<backend, session, storage, shown, highlighted, synced, draft>>
    BY DEF Failed
  <1>2. BackendTypes' /\ DecisionsSound' /\ Onwards /\ UNCHANGED <<turns, decision>>
    BY <1>1, BackendKept
  <1>3. PICK r : Takes(j, r)
    BY <1>1, <1>2, EndTakes
  <1>4. Founded(Element("error", j))
    BY DEF Founded, Element, Elements, ElementKinds
  <1>5. \A e \in conversation' : e \in conversation \/ Founded(e)
    BY <1>4 DEF Failed
  <1>6. dock' \in Docks
    BY DEF Failed, PageInv, PageTypeOK, PageTypes, Docks
  <1>7. (conversation \subseteq Elements)' => PageTypes'
    BY <1>1, <1>6 DEF PageInv, PageTypeOK, PageTypes, session
  <1>8. submitted' = submitted
    BY <1>1 DEF session
  <1> QED  BY <1>2, <1>3, <1>5, <1>7, <1>8, HandlerStep

-----------------------------------------------------------------------------
(* The reads of a refresh.                                                 *)
LEMMA Reading ==
    ASSUME PageInv, NEW j \in Jobs, NEW r \in Handlers, job' = [job EXCEPT ![j] = r],
           r.kind = job[j].kind, r.of = job[j].of, r.stage \in {"first", "second"},
           job[j].stage \in {"first", "second"}, r.turns \subseteq turns,
           BackendTypes', UNCHANGED <<plan, fact, turns, decision>>,
           UNCHANGED <<session, storage, screen, synced, dock, draft>>
    PROVE  PageInv'
  <1>1. DecisionsSound' /\ Onwards
    BY SoundKept DEF PageInv, Onwards
  <1>2. Knows(j, r, decision', turns')
    BY DEF PageInv, HandlersKnow, Knows
  <1>3. Takes(j, r)
    BY <1>2 DEF Takes
  <1>4. PageTypes'
    BY DEF PageInv, PageTypeOK, PageTypes, session, screen
  <1>5. conversation' = conversation /\ submitted' = submitted
    BY DEF session, screen
  <1> QED  BY <1>1, <1>3, <1>4, <1>5, HandlerStep

LEMMA ReadSurfaceStep ==
    ASSUME ConstantsOk, PageInv, NEW j \in Jobs, NEW s \in FirstWave, ReadSurface(j, s)
    PROVE  PageInv'
  <1> DEFINE got == job[j].got \cup {s}
             seen == [f \in Facts |-> IF f \in Listed(s) THEN fact[f] ELSE job[j].facts[f]]
             r == [job[j] EXCEPT !.got = got, !.facts = seen,
                                 !.stage = IF got = FirstWave THEN "second" ELSE "first"]
  <1>1. job[j] \in Handlers /\ Knows(j, job[j], decision, turns) /\ fact \in [Facts -> FactStatus]
    BY DEF PageInv, PageTypeOK, JobTypes, HandlersKnow, BackendTypes
  <1>2. got \in SUBSET Reads
    BY <1>1 DEF Handlers, FirstWave, Reads, ConstantsOk
  <1>3. seen \in [Facts -> FactStatus]
    BY <1>1 DEF Handlers
  <1>4. r \in Handlers
    BY <1>1, <1>2, <1>3 DEF Handlers, Stages
  <1>5. job' = [job EXCEPT ![j] = r]
    BY DEF ReadSurface
  <1>6. /\ r.kind = job[j].kind /\ r.of = job[j].of /\ r.turns = job[j].turns
        /\ r.stage \in {"first", "second"}
    BY <1>1 DEF Handlers
  <1>7. /\ job[j].stage = "first"
        /\ UNCHANGED <<backend, session, storage, screen, synced, dock, draft>>
    BY DEF ReadSurface
  <1>8. BackendTypes' /\ UNCHANGED <<plan, fact, turns, decision>>
    BY <1>7, BackendKept DEF backend
  <1>9. r.turns \subseteq turns
    BY <1>1, <1>6 DEF Knows
  <1> QED  BY <1>4, <1>5, <1>6, <1>7, <1>8, <1>9, Reading

LEMMA SecondReadStep ==
    ASSUME PageInv, NEW j \in Jobs,
           ReadTurns(j) \/ ReadPending(j) \/ ReadFiles(j) \/ \E s \in SecondWave : FallBack(j, s)
    PROVE  PageInv'
  <1>0. job[j] \in Handlers /\ Knows(j, job[j], decision, turns) /\ BackendTypes
    BY DEF PageInv, PageTypeOK, JobTypes, HandlersKnow
  <1>1. PICK s \in Reads, told \in SUBSET turns, pending \in SUBSET Plans, all \in SUBSET Jobs :
          job' = [job EXCEPT ![j] = [job[j] EXCEPT !.got = job[j].got \cup {s}, !.turns = told,
                                                   !.pending = pending, !.files = all]]
    <2>1. CASE ReadTurns(j)
      <3>1. job' = [job EXCEPT ![j] = [job[j] EXCEPT !.got = job[j].got \cup {"turns"}, !.turns = turns,
                                  !.pending = job[j].pending, !.files = job[j].files]]
        BY <1>0, <2>1 DEF ReadTurns, Handlers
      <3> QED  BY <1>0, <3>1 DEF Handlers, Reads
    <2>2. CASE ReadPending(j)
      <3>1. job' = [job EXCEPT ![j] = [job[j] EXCEPT !.got = job[j].got \cup {"pending"}, !.turns = job[j].turns,
                                  !.pending = Awaiting, !.files = job[j].files]]
        BY <1>0, <2>2 DEF ReadPending, Handlers
      <3> QED  BY <1>0, <3>1 DEF Handlers, Reads, Awaiting, Knows
    <2>3. CASE ReadFiles(j)
      <3>1. job' = [job EXCEPT ![j] = [job[j] EXCEPT !.got = job[j].got \cup {"files"}, !.turns = job[j].turns,
                                  !.pending = job[j].pending, !.files = files]]
        BY <1>0, <2>3 DEF ReadFiles, Handlers
      <3> QED  BY <1>0, <3>1 DEF Handlers, Reads, Knows, BackendTypes
    <2>4. ASSUME NEW s \in SecondWave, FallBack(j, s)
          PROVE  \E told \in SUBSET turns, pending \in SUBSET Plans, all \in SUBSET Jobs :
             job' = [job EXCEPT ![j] = [job[j] EXCEPT !.got = job[j].got \cup {s}, !.turns = told,
                                                   !.pending = pending, !.files = all]]
      <3>1. job' = [job EXCEPT ![j] = [job[j] EXCEPT !.got = job[j].got \cup {s}, !.turns = job[j].turns,
                                  !.pending = job[j].pending, !.files = job[j].files]]
        BY <1>0, <2>4 DEF FallBack, Handlers
      <3> QED  BY <1>0, <3>1 DEF Handlers, Knows
    <2>5. SecondWave \subseteq Reads
      BY DEF SecondWave, Reads
    <2> QED  BY <2>1, <2>2, <2>3, <2>4, <2>5
  <1> DEFINE r == [job[j] EXCEPT !.got = job[j].got \cup {s}, !.turns = told,
                                 !.pending = pending, !.files = all]
  <1>2. r \in Handlers
    BY <1>0 DEF Handlers, BackendTypes
  <1>3. r.kind = job[j].kind /\ r.of = job[j].of /\ r.stage = job[j].stage /\ r.turns = told
    BY <1>0 DEF Handlers
  <1>4. /\ job[j].stage = "second"
        /\ UNCHANGED <<plan, fact, turns, files, decision>>
        /\ UNCHANGED <<session, storage, screen, synced, dock, draft>>
    BY DEF ReadTurns, ReadPending, ReadFiles, FallBack, backend
  <1>5. (live \subseteq Plans \X Tokens)'
    BY <1>0 DEF ReadTurns, ReadPending, ReadFiles, FallBack, backend, Awaiting, BackendTypes, Tokens
  <1>6. BackendTypes'
    BY <1>0, <1>4, <1>5 DEF BackendTypes
  <1> QED  BY <1>1, <1>2, <1>3, <1>4, <1>6, Reading

-----------------------------------------------------------------------------
(* What a refresh puts on the page.                                        *)
LEMMA HistoryFounded ==
    ASSUME ConstantsOk, PageInv, NEW j \in Jobs, Restores(j), submitted' = submitted,
           NEW h \in HistoryOf(job[j].turns)
    PROVE  Founded(h)
  <1>1. /\ job[j].turns \subseteq turns /\ turns \subseteq Turns /\ ~ submitted'
        /\ storage \in [Plans -> {Original, None}]
    BY DEF PageInv, HandlersKnow, Knows, PageTypeOK, BackendTypes, PageTypes, Restores
  <1>2. CASE \E t \in job[j].turns : h = Element("history-user", t.by)
    <2>1. PICK t \in job[j].turns : h = Element("history-user", t.by)
      BY <1>2
    <2>2. t.by \in Jobs /\ Started(t.by)
      BY <1>1 DEF PageInv, TurnsStarted, Turns
    <2> QED  BY <1>1, <2>1, <2>2 DEF Founded, Element, Elements, ElementKinds
  <1>3. CASE \E t \in job[j].turns : h = Element("history-reply", t.by)
    <2>1. PICK t \in job[j].turns : h = Element("history-reply", t.by)
      BY <1>3
    <2>2. t.by \in Jobs
      BY <1>1 DEF Turns
    <2> QED  BY <2>1, <2>2 DEF Founded, Element, Elements, ElementKinds
  <1>4. CASE \E t \in job[j].turns : t.plan # None /\ h \in AskedWith(t.plan, storage[t.plan])
    <2>1. PICK t \in job[j].turns : t.plan # None /\ h \in AskedWith(t.plan, storage[t.plan])
      BY <1>4
    <2>2. t.plan \in Plans /\ storage[t.plan] \in {Original, None}
      BY <1>1, <2>1 DEF Turns
    <2> QED  BY <2>1, <2>2 DEF Founded, AskedWith, Element, Card, Elements, ElementKinds, Tokens
  <1> QED  BY <1>2, <1>3, <1>4 DEF HistoryOf

LEMMA RefreshFounded ==
    ASSUME ConstantsOk, PageInv, NEW j \in Jobs, submitted' = submitted, NEW e \in Refreshed(j)
    PROVE  e \in conversation \/ Founded(e)
  <1> DEFINE history == IF Restores(j) THEN HistoryOf(job[j].turns) ELSE {}
             cards == {Card(p, j) : p \in job[j].pending}
             restored == WithHistory(conversation, history)
             offered == WithPending(restored, cards)
  <1>1. Refreshed(j) = WithFiles(offered, job[j].files)
    BY DEF Refreshed
  <1>2. e = Element("files", None) \/ e \in offered
    BY <1>1 DEF WithFiles
  <1>3. e \in offered => e \in cards \/ e \in restored
    BY DEF WithPending
  <1>4. e \in restored => e \in conversation \/ e \in history
    BY DEF WithHistory
  <1>5. e = Element("files", None) => Founded(e)
    BY DEF Founded, Element, Elements, ElementKinds
  <1>6. e \in cards => Founded(e)
    <2>1. job[j].pending \subseteq Plans
      BY DEF PageInv, PageTypeOK, JobTypes, Handlers
    <2> QED  BY <2>1 DEF Founded, Card, Elements, ElementKinds, Tokens
  <1>7. e \in history => Founded(e)
    BY HistoryFounded
  <1> HIDE DEF history, cards, restored, offered
  <1> QED  BY <1>2, <1>3, <1>4, <1>5, <1>6, <1>7

LEMMA ApplyStep ==
    ASSUME ConstantsOk, PageInv, NEW j \in Jobs, ApplyRefresh(j)
    PROVE  PageInv'
  <1>0. job[j] \in Handlers /\ Knows(j, job[j], decision, turns)
    BY DEF PageInv, PageTypeOK, JobTypes, HandlersKnow
  <1>1. /\ job[j].stage = "second" /\ End(j)
        /\ conversation' = Finished(j, Refreshed(j))
        /\ UNCHANGED <<backend, session, storage, draft>>
    BY DEF ApplyRefresh
  <1>2. BackendTypes' /\ DecisionsSound' /\ Onwards /\ UNCHANGED <<turns, decision>> /\ plan' = plan
    BY <1>1, BackendKept
  <1>3. PICK r : Takes(j, r)
    BY <1>1, <1>2, EndTakes
  <1>4. submitted' = submitted
    BY <1>1 DEF session
  <1>5. ASSUME NEW e \in conversation' PROVE e \in conversation \/ Founded(e)
    <2>1. \/ e \in Refreshed(j)
          \/ job[j].kind = "cancel" /\ e = Element("cancelled", job[j].of)
      BY <1>1, <1>5 DEF Finished
    <2>2. CASE e \in Refreshed(j)
      BY <1>4, <2>2, RefreshFounded
    <2>3. CASE job[j].kind = "cancel" /\ e = Element("cancelled", job[j].of)
      <3>1. job[j].of \in Plans /\ Rejected(decision, job[j].of)
        BY <1>0, <1>1, <2>3 DEF Knows
      <3> QED  BY <1>2, <2>3, <3>1 DEF Founded, Element, Elements, ElementKinds
    <2> QED  BY <2>1, <2>2, <2>3
  <1>6. (conversation \subseteq Elements)' => PageTypes'
    <2>0. PageTypes
      BY DEF PageInv, PageTypeOK
    <2>1. shown' \in [Facts -> FactStatus] /\ highlighted' \in Facts \cup {None}
      BY <1>0 DEF ApplyRefresh, Handlers
    <2>2. synced' \in [Facts -> FactStatus]
      BY <1>0, <2>0 DEF ApplyRefresh, Handlers, Posted, PageTypes, FactStatus
    <2>3. dock' \in Docks
      BY <2>0 DEF ApplyRefresh, DockAfter, PageTypes, Docks
    <2> QED  BY <1>1, <2>0, <2>1, <2>2, <2>3 DEF PageTypes, session
  <1> QED  BY <1>2, <1>3, <1>4, <1>5, <1>6, HandlerStep

(* The page goes: nothing stands on it any more.                           *)
LEMMA CloseStep ==
    ASSUME PageInv, Close
    PROVE  PageInv'
  <1>1. /\ conversation' = {} /\ UNCHANGED <<backend, synced>>
        /\ job' = [j \in Jobs |->
              IF job[j].stage = "sent" THEN [job[j] EXCEPT !.stage = "orphan"]
              ELSE IF j \in InFlight THEN [NoJob EXCEPT !.stage = "done"] ELSE job[j]]
    BY DEF Close
  <1>2. BackendTypes' /\ DecisionsSound' /\ UNCHANGED <<turns, decision>>
    BY <1>1, BackendKept
  <1>3. PageTypes'
    BY <1>1 DEF PageInv, PageTypeOK, PageTypes, Close, EmptySurfaces, FactStatus, Docks
  <1>4. ASSUME NEW k \in Jobs
        PROVE  job'[k] \in Handlers /\ Knows(k, job'[k], decision', turns') /\ (Started(k) => Started(k)')
    <2>0. job[k] \in Handlers /\ Knows(k, job[k], decision, turns)
      BY DEF PageInv, PageTypeOK, JobTypes, HandlersKnow
    <2>1. CASE job[k].stage = "sent"
      <3>1. job'[k] = [job[k] EXCEPT !.stage = "orphan"]
        BY <1>1, <2>1
      <3>2. /\ job'[k] \in Handlers /\ job'[k].stage = "orphan" /\ job'[k].kind = job[k].kind
            /\ job'[k].of = job[k].of /\ job'[k].turns = job[k].turns
        BY <2>0, <3>1 DEF Handlers, Stages
      <3>3. Knows(k, job'[k], decision, turns)
        BY <2>0, <2>1, <3>2 DEF Knows
      <3> QED  BY <1>2, <3>2, <3>3 DEF Started
    <2>2. CASE job[k].stage # "sent" /\ k \in InFlight
      <3>1. job'[k] = [NoJob EXCEPT !.stage = "done"]
        BY <1>1, <2>2
      <3>2. job'[k] \in Handlers /\ job'[k].stage = "done" /\ job'[k].kind = "none"
            /\ job'[k].turns = {}
        BY <3>1, NoJobTyped DEF Handlers, Stages, NoJob
      <3> QED  BY <3>2 DEF Knows, Started
    <2>3. CASE job[k].stage # "sent" /\ k \notin InFlight
      <3>1. job'[k] = job[k]
        BY <1>1, <2>3
      <3> QED  BY <1>2, <2>0, <3>1 DEF Started
    <2> QED  BY <2>1, <2>2, <2>3
  <1>5. JobTypes' /\ HandlersKnow' /\ TurnsStarted'
    <2>1. JobTypes'
      BY <1>1, <1>4 DEF JobTypes
    <2>2. TurnsStarted'
      BY <1>2, <1>4 DEF PageInv, TurnsStarted, BackendTypes, Turns
    <2> QED  BY <1>4, <2>1, <2>2 DEF HandlersKnow
  <1>6. ElementsGrounded' /\ ToldTheTruth' /\ NoTurnTwice'
    BY <1>1 DEF ElementsGrounded, ToldTheTruth, Told, NoTurnTwice
  <1> QED  BY <1>2, <1>3, <1>5, <1>6 DEF PageInv, PageTypeOK

-----------------------------------------------------------------------------
LEMMA PageBegins == ConstantsOk /\ Init => PageInv
  <1> SUFFICES ASSUME ConstantsOk, Init PROVE PageInv
    OBVIOUS
  <1>1. BackendTypes
    BY DEF Init, BackendTypes, PlanStatus, FactStatus, NoDecision, DecisionRecords
  <1>2. PageTypes
    BY DEF Init, PageTypes, EmptySurfaces, FactStatus, Docks
  <1>3. JobTypes /\ HandlersKnow
    BY NoJobTyped DEF Init, JobTypes, HandlersKnow, Knows, NoJob, NoDecision, Requests
  <1>4. DecisionsSound /\ TurnsStarted
    BY DEF Init, DecisionsSound, RequestOk, NoDecision, Saved, Decided, TurnsStarted
  <1>5. ElementsGrounded /\ ToldTheTruth /\ NoTurnTwice
    BY DEF Init, ElementsGrounded, ToldTheTruth, Told, NoTurnTwice
  <1> QED  BY <1>1, <1>2, <1>3, <1>4, <1>5 DEF PageInv, PageTypeOK

LEMMA PageGoesOn == ConstantsOk /\ PageInv /\ [Next]_vars => PageInv'
  <1> SUFFICES ASSUME ConstantsOk, PageInv, [Next]_vars PROVE PageInv'
    OBVIOUS
  <1>1. ASSUME NEW j \in Jobs, User(j) PROVE PageInv'
    BY <1>1, BeginOnAPage, BeginAnew, BeginTyped DEF User
  <1>2. ASSUME NEW j \in Jobs, Serve(j) PROVE PageInv'
    BY <1>2, ServeTurnStep, ServeAttachmentStep, ServeConfirmStep, ServeRejectStep,
       ServeDirectStep, ExecuteStep, SaveStep DEF Serve, Requests
  <1>3. ASSUME NEW j \in Jobs, Continue(j) PROVE PageInv'
    <2>1. CASE SubmitAnswered(j) \/ AttachAnswered(j) \/ ConfirmAnswered(j)
               \/ CancelAnswered(j) \/ ActionAnswered(j) \/ Failed(j)
      BY <2>1, SubmitAnsweredStep, AttachAnsweredStep, ConfirmAnsweredStep, OtherAnsweredStep,
         FailedStep
    <2>2. CASE (\E s \in FirstWave : ReadSurface(j, s)) \/ ReadTurns(j) \/ ReadPending(j)
               \/ ReadFiles(j)
      BY <2>2, ReadSurfaceStep, SecondReadStep
    <2> QED  BY <1>3, <2>1, <2>2, ApplyStep DEF Continue
  <1>4. ASSUME NEW j \in Jobs,
               FailRequest(j) \/ LoseDecision(j) \/ \E s \in SecondWave : FallBack(j, s)
        PROVE  PageInv'
    BY <1>4, FailRequestStep, LoseStep, SecondReadStep DEF Requests
  <1>5. CASE OpenEditor \/ CloseEditor \/ RefuseForm \/ NativeStatus \/ NativeError
    BY <1>5, DockStep
  <1>6. CASE ExpireTokens \/ Close
    BY <1>6, ExpireStep, CloseStep
  <1>8. ASSUME NEW r \in Others,
               \/ Execute(r) \/ SaveDecision(r) \/ LoseDecision(r)
               \/ \E p \in Plans : OtherClientAsks(r, p)
        PROVE  PageInv'
    BY <1>8, ExecuteStep, SaveStep, LoseStep, OtherAsksStep DEF Requests
  <1>7. CASE UNCHANGED vars
    <2>1. UNCHANGED backend /\ UNCHANGED <<session, storage, screen, synced, dock, draft, job>>
      BY <1>7 DEF vars
    <2>2. BackendTypes' /\ DecisionsSound' /\ Onwards /\ UNCHANGED <<turns, decision>>
      BY <2>1, BackendKept
    <2>3. PageTypes' /\ UNCHANGED <<turns, submitted, conversation, job, decision>>
      BY <2>1, <2>2 DEF PageInv, PageTypeOK, PageTypes, session, screen
    <2> QED  BY <2>2, <2>3, Elsewhere
  <1> QED  BY <1>1, <1>2, <1>3, <1>4, <1>5, <1>6, <1>7, <1>8 DEF Next

LEMMA PageAlways ==
    ASSUME ConstantsOk
    PROVE  Spec => []PageInv
  BY PageBegins, PageGoesOn, PTL DEF Spec

(* Every variable of the page and of what it sees of the backend keeps its *)
(* type.                                                                   *)
THEOREM PageTyped ==
    ASSUME ConstantsOk
    PROVE  Spec => []PageTypeOK
  <1>1. PageInv => PageTypeOK
    BY DEF PageInv
  <1> QED  BY <1>1, PageAlways, PTL

(* components.tsx handleConfirm, handleCancel: a decision the page tells   *)
(* was saved, and is what stands where none of the other kind was let in   *)
(* besides, whatever its handlers, other clients and the backend do in     *)
(* between.                                                                *)
THEOREM ToldIsTrue ==
    ASSUME ConstantsOk
    PROVE  Spec => []ToldTheTruth
  <1>1. PageInv => ToldTheTruth
    BY DEF PageInv
  <1> QED  BY <1>1, PageAlways, PTL

(* components.tsx hasSubmittedInSessionRef: no turn stands there twice.    *)
THEOREM NoTurnStandsTwice ==
    ASSUME ConstantsOk
    PROVE  Spec => []NoTurnTwice
  <1>1. PageInv => NoTurnTwice
    BY DEF PageInv
  <1> QED  BY <1>1, PageAlways, PTL

-----------------------------------------------------------------------------
(* The page implements Outcome: every step lets a request in, decides a    *)
(* plan, tells what was decided, forgets what was told, or changes nothing *)
(* of it.                                                                  *)
SameOutcomes == UNCHANGED <<OutcomeNow, AdmittedNow, TakenNow, ToldNow>>

(* A request is let in for a plan, and a decision was taken of it.         *)
LEMMA AdmittedIf ==
    ASSUME NEW p \in Plans
    PROVE  /\ \A x : x \in AdmittedNow[p] <=>
                  \E q \in Requests : /\ x = <<q, Wanted(q)>>
                                      /\ decision[q].plan = p /\ decision[q].stage # "saved"
           /\ \A d : d \in TakenNow[p] <=>
                  \E q \in Requests : /\ d = Wanted(q)
                                      /\ decision[q].plan = p /\ decision[q].stage = "saved"
  BY DEF AdmittedNow, TakenNow, AskedOf, Saved

LEMMA SameIfTold ==
    ASSUME plan' = plan, decision' = decision,
           \A p \in Plans : /\ Element("result", p) \in conversation' <=>
                                 Element("result", p) \in conversation
                            /\ Element("cancelled", p) \in conversation' <=>
                                 Element("cancelled", p) \in conversation
    PROVE  SameOutcomes
  <1>1. OutcomeNow' = OutcomeNow
    BY DEF OutcomeNow
  <1>2. ToldNow' = ToldNow
    BY DEF ToldNow, Told
  <1>3. AdmittedNow' = AdmittedNow /\ TakenNow' = TakenNow
    BY DEF AdmittedNow, TakenNow, AskedOf, Saved, Wanted
  <1> QED  BY <1>1, <1>2, <1>3 DEF SameOutcomes

(* Before a request is let in it is of no plan.                            *)
LEMMA AdmitsOne ==
    ASSUME ConstantsOk, PageInv, NEW r \in Requests, decision[r].stage = "none",
           NEW p \in Plans, plan[p] = "awaiting_confirmation",
           \A q \in Requests : q # r => decision'[q] = decision[q],
           decision'[r].plan = p, decision'[r].stage # "saved",
           plan' = plan, conversation' = conversation
    PROVE  Outcomes!Next
  <1> DEFINE d == Wanted(r)'
  <1>1. OutcomeNow[p] = "open" /\ OutcomeNow' = OutcomeNow /\ ToldNow' = ToldNow
    BY DEF OutcomeNow, ToldNow, Told
  <1>2. decision[r].plan \notin Plans
    BY DEF PageInv, DecisionsSound, RequestOk, ConstantsOk
  <1>3. \A q \in Requests : q # r => Wanted(q)' = Wanted(q)
    BY DEF Wanted
  <1>4. \A q \in Plans : /\ AdmittedNow'[q] = IF q = p THEN AdmittedNow[q] \cup {<<r, d>>}
                                              ELSE AdmittedNow[q]
                         /\ TakenNow'[q] = TakenNow[q]
    <2>1. ASSUME NEW q \in Plans
          PROVE  /\ \A x : x \in AdmittedNow'[q] <=>
                       \E a \in Requests : /\ x = <<a, Wanted(a)'>>
                                           /\ decision'[a].plan = q /\ decision'[a].stage # "saved"
                 /\ \A x : x \in TakenNow'[q] <=>
                       \E a \in Requests : /\ x = Wanted(a)'
                                           /\ decision'[a].plan = q /\ decision'[a].stage = "saved"
      BY DEF AdmittedNow, TakenNow, AskedOf, Saved
    <2>2. ASSUME NEW q \in Plans PROVE TakenNow'[q] = TakenNow[q]
      <3>1. \A x : x \in TakenNow'[q] <=> x \in TakenNow[q]
        BY <1>2, <1>3, <2>1, AdmittedIf
      <3> QED  BY <3>1 DEF TakenNow
    <2>3. ASSUME NEW q \in Plans
          PROVE  AdmittedNow'[q] = IF q = p THEN AdmittedNow[q] \cup {<<r, d>>} ELSE AdmittedNow[q]
      <3>1. \A x : x \in AdmittedNow'[q] <=> x \in AdmittedNow[q] \/ (q = p /\ x = <<r, d>>)
        BY <1>2, <1>3, <2>1, AdmittedIf
      <3> QED  BY <3>1
    <2> QED  BY <2>2, <2>3
  <1>5. AdmittedNow' = [AdmittedNow EXCEPT ![p] = @ \cup {<<r, d>>}] /\ TakenNow' = TakenNow
    <2> HIDE DEF d
    <2>1. /\ AdmittedNow = [q \in Plans |-> AdmittedNow[q]]
          /\ AdmittedNow' = [q \in Plans |-> AdmittedNow'[q]]
          /\ TakenNow = [q \in Plans |-> TakenNow[q]]
          /\ TakenNow' = [q \in Plans |-> TakenNow'[q]]
      BY DEF AdmittedNow, TakenNow
    <2> HIDE DEF AdmittedNow, TakenNow
    <2> QED  BY <1>4, <2>1
  <1>6. d \in Outcomes!Decisions
    BY DEF Wanted, Outcomes!Decisions
  <1> HIDE DEF d
  <1>7. Outcomes!Admit(p, r, d)
    BY <1>1, <1>5 DEF Outcomes!Admit
  <1> QED  BY <1>6, <1>7 DEF Outcomes!Next

(* Until it decides, or is lost, a request is let in for what it wants.    *)
LEMMA StillAdmitted ==
    ASSUME NEW r \in Requests, decision[r].stage # "saved", decision'[r].stage # "saved",
           \A q \in Requests : q # r => decision'[q] = decision[q],
           decision'[r].plan = decision[r].plan,
           decision'[r].outcome = "rejected" <=> decision[r].outcome = "rejected",
           plan' = plan, conversation' = conversation
    PROVE  SameOutcomes
  <1>1. OutcomeNow' = OutcomeNow /\ ToldNow' = ToldNow
    BY DEF OutcomeNow, ToldNow, Told
  <1>2. \A q \in Requests : /\ Wanted(q)' = Wanted(q) /\ decision'[q].plan = decision[q].plan
                            /\ decision'[q].stage = "saved" <=> decision[q].stage = "saved"
    BY DEF Wanted
  <1>3. \A p \in Plans :
           /\ {q \in AskedOf(p) : ~ Saved(q)}' = {q \in AskedOf(p) : ~ Saved(q)}
           /\ {q \in AskedOf(p) : Saved(q)}' = {q \in AskedOf(p) : Saved(q)}
    BY <1>2 DEF AskedOf, Saved
  <1>4. AdmittedNow' = AdmittedNow /\ TakenNow' = TakenNow
    BY <1>2, <1>3 DEF AdmittedNow, TakenNow, AskedOf
  <1> QED  BY <1>1, <1>4 DEF SameOutcomes

LEMMA DecidesOne ==
    ASSUME ConstantsOk, PageInv, NEW r \in Requests, SaveDecision(r)
    PROVE  Outcomes!Next
  <1> DEFINE p == decision[r].plan
             d == Wanted(r)
  <1>0. decision[r].stage = "decided" /\ conversation' = conversation
    BY DEF SaveDecision, screen
  <1>1. p \in Plans /\ decision[r] \in DecisionRecords /\ decision[r].outcome \in Decided
    BY <1>0, LetInBefore
  <1>2. BackendTypes
    BY DEF PageInv, PageTypeOK
  <1>3. /\ \A q \in Requests : q # r => decision'[q] = decision[q]
        /\ decision'[r].plan = p /\ decision'[r].outcome = decision[r].outcome
        /\ decision'[r].stage = "saved"
    BY <1>1, <1>2 DEF SaveDecision, BackendTypes, DecisionRecords
  <1>4. plan'[p] = decision[r].outcome /\ \A q \in Plans : q # p => plan'[q] = plan[q]
    BY <1>1, <1>2 DEF SaveDecision, BackendTypes
  <1>5. OutcomeNow' = [OutcomeNow EXCEPT ![p] = d] /\ ToldNow' = ToldNow
    <2>1. OutcomeNow'[p] = d
      BY <1>1, <1>4 DEF OutcomeNow, Wanted, Decided
    <2>2. \A q \in Plans : q # p => OutcomeNow'[q] = OutcomeNow[q]
      BY <1>4 DEF OutcomeNow
    <2>3. OutcomeNow' = [OutcomeNow EXCEPT ![p] = d]
      BY <2>1, <2>2 DEF OutcomeNow
    <2> QED  BY <1>0, <2>3 DEF ToldNow, Told
  <1>6. \A q \in Requests : Wanted(q)' = Wanted(q)
    BY <1>3 DEF Wanted
  <1>7. \A q \in Plans : /\ AdmittedNow'[q] = IF q = p THEN AdmittedNow[q] \ {<<r, d>>}
                                              ELSE AdmittedNow[q]
                         /\ TakenNow'[q] = IF q = p THEN TakenNow[q] \cup {d} ELSE TakenNow[q]
    <2>1. ASSUME NEW q \in Plans
          PROVE  /\ \A x : x \in AdmittedNow'[q] <=>
                       \E a \in Requests : /\ x = <<a, Wanted(a)'>>
                                           /\ decision'[a].plan = q /\ decision'[a].stage # "saved"
                 /\ \A x : x \in TakenNow'[q] <=>
                       \E a \in Requests : /\ x = Wanted(a)'
                                           /\ decision'[a].plan = q /\ decision'[a].stage = "saved"
      BY DEF AdmittedNow, TakenNow, AskedOf, Saved
    <2>2. ASSUME NEW q \in Plans
          PROVE  TakenNow'[q] = IF q = p THEN TakenNow[q] \cup {d} ELSE TakenNow[q]
      <3>1. \A x : x \in TakenNow'[q] <=> x \in TakenNow[q] \/ (q = p /\ x = d)
        BY <1>0, <1>3, <1>6, <2>1, AdmittedIf
      <3> QED  BY <3>1
    <2>3. ASSUME NEW q \in Plans
          PROVE  AdmittedNow'[q] = IF q = p THEN AdmittedNow[q] \ {<<r, d>>} ELSE AdmittedNow[q]
      <3>1. \A x : x \in AdmittedNow'[q] <=> x \in AdmittedNow[q] /\ ~ (q = p /\ x = <<r, d>>)
        BY <1>0, <1>3, <1>6, <2>1, AdmittedIf
      <3> QED  BY <3>1
    <2> QED  BY <2>2, <2>3
  <1>8. /\ AdmittedNow' = [AdmittedNow EXCEPT ![p] = @ \ {<<r, d>>}]
        /\ TakenNow' = [TakenNow EXCEPT ![p] = @ \cup {d}]
    <2>1. /\ AdmittedNow = [q \in Plans |-> AdmittedNow[q]]
          /\ AdmittedNow' = [q \in Plans |-> AdmittedNow'[q]]
      BY DEF AdmittedNow
    <2>2. /\ TakenNow = [q \in Plans |-> TakenNow[q]]
          /\ TakenNow' = [q \in Plans |-> TakenNow'[q]]
      BY DEF TakenNow
    <2> HIDE DEF p, d
    <2>3. AdmittedNow' = [AdmittedNow EXCEPT ![p] = @ \ {<<r, d>>}]
      BY <1>7, <2>1
    <2>4. TakenNow' = [TakenNow EXCEPT ![p] = @ \cup {d}]
      BY <1>7, <2>2
    <2> QED  BY <2>3, <2>4
  <1>9. <<r, d>> \in AdmittedNow[p]
    BY <1>0, <1>1, AdmittedIf
  <1>10. d \in Outcomes!Decisions
    BY DEF Wanted, Outcomes!Decisions
  <1> HIDE DEF p, d
  <1>11. Outcomes!Decide(p, r, d)
    BY <1>5, <1>8, <1>9 DEF Outcomes!Decide
  <1> QED  BY <1>1, <1>10, <1>11 DEF Outcomes!Next

LEMMA TellsOne ==
    ASSUME NEW p \in Plans, UNCHANGED <<plan, decision>>,
           NEW kind \in {"result", "cancelled"},
           IF kind = "cancelled" THEN Rejected(decision, p) ELSE Executed(decision, p),
           Element(kind, p) \in conversation',
           \A q \in Plans : \A k \in {"result", "cancelled"} : q # p \/ k # kind =>
               (Element(k, q) \in conversation' <=> Element(k, q) \in conversation)
    PROVE  Outcomes!Next
  <1> DEFINE d == IF kind = "cancelled" THEN "rejected" ELSE "executed"
  <1>1. OutcomeNow' = OutcomeNow
    BY DEF OutcomeNow
  <1>2. AdmittedNow' = AdmittedNow /\ TakenNow' = TakenNow
    BY DEF AdmittedNow, TakenNow, AskedOf, Saved, Wanted
  <1>3. d \in TakenNow[p]
    BY AdmittedIf DEF Rejected, Executed, Wanted
  <1>4. ToldNow' = [ToldNow EXCEPT ![p] = @ \cup {d}]
    <2>1. ToldNow'[p] = ToldNow[p] \cup {d}
      BY DEF ToldNow, Told
    <2>2. \A q \in Plans : q # p => ToldNow'[q] = ToldNow[q]
      BY DEF ToldNow, Told
    <2> QED  BY <2>1, <2>2 DEF ToldNow
  <1>5. d \in Outcomes!Decisions
    BY DEF Outcomes!Decisions
  <1> HIDE DEF d
  <1>6. Outcomes!Tell(p, d)
    BY <1>1, <1>2, <1>3, <1>4 DEF Outcomes!Tell
  <1> QED  BY <1>5, <1>6 DEF Outcomes!Next

LEMMA Forgets ==
    ASSUME UNCHANGED <<plan, decision>>, conversation' = {}
    PROVE  Outcomes!Next
  <1>1. OutcomeNow' = OutcomeNow
    BY DEF OutcomeNow
  <1>2. ToldNow' = [p \in Plans |-> {}]
    BY DEF ToldNow, Told
  <1>3. AdmittedNow' = AdmittedNow /\ TakenNow' = TakenNow
    BY DEF AdmittedNow, TakenNow, AskedOf, Saved, Wanted
  <1> QED  BY <1>1, <1>2, <1>3 DEF Outcomes!Next, Outcomes!Forget

LEMMA AddsNothing ==
    ASSUME NEW j \in Jobs,
           \/ Open(j) \/ (\E f \in Facts : ViewChanged(j, f)) \/ HandleConfirm(j)
           \/ HandleCancel(j) \/ HandleSummaryAction(j) \/ HandleSubmitSummaryEdit(j)
           \/ ServeAttachment(j) \/ ServeDirect(j) \/ FailRequest(j)
           \/ CancelAnswered(j) \/ ActionAnswered(j)
           \/ (\E s \in FirstWave : ReadSurface(j, s))
           \/ ReadTurns(j) \/ ReadPending(j) \/ ReadFiles(j)
           \/ (\E s \in SecondWave : FallBack(j, s))
    PROVE  SameOutcomes
  <1>1. UNCHANGED <<plan, decision>> /\ conversation' = conversation
    BY DEF Open, ViewChanged, HandleConfirm, HandleCancel, HandleSummaryAction,
           HandleSubmitSummaryEdit, ServeAttachment, ServeDirect, FailRequest, CancelAnswered,
           ActionAnswered, ReadSurface, ReadTurns, ReadPending, ReadFiles, FallBack, backend, screen
  <1> QED  BY <1>1, SameIfTold

LEMMA AddsNoDecision ==
    ASSUME NEW j \in Jobs,
           \/ HandleSubmittedText(j) \/ HandleSubmittedAttachment(j)
           \/ SubmitAnswered(j) \/ AttachAnswered(j) \/ Failed(j)
    PROVE  SameOutcomes
  <1>1. UNCHANGED <<plan, decision>>
    BY DEF HandleSubmittedText, HandleSubmittedAttachment, SubmitAnswered, AttachAnswered, Failed,
           backend
  <1>2. \A p \in Plans : /\ Element("result", p) \in conversation' <=>
                                Element("result", p) \in conversation
                         /\ Element("cancelled", p) \in conversation' <=>
                                Element("cancelled", p) \in conversation
    <2>1. CASE HandleSubmittedText(j) \/ HandleSubmittedAttachment(j)
      <3>1. conversation' = conversation \cup {Element("user", j)}
        BY <2>1 DEF HandleSubmittedText, HandleSubmittedAttachment
      <3> QED  BY <3>1 DEF Element
    <2>2. CASE SubmitAnswered(j)
      <3>1. \/ conversation' = conversation \cup {Element("reply", j)}
            \/ conversation' = conversation \cup AskedWith(job[j].of, Original)
        BY <2>2 DEF SubmitAnswered
      <3> QED  BY <3>1 DEF Element, AskedWith, Card
    <2>3. CASE AttachAnswered(j)
      <3>1. conversation' = conversation \cup {Element("intake", j)}
        BY <2>3 DEF AttachAnswered
      <3> QED  BY <3>1 DEF Element
    <2>4. CASE Failed(j)
      <3>1. \/ conversation' = conversation \cup {Element("error", j)}
            \/ conversation' = conversation
        BY <2>4 DEF Failed
      <3> QED  BY <3>1 DEF Element
    <2> QED  BY <2>1, <2>2, <2>3, <2>4
  <1> QED  BY <1>1, <1>2, SameIfTold

(* A request that was let in goes on: it decides when its plan is saved.   *)
LEMMA RequestGoesOn ==
    ASSUME ConstantsOk, PageInv, NEW r \in Requests,
           Execute(r) \/ SaveDecision(r) \/ LoseDecision(r)
    PROVE  Outcomes!Next \/ SameOutcomes
  <1>1. BackendTypes
    BY DEF PageInv, PageTypeOK
  <1>2. CASE Execute(r)
    <2>1. decision[r].stage = "allowed" /\ plan' = plan /\ conversation' = conversation
      BY <1>2 DEF Execute, screen
    <2>2. decision[r] \in DecisionRecords /\ decision[r].outcome # "rejected"
      BY <2>1, LetInBefore
    <2>3. PICK outcome \in {"succeeded", "failed"} :
             decision' = [decision EXCEPT ![r].outcome = outcome, ![r].stage = "decided"]
      BY <1>2 DEF Execute
    <2>4. /\ \A q \in Requests : q # r => decision'[q] = decision[q]
          /\ decision'[r].plan = decision[r].plan /\ decision'[r].outcome = outcome
          /\ decision'[r].stage = "decided"
      BY <1>1, <2>2, <2>3 DEF BackendTypes, DecisionRecords
    <2> QED  BY <2>1, <2>2, <2>4, StillAdmitted
  <1>3. CASE SaveDecision(r)
    BY <1>3, DecidesOne
  <1>4. CASE LoseDecision(r)
    <2>1. decision[r].stage \in {"allowed", "decided"} /\ plan' = plan /\ conversation' = conversation
      BY <1>4 DEF LoseDecision, screen
    <2>2. decision[r] \in DecisionRecords
      BY <1>1 DEF BackendTypes
    <2>3. /\ \A q \in Requests : q # r => decision'[q] = decision[q]
          /\ decision'[r].plan = decision[r].plan /\ decision'[r].outcome = decision[r].outcome
          /\ decision'[r].stage = "lost"
      BY <1>1, <1>4, <2>2 DEF LoseDecision, BackendTypes, DecisionRecords
    <2> QED  BY <2>1, <2>3, StillAdmitted
  <1> QED  BY <1>2, <1>3, <1>4

LEMMA LetsInAdmits ==
    ASSUME ConstantsOk, PageInv, NEW r \in Requests, decision[r].stage = "none",
           NEW p \in Plans, plan[p] = "awaiting_confirmation",
           \/ decision' = [decision EXCEPT ![r] = LetIn(p, None, "allowed")]
           \/ decision' = [decision EXCEPT ![r] = LetIn(p, "rejected", "decided")],
           plan' = plan, conversation' = conversation
    PROVE  Outcomes!Next
  <1>1. decision \in [Requests -> DecisionRecords]
    BY DEF PageInv, PageTypeOK, BackendTypes
  <1>2. /\ \A q \in Requests : q # r => decision'[q] = decision[q]
        /\ decision'[r] \in {LetIn(p, None, "allowed"), LetIn(p, "rejected", "decided")}
    BY <1>1
  <1>3. decision'[r].plan = p /\ decision'[r].stage # "saved"
    BY <1>2 DEF LetIn
  <1> QED  BY <1>2, <1>3, AdmitsOne

LEMMA ServesAPlan ==
    ASSUME ConstantsOk, PageInv, NEW j \in Jobs,
           ServeTurn(j) \/ ServeConfirm(j) \/ ServeReject(j)
    PROVE  Outcomes!Next \/ SameOutcomes
  <1>0. conversation' = conversation /\ plan \in [Plans -> PlanStatus] /\ j \in Requests
    BY DEF ServeTurn, ServeConfirm, ServeReject, screen, PageInv, PageTypeOK, BackendTypes, Requests
  <1>1. CASE ServeTurn(j)
    <2>1. PICK p \in {q \in Plans : plan[q] = "absent"} \cup {None} :
            plan' = [q \in Plans |-> IF q = p THEN "awaiting_confirmation" ELSE plan[q]]
      BY <1>1 DEF ServeTurn
    <2>2. OutcomeNow' = OutcomeNow
      BY <2>1 DEF OutcomeNow, ConstantsOk
    <2>3. ToldNow' = ToldNow
      BY <1>0 DEF ToldNow, Told
    <2>4. decision' = decision
      BY <1>1 DEF ServeTurn
    <2>5. AdmittedNow' = AdmittedNow /\ TakenNow' = TakenNow
      BY <2>4 DEF AdmittedNow, TakenNow, AskedOf, Saved, Wanted
    <2> QED  BY <2>2, <2>3, <2>5 DEF SameOutcomes
  <1>2. CASE ServeConfirm(j) \/ ServeReject(j)
    <2>1. job[j].of \in Plans /\ decision[j].stage = "none" /\ plan' = plan
      BY <1>2 DEF ServeConfirm, ServeReject, Requested, PageInv, HandlersKnow, Knows
    <2>2. \/ UNCHANGED decision
          \/ /\ plan[job[j].of] = "awaiting_confirmation"
             /\ \/ decision' = [decision EXCEPT ![j] = LetIn(job[j].of, None, "allowed")]
                \/ decision' = [decision EXCEPT ![j] = LetIn(job[j].of, "rejected", "decided")]
      BY <1>2 DEF ServeConfirm, ServeReject
    <2> QED  BY <1>0, <2>1, <2>2, SameIfTold, LetsInAdmits
  <1> QED  BY <1>1, <1>2

LEMMA AnotherAsks ==
    ASSUME ConstantsOk, PageInv, NEW r \in Others, NEW p \in Plans, OtherClientAsks(r, p)
    PROVE  Outcomes!Next
  BY LetsInAdmits DEF OtherClientAsks, screen, Requests

LEMMA ConfirmTells ==
    ASSUME PageInv, NEW j \in Jobs, ConfirmAnswered(j)
    PROVE  Outcomes!Next
  <1> DEFINE p == job[j].of
  <1>1. p \in Plans /\ Executed(decision, p) /\ UNCHANGED <<plan, decision>>
    BY DEF ConfirmAnswered, PageInv, HandlersKnow, Knows, backend
  <1>2. conversation' = (conversation \ CardsOf(p)) \cup {Element("result", p)}
    BY DEF ConfirmAnswered
  <1>3. Element("result", p) \in conversation'
    BY <1>2
  <1>4. \A q \in Plans : \A k \in {"result", "cancelled"} : q # p \/ k # "result" =>
               (Element(k, q) \in conversation' <=> Element(k, q) \in conversation)
    BY <1>2 DEF Element, CardsOf
  <1> HIDE DEF p
  <1> QED  BY <1>1, <1>3, <1>4, TellsOne

(* A refresh takes no decision off the page.                               *)
LEMMA RefreshKeepsDecisions ==
    ASSUME ConstantsOk, PageInv, NEW j \in Jobs, NEW q \in Plans, NEW k \in {"result", "cancelled"}
    PROVE  Element(k, q) \in Refreshed(j) <=> Element(k, q) \in conversation
  <1> DEFINE e == Element(k, q)
             history == IF Restores(j) THEN HistoryOf(job[j].turns) ELSE {}
             cards == {Card(p, j) : p \in job[j].pending}
             restored == WithHistory(conversation, history)
             offered == WithPending(restored, cards)
  <1>1. e.kind = k /\ Id(e) = <<k, q>>
    BY DEF Element, Id
  <1>2. Refreshed(j) = WithFiles(offered, job[j].files)
    BY DEF Refreshed
  <1>3. e \in WithFiles(offered, job[j].files) <=> e \in offered
    BY <1>1 DEF WithFiles, Element
  <1>4. e \notin cards
    BY DEF Card, Element
  <1>5. e \in offered <=> e \in restored
    BY <1>1, <1>4 DEF WithPending
  <1>6. \A h \in history : h.kind \in {"history-user", "history-reply", "summary", "card"}
    BY DEF HistoryOf, AskedWith, Element, Card
  <1>7. e \notin history /\ <<k, q>> \notin {Id(h) : h \in history}
    BY <1>1, <1>6 DEF Id
  <1>8. e \in restored <=> e \in conversation
    BY <1>1, <1>7 DEF WithHistory, HistoryKinds
  <1> QED  BY <1>2, <1>3, <1>5, <1>8

LEMMA ApplyTells ==
    ASSUME ConstantsOk, PageInv, NEW j \in Jobs, ApplyRefresh(j)
    PROVE  Outcomes!Next \/ SameOutcomes
  <1>1. /\ conversation' = Finished(j, Refreshed(j)) /\ UNCHANGED <<plan, decision>>
        /\ job[j].stage = "second"
    BY DEF ApplyRefresh, backend
  <1>2. CASE job[j].kind # "cancel"
    <2>1. conversation' = Refreshed(j)
      BY <1>1, <1>2 DEF Finished
    <2> QED  BY <1>1, <2>1, RefreshKeepsDecisions, SameIfTold
  <1>3. CASE job[j].kind = "cancel"
    <2> DEFINE p == job[j].of
    <2>1. p \in Plans /\ Rejected(decision, p)
      BY <1>1, <1>3 DEF PageInv, HandlersKnow, Knows
    <2>2. conversation' = {e \in Refreshed(j) : ~ (e.kind = "card" /\ e.of = p)}
                             \cup {Element("cancelled", p)}
      BY <1>1, <1>3 DEF Finished
    <2>3. Element("cancelled", p) \in conversation'
      BY <2>2
    <2>4. \A q \in Plans : \A k \in {"result", "cancelled"} : q # p \/ k # "cancelled" =>
               (Element(k, q) \in conversation' <=> Element(k, q) \in Refreshed(j))
      BY <2>2 DEF Element
    <2>5. \A q \in Plans : \A k \in {"result", "cancelled"} : q # p \/ k # "cancelled" =>
               (Element(k, q) \in conversation' <=> Element(k, q) \in conversation)
      BY <2>4, RefreshKeepsDecisions
    <2> HIDE DEF p
    <2> QED  BY <1>1, <2>1, <2>3, <2>5, TellsOne
  <1> QED  BY <1>2, <1>3

LEMMA OutcomeStep ==
    ASSUME ConstantsOk, PageInv, [Next]_vars
    PROVE  Outcomes!Next \/ SameOutcomes
  <1>1. ASSUME NEW j \in Jobs, User(j) PROVE Outcomes!Next \/ SameOutcomes
    <2>1. CASE HostContext(j)
      BY <2>1, Forgets DEF HostContext, backend
    <2> QED  BY <1>1, <2>1, AddsNothing, AddsNoDecision DEF User
  <1>2. ASSUME NEW j \in Jobs, Serve(j) PROVE Outcomes!Next \/ SameOutcomes
    BY <1>2, ServesAPlan, RequestGoesOn, AddsNothing DEF Serve, Requests
  <1>3. ASSUME NEW j \in Jobs, Continue(j) PROVE Outcomes!Next \/ SameOutcomes
    BY <1>3, AddsNothing, AddsNoDecision, ConfirmTells, ApplyTells DEF Continue
  <1>4. ASSUME NEW j \in Jobs,
               FailRequest(j) \/ LoseDecision(j) \/ \E s \in SecondWave : FallBack(j, s)
        PROVE  Outcomes!Next \/ SameOutcomes
    BY <1>4, AddsNothing, RequestGoesOn DEF Requests
  <1>5. CASE \/ OpenEditor \/ CloseEditor \/ RefuseForm \/ NativeStatus \/ NativeError
             \/ ExpireTokens \/ UNCHANGED vars
    <2>1. UNCHANGED <<plan, decision>> /\ conversation' = conversation
      BY <1>5 DEF OpenEditor, CloseEditor, RefuseForm, NativeStatus, NativeError, ExpireTokens,
                  vars, backend, screen
    <2> QED  BY <2>1, SameIfTold
  <1>6. CASE Close
    BY <1>6, Forgets DEF Close, backend
  <1>7. ASSUME NEW r \in Others,
               \/ Execute(r) \/ SaveDecision(r) \/ LoseDecision(r)
               \/ \E p \in Plans : OtherClientAsks(r, p)
        PROVE  Outcomes!Next \/ SameOutcomes
    BY <1>7, RequestGoesOn, AnotherAsks DEF Requests
  <1> QED  BY <1>1, <1>2, <1>3, <1>4, <1>5, <1>6, <1>7 DEF Next

(* The workbench and its backend implement Outcome: a plan is decided only *)
(* by requests that were let in while it was open, and the page tells only *)
(* decisions that were saved.                                              *)
THEOREM OutcomesAreTold ==
    ASSUME ConstantsOk
    PROVE  Spec => TellsOutcomes
  <1>1. Init => Outcomes!Init
    <2>1. SUFFICES ASSUME Init PROVE Outcomes!Init
      OBVIOUS
    <2>2. OutcomeNow = [p \in Plans |-> "open"] /\ ToldNow = [p \in Plans |-> {}]
      BY <2>1 DEF Init, OutcomeNow, ToldNow, Told
    <2>3. \A p \in Plans : AskedOf(p) = {}
      BY <2>1 DEF Init, AskedOf, NoDecision, ConstantsOk
    <2>4. AdmittedNow = [p \in Plans |-> {}] /\ TakenNow = [p \in Plans |-> {}]
      BY <2>3 DEF AdmittedNow, TakenNow
    <2> QED  BY <2>2, <2>4 DEF Outcomes!Init
  <1>2. PageInv /\ [Next]_vars =>
           [Outcomes!Next]_<<OutcomeNow, AdmittedNow, TakenNow, ToldNow>>
    BY OutcomeStep DEF SameOutcomes
  <1> QED  BY <1>1, <1>2, PageAlways, PTL DEF Spec, TellsOutcomes, Outcomes!Spec

-----------------------------------------------------------------------------
(* The edit panel.                                                         *)
EditorTypeOK ==
    /\ event \in [start: Stamps, end: Stamps, tz: Timezones]
    /\ reminder \in Stamps
    /\ panel \in {"closed", "event", "reminder"}
    /\ form \in [start: Fields, end: Fields, tz: Timezones \cup {Empty}]

LEMMA IsoTyped ==
    ASSUME EditingConstants, NEW clock \in Clocks, NEW tz, NEW prev \in Stamps
    PROVE  ToIso(clock, tz, prev) \in Stamps
  BY DEF ToIso, Stamps, Seconds, EditingConstants

LEMMA EditingBegins == EditingInit => EditorTypeOK
  BY DEF EditingInit, EditorTypeOK, Stamps, Blank, Fields, Timezones

LEMMA EditingGoesOn == EditingConstants /\ EditorTypeOK /\ [EditingNext]_editor => EditorTypeOK'
  <1> SUFFICES ASSUME EditingConstants, EditorTypeOK, [EditingNext]_editor PROVE EditorTypeOK'
    OBVIOUS
  <1>1. CASE OpenEvent
    BY <1>1 DEF OpenEvent, EditorTypeOK, ToLocalInput, Stamps, Fields
  <1>2. CASE OpenReminder
    BY <1>2 DEF OpenReminder, EditorTypeOK, ToLocalInput, Stamps, Fields, Blank
  <1>3. CASE Type
    BY <1>3 DEF Type, EditorTypeOK
  <1>4. CASE Cancel
    BY <1>4 DEF Cancel, EditorTypeOK, Blank, Fields
  <1>5. CASE SaveEvent
    <2>1. form.start \in Clocks /\ form.end \in Clocks /\ form.tz \in Timezones
      BY <1>5 DEF SaveEvent, EditorTypeOK, Fields
    <2>2. /\ ToIso(form.start, form.tz, event.start) \in Stamps
          /\ ToIso(form.end, form.tz, event.end) \in Stamps
      BY <2>1, IsoTyped DEF EditorTypeOK
    <2>3. event' \in [start: Stamps, end: Stamps, tz: Timezones]
      BY <1>5, <2>1, <2>2 DEF SaveEvent, Edited
    <2> QED  BY <1>5, <2>3 DEF SaveEvent, EditorTypeOK, Blank, Fields
  <1>6. CASE SaveReminder
    <2>1. form.start \in Clocks
      BY <1>6 DEF SaveReminder, EditorTypeOK, Fields
    <2>2. reminder' \in Stamps
      BY <1>6, <2>1, IsoTyped DEF SaveReminder, EditorTypeOK
    <2> QED  BY <1>6, <2>2 DEF SaveReminder, EditorTypeOK, Blank, Fields
  <1>7. CASE UNCHANGED editor
    BY <1>7 DEF editor, EditorTypeOK
  <1> QED  BY <1>1, <1>2, <1>3, <1>4, <1>5, <1>6, <1>7 DEF EditingNext

(* A time that is saved as it was shown, under a timezone that is not read *)
(* as an offset, is what it was without the seconds the control does not   *)
(* show.                                                                   *)
LEMMA SavedAsShown ==
    ASSUME EditingConstants, NEW t \in Stamps, NEW tz, tz \notin Texts
    PROVE  Instant(ToIso(ToLocalInput(t), tz, t)) = Instant(t) - t.seconds
  <1>1. ToIso(ToLocalInput(t), tz, t) = [clock |-> t.clock, seconds |-> 0, offset |-> t.offset]
    BY DEF ToIso, ToLocalInput, EditingConstants
  <1>2. t.clock \in Int /\ t.offset \in Int /\ t.seconds \in Int
    <2>1. t.clock \in Clocks /\ t.offset \in Offsets /\ t.seconds \in {0, 30}
      BY DEF Stamps, Seconds
    <2>2. Clocks \subseteq Int /\ Offsets \subseteq Int
      BY DEF EditingConstants
    <2>3. t.clock \in Int /\ t.offset \in Int
      BY <2>1, <2>2
    <2>4. t.seconds \in Int
      BY <2>1
    <2> QED  BY <2>3, <2>4
  <1> QED  BY <1>1, <1>2 DEF Instant

(* dateTimeInput.ts dateTimeLocalValueToIso: saving an event as it is      *)
(* moves it by its seconds at most, whatever offsets it is stored with and *)
(* whatever its timezone is, if that is not read as an offset; and no edit *)
(* changes the offset of a reminder.                                       *)
THEOREM EditsAreExact ==
    ASSUME EditingConstants
    PROVE  EditingSpec => EditsMoveNothingElse
  <1> DEFINE Exact ==
        /\ SaveEvent /\ Untouched /\ event.tz \notin Texts =>
             /\ Instant(event'.start) = Instant(event.start) - event.start.seconds
             /\ Instant(event'.end) = Instant(event.end) - event.end.seconds
        /\ reminder'.offset = reminder.offset
  <1>1. EditorTypeOK /\ [EditingNext]_editor => [Exact]_editor
    <2> SUFFICES ASSUME EditorTypeOK, EditingNext PROVE Exact
      OBVIOUS
    <2>1. reminder'.offset = reminder.offset
      <3>1. CASE SaveReminder
        BY <3>1 DEF SaveReminder, ToIso, EditingConstants, Timezones
      <3>2. CASE ~ SaveReminder
        BY <3>2 DEF EditingNext, OpenEvent, OpenReminder, Type, Cancel, SaveEvent
      <3> QED  BY <3>1, <3>2
    <2>2. ASSUME SaveEvent, Untouched, event.tz \notin Texts
          PROVE  /\ Instant(event'.start) = Instant(event.start) - event.start.seconds
                 /\ Instant(event'.end) = Instant(event.end) - event.end.seconds
      <3>1. /\ event'.start = ToIso(ToLocalInput(event.start), event.tz, event.start)
            /\ event'.end = ToIso(ToLocalInput(event.end), event.tz, event.end)
        BY <2>2 DEF SaveEvent, Edited, Untouched
      <3>2. event.start \in Stamps /\ event.end \in Stamps
        BY DEF EditorTypeOK
      <3> QED  BY <2>2, <3>1, <3>2, SavedAsShown DEF Instant
    <2> QED  BY <2>1, <2>2
  <1> QED  BY <1>1, EditingBegins, EditingGoesOn, PTL DEF EditingSpec, EditsMoveNothingElse
-----------------------------------------------------------------------------
(* A page whose handlers do not overlap and whose requests do not fail. It *)
(* is up to date whenever no handler has changed anything that has not     *)
(* been read again; until then what the one handler has read is so, a card *)
(* or a stored token of a plan that is decided is one it will take away,   *)
(* and what native was given is one it will replace. A request is held in  *)
(* the backend only while its handler waits for it.                        *)
UpToDate ==
    /\ shown = fact
    /\ \A p \in Awaiting : \E t \in Tokens : CardsOf(p) = {Card(p, t)} /\ <<p, t>> \in live

Idle(j) == job[j].stage \in {"unused", "done"}
Only(j) == \A k \in Jobs : k # j => Idle(k)

ReadsAreNow(j) ==
    /\ job[j].stage \in {"sent", "deciding", "served"} => job[j].got = {}
    /\ job[j].stage = "first" => job[j].got \subseteq Surfaces
    /\ job[j].stage = "second" => FirstWave \subseteq job[j].got
    /\ job[j].stage \in {"first", "second"} =>
          \A f \in Facts : SurfaceOf[f] \in job[j].got => job[j].facts[f] = fact[f]
    /\ job[j].stage = "second" /\ "pending" \in job[j].got =>
          job[j].pending = Awaiting /\ \A p \in Awaiting : <<p, j>> \in live

Settles(j, p) == job[j].kind \in {"confirm", "cancel"} /\ job[j].of = p

CardsAwait(j) ==
    \A e \in conversation : e.kind = "card" =>
        \/ plan[e.of] = "awaiting_confirmation"
        \/ Settles(j, e.of) /\ job[j].stage = "served"
        \/ Settles(j, e.of) /\ job[j].kind = "cancel" /\ job[j].stage \in {"first", "second"}

TokensAwait(j) ==
    /\ \A p \in Plans : storage[p] # None =>
          plan[p] = "awaiting_confirmation" \/ (Settles(j, p) /\ job[j].stage = "served")
    /\ job[j].kind = "submit" /\ job[j].stage = "served" /\ job[j].of # None =>
          plan[job[j].of] = "awaiting_confirmation"

NativeIsTold(j) ==
    /\ job[j].sync /\ ~ Idle(j) => Host = "ios"
    /\ Host = "ios" /\ job[j].stage \in {"sent", "deciding"}
           /\ job[j].kind \in {"confirm", "direct", "edit"} => job[j].sync
    /\ \/ synced = EmptySurfaces
       \/ Host = "ios" /\ synced = Posted(fact)
       \/ job[j].sync /\ job[j].stage \in {"deciding", "served", "first", "second"}

Sole(j) ==
    /\ job[j].stage # "orphan" /\ (open \/ Idle(j))
    /\ open /\ (Idle(j) \/ job[j].stage \in {"sent", "refused"}) => UpToDate
    /\ ReadsAreNow(j) /\ CardsAwait(j) /\ TokensAwait(j) /\ NativeIsTold(j)

HostKnown == platform = IF open /\ Host = "ios" THEN "ios" ELSE None

Held(j) == decision[j].stage \in {"allowed", "decided"} => job[j].stage = "deciding"

QuietInv ==
    /\ \A j, k \in Jobs : j = k \/ Idle(j) \/ Idle(k)
    /\ HostKnown
    /\ \A j \in Jobs : Only(j) => Sole(j)
    /\ \A j \in Jobs : Held(j)

LEMMA HandsOver ==
    ASSUME NEW j \in Jobs, Only(j), \A k \in Jobs : k # j => job'[k] = job[k], HostKnown',
           Sole(j)', \A k \in Jobs : Held(k)'
    PROVE  QuietInv'
  <1>1. \A k \in Jobs : k # j => Idle(k)'
    BY DEF Only, Idle
  <1>2. ASSUME NEW k \in Jobs, Only(k)' PROVE Sole(k)'
    <2>1. CASE k = j
      BY <2>1
    <2>2. CASE k # j
      <3>1. Idle(k)' /\ Idle(j)'
        BY <1>1, <1>2, <2>2 DEF Only
      <3>2. (CardsAwait(k) /\ TokensAwait(k) /\ NativeIsTold(k) /\ ReadsAreNow(k))'
        BY <3>1 DEF Sole, CardsAwait, TokensAwait, NativeIsTold, ReadsAreNow, Idle
      <3> QED  BY <3>1, <3>2 DEF Sole, Idle
    <2> QED  BY <2>1, <2>2
  <1> QED  BY <1>1, <1>2 DEF QuietInv

LEMMA TakesOver ==
    ASSUME QuietInv, NEW j \in Jobs, Only(j), job[j].stage # "deciding", decision' = decision,
           \A k \in Jobs : k # j => job'[k] = job[k], HostKnown', Sole(j)'
    PROVE  QuietInv'
  <1>1. \A k \in Jobs : Held(k)'
    BY DEF QuietInv, Held
  <1> QED  BY <1>1, HandsOver

(* No other handler is there when one goes on, and none when one begins.   *)
LEMMA GoesOnAlone ==
    ASSUME QuietInv, NEW j \in Jobs, ~ Idle(j)
    PROVE  Only(j) /\ Sole(j) /\ open
  BY DEF QuietInv, Only, Sole

LEMMA BeginsAlone ==
    ASSUME PageInv, OneAtATime, QuietInv, NEW j \in Jobs,
           Cardinality(InFlight \cup Orphans) < MaxInFlight
    PROVE  Only(j) /\ Sole(j) /\ Idle(j)
  <1> DEFINE Here == InFlight \cup Orphans
  <1>1. \A k \in Jobs : ~ Idle(k) => k \in Here
    BY DEF PageInv, PageTypeOK, JobTypes, Handlers, Stages, Idle, InFlight, Orphans, Suspended
  <1>2. Here \subseteq Jobs /\ \A k \in Here : ~ Idle(k)
    BY DEF Idle, InFlight, Orphans, Suspended
  <1>3. Here = {}
    <2>1. SUFFICES ASSUME NEW k \in Here PROVE FALSE
      OBVIOUS
    <2>2. Here = {k}
      BY <1>2 DEF QuietInv
    <2>3. Cardinality(Here) = 1
      BY <2>2, FS_Singleton
    <2> QED  BY <2>3 DEF OneAtATime
  <1>4. \A k \in Jobs : Idle(k)
    BY <1>1, <1>3
  <1> QED  BY <1>4 DEF Only, QuietInv

LEMMA SameCards ==
    ASSUME \A e : e.kind = "card" => (e \in conversation' <=> e \in conversation)
    PROVE  \A p : CardsOf(p)' = CardsOf(p)
  BY DEF CardsOf

-----------------------------------------------------------------------------
(* The handlers that only refresh begin with nothing read.                 *)
LEMMA RefreshBegins ==
    ASSUME ConstantsOk, PageInv, OneAtATime, QuietInv, NEW j \in Jobs,
           Open(j) \/ HostContext(j) \/ \E f \in Facts : ViewChanged(j, f)
    PROVE  QuietInv'
  <1>1. /\ Cardinality(InFlight \cup Orphans) < MaxInFlight
        /\ \A k \in Jobs : k # j => job'[k] = job[k]
        /\ job'[j].stage = "first" /\ job'[j].kind \in {"mount", "hostContext", "focus"}
        /\ job'[j].got = {}
        /\ job'[j].sync => Host = "ios"
    <2>1. job \in [Jobs -> Handlers]
      BY DEF PageInv, PageTypeOK, JobTypes
    <2>2. CASE Open(j)
      BY <2>1, <2>2 DEF Open, BeginRefresh, Begin, NoJob
    <2>3. CASE HostContext(j)
      BY <2>1, <2>3 DEF HostContext, BeginRefresh, Begin, NoJob
    <2>4. CASE \E f \in Facts : ViewChanged(j, f)
      <3>1. PICK f \in Facts : ViewChanged(j, f)
        BY <2>4
      <3> QED  BY <2>1, <3>1 DEF ViewChanged, BeginRefresh, Begin, NoJob
    <2> QED  BY <2>2, <2>3, <2>4
  <1>3. Only(j) /\ Sole(j) /\ Idle(j)
    BY <1>1, BeginsAlone
  <1>4. /\ UNCHANGED <<backend, storage, synced>> /\ conversation' \subseteq conversation
        /\ open' /\ HostKnown'
    <2>1. HostKnown
      BY DEF QuietInv
    <2>2. CASE Open(j)
      BY <2>2 DEF Open, HostKnown, screen
    <2>3. CASE HostContext(j)
      BY <2>1, <2>3 DEF HostContext, HostKnown, session
    <2>4. CASE \E f \in Facts : ViewChanged(j, f)
      BY <2>1, <2>4 DEF ViewChanged, HostKnown, screen
    <2> QED  BY <2>2, <2>3, <2>4
  <1>5. UNCHANGED <<plan, fact, live, decision>>
    BY <1>4 DEF backend
  <1>6. ReadsAreNow(j)'
    BY <1>1 DEF ReadsAreNow, Surfaces
  <1>7. CardsAwait(j)' /\ TokensAwait(j)'
    BY <1>1, <1>3, <1>4, <1>5 DEF Sole, CardsAwait, TokensAwait, Idle
  <1>8. NativeIsTold(j)'
    BY <1>1, <1>3, <1>4, <1>5 DEF Sole, NativeIsTold, Idle, Posted
  <1>9. Sole(j)'
    BY <1>1, <1>3, <1>4, <1>6, <1>7, <1>8 DEF Sole, Idle
  <1> QED  BY <1>1, <1>3, <1>4, <1>5, <1>9, TakesOver DEF Idle

LEMMA Begun ==
    ASSUME job \in [Jobs -> Handlers], NEW j \in Jobs,
           NEW kind, NEW of, NEW token, NEW stage, NEW sync \in BOOLEAN, NEW tapped,
           NEW history \in BOOLEAN, Begin(j, kind, of, token, stage, sync, tapped, history)
    PROVE  /\ Cardinality(InFlight \cup Orphans) < MaxInFlight
           /\ \A k \in Jobs : k # j => job'[k] = job[k]
           /\ job'[j].stage = stage /\ job'[j].kind = kind /\ job'[j].got = {}
           /\ job'[j].sync <=> sync
  BY DEF Begin, NoJob

(* The others begin on a page that is up to date.                          *)
LEMMA RequestBegins ==
    ASSUME ConstantsOk, PageInv, OneAtATime, QuietInv, NEW j \in Jobs,
           \/ HandleSubmittedText(j) \/ HandleSubmittedAttachment(j)
           \/ HandleConfirm(j) \/ HandleCancel(j)
           \/ HandleSummaryAction(j) \/ HandleSubmitSummaryEdit(j)
    PROVE  QuietInv'
  <1>1. /\ Cardinality(InFlight \cup Orphans) < MaxInFlight
        /\ \A k \in Jobs : k # j => job'[k] = job[k]
        /\ job'[j].stage = "sent" /\ job'[j].got = {}
        /\ job'[j].sync => platform = "ios"
        /\ job'[j].kind \in {"confirm", "direct", "edit"} /\ platform = "ios" => job'[j].sync
    <2>1. job \in [Jobs -> Handlers]
      BY DEF PageInv, PageTypeOK, JobTypes
    <2>2. CASE HandleSubmittedText(j) \/ HandleSubmittedAttachment(j)
      BY <2>1, <2>2, Begun
         DEF HandleSubmittedText, HandleSubmittedAttachment, BeginOnPage, BeginFromNative
    <2>3. CASE HandleConfirm(j)
      BY <2>1, <2>3, Begun DEF HandleConfirm, BeginOnPage
    <2>4. CASE HandleCancel(j)
      BY <2>1, <2>4, Begun DEF HandleCancel, BeginOnPage
    <2>5. CASE HandleSummaryAction(j)
      <3>1. PICK f \in Facts : BeginOnPage(j, "direct", f, None, TRUE)
        BY <2>5 DEF HandleSummaryAction
      <3>2. PICK sync \in BOOLEAN :
               /\ Begin(j, "direct", f, None, "sent", sync, focused, TRUE)
               /\ sync <=> platform = "ios"
        BY <3>1 DEF BeginOnPage
      <3>3. /\ Cardinality(InFlight \cup Orphans) < MaxInFlight
            /\ \A k \in Jobs : k # j => job'[k] = job[k]
            /\ job'[j].stage = "sent" /\ job'[j].kind = "direct" /\ job'[j].got = {}
            /\ job'[j].sync <=> sync
        BY <2>1, <3>2 DEF Begin, NoJob
      <3> QED  BY <3>2, <3>3
    <2>6. CASE HandleSubmitSummaryEdit(j)
      BY <2>1, <2>6, Begun DEF HandleSubmitSummaryEdit, BeginOnPage
    <2> QED  BY <2>2, <2>3, <2>4, <2>5, <2>6
  <1>2. Only(j) /\ Sole(j) /\ Idle(j)
    BY <1>1, BeginsAlone
  <1>3. /\ UNCHANGED <<backend, open, platform, storage, shown, synced>> /\ open
        /\ conversation' = conversation \/ conversation' = conversation \cup {Element("user", j)}
    BY DEF HandleSubmittedText, HandleSubmittedAttachment, HandleConfirm, HandleCancel,
           HandleSummaryAction, HandleSubmitSummaryEdit, session, screen
  <1>4. UNCHANGED <<plan, fact, live, decision>> /\ Awaiting' = Awaiting
    BY <1>3 DEF backend, Awaiting
  <1>5. HostKnown' /\ platform = IF Host = "ios" THEN "ios" ELSE None
    BY <1>3 DEF QuietInv, HostKnown
  <1>6. \A e : e.kind = "card" => (e \in conversation' <=> e \in conversation)
    BY <1>3 DEF Element
  <1>7. UpToDate'
    <2>1. UpToDate
      BY <1>2, <1>3 DEF Sole
    <2>2. \A p : CardsOf(p)' = CardsOf(p)
      BY <1>6, SameCards
    <2> QED  BY <1>3, <1>4, <2>1, <2>2 DEF UpToDate
  <1>8. ReadsAreNow(j)'
    BY <1>1 DEF ReadsAreNow
  <1>9. CardsAwait(j)' /\ TokensAwait(j)'
    BY <1>1, <1>2, <1>3, <1>4, <1>6 DEF Sole, CardsAwait, TokensAwait, Idle
  <1>10. NativeIsTold(j)'
    <2>1. job'[j].sync => Host = "ios"
      BY <1>1, <1>5 DEF ConstantsOk
    <2> QED  BY <1>1, <1>2, <1>3, <1>4, <1>5, <2>1 DEF Sole, NativeIsTold, Idle, Posted
  <1>11. Sole(j)'
    BY <1>1, <1>3, <1>7, <1>8, <1>9, <1>10 DEF Sole
  <1> QED  BY <1>1, <1>2, <1>4, <1>5, <1>11, TakesOver DEF Idle

-----------------------------------------------------------------------------
(* What changes of a handler when its request is served, and when it goes  *)
(* on to its refresh.                                                      *)
Keeps(j) ==
    /\ \A k \in Jobs : k # j => job'[k] = job[k]
    /\ job'[j].kind = job[j].kind /\ (job'[j].sync <=> job[j].sync)
    /\ job'[j].got = job[j].got /\ job'[j].facts = job[j].facts
    /\ job'[j].pending = job[j].pending

LEMMA MovesOn ==
    ASSUME PageInv, NEW j \in Jobs, NEW stage, Move(j, stage)
    PROVE  Keeps(j) /\ job'[j].stage = stage /\ job'[j].of = job[j].of
  <1>1. job \in [Jobs -> Handlers]
    BY DEF PageInv, PageTypeOK, JobTypes
  <1>2. job[j] \in Handlers /\ job'[j] = [job[j] EXCEPT !.stage = stage]
    BY <1>1 DEF Move
  <1>3. \A k \in Jobs : k # j => job'[k] = job[k]
    BY <1>1 DEF Move
  <1> QED  BY <1>2, <1>3 DEF Keeps, Handlers

LEMMA Reached ==
    ASSUME PageInv, QuietInv, NEW j \in Jobs, NEW stage, NEW of, Reach(j, stage, of),
           job[j].stage \in {"sent", "orphan"}
    PROVE  /\ Only(j) /\ Sole(j) /\ open /\ job[j].stage = "sent"
           /\ Keeps(j) /\ job'[j].stage = stage /\ job'[j].of = of
  <1>1. job \in [Jobs -> Handlers]
    BY DEF PageInv, PageTypeOK, JobTypes
  <1>2. Only(j) /\ Sole(j) /\ open
    BY GoesOnAlone DEF Idle
  <1>3. job[j].stage = "sent"
    BY <1>2 DEF Sole
  <1>4. job[j] \in Handlers /\ job'[j] = [job[j] EXCEPT !.stage = stage, !.of = of]
    BY <1>1, <1>3 DEF Reach
  <1>5. \A k \in Jobs : k # j => job'[k] = job[k]
    BY <1>1, <1>3 DEF Reach
  <1> QED  BY <1>2, <1>3, <1>4, <1>5 DEF Keeps, Handlers

(* A request that is refused has changed nothing.                          *)
LEMMA RefusedServed ==
    ASSUME PageInv, QuietInv, NEW j \in Jobs, Reach(j, "refused", job[j].of),
           job[j].stage \in {"sent", "orphan"},
           UNCHANGED <<backend, session, storage, screen, synced>>
    PROVE  QuietInv'
  <1>1. /\ Only(j) /\ Sole(j) /\ open /\ job[j].stage = "sent"
        /\ Keeps(j) /\ job'[j].stage = "refused"
    BY Reached
  <1>2. UNCHANGED <<plan, fact, live, decision, open, platform, storage, conversation, shown,
                    synced>>
    BY DEF backend, session, screen
  <1>3. HostKnown'
    BY <1>2 DEF QuietInv, HostKnown
  <1>4. UpToDate'
    BY <1>1, <1>2 DEF Sole, UpToDate, Awaiting, CardsOf
  <1>5. ReadsAreNow(j)' /\ CardsAwait(j)' /\ TokensAwait(j)'
    BY <1>1, <1>2 DEF Sole, ReadsAreNow, CardsAwait, TokensAwait, Settles
  <1>6. NativeIsTold(j)'
    BY <1>1, <1>2 DEF Sole, NativeIsTold, Keeps, Idle, Posted
  <1>7. Sole(j)'
    BY <1>1, <1>2, <1>4, <1>5, <1>6 DEF Sole
  <1> QED  BY <1>1, <1>2, <1>3, <1>7, TakesOver DEF Keeps

LEMMA TurnServed ==
    ASSUME ConstantsOk, PageInv, QuietInv, NEW j \in Jobs, ServeTurn(j)
    PROVE  QuietInv'
  <1>1. PICK p \in {q \in Plans : plan[q] = "absent"} \cup {None} :
           /\ plan' = [q \in Plans |-> IF q = p THEN "awaiting_confirmation" ELSE plan[q]]
           /\ live' = IF p = None THEN live ELSE live \cup {<<p, Original>>}
           /\ Reach(j, "served", p)
    BY DEF ServeTurn
  <1>2. /\ Only(j) /\ Sole(j) /\ open /\ job[j].stage = "sent" /\ job[j].kind = "submit"
        /\ Keeps(j) /\ job'[j].stage = "served" /\ job'[j].of = p
    BY <1>1, Reached DEF ServeTurn, Requested
  <1>3. UNCHANGED <<fact, decision, open, platform, storage, conversation, synced>>
    BY DEF ServeTurn, session, screen
  <1>4. HostKnown'
    BY <1>3 DEF QuietInv, HostKnown
  <1>5. \A q \in Plans : plan[q] = "awaiting_confirmation" => plan'[q] = "awaiting_confirmation"
    BY <1>1
  <1>6. ReadsAreNow(j)'
    BY <1>2 DEF Sole, ReadsAreNow, Keeps
  <1>7. CardsAwait(j)'
    BY <1>2, <1>3, <1>5 DEF Sole, CardsAwait, PageInv, ElementsGrounded, Grounded
  <1>8. TokensAwait(j)'
    BY <1>1, <1>2, <1>3, <1>5 DEF Sole, TokensAwait, ConstantsOk
  <1>9. NativeIsTold(j)'
    BY <1>2, <1>3 DEF Sole, NativeIsTold, Keeps, Idle, Posted
  <1>10. Sole(j)'
    BY <1>2, <1>3, <1>6, <1>7, <1>8, <1>9 DEF Sole, Idle
  <1> QED  BY <1>2, <1>3, <1>4, <1>10, TakesOver DEF Keeps

LEMMA AttachmentServed ==
    ASSUME PageInv, QuietInv, NEW j \in Jobs, ServeAttachment(j)
    PROVE  QuietInv'
  <1>1. Reach(j, "served", job[j].of)
    BY DEF ServeAttachment
  <1>2. /\ Only(j) /\ Sole(j) /\ open /\ job[j].stage = "sent" /\ job[j].kind = "attach"
        /\ Keeps(j) /\ job'[j].stage = "served"
    BY <1>1, Reached DEF ServeAttachment, Requested
  <1>3. UNCHANGED <<plan, fact, decision, open, platform, storage, conversation, synced>>
    BY DEF ServeAttachment, session, screen
  <1>4. HostKnown'
    BY <1>3 DEF QuietInv, HostKnown
  <1>5. ReadsAreNow(j)' /\ CardsAwait(j)' /\ TokensAwait(j)'
    BY <1>2, <1>3 DEF Sole, ReadsAreNow, CardsAwait, TokensAwait, Settles, Keeps
  <1>6. NativeIsTold(j)'
    BY <1>2, <1>3 DEF Sole, NativeIsTold, Keeps, Idle, Posted
  <1>7. Sole(j)'
    BY <1>2, <1>3, <1>5, <1>6 DEF Sole, Idle
  <1> QED  BY <1>2, <1>3, <1>4, <1>7, TakesOver DEF Keeps

(* A change that was served, or a confirmation that is answered again: the *)
(* lists of native are left behind for now.                                *)
LEMMA ChangeServed ==
    ASSUME PageInv, QuietInv, NEW j \in Jobs, Reach(j, "served", job[j].of),
           job[j].stage \in {"sent", "orphan"}, job[j].kind \in {"confirm", "direct", "edit"},
           UNCHANGED <<plan, decision, session, storage, screen, synced>>
    PROVE  QuietInv'
  <1>1. /\ Only(j) /\ Sole(j) /\ open /\ job[j].stage = "sent"
        /\ Keeps(j) /\ job'[j].stage = "served" /\ job'[j].of = job[j].of
    BY Reached
  <1>2. UNCHANGED <<open, platform, storage, conversation, shown, synced>>
    BY DEF session, screen
  <1>3. HostKnown'
    BY <1>2 DEF QuietInv, HostKnown
  <1>4. ReadsAreNow(j)'
    BY <1>1 DEF Sole, ReadsAreNow, Keeps
  <1>5. CardsAwait(j)' /\ TokensAwait(j)'
    BY <1>1, <1>2 DEF Sole, CardsAwait, TokensAwait, Settles, Keeps
  <1>6. NativeIsTold(j)'
    BY <1>1, <1>2 DEF Sole, NativeIsTold, Keeps, Idle, Posted
  <1>7. Sole(j)'
    BY <1>1, <1>2, <1>4, <1>5, <1>6 DEF Sole, Idle
  <1> QED  BY <1>1, <1>3, <1>7, TakesOver DEF Keeps

(* A request that is let in to decide a plan has changed nothing yet.      *)
LEMMA LetInAlone ==
    ASSUME PageInv, QuietInv, NEW j \in Jobs, Reach(j, "deciding", job[j].of),
           job[j].stage \in {"sent", "orphan"}, job[j].kind \in {"confirm", "cancel"},
           NEW d, decision' = [decision EXCEPT ![j] = d],
           UNCHANGED <<plan, fact, live, session, storage, screen, synced>>
    PROVE  QuietInv'
  <1>1. /\ Only(j) /\ Sole(j) /\ open /\ job[j].stage = "sent"
        /\ Keeps(j) /\ job'[j].stage = "deciding" /\ job'[j].of = job[j].of
    BY Reached
  <1>2. UNCHANGED <<open, platform, conversation, shown>>
    BY DEF session, screen
  <1>3. HostKnown'
    BY <1>2 DEF QuietInv, HostKnown
  <1>4. ReadsAreNow(j)' /\ CardsAwait(j)' /\ TokensAwait(j)'
    BY <1>1, <1>2 DEF Sole, ReadsAreNow, CardsAwait, TokensAwait, Settles, Keeps
  <1>5. NativeIsTold(j)'
    BY <1>1, <1>2 DEF Sole, NativeIsTold, Keeps, Idle, Posted
  <1>6. Sole(j)'
    BY <1>1, <1>2, <1>4, <1>5 DEF Sole, Idle
  <1>7. \A k \in Jobs : Held(k)'
    BY <1>1 DEF QuietInv, Held, Keeps, PageInv, PageTypeOK, BackendTypes, Requests
  <1> QED  BY <1>1, <1>3, <1>6, <1>7, HandsOver DEF Keeps

(* The handler of a request that is let in waits, and no other is there.   *)
LEMMA Waits ==
    ASSUME PageInv, QuietInv, NEW j \in Jobs, decision[j].stage \in {"allowed", "decided"}
    PROVE  /\ Only(j) /\ Sole(j) /\ open /\ job[j].stage = "deciding"
           /\ job[j].kind \in {"confirm", "cancel"} /\ job[j].of = decision[j].plan
           /\ decision[j].stage = "allowed" => job[j].kind = "confirm"
  <1>1. job[j].stage = "deciding"
    BY DEF QuietInv, Held
  <1>2. Only(j) /\ Sole(j) /\ open
    BY <1>1, GoesOnAlone DEF Idle
  <1>3. Knows(j, job[j], decision, turns) /\ RequestOk(j)
    BY DEF PageInv, HandlersKnow, DecisionsSound, Requests
  <1> QED  BY <1>1, <1>2, <1>3 DEF Knows, RequestOk

LEMMA ExecutesAlone ==
    ASSUME PageInv, QuietInv, NEW j \in Jobs, Execute(j)
    PROVE  QuietInv'
  <1>1. /\ Only(j) /\ Sole(j) /\ open /\ job[j].stage = "deciding" /\ job[j].kind = "confirm"
    BY Waits DEF Execute
  <1>2. UNCHANGED <<plan, live, open, platform, storage, conversation, shown, synced, job>>
    BY DEF Execute, session, screen
  <1>3. HostKnown'
    BY <1>2 DEF QuietInv, HostKnown
  <1>4. ReadsAreNow(j)' /\ CardsAwait(j)' /\ TokensAwait(j)'
    BY <1>1, <1>2 DEF Sole, ReadsAreNow, CardsAwait, TokensAwait, Settles
  <1>5. NativeIsTold(j)'
    BY <1>1, <1>2 DEF Sole, NativeIsTold, Idle, Posted
  <1>6. Sole(j)'
    BY <1>1, <1>2, <1>4, <1>5 DEF Sole, Idle
  <1>7. \A q \in Requests : q # j => decision'[q] = decision[q]
    BY DEF Execute, PageInv, PageTypeOK, BackendTypes
  <1>8. \A k \in Jobs : Held(k)'
    BY <1>1, <1>2, <1>7 DEF QuietInv, Held, Requests
  <1> QED  BY <1>1, <1>2, <1>3, <1>6, <1>8, HandsOver

(* A decision that was saved: a card and a token of its plan are left      *)
(* behind for now.                                                         *)
LEMMA SavesAlone ==
    ASSUME PageInv, QuietInv, NEW j \in Jobs, SaveDecision(j)
    PROVE  QuietInv'
  <1>1. /\ Only(j) /\ Sole(j) /\ open /\ job[j].stage = "deciding"
        /\ job[j].kind \in {"confirm", "cancel"} /\ job[j].of = decision[j].plan
    BY Waits DEF SaveDecision
  <1>2. UNCHANGED <<fact, open, platform, storage, conversation, shown, synced>>
    BY DEF SaveDecision, session, screen
  <1>3. /\ Keeps(j) /\ job'[j].stage = "served" /\ job'[j].of = job[j].of
    <2>1. job[j] \in Handlers /\ job \in [Jobs -> Handlers]
      BY DEF PageInv, PageTypeOK, JobTypes
    <2>2. job'[j] = [job[j] EXCEPT !.stage = "served"] /\ \A k \in Jobs : k # j => job'[k] = job[k]
      BY <1>1 DEF SaveDecision
    <2> QED  BY <2>1, <2>2 DEF Keeps, Handlers
  <1>4. HostKnown'
    BY <1>2 DEF QuietInv, HostKnown
  <1>5. \A p \in Plans : plan[p] = "awaiting_confirmation" =>
           plan'[p] = "awaiting_confirmation" \/ Settles(j, p)
    <2>1. \A p \in Plans : p # job[j].of => plan'[p] = plan[p]
      BY <1>1 DEF SaveDecision, PageInv, PageTypeOK, BackendTypes
    <2> QED  BY <1>1, <2>1 DEF Settles
  <1>6. \A p \in Plans : Settles(j, p)' = Settles(j, p)
    BY <1>3 DEF Settles, Keeps
  <1>7. ReadsAreNow(j)'
    BY <1>1, <1>3 DEF Sole, ReadsAreNow, Keeps
  <1>8. CardsAwait(j)'
    <2>1. ASSUME NEW e \in conversation', e.kind = "card"
          PROVE  plan'[e.of] = "awaiting_confirmation" \/ Settles(j, e.of)'
      <3>1. e.of \in Plans
        BY <1>2, <2>1 DEF PageInv, ElementsGrounded, Grounded
      <3>2. plan[e.of] = "awaiting_confirmation"
        BY <1>1, <1>2, <2>1 DEF Sole, CardsAwait
      <3> QED  BY <1>5, <1>6, <3>1, <3>2
    <2> QED  BY <1>3, <2>1 DEF CardsAwait
  <1>9. TokensAwait(j)'
    BY <1>1, <1>2, <1>3, <1>5, <1>6 DEF Sole, TokensAwait, Keeps
  <1>10. NativeIsTold(j)'
    BY <1>1, <1>2, <1>3 DEF Sole, NativeIsTold, Keeps, Idle, Posted
  <1>11. Sole(j)'
    BY <1>1, <1>2, <1>3, <1>7, <1>8, <1>9, <1>10 DEF Sole, Idle
  <1>12. \A k \in Jobs : Held(k)'
    BY <1>3 DEF SaveDecision, QuietInv, Held, Keeps, PageInv, PageTypeOK, BackendTypes, Requests
  <1> QED  BY <1>1, <1>3, <1>4, <1>11, <1>12, HandsOver DEF Keeps

LEMMA RequestServed ==
    ASSUME ConstantsOk, PageInv, QuietInv, NEW j \in Jobs, Serve(j)
    PROVE  QuietInv'
  <1>1. CASE ServeTurn(j) \/ ServeAttachment(j)
    BY <1>1, TurnServed, AttachmentServed
  <1>2. CASE ServeConfirm(j)
    <2>1. /\ job[j].kind = "confirm" /\ job[j].stage \in {"sent", "orphan"}
          /\ UNCHANGED <<plan, fact, turns, files, live, session, storage, screen, synced>>
      BY <1>2 DEF ServeConfirm, Requested
    <2>2. CASE Reach(j, "refused", job[j].of) /\ UNCHANGED decision
      BY <2>1, <2>2, RefusedServed DEF backend
    <2>3. CASE Reach(j, "served", job[j].of) /\ UNCHANGED decision
      BY <2>1, <2>3, ChangeServed
    <2>4. CASE /\ Reach(j, "deciding", job[j].of)
               /\ decision' = [decision EXCEPT ![j] = LetIn(job[j].of, None, "allowed")]
      BY <2>1, <2>4, LetInAlone
    <2> QED  BY <1>2, <2>2, <2>3, <2>4 DEF ServeConfirm
  <1>3. CASE ServeReject(j)
    <2>1. /\ job[j].kind = "cancel" /\ job[j].stage \in {"sent", "orphan"}
          /\ UNCHANGED <<plan, fact, turns, files, live, session, storage, screen, synced>>
      BY <1>3 DEF ServeReject, Requested
    <2>2. CASE Reach(j, "refused", job[j].of) /\ UNCHANGED decision
      BY <2>1, <2>2, RefusedServed DEF backend
    <2>3. CASE /\ Reach(j, "deciding", job[j].of)
               /\ decision' = [decision EXCEPT ![j] = LetIn(job[j].of, "rejected", "decided")]
      BY <2>1, <2>3, LetInAlone
    <2> QED  BY <1>3, <2>2, <2>3 DEF ServeReject
  <1>4. CASE ServeDirect(j)
    <2>1. /\ job[j].kind \in {"direct", "edit"} /\ job[j].stage \in {"sent", "orphan"}
          /\ UNCHANGED <<plan, turns, files, live, decision, session, storage, screen, synced>>
      BY <1>4 DEF ServeDirect, Requested
    <2>2. CASE Reach(j, "refused", job[j].of) /\ UNCHANGED fact
      BY <2>1, <2>2, RefusedServed DEF backend
    <2>3. CASE Reach(j, "served", job[j].of)
      BY <2>1, <2>3, ChangeServed
    <2> QED  BY <1>4, <2>2, <2>3 DEF ServeDirect
  <1> QED  BY <1>1, <1>2, <1>3, <1>4, ExecutesAlone, SavesAlone DEF Serve

-----------------------------------------------------------------------------
(* A handler that was answered goes on to its refresh.                     *)
LEMMA AnsweredGoesOn ==
    ASSUME PageInv, QuietInv, NEW j \in Jobs, job[j].stage = "served", Move(j, "first"),
           UNCHANGED <<backend, session, synced>>,
           CardsAwait(j)', TokensAwait(j)'
    PROVE  QuietInv'
  <1>1. Only(j) /\ Sole(j) /\ open
    BY GoesOnAlone DEF Idle
  <1>2. Keeps(j) /\ job'[j].stage = "first"
    BY MovesOn
  <1>3. UNCHANGED <<fact, decision, open, platform, synced>>
    BY DEF backend, session
  <1>4. HostKnown'
    BY <1>3 DEF QuietInv, HostKnown
  <1>5. ReadsAreNow(j)'
    BY <1>1, <1>2 DEF Sole, ReadsAreNow, Keeps
  <1>6. NativeIsTold(j)'
    BY <1>1, <1>2, <1>3 DEF Sole, NativeIsTold, Keeps, Idle, Posted
  <1>7. Sole(j)'
    BY <1>1, <1>2, <1>3, <1>5, <1>6 DEF Sole, Idle
  <1> QED  BY <1>1, <1>2, <1>3, <1>4, <1>7, TakesOver DEF Keeps

LEMMA SubmitGoesOn ==
    ASSUME ConstantsOk, PageInv, QuietInv, NEW j \in Jobs, SubmitAnswered(j)
    PROVE  QuietInv'
  <1>0. /\ job[j].kind = "submit" /\ job[j].stage = "served" /\ Move(j, "first")
        /\ UNCHANGED <<backend, session, synced>>
    BY DEF SubmitAnswered
  <1>1. Sole(j) /\ plan' = plan /\ job[j].of \in Plans \cup {None}
    BY <1>0, GoesOnAlone DEF Idle, backend, PageInv, HandlersKnow, Knows
  <1>2. job'[j].kind = "submit" /\ job'[j].stage = "first"
    BY <1>0, MovesOn DEF Keeps
  <1>3. \A e \in conversation' :
           e.kind = "card" => e \in conversation \/ (job[j].of # None /\ e.of = job[j].of)
    BY DEF SubmitAnswered, AskedWith, Element, Card
  <1>4. \A p \in Plans : storage'[p] # None =>
           storage[p] # None \/ (job[j].of # None /\ p = job[j].of)
    BY DEF SubmitAnswered, CacheToken, PageInv, PageTypeOK, PageTypes
  <1>5. CardsAwait(j)'
    BY <1>0, <1>1, <1>3 DEF Sole, CardsAwait, TokensAwait, Settles
  <1>6. TokensAwait(j)'
    BY <1>0, <1>1, <1>2, <1>4 DEF Sole, TokensAwait, Settles
  <1> QED  BY <1>0, <1>5, <1>6, AnsweredGoesOn

LEMMA AttachGoesOn ==
    ASSUME PageInv, QuietInv, NEW j \in Jobs, AttachAnswered(j)
    PROVE  QuietInv'
  <1>0. /\ job[j].kind = "attach" /\ job[j].stage = "served" /\ Move(j, "first")
        /\ UNCHANGED <<backend, session, synced, storage>>
    BY DEF AttachAnswered
  <1>1. Sole(j) /\ plan' = plan
    BY <1>0, GoesOnAlone DEF Idle, backend
  <1>2. job'[j].kind = "attach" /\ job'[j].stage = "first"
    BY <1>0, MovesOn DEF Keeps
  <1>3. \A e \in conversation' : e.kind = "card" => e \in conversation
    BY DEF AttachAnswered, Element
  <1>5. CardsAwait(j)'
    BY <1>0, <1>1, <1>3 DEF Sole, CardsAwait, Settles
  <1>6. TokensAwait(j)'
    BY <1>0, <1>1, <1>2 DEF Sole, TokensAwait, Settles
  <1> QED  BY <1>0, <1>5, <1>6, AnsweredGoesOn

LEMMA ConfirmGoesOn ==
    ASSUME PageInv, QuietInv, NEW j \in Jobs, ConfirmAnswered(j)
    PROVE  QuietInv'
  <1>0. /\ job[j].kind = "confirm" /\ job[j].stage = "served" /\ Move(j, "first")
        /\ UNCHANGED <<backend, session, synced>>
    BY DEF ConfirmAnswered
  <1>1. Sole(j) /\ plan' = plan
    BY <1>0, GoesOnAlone DEF Idle, backend
  <1>2. job'[j].kind = "confirm" /\ job'[j].stage = "first"
    BY <1>0, MovesOn DEF Keeps
  <1>3. \A e \in conversation' : e.kind = "card" => e \in conversation /\ e.of # job[j].of
    BY DEF ConfirmAnswered, CardsOf, Element
  <1>4. \A p \in Plans : storage'[p] # None => storage[p] # None /\ p # job[j].of
    BY DEF ConfirmAnswered, ClearToken, PageInv, PageTypeOK, PageTypes
  <1>5. CardsAwait(j)'
    BY <1>0, <1>1, <1>3 DEF Sole, CardsAwait, Settles
  <1>6. TokensAwait(j)'
    BY <1>0, <1>1, <1>2, <1>4 DEF Sole, TokensAwait, Settles
  <1> QED  BY <1>0, <1>5, <1>6, AnsweredGoesOn

LEMMA CancelGoesOn ==
    ASSUME PageInv, QuietInv, NEW j \in Jobs, CancelAnswered(j)
    PROVE  QuietInv'
  <1>0. /\ job[j].kind = "cancel" /\ job[j].stage = "served" /\ Move(j, "first")
        /\ UNCHANGED <<backend, session, screen, synced>>
    BY DEF CancelAnswered
  <1>1. Sole(j) /\ plan' = plan /\ conversation' = conversation
    BY <1>0, GoesOnAlone DEF Idle, backend, screen
  <1>2. job'[j].kind = "cancel" /\ job'[j].stage = "first" /\ job'[j].of = job[j].of
    BY <1>0, MovesOn DEF Keeps
  <1>4. \A p \in Plans : storage'[p] # None => storage[p] # None /\ p # job[j].of
    BY DEF CancelAnswered, ClearToken, PageInv, PageTypeOK, PageTypes
  <1>5. CardsAwait(j)'
    BY <1>0, <1>1, <1>2 DEF Sole, CardsAwait, Settles
  <1>6. TokensAwait(j)'
    BY <1>0, <1>1, <1>2, <1>4 DEF Sole, TokensAwait, Settles
  <1> QED  BY <1>0, <1>5, <1>6, AnsweredGoesOn

LEMMA ActionGoesOn ==
    ASSUME PageInv, QuietInv, NEW j \in Jobs, ActionAnswered(j)
    PROVE  QuietInv'
  <1>0. /\ job[j].kind \in {"direct", "edit"} /\ job[j].stage = "served" /\ Move(j, "first")
        /\ UNCHANGED <<backend, session, storage, screen, synced>>
    BY DEF ActionAnswered
  <1>1. Sole(j) /\ plan' = plan /\ conversation' = conversation
    BY <1>0, GoesOnAlone DEF Idle, backend, screen
  <1>2. job'[j].kind = job[j].kind /\ job'[j].stage = "first"
    BY <1>0, MovesOn DEF Keeps
  <1>5. CardsAwait(j)'
    BY <1>0, <1>1, <1>2 DEF Sole, CardsAwait, Settles
  <1>6. TokensAwait(j)'
    BY <1>0, <1>1, <1>2 DEF Sole, TokensAwait, Settles
  <1> QED  BY <1>0, <1>5, <1>6, AnsweredGoesOn

(* A handler that was refused leaves the page as it was.                   *)
LEMMA RefusedEnds ==
    ASSUME PageInv, QuietInv, NEW j \in Jobs, Failed(j)
    PROVE  QuietInv'
  <1>0. /\ job[j].stage = "refused" /\ End(j)
        /\ UNCHANGED <<backend, session, storage, shown, synced>>
        /\ conversation' = conversation \/ conversation' = conversation \cup {Element("error", j)}
    BY DEF Failed
  <1>1. Only(j) /\ Sole(j) /\ open
    BY <1>0, GoesOnAlone DEF Idle
  <1>2. /\ \A k \in Jobs : k # j => job'[k] = job[k]
        /\ job'[j].stage = "done" /\ job'[j].sync = FALSE
    BY <1>0 DEF End, NoJob, PageInv, PageTypeOK, JobTypes
  <1>3. UNCHANGED <<plan, fact, live, decision, open, platform, storage, shown, synced>>
    BY <1>0 DEF backend, session
  <1>4. HostKnown'
    BY <1>3 DEF QuietInv, HostKnown
  <1>5. \A e : e.kind = "card" => (e \in conversation' <=> e \in conversation)
    BY <1>0 DEF Element
  <1>6. UpToDate'
    <2>1. UpToDate
      BY <1>0, <1>1 DEF Sole
    <2>2. \A p : CardsOf(p)' = CardsOf(p)
      BY <1>5, SameCards
    <2> QED  BY <1>3, <2>1, <2>2 DEF UpToDate, Awaiting
  <1>7. ReadsAreNow(j)'
    BY <1>2 DEF ReadsAreNow
  <1>8. CardsAwait(j)' /\ TokensAwait(j)'
    BY <1>0, <1>1, <1>2, <1>3, <1>5 DEF Sole, CardsAwait, TokensAwait
  <1>9. NativeIsTold(j)'
    BY <1>0, <1>1, <1>2, <1>3 DEF Sole, NativeIsTold, Idle, Posted
  <1>10. Sole(j)'
    BY <1>1, <1>2, <1>3, <1>6, <1>7, <1>8, <1>9 DEF Sole, Idle
  <1> QED  BY <1>0, <1>1, <1>2, <1>3, <1>4, <1>10, TakesOver

-----------------------------------------------------------------------------
(* The reads of a refresh.                                                 *)
LEMMA OneMoreRead ==
    ASSUME PageInv, QuietInv, NEW j \in Jobs, job[j].stage \in {"first", "second"},
           NEW r \in Handlers, job' = [job EXCEPT ![j] = r],
           r.kind = job[j].kind, r.of = job[j].of, r.sync = job[j].sync,
           r.stage \in {"first", "second"}, ReadsAreNow(j)',
           UNCHANGED <<plan, fact, decision, session, storage, screen, synced>>
    PROVE  QuietInv'
  <1>1. Only(j) /\ Sole(j) /\ open
    BY GoesOnAlone DEF Idle
  <1>2. job'[j] = r /\ \A k \in Jobs : k # j => job'[k] = job[k]
    BY DEF PageInv, PageTypeOK, JobTypes
  <1>3. UNCHANGED <<open, platform, conversation, shown>>
    BY DEF session, screen
  <1>4. HostKnown'
    BY <1>3 DEF QuietInv, HostKnown
  <1>5. CardsAwait(j)' /\ TokensAwait(j)'
    BY <1>1, <1>2, <1>3 DEF Sole, CardsAwait, TokensAwait, Settles
  <1>6. NativeIsTold(j)'
    BY <1>1, <1>2, <1>3 DEF Sole, NativeIsTold, Idle, Posted
  <1>7. Sole(j)'
    BY <1>1, <1>2, <1>3, <1>5, <1>6 DEF Sole, Idle
  <1> QED  BY <1>1, <1>2, <1>4, <1>7, TakesOver

LEMMA SurfaceRead ==
    ASSUME ConstantsOk, PageInv, QuietInv, NEW j \in Jobs, NEW s \in FirstWave, ReadSurface(j, s)
    PROVE  QuietInv'
  <1> DEFINE got == job[j].got \cup {s}
             seen == [f \in Facts |-> IF f \in Listed(s) THEN fact[f] ELSE job[j].facts[f]]
             r == [job[j] EXCEPT !.got = got, !.facts = seen,
                                 !.stage = IF got = FirstWave THEN "second" ELSE "first"]
  <1>1. job[j] \in Handlers /\ fact \in [Facts -> FactStatus] /\ job \in [Jobs -> Handlers]
    BY DEF PageInv, PageTypeOK, JobTypes, BackendTypes
  <1>2. got \in SUBSET Reads
    BY <1>1 DEF Handlers, FirstWave, Reads, ConstantsOk
  <1>3. seen \in [Facts -> FactStatus]
    BY <1>1 DEF Handlers
  <1>4. r \in Handlers
    BY <1>1, <1>2, <1>3 DEF Handlers, Stages
  <1>5. job' = [job EXCEPT ![j] = r]
    BY DEF ReadSurface
  <1>6. /\ r.kind = job[j].kind /\ r.of = job[j].of /\ r.sync = job[j].sync
        /\ r.got = got /\ r.facts = seen
        /\ r.stage = IF got = FirstWave THEN "second" ELSE "first"
    BY <1>1 DEF Handlers
  <1>7. /\ job[j].stage = "first"
        /\ UNCHANGED <<plan, fact, decision, session, storage, screen, synced>>
    BY DEF ReadSurface, backend
  <1>8. Sole(j)
    BY <1>7, GoesOnAlone DEF Idle
  <1>9. ReadsAreNow(j)'
    <2>1. job'[j] = r
      BY <1>1, <1>5
    <2>2. got \subseteq Surfaces /\ "pending" \notin got
      BY <1>7, <1>8 DEF Sole, ReadsAreNow, FirstWave, ConstantsOk, Surfaces
    <2>3. \A f \in Facts : SurfaceOf[f] \in got => seen[f] = fact[f]
      BY <1>7, <1>8 DEF Sole, ReadsAreNow, Listed
    <2> HIDE DEF r, got, seen
    <2> QED  BY <1>6, <1>7, <2>1, <2>2, <2>3 DEF ReadsAreNow
  <1> HIDE DEF r
  <1> QED  BY <1>4, <1>5, <1>6, <1>7, <1>9, OneMoreRead

LEMMA SecondRead ==
    ASSUME PageInv, QuietInv, NEW j \in Jobs, ReadTurns(j) \/ ReadPending(j) \/ ReadFiles(j)
    PROVE  QuietInv'
  <1>1. /\ job[j] \in Handlers /\ job \in [Jobs -> Handlers] /\ turns \subseteq Turns
        /\ files \subseteq Jobs /\ Awaiting \subseteq Plans
    BY DEF PageInv, PageTypeOK, JobTypes, BackendTypes, Awaiting
  <1>2. /\ job[j].stage = "second"
        /\ UNCHANGED <<plan, fact, decision, session, storage, screen, synced>>
    BY DEF ReadTurns, ReadPending, ReadFiles, backend
  <1>3. Sole(j)
    BY <1>2, GoesOnAlone DEF Idle
  <1>4. FirstWave \subseteq job[j].got /\ Awaiting' = Awaiting
    BY <1>2, <1>3 DEF Sole, ReadsAreNow, Awaiting
  <1>5. CASE ReadPending(j)
    <2> DEFINE r == [job[j] EXCEPT !.got = job[j].got \cup {"pending"}, !.pending = Awaiting]
    <2>1. r \in Handlers /\ job' = [job EXCEPT ![j] = r]
      BY <1>1, <1>5 DEF ReadPending, Handlers, Reads
    <2>2. /\ r.kind = job[j].kind /\ r.of = job[j].of /\ r.sync = job[j].sync
          /\ r.got = job[j].got \cup {"pending"} /\ r.facts = job[j].facts
          /\ r.stage = "second" /\ r.pending = Awaiting
      BY <1>1, <1>2 DEF Handlers
    <2>3. live' = live \cup {<<p, j>> : p \in Awaiting} /\ job'[j] = r
      BY <1>1, <1>5, <2>1 DEF ReadPending
    <2> HIDE DEF r
    <2>4. \A f \in Facts : SurfaceOf[f] \in r.got => r.facts[f] = fact[f]
      <3>1. \A f \in Facts : SurfaceOf[f] \in job[j].got
        BY <1>4 DEF FirstWave
      <3> QED  BY <1>2, <1>3, <2>2, <3>1 DEF Sole, ReadsAreNow
    <2>5. ReadsAreNow(j)'
      BY <1>2, <1>4, <2>2, <2>3, <2>4 DEF ReadsAreNow, FirstWave
    <2> QED  BY <1>2, <2>1, <2>2, <2>5, OneMoreRead
  <1>6. CASE ReadTurns(j) \/ ReadFiles(j)
    <2>1. PICK s \in {"turns", "files"}, told \in SUBSET Turns, all \in SUBSET Jobs :
             job' = [job EXCEPT ![j] = [job[j] EXCEPT !.got = job[j].got \cup {s},
                                                      !.turns = told, !.files = all]]
      <3>1. CASE ReadTurns(j)
        <4>1. job' = [job EXCEPT ![j] = [job[j] EXCEPT !.got = job[j].got \cup {"turns"},
                                                      !.turns = turns, !.files = job[j].files]]
          BY <1>1, <3>1 DEF ReadTurns, Handlers
        <4> QED  BY <1>1, <4>1 DEF Handlers
      <3>2. CASE ReadFiles(j)
        <4>1. job' = [job EXCEPT ![j] = [job[j] EXCEPT !.got = job[j].got \cup {"files"},
                                                      !.turns = job[j].turns, !.files = files]]
          BY <1>1, <3>2 DEF ReadFiles, Handlers
        <4> QED  BY <1>1, <4>1 DEF Handlers
      <3> QED  BY <1>6, <3>1, <3>2
    <2> DEFINE r == [job[j] EXCEPT !.got = job[j].got \cup {s}, !.turns = told, !.files = all]
    <2>2. r \in Handlers
      BY <1>1 DEF Handlers, Reads
    <2>3. /\ r.kind = job[j].kind /\ r.of = job[j].of /\ r.sync = job[j].sync
          /\ r.got = job[j].got \cup {s} /\ r.facts = job[j].facts
          /\ r.stage = "second" /\ r.pending = job[j].pending
      BY <1>1, <1>2 DEF Handlers
    <2>4. job'[j] = r /\ job' = [job EXCEPT ![j] = r]
      BY <1>1, <2>1
    <2>5. live' = live
      BY <1>6 DEF ReadTurns, ReadFiles, backend
    <2> HIDE DEF r
    <2>6. \A f \in Facts : r.facts[f] = fact[f]
      <3>1. \A f \in Facts : SurfaceOf[f] \in job[j].got
        BY <1>4 DEF FirstWave
      <3> QED  BY <1>2, <1>3, <2>3, <3>1 DEF Sole, ReadsAreNow
    <2>7. ReadsAreNow(j)'
      BY <1>2, <1>3, <1>4, <2>3, <2>4, <2>5, <2>6 DEF Sole, ReadsAreNow, FirstWave
    <2> QED  BY <1>2, <2>2, <2>3, <2>4, <2>7, OneMoreRead
  <1> QED  BY <1>5, <1>6

-----------------------------------------------------------------------------
(* What a refresh puts on the page: the cards of the plans that await a    *)
(* confirmation, each with the token it brought, and no other.             *)
LEMMA CardsRestored ==
    ASSUME PageInv, NEW j \in Jobs, Sole(j), job[j].stage = "second",
           NEW e, e.kind = "card",
           e \in WithHistory(conversation, IF Restores(j) THEN HistoryOf(job[j].turns) ELSE {})
    PROVE  \/ plan[e.of] = "awaiting_confirmation"
           \/ job[j].kind = "cancel" /\ job[j].of = e.of
  <1>1. e \in conversation \/ e \in HistoryOf(job[j].turns)
    BY DEF WithHistory
  <1>2. CASE e \in conversation
    BY <1>2 DEF Sole, CardsAwait, Settles
  <1>3. CASE e \in HistoryOf(job[j].turns)
    <2>1. PICK t \in job[j].turns :
             t.plan # None /\ storage[t.plan] # None /\ e \in AskedWith(t.plan, storage[t.plan])
      BY <1>3 DEF HistoryOf, Element
    <2>2. t.plan \in Plans /\ e.of = t.plan
      BY <2>1 DEF PageInv, PageTypeOK, JobTypes, Handlers, Turns, AskedWith, Card, Element
    <2> QED  BY <2>1, <2>2 DEF Sole, TokensAwait
  <1> QED  BY <1>1, <1>2, <1>3

LEMMA CardsRefreshed ==
    ASSUME PageInv, NEW j \in Jobs, Sole(j), job[j].stage = "second", "pending" \in job[j].got
    PROVE  \A e : e.kind = "card" =>
              (e \in Finished(j, Refreshed(j)) <=> e \in {Card(p, j) : p \in Awaiting})
  <1> DEFINE history == IF Restores(j) THEN HistoryOf(job[j].turns) ELSE {}
             cards == {Card(p, j) : p \in job[j].pending}
             restored == WithHistory(conversation, history)
             offered == WithPending(restored, cards)
  <1>1. job[j].pending = Awaiting
    BY DEF Sole, ReadsAreNow
  <1>2. Refreshed(j) = WithFiles(offered, job[j].files)
    BY DEF Refreshed
  <1>3. \A e : e.kind = "card" => (e \in Refreshed(j) <=> e \in offered)
    BY <1>2 DEF WithFiles, Element
  <1>4. \A e : e.kind = "card" =>
           (e \in Finished(j, Refreshed(j)) <=>
              e \in offered /\ (job[j].kind = "cancel" => e.of # job[j].of))
    BY <1>3 DEF Finished, Element
  <1>5. ASSUME NEW e, e.kind = "card", e \in offered, e \notin cards
        PROVE  job[j].kind = "cancel" /\ e.of = job[j].of
    <2>1. e \in restored /\ cards # {} /\ e.of \notin {c.of : c \in cards}
      BY <1>5 DEF WithPending
    <2>2. e.of \notin Awaiting
      <3>1. SUFFICES ASSUME e.of \in Awaiting PROVE FALSE
        OBVIOUS
      <3>2. Card(e.of, j) \in cards
        BY <1>1, <3>1
      <3>3. Card(e.of, j).of = e.of
        BY DEF Card
      <3>4. e.of \in {c.of : c \in cards}
        BY <3>2, <3>3, Zenon
      <3> QED  BY <2>1, <3>4
    <2>3. \/ plan[e.of] = "awaiting_confirmation"
          \/ job[j].kind = "cancel" /\ job[j].of = e.of
      BY <1>5, <2>1, CardsRestored
    <2>4. e.of \in Plans \/ (job[j].kind = "cancel" /\ job[j].of = e.of)
      <3>1. e \in conversation \/ e \in HistoryOf(job[j].turns)
        BY <2>1 DEF WithHistory
      <3>2. e \in conversation => e.of \in Plans
        BY <1>5 DEF PageInv, ElementsGrounded, Grounded
      <3>3. e \in HistoryOf(job[j].turns) => e.of \in Plans
        <4>1. SUFFICES ASSUME e \in HistoryOf(job[j].turns) PROVE e.of \in Plans
          OBVIOUS
        <4>2. PICK t \in job[j].turns :
                 t.plan # None /\ e \in AskedWith(t.plan, storage[t.plan])
          BY <1>5, <4>1 DEF HistoryOf, Element
        <4> QED  BY <4>2 DEF PageInv, PageTypeOK, JobTypes, Handlers, Turns, AskedWith, Card, Element
      <3> QED  BY <3>1, <3>2, <3>3
    <2> QED  BY <2>2, <2>3, <2>4 DEF Awaiting
  <1>6. ASSUME NEW e \in cards
        PROVE  e.kind = "card" /\ e \in offered /\ (job[j].kind = "cancel" => e.of # job[j].of)
    <2>1. PICK p \in Awaiting : e = Card(p, j)
      BY <1>1, <1>6
    <2>2. job[j].kind = "cancel" => Rejected(decision, job[j].of)
      BY DEF PageInv, HandlersKnow, Knows
    <2>3. job[j].kind = "cancel" => plan[job[j].of] \in Decided
      BY <2>2 DEF Rejected, PageInv, DecisionsSound, RequestOk, Saved
    <2> QED  BY <1>6, <2>1, <2>3 DEF WithPending, Card, Awaiting, Decided
  <1> HIDE DEF history, restored, offered
  <1> QED  BY <1>1, <1>4, <1>5, <1>6

LEMMA RefreshApplied ==
    ASSUME PageInv, QuietInv, NEW j \in Jobs, ApplyRefresh(j)
    PROVE  QuietInv'
  <1>1. /\ job[j].stage = "second" /\ SecondWave \subseteq job[j].got /\ End(j)
        /\ conversation' = Finished(j, Refreshed(j)) /\ shown' = job[j].facts
        /\ synced' = IF job[j].sync THEN Posted(job[j].facts) ELSE synced
        /\ UNCHANGED <<backend, session, storage>>
    BY DEF ApplyRefresh
  <1>2. Only(j) /\ Sole(j) /\ open
    BY <1>1, GoesOnAlone DEF Idle
  <1>3. /\ \A k \in Jobs : k # j => job'[k] = job[k]
        /\ job'[j].stage = "done" /\ job'[j].sync = FALSE
    BY <1>1 DEF End, NoJob, PageInv, PageTypeOK, JobTypes
  <1>4. UNCHANGED <<plan, fact, live, decision, open, platform, storage>> /\ Awaiting' = Awaiting
    BY <1>1 DEF backend, session, Awaiting
  <1>5. HostKnown'
    BY <1>4 DEF QuietInv, HostKnown
  <1>6. "pending" \in job[j].got
    BY <1>1 DEF SecondWave
  <1>7. \A e : e.kind = "card" =>
           (e \in conversation' <=> e \in {Card(p, j) : p \in Awaiting})
    BY <1>1, <1>2, <1>6, CardsRefreshed
  <1>8. job[j].facts = fact
    <2>1. \A f \in Facts : job[j].facts[f] = fact[f]
      BY <1>1, <1>2 DEF Sole, ReadsAreNow, FirstWave
    <2>2. job[j].facts \in [Facts -> FactStatus] /\ fact \in [Facts -> FactStatus]
      BY DEF PageInv, PageTypeOK, JobTypes, Handlers, BackendTypes
    <2> QED  BY <2>1, <2>2
  <1>9. UpToDate'
    <2>1. ASSUME NEW p \in Awaiting
          PROVE  CardsOf(p)' = {Card(p, j)} /\ <<p, j>> \in live
      <3>1. <<p, j>> \in live
        BY <1>1, <1>2, <1>6 DEF Sole, ReadsAreNow
      <3>2. \A e : e \in CardsOf(p)' <=> e = Card(p, j)
        BY <1>7 DEF CardsOf, Card
      <3> QED  BY <3>1, <3>2
    <2>2. j \in Tokens
      BY DEF Tokens
    <2> QED  BY <1>1, <1>4, <1>8, <2>1, <2>2 DEF UpToDate
  <1>10. ReadsAreNow(j)'
    BY <1>3 DEF ReadsAreNow
  <1>11. CardsAwait(j)'
    BY <1>4, <1>7 DEF CardsAwait, Card, Awaiting
  <1>12. TokensAwait(j)'
    BY <1>1, <1>2, <1>3, <1>4 DEF Sole, TokensAwait
  <1>13. NativeIsTold(j)'
    BY <1>1, <1>2, <1>3, <1>4, <1>8 DEF Sole, NativeIsTold, Idle, Posted
  <1>14. Sole(j)'
    BY <1>2, <1>3, <1>4, <1>9, <1>10, <1>11, <1>12, <1>13 DEF Sole, Idle
  <1> QED  BY <1>1, <1>2, <1>3, <1>4, <1>5, <1>14, TakesOver

LEMMA PageGone ==
    ASSUME ConstantsOk, PageInv, OneAtATime, QuietInv, Close
    PROVE  QuietInv'
  <1>1. InFlight = {}
    BY DEF Close, OneAtATime
  <1>2. \A j \in Jobs : Only(j) => job[j].stage # "orphan"
    BY DEF QuietInv, Sole
  <1>3. \A j \in Jobs : Idle(j)
    <2>1. SUFFICES ASSUME NEW j \in Jobs, ~ Idle(j) PROVE FALSE
      OBVIOUS
    <2>2. Sole(j)
      BY <2>1, GoesOnAlone
    <2> QED  BY <1>1, <2>1, <2>2
             DEF Sole, Idle, InFlight, Suspended, PageInv, PageTypeOK, JobTypes, Handlers, Stages
  <1>4. \A j \in Jobs : Only(j) /\ Sole(j)
    BY <1>3 DEF Only, QuietInv
  <1>5. job' = job
    <2>1. job' = [j \in Jobs |-> job[j]]
      BY <1>1, <1>3 DEF Close, Idle
    <2> QED  BY <2>1 DEF PageInv, PageTypeOK, JobTypes
  <1>6. /\ conversation' = {} /\ open' = FALSE /\ platform' = None
        /\ UNCHANGED <<plan, fact, live, decision, synced>>
        /\ storage' = storage \/ storage' = [p \in Plans |-> None]
    BY DEF Close, backend
  <1>7. HostKnown'
    BY <1>6 DEF HostKnown
  <1>8. ASSUME NEW j \in Jobs PROVE Sole(j)'
    <2>1. Sole(j) /\ Idle(j) /\ Idle(j)'
      BY <1>3, <1>4, <1>5 DEF Idle
    <2>2. ReadsAreNow(j)' /\ CardsAwait(j)'
      BY <1>6, <2>1 DEF ReadsAreNow, CardsAwait, Idle
    <2>3. TokensAwait(j)'
      BY <1>6, <2>1 DEF Sole, TokensAwait, Idle
    <2>4. NativeIsTold(j)'
      BY <1>6, <2>1 DEF Sole, NativeIsTold, Idle, Posted
    <2> QED  BY <1>6, <2>1, <2>2, <2>3, <2>4 DEF Sole, Idle
  <1>9. \A j \in Jobs : Held(j)'
    BY <1>5, <1>6 DEF QuietInv, Held
  <1> QED  BY <1>3, <1>5, <1>7, <1>8, <1>9 DEF QuietInv, Idle

LEMMA NothingBegan ==
    ASSUME ConstantsOk, Init
    PROVE  QuietInv
  <1>1. \A j \in Jobs : job[j] = NoJob
    BY DEF Init
  <1>2. \A j \in Jobs : Idle(j) /\ job[j].sync = FALSE
    BY <1>1 DEF Idle, NoJob
  <1>3. HostKnown
    BY DEF Init, HostKnown
  <1>4. ASSUME NEW j \in Jobs PROVE Sole(j)
    <2>1. ReadsAreNow(j) /\ CardsAwait(j) /\ TokensAwait(j) /\ NativeIsTold(j)
      BY <1>2 DEF Init, ReadsAreNow, CardsAwait, TokensAwait, NativeIsTold, Idle
    <2> QED  BY <1>2, <2>1 DEF Init, Sole, Idle
  <1>5. \A j \in Jobs : Held(j)
    BY DEF Init, Held, Requests, NoDecision
  <1> QED  BY <1>2, <1>3, <1>4, <1>5 DEF QuietInv

LEMMA QuietGoesOn == ConstantsOk /\ OneAtATime /\ PageInv /\ QuietInv /\ [Next]_vars => QuietInv'
  <1> SUFFICES ASSUME ConstantsOk, OneAtATime, PageInv, QuietInv, [Next]_vars PROVE QuietInv'
    OBVIOUS
  <1>1. ASSUME NEW j \in Jobs, User(j) PROVE QuietInv'
    BY <1>1, RefreshBegins, RequestBegins DEF User
  <1>2. ASSUME NEW j \in Jobs, Serve(j) PROVE QuietInv'
    BY <1>2, RequestServed
  <1>3. ASSUME NEW j \in Jobs, Continue(j) PROVE QuietInv'
    BY <1>3, SubmitGoesOn, AttachGoesOn, ConfirmGoesOn, CancelGoesOn, ActionGoesOn,
       RefusedEnds, SurfaceRead, SecondRead, RefreshApplied DEF Continue
  <1>4. CASE \/ OpenEditor \/ CloseEditor \/ RefuseForm \/ NativeStatus \/ NativeError
             \/ UNCHANGED vars
    <2>1. UNCHANGED <<backend, session, storage, screen, synced, job>>
      BY <1>4 DEF OpenEditor, CloseEditor, RefuseForm, NativeStatus, NativeError, vars
    <2>2. UNCHANGED <<plan, fact, live, decision, open, platform, storage, conversation, shown,
                      synced, job>>
      BY <2>1 DEF backend, session, screen
    <2>3. \A j \in Jobs : Idle(j)' = Idle(j) /\ Only(j)' = Only(j)
      BY <2>2 DEF Idle, Only
    <2>4. ASSUME NEW j \in Jobs, Sole(j) PROVE Sole(j)'
      BY <2>2, <2>4 DEF Sole, UpToDate, Awaiting, CardsOf, Idle, ReadsAreNow, CardsAwait,
                        TokensAwait, NativeIsTold, Settles, Posted
    <2> QED  BY <2>2, <2>3, <2>4 DEF QuietInv, HostKnown, Held
  <1>5. CASE Close
    BY <1>5, PageGone
  <1> QED
    BY <1>1, <1>2, <1>3, <1>4, <1>5
       DEF Next, OneAtATime, FailRequest, LoseDecision, FallBack, ExpireTokens

LEMMA QuietAlways ==
    ASSUME ConstantsOk, OneAtATime
    PROVE  Spec => []QuietInv
  BY NothingBegan, QuietGoesOn, PageAlways, PTL DEF Spec

LEMMA NobodyBusy ==
    ASSUME PageInv, QuietInv, Quiet
    PROVE  \E j \in Jobs : Idle(j) /\ Sole(j)
  <1>1. \A j \in Jobs : Idle(j)
    <2>1. SUFFICES ASSUME NEW j \in Jobs, ~ Idle(j) PROVE FALSE
      OBVIOUS
    <2>2. Sole(j)
      BY <2>1, GoesOnAlone
    <2> QED  BY <2>1, <2>2 DEF Quiet, Sole, Idle, InFlight, Suspended, PageInv, PageTypeOK,
                           JobTypes, Handlers, Stages
  <1> QED  BY <1>1 DEF Quiet, QuietInv, Only

(* refreshBackendSnapshots: with one handler at a time and no failure, a   *)
(* page that is quiet offers exactly the plans that await a confirmation,  *)
(* each on one card whose token the backend accepts, however often the     *)
(* page was loaded again.                                                  *)
THEOREM QuietPagesOffer ==
    ASSUME ConstantsOk, OneAtATime
    PROVE  Spec => []OffersWhatAwaits
  <1>1. PageInv /\ QuietInv => OffersWhatAwaits
    <2>1. SUFFICES ASSUME PageInv, QuietInv, Quiet
                   PROVE  /\ {e.of : e \in {c \in conversation : c.kind = "card"}} = Awaiting
                          /\ \A p \in Awaiting : \E t \in Tokens :
                                CardsOf(p) = {Card(p, t)} /\ <<p, t>> \in live
      BY DEF OffersWhatAwaits
    <2>2. PICK j \in Jobs : Idle(j) /\ Sole(j)
      BY <2>1, NobodyBusy
    <2>3. UpToDate
      BY <2>1, <2>2 DEF Sole, Quiet
    <2>4. \A e \in conversation : e.kind = "card" => e.of \in Awaiting
      BY <2>1, <2>2 DEF Sole, CardsAwait, Idle, Awaiting, PageInv, ElementsGrounded, Grounded
    <2>5. ASSUME NEW p \in Awaiting
          PROVE  \E e \in conversation : e.kind = "card" /\ e.of = p
      <3>1. PICK t \in Tokens : CardsOf(p) = {Card(p, t)}
        BY <2>3 DEF UpToDate
      <3> QED  BY <3>1 DEF CardsOf
    <2> QED  BY <2>3, <2>4, <2>5 DEF UpToDate
  <1> QED  BY <1>1, PageAlways, QuietAlways, PTL

(* Same: its lists show the facts as they are.                             *)
THEOREM QuietPagesShow ==
    ASSUME ConstantsOk, OneAtATime
    PROVE  Spec => []ShowsTheFacts
  <1>1. PageInv /\ QuietInv => ShowsTheFacts
    <2>1. SUFFICES ASSUME PageInv, QuietInv, Quiet PROVE shown = fact
      BY DEF ShowsTheFacts
    <2>2. PICK j \in Jobs : Idle(j) /\ Sole(j)
      BY <2>1, NobodyBusy
    <2> QED  BY <2>1, <2>2 DEF Sole, Quiet, UpToDate
  <1> QED  BY <1>1, PageAlways, QuietAlways, PTL

(* syncNativeReminderNotifications and its like for events: the lists that *)
(* native keeps are those of the facts, though only some handlers post     *)
(* them: those that do not change no fact.                                 *)
THEOREM NativeIsKeptUpToDate ==
    ASSUME ConstantsOk, OneAtATime
    PROVE  Spec => []NativeFollows
  <1>1. PageInv /\ QuietInv => NativeFollows
    <2>1. SUFFICES ASSUME PageInv, QuietInv, Quiet, synced # EmptySurfaces
                   PROVE  synced = Posted(fact)
      BY DEF NativeFollows
    <2>2. PICK j \in Jobs : Idle(j) /\ Sole(j)
      BY <2>1, NobodyBusy
    <2> QED  BY <2>1, <2>2 DEF Sole, NativeIsTold, Idle
  <1> QED  BY <1>1, PageAlways, QuietAlways, PTL
-----------------------------------------------------------------------------
Statuses == {"scheduled", "draft", "canceled", "done", "submitted"}
FactType == [id: Ids, domain: Domains, status: Statuses, at: Times \cup {Undated}]

(* Facts stand in the list of their domain, and no two have one id.        *)
FactsOk ==
    /\ facts \in [Domains -> Seq(FactType)]
    /\ \A d \in Domains : \A i \in DOMAIN facts[d] : facts[d][i].domain = d
    /\ \A d, e \in Domains : \A i \in DOMAIN facts[d], j \in DOMAIN facts[e] :
          facts[d][i].id = facts[e][j].id => d = e /\ i = j

ListsInv == FactsOk /\ focus \in Ids \cup {NoFocus} /\ refused = FALSE

LEMMA ListOfFacts ==
    ASSUME FactsOk, NEW d \in Domains
    PROVE  /\ facts[d] \in Seq(FactType) /\ Len(facts[d]) \in Nat
           /\ DOMAIN facts[d] = 1 .. Len(facts[d])
           /\ \A i \in DOMAIN facts[d] : facts[d][i] \in FactType
  BY DEF FactsOk

(* What the cuts of a list keep: its last rows, its first rows.            *)
LEMMA LatestKeeps ==
    ASSUME NEW S, NEW s \in Seq(S), NEW n \in Nat \ {0}
    PROVE  /\ Latest(s, n) \in Seq(S)
           /\ Len(Latest(s, n)) = IF Len(s) > n THEN n ELSE Len(s)
           /\ \A k \in 1 .. Len(Latest(s, n)) :
                 Latest(s, n)[k] = s[Len(s) - Len(Latest(s, n)) + k]
  <1> DEFINE m == IF Len(s) > n THEN Len(s) - n + 1 ELSE 1
  <1>1. Len(s) \in Nat /\ m \in Int /\ \A i \in m .. Len(s) : s[i] \in S
    OBVIOUS
  <1>2. /\ SubSeq(s, m, Len(s)) \in Seq(S)
        /\ Len(SubSeq(s, m, Len(s))) = IF m <= Len(s) THEN Len(s) - m + 1 ELSE 0
        /\ \A k \in 1 .. Len(s) - m + 1 : SubSeq(s, m, Len(s))[k] = s[m + k - 1]
    BY <1>1, SubSeqProperties
  <1>3. Latest(s, n) = SubSeq(s, m, Len(s))
    BY DEF Latest
  <1>4. CASE Len(s) > n
    <2>1. m = Len(s) - n + 1 /\ m <= Len(s) /\ Len(Latest(s, n)) = n
      BY <1>1, <1>2, <1>3, <1>4
    <2> QED  BY <1>1, <1>2, <1>3, <1>4, <2>1
  <1>5. CASE ~ (Len(s) > n)
    <2>1. Latest(s, n) = s
      BY <1>3, <1>5, SubSeqFull
    <2>2. \A k \in 1 .. Len(s) : s[Len(s) - Len(s) + k] = s[k]
      BY <1>1
    <2> QED  BY <1>5, <2>1, <2>2
  <1> QED  BY <1>4, <1>5

LEMMA LatestRows ==
    ASSUME NEW S, NEW s \in Seq(S), NEW n \in Nat \ {0}
    PROVE  /\ Latest(s, n) \in Seq(S) /\ Len(Latest(s, n)) \in Nat
           /\ Len(Latest(s, n)) <= n /\ Len(Latest(s, n)) <= Len(s)
           /\ \A k \in 1 .. Len(Latest(s, n)) :
                 /\ Latest(s, n)[k] = s[Len(s) - Len(Latest(s, n)) + k]
                 /\ Len(s) - Len(Latest(s, n)) + k \in DOMAIN s
  <1> DEFINE r == Latest(s, n)
  <1>1. /\ r \in Seq(S) /\ Len(r) = IF Len(s) > n THEN n ELSE Len(s)
        /\ \A k \in 1 .. Len(r) : r[k] = s[Len(s) - Len(r) + k]
    BY LatestKeeps
  <1>2. Len(s) \in Nat /\ DOMAIN s = 1 .. Len(s)
    OBVIOUS
  <1> HIDE DEF r
  <1>3. Len(r) \in Nat /\ Len(r) <= n /\ Len(r) <= Len(s)
    BY <1>1, <1>2
  <1>4. \A k \in 1 .. Len(r) : Len(s) - Len(r) + k \in 1 .. Len(s)
    BY <1>2, <1>3
  <1> QED  BY <1>1, <1>2, <1>3, <1>4 DEF r

LEMMA FirstKeeps ==
    ASSUME NEW S, NEW s \in Seq(S), NEW n \in Nat \ {0}
    PROVE  /\ First(s, n) \in Seq(S)
           /\ Len(First(s, n)) = IF Len(s) > n THEN n ELSE Len(s)
           /\ \A k \in 1 .. Len(First(s, n)) : First(s, n)[k] = s[k]
  <1> DEFINE m == IF Len(s) > n THEN n ELSE Len(s)
  <1>1. Len(s) \in Nat /\ m \in Nat /\ \A i \in 1 .. m : s[i] \in S
    OBVIOUS
  <1>2. /\ SubSeq(s, 1, m) \in Seq(S)
        /\ Len(SubSeq(s, 1, m)) = IF 1 <= m THEN m - 1 + 1 ELSE 0
        /\ \A k \in 1 .. m - 1 + 1 : SubSeq(s, 1, m)[k] = s[1 + k - 1]
    BY <1>1, SubSeqProperties
  <1>3. First(s, n) = SubSeq(s, 1, m)
    BY DEF First
  <1> QED  BY <1>1, <1>2, <1>3

(* selectRecentItemsWithFocus: rows of the list, within the limit; one of  *)
(* them is the focused fact if the list has it.                            *)
LEMMA SelectedRows ==
    ASSUME ListConstants, FactsOk, NEW d \in Domains, NEW id \in Ids \cup {NoFocus}
    PROVE  LET s == SelectRecentItemsWithFocus(facts[d], id)
           IN  /\ s \in Seq(FactType) /\ Len(s) <= ListLimit
               /\ \A k \in 1 .. Len(s) : \E i \in DOMAIN facts[d] : s[k] = facts[d][i]
               /\ Has(facts[d], id) =>
                     \E k \in 1 .. Len(s) : \A l \in 1 .. Len(s) : s[l].id = id <=> l = k
  <1> DEFINE seq == facts[d]
             recent == Latest(seq, ListLimit)
             s == SelectRecentItemsWithFocus(seq, id)
  <1>1. seq \in Seq(FactType) /\ Len(seq) \in Nat /\ DOMAIN seq = 1 .. Len(seq)
    BY ListOfFacts
  <1>2. ListLimit \in Nat \ {0}
    BY DEF ListConstants
  <1>3. /\ recent \in Seq(FactType) /\ Len(recent) \in Nat /\ Len(recent) <= ListLimit
        /\ Len(recent) <= Len(seq)
        /\ \A k \in 1 .. Len(recent) :
              /\ recent[k] = seq[Len(seq) - Len(recent) + k]
              /\ Len(seq) - Len(recent) + k \in DOMAIN seq
    <2> HIDE DEF seq
    <2> QED  BY ONLY <1>1, <1>2, LatestRows DEF recent
  <1>4. \A i, j \in DOMAIN seq : seq[i].id = seq[j].id => i = j
    BY DEF FactsOk
  <1>5. DOMAIN recent = 1 .. Len(recent)
    BY <1>3
  <1>6. CASE id = NoFocus \/ Has(recent, id) \/ ~ Has(seq, id)
    <2>1. s = recent
      BY <1>6 DEF SelectRecentItemsWithFocus
    <2>2. ASSUME Has(seq, id)
          PROVE  \E k \in 1 .. Len(s) : \A l \in 1 .. Len(s) : s[l].id = id <=> l = k
      <3>1. id # NoFocus
        BY <2>2, ListOfFacts DEF Has, ListConstants, FactType
      <3>2. PICK k \in 1 .. Len(recent) : recent[k].id = id
        BY <1>5, <1>6, <2>2, <3>1 DEF Has
      <3>3. ASSUME NEW l \in 1 .. Len(recent), recent[l].id = id PROVE l = k
        <4> DEFINE At(x) == Len(seq) - Len(recent) + x
        <4>1. /\ At(k) \in DOMAIN seq /\ recent[k] = seq[At(k)]
              /\ At(l) \in DOMAIN seq /\ recent[l] = seq[At(l)]
          BY <1>3, <3>2, <3>3
        <4>2. At(k) = At(l)
          BY <1>4, <3>2, <3>3, <4>1
        <4>3. k \in Int /\ l \in Int /\ Len(seq) - Len(recent) \in Int
          BY <1>1, <1>3, <3>2, <3>3
        <4> QED  BY <4>2, <4>3
      <3> QED  BY <2>1, <3>2, <3>3
    <2> QED  BY <1>3, <2>1, <2>2
  <1>7. CASE ~ (id = NoFocus \/ Has(recent, id) \/ ~ Has(seq, id))
    <2> DEFINE found == Find(seq, id)
               all == <<found>> \o recent
    <2>1. PICK i \in DOMAIN seq : seq[i].id = id /\ found = seq[i]
      BY <1>7 DEF Find, Has
    <2>2. found \in FactType
      BY <1>1, <2>1
    <2> HIDE DEF seq, recent, found
    <2>3. /\ all \in Seq(FactType) /\ Len(all) = Len(recent) + 1 /\ all[1] = found
          /\ \A k \in 2 .. Len(all) : all[k] = recent[k - 1]
      BY <1>3, <2>2
    <2>4. s = First(all, ListLimit)
      BY <1>7 DEF SelectRecentItemsWithFocus, seq, recent, found
    <2> HIDE DEF s, all
    <2>5. /\ s \in Seq(FactType) /\ Len(s) \in Nat /\ 1 <= Len(s)
          /\ Len(s) <= ListLimit /\ Len(s) <= Len(all)
          /\ \A k \in 1 .. Len(s) : s[k] = all[k]
      BY <1>2, <1>3, <2>3, <2>4, FirstKeeps
    <2>6. ASSUME NEW l \in 2 .. Len(s)
          PROVE  l - 1 \in 1 .. Len(recent) /\ s[l] = recent[l - 1]
      <3> DEFINE m == Len(s)
                 n == Len(recent)
      <3>1. l \in 2 .. m /\ m \in Nat /\ n \in Nat /\ m <= Len(all) /\ Len(all) = n + 1
        BY <1>3, <2>3, <2>5
      <3> HIDE DEF m, n
      <3>2. l \in 1 .. m /\ l \in 2 .. Len(all) /\ l - 1 \in 1 .. n
        BY ONLY <3>1
      <3>3. s[l] = all[l]
        BY ONLY <2>5, <3>2 DEF m
      <3>4. all[l] = recent[l - 1]
        BY ONLY <2>3, <3>2
      <3> QED  BY <3>2, <3>3, <3>4 DEF n
    <2>7. s[1] = found
      BY <2>3, <2>5
    <2>8. ASSUME NEW k \in 1 .. Len(s), k # 1 PROVE k \in 2 .. Len(s)
      <3> DEFINE m == Len(s)
      <3>1. k \in 1 .. m /\ m \in Nat
        BY <2>5
      <3> HIDE DEF m
      <3>2. k \in 2 .. m
        BY ONLY <2>8, <3>1
      <3> QED  BY <3>2 DEF m
    <2>9. \A k \in 1 .. Len(s) : \E l \in DOMAIN seq : s[k] = seq[l]
      <3>1. TAKE k \in 1 .. Len(s)
      <3>2. CASE k = 1
        BY <2>1, <2>7, <3>2
      <3>3. CASE k # 1
        <4>1. k - 1 \in 1 .. Len(recent) /\ s[k] = recent[k - 1]
          BY ONLY <2>6, <2>8, <3>1, <3>3
        <4> QED  BY <1>3, <4>1
      <3> QED  BY <3>2, <3>3
    <2>10. \A l \in 1 .. Len(s) : s[l].id = id <=> l = 1
      <3>1. TAKE l \in 1 .. Len(s)
      <3>2. CASE l = 1
        BY <2>1, <2>7, <3>2
      <3>3. CASE l # 1
        <4>1. l - 1 \in DOMAIN recent /\ s[l] = recent[l - 1]
          BY <1>5, <2>6, <2>8, <3>3
        <4> QED  BY <1>7, <3>3, <4>1 DEF Has
      <3> QED  BY <3>2, <3>3
    <2>11. 1 \in 1 .. Len(s)
      BY <2>5
    <2> QED  BY <2>5, <2>9, <2>10, <2>11 DEF s, seq
  <1> QED  BY <1>6, <1>7

(* Each row is of a fact there is; one with buttons, of an open one.       *)
RowOk(row) ==
    /\ row.domain \in Domains
    /\ \E i \in DOMAIN facts[row.domain] :
          /\ facts[row.domain][i].id = row.target
          /\ row.buttons # {} =>
                IsOpen(facts[row.domain][i]) /\ row.buttons = ButtonsOf[row.domain]

LEMMA ItemsAreFacts ==
    ASSUME ListConstants, ListsInv, NEW d \in Domains
    PROVE  /\ Items(d) \in Seq(FactType) /\ Len(Items(d)) <= ListLimit
           /\ \A k \in 1 .. Len(Items(d)) : \E i \in DOMAIN facts[d] : Items(d)[k] = facts[d][i]
  <1>1. FactsOk /\ focus \in Ids \cup {NoFocus} /\ ListLimit \in Nat \ {0}
    BY DEF ListsInv, ListConstants
  <1>2. CASE d = "expense"
    <2> DEFINE seq == facts[d]
               recent == Latest(seq, ListLimit)
    <2>1. Items(d) = recent
      BY <1>2 DEF Items
    <2>2. seq \in Seq(FactType) /\ Len(seq) \in Nat /\ DOMAIN seq = 1 .. Len(seq)
      BY <1>1, ListOfFacts
    <2> HIDE DEF seq
    <2>3. /\ recent \in Seq(FactType) /\ Len(recent) \in Nat /\ Len(recent) <= ListLimit
          /\ Len(recent) <= Len(seq)
          /\ \A k \in 1 .. Len(recent) : /\ recent[k] = seq[Len(seq) - Len(recent) + k]
                                         /\ Len(seq) - Len(recent) + k \in DOMAIN seq
      BY ONLY <1>1, <2>2, LatestRows DEF recent
    <2> HIDE DEF recent
    <2>4. \A k \in 1 .. Len(recent) : \E i \in DOMAIN seq : recent[k] = seq[i]
      BY <2>3
    <2> QED  BY <2>1, <2>3, <2>4 DEF seq
  <1>3. CASE d # "expense"
    BY <1>1, <1>3, SelectedRows DEF Items
  <1> QED  BY <1>2, <1>3

LEMMA RowsOfItems ==
    ASSUME ListConstants, ListsInv, NEW d \in Domains
    PROVE  /\ DOMAIN ListOf(d) = 1 .. Len(Items(d)) /\ Len(ListOf(d)) = Len(Items(d))
           /\ \A k \in 1 .. Len(Items(d)) : ListOf(d)[k] = Row(Items(d)[k], Items(d)[k].id)
  <1>1. DOMAIN Items(d) = 1 .. Len(Items(d)) /\ Len(Items(d)) \in Nat
    BY ItemsAreFacts
  <1>2. ListOf(d) = [k \in 1 .. Len(Items(d)) |-> Row(Items(d)[k], Items(d)[k].id)]
    BY <1>1 DEF ListOf
  <1> QED  BY <1>1, <1>2

LEMMA RowsAreOfFacts ==
    ASSUME ListConstants, ListsInv, NEW row \in Shown
    PROVE  RowOk(row)
  <1>1. ASSUME NEW d \in Domains, NEW i \in DOMAIN facts[d], row = Row(facts[d][i], facts[d][i].id)
        PROVE  RowOk(row)
    <2>1. facts[d][i].domain = d
      BY DEF ListsInv, FactsOk
    <2>2. row.domain = d /\ row.target = facts[d][i].id
          /\ row.buttons = IF IsOpen(facts[d][i]) THEN ButtonsOf[d] ELSE {}
      BY <1>1, <2>1 DEF Row
    <2> QED  BY <2>2 DEF RowOk
  <1>2. CASE \E e \in Timeline : row = TimelineRow(FactAt(e))
    <2>1. PICK e \in Timeline : row = TimelineRow(FactAt(e))
      BY <1>2
    <2>2. e[1] \in Domains /\ e[2] \in DOMAIN facts[e[1]]
      BY DEF Timeline, Entries
    <2> QED  BY <1>1, <2>1, <2>2 DEF TimelineRow, FactAt
  <1>3. CASE \E d \in Domains : \E k \in DOMAIN ListOf(d) : row = ListOf(d)[k]
    <2>1. PICK d \in Domains : \E k \in DOMAIN ListOf(d) : row = ListOf(d)[k]
      BY <1>3
    <2>2. PICK k \in 1 .. Len(Items(d)) : row = Row(Items(d)[k], Items(d)[k].id)
      BY <2>1, RowsOfItems
    <2>3. PICK i \in DOMAIN facts[d] : Items(d)[k] = facts[d][i]
      BY <2>2, ItemsAreFacts
    <2> QED  BY <1>1, <2>2, <2>3
  <1> QED  BY <1>2, <1>3 DEF Shown

LEMMA FactCreated ==
    ASSUME ListConstants, ListsInv, NEW id \in Ids, NEW d \in Domains,
           NEW at \in Times \cup {Undated}, Create(id, d, at)
    PROVE  ListsInv'
  <1> DEFINE seq == facts[d]
             new == Fact(id, d, OpenStatus[d], at)
  <1>1. seq \in Seq(FactType) /\ Len(seq) \in Nat /\ DOMAIN seq = 1 .. Len(seq)
    BY ListOfFacts DEF ListsInv
  <1>2. new \in FactType /\ new.id = id /\ new.domain = d
    BY DEF Fact, FactType, OpenStatus, Statuses, Domains
  <1>3. facts' = [facts EXCEPT ![d] = Append(seq, new)] /\ UNCHANGED <<focus, refused>>
    BY DEF Create
  <1> HIDE DEF new
  <1>4. facts'[d] = Append(seq, new) /\ \A e \in Domains \ {d} : facts'[e] = facts[e]
    BY <1>3 DEF ListsInv, FactsOk
  <1>5. facts' \in [Domains -> Seq(FactType)]
    BY <1>1, <1>2, <1>3 DEF ListsInv, FactsOk
  <1> HIDE DEF seq
  <1>6. /\ DOMAIN facts'[d] = 1 .. Len(seq) + 1
        /\ facts'[d][Len(seq) + 1] = new
        /\ \A i \in 1 .. Len(seq) : facts'[d][i] = seq[i]
    BY <1>1, <1>2, <1>4
  <1>7. \A e \in Domains : \A i \in DOMAIN facts[e] : facts[e][i].id # id
    BY DEF Create, Has
  <1>8. ASSUME NEW e \in Domains, NEW i \in DOMAIN facts'[e]
        PROVE  \/ i \in DOMAIN facts[e] /\ facts'[e][i] = facts[e][i]
               \/ e = d /\ i = Len(seq) + 1 /\ facts'[e][i] = new
    BY <1>1, <1>4, <1>6 DEF seq
  <1>9. \A e \in Domains : \A i \in DOMAIN facts'[e] : facts'[e][i].domain = e
    BY <1>2, <1>8 DEF ListsInv, FactsOk
  <1>10. ASSUME NEW e \in Domains, NEW g \in Domains,
                NEW i \in DOMAIN facts'[e], NEW j \in DOMAIN facts'[g],
                facts'[e][i].id = facts'[g][j].id
         PROVE  e = g /\ i = j
    <2> DEFINE Old(a, k) == k \in DOMAIN facts[a] /\ facts'[a][k] = facts[a][k]
               New(a, k) == a = d /\ k = Len(seq) + 1 /\ facts'[a][k] = new
    <2>1. (Old(e, i) \/ New(e, i)) /\ (Old(g, j) \/ New(g, j))
      BY <1>8
    <2>2. CASE Old(e, i) /\ Old(g, j)
      BY <1>10, <2>2 DEF ListsInv, FactsOk
    <2>3. CASE New(e, i) /\ New(g, j)
      BY <2>3
    <2>4. CASE (Old(e, i) /\ New(g, j)) \/ (New(e, i) /\ Old(g, j))
      BY <1>2, <1>7, <1>10, <2>4
    <2> QED  BY <2>1, <2>2, <2>3, <2>4
  <1> QED  BY <1>3, <1>5, <1>9, <1>10 DEF ListsInv, FactsOk

LEMMA ButtonPressed ==
    ASSUME ListConstants, ListsInv, NEW row \in Shown, NEW status \in row.buttons,
           Press(row, status)
    PROVE  ListsInv'
  <1>1. RowOk(row) /\ row.buttons # {}
    BY RowsAreOfFacts
  <1> DEFINE d == row.domain
  <1>2. d \in Domains /\ row.buttons = ButtonsOf[d]
    BY <1>1 DEF RowOk
  <1>3. PICK i \in DOMAIN facts[d] : /\ facts[d][i].id = row.target
                                      /\ facts' = [facts EXCEPT ![d][i].status = status]
                                      /\ refused' = FALSE /\ focus' = focus
    BY <1>1 DEF Press, RowOk
  <1>4. facts[d] \in Seq(FactType) /\ Len(facts[d]) \in Nat /\ DOMAIN facts[d] = 1 .. Len(facts[d])
        /\ facts[d][i] \in FactType
    BY <1>2, ListOfFacts DEF ListsInv
  <1>5. status \in Statuses
    BY <1>2 DEF ButtonsOf, Statuses, Domains
  <1> DEFINE new == [facts[d][i] EXCEPT !.status = status]
  <1>6. new \in FactType /\ new.id = facts[d][i].id /\ new.domain = facts[d][i].domain
    BY <1>4, <1>5 DEF FactType
  <1> HIDE DEF d
  <1>7. facts' = [facts EXCEPT ![d] = [@ EXCEPT ![i] = new]]
    BY <1>2, <1>3 DEF ListsInv, FactsOk
  <1>8. [facts[d] EXCEPT ![i] = new] \in Seq(FactType)
    BY <1>3, <1>4, <1>6, ExceptSeq
  <1>9. facts' \in [Domains -> Seq(FactType)]
    BY <1>2, <1>7, <1>8 DEF ListsInv, FactsOk
  <1>10. \A e \in Domains : /\ DOMAIN facts'[e] = DOMAIN facts[e]
                            /\ \A k \in DOMAIN facts[e] :
                                  /\ facts'[e][k].id = facts[e][k].id
                                  /\ facts'[e][k].domain = facts[e][k].domain
    BY <1>2, <1>3, <1>4, <1>6, <1>7 DEF ListsInv, FactsOk
  <1> QED  BY <1>3, <1>9, <1>10 DEF ListsInv, FactsOk

LEMMA ListsAlways ==
    ASSUME ListConstants
    PROVE  ListsSpec => []ListsInv
  <1>1. ListsInit => ListsInv
    BY DEF ListsInit, ListsInv, FactsOk
  <1>2. ListsInv /\ [ListsNext]_listVars => ListsInv'
    <2>1. SUFFICES ASSUME ListsInv, [ListsNext]_listVars PROVE ListsInv'
      OBVIOUS
    <2>2. CASE \E id \in Ids, d \in Domains, at \in Times \cup {Undated} : Create(id, d, at)
      BY <2>1, <2>2, FactCreated
    <2>3. CASE \E row \in Shown : \E status \in row.buttons : Press(row, status)
      BY <2>1, <2>3, ButtonPressed
    <2>4. CASE \E id \in Ids : Focus(id)
      BY <2>1, <2>4 DEF Focus, ListsInv, FactsOk
    <2>5. CASE UNCHANGED listVars
      BY <2>1, <2>5 DEF listVars, ListsInv, FactsOk
    <2> QED  BY <2>1, <2>2, <2>3, <2>4, <2>5 DEF ListsNext
  <1> QED  BY <1>1, <1>2, PTL DEF ListsSpec

(* The timeline's order puts its entries in one line: what comes before an *)
(* entry makes its place.                                                  *)
Before(e) == {g \in Entries : ComesBefore(g, e)}

LEMMA EntriesAreFacts ==
    ASSUME ListConstants, FactsOk
    PROVE  /\ IsFiniteSet(Entries)
           /\ \A e \in Entries : /\ e[1] \in Domains /\ e[2] \in DOMAIN facts[e[1]] /\ e[2] \in Nat
                                 /\ e = <<e[1], e[2]>> /\ Rank[e[1]] \in Nat
                                 /\ FactAt(e).at \in Nat
  <1>1. Entries = ({"calendar"} \X DOMAIN facts["calendar"])
                     \cup ({"expense"} \X DOMAIN facts["expense"])
                     \cup ({"reminder"} \X DOMAIN facts["reminder"])
    BY DEF Entries, Domains
  <1>2. \A d \in Domains : IsFiniteSet({d} \X DOMAIN facts[d])
    <2>1. TAKE d \in Domains
    <2>2. IsFiniteSet({d}) /\ IsFiniteSet(DOMAIN facts[d])
      <3>1. Len(facts[d]) \in Int /\ DOMAIN facts[d] = 1 .. Len(facts[d])
        BY ListOfFacts
      <3>2. IsFiniteSet(1 .. Len(facts[d]))
        BY <3>1, FS_Interval
      <3>3. IsFiniteSet({d})
        BY FS_Singleton
      <3> QED  BY <3>1, <3>2, <3>3
    <2> QED  BY <2>2, FS_Product
  <1>3. IsFiniteSet(Entries)
    BY <1>1, <1>2, FS_Union DEF Domains
  <1>4. ASSUME NEW e \in Entries
        PROVE  /\ e[1] \in Domains /\ e[2] \in DOMAIN facts[e[1]] /\ e[2] \in Nat
               /\ e = <<e[1], e[2]>> /\ Rank[e[1]] \in Nat /\ FactAt(e).at \in Nat
    <2>1. e[1] \in Domains /\ e[2] \in DOMAIN facts[e[1]] /\ e = <<e[1], e[2]>>
      BY DEF Entries
    <2>2. e[2] \in Nat /\ facts[e[1]][e[2]] \in FactType
      BY <2>1, ListOfFacts
    <2>3. FactAt(e).at \in Nat
      BY <2>2 DEF FactAt, FactType, ListConstants
    <2>4. Rank[e[1]] \in Nat
      BY <2>1 DEF Rank, Domains
    <2> QED  BY <2>1, <2>2, <2>3, <2>4
  <1> QED  BY <1>3, <1>4

LEMMA InOneLine ==
    ASSUME ListConstants, FactsOk, NEW e \in Entries, NEW g \in Entries
    PROVE  /\ ~ ComesBefore(e, e)
           /\ e # g => ComesBefore(e, g) \/ ComesBefore(g, e)
           /\ \A h \in Entries : ComesBefore(e, g) /\ ComesBefore(g, h) => ComesBefore(e, h)
  <1>1. \A a \in Entries : /\ a[2] \in Nat /\ a = <<a[1], a[2]>> /\ a[1] \in Domains
                           /\ Rank[a[1]] \in Nat /\ FactAt(a).at \in Nat
    BY EntriesAreFacts
  <1>2. \A c, d \in Domains : Rank[c] = Rank[d] => c = d
    BY DEF Rank, Domains
  <1>3. ~ ComesBefore(e, e)
    BY <1>1 DEF ComesBefore, SortAt
  <1>4. e # g => ComesBefore(e, g) \/ ComesBefore(g, e)
    BY <1>1, <1>2 DEF ComesBefore, SortAt
  <1>5. ASSUME NEW h \in Entries, ComesBefore(e, g), ComesBefore(g, h)
        PROVE  ComesBefore(e, h)
    BY <1>1, <1>5 DEF ComesBefore, SortAt
  <1> QED  BY <1>3, <1>4, <1>5

LEMMA PlacesCount ==
    ASSUME ListConstants, FactsOk, NEW e \in Entries
    PROVE  /\ IsFiniteSet(Before(e)) /\ Cardinality(Before(e)) \in Nat
           /\ TimelinePlace(e) = Cardinality(Before(e)) + 1
           /\ e \notin Before(e) /\ Before(e) \subseteq Entries
           /\ \A g \in Before(e) : Before(g) \subseteq Before(e) \ {g}
  <1>1. Before(e) \subseteq Entries /\ TimelinePlace(e) = Cardinality(Before(e)) + 1
    BY DEF Before, TimelinePlace
  <1>2. IsFiniteSet(Before(e)) /\ Cardinality(Before(e)) \in Nat
    BY <1>1, EntriesAreFacts, FS_Subset, FS_CardinalityType
  <1>3. e \notin Before(e)
    BY InOneLine DEF Before
  <1>4. \A g \in Before(e) : Before(g) \subseteq Before(e) \ {g}
    BY InOneLine DEF Before
  <1> QED  BY <1>1, <1>2, <1>3, <1>4

(* Of some entries one is the first and, when there are finitely many, one *)
(* the last.                                                               *)
LEMMA OneIsFirst ==
    ASSUME ListConstants, FactsOk, NEW S \in SUBSET Entries, S # {}
    PROVE  \E e \in S : \A g \in S : g # e => ComesBefore(e, g)
  <1> DEFINE T == {Before(e) : e \in S}
             R == StrictSubsetOrdering(Entries)
  <1>1. T \subseteq FiniteSubsetsOf(Entries) /\ T # {}
    BY PlacesCount DEF FiniteSubsetsOf
  <1>2. \E x \in T : \A y \in T : ~ (<<y, x>> \in R)
    <2> HIDE DEF T, R
    <2> QED  BY <1>1, FS_StrictSubsetOrderingWellFounded, WFMin DEF R
  <1>3. PICK e \in S : \A g \in S : ~ (<<Before(g), Before(e)>> \in R)
    BY <1>2
  <1>4. ASSUME NEW g \in S, g # e PROVE ComesBefore(e, g)
    <2>1. SUFFICES ASSUME ComesBefore(g, e) PROVE FALSE
      BY <1>4, InOneLine
    <2>2. g \in Before(e)
      BY <2>1 DEF Before
    <2>3. Before(g) \subseteq Before(e) /\ Before(g) # Before(e)
      BY <2>2, PlacesCount
    <2>4. Before(g) \in SUBSET Entries /\ Before(e) \in SUBSET Entries
      BY DEF Before
    <2> QED  BY <1>3, <2>3, <2>4 DEF StrictSubsetOrdering
  <1> QED  BY <1>4

LEMMA OneIsLast ==
    ASSUME ListConstants, FactsOk, NEW S \in SUBSET Entries, S # {}
    PROVE  \E e \in S : \A g \in S : g # e => ComesBefore(g, e)
  <1> DEFINE After(e) == Entries \ (Before(e) \cup {e})
             T == {After(e) : e \in S}
             R == StrictSubsetOrdering(Entries)
  <1>1. \A e : After(e) \subseteq Entries /\ IsFiniteSet(After(e))
    BY EntriesAreFacts, FS_Subset
  <1>2. T \subseteq FiniteSubsetsOf(Entries) /\ T # {}
    BY <1>1 DEF FiniteSubsetsOf
  <1>3. \E x \in T : \A y \in T : ~ (<<y, x>> \in R)
    <2> HIDE DEF T, R
    <2> QED  BY <1>2, FS_StrictSubsetOrderingWellFounded, WFMin DEF R
  <1>4. PICK e \in S : \A g \in S : ~ (<<After(g), After(e)>> \in R)
    BY <1>3
  <1>5. ASSUME NEW g \in S, g # e PROVE ComesBefore(g, e)
    <2>1. SUFFICES ASSUME ComesBefore(e, g) PROVE FALSE
      BY <1>5, InOneLine
    <2>2. After(g) \subseteq After(e)
      BY <2>1, InOneLine DEF Before
    <2>3. g \in After(e) /\ g \notin After(g)
      BY <1>5, <2>1, InOneLine DEF Before
    <2>4. After(g) \in SUBSET Entries /\ After(e) \in SUBSET Entries
      OBVIOUS
    <2> HIDE DEF After
    <2> QED  BY <1>4, <2>2, <2>3, <2>4 DEF StrictSubsetOrdering
  <1> QED  BY <1>5

LEMMA TimelineIsFirst ==
    ASSUME ListConstants, ListsInv
    PROVE  TimelineIsThePrefix
  <1> DEFINE Out == Entries \ Timeline
             n == TimelineLimit
  <1>1. FactsOk /\ n \in Nat \ {0} /\ Timeline \subseteq Entries
    BY DEF ListsInv, ListConstants, Timeline
  <1>2. IsFiniteSet(Timeline) /\ Cardinality(Timeline) \in Nat
    BY <1>1, EntriesAreFacts, FS_Subset, FS_CardinalityType
  <1>3. \A e \in Entries : e \in Timeline <=> Cardinality(Before(e)) < n
    BY <1>1, PlacesCount DEF Timeline
  <1>4. ASSUME NEW e \in Timeline, NEW g \in Out PROVE ComesBefore(e, g)
    <2>1. SUFFICES ASSUME ComesBefore(g, e) PROVE FALSE
      BY <1>1, <1>4, InOneLine
    <2>2. Before(g) \subseteq Before(e)
      BY <1>1, <2>1, PlacesCount DEF Before
    <2>3. Cardinality(Before(g)) <= Cardinality(Before(e))
      BY <1>1, <2>2, PlacesCount, FS_Subset
    <2> QED  BY <1>1, <1>3, <2>3, PlacesCount
  <1>5. \A e \in Timeline, g \in Out : FactAt(e).at <= FactAt(g).at
    <2>1. TAKE e \in Timeline, g \in Out
    <2>2. e \in Entries /\ g \in Entries /\ FactAt(e).at \in Nat /\ FactAt(g).at \in Nat
      BY <1>1, EntriesAreFacts
    <2> QED  BY <1>4, <2>2 DEF ComesBefore, SortAt
  <1>6. ASSUME Out # {} PROVE Cardinality(Timeline) = n
    <2>1. PICK g \in Out : \A h \in Out : h # g => ComesBefore(g, h)
      BY <1>1, <1>6, OneIsFirst
    <2>2. Before(g) \subseteq Timeline
      BY <1>1, <2>1, InOneLine DEF Before
    <2>3. Cardinality(Before(g)) <= Cardinality(Timeline) /\ Cardinality(Before(g)) >= n
      BY <1>1, <1>2, <1>3, <2>2, PlacesCount, FS_Subset
    <2>4. Timeline # {}
      BY <1>1, <1>2, <2>3, PlacesCount, FS_EmptySet
    <2>5. PICK e \in Timeline : \A h \in Timeline : h # e => ComesBefore(h, e)
      BY <1>1, <2>4, OneIsLast
    <2>6. Timeline \ {e} \subseteq Before(e)
      BY <1>1, <2>5 DEF Before
    <2>7. Cardinality(Timeline \ {e}) <= Cardinality(Before(e))
      BY <1>1, <2>6, PlacesCount, FS_Subset
    <2>8. Cardinality(Timeline \ {e}) = Cardinality(Timeline) - 1
      BY <1>2, FS_RemoveElement
    <2> QED  BY <1>1, <1>2, <1>3, <2>3, <2>7, <2>8, PlacesCount
  <1> QED  BY <1>5, <1>6 DEF TimelineIsThePrefix

LEMMA FocusShows ==
    ASSUME ListConstants, ListsInv
    PROVE  FocusIsListed
  <1>1. SUFFICES ASSUME NEW d \in Domains \ {"expense"}
                 PROVE  /\ Len(ListOf(d)) <= ListLimit
                        /\ Has(facts[d], focus) =>
                              Cardinality({i \in DOMAIN ListOf(d) : ListOf(d)[i].highlighted}) = 1
    BY DEF FocusIsListed
  <1>2. Len(ListOf(d)) <= ListLimit
    BY ItemsAreFacts, RowsOfItems
  <1>3. ASSUME Has(facts[d], focus)
        PROVE  Cardinality({i \in DOMAIN ListOf(d) : ListOf(d)[i].highlighted}) = 1
    <2>1. Items(d) = SelectRecentItemsWithFocus(facts[d], focus)
      BY DEF Items
    <2>2. PICK k \in 1 .. Len(Items(d)) :
             \A l \in 1 .. Len(Items(d)) : Items(d)[l].id = focus <=> l = k
      BY <1>3, <2>1, SelectedRows DEF ListsInv
    <2>3. \A l \in DOMAIN ListOf(d) : ListOf(d)[l].highlighted <=> l = k
      <3>1. TAKE l \in DOMAIN ListOf(d)
      <3>2. l \in 1 .. Len(Items(d)) /\ ListOf(d)[l] = Row(Items(d)[l], Items(d)[l].id)
        BY RowsOfItems
      <3>3. ListOf(d)[l].highlighted <=> Items(d)[l].id = focus
        <4> DEFINE f == Items(d)[l]
        <4>1. Row(f, f.id).highlighted = (f.id = focus)
          BY DEF Row
        <4> QED  BY <3>2, <4>1
      <3> QED  BY <2>2, <3>2, <3>3
    <2>4. {i \in DOMAIN ListOf(d) : ListOf(d)[i].highlighted} = {k}
      BY <2>2, <2>3, RowsOfItems
    <2> QED  BY <2>4, FS_Singleton
  <1> QED  BY <1>2, <1>3

(* selectRecentItemsWithFocus, timelineToBackendElements and               *)
(* handleSummaryAction: for any facts, ids, times and limits, a focused    *)
(* fact is in its list, the timeline leaves out only what comes last, and  *)
(* every button of a row is of a fact that is there and open.              *)
THEOREM RowsStaySound ==
    ASSUME ListConstants
    PROVE  ListsSpec => []RowsAreSound
  <1>1. ListsInv => RowsAreSound
    BY FocusShows, TimelineIsFirst DEF RowsAreSound, NoButtonIsRefused, ListsInv
  <1> QED  BY <1>1, ListsAlways, PTL
==============================================================================
