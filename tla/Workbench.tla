------------------------------ MODULE Workbench ------------------------------
(***************************************************************************)
(* The H5 workbench (AgentWorkbench in components.tsx) as a client of the  *)
(* backend: its handlers are async functions of one JavaScript thread, so  *)
(* a handler runs alone between two awaits and any number of them may be   *)
(* suspended at an await at the same time. A handler that was started is a *)
(* job here; its requests are served, refused or lost on their own, and    *)
(* its continuation runs when the answer is back.                          *)
(*                                                                         *)
(* A refresh reads every surface with a request of its own, in two waves   *)
(* (Promise.all), and puts what it read on the page at once.               *)
(*                                                                         *)
(* The backend decides a plan in steps: it reads the plan and lets a       *)
(* request in, executes, and saves the outcome over whatever was saved     *)
(* since. Two requests that were both let in both decide. (Its rows, its   *)
(* ledger and its torn reads are PlanExecution's subject.)                 *)
(***************************************************************************)
EXTENDS Naturals, FiniteSets

CONSTANTS
    Plans,        \* plans the conversation may compile
    Facts,        \* events, expenses and reminders
    Creates,      \* the fact a plan creates when it executes
    SurfaceOf,    \* the surface that lists a fact
    Jobs,         \* handler invocations, each used once
    Kinds,        \* the handlers a run starts, and "native" status messages
    MaxInFlight,  \* handlers suspended, or requests left over, at one time
    MayFail,      \* whether a request can fail or its answer be lost
    Reload,       \* when the page can be closed: "never", "quiet" or "any" time
    Others,       \* requests of other clients, each used once
    Host,         \* where the page runs: the iOS web view or a browser
    Original,     \* the confirm token issued with a plan
    None

Surfaces == {"calendar", "expenses", "reminders"}
FactStatus == {"absent", "open", "edited", "closed"}
PlanStatus == {"absent", "awaiting_confirmation", "succeeded", "failed", "rejected"}
JobKinds == {"mount", "hostContext", "focus", "submit", "attach",
             "confirm", "cancel", "direct", "edit"}
Tokens == Jobs \cup {Original}
Requests == Jobs \cup Others

ConstantsOk ==
    /\ Creates \in [Plans -> Facts]
    /\ \A p, q \in Plans : Creates[p] = Creates[q] => p = q
    /\ SurfaceOf \in [Facts -> Surfaces]
    /\ Kinds \subseteq JobKinds \cup {"native"}
    /\ MaxInFlight \in Nat
    /\ MayFail \in BOOLEAN
    /\ Reload \in {"never", "quiet", "any"}
    /\ Host \in {"ios", "browser"}
    /\ Original \notin Jobs
    /\ Others \cap Jobs = {}
    /\ None \notin Jobs \cup Plans \cup Facts \cup {Original, "ios", "rejected"}

VARIABLES
    plan,          \* backend: execution_plans.status
    fact,          \* backend: status of a fact
    turns,         \* backend: the turns of the conversation
    files,         \* backend: attachments
    live,          \* backend: <<plan, token>> a confirmation accepts
    decision,      \* backend: how far a request to decide a plan has come
    open,          \* the page is mounted
    platform,      \* nativePlatform
    submitted,     \* hasSubmittedInSessionRef
    focused,       \* focusedReminderId / focusedCalendarEventId
    storage,       \* localStorage: confirm tokens by plan
    conversation,  \* elementsBySurface.conversation
    shown,         \* elementsBySurface of the facts: the status they show
    highlighted,   \* the fact the lists were rendered with as focused
    synced,        \* the calendar and reminder lists last posted to native
    dock,          \* executionStatus
    draft,         \* summaryEditDraft
    job            \* the handlers

backend == <<plan, fact, turns, files, live, decision>>
screen == <<conversation, shown, highlighted>>
session == <<open, platform, submitted, focused>>
vars == <<backend, session, storage, screen, synced, dock, draft, job>>

-----------------------------------------------------------------------------
(* What is on the page. An element is named by its kind and what it is of; *)
(* a card also carries the token its buttons send.                         *)
Element(kind, of) == [kind |-> kind, of |-> of, token |-> None]
Card(p, t) == [kind |-> "card", of |-> p, token |-> t]
Id(e) == <<e.kind, e.of>>
CardsOf(p) == {e \in conversation : e.kind = "card" /\ e.of = p}
HistoryKinds == {"history-user", "history-reply"}

(* The elements of an awaiting answer: its summary and its card.           *)
AskedWith(p, t) == {Element("summary", p), Card(p, t)}

EmptySurfaces == [f \in Facts |-> "absent"]
Listed(s) == {f \in Facts : SurfaceOf[f] = s}

(* A surface that lists no fact of the run reads empty and is left out, as *)
(* is the list of attachments where a run submits none.                    *)
FirstWave == {SurfaceOf[f] : f \in Facts}
SecondWave == {"turns", "pending"} \cup (IF "attach" \in Kinds THEN {"files"} ELSE {})

NoJob == [kind |-> "none", of |-> None, token |-> None, stage |-> "unused",
          sync |-> FALSE, focus |-> None, history |-> FALSE,
          got |-> {}, facts |-> EmptySurfaces, turns |-> {}, pending |-> {}, files |-> {}]

(* A request that was let in to decide a plan: a confirmation executes the *)
(* plan and then saves, a rejection has only to save.                      *)
NoDecision == [plan |-> None, outcome |-> None, stage |-> "none"]
LetIn(p, outcome, stage) == [plan |-> p, outcome |-> outcome, stage |-> stage]

Suspended == {"sent", "deciding", "served", "refused", "first", "second"}
InFlight == {j \in Jobs : job[j].stage \in Suspended}
Orphans == {j \in Jobs : job[j].stage = "orphan"}
Busy == {"understanding", "executing"}

Init ==
    /\ plan = [p \in Plans |-> "absent"]
    /\ fact \in [Facts -> {"absent", "open"}]
    /\ \A p \in Plans : fact[Creates[p]] = "absent"
    /\ \A f \in Facts : (\A p \in Plans : Creates[p] # f) => fact[f] = "open"
    /\ turns = {}
    /\ files = {}
    /\ live = {}
    /\ decision = [r \in Requests |-> NoDecision]
    /\ open = FALSE
    /\ platform = None
    /\ submitted = FALSE
    /\ focused = None
    /\ storage = [p \in Plans |-> None]
    /\ conversation = {}
    /\ shown = EmptySurfaces
    /\ highlighted = None
    /\ synced = EmptySurfaces
    /\ dock = "idle"
    /\ draft = None
    /\ job = [j \in Jobs |-> NoJob]

Begin(j, kind, of, token, stage, sync, focus, history) ==
    /\ job[j].stage = "unused"
    /\ kind \in Kinds
    /\ Cardinality(InFlight \cup Orphans) < MaxInFlight
    /\ job' = [job EXCEPT ![j] = [NoJob EXCEPT !.kind = kind, !.of = of, !.token = token,
                 !.stage = stage, !.sync = sync, !.focus = focus, !.history = history]]

Move(j, stage) == job' = [job EXCEPT ![j].stage = stage]
End(j) == job' = [job EXCEPT ![j] = [NoJob EXCEPT !.stage = "done"]]

NeverPosts(j, kind, of, token, history) == \* faulty: no refresh tells native
    Begin(j, kind, of, token, "sent", FALSE, focused, history)

(* A handler the page starts has the state of its last render; one that a  *)
(* bridge message starts has the closure of the mount effect, in which the *)
(* platform and the focus are still undefined.                             *)
BeginOnPage(j, kind, of, token, history) ==
    Begin(j, kind, of, token, "sent", platform = "ios", focused, history)
BeginFromNative(j, kind, of) ==
    Begin(j, kind, of, None, "sent", FALSE, None, FALSE)
BeginRefresh(j, kind, sync, focus) ==
    Begin(j, kind, None, None, "first", sync, focus, TRUE)

-----------------------------------------------------------------------------
(* The mount effect: it renders an empty page, takes the platform from the *)
(* address, posts h5.ready and starts the first refresh, in whose closure  *)
(* the platform is not set yet.                                            *)
Open(j) ==
    /\ ~ open
    /\ BeginRefresh(j, "mount", FALSE, None)
    /\ open' = TRUE
    /\ platform' = IF Host = "ios" THEN "ios" ELSE None
    /\ UNCHANGED <<backend, submitted, focused, storage, screen, synced, dock, draft>>

(* native.hostContext, which the shell sends on h5.ready and again when    *)
(* the navigation has finished: the lists are reset and refreshed.         *)
HostContext(j) ==
    /\ open /\ Host = "ios"
    /\ BeginRefresh(j, "hostContext", TRUE, None)
    /\ conversation' = {}
    /\ shown' = EmptySurfaces
    /\ highlighted' = None
    /\ UNCHANGED <<backend, session, storage, synced, dock, draft>>

(* native.viewChanged with the id of a reminder or an event: a tapped      *)
(* notification.                                                           *)
ViewChanged(j, f) ==
    /\ open
    /\ BeginRefresh(j, "focus", FALSE, f)
    /\ focused' = f
    /\ dock' = "completed"
    /\ UNCHANGED <<backend, open, platform, submitted, storage, screen, synced, draft>>

(* native.viewChanged without an id, and native.ack.                       *)
NativeStatus ==
    /\ open /\ "native" \in Kinds
    /\ dock' \in {"idle", "completed"}
    /\ UNCHANGED <<backend, session, storage, screen, synced, draft, job>>

(* native.error: a failed input is a failure, a failed system sync is not. *)
NativeError ==
    /\ open /\ "native" \in Kinds
    /\ dock' \in {"failed", "completed"}
    /\ UNCHANGED <<backend, session, storage, screen, synced, draft, job>>

QuickReplies == {e \in conversation : e.kind \in {"reply", "history-reply", "intake"}}

(* A text arrives from the native composer, or from a quick reply.         *)
HandleSubmittedText(j) ==
    /\ open
    /\ \/ BeginFromNative(j, "submit", None)
       \/ QuickReplies # {} /\ BeginOnPage(j, "submit", None, None, FALSE)
    /\ submitted' = TRUE
    /\ conversation' = conversation \cup {Element("user", j)}
    /\ dock' = "understanding"
    /\ UNCHANGED <<backend, open, platform, focused, storage, shown, highlighted, synced, draft>>

HandleSubmittedAttachment(j) ==
    /\ open /\ Host = "ios"
    /\ BeginFromNative(j, "attach", None)
    /\ submitted' = TRUE
    /\ conversation' = conversation \cup {Element("user", j)}
    /\ dock' = "understanding"
    /\ UNCHANGED <<backend, open, platform, focused, storage, shown, highlighted, synced, draft>>

ConfirmAtOnce(j) == \* faulty: the card gives way to the result before the answer
    /\ open
    /\ \E e \in conversation :
          /\ e.kind = "card" /\ BeginOnPage(j, "confirm", e.of, e.token, TRUE)
          /\ conversation' = (conversation \ {e}) \cup {Element("result", e.of)}
    /\ dock' = "executing"
    /\ UNCHANGED <<backend, session, storage, shown, highlighted, synced, draft>>

(* The buttons of a confirmation card send its plan and its token; nothing *)
(* disables them while a request is on its way.                            *)
HandleConfirm(j) ==
    /\ open
    /\ \E e \in conversation :
          e.kind = "card" /\ BeginOnPage(j, "confirm", e.of, e.token, TRUE)
    /\ dock' = "executing"
    /\ UNCHANGED <<backend, session, storage, screen, synced, draft>>

HandleCancel(j) ==
    /\ open
    /\ \E e \in conversation :
          e.kind = "card" /\ BeginOnPage(j, "cancel", e.of, None, TRUE)
    /\ dock' = "executing"
    /\ UNCHANGED <<backend, session, storage, screen, synced, draft>>

Actionable(f) == shown[f] \in {"open", "edited"}

HandleSummaryAction(j) ==
    /\ open
    /\ \E f \in Facts : Actionable(f) /\ BeginOnPage(j, "direct", f, None, TRUE)
    /\ dock' = "executing"
    /\ UNCHANGED <<backend, session, storage, screen, synced, draft>>

OpenEditor ==
    /\ open /\ "edit" \in Kinds
    /\ \E f \in Facts : Actionable(f) /\ draft' = f
    /\ dock' = "idle"
    /\ UNCHANGED <<backend, session, storage, screen, synced, job>>

CloseEditor ==
    /\ open /\ draft # None
    /\ draft' = None
    /\ dock' = "idle"
    /\ UNCHANGED <<backend, session, storage, screen, synced, job>>

(* The panel stays open, with its save button, until the answer is back.   *)
HandleSubmitSummaryEdit(j) ==
    /\ open /\ draft # None
    /\ BeginOnPage(j, "edit", draft, None, TRUE)
    /\ dock' = "executing"
    /\ UNCHANGED <<backend, session, storage, screen, synced, draft>>

(* buildSummaryEditPayload throws on an empty or malformed field: nothing  *)
(* is sent.                                                                *)
RefuseForm ==
    /\ open /\ draft # None
    /\ dock' = "failed"
    /\ UNCHANGED <<backend, session, storage, screen, synced, draft, job>>

-----------------------------------------------------------------------------
(* The backend serves the request of a handler. A request whose page was   *)
(* closed is served all the same, and its answer reaches nobody.           *)
Requested(j, kind) == job[j].stage \in {"sent", "orphan"} /\ job[j].kind = kind
Reach(j, stage, of) ==
    IF job[j].stage = "sent"
    THEN job' = [job EXCEPT ![j].stage = stage, ![j].of = of]
    ELSE End(j)

ServeTurn(j) ==
    /\ Requested(j, "submit")
    /\ \E p \in {q \in Plans : plan[q] = "absent"} \cup {None} :
          /\ turns' = turns \cup {[by |-> j, plan |-> p]}
          /\ plan' = [q \in Plans |-> IF q = p THEN "awaiting_confirmation" ELSE plan[q]]
          /\ live' = IF p = None THEN live ELSE live \cup {<<p, Original>>}
          /\ Reach(j, "served", p)
    /\ UNCHANGED <<fact, files, decision, session, storage, screen, synced, dock, draft>>

ServeAttachment(j) ==
    /\ Requested(j, "attach")
    /\ files' = files \cup {j}
    /\ Reach(j, "served", job[j].of)
    /\ UNCHANGED <<plan, fact, turns, live, decision, session, storage, screen, synced, dock,
                   draft>>

(* confirm_plan up to its last check. A plan that succeeded is answered    *)
(* again.                                                                  *)
ServeConfirm(j) ==
    /\ Requested(j, "confirm")
    /\ LET p == job[j].of
           valid == <<p, job[j].token>> \in live
       IN  \/ /\ valid /\ plan[p] = "awaiting_confirmation"
              /\ decision' = [decision EXCEPT ![j] = LetIn(p, None, "allowed")]
              /\ Reach(j, "deciding", p)
           \/ /\ valid /\ plan[p] = "succeeded"
              /\ Reach(j, "served", p)
              /\ UNCHANGED decision
           \/ /\ ~ (valid /\ plan[p] \in {"awaiting_confirmation", "succeeded"})
              /\ Reach(j, "refused", p)
              /\ UNCHANGED decision
    /\ UNCHANGED <<plan, fact, turns, files, live, session, storage, screen, synced, dock, draft>>

(* reject_plan up to its save.                                             *)
ServeReject(j) ==
    /\ Requested(j, "cancel")
    /\ LET p == job[j].of
       IN  IF plan[p] = "awaiting_confirmation"
           THEN /\ decision' = [decision EXCEPT ![j] = LetIn(p, "rejected", "decided")]
                /\ Reach(j, "deciding", p)
           ELSE /\ Reach(j, "refused", p)
                /\ UNCHANGED decision
    /\ UNCHANGED <<plan, fact, turns, files, live, session, storage, screen, synced, dock, draft>>

(* The actions of a plan are executed. Creating what exists leaves it as   *)
(* it is, and a failure may be one after the fact was written.             *)
Execute(r) ==
    /\ decision[r].stage = "allowed"
    /\ LET made == Creates[decision[r].plan]
           written == [fact EXCEPT ![made] = IF @ = "absent" THEN "open" ELSE @]
       IN  \/ /\ decision' = [decision EXCEPT ![r].outcome = "succeeded", ![r].stage = "decided"]
              /\ fact' = written
           \/ /\ MayFail
              /\ decision' = [decision EXCEPT ![r].outcome = "failed", ![r].stage = "decided"]
              /\ fact' \in {fact, written}
    /\ UNCHANGED <<plan, turns, files, live, session, storage, screen, synced, dock, draft, job>>

(* save_plan, over whatever was saved since the plan was read, and the     *)
(* answer. A plan that failed to execute is answered as a result too.      *)
SaveDecision(r) ==
    /\ decision[r].stage = "decided"
    /\ plan' = [plan EXCEPT ![decision[r].plan] = decision[r].outcome]
    /\ decision' = [decision EXCEPT ![r].stage = "saved"]
    /\ job' = [j \in Jobs |-> IF j = r /\ job[j].stage = "deciding"
                              THEN [job[j] EXCEPT !.stage = "served"] ELSE job[j]]
    /\ UNCHANGED <<fact, turns, files, live, session, storage, screen, synced, dock, draft>>

(* The request dies in the backend before its plan is saved.               *)
LoseDecision(r) ==
    /\ MayFail
    /\ decision[r].stage \in {"allowed", "decided"}
    /\ decision' = [decision EXCEPT ![r].stage = "lost"]
    /\ job' = [j \in Jobs |-> IF j = r /\ job[j].stage = "deciding"
                              THEN [job[j] EXCEPT !.stage = "refused"] ELSE job[j]]
    /\ UNCHANGED <<plan, fact, turns, files, live, session, storage, screen, synced, dock, draft>>

(* Another client confirms or rejects a plan.                              *)
OtherClientAsks(r, p) ==
    /\ plan[p] = "awaiting_confirmation"
    /\ decision[r].stage = "none"
    /\ \/ decision' = [decision EXCEPT ![r] = LetIn(p, None, "allowed")]
       \/ decision' = [decision EXCEPT ![r] = LetIn(p, "rejected", "decided")]
    /\ UNCHANGED <<plan, fact, turns, files, live, session, storage, screen, synced, dock, draft,
                   job>>

ServeDirect(j) ==
    /\ Requested(j, "direct") \/ Requested(j, "edit")
    /\ IF fact[job[j].of] \in {"open", "edited"}
       THEN /\ fact' = [fact EXCEPT ![job[j].of] =
                           IF job[j].kind = "edit" THEN "edited" ELSE "closed"]
            /\ Reach(j, "served", job[j].of)
       ELSE /\ Reach(j, "refused", job[j].of)
            /\ UNCHANGED fact
    /\ UNCHANGED <<plan, turns, files, live, decision, session, storage, screen, synced, dock,
                   draft>>

(* fetch rejects: before the backend served the request, meanwhile, or     *)
(* after. The backend goes on with what it was let in to do.               *)
FailRequest(j) ==
    /\ MayFail
    /\ job[j].stage \in {"sent", "deciding", "served", "first"}
    /\ Move(j, "refused")
    /\ UNCHANGED <<backend, session, storage, screen, synced, dock, draft>>

ExpireTokens ==
    /\ MayFail
    /\ live' = {l \in live : l[2] = Original}
    /\ live' # live
    /\ UNCHANGED <<plan, fact, turns, files, decision, session, storage, screen, synced, dock, draft,
                   job>>

-----------------------------------------------------------------------------
(* The continuation of a handler whose request was answered. It starts the *)
(* refresh of the handler.                                                 *)
CacheToken(p) == storage' = [storage EXCEPT ![p] = Original]
ClearToken(p) == storage' = [storage EXCEPT ![p] = None]

SubmitAnswered(j) ==
    /\ job[j].kind = "submit" /\ job[j].stage = "served"
    /\ IF job[j].of = None
       THEN /\ conversation' = conversation \cup {Element("reply", j)}
            /\ UNCHANGED storage
       ELSE /\ conversation' = conversation \cup AskedWith(job[j].of, Original)
            /\ CacheToken(job[j].of)
    /\ Move(j, "first")
    /\ UNCHANGED <<backend, session, shown, highlighted, synced, dock, draft>>

AttachAnswered(j) ==
    /\ job[j].kind = "attach" /\ job[j].stage = "served"
    /\ conversation' = conversation \cup {Element("intake", j)}
    /\ Move(j, "first")
    /\ UNCHANGED <<backend, session, storage, shown, highlighted, synced, dock, draft>>

ConfirmAnswered(j) ==
    /\ job[j].kind = "confirm" /\ job[j].stage = "served"
    /\ ClearToken(job[j].of)
    /\ conversation' = (conversation \ CardsOf(job[j].of)) \cup {Element("result", job[j].of)}
    /\ Move(j, "first")
    /\ UNCHANGED <<backend, session, shown, highlighted, synced, dock, draft>>

CancelAnswered(j) ==
    /\ job[j].kind = "cancel" /\ job[j].stage = "served"
    /\ ClearToken(job[j].of)
    /\ Move(j, "first")
    /\ UNCHANGED <<backend, session, screen, synced, dock, draft>>

AnsweredForGood(j) == \* faulty: nothing is read again
    /\ job[j].kind \in {"direct", "edit"} /\ job[j].stage = "served"
    /\ draft' = IF job[j].kind = "edit" THEN None ELSE draft
    /\ End(j)
    /\ UNCHANGED <<backend, session, storage, screen, synced, dock>>

ActionAnswered(j) ==
    /\ job[j].kind \in {"direct", "edit"} /\ job[j].stage = "served"
    /\ draft' = IF job[j].kind = "edit" THEN None ELSE draft
    /\ Move(j, "first")
    /\ UNCHANGED <<backend, session, storage, screen, synced, dock>>

FailedAsCancelled(j) == \* faulty: a cancel that was refused is told as done
    /\ job[j].stage = "refused"
    /\ End(j)
    /\ dock' = "failed"
    /\ conversation' = IF job[j].kind = "cancel"
                       THEN conversation \cup {Element("cancelled", job[j].of)} ELSE conversation
    /\ UNCHANGED <<backend, session, storage, shown, highlighted, synced, draft>>

FailedSilently(j) == \* faulty: the catch leaves the dock as it is
    /\ job[j].stage = "refused"
    /\ End(j)
    /\ UNCHANGED <<backend, session, storage, screen, synced, dock, draft>>

(* The catch of a handler: the dock tells, and a text or an attachment     *)
(* that was not taken leaves a message. A bare refresh only warns.         *)
Failed(j) ==
    /\ job[j].stage = "refused"
    /\ End(j)
    /\ dock' = IF job[j].kind \in {"mount", "hostContext", "focus"} THEN dock ELSE "failed"
    /\ conversation' = IF job[j].kind \in {"submit", "attach"}
                       THEN conversation \cup {Element("error", j)} ELSE conversation
    /\ UNCHANGED <<backend, session, storage, shown, highlighted, synced, draft>>

-----------------------------------------------------------------------------
(* refreshBackendSnapshots: the reads of the first wave, any of which may  *)
(* fail the refresh (FailRequest).                                         *)
ReadSurface(j, s) ==
    /\ job[j].stage = "first"
    /\ s \in FirstWave \ job[j].got
    /\ LET got == job[j].got \cup {s}
       IN  job' = [job EXCEPT
             ![j].got = got,
             ![j].facts = [f \in Facts |-> IF f \in Listed(s) THEN fact[f] ELSE @[f]],
             ![j].stage = IF got = FirstWave THEN "second" ELSE "first"]
    /\ UNCHANGED <<backend, session, storage, screen, synced, dock, draft>>

(* The second wave. Reading the pending confirmations issues a recovery    *)
(* token for each plan that awaits one.                                    *)
ReadTurns(j) ==
    /\ job[j].stage = "second" /\ "turns" \notin job[j].got
    /\ job' = [job EXCEPT ![j].got = @ \cup {"turns"}, ![j].turns = turns]
    /\ UNCHANGED <<backend, session, storage, screen, synced, dock, draft>>

Awaiting == {p \in Plans : plan[p] = "awaiting_confirmation"}

ReadPending(j) ==
    /\ job[j].stage = "second" /\ "pending" \notin job[j].got
    /\ job' = [job EXCEPT ![j].got = @ \cup {"pending"}, ![j].pending = Awaiting]
    /\ live' = live \cup {<<p, j>> : p \in Awaiting}
    /\ UNCHANGED <<plan, fact, turns, files, decision, session, storage, screen, synced, dock,
                   draft>>

ReadFiles(j) ==
    /\ job[j].stage = "second" /\ "files" \in SecondWave \ job[j].got
    /\ job' = [job EXCEPT ![j].got = @ \cup {"files"}, ![j].files = files]
    /\ UNCHANGED <<backend, session, storage, screen, synced, dock, draft>>

(* withSnapshotFallback: a read of the second wave that fails is empty.    *)
FallBack(j, s) ==
    /\ MayFail
    /\ job[j].stage = "second" /\ s \in SecondWave \ job[j].got
    /\ job' = [job EXCEPT ![j].got = @ \cup {s}]
    /\ UNCHANGED <<backend, session, storage, screen, synced, dock, draft>>

(* A turn whose confirmation token is in localStorage is restored as its   *)
(* card, any other as plain text.                                          *)
HistoryOf(ts) ==
    {Element("history-user", t.by) : t \in ts} \cup
    UNION {IF t.plan # None /\ t.plan \in {p \in Plans : storage[p] # None}
           THEN AskedWith(t.plan, storage[t.plan])
           ELSE {Element("history-reply", t.by)} : t \in ts}

WithHistory(elements, history) ==
    IF history = {} THEN elements
    ELSE {e \in elements : /\ e.kind \notin HistoryKinds
                           /\ Id(e) \notin {Id(h) : h \in history}} \cup history

MergePending(elements, cards) == elements \cup cards \* faulty: no card is taken away

(* An empty list of pending plans takes every card away; a list takes the  *)
(* cards of its own plans away.                                            *)
WithPending(elements, cards) ==
    IF cards = {} THEN {e \in elements : e.kind # "card"}
    ELSE {e \in elements : e.kind = "card" => e.of \notin {c.of : c \in cards}} \cup cards

WithFiles(elements, attachments) ==
    {e \in elements : e.kind # "files"} \cup
    (IF attachments = {} THEN {} ELSE {Element("files", None)})

RestoresAlways(j) == job[j].history \* faulty: also after a submission

Restores(j) == job[j].history /\ ~ submitted

Refreshed(j) ==
    WithFiles(
        WithPending(
            WithHistory(conversation, IF Restores(j) THEN HistoryOf(job[j].turns) ELSE {}),
            {Card(p, j) : p \in job[j].pending}),
        job[j].files)

(* What the handler adds once its refresh is done.                         *)
Finished(j, elements) ==
    IF job[j].kind # "cancel" THEN elements
    ELSE {e \in elements : ~ (e.kind = "card" /\ e.of = job[j].of)}
            \cup {Element("cancelled", job[j].of)}

DockAfter(j) ==
    CASE job[j].kind \in {"mount", "hostContext", "focus"} -> dock
      [] job[j].kind = "submit" -> IF job[j].of = None THEN "idle" ELSE "confirming"
      [] job[j].kind = "cancel" -> "idle"
      [] OTHER -> "completed"

(* The lists posted to native: every event, and the scheduled reminders.   *)
Posted(values) ==
    [f \in Facts |-> IF SurfaceOf[f] = "expenses" THEN "absent"
                     ELSE IF SurfaceOf[f] = "reminders" /\ values[f] = "closed" THEN "absent"
                     ELSE values[f]]

ApplyRefresh(j) ==
    /\ job[j].stage = "second" /\ SecondWave \subseteq job[j].got
    /\ conversation' = Finished(j, Refreshed(j))
    /\ shown' = job[j].facts
    /\ highlighted' = job[j].focus
    /\ synced' = IF job[j].sync THEN Posted(job[j].facts) ELSE synced
    /\ dock' = DockAfter(j)
    /\ End(j)
    /\ UNCHANGED <<backend, session, storage, draft>>

(* The page goes: reload, or the web view's process is gone. Requests that *)
(* were sent are still on their way.                                       *)
Close ==
    /\ open
    /\ Reload = "any" \/ (Reload = "quiet" /\ InFlight = {})
    /\ open' = FALSE
    /\ platform' = None
    /\ submitted' = FALSE
    /\ focused' = None
    /\ storage' = IF Host = "browser" THEN storage ELSE [p \in Plans |-> None]
    /\ conversation' = {}
    /\ shown' = EmptySurfaces
    /\ highlighted' = None
    /\ dock' = "idle"
    /\ draft' = None
    /\ job' = [j \in Jobs |->
          IF job[j].stage = "sent" THEN [job[j] EXCEPT !.stage = "orphan"]
          ELSE IF j \in InFlight THEN [NoJob EXCEPT !.stage = "done"] ELSE job[j]]
    /\ UNCHANGED <<backend, synced>>

-----------------------------------------------------------------------------
Continue(j) ==
    \/ SubmitAnswered(j) \/ AttachAnswered(j) \/ ConfirmAnswered(j)
    \/ CancelAnswered(j) \/ ActionAnswered(j) \/ Failed(j)
    \/ \E s \in FirstWave : ReadSurface(j, s)
    \/ ReadTurns(j) \/ ReadPending(j) \/ ReadFiles(j)
    \/ ApplyRefresh(j)

Serve(j) ==
    \/ ServeTurn(j) \/ ServeAttachment(j) \/ ServeDirect(j)
    \/ ServeConfirm(j) \/ ServeReject(j) \/ Execute(j) \/ SaveDecision(j)

User(j) ==
    \/ Open(j) \/ HostContext(j) \/ \E f \in Facts : ViewChanged(j, f)
    \/ HandleSubmittedText(j) \/ HandleSubmittedAttachment(j)
    \/ HandleConfirm(j) \/ HandleCancel(j)
    \/ HandleSummaryAction(j) \/ HandleSubmitSummaryEdit(j)

Next ==
    \/ \E j \in Jobs :
          \/ User(j) \/ Serve(j) \/ Continue(j)
          \/ FailRequest(j) \/ LoseDecision(j) \/ \E s \in SecondWave : FallBack(j, s)
    \/ \E r \in Others :
          \/ Execute(r) \/ SaveDecision(r) \/ LoseDecision(r)
          \/ \E p \in Plans : OtherClientAsks(r, p)
    \/ OpenEditor \/ CloseEditor \/ RefuseForm
    \/ NativeStatus \/ NativeError
    \/ ExpireTokens
    \/ Close

Spec == Init /\ [][Next]_vars

(* The backend goes on with every request until an answer or an error      *)
(* comes back, and the event loop runs every continuation that is due.     *)
FairSpec == Spec /\ \A j \in Jobs : WF_vars(Serve(j)) /\ WF_vars(Continue(j))
==============================================================================
