------------------------- MODULE WorkbenchProperties -------------------------
(* What the workbench owes its user: invariants, the abstract              *)
(* specification it implements, and liveness.                              *)
EXTENDS Workbench

-----------------------------------------------------------------------------
Told(kind, p) == Element(kind, p) \in conversation

(* The requests that were let in to decide a plan, each way.               *)
AskedOf(p) == {r \in Requests : decision[r].plan = p}
Rejections(p) == {r \in AskedOf(p) : decision[r].outcome = "rejected"}
Executions(p) == AskedOf(p) \ Rejections(p)
Saved(r) == decision[r].stage = "saved"

(* components.tsx handleCancel and handleConfirm: while "cancelled, nothing *)
(* was written" stands in the conversation a rejection of the plan was     *)
(* saved, and if the backend let no confirmation in besides it the plan is *)
(* rejected and its fact does not exist; while its result stands there the *)
(* plan was executed, and that is what is saved if no rejection was let in *)
(* besides. However the answers and the refreshes of the handlers overlap, *)
(* a card the user can no longer use never turns one into the other.       *)
(* (executor.py lets a confirmation and a rejection that overlap both      *)
(* decide; then each is told what it did and the later save stays.)        *)
ToldTheTruth ==
    \A p \in Plans :
        /\ Told("cancelled", p) =>
              /\ \E r \in Rejections(p) : Saved(r)
              /\ Executions(p) = {} => plan[p] = "rejected" /\ fact[Creates[p]] = "absent"
        /\ Told("result", p) =>
              /\ \E r \in Executions(p) : Saved(r)
              /\ Rejections(p) = {} => plan[p] \in {"succeeded", "failed"}

(* components.tsx hasSubmittedInSessionRef: a turn typed on this page is   *)
(* not put on the screen a second time out of the conversation's history,  *)
(* although a refresh that began before it was typed may end after it.     *)
NoTurnTwice ==
    \A j \in Jobs :
        ~ {Element("user", j), Element("history-user", j)} \subseteq conversation

(* The page is quiet when every handler that was started has ended, the    *)
(* first refresh included.                                                 *)
Quiet ==
    /\ open /\ InFlight = {}
    /\ \E j \in Jobs : job[j].stage = "done"

(* A user who waits for each answer, requests that do not fail, and a page *)
(* that is closed only when it is quiet: what the next three are about.    *)
OneAtATime ==
    /\ MaxInFlight = 1 /\ MayFail = FALSE /\ Others = {}
    /\ Reload \in {"never", "quiet"}

(* refreshBackendSnapshots, one handler at a time and no failure: whenever *)
(* the page is quiet it offers exactly the plans that await a              *)
(* confirmation, each once and with a token the backend accepts.           *)
OffersWhatAwaits ==
    Quiet => /\ {e.of : e \in {c \in conversation : c.kind = "card"}} = Awaiting
             /\ \A p \in Awaiting :
                   \E t \in Tokens : CardsOf(p) = {Card(p, t)} /\ <<p, t>> \in live

(* Same: the lists of a quiet page show the facts as they are, after every *)
(* way in which its handlers may have ended.  (What native was given is    *)
(* NativeFollows.)                                                         *)
ShowsTheFacts ==
    Quiet => shown = fact

(* components.tsx refreshBackendSnapshots: on iOS the lists native keeps   *)
(* are those of the facts from the first handler the page itself starts    *)
(* on; what a bridge message starts must not leave them behind.            *)
NativeFollows ==
    Quiet /\ platform = "ios" /\ synced # EmptySurfaces => synced = Posted(fact)

-----------------------------------------------------------------------------
(* What became of a plan, and what the page says became of it.             *)
OutcomeNow ==
    [p \in Plans |->
        CASE plan[p] \in {"absent", "awaiting_confirmation"} -> "open"
          [] plan[p] \in {"succeeded", "failed"} -> "executed"
          [] OTHER -> "rejected"]
Wanted(r) == IF decision[r].outcome = "rejected" THEN "rejected" ELSE "executed"
AdmittedNow == [p \in Plans |-> {<<r, Wanted(r)>> : r \in {q \in AskedOf(p) : ~ Saved(q)}}]
TakenNow == [p \in Plans |-> {Wanted(r) : r \in {q \in AskedOf(p) : Saved(q)}}]
ToldNow ==
    [p \in Plans |->
        (IF Told("result", p) THEN {"executed"} ELSE {}) \cup
        (IF Told("cancelled", p) THEN {"rejected"} ELSE {})]

Outcomes == INSTANCE Outcome WITH
    outcome <- OutcomeNow, admitted <- AdmittedNow, taken <- TakenNow, told <- ToldNow

(* The workbench and its backend implement Outcome: a plan is decided only *)
(* by requests that were let in while it was open, each once, and only a   *)
(* decision that was saved is ever told.                                   *)
TellsOutcomes == Outcomes!Spec

(* 05-ai-workflow-collaboration.md: every handler ends, and the dock does  *)
(* not stay at "understanding" or "executing".                             *)
HandlersEnd == \A j \in Jobs : (job[j].stage \in Suspended) ~> (job[j].stage \notin Suspended)
DockSettles == (dock \in Busy) ~> (dock \notin Busy)
==============================================================================
