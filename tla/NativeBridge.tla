---------------------------- MODULE NativeBridge -----------------------------
(***************************************************************************)
(* The bridge between the iOS shell and the H5 page. The shell has one     *)
(* slot for its next event (HybridShellView.bridgeEvent), which the web    *)
(* view's coordinator evaluates when SwiftUI updates the view; replies to  *)
(* messages of the page are evaluated directly. An evaluated script is a   *)
(* window event: the page handles it if it has subscribed (bridge.ts,      *)
(* subscribeNativeBridge), else nobody does. The page's dispatcher         *)
(* (components.tsx, the mount effect) tries its cases in one order.        *)
(***************************************************************************)
EXTENDS Naturals, Sequences, SequencesExt, BridgeMessages

CONSTANTS
    Contents,    \* the events the shell can put in its slot
    MaxEvents,   \* bound on the events it puts there
    MaxRequests, \* bound on the messages of the page
    Reloads      \* bound on the page's reloads

SyncSources == {"native.calendar.events.sync", "native.notifications.reminders.sync"}
InputRequests == {"input.keyboard.open", "input.voice.start", "input.voice.stop"}
Requests == InputRequests \cup {"h5.ready", "calendar.events.sync", "notifications.reminders.sync"}
Surfaces == {"conversation", "timeline", "calendar", "expenses", "reminders", "ledger", "settings"}

ASSUME ConstantsAssumption ==
    /\ \A m \in Contents : DOMAIN m = DOMAIN Message
    /\ MaxEvents \in Nat /\ MaxRequests \in Nat /\ Reloads \in Nat

VARIABLES
    sent,       \* the events put in the slot so far, in order
    slot,       \* the number of the event in the slot, 0 when there is none
    dispatched, \* lastDispatchedNativeEventID
    wire,       \* scripts evaluated and not yet run: <<number, message>>
    listening,  \* the page has subscribed
    posted,     \* messages of the page so far
    reloads,    \* reloads so far
    received,   \* numbers of the events the page took, in order
    jobs,       \* what the submissions started: [kind, of]
    surface,    \* activeSurface
    theme,
    focused,    \* focusedReminderId
    dock        \* executionStatus

shell == <<sent, slot, dispatched>>
page == <<jobs, surface, theme, focused, dock>>
vars == <<shell, wire, listening, posted, reloads, received, page>>

Init ==
    /\ sent = <<>> /\ slot = 0 /\ dispatched = 0
    /\ wire = <<>>
    /\ listening = FALSE
    /\ posted = 0 /\ reloads = 0
    /\ received = <<>>
    /\ jobs = {}
    /\ surface = "conversation"
    /\ theme = "dark"
    /\ focused = ""
    /\ dock = "idle"

-----------------------------------------------------------------------------
(* The shell: whatever it has to tell replaces what is in the slot.        *)
Put(m) ==
    /\ Len(sent) < MaxEvents
    /\ sent' = Append(sent, m)
    /\ slot' = Len(sent) + 1
    /\ UNCHANGED <<dispatched, wire, listening, posted, reloads, received, page>>

DispatchAlways == slot # 0 \* faulty: every update of the view evaluates the event again

(* dispatchNativeEvent's guard.                                            *)
IsNew == slot # 0 /\ slot # dispatched

UpdateView ==
    /\ IsNew
    /\ Len(wire) < MaxEvents + MaxRequests
    /\ dispatched' = slot
    /\ wire' = Append(wire, <<slot, sent[slot]>>)
    /\ UNCHANGED <<sent, slot, listening, posted, reloads, received, page>>

(* The navigation finished (didFinish): the host context once more.        *)
DidFinish ==
    /\ posted < MaxRequests
    /\ posted' = posted + 1
    /\ wire' = wire \o << <<0, HostContext>> >>
    /\ UNCHANGED <<shell, listening, reloads, received, page>>

-----------------------------------------------------------------------------
(* A message of the page (postNativeBridgeMessage); the shell acknowledges *)
(* it, h5.ready with the host context first. An input request shows as     *)
(* "understanding" until its acknowledgement is back.                      *)
Post(r) ==
    /\ listening \/ r = "h5.ready"
    /\ posted < MaxRequests
    /\ posted' = posted + 1
    /\ wire' = wire \o (IF r = "h5.ready" THEN << <<0, HostContext>>, <<0, AckOf(r)>> >>
                                         ELSE << <<0, AckOf(r)>> >>)
    /\ dock' = IF r \in InputRequests THEN "understanding" ELSE dock

BridgeAction ==
    /\ \E r \in Requests \ {"h5.ready"} : Post(r)
    /\ UNCHANGED <<shell, listening, reloads, received, jobs, surface, theme, focused>>

Mount ==
    /\ ~ listening
    /\ Post("h5.ready")
    /\ listening' = TRUE
    /\ UNCHANGED <<shell, reloads, received, jobs, surface, theme, focused>>

(* The page is loaded again: its state starts over, and the shell's        *)
(* coordinator does not.                                                   *)
ReloadPage ==
    /\ listening /\ reloads < Reloads
    /\ reloads' = reloads + 1
    /\ listening' = FALSE
    /\ surface' = "conversation" /\ theme' = "dark" /\ focused' = "" /\ dock' = "idle"
    /\ jobs' = {}
    /\ UNCHANGED <<shell, wire, posted, received>>

(* getSubmittedTextFromNativeMessage and its siblings: "" is undefined.    *)
SubmittedText(m) ==
    IF m.type = "native.inputSubmitted" /\ m.inputKind # "attachment" THEN m.text ELSE ""
SubmittedAttachment(m) ==
    IF m.type = "native.inputSubmitted" /\ m.inputKind = "attachment" THEN m.attachment ELSE ""
Theme(m) ==
    IF m.type = "native.themeChanged" /\ m.theme \in {"dark", "light"} THEN m.theme ELSE ""
Surface(m) ==
    IF m.type = "native.viewChanged" /\ m.view \in Surfaces THEN m.view ELSE ""

(* getNativeErrorExecutionStatus, getNativeAckExecutionStatus. A sync that *)
(* failed leaves the facts stored, so it does not show as a failure.       *)
ErrorStatus(m) == IF m.source \in SyncSources THEN "completed" ELSE "failed"
NoAckStatus(m) == "" \* faulty: an acknowledgement changes nothing
AckStatus(m) ==
    IF m.type = "native.ack" /\ m.received \in InputRequests THEN "completed" ELSE ""

Start(kind, of) == jobs' = jobs \cup {[kind |-> kind, of |-> of]}

(* The dispatcher: the first case that applies takes the message.          *)
Handle(m) ==
    CASE m.type = "native.hostContext" ->
            UNCHANGED page
      [] m.type = "native.error" ->
            /\ dock' = ErrorStatus(m)
            /\ UNCHANGED <<jobs, surface, theme, focused>>
      [] AckStatus(m) # "" ->
            /\ dock' = AckStatus(m)
            /\ UNCHANGED <<jobs, surface, theme, focused>>
      [] Theme(m) # "" ->
            /\ theme' = Theme(m)
            /\ UNCHANGED <<jobs, surface, focused, dock>>
      [] SubmittedAttachment(m) # "" ->
            /\ Start("attach", SubmittedAttachment(m))
            /\ surface' = "conversation" /\ dock' = "understanding"
            /\ UNCHANGED <<theme, focused>>
      [] SubmittedText(m) # "" ->
            /\ Start("submit", SubmittedText(m))
            /\ surface' = "conversation" /\ dock' = "understanding"
            /\ UNCHANGED <<theme, focused>>
      [] Surface(m) # "" ->
            /\ surface' = Surface(m)
            /\ focused' = IF m.reminder # "" THEN m.reminder ELSE focused
            /\ dock' = IF Surface(m) = "conversation" THEN "idle" ELSE "completed"
            /\ UNCHANGED <<jobs, theme>>
      [] OTHER -> UNCHANGED page

(* WebKit runs the next script.                                            *)
Run ==
    /\ wire # <<>>
    /\ wire' = Tail(wire)
    /\ IF listening
       THEN /\ Handle(Head(wire)[2])
            /\ received' = IF Head(wire)[1] = 0 THEN received
                           ELSE Append(received, Head(wire)[1])
       ELSE UNCHANGED <<received, page>>
    /\ UNCHANGED <<shell, listening, posted, reloads>>

(* The handler of a submission ends and settles the dock (Workbench).      *)
HandlerEnds ==
    /\ jobs # {}
    /\ \E j \in jobs : jobs' = jobs \ {j}
    /\ dock' \in {"idle", "confirming", "completed", "failed"}
    /\ UNCHANGED <<shell, wire, listening, posted, reloads, received, surface, theme, focused>>

Next ==
    \/ \E m \in Contents : Put(m)
    \/ UpdateView \/ DidFinish \/ BridgeAction \/ Mount \/ ReloadPage
    \/ Run \/ HandlerEnds

Spec == Init /\ [][Next]_vars

(* SwiftUI updates the view, the page mounts and WebKit runs its scripts.  *)
FairSpec ==
    Spec /\ WF_vars(UpdateView) /\ WF_vars(Mount) /\ WF_vars(Run) /\ WF_vars(HandlerEnds)

-----------------------------------------------------------------------------
(* H5WebView.swift dispatchNativeEvent: what the page takes is in the      *)
(* order the shell sent it and nothing twice: no text is submitted twice,  *)
(* no older theme or view overrides a newer one, a reload included.        *)
InOrderOnce == \A i, j \in DOMAIN received : i < j => received[i] < received[j]

(* 05-ai-workflow-collaboration.md:180: the acknowledgement of native      *)
(* settles the dock: it does not stay at "understanding".                  *)
DockSettles == (dock = "understanding") ~> (dock # "understanding")
==============================================================================
