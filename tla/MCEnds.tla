------------------------------- MODULE MCEnds -------------------------------
(***************************************************************************)
(* What was started ends, in five parts of the system, one at a time and   *)
(* chosen at the start: the confirmation of a plan by the backend, the     *)
(* handlers of the page and its dock, the dock of a page whose requests    *)
(* native answers, the seeding of an evidence run, and the scripts of the  *)
(* UI tests. Each part is as fair as its own module says and the others    *)
(* stay as they are. Of the backend and of the page even less is asked     *)
(* than PlanExecution and Workbench justify: that some step that is due is *)
(* taken, not each.                                                        *)
(***************************************************************************)
EXTENDS Naturals, TLC

CONSTANTS p1, p2, f1, f2, j1, j2, j3, make, cancel, edit, seed, r1, r2, Original, None

VARIABLES
    part,
    stored, actionStatus, confirmation, session, tokens, ledger, factIds, factStatus,
    directPlans, pc, kind, path, token, seenPlan, seenActions, seenConfirm, todo, applied,
    plan, fact, turns, files, live, decision, open, platform, submitted, focused, storage,
    conversation, shown, highlighted, synced, dock, draft, job,
    sent, slot, dispatched, scripts, listening, posted, reloads, received, jobs, surface, theme,
    focusedReminder, shellDock,
    input, call, attempt, phase, answer, chosen, wire, planStatus, results,
    run, test, stage, recorder, outcome, log, bundle, video, metadata, passed, proven, broken

execution == <<stored, actionStatus, confirmation, session, tokens, ledger, factIds, factStatus,
               directPlans, pc, kind, path, token, seenPlan, seenActions, seenConfirm, todo, applied>>
page == <<plan, fact, turns, files, live, decision, open, platform, submitted, focused, storage,
          conversation, shown, highlighted, synced, dock, draft, job>>
bridge == <<sent, slot, dispatched, scripts, listening, posted, reloads, received, jobs,
            surface, theme, focusedReminder, shellDock>>
seeding == <<input, call, attempt, phase, answer, chosen, wire, planStatus, results>>
uitest == <<run, test, stage, recorder, outcome, log, bundle, video, metadata, passed, proven,
            broken>>
vars == <<part, execution, page, bridge, seeding, uitest>>

Jobs == {j1, j2, j3}
Requests == {r1, r2}

(* The instance of MCPlanExecution, with two requests.                     *)
Execution == INSTANCE PlanExecution WITH
    Plans <- {p1, p2}, Actions <- {make, cancel, edit}, Seeds <- {seed},
    PlanOf <- make :> p1 @@ cancel :> p1 @@ edit :> p2,
    Effect <- make :> "create" @@ cancel :> "canceled" @@ edit :> "update",
    Target <- [a \in {make, cancel, edit} |-> seed],
    ClosedAs <- [f \in {make, cancel, edit, seed} |-> {"canceled", "done"}],
    Position <- make :> 1 @@ cancel :> 2 @@ edit :> 3,
    Fallible <- {make}, Kinds <- {"confirm", "reject", "recover", "direct"},
    MaxInFlight <- 2, MayLose <- TRUE,
    planStatus <- stored, live <- tokens, plan <- path

(* Overlapping handlers of a plan, and one handler at a time of a fact.    *)
Page == INSTANCE WorkbenchProperties WITH
    Plans <- {p1}, Facts <- {f1}, Creates <- p1 :> f1, SurfaceOf <- f1 :> "reminders",
    Kinds <- {"mount", "submit", "confirm", "cancel"}, MaxInFlight <- 2,
    MayFail <- TRUE, Reload <- "never", Others <- {}, Host <- "ios"

Editing == INSTANCE WorkbenchProperties WITH
    Plans <- {p1}, Facts <- {f1, f2}, Creates <- p1 :> f1,
    SurfaceOf <- (f1 :> "reminders") @@ (f2 :> "reminders"),
    Kinds <- {"mount", "direct", "edit"}, MaxInFlight <- 1,
    MayFail <- TRUE, Reload <- "never", Others <- {}, Host <- "ios"

M == INSTANCE BridgeMessages
Bridge == INSTANCE NativeBridge WITH
    Contents <- {M!TextOf("t1"), M!FileOf("a1"), M!TapOf("r1"),
                 M!ErrorOf("native.calendar.events.sync")},
    MaxEvents <- 2, MaxRequests <- 2, Reloads <- 1,
    wire <- scripts, focused <- focusedReminder, dock <- shellDock

Seeding == INSTANCE SeedRequests WITH Inputs <- 2, maxAttempts <- 2

UiTest == INSTANCE UiTestRunner WITH Tests <- {"keyboard", "notification"}, MaxRuns <- 2

-----------------------------------------------------------------------------
(* A step of one part leaves the others as they are.                       *)
Among(name, step, others) == part = name /\ step /\ UNCHANGED <<part, others>>

(* Handlers are alike: it is enough to look at the order in which their    *)
(* names are given here.                                                   *)
Used(j) == job'[j].stage # "unused"
InOrder == (Used(j2) => Used(j1)) /\ (Used(j3) => Used(j2))

OfExecution(step) == Among("execution", step, <<page, bridge, seeding, uitest>>)
OfPage(step) == Among("page", step, <<execution, bridge, seeding, uitest>>)
OfEditing(step) == Among("editing", step, <<execution, bridge, seeding, uitest>>)
OfBridge(step) == Among("bridge", step, <<execution, page, seeding, uitest>>)
OfSeeding(step) == Among("seeding", step, <<execution, page, bridge, uitest>>)
OfUiTest(step) == Among("uitest", step, <<execution, page, bridge, seeding>>)

Init ==
    /\ \/ part \in {"execution", "page", "bridge", "seeding", "uitest"} /\ Page!Init
       \/ part = "editing" /\ Editing!Init
    /\ Execution!Init /\ Bridge!Init /\ Seeding!SeedingInit
    /\ UiTest!Init /\ (part # "uitest" => test = "keyboard")

Next ==
    \/ OfExecution(Execution!Next)
    \/ OfPage(Page!Next /\ InOrder) \/ OfEditing(Editing!Next /\ InOrder)
    \/ OfBridge(Bridge!Next) \/ OfSeeding(Seeding!SeedingNext) \/ OfUiTest(UiTest!Next)

Fairness ==
    /\ WF_vars(OfExecution(\E r \in Requests : Execution!Step(r)))
    /\ WF_vars(OfPage(\E j \in Jobs : Page!Serve(j) \/ Page!Continue(j)))
    /\ WF_vars(OfEditing(\E j \in Jobs : Editing!Serve(j) \/ Editing!Continue(j)))
    /\ WF_vars(OfBridge(Bridge!UpdateView)) /\ WF_vars(OfBridge(Bridge!Mount))
    /\ WF_vars(OfBridge(Bridge!Run)) /\ WF_vars(OfBridge(Bridge!HandlerEnds))
    /\ WF_vars(OfSeeding(Seeding!Client)) /\ WF_vars(OfSeeding(Seeding!Connection))
    /\ WF_vars(OfUiTest(UiTest!Step))

Spec == Init /\ [][Next]_vars /\ Fairness

-----------------------------------------------------------------------------
(* A confirmation that was let in settles its plan, unless it is lost.     *)
ConfirmSettles == Execution!ConfirmSettles

(* Every handler of the page ends and its dock does not stay busy.         *)
PageSettles == Page!HandlersEnd /\ Page!DockSettles

(* What the page asked of native does not leave the dock at understanding. *)
BridgeSettles == Bridge!DockSettles

(* The seeding and the scripts of an evidence run end.                     *)
ScriptsEnd == (part = "seeding" => Seeding!SeedingEnds) /\ UiTest!ScriptsEnd
=============================================================================
