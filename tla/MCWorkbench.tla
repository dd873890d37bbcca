----------------------------- MODULE MCWorkbench -----------------------------
(***************************************************************************)
(* The page on small instances, one scenario at a time, chosen at the      *)
(* start: its handlers racing each other, on a page closed at any time;    *)
(* the same with a request of another client; its lists alone; its edit    *)
(* panel alone, with a reminder of two offsets. What a scenario does not   *)
(* use stays as it is. (One handler at a time is what MCQuietPage is for.) *)
(***************************************************************************)
EXTENDS WorkbenchProperties, FactLists, FactEditing, TLC

CONSTANTS p1, f1, j1, j2, j3, j4, o1, e1, e2, e3, east, west, nz

VARIABLE scenario

Four == {j1, j2, j3, j4}
OneCreates == p1 :> f1
OneReminder == f1 :> "reminders"

(* West changes its offset in the middle of the day, as a zone does when   *)
(* its summer time begins. The name NZ ends in Z and reads as the offset   *)
(* of UTC.                                                                 *)
ThreeZones == (east :> [c \in Clocks |-> 8]) @@
              (west :> [c \in Clocks |-> IF c < 10 THEN -5 ELSE -4]) @@
              (nz :> [c \in Clocks |-> 12])
SomeOffsets == {8, 9, -5, -4, 12, 0}
OffsetTexts == ("+09:00" :> 9) @@ (nz :> 0)

ASSUME ConstantsAssumption ==
    /\ ConstantsOk /\ ListConstants /\ EditingConstants

(* Ids are alike: it is enough to give them out in this order.             *)
Given(id) == \E d \in Domains : Has(facts'[d], id)
IdsInOrder == (Given(e2) => Given(e1)) /\ (Given(e3) => Given(e2))

PageInit ==
    /\ scenario \in {"race", "shared", "lists", "editing"}
    /\ Init
    /\ ListsInit
    /\ EditingInit
    /\ scenario # "editing" =>
          /\ reminder = [clock |-> 9, seconds |-> 0, offset |-> 8]
          /\ event = [start |-> reminder, end |-> [reminder EXCEPT !.clock = 10], tz |-> east]
    /\ scenario = "editing" => reminder.seconds = 30 /\ reminder.offset \in {8, -5}

(* Handlers are alike: it is enough to look at the order in which their    *)
(* names are given here.                                                   *)
Used(j) == job'[j].stage # "unused"
HandlersInOrder ==
    /\ Used(j2) => Used(j1)
    /\ Used(j3) => Used(j2)
    /\ Used(j4) => Used(j3)

Sound == INSTANCE Workbench WITH MayFail <- FALSE, Reload <- "never"

(* Four handlers that may fail, on a page that may be closed; or on a page *)
(* that stays, with a request of another client, none of which fails.      *)
Race ==
    /\ \/ scenario = "race" /\ Next /\ decision'[o1] = NoDecision
       \/ scenario = "shared" /\ Sound!Next
    /\ HandlersInOrder

PageNext ==
    /\ UNCHANGED scenario
    /\ \/ Race /\ UNCHANGED <<listVars, editor>>
       \/ scenario = "lists" /\ ListsNext /\ IdsInOrder /\ UNCHANGED <<vars, editor>>
       \/ scenario = "editing" /\ EditingNext /\ UNCHANGED <<vars, listVars>>

PageSpec == PageInit /\ [][PageNext]_<<scenario, vars, listVars, editor>>
==============================================================================
