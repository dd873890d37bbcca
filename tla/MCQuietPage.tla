----------------------------- MODULE MCQuietPage -----------------------------
(***************************************************************************)
(* The page on a small instance, one handler at a time and every handler   *)
(* there is, loaded again between any two turns: in the iOS shell, and in  *)
(* a browser.                                                              *)
(***************************************************************************)
EXTENDS WorkbenchProperties, TLC

CONSTANTS p1, p2, f1, f2, f3, j1, j2, j3, j4, j5

VARIABLE part

Each == (p1 :> f1) @@ (p2 :> f2)
Surface == (f1 :> "reminders") @@ (f2 :> "reminders") @@ (f3 :> "calendar")

InBrowser == INSTANCE Workbench WITH Host <- "browser"

ASSUME PageAssumption ==
    /\ ConstantsOk /\ InBrowser!ConstantsOk
    /\ OneAtATime

(* Handlers are alike and start one at a time: it is enough to look at the *)
(* order in which their names are given here.                              *)
Used(j) == job'[j].stage # "unused"
InOrder ==
    /\ Used(j2) => Used(j1)
    /\ Used(j3) => Used(j2)
    /\ Used(j4) => Used(j3)
    /\ Used(j5) => Used(j4)

QuietInit ==
    /\ part \in {"shell", "browser"}
    /\ Init

QuietNext ==
    /\ UNCHANGED part
    /\ \/ part = "shell" /\ Next
       \/ part = "browser" /\ InBrowser!Next
    /\ InOrder

QuietSpec == QuietInit /\ [][QuietNext]_<<part, vars>>
==============================================================================
