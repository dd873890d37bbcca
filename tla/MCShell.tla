------------------------------- MODULE MCShell -------------------------------
(***************************************************************************)
(* The iOS shell on small instances, one part at a time and chosen at the  *)
(* start: the events of the bridge; up to three syncs that overlap, of a   *)
(* reminder that is moved and read by refreshes that overtake each other;  *)
(* two syncs of several reminders; and the evidence of notifications that  *)
(* the collector gathers.                                                  *)
(* (The page in the shell is a part of MCQuietPage.)                       *)
(***************************************************************************)
EXTENDS NativeBridge, NotificationEvidence, TLC

CONSTANTS r1, r2, own

VARIABLE part

(* A file the shell could not name arrives without an id.                  *)
Nameless == [FileOf("") EXCEPT !.text = "t2"]
RunContents == {TextOf("t1"), FileOf("a1"), Nameless, TapOf("r1"), ThemeOf("light"),
                ErrorOf("native.calendar.events.sync")}

Two == {r1, r2}
Three == {Clicked, Delivered, own}

Moved == INSTANCE ReminderSync WITH
           Reminders <- {r1}, Times <- {1, 2}, MaxNow <- 1, MaxSyncs <- 3, MaxReads <- 2
Several == INSTANCE ReminderSync WITH
            Reminders <- Two, Times <- {1}, MaxNow <- 1, MaxSyncs <- 2, MaxReads <- 1

ShellInit ==
    /\ part \in {"bridge", "moved", "several", "evidence"}
    /\ Init
    /\ \/ part = "moved" /\ Moved!InitDevice
       \/ part = "several" /\ Several!InitDevice
       \/ part \notin {"moved", "several"} /\ InitDevice
    /\ CollectorInit

ShellNext ==
    /\ UNCHANGED part
    /\ \/ part = "bridge" /\ Next /\ UNCHANGED notificationVars
       \/ part = "moved" /\ Moved!Use /\ UNCHANGED <<vars, collector>>
       \/ part = "several" /\ Several!Use /\ UNCHANGED <<vars, collector>>
       \/ part = "evidence" /\ NotificationNext /\ UNCHANGED vars

ShellSpec == ShellInit /\ [][ShellNext]_<<part, vars, notificationVars>>
=============================================================================
