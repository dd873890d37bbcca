------------------------ MODULE NotificationEvidence ------------------------
(***************************************************************************)
(* collect-ios-acceptance-evidence.mjs on local notifications: it creates  *)
(* a reminder, starts the app until the diagnostics show its notification  *)
(* pending and opens it in a page of its own; then another, for which it   *)
(* closes the app, waits until it is due and looks for it delivered.       *)
(***************************************************************************)
EXTENDS ReminderSync

CONSTANTS Clicked, Delivered,   \* the two reminders a run creates
          MaxPending, MaxPolls  \* 3 and 8 refreshes; 8 polls

VARIABLES pc, attempt, found, backflow, delivery

collector == <<pc, attempt, found, backflow, delivery>>
notificationVars == <<device, collector>>

Own == {Clicked, Delivered}

ASSUME OwnAssumption == Own \subseteq Reminders /\ Clicked # Delivered

CollectorInit ==
  /\ pc = "seedClicked" /\ attempt = 0 /\ found = FALSE
  /\ backflow = FALSE
  /\ delivery = [available |-> FALSE, pendingSeen |-> FALSE, dueAt |-> 0]

NotificationInit == InitDevice /\ CollectorInit

Goto(label) == pc' = label

\* seedSingleReminder: the turn and its confirmation; without a reminder the
\* part is skipped, a request that fails for good ends the run.
SeedReminder(r, at, created, skipped) ==
  /\ pc = at
  /\ \/ status' = [status EXCEPT ![r] = "scheduled"] /\ Goto(created)
     \/ status' = status /\ pc' \in {skipped, "died"}
  /\ attempt' = 0 /\ found' = FALSE
  /\ UNCHANGED <<due, now, running, reads, syncs, last, asked, mixed, center, backflow>>

\* refreshNativeSystemDiagnostics: terminate, launch and a fixed wait ...
Refresh(at, to) ==
  /\ pc = at /\ Goto(to) /\ Launch
  /\ UNCHANGED <<facts, now, asked, mixed, center, attempt, found, backflow, delivery>>

Reads == {NoDiagnostics, diag}

\* ... and a look at what the app has recorded by then
LookForPending(r, at, again, next, max) ==
  /\ pc = at
  /\ \E d \in Reads : found' = (r \in d.pending)
  /\ attempt' = attempt + 1
  /\ Goto(IF ~found' /\ attempt < max THEN again ELSE next)
  /\ UNCHANGED <<device, backflow, delivery>>

SeedClicked == /\ SeedReminder(Clicked, "seedClicked", "refreshClicked", "seedDelivered")
               /\ UNCHANGED delivery
RefreshClicked == Refresh("refreshClicked", "readClicked")
ReadClicked == LookForPending(Clicked, "readClicked", "refreshClicked", "openClicked", MaxPending)

\* faulty: the page that opens is the whole of the evidence
BackflowByPage(opened, wasFound) == opened

\* seedNotificationClickBackflow: available
BackflowAvailable(opened, wasFound) == opened /\ wasFound

\* collectNotificationClickBackflowScreenshot, in a browser of its own
OpenClicked ==
  /\ pc = "openClicked" /\ Goto("seedDelivered")
  /\ \E opened \in BOOLEAN : backflow' = BackflowAvailable(opened, found)
  /\ UNCHANGED <<device, attempt, found, delivery>>

\* Its time of delivery is waited for, wherever the user may move it.
SeedDelivered == /\ SeedReminder(Delivered, "seedDelivered", "refreshDelivered", "done")
                 /\ delivery' = [delivery EXCEPT !.dueAt = due[Delivered]]
RefreshDelivered == Refresh("refreshDelivered", "readDelivered")
ReadDelivered ==
  LookForPending(Delivered, "readDelivered", "refreshDelivered", "terminate", MaxPending)

\* terminateBeforeDeliveryWait: the app would keep the banner to itself
TerminateApp ==
  /\ pc = "terminate" /\ Goto("wait") /\ Stop
  /\ delivery' = [delivery EXCEPT !.pendingSeen = found]
  /\ attempt' = 0 /\ found' = FALSE
  /\ UNCHANGED <<facts, now, asked, mixed, center, backflow>>

\* millisecondsUntilNotificationDelivery: the due time and 15 seconds
LaunchWhenDue ==
  /\ pc = "wait" /\ now >= delivery.dueAt
  /\ Goto("poll") /\ Launch
  /\ UNCHANGED <<facts, now, asked, mixed, center, attempt, found, backflow, delivery>>

\* faulty: once it was pending it is taken to be delivered
DeliveredByPending(pendingSeen, wasDelivered, commandsOk) == pendingSeen /\ commandsOk

\* seedNotificationDelivery: available
DeliveryAvailable(pendingSeen, wasDelivered, commandsOk) ==
  pendingSeen /\ wasDelivered /\ commandsOk

\* Polls without another start of the app
PollDelivered ==
  /\ pc = "poll"
  /\ \E d \in Reads : found' = (Delivered \in d.delivered)
  /\ attempt' = attempt + 1
  /\ IF ~found' /\ attempt < MaxPolls
     THEN delivery' = delivery /\ Goto("poll")
     ELSE /\ \E ok \in BOOLEAN :
               delivery' = [delivery EXCEPT !.available =
                              DeliveryAvailable(delivery.pendingSeen, found', ok)]
          /\ Goto("done")
  /\ UNCHANGED <<device, backflow>>

Collect == \/ SeedClicked \/ RefreshClicked \/ ReadClicked \/ OpenClicked
           \/ SeedDelivered \/ RefreshDelivered \/ ReadDelivered
           \/ TerminateApp \/ LaunchWhenDue \/ PollDelivered

\* The user has reminders of his own, and may end or move any.
Others == \E r \in Reminders : \/ EndReminder(r) \/ \E at \in Times : MoveReminder(r, at)
                               \/ r \notin Own /\ AddReminder(r)

NotificationNext == \/ Collect
                    \/ DeviceStep /\ UNCHANGED collector
                    \/ Others /\ UNCHANGED collector

NotificationSpec == NotificationInit /\ [][NotificationNext]_notificationVars

\* notificationClickBackflow.available: its notification has been pending.
BackflowProvesPending == backflow => Clicked \in seen

\* notificationDelivery.available: the notification of the run's own reminder
\* is in the notification center, and was handed over by a pending one.
DeliveryProvesDelivered ==
  delivery.available => Delivered \in delivered /\ Delivered \in seen

\* What a run records of notifications is so, however slow the app is to read,
\* to sync and to record, and whatever the user does meanwhile.
EvidenceIsTrue == BackflowProvesPending /\ DeliveryProvesDelivered
=============================================================================
