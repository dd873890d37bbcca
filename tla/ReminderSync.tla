---------------------------- MODULE ReminderSync ----------------------------
(***************************************************************************)
(* Local notifications: the workbench posts the scheduled reminders        *)
(* whenever it refreshes, and NativeReminderNotificationScheduler replaces *)
(* the pending notifications of the app by them, in callbacks of the       *)
(* notification center that nothing keeps from overlapping.  A refresh     *)
(* reads the reminders well before it posts them, and another may overtake *)
(* it; the user completes, cancels and moves reminders at any time.        *)
(*                                                                         *)
(* A list of reminders is a function to the ticks they are due at, 0 for   *)
(* those it does not hold; so are the pending requests, which are known by *)
(* the reminder: adding one replaces the one that was there.               *)
(***************************************************************************)
EXTENDS Naturals, Sequences, SequencesExt, FiniteSets

CONSTANTS Reminders, Times,
          MaxNow, MaxSyncs, MaxReads

ASSUME TimesAssumption == Times \subseteq Nat /\ 0 \notin Times

VARIABLES status, due, \* of each reminder at the backend
          now, running,
          reads,     \* the lists that refreshes have read and not posted
          syncs,     \* calls of sync() whose last callback has not run, in order
          last,      \* the newest payload, whether its sync has ended, whether it was alone
                     \* when it listed what was pending, and whether a sync failed since
          asked,     \* the reminders of all payloads so far
          mixed,     \* those the syncs on their way were not given alike (see Mix)
          pending, delivered, \* the notification center's
          seen,      \* what was ever pending
          diag       \* ai-code.native.systemDiagnostics, what concerns reminders

facts == <<status, due>>
center == <<pending, delivered, seen, diag>>
device == <<facts, now, running, reads, syncs, last, asked, mixed, center>>

Lists == [Reminders -> Times \cup {0}]
Nothing == [r \in Reminders |-> 0]
NoDiagnostics == [pending |-> {}, delivered |-> {}]

\* The reminders a list holds
In(list) == {r \in DOMAIN list : list[r] # 0}

InitDevice == /\ status = [r \in Reminders |-> "none"] /\ due \in [Reminders -> Times]
              /\ now = 0 /\ running = FALSE /\ reads = <<>> /\ syncs = <<>>
              /\ last = [payload |-> Nothing, ended |-> FALSE, alone |-> FALSE,
                         failed |-> FALSE]
              /\ asked = {} /\ mixed = {}
              /\ pending = Nothing /\ delivered = {} /\ seen = {}
              /\ diag = NoDiagnostics

\* A notification that falls due leaves the pending ones.  Shown while the app
\* is in front it is a banner and a sound only, and not kept in the list.
Tick == /\ now < MaxNow
        /\ now' = now + 1
        /\ LET rings == {r \in In(pending) : pending[r] =< now + 1}
           IN  /\ pending' = [r \in Reminders |-> IF r \in rings THEN 0 ELSE pending[r]]
               /\ delivered' = IF running THEN delivered ELSE delivered \cup rings
        /\ UNCHANGED <<facts, running, reads, syncs, last, asked, mixed, seen, diag>>

AddReminder(r) == /\ status[r] = "none"
                  /\ status' = [status EXCEPT ![r] = "scheduled"]
                  /\ UNCHANGED <<due, now, running, reads, syncs, last, asked, mixed, center>>

\* The user completes or cancels a reminder, ...
EndReminder(r) == /\ status[r] = "scheduled"
                  /\ status' = [status EXCEPT ![r] = "ended"]
                  /\ UNCHANGED <<due, now, running, reads, syncs, last, asked, mixed, center>>

\* ... or edits when it is due (updateReminder).
MoveReminder(r, at) == /\ status[r] = "scheduled"
                       /\ due' = [due EXCEPT ![r] = at]
                       /\ UNCHANGED <<status, now, running, reads, syncs, last, asked, mixed,
                                      center>>

\* refreshBackendSnapshots: the reminders as they are ...
ReadReminders ==
  /\ running /\ Len(reads) < MaxReads
  /\ reads' = Append(reads, [r \in Reminders |->
                               IF status[r] = "scheduled" THEN due[r] ELSE 0])
  /\ UNCHANGED <<facts, now, running, syncs, last, asked, mixed, center>>

\* Reminders of which a payload disagrees with a sync on its way, or which it
\* does not hold though native was asked for them before
Mix(payload) ==
  {r \in Reminders : \/ payload[r] = 0 /\ r \in asked
                     \/ \E k \in DOMAIN syncs : syncs[k].payload[r] \notin {0, payload[r]}}

\* ... and, after further requests, syncNativeReminderNotifications: whichever
\* refresh comes first.
PostReminders(i) ==
  /\ i \in DOMAIN reads /\ Len(syncs) < MaxSyncs
  /\ reads' = RemoveAt(reads, i)
  /\ LET payload == reads[i]
     IN  /\ syncs' = Append([k \in DOMAIN syncs |-> [syncs[k] EXCEPT !.newest = FALSE]],
                            [payload |-> payload, stage |-> "posted", listed |-> {},
                             newest |-> TRUE])
         /\ last' = [payload |-> payload, ended |-> FALSE, alone |-> FALSE, failed |-> FALSE]
         /\ asked' = asked \cup In(payload)
         /\ mixed' = Mix(payload) \cup IF syncs = <<>> THEN {} ELSE mixed
  /\ UNCHANGED <<facts, now, running, center>>

Stage(k, from) == k \in DOMAIN syncs /\ syncs[k].stage = from
Move(k, to) == syncs' = [syncs EXCEPT ![k].stage = to]

\* getPendingNotificationRequests: the center answers one after the other
ListPending(k) ==
  /\ Stage(k, "posted") /\ \A j \in 1 .. (k - 1) : syncs[j].stage # "posted"
  /\ syncs' = [syncs EXCEPT ![k].stage = "listed", ![k].listed = In(pending)]
  /\ last' = [last EXCEPT !.alone = syncs[k].newest /\ k = 1]
  /\ UNCHANGED <<facts, now, running, reads, asked, mixed, center>>

\* faulty: what is pending stays, the new ones are added to it
KeepListed(k) ==
  /\ Stage(k, "listed") /\ Move(k, "cleared")
  /\ UNCHANGED <<facts, now, running, reads, last, asked, mixed, center>>

\* removePendingNotificationRequests of what was listed, by its identifiers
RemoveListed(k) ==
  /\ Stage(k, "listed") /\ Move(k, "cleared")
  /\ pending' = [r \in Reminders |-> IF r \in syncs[k].listed THEN 0 ELSE pending[r]]
  /\ UNCHANGED <<facts, now, running, reads, last, asked, mixed, delivered, seen, diag>>

\* The requests of a payload that are still to come, or some of them
Future(list) == {r \in In(list) : list[r] > now}
Add(list, which) ==
  /\ pending' = [r \in Reminders |-> IF r \in which THEN list[r] ELSE pending[r]]
  /\ seen' = seen \cup which

\* faulty: a reminder that was pending already is not added again
AddMissing(k) ==
  /\ Stage(k, "cleared") /\ Move(k, "added")
  /\ Add(syncs[k].payload, Future(syncs[k].payload) \ syncs[k].listed)
  /\ UNCHANGED <<facts, now, running, reads, last, asked, mixed, delivered, diag>>

\* schedule: what two of them add may alternate, but for each reminder one is
\* the later
AddRequests(k) ==
  /\ Stage(k, "cleared") /\ Move(k, "added")
  /\ Add(syncs[k].payload, Future(syncs[k].payload))
  /\ UNCHANGED <<facts, now, running, reads, last, asked, mixed, delivered, diag>>

\* snapshotDiagnostics, then recordNativeSystemDiagnostics
Report(k) ==
  /\ Stage(k, "added")
  /\ syncs' = RemoveAt(syncs, k)
  /\ last' = [last EXCEPT !.ended = @ \/ syncs[k].newest]
  /\ diag' = [pending |-> In(pending), delivered |-> delivered]
  /\ UNCHANGED <<facts, now, running, reads, asked, mixed, pending, delivered, seen>>

\* requestAuthorization answers no, or one of the requests cannot be added.
Refused(k) ==
  /\ Stage(k, "cleared")
  /\ \E added \in SUBSET Future(syncs[k].payload) :
       /\ added # Future(syncs[k].payload) \/ added = {}
       /\ Add(syncs[k].payload, added)
  /\ syncs' = RemoveAt(syncs, k)
  /\ diag' = [pending |-> In(pending'), delivered |-> delivered]
  /\ last' = [last EXCEPT !.failed = TRUE]
  /\ UNCHANGED <<facts, now, running, reads, asked, mixed, delivered>>

Callback == \E k \in DOMAIN syncs :
  ListPending(k) \/ RemoveListed(k) \/ AddRequests(k) \/ Report(k) \/ Refused(k)

DeviceStep == \/ Tick \/ ReadReminders \/ Callback
              \/ \E i \in DOMAIN reads : PostReminders(i)

\* The end of the process takes the page and the callbacks with it.
Interrupt == /\ reads' = <<>> /\ syncs' = <<>>
             /\ last' = [last EXCEPT !.failed = @ \/ syncs # <<>>]
Stop == running' = FALSE /\ Interrupt
Launch == running' = TRUE /\ Interrupt

\* The device in the hands of a user
StopOrLaunch == /\ Stop \/ Launch
                /\ UNCHANGED <<facts, now, asked, mixed, center>>
Use == \/ \E r \in Reminders : \/ AddReminder(r) \/ EndReminder(r)
                               \/ \E at \in Times : MoveReminder(r, at)
       \/ StopOrLaunch
       \/ DeviceStep

DeviceSpec == InitDevice /\ [][Use]_device

-----------------------------------------------------------------------------
Quiet == syncs = <<>> /\ last.ended /\ ~last.failed

\* When the newest sync has succeeded, whatever else ran meanwhile, every
\* reminder of its list that is still to come has its notification, for the
\* time that list says (schedule) - unless a sync that was on its way with it
\* had been given another time for that reminder, or an older list without it:
\* then the callbacks that come last win.
NothingLost ==
  Quiet => \A r \in Future(last.payload) \ mixed : pending[r] = last.payload[r]

\* ... and no other reminder has one, nor for another time, when no other sync
\* was on its way as the newest began: a reminder that was completed or canceled
\* does not ring, and one that was moved only when it should
\* (removePendingNotificationRequests).
NoGhost ==
  Quiet /\ last.alone => \A r \in In(pending) : pending[r] = last.payload[r]
=============================================================================
