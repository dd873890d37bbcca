--------------------------- MODULE SystemCalendar ---------------------------
(***************************************************************************)
(* The iOS shell's side of the system calendar: a started app loads the    *)
(* workbench, which reads the conversation's events and posts them, and    *)
(* NativeCalendarEventSyncer writes them into the calendar of the system.  *)
(* The simulator keeps the calendar and the permission, the app keeps its  *)
(* identifiers and its diagnostics in the user defaults.                   *)
(***************************************************************************)
EXTENDS Naturals, FiniteSets

CONSTANTS Events

VARIABLES fact,     \* event -> its status at the backend, "none" before it exists
          app,      \* the process: what it has read and is about to write
          auth,     \* the calendar permission of the app
          calendar, \* event -> entries in the system calendar that bear its marker
          ids,      \* events whose system identifier is stored
          diag,     \* ai-code.native.systemDiagnostics, what concerns the calendar
          refused   \* a sync of this app was refused

shell == <<fact, app, auth, calendar, ids, diag, refused>>

NoDiagnostics == [auth |-> "unknown", stored |-> {}, removed |-> {},
                  failed |-> FALSE, error |-> "none"]
Stopped == [stage |-> "stopped", payload |-> {}]
Loading == [stage |-> "loading", payload |-> {}]

InitShell == /\ fact = [e \in Events |-> "none"]
             /\ app = Stopped /\ auth \in {"notDetermined", "granted", "denied"}
             /\ calendar = [e \in Events |-> 0] /\ ids = {}
             /\ diag = NoDiagnostics /\ refused = FALSE

Known == {e \in Events : fact[e] # "none"}

\* The workbench reads the events and posts calendar.events.sync with all of them.
ReadFacts ==
  /\ app.stage = "loading"
  /\ app' = [stage |-> "posted", payload |-> {<<e, fact[e]>> : e \in Known}]
  /\ UNCHANGED <<fact, auth, calendar, ids, diag, refused>>

\* recordNativeSystemDiagnostics merges what a sync reports into what is there;
\* diagnosticsSnapshot has the permission, the identifiers and the removals of
\* the last successful sync of this process.  The status is only ever "failed".
Reported(removed) == [diag EXCEPT !.auth = auth, !.stored = ids', !.removed = removed]

\* requestAccess answers no.  The system may still call the permission granted.
SyncRefused ==
  /\ app.stage = "posted" /\ auth = "denied"
  /\ app' = [app EXCEPT !.stage = "idle"]
  /\ refused' = TRUE
  /\ UNCHANGED <<fact, auth, calendar, ids>>
  /\ \E label \in {"denied", "granted"} :
       diag' = [Reported({}) EXCEPT !.auth = label, !.failed = TRUE, !.error = "permission"]

\* faulty: what has no stored identifier is taken to be absent
RemoveStored(cal, removed) ==
  [e \in Events |-> IF e \in removed \cap ids THEN 0 ELSE cal[e]]

\* removeExistingEvent: by the stored identifier, then whatever bears the marker
RemoveExisting(cal, removed) ==
  [e \in Events |-> IF e \in removed THEN 0 ELSE cal[e]]

\* What syncWithAccess leaves when it has treated the events of done: canceled
\* ones are removed, scheduled ones removed and written anew; lost are those
\* that were removed and could not be written.
Scheduled(payload) == {x[1] : x \in {y \in payload : y[2] = "scheduled"}}

Write(done, lost) ==
  LET treated == {x[1] : x \in done}
      written == Scheduled(done)
      cleared == RemoveExisting(calendar, treated \cup lost)
  IN  /\ calendar' = [e \in Events |-> IF e \in written THEN cleared[e] + 1 ELSE cleared[e]]
      /\ ids' = (ids \ (treated \cup lost)) \cup written

Sync ==
  /\ app.stage = "posted" /\ auth = "granted"
  /\ app' = [app EXCEPT !.stage = "idle"]
  /\ Write(app.payload, {})
  /\ diag' = Reported({x[1] : x \in app.payload} \ Scheduled(app.payload))
  /\ UNCHANGED <<fact, auth, refused>>

\* An error stops the loop over the events: those before it are written, the
\* one that failed may be removed and not written, and nothing is reported removed.
SyncFails ==
  /\ app.stage = "posted" /\ auth = "granted"
  /\ \E done \in (SUBSET app.payload) \ {app.payload} :
       \E lost \in {{}} \cup {{e} : e \in Scheduled(app.payload \ done)} : Write(done, lost)
  /\ app' = [app EXCEPT !.stage = "idle"]
  /\ diag' = [Reported({}) EXCEPT !.failed = TRUE, !.error = "sync"]
  /\ UNCHANGED <<fact, auth, refused>>

ShellStep == ReadFacts \/ SyncRefused \/ Sync \/ SyncFails

\* removeExistingEvent before eventStore.save: the calendar never shows an event
\* twice, whatever the app has forgotten and wherever a sync broke off, and an
\* identifier is kept only for an event that is there.
OneEntryEach == \A e \in Events : calendar[e] <= 1 /\ (e \in ids => calendar[e] = 1)
=============================================================================
