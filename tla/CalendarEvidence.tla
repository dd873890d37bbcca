-------------------------- MODULE CalendarEvidence --------------------------
(***************************************************************************)
(* collect-ios-acceptance-evidence.mjs on the system calendar: the seed,   *)
(* the picture of the Calendar app, the cleanup and the refused permission.*)
(* The collector starts the app, waits a fixed time and reads what the app *)
(* has written by then; the app runs at its own pace.  A run may be        *)
(* repeated on what the one before left behind.                            *)
(***************************************************************************)
EXTENDS SystemCalendar

CONSTANTS CalendarRuns,           \* bound: runs
          MaxAttempts,            \* 8 refreshes in the code
          Options,                \* sets of the seeds a run may ask for
          Seed(_), DeniedSeed(_), \* the events a run creates
          MayReset                \* --reset-app is used

VARIABLES pc, runs, opts, ios, seed, read, polls, cleanup, denial

collector == <<pc, runs, opts, ios, seed, read, polls, cleanup, denial>>
calendarVars == <<shell, collector>>

\* Each run creates events of its own.
SeedsDiffer ==
  /\ CalendarRuns \in Nat
  /\ \A r \in 1 .. CalendarRuns : Seed(r) \in Events /\ DeniedSeed(r) \in Events
  /\ \A r, s \in 1 .. CalendarRuns :
       /\ Seed(r) # DeniedSeed(s)
       /\ r # s => Seed(r) # Seed(s) /\ DeniedSeed(r) # DeniedSeed(s)

Target == Seed(runs)
Unread == [diag |-> NoDiagnostics, ids |-> {}]

NoCleanup == [stored |-> FALSE, status |-> "none", gone |-> FALSE, removed |-> FALSE,
              available |-> FALSE]
NoDenial == [pre |-> "unknown", persisted |-> FALSE,
             restored |-> FALSE, available |-> FALSE]

CalendarInit ==
  /\ InitShell
  /\ pc = "idle" /\ runs = 0 /\ opts = {} /\ polls = 0
  /\ ios = NoDiagnostics /\ seed = FALSE /\ read = Unread
  /\ cleanup = NoCleanup /\ denial = NoDenial

Goto(label) == pc' = label

\* simctl launch after a terminate: a new process
Relaunch == app' = Loading

-----------------------------------------------------------------------------
\* parseArgs, and collectBuildAndLaunch as far as the calendar is concerned.
\* Uninstalling the app takes the user defaults with it, not the permission.
BeginCollecting ==
  /\ pc \in {"idle", "done", "died"} /\ runs < CalendarRuns
  /\ runs' = runs + 1 /\ opts' \in Options
  /\ \E reset \in (IF MayReset THEN BOOLEAN ELSE {FALSE}) :
       /\ ids' = IF reset THEN {} ELSE ids
       /\ diag' = IF reset THEN NoDiagnostics ELSE diag
  /\ Relaunch
  /\ Goto("launched")
  /\ ios' = NoDiagnostics /\ seed' = FALSE /\ read' = Unread /\ polls' = 0
  /\ cleanup' = NoCleanup /\ denial' = NoDenial
  /\ UNCHANGED <<fact, auth, calendar, refused>>

ReadAfterRelaunch ==
  /\ pc = "launched" /\ Goto("prepare")
  /\ ios' = diag
  /\ UNCHANGED <<shell, runs, opts, seed, read, polls, cleanup, denial>>

\* prepareCalendarAccessForSystemEvidence: nobody looks whether it worked
PrepareAccess ==
  /\ pc = "prepare" /\ Goto("seed")
  /\ IF "cleanup" \in opts
     THEN /\ auth' \in {auth, "granted"}
          /\ app' \in {app, Loading}
     ELSE UNCHANGED <<auth, app>>
  /\ UNCHANGED <<fact, calendar, ids, diag, refused, runs, opts, ios, seed, read,
                 polls, cleanup, denial>>

\* seedAcceptanceFacts: three domains, available when all of them succeeded; a
\* request that fails for good ends the program (main().catch).
SeedFacts ==
  /\ pc = "seed"
  /\ IF "facts" \in opts
     THEN \/ fact' = [fact EXCEPT ![Target] = "scheduled"] /\ seed' = TRUE /\ Goto("refreshSeed")
          \/ fact' \in {fact, [fact EXCEPT ![Target] = "scheduled"]} /\ seed' = FALSE
             /\ Goto("denial")
          \/ fact' = fact /\ seed' = FALSE /\ Goto("died")
     ELSE fact' = fact /\ seed' = FALSE /\ Goto("denial")
  /\ UNCHANGED <<app, auth, calendar, ids, diag, refused, runs, opts, ios, read, polls,
                 cleanup, denial>>

\* refreshNativeSystemDiagnostics: terminate and launch, a fixed wait ...
RefreshAt(from, to) ==
  /\ pc = from /\ Relaunch /\ Goto(to)
  /\ UNCHANGED <<fact, auth, calendar, ids, diag, refused, runs, opts, ios, seed, read,
                 polls, cleanup, denial>>

\* ... and a read of the preferences, which is empty when plutil fails
Reads == {Unread, [diag |-> diag, ids |-> ids]}
OrKeep(old, r) == IF r.diag = NoDiagnostics THEN old ELSE r.diag

RefreshSeed == RefreshAt("refreshSeed", "readSeed")
ReadSeed ==
  /\ pc = "readSeed" /\ Goto("beforeCancel")
  /\ read' \in Reads /\ ios' = OrKeep(ios, read') /\ polls' = 0
  /\ UNCHANGED <<shell, runs, opts, seed, cleanup, denial>>

\* preferenceKeyPresent, diagnosticsContainCalendarId
StoredIn(r) == Target \in r.ids \/ Target \in r.diag.stored
\* the loop after the cancel looks at the preference only
GoneIn(r) == Target \notin r.ids
RemovedIn(r) == Target \in r.diag.removed

-----------------------------------------------------------------------------
(* seedCalendarCleanup                                                     *)

SkipCleanup == /\ pc = "beforeCancel" /\ "cleanup" \notin opts /\ Goto("denial")
               /\ UNCHANGED <<shell, runs, opts, ios, seed, read, polls, cleanup, denial>>

\* up to preCancelRefreshMaxAttempts times: the app may not have synced yet
PollBefore == /\ "cleanup" \in opts /\ ~StoredIn(read) /\ polls < MaxAttempts
              /\ RefreshAt("beforeCancel", "readBefore")

ReadBefore ==
  /\ pc = "readBefore" /\ Goto("beforeCancel")
  /\ read' \in Reads /\ polls' = polls + 1
  /\ UNCHANGED <<shell, runs, opts, ios, seed, cleanup, denial>>

NotSynced ==
  /\ pc = "beforeCancel" /\ "cleanup" \in opts
  /\ ~StoredIn(read) /\ polls = MaxAttempts
  /\ Goto("denial")
  /\ UNCHANGED <<shell, runs, opts, ios, seed, read, polls, cleanup, denial>>

\* cancelCalendarEventThroughH5: the page cancels the event and the answer is
\* checked; the check may fail after the event was canceled.
CancelThroughH5 ==
  /\ pc = "beforeCancel" /\ "cleanup" \in opts /\ StoredIn(read)
  /\ \/ /\ fact' = [fact EXCEPT ![Target] = "canceled"]
        /\ \E seen \in BOOLEAN :
             /\ cleanup' = [cleanup EXCEPT !.stored = TRUE,
                                           !.status = IF seen THEN "canceled" ELSE "none"]
             /\ Goto(IF seen THEN "refreshCleanup" ELSE "denial")
     \/ /\ fact' = fact
        /\ \E seen \in BOOLEAN :
             /\ cleanup' = [cleanup EXCEPT !.stored = TRUE,
                                           !.status = IF seen THEN "scheduled" ELSE "none"]
             /\ Goto(IF seen THEN "refreshCleanup" ELSE "denial")
  /\ UNCHANGED <<app, auth, calendar, ids, diag, refused, runs, opts, ios, seed, read,
                 polls, denial>>

-----------------------------------------------------------------------------
(* finalizeCalendarCleanupSeed                                             *)

RefreshCleanup == RefreshAt("refreshCleanup", "readCleanup")
ReadCleanup ==
  /\ pc = "readCleanup" /\ Goto("afterCancel")
  /\ read' \in Reads /\ ios' = OrKeep(ios, read') /\ polls' = 0
  /\ UNCHANGED <<shell, runs, opts, seed, cleanup, denial>>

Settled(r) == GoneIn(r) /\ RemovedIn(r)

PollAfter == /\ cleanup.status = "canceled" /\ ~Settled(read) /\ polls < MaxAttempts
             /\ RefreshAt("afterCancel", "readAfter")
ReadAfter ==
  /\ pc = "readAfter" /\ Goto("afterCancel")
  /\ read' \in Reads /\ polls' = polls + 1
  /\ UNCHANGED <<shell, runs, opts, ios, seed, cleanup, denial>>

\* faulty: no identifier is taken for no event
CleanupByIdentifier(c) == c.status = "canceled" /\ c.stored /\ c.gone

CleanupAvailable(c) == c.status = "canceled" /\ c.stored /\ c.gone /\ c.removed

FinishCleanup ==
  /\ pc = "afterCancel"
  /\ cleanup.status = "canceled" => (Settled(read) \/ polls = MaxAttempts)
  /\ LET c == [cleanup EXCEPT !.gone = GoneIn(read), !.removed = RemovedIn(read)]
     IN  cleanup' = [c EXCEPT !.available = CleanupAvailable(c)]
  /\ ios' = OrKeep(ios, read)
  /\ Goto("denial")
  /\ UNCHANGED <<shell, runs, opts, seed, read, polls, denial>>

-----------------------------------------------------------------------------
(* seedCalendarPermissionDenial                                            *)

SkipDenial == /\ pc = "denial" /\ "denial" \notin opts /\ Goto("done")
              /\ UNCHANGED <<shell, runs, opts, ios, seed, read, polls, cleanup, denial>>

\* simctl privacy revoke stops the app; a failure is recorded and not looked at
Revoke ==
  /\ pc = "denial" /\ "denial" \in opts /\ Goto("denialSeed")
  /\ denial' = [denial EXCEPT !.pre = ios.auth]
  /\ auth' \in {auth, "denied"} /\ Relaunch
  /\ UNCHANGED <<fact, calendar, ids, diag, refused, runs, opts, ios, seed, read, polls,
                 cleanup>>

\* seedSingleCalendarEvent
SeedDenied ==
  /\ pc = "denialSeed"
  /\ \/ /\ fact' = [fact EXCEPT ![DeniedSeed(runs)] = "scheduled"]
        /\ \E answered \in BOOLEAN : denial' = [denial EXCEPT !.persisted = answered]
        /\ Goto("refreshDenial")
     \/ fact' = fact /\ denial' = denial /\ pc' \in {"refreshDenial", "died"}
  /\ UNCHANGED <<app, auth, calendar, ids, diag, refused, runs, opts, ios, seed, read,
                 polls, cleanup>>

RefreshDenial == RefreshAt("refreshDenial", "readDenial")

\* faulty: the fact alone is taken for the evidence
DenialByFact(d, r) == d.persisted

\* isCalendarPermissionDenialAvailable
DenialAvailable(d, r) == d.persisted /\ r.diag.failed /\ r.diag.error = "permission"

\* The status read before the revocation decides whether it is given back.
ReadDenial ==
  /\ pc = "readDenial" /\ Goto("done")
  /\ read' \in Reads /\ ios' = OrKeep(ios, read')
  /\ \E shot \in BOOLEAN :
       denial' = [denial EXCEPT !.restored = @ \/ denial.pre = "granted",
                                !.available = shot /\ DenialAvailable(denial, read')]
  /\ auth' \in (IF denial.pre = "granted" THEN {auth, "granted"} ELSE {auth})
  /\ UNCHANGED <<fact, app, calendar, ids, diag, refused, runs, opts, seed, polls, cleanup>>

Collect ==
  \/ ReadAfterRelaunch \/ PrepareAccess \/ SeedFacts \/ RefreshSeed \/ ReadSeed
  \/ SkipCleanup \/ PollBefore \/ ReadBefore \/ NotSynced \/ CancelThroughH5
  \/ RefreshCleanup \/ ReadCleanup \/ PollAfter \/ ReadAfter \/ FinishCleanup
  \/ SkipDenial \/ Revoke \/ SeedDenied \/ RefreshDenial \/ ReadDenial

CalendarNext == \/ BeginCollecting \/ Collect
                \/ ShellStep /\ UNCHANGED collector

CalendarSpec == CalendarInit /\ [][CalendarNext]_calendarVars

-----------------------------------------------------------------------------
\* finalizeCalendarCleanupSeed: calendarCleanupSeed.available means that the
\* event of this run was in the system calendar, was canceled, and is gone.
CleanupProvesRemoval ==
  cleanup.available => /\ fact[Target] = "canceled"
                       /\ calendar[Target] = 0 /\ Target \notin ids

\* calendarPermissionDenialSeed.available: a refusal of this app was recorded.
DenialHasARefusal == denial.available => refused

\* What a run records of the calendar is so, whatever syncs of the app fall
\* between its polls and whatever an earlier run left behind.
CalendarEvidenceIsTrue == CleanupProvesRemoval /\ DenialHasARefusal
=============================================================================
