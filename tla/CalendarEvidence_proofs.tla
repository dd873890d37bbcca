----------------------- MODULE CalendarEvidence_proofs -----------------------
(***************************************************************************)
(* What the syncs of the app and the runs of the collector keep of the     *)
(* system calendar, for any events and any number of runs.  The evidence   *)
(* of a cleanup rests on what a sync reported removed: such an event is    *)
(* canceled for good, and is neither there nor will it be written again,   *)
(* because no process of the app holds it as scheduled any more (Gone).    *)
(***************************************************************************)
EXTENDS CalendarEvidence, TLAPS

Statuses == {"none", "scheduled", "canceled"}
Auths == {"unknown", "notDetermined", "granted", "denied"}
Diagnostics == [auth : Auths, stored : SUBSET Events, removed : SUBSET Events,
                failed : BOOLEAN, error : {"none", "permission", "sync"}]

Cleanups == [stored : BOOLEAN, status : Statuses, gone : BOOLEAN, removed : BOOLEAN,
             available : BOOLEAN]
Denials == [pre : Auths, persisted : BOOLEAN, restored : BOOLEAN, available : BOOLEAN]

Typed ==
  /\ fact \in [Events -> Statuses]
  /\ app \in [stage : {"stopped", "loading", "posted", "idle"},
              payload : SUBSET (Events \X Statuses)]
  /\ auth \in Auths
  /\ calendar \in [Events -> Nat]
  /\ ids \in SUBSET Events
  /\ diag \in Diagnostics
  /\ ios \in Diagnostics
  /\ read \in [diag : Diagnostics, ids : SUBSET Events]
  /\ cleanup \in Cleanups
  /\ denial \in Denials
  /\ runs \in 0 .. CalendarRuns
  /\ pc # "idle" => runs \in 1 .. CalendarRuns

(* What a process is about to write is of one reading of the facts. *)
Posted ==
  app.stage = "posted" =>
    \A e \in Events, s, t \in Statuses :
      <<e, s>> \in app.payload =>
        /\ s # "none"
        /\ s = "canceled" => fact[e] = "canceled"
        /\ <<e, t>> \in app.payload => s = t

(* The events of a run are created once, and not before it. *)
Ahead ==
  /\ \A r \in 1 .. CalendarRuns : r > runs => fact[Seed(r)] = "none" /\ fact[DeniedSeed(r)] = "none"
  /\ pc \in {"launched", "prepare", "seed"} => fact[Target] = "none"
  /\ pc \notin {"idle", "done", "died", "refreshDenial", "readDenial"} =>
       fact[DeniedSeed(runs)] = "none"

Gone(e) ==
  /\ fact[e] = "canceled" /\ calendar[e] = 0 /\ e \notin ids
  /\ app.stage = "posted" => <<e, "scheduled">> \notin app.payload

Removals == \A e \in diag.removed \union read.diag.removed : Gone(e)

Cancelled ==
  /\ cleanup.status = "canceled" => fact[Target] = "canceled"
  /\ cleanup.available => runs \in 1 .. CalendarRuns /\ Gone(Target)

Refusals ==
  /\ diag.failed /\ diag.error = "permission" => refused
  /\ read.diag.failed /\ read.diag.error = "permission" => refused
  /\ denial.available => refused

IInv == Typed /\ Posted /\ Ahead /\ OneEntryEach /\ Removals /\ Cancelled /\ Refusals
-----------------------------------------------------------------------------
(* A write removes what it treats and writes the scheduled ones once. *)
LEMMA WriteCounts ==
  ASSUME Typed, OneEntryEach, NEW done \in SUBSET app.payload, NEW lost \in SUBSET Events,
         lost \cap Scheduled(done) = {}, Write(done, lost)
  PROVE  /\ calendar' \in [Events -> Nat] /\ ids' \in SUBSET Events
         /\ \A e \in Events : calendar'[e] <= 1 /\ (e \in ids' => calendar'[e] = 1)
         /\ \A e \in Events : e \notin Scheduled(done) /\ calendar[e] = 0 /\ e \notin ids
                                => calendar'[e] = 0 /\ e \notin ids'
         /\ \A e \in {x[1] : x \in done} \ Scheduled(done) : calendar'[e] = 0 /\ e \notin ids'
<1> DEFINE treated == {x[1] : x \in done}
           written == Scheduled(done)
           cleared == RemoveExisting(calendar, treated \union lost)
<1>1. /\ calendar' = [e \in Events |-> IF e \in written THEN cleared[e] + 1 ELSE cleared[e]]
      /\ ids' = (ids \ (treated \union lost)) \union written
  BY DEF Write
<1>2. treated \subseteq Events /\ written \subseteq treated
  BY DEF Typed, Scheduled
<1>3. \A e \in Events : cleared[e] = IF e \in treated \union lost THEN 0 ELSE calendar[e]
  BY DEF RemoveExisting
<1> HIDE DEF treated, written, cleared
<1>4. calendar \in [Events -> Nat] /\ ids \subseteq Events
  BY DEF Typed
<1>5. \A e \in Events : calendar[e] <= 1 /\ (e \in ids => calendar[e] = 1)
  BY DEF OneEntryEach
<1>6. \A e \in Events : cleared[e] \in Nat
  BY <1>3, <1>4
<1>7. calendar' \in [Events -> Nat] /\ ids' \in SUBSET Events
  BY <1>1, <1>2, <1>4, <1>6
<1>8. \A e \in Events : e \in written => calendar'[e] = 1 /\ e \in ids'
  BY <1>1, <1>2, <1>3
<1>9. \A e \in Events : e \in (treated \union lost) \ written => calendar'[e] = 0 /\ e \notin ids'
  BY <1>1, <1>3
<1>10. \A e \in Events : e \notin treated \union lost =>
                           calendar'[e] = calendar[e] /\ (e \in ids' <=> e \in ids)
  BY <1>1, <1>2, <1>3
<1>11. \A e \in Events : calendar'[e] <= 1 /\ (e \in ids' => calendar'[e] = 1)
  BY <1>5, <1>8, <1>9, <1>10
<1>12. \A e \in Events : e \notin written /\ calendar[e] = 0 /\ e \notin ids
                           => calendar'[e] = 0 /\ e \notin ids'
  BY <1>9, <1>10
<1>13. \A e \in treated \ written : calendar'[e] = 0 /\ e \notin ids'
  BY <1>2, <1>9
<1> QED
  BY <1>7, <1>11, <1>12, <1>13 DEF treated, written

LEMMA ScheduledOnes ==
  ASSUME NEW S \in SUBSET (Events \X Statuses)
  PROVE  /\ Scheduled(S) \subseteq Events
         /\ \A e : e \in Scheduled(S) <=> <<e, "scheduled">> \in S
<1>1. \A x \in S : x = <<x[1], x[2]>> /\ x[1] \in Events
  OBVIOUS
<1>2. \A e : e \in Scheduled(S) <=> \E x \in S : x[2] = "scheduled" /\ x[1] = e
  BY DEF Scheduled
<1>3. ASSUME NEW e, <<e, "scheduled">> \in S PROVE e \in Scheduled(S)
  BY <1>2, <1>3
<1>4. ASSUME NEW e, e \in Scheduled(S) PROVE <<e, "scheduled">> \in S /\ e \in Events
  <2>1. PICK x \in S : x[2] = "scheduled" /\ x[1] = e
    BY <1>2, <1>4
  <2>2. x = <<e, "scheduled">>
    BY <1>1, <2>1
  <2> QED
    BY <1>1, <2>1, <2>2
<1> QED
  BY <1>3, <1>4

(* What both kinds of sync write. *)
LEMMA SyncWrites ==
  ASSUME IInv, ShellStep, app.stage = "posted", auth = "granted"
  PROVE  /\ calendar' \in [Events -> Nat] /\ ids' \in SUBSET Events
         /\ \A e \in Events : calendar'[e] <= 1 /\ (e \in ids' => calendar'[e] = 1)
         /\ \A e \in Events : Gone(e) => calendar'[e] = 0 /\ e \notin ids'
         /\ app' = [app EXCEPT !.stage = "idle"]
         /\ UNCHANGED <<fact, auth, refused>>
         /\ \/ diag' = [Reported({}) EXCEPT !.failed = TRUE, !.error = "sync"]
            \/ \E removed \in SUBSET Events :
                 /\ diag' = Reported(removed)
                 /\ \A e \in removed : fact[e] = "canceled" /\ calendar'[e] = 0 /\ e \notin ids'
<1>1. app.payload \in SUBSET (Events \X Statuses)
  BY DEF IInv, Typed
<1>2. Typed /\ OneEntryEach
  BY DEF IInv
<1>3. ASSUME NEW e \in Events, Gone(e), NEW done \in SUBSET app.payload
      PROVE  e \notin Scheduled(done) /\ calendar[e] = 0 /\ e \notin ids
  BY <1>1, <1>3, ScheduledOnes DEF Gone
<1>4. CASE Sync
  <2> DEFINE removed == {x[1] : x \in app.payload} \ Scheduled(app.payload)
  <2>1. /\ calendar' \in [Events -> Nat] /\ ids' \in SUBSET Events
        /\ \A e \in Events : calendar'[e] <= 1 /\ (e \in ids' => calendar'[e] = 1)
        /\ \A e \in Events : e \notin Scheduled(app.payload) /\ calendar[e] = 0 /\ e \notin ids
                               => calendar'[e] = 0 /\ e \notin ids'
        /\ \A e \in removed : calendar'[e] = 0 /\ e \notin ids'
    BY <1>2, <1>4, WriteCounts DEF Sync
  <2>2. \A e \in Events : Gone(e) => calendar'[e] = 0 /\ e \notin ids'
    BY <1>3, <2>1
  <2>3. ASSUME NEW e \in removed PROVE e \in Events /\ fact[e] = "canceled"
    <3>1. PICK x \in app.payload : x[1] = e
      BY <2>3
    <3>2. e \in Events /\ x[2] \in Statuses /\ x = <<e, x[2]>>
      BY <1>1, <3>1
    <3>3. x[2] # "scheduled"
      BY <1>1, <2>3, <3>1, <3>2, ScheduledOnes
    <3>4. x[2] # "none"
      BY <3>1, <3>2 DEF IInv, Posted
    <3>5. x[2] = "canceled"
      BY <3>2, <3>3, <3>4 DEF Statuses
    <3>6. <<e, "canceled">> \in app.payload /\ "canceled" \in Statuses
      BY <3>1, <3>2, <3>5
    <3> QED
      BY <3>2, <3>6 DEF IInv, Posted
  <2>4. diag' = Reported(removed) /\ removed \in SUBSET Events
    BY <1>4, <2>3 DEF Sync
  <2>5. app' = [app EXCEPT !.stage = "idle"] /\ UNCHANGED <<fact, auth, refused>>
    BY <1>4 DEF Sync
  <2> HIDE DEF removed
  <2> QED
    BY <2>1, <2>2, <2>3, <2>4, <2>5
<1>5. CASE SyncFails
  <2>1. PICK done \in (SUBSET app.payload) \ {app.payload} :
          \E lost \in {{}} \union {{e} : e \in Scheduled(app.payload \ done)} : Write(done, lost)
    BY <1>5 DEF SyncFails
  <2>2. PICK lost \in {{}} \union {{e} : e \in Scheduled(app.payload \ done)} : Write(done, lost)
    BY <2>1
  <2>3. done \in SUBSET app.payload /\ app.payload \ done \in SUBSET (Events \X Statuses)
        /\ done \in SUBSET (Events \X Statuses)
    BY <1>1
  <2>4. lost \in SUBSET Events /\ lost \cap Scheduled(done) = {}
    <3>1. CASE lost = {}
      BY <3>1
    <3>2. CASE lost # {}
      <4>1. PICK e \in Scheduled(app.payload \ done) : lost = {e}
        BY <2>2, <3>2
      <4> QED
        BY <2>3, <4>1, ScheduledOnes
    <3> QED
      BY <3>1, <3>2
  <2>5. /\ calendar' \in [Events -> Nat] /\ ids' \in SUBSET Events
        /\ \A e \in Events : calendar'[e] <= 1 /\ (e \in ids' => calendar'[e] = 1)
        /\ \A e \in Events : e \notin Scheduled(done) /\ calendar[e] = 0 /\ e \notin ids
                               => calendar'[e] = 0 /\ e \notin ids'
    BY <1>2, <2>2, <2>3, <2>4, WriteCounts
  <2>6. \A e \in Events : Gone(e) => calendar'[e] = 0 /\ e \notin ids'
    BY <1>3, <2>3, <2>5
  <2> QED
    BY <1>5, <2>5, <2>6 DEF SyncFails
<1> QED
  BY <1>4, <1>5 DEF ShellStep, ReadFacts, SyncRefused

LEMMA ReadingKeeps ==
  ASSUME SeedsDiffer, IInv, ReadFacts, UNCHANGED collector
  PROVE  IInv'
<1>1. /\ app.stage = "loading"
      /\ app' = [stage |-> "posted", payload |-> {<<e, fact[e]>> : e \in Known}]
      /\ UNCHANGED <<fact, auth, calendar, ids, diag, refused>>
      /\ UNCHANGED <<pc, runs, opts, ios, seed, read, polls, cleanup, denial>>
  BY DEF ReadFacts, collector
<1>2. fact \in [Events -> Statuses]
  BY DEF IInv, Typed
<1>3. \A e \in Events, s \in Statuses :
        <<e, s>> \in app'.payload => s = fact[e] /\ fact[e] # "none"
  BY <1>1 DEF Known
<1>4. app' \in [stage : {"stopped", "loading", "posted", "idle"},
                payload : SUBSET (Events \X Statuses)]
  <2>1. {<<e, fact[e]>> : e \in Known} \in SUBSET (Events \X Statuses)
    BY <1>2 DEF Known
  <2> QED
    BY <1>1, <2>1
<1>5. Typed'
  BY <1>1, <1>4 DEF IInv, Typed
<1>6. Posted'
  BY <1>1, <1>3 DEF Posted
<1>7. \A e \in Events : Gone(e) => Gone(e)'
  BY <1>1, <1>3 DEF Gone, Statuses
<1>8. diag.removed \union read.diag.removed \subseteq Events
  BY DEF IInv, Typed, Diagnostics
<1>9. Removals'
  BY <1>1, <1>7, <1>8 DEF IInv, Removals
<1>10. Cancelled'
  <2>1. cleanup.available => Target \in Events
    BY DEF IInv, Cancelled, SeedsDiffer, Target
  <2> QED
    BY <1>1, <1>7, <2>1 DEF IInv, Cancelled, Target
<1>11. Ahead' /\ OneEntryEach' /\ Refusals'
  BY <1>1 DEF IInv, Ahead, OneEntryEach, Refusals, Target
<1> QED
  BY <1>5, <1>6, <1>9, <1>10, <1>11 DEF IInv

LEMMA RefusalKeeps ==
  ASSUME IInv, SyncRefused, UNCHANGED collector
  PROVE  IInv'
<1>1. /\ app' = [app EXCEPT !.stage = "idle"] /\ refused' = TRUE
      /\ UNCHANGED <<fact, auth, calendar, ids>>
      /\ UNCHANGED <<pc, runs, opts, ios, seed, read, polls, cleanup, denial>>
  BY DEF SyncRefused, collector
<1>2. PICK label \in {"denied", "granted"} :
        diag' = [Reported({}) EXCEPT !.auth = label, !.failed = TRUE, !.error = "permission"]
  BY DEF SyncRefused
<1>3. /\ diag \in Diagnostics /\ auth \in Auths /\ ids' \in SUBSET Events
      /\ app \in [stage : {"stopped", "loading", "posted", "idle"},
                  payload : SUBSET (Events \X Statuses)]
  BY <1>1 DEF IInv, Typed
<1>4. diag' \in Diagnostics /\ diag'.removed = {}
  BY <1>2, <1>3 DEF Reported, Diagnostics, Auths
<1>5. app' \in [stage : {"stopped", "loading", "posted", "idle"},
                payload : SUBSET (Events \X Statuses)]
      /\ app'.stage = "idle"
  BY <1>1, <1>3
<1>6. Typed'
  BY <1>1, <1>4, <1>5 DEF IInv, Typed
<1>7. Posted' /\ Ahead' /\ OneEntryEach'
  BY <1>1, <1>5 DEF IInv, Posted, Ahead, OneEntryEach, Target
<1>8. Removals' /\ Cancelled'
  BY <1>1, <1>4, <1>5 DEF IInv, Removals, Cancelled, Gone, Target
<1>9. Refusals'
  BY <1>1 DEF IInv, Refusals
<1> QED
  BY <1>6, <1>7, <1>8, <1>9 DEF IInv

LEMMA SyncKeeps ==
  ASSUME SeedsDiffer, IInv, Sync \/ SyncFails, UNCHANGED collector
  PROVE  IInv'
<1>1. ShellStep /\ app.stage = "posted" /\ auth = "granted"
  BY DEF ShellStep, Sync, SyncFails
<1>2. /\ calendar' \in [Events -> Nat] /\ ids' \in SUBSET Events
      /\ \A e \in Events : calendar'[e] <= 1 /\ (e \in ids' => calendar'[e] = 1)
      /\ \A e \in Events : Gone(e) => calendar'[e] = 0 /\ e \notin ids'
      /\ app' = [app EXCEPT !.stage = "idle"]
      /\ UNCHANGED <<fact, auth, refused>>
  BY <1>1, SyncWrites
<1>3. \/ diag' = [Reported({}) EXCEPT !.failed = TRUE, !.error = "sync"]
      \/ \E removed \in SUBSET Events :
           /\ diag' = Reported(removed)
           /\ \A e \in removed : fact[e] = "canceled" /\ calendar'[e] = 0 /\ e \notin ids'
  BY <1>1, SyncWrites
<1>4. UNCHANGED <<pc, runs, opts, ios, seed, read, polls, cleanup, denial>>
  BY DEF collector
<1>5. diag \in Diagnostics /\ auth \in Auths
  BY DEF IInv, Typed
<1>6. /\ diag' \in Diagnostics
      /\ \A e \in diag'.removed : fact[e] = "canceled" /\ calendar'[e] = 0 /\ e \notin ids'
      /\ diag'.failed /\ diag'.error = "permission" => diag.failed /\ diag.error = "permission"
  <2>1. CASE diag' = [Reported({}) EXCEPT !.failed = TRUE, !.error = "sync"]
    BY <1>2, <1>5, <2>1 DEF Reported, Diagnostics
  <2>2. CASE \E removed \in SUBSET Events :
               /\ diag' = Reported(removed)
               /\ \A e \in removed : fact[e] = "canceled" /\ calendar'[e] = 0 /\ e \notin ids'
    BY <1>2, <1>5, <2>2 DEF Reported, Diagnostics
  <2> QED
    BY <1>3, <2>1, <2>2
<1>7. app' \in [stage : {"stopped", "loading", "posted", "idle"},
                payload : SUBSET (Events \X Statuses)]
      /\ app'.stage = "idle"
  BY <1>2 DEF IInv, Typed
<1>8. Typed'
  BY <1>2, <1>4, <1>6, <1>7 DEF IInv, Typed
<1>9. Posted' /\ Ahead'
  BY <1>2, <1>4, <1>7 DEF IInv, Posted, Ahead, Target
<1>10. OneEntryEach'
  BY <1>2 DEF OneEntryEach
<1>11. \A e \in Events : Gone(e) => Gone(e)'
  BY <1>2, <1>7 DEF Gone
<1>12. Removals'
  <2>1. \A e \in diag'.removed : Gone(e)'
    BY <1>2, <1>6, <1>7 DEF Gone
  <2>2. read.diag.removed \subseteq Events
    BY DEF IInv, Typed, Diagnostics
  <2> QED
    BY <1>4, <1>11, <2>1, <2>2 DEF IInv, Removals
<1>13. Cancelled'
  <2>1. cleanup.available => Target \in Events
    BY DEF IInv, Cancelled, SeedsDiffer, Target
  <2> QED
    BY <1>2, <1>4, <1>11, <2>1 DEF IInv, Cancelled, Target
<1>14. Refusals'
  BY <1>2, <1>4, <1>6 DEF IInv, Refusals
<1> QED
  BY <1>8, <1>9, <1>10, <1>12, <1>13, <1>14 DEF IInv

(* A step of the collector that leaves the facts and the calendar alone. *)
Early == {"launched", "prepare", "seed"}
Late == {"idle", "done", "died", "refreshDenial", "readDenial"}

Calm ==
  /\ UNCHANGED <<fact, calendar, ids, diag, refused, runs>>
  /\ app' \in {app, Loading} /\ auth' \in Auths /\ ios' \in Diagnostics
  /\ read' \in {read} \union Reads
  /\ cleanup' \in Cleanups
  /\ cleanup'.status = "canceled" => cleanup.status = "canceled"
  /\ cleanup'.available => cleanup.available \/ Target \in read.diag.removed
  /\ denial' \in Denials
  /\ denial'.available => denial.available \/ (read'.diag.failed /\ read'.diag.error = "permission")
  /\ pc # "idle"
  /\ pc' \in Early => pc \in Early
  /\ pc' \notin Late => pc \notin Late

LEMMA CalmKeeps ==
  ASSUME SeedsDiffer, IInv, Calm
  PROVE  IInv'
<1>1. /\ app' \in [stage : {"stopped", "loading", "posted", "idle"},
                   payload : SUBSET (Events \X Statuses)]
      /\ app'.stage = "posted" => app' = app
  BY DEF Calm, IInv, Typed, Loading
<1>2. runs \in 1 .. CalendarRuns /\ Target \in Events
  BY DEF Calm, IInv, Typed, SeedsDiffer, Target
<1>3. /\ read' \in [diag : Diagnostics, ids : SUBSET Events]
      /\ read'.diag.removed \subseteq diag.removed \union read.diag.removed
      /\ read'.diag.failed /\ read'.diag.error = "permission" => refused
  <2>1. CASE read' = read
    BY <2>1 DEF IInv, Typed, Refusals
  <2>2. CASE read' = Unread
    BY <2>2 DEF Unread, NoDiagnostics, Diagnostics, Auths
  <2>3. CASE read' = [diag |-> diag, ids |-> ids]
    BY <2>3 DEF IInv, Typed, Refusals
  <2> QED
    BY <2>1, <2>2, <2>3 DEF Calm, Reads
<1>4. Typed'
  BY <1>1, <1>2, <1>3 DEF Calm, IInv, Typed
<1>5. Posted'
  BY <1>1 DEF Calm, IInv, Posted
<1>6. Ahead'
  BY DEF Calm, IInv, Ahead, Early, Late, Target
<1>7. OneEntryEach'
  BY DEF Calm, IInv, OneEntryEach
<1>8. \A e : Gone(e) => Gone(e)'
  BY <1>1 DEF Calm, Gone
<1>9. Removals'
  BY <1>3, <1>8 DEF Calm, IInv, Removals
<1>10. Cancelled'
  <2>1. Target' = Target /\ runs' = runs
    BY DEF Calm, Target
  <2>2. cleanup'.available => Gone(Target)
    BY DEF Calm, IInv, Removals, Cancelled
  <2>3. cleanup'.status = "canceled" => fact'[Target] = "canceled"
    BY DEF Calm, IInv, Cancelled
  <2> QED
    BY <1>2, <1>8, <2>1, <2>2, <2>3 DEF Cancelled
<1>11. Refusals'
  BY <1>3 DEF Calm, IInv, Refusals
<1> QED
  BY <1>4, <1>5, <1>6, <1>7, <1>9, <1>10, <1>11 DEF IInv

LEMMA ReadsAndSkips ==
  ASSUME IInv,
         \/ ReadAfterRelaunch \/ ReadSeed \/ SkipCleanup \/ ReadBefore \/ NotSynced
         \/ ReadCleanup \/ ReadAfter \/ FinishCleanup \/ SkipDenial
  PROVE  Calm
<1>1. /\ diag \in Diagnostics /\ ios \in Diagnostics /\ auth \in Auths
      /\ read \in [diag : Diagnostics, ids : SUBSET Events] /\ ids \in SUBSET Events
      /\ cleanup \in Cleanups /\ denial \in Denials
  BY DEF IInv, Typed
<1>2. NoDiagnostics \in Diagnostics
  BY DEF NoDiagnostics, Diagnostics, Auths
<1>3. \A r \in {read} \union Reads : OrKeep(ios, r) \in Diagnostics
  BY <1>1, <1>2 DEF Reads, Unread, OrKeep
<1>4. CASE ReadAfterRelaunch \/ SkipCleanup \/ NotSynced \/ SkipDenial
  BY <1>1, <1>4 DEF ReadAfterRelaunch, SkipCleanup, NotSynced, SkipDenial, Goto, shell, Calm,
                    Early, Late
<1>5. CASE ReadSeed \/ ReadCleanup
  BY <1>1, <1>3, <1>5 DEF ReadSeed, ReadCleanup, Goto, shell, Calm, Early, Late
<1>6. CASE ReadBefore \/ ReadAfter
  BY <1>1, <1>6 DEF ReadBefore, ReadAfter, Goto, shell, Calm, Early, Late
<1>7. CASE FinishCleanup
  <2> DEFINE c == [cleanup EXCEPT !.gone = GoneIn(read), !.removed = RemovedIn(read)]
  <2>1. cleanup' = [c EXCEPT !.available = CleanupAvailable(c)]
    BY <1>7 DEF FinishCleanup
  <2>6. GoneIn(read) \in BOOLEAN /\ RemovedIn(read) \in BOOLEAN
    BY DEF GoneIn, RemovedIn
  <2>7. c \in Cleanups /\ c.status = cleanup.status /\ c.removed = RemovedIn(read)
    BY <1>1, <2>6 DEF Cleanups
  <2>2. c \in Cleanups /\ c.status = cleanup.status /\ (c.removed => Target \in read.diag.removed)
    BY <2>7 DEF RemovedIn
  <2>3. CleanupAvailable(c) \in BOOLEAN /\ (CleanupAvailable(c) => c.removed)
    BY <2>2 DEF CleanupAvailable, Cleanups
  <2> HIDE DEF c
  <2>4. /\ cleanup' \in Cleanups /\ cleanup'.status = cleanup.status
        /\ cleanup'.available => Target \in read.diag.removed
    BY <2>1, <2>2, <2>3 DEF Cleanups
  <2>5. ios' \in Diagnostics
    BY <1>3, <1>7 DEF FinishCleanup
  <2> QED
    BY <1>1, <1>7, <2>4, <2>5 DEF FinishCleanup, Goto, shell, Calm, Early, Late
<1> QED
  BY <1>4, <1>5, <1>6, <1>7

LEMMA RefreshesAndAccess ==
  ASSUME IInv,
         \/ RefreshSeed \/ PollBefore \/ RefreshCleanup \/ PollAfter \/ RefreshDenial
         \/ PrepareAccess \/ Revoke \/ ReadDenial
  PROVE  Calm
<1>1. /\ diag \in Diagnostics /\ ios \in Diagnostics /\ auth \in Auths
      /\ read \in [diag : Diagnostics, ids : SUBSET Events] /\ ids \in SUBSET Events
      /\ cleanup \in Cleanups /\ denial \in Denials
  BY DEF IInv, Typed
<1>2. NoDiagnostics \in Diagnostics
  BY DEF NoDiagnostics, Diagnostics, Auths
<1>3. \A r \in Reads : OrKeep(ios, r) \in Diagnostics
  BY <1>1, <1>2 DEF Reads, Unread, OrKeep
<1>4. CASE \/ RefreshSeed \/ PollBefore \/ RefreshCleanup \/ PollAfter \/ RefreshDenial
  BY <1>1, <1>4 DEF RefreshSeed, PollBefore, RefreshCleanup, PollAfter, RefreshDenial, RefreshAt,
                    Relaunch, Goto, Calm, Early, Late
<1>5. CASE PrepareAccess
  BY <1>1, <1>5 DEF PrepareAccess, Goto, Calm, Early, Late, Auths
<1>6. CASE Revoke
  <2>1. denial' \in Denials /\ denial'.available = denial.available
    BY <1>1, <1>6 DEF Revoke, Denials, Diagnostics
  <2> QED
    BY <1>1, <1>6, <2>1 DEF Revoke, Relaunch, Goto, Calm, Early, Late, Auths
<1>7. CASE ReadDenial
  <2>1. PICK shot \in BOOLEAN :
          denial' = [denial EXCEPT !.restored = @ \/ denial.pre = "granted",
                                   !.available = shot /\ DenialAvailable(denial, read')]
    BY <1>7 DEF ReadDenial
  <2>2. (denial.restored \/ denial.pre = "granted") \in BOOLEAN
    OBVIOUS
  <2>3. (shot /\ DenialAvailable(denial, read')) \in BOOLEAN
    OBVIOUS
  <2>4. /\ denial' \in Denials
        /\ denial'.available => DenialAvailable(denial, read')
    BY <1>1, <2>1, <2>2, <2>3 DEF Denials
  <2>5. ios' \in Diagnostics
    BY <1>3, <1>7 DEF ReadDenial
  <2> QED
    BY <1>1, <1>7, <2>4, <2>5 DEF ReadDenial, DenialAvailable, Goto, Calm, Early, Late, Auths
<1> QED
  BY <1>4, <1>5, <1>6, <1>7

(* A step that creates an event, or cancels one. *)
LEMMA FactChangeKeeps ==
  ASSUME SeedsDiffer, IInv, NEW x \in Events, NEW s \in {"scheduled", "canceled"},
         fact' = [fact EXCEPT ![x] = s],
         s = "scheduled" => fact[x] = "none",
         UNCHANGED <<app, auth, calendar, ids, diag, refused, runs, ios, read>>,
         cleanup' \in Cleanups, cleanup'.available = cleanup.available,
         cleanup'.status = "canceled" => fact'[Target] = "canceled",
         denial' \in Denials, denial'.available = denial.available,
         pc # "idle", Ahead'
  PROVE  IInv'
<1>1. fact \in [Events -> Statuses] /\ s \in Statuses
  BY DEF IInv, Typed, Statuses
<1>2. fact' \in [Events -> Statuses]
  BY <1>1
<1>3. \A e \in Events : fact[e] = "canceled" => fact'[e] = "canceled"
  BY <1>1
<1>4. runs \in 1 .. CalendarRuns /\ Target \in Events /\ Target' = Target
  BY DEF IInv, Typed, SeedsDiffer, Target
<1>5. Typed'
  BY <1>2, <1>4 DEF IInv, Typed
<1>6. Posted'
  BY <1>3 DEF IInv, Posted
<1>7. OneEntryEach'
  BY DEF IInv, OneEntryEach
<1>8. \A e \in Events : Gone(e) => Gone(e)'
  BY <1>3 DEF Gone
<1>9. diag.removed \union read.diag.removed \subseteq Events
  BY DEF IInv, Typed, Diagnostics
<1>10. Removals'
  BY <1>8, <1>9 DEF IInv, Removals
<1>11. Cancelled'
  BY <1>4, <1>8 DEF IInv, Cancelled
<1>12. Refusals'
  BY DEF IInv, Refusals
<1> QED
  BY <1>5, <1>6, <1>7, <1>10, <1>11, <1>12 DEF IInv

LEMMA SeedFactsKeeps ==
  ASSUME SeedsDiffer, IInv, SeedFacts
  PROVE  IInv'
<1>1. pc = "seed" /\ pc' \in {"refreshSeed", "denial", "died"}
      /\ UNCHANGED <<app, auth, calendar, ids, diag, refused, runs, opts, ios, read, polls,
                     cleanup, denial>>
      /\ (fact' = fact \/ fact' = [fact EXCEPT ![Target] = "scheduled"])
  BY DEF SeedFacts, Goto
<1>2. runs \in 1 .. CalendarRuns /\ Target \in Events /\ Target' = Target /\ Target = Seed(runs)
  BY <1>1 DEF IInv, Typed, SeedsDiffer, Target
<1>3. /\ ios \in Diagnostics /\ auth \in Auths /\ cleanup \in Cleanups /\ denial \in Denials
      /\ fact \in [Events -> Statuses]
  BY DEF IInv, Typed
<1>4. CASE fact' = fact
  <2>1. Calm
    BY <1>1, <1>3, <1>4 DEF Calm, Early, Late
  <2> QED
    BY <2>1, CalmKeeps
<1>5. CASE fact' = [fact EXCEPT ![Target] = "scheduled"]
  <2>1. fact[Target] = "none"
    BY <1>1 DEF IInv, Ahead
  <2>2. \A r \in 1 .. CalendarRuns : DeniedSeed(r) # Target /\ DeniedSeed(r) \in Events
                                /\ Seed(r) \in Events /\ (r > runs => Seed(r) # Target)
    BY <1>2 DEF SeedsDiffer
  <2>3. Ahead'
    BY <1>1, <1>2, <1>3, <1>5, <2>2 DEF IInv, Ahead
  <2>4. cleanup'.status = "canceled" => fact'[Target] = "canceled"
    BY <1>1, <2>1 DEF IInv, Cancelled
  <2> QED
    BY <1>1, <1>2, <1>3, <1>5, <2>1, <2>3, <2>4, FactChangeKeeps
<1> QED
  BY <1>1, <1>4, <1>5

LEMMA CancelKeeps ==
  ASSUME SeedsDiffer, IInv, CancelThroughH5
  PROVE  IInv'
<1>1. pc = "beforeCancel" /\ pc' \in {"refreshCleanup", "denial"}
      /\ UNCHANGED <<app, auth, calendar, ids, diag, refused, runs, opts, ios, seed, read,
                     polls, denial>>
  BY DEF CancelThroughH5, Goto
<1>2. runs \in 1 .. CalendarRuns /\ Target \in Events /\ Target' = Target /\ Target = Seed(runs)
  BY <1>1 DEF IInv, Typed, SeedsDiffer, Target
<1>3. /\ ios \in Diagnostics /\ auth \in Auths /\ cleanup \in Cleanups /\ denial \in Denials
      /\ fact \in [Events -> Statuses]
  BY DEF IInv, Typed
<1>4. CASE fact' = [fact EXCEPT ![Target] = "canceled"]
           /\ \E seen \in BOOLEAN :
                cleanup' = [cleanup EXCEPT !.stored = TRUE,
                                           !.status = IF seen THEN "canceled" ELSE "none"]
  <2>1. PICK seen \in BOOLEAN :
          cleanup' = [cleanup EXCEPT !.stored = TRUE,
                                     !.status = IF seen THEN "canceled" ELSE "none"]
    BY <1>4
  <2>2. cleanup' \in Cleanups /\ cleanup'.available = cleanup.available
    BY <1>3, <2>1 DEF Cleanups, Statuses
  <2>3. fact'[Target] = "canceled"
    BY <1>2, <1>3, <1>4
  <2>4. \A r \in 1 .. CalendarRuns : DeniedSeed(r) # Target /\ DeniedSeed(r) \in Events
                                /\ Seed(r) \in Events /\ (r > runs => Seed(r) # Target)
    BY <1>2 DEF SeedsDiffer
  <2>5. Ahead'
    BY <1>1, <1>2, <1>3, <1>4, <2>4 DEF IInv, Ahead
  <2> QED
    BY <1>1, <1>2, <1>3, <1>4, <2>2, <2>3, <2>5, FactChangeKeeps
<1>5. CASE fact' = fact
           /\ \E seen \in BOOLEAN :
                cleanup' = [cleanup EXCEPT !.stored = TRUE,
                                           !.status = IF seen THEN "scheduled" ELSE "none"]
  <2>1. PICK seen \in BOOLEAN :
          cleanup' = [cleanup EXCEPT !.stored = TRUE,
                                     !.status = IF seen THEN "scheduled" ELSE "none"]
    BY <1>5
  <2>2. cleanup' \in Cleanups /\ cleanup'.available = cleanup.available
        /\ cleanup'.status # "canceled"
    BY <1>3, <2>1 DEF Cleanups, Statuses
  <2>3. Calm
    BY <1>1, <1>3, <1>5, <2>2 DEF Calm, Early, Late
  <2> QED
    BY <2>3, CalmKeeps
<1> QED
  BY <1>4, <1>5 DEF CancelThroughH5

LEMMA SeedDeniedKeeps ==
  ASSUME SeedsDiffer, IInv, SeedDenied
  PROVE  IInv'
<1>1. pc = "denialSeed" /\ pc' \in {"refreshDenial", "died"}
      /\ UNCHANGED <<app, auth, calendar, ids, diag, refused, runs, opts, ios, seed, read,
                     polls, cleanup>>
  BY DEF SeedDenied, Goto
<1>2. runs \in 1 .. CalendarRuns /\ DeniedSeed(runs) \in Events /\ Target \in Events
      /\ Target # DeniedSeed(runs) /\ Target' = Target
  BY <1>1 DEF IInv, Typed, SeedsDiffer, Target
<1>3. /\ ios \in Diagnostics /\ auth \in Auths /\ cleanup \in Cleanups /\ denial \in Denials
      /\ fact \in [Events -> Statuses]
  BY DEF IInv, Typed
<1>4. CASE fact' = [fact EXCEPT ![DeniedSeed(runs)] = "scheduled"]
           /\ \E answered \in BOOLEAN : denial' = [denial EXCEPT !.persisted = answered]
  <2>1. denial' \in Denials /\ denial'.available = denial.available
    BY <1>3, <1>4 DEF Denials
  <2>2. fact[DeniedSeed(runs)] = "none"
    BY <1>1 DEF IInv, Ahead
  <2>3. fact'[Target] = fact[Target]
    BY <1>2, <1>3, <1>4
  <2>4. cleanup'.status = "canceled" => fact'[Target] = "canceled"
    BY <1>1, <2>3 DEF IInv, Cancelled
  <2>5. \A r \in 1 .. CalendarRuns : r > runs =>
          /\ DeniedSeed(r) \in Events /\ Seed(r) \in Events
          /\ DeniedSeed(r) # DeniedSeed(runs) /\ Seed(r) # DeniedSeed(runs)
    BY <1>2 DEF SeedsDiffer
  <2>6. Ahead'
    BY <1>1, <1>2, <1>3, <1>4, <2>5 DEF IInv, Ahead
  <2> QED
    BY <1>1, <1>2, <1>3, <1>4, <2>1, <2>2, <2>4, <2>6, FactChangeKeeps
<1>5. CASE fact' = fact /\ denial' = denial
  <2>1. Calm
    BY <1>1, <1>3, <1>5 DEF Calm, Early, Late
  <2> QED
    BY <2>1, CalmKeeps
<1> QED
  BY <1>4, <1>5 DEF SeedDenied

(* A run that begins keeps the calendar; a reset forgets identifiers only. *)
LEMMA BeginKeeps ==
  ASSUME SeedsDiffer, IInv, BeginCollecting
  PROVE  IInv'
<1>1. /\ runs' = runs + 1 /\ runs < CalendarRuns /\ app' = Loading /\ pc' = "launched"
      /\ ios' = NoDiagnostics /\ read' = Unread /\ cleanup' = NoCleanup /\ denial' = NoDenial
      /\ UNCHANGED <<fact, auth, calendar, refused>>
  BY DEF BeginCollecting, Relaunch, Goto
<1>2. ids' \in {{}, ids} /\ diag' \in {NoDiagnostics, diag}
  BY DEF BeginCollecting
<1>3. NoDiagnostics \in Diagnostics /\ NoDiagnostics.removed = {} /\ ~NoDiagnostics.failed
  BY DEF NoDiagnostics, Diagnostics, Auths
<1>4. Unread \in [diag : Diagnostics, ids : SUBSET Events] /\ Unread.diag = NoDiagnostics
  BY <1>3 DEF Unread
<1>5. NoCleanup \in Cleanups /\ NoCleanup.status = "none" /\ ~NoCleanup.available
      /\ NoDenial \in Denials /\ ~NoDenial.available
  BY DEF NoCleanup, NoDenial, Cleanups, Denials, Statuses, Auths
<1>6. Loading \in [stage : {"stopped", "loading", "posted", "idle"},
                   payload : SUBSET (Events \X Statuses)]
      /\ Loading.stage = "loading"
  BY DEF Loading
<1>7. runs' \in 1 .. CalendarRuns /\ runs' > runs
  BY <1>1 DEF IInv, Typed, SeedsDiffer
<1>8. Typed'
  BY <1>1, <1>2, <1>3, <1>4, <1>5, <1>6, <1>7 DEF IInv, Typed
<1>9. Posted'
  BY <1>1, <1>6 DEF Posted
<1>10. Ahead'
  <2>1. \A r \in 1 .. CalendarRuns :
          r > runs => fact[Seed(r)] = "none" /\ fact[DeniedSeed(r)] = "none"
    BY DEF IInv, Ahead
  <2>2. runs \in 0 .. CalendarRuns
    BY DEF IInv, Typed
  <2> QED
    BY <1>1, <1>7, <2>1, <2>2 DEF Ahead, Target
<1>11. OneEntryEach'
  BY <1>1, <1>2 DEF IInv, OneEntryEach
<1>12. \A e : Gone(e) => Gone(e)'
  BY <1>1, <1>2, <1>6 DEF Gone
<1>13. Removals'
  BY <1>1, <1>2, <1>3, <1>4, <1>12 DEF IInv, Removals
<1>14. Cancelled'
  BY <1>1, <1>5 DEF Cancelled
<1>15. Refusals'
  BY <1>1, <1>2, <1>3, <1>4, <1>5 DEF IInv, Refusals
<1> QED
  BY <1>8, <1>9, <1>10, <1>11, <1>13, <1>14, <1>15 DEF IInv

LEMMA InitGives ==
  ASSUME SeedsDiffer, CalendarInit
  PROVE  IInv
<1>1. NoDiagnostics \in Diagnostics /\ NoDiagnostics.removed = {} /\ ~NoDiagnostics.failed
  BY DEF NoDiagnostics, Diagnostics, Auths
<1>2. Unread \in [diag : Diagnostics, ids : SUBSET Events] /\ Unread.diag = NoDiagnostics
  BY <1>1 DEF Unread
<1>3. NoCleanup \in Cleanups /\ NoCleanup.status = "none" /\ ~NoCleanup.available
      /\ NoDenial \in Denials /\ ~NoDenial.available
  BY DEF NoCleanup, NoDenial, Cleanups, Denials, Statuses, Auths
<1>4. Stopped \in [stage : {"stopped", "loading", "posted", "idle"},
                   payload : SUBSET (Events \X Statuses)]
      /\ Stopped.stage = "stopped"
  BY DEF Stopped
<1>5. Typed
  BY <1>1, <1>2, <1>3, <1>4 DEF CalendarInit, InitShell, Typed, Statuses, Auths, SeedsDiffer
<1>6. Posted /\ OneEntryEach
  BY <1>4 DEF CalendarInit, InitShell, Posted, OneEntryEach
<1>7. Ahead
  BY DEF CalendarInit, InitShell, Ahead, SeedsDiffer
<1>8. Removals /\ Cancelled /\ Refusals
  BY <1>1, <1>2, <1>3 DEF CalendarInit, InitShell, Removals, Cancelled, Refusals
<1> QED
  BY <1>5, <1>6, <1>7, <1>8 DEF IInv

LEMMA StepKeeps ==
  ASSUME SeedsDiffer, IInv, [CalendarNext]_calendarVars
  PROVE  IInv'
<1>1. CASE BeginCollecting
  BY <1>1, BeginKeeps
<1>2. CASE Collect
  <2>1. CASE \/ ReadAfterRelaunch \/ ReadSeed \/ SkipCleanup \/ ReadBefore \/ NotSynced
             \/ ReadCleanup \/ ReadAfter \/ FinishCleanup \/ SkipDenial
    BY <2>1, ReadsAndSkips, CalmKeeps
  <2>2. CASE \/ RefreshSeed \/ PollBefore \/ RefreshCleanup \/ PollAfter \/ RefreshDenial
             \/ PrepareAccess \/ Revoke \/ ReadDenial
    BY <2>2, RefreshesAndAccess, CalmKeeps
  <2>3. CASE SeedFacts
    BY <2>3, SeedFactsKeeps
  <2>4. CASE CancelThroughH5
    BY <2>4, CancelKeeps
  <2>5. CASE SeedDenied
    BY <2>5, SeedDeniedKeeps
  <2> QED
    BY <1>2, <2>1, <2>2, <2>3, <2>4, <2>5 DEF Collect
<1>3. CASE ShellStep /\ UNCHANGED collector
  BY <1>3, ReadingKeeps, RefusalKeeps, SyncKeeps DEF ShellStep
<1>4. CASE UNCHANGED calendarVars
  BY <1>4 DEF calendarVars, shell, collector, IInv, Typed, Posted, Ahead, OneEntryEach, Removals,
              Gone, Cancelled, Refusals, Target
<1> QED
  BY <1>1, <1>2, <1>3, <1>4 DEF CalendarNext

LEMMA AlwaysIInv ==
  ASSUME SeedsDiffer
  PROVE  CalendarSpec => []IInv
<1>1. CalendarInit => IInv
  BY InitGives
<1>2. IInv /\ [CalendarNext]_calendarVars => IInv'
  BY StepKeeps
<1> QED
  BY <1>1, <1>2, PTL DEF CalendarSpec
-----------------------------------------------------------------------------
(* removeExistingEvent before eventStore.save: whatever events there are,   *)
(* and however often collector and app start anew, the system calendar      *)
(* never shows an event twice and an identifier is kept only for an event   *)
(* that is there.                                                           *)
THEOREM OneEntryOfEach ==
  ASSUME SeedsDiffer
  PROVE  CalendarSpec => []OneEntryEach
<1>1. IInv => OneEntryEach
  BY DEF IInv
<1> QED
  BY <1>1, AlwaysIInv, PTL

(* finalizeCalendarCleanupSeed and seedCalendarPermissionDenial: an         *)
(* available cleanup is of an event that was canceled and has left the      *)
(* calendar, an available denial is of a refusal this app met, for any      *)
(* number of runs over what earlier ones left behind.                       *)
THEOREM CalendarEvidenceHolds ==
  ASSUME SeedsDiffer
  PROVE  CalendarSpec => []CalendarEvidenceIsTrue
<1>1. IInv => CalendarEvidenceIsTrue
  BY DEF IInv, Cancelled, Gone, Refusals, CalendarEvidenceIsTrue, CleanupProvesRemoval,
         DenialHasARefusal
<1> QED
  BY <1>1, AlwaysIInv, PTL
=============================================================================
