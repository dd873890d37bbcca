-------------------------- MODULE Acceptance_proofs --------------------------
(***************************************************************************)
(* What any number of runs of the collector leave in one directory,        *)
(* whatever they find and wherever they are stopped, and what an audit of  *)
(* such packages proves. The files are written in one order, so that a run *)
(* that stands at a file has written those before it (Written); a run that *)
(* is not ready never comes to the records (Unready); what a run that      *)
(* exits with 0 has written stays until the next one (Kept). For the audit *)
(* the argument is that versions of the product only grow: no record that  *)
(* was there before is of a later one than the audit's commands saw first, *)
(* and HEAD of no earlier one than they saw last (Between, Headed); such a *)
(* record, read twice, is still the same (Chosen, Taken).                  *)
(***************************************************************************)
EXTENDS CollectorRun, AcceptanceFlow, WellFoundedInduction, TLAPS

Typed ==
    /\ run \in Nat
    /\ stage \in ToSet(Stages) \union ToSet(Files) \union {"idle", "exit"}
    /\ dir \in [ToSet(Files) -> Nat]
    /\ \A file \in ToSet(Files) : dir[file] =< run

Written ==
    /\ \A k \in DOMAIN Files : stage = Files[k] => \A j \in 1 .. (k - 1) : dir[Files[j]] = run
    /\ stage = "exit" /\ exit # "not ready" => \A file \in ToSet(Files) : dir[file] = run

Unready ==
    /\ stage \in ToSet(Stages) => exit = "running"
    /\ stage # "idle" => exit \in {"running", "not ready"}
    /\ stage # "idle" /\ exit = "not ready" => stage \in {Files[1], Files[2], "exit"}

Kept == exit = "ok" => stage = "idle" /\ \A file \in ToSet(Files) : dir[file] = run

IInv == Typed /\ Written /\ Unready /\ Kept /\ RecordsAreNeverNewer
-----------------------------------------------------------------------------
(* The seven files, each of them once. *)
LEMMA SevenFiles ==
    /\ Len(Files) = 7 /\ DOMAIN Files = 1 .. 7
    /\ Files[1] = "acceptance-evidence.json" /\ Files[2] = "manifest.json"
    /\ Files[3] = "summary.md" /\ Files[4] = "manual-checklist"
    /\ Files[5] = "template.json" /\ Files[6] = "draft.json" /\ Files[7] = "review.json"
    /\ Head(Files) = Files[1] /\ Last(Files) = Files[7]
BY DEF Files, Last

LEMMA FileSet ==
    /\ ToSet(Files) = {"acceptance-evidence.json", "manifest.json", "summary.md",
                       "manual-checklist", "template.json", "draft.json", "review.json"}
    /\ \A file \in ToSet(Files) : \E k \in 1 .. 7 : file = Files[k]
    /\ \A k \in 1 .. 7 : Files[k] \in ToSet(Files)
<1>1. ToSet(Files) = {Files[k] : k \in 1 .. 7}
  BY SevenFiles DEF ToSet
<1> QED
  BY <1>1, SevenFiles

LEMMA DistinctFiles == \A i, j \in 1 .. 7 : Files[i] = Files[j] => i = j
BY SevenFiles

LEMMA FirstSecondLast ==
    ASSUME NEW k \in 1 .. 7
    PROVE  /\ Files[k] = Files[1] => k = 1
           /\ Files[k] = Files[2] => k = 2
           /\ Files[k] = Files[7] => k = 7
<1>1. 1 \in 1 .. 7 /\ 2 \in 1 .. 7 /\ 7 \in 1 .. 7
  OBVIOUS
<1> QED
  BY <1>1, DistinctFiles

(* A file but the last is followed by the next. *)
LEMMA NextFile == \A k \in 1 .. 6 : Following(Files[k], Files) = Files[k + 1]
<1> SUFFICES ASSUME NEW k \in 1 .. 6 PROVE Following(Files[k], Files) = Files[k + 1]
  OBVIOUS
<1> DEFINE place == CHOOSE i \in DOMAIN Files : Files[i] = Files[k]
<1>1. k \in DOMAIN Files
  BY SevenFiles
<1>2. place \in DOMAIN Files /\ Files[place] = Files[k]
  BY <1>1
<1> HIDE DEF place
<1>3. place = k
  BY <1>1, <1>2, SevenFiles, DistinctFiles
<1>4. Following(Files[k], Files) = Files[1 + place]
  BY DEF Following, place
<1> QED
  BY <1>3, <1>4

(* The stages, none of which is a file, "idle" or "exit". *)
LEMMA FifteenStages ==
    /\ Len(Stages) = 15 /\ DOMAIN Stages = 1 .. 15
    /\ Stages[1] = "health" /\ Stages[2] = "build" /\ Stages[3] = "persistence"
    /\ Stages[4] = "readiness" /\ Stages[5] = "facts" /\ Stages[6] = "calendar app"
    /\ Stages[7] = "cleanup" /\ Stages[8] = "denial" /\ Stages[9] = "backflow"
    /\ Stages[10] = "delivery" /\ Stages[11] = "keyboard" /\ Stages[12] = "attachments"
    /\ Stages[13] = "UI tests" /\ Stages[14] = "surfaces" /\ Stages[15] = "bridge"
    /\ Head(Stages) = Stages[1] /\ Last(Stages) = Stages[15]
BY DEF Stages, Last

LEMMA StageSet ==
    /\ ToSet(Stages) = {"health", "build", "persistence", "readiness", "facts", "calendar app",
                        "cleanup", "denial", "backflow", "delivery", "keyboard", "attachments",
                        "UI tests", "surfaces", "bridge"}
    /\ Head(Stages) \in ToSet(Stages)
<1>1. ToSet(Stages) = {Stages[k] : k \in 1 .. 15}
  BY FifteenStages DEF ToSet
<1>2. {Stages[k] : k \in 1 .. 15} =
          {Stages[1], Stages[2], Stages[3], Stages[4], Stages[5], Stages[6], Stages[7], Stages[8],
           Stages[9], Stages[10], Stages[11], Stages[12], Stages[13], Stages[14], Stages[15]}
  OBVIOUS
<1> QED
  BY <1>1, <1>2, FifteenStages

(* After a stage comes a stage or the first file. *)
LEMMA NextStage ==
    ASSUME NEW part \in ToSet(Stages)
    PROVE  After(part) \in ToSet(Stages) \union {Files[1]}
<1> DEFINE place == CHOOSE i \in DOMAIN Stages : Stages[i] = part
<1>1. CASE part = Last(Stages)
  BY <1>1, SevenFiles DEF After
<1>2. CASE part # Last(Stages)
  <2>1. place \in DOMAIN Stages /\ Stages[place] = part
    BY DEF ToSet
  <2> HIDE DEF place
  <2>2. place # 15
    BY <1>2, <2>1, FifteenStages
  <2>3. 1 + place \in DOMAIN Stages
    <3>1. DOMAIN Stages = 1 .. 15
      BY FifteenStages
    <3>2. \A n \in 1 .. 15 : n # 15 => 1 + n \in 1 .. 15
      OBVIOUS
    <3> QED
      BY <2>1, <2>2, <3>1, <3>2
  <2>4. Stages[1 + place] \in ToSet(Stages)
    BY <2>3 DEF ToSet
  <2> QED
    BY <1>2, <2>4 DEF After, Following, place
<1> QED
  BY <1>1, <1>2

LEMMA Apart ==
    /\ "idle" \notin ToSet(Stages) /\ "exit" \notin ToSet(Stages)
    /\ \A k \in 1 .. 7 : Files[k] \notin ToSet(Stages) /\ Files[k] # "idle" /\ Files[k] # "exit"
    /\ Files[1] \notin ToSet(Stages) /\ Files[1] # "idle" /\ Files[1] # "exit"
<1>1. "idle" \notin ToSet(Stages) /\ "exit" \notin ToSet(Stages)
  BY StageSet
<1>2. ToSet(Files) \cap (ToSet(Stages) \union {"idle", "exit"}) = {}
  BY FileSet, StageSet
<1>3. \A k \in 1 .. 7 : Files[k] \notin ToSet(Stages) /\ Files[k] # "idle" /\ Files[k] # "exit"
  BY <1>2, FileSet
<1>4. 1 \in 1 .. 7
  OBVIOUS
<1> QED
  BY <1>1, <1>3, <1>4

(* Every part of the collection goes on to what follows it. *)
LEMMA CollectGoesOn ==
    ASSUME Collect
    PROVE  /\ stage \in ToSet(Stages)
           /\ UNCHANGED <<run, dir>>
           /\ \/ stage' = After(stage) /\ exit' = exit
              \/ stage' = Files[1] /\ exit' = "not ready"
<1> USE StageSet, SevenFiles DEF Gather, GatherAfter, Skip
<1>1. CASE CollectServiceHealth \/ CollectBuildAndLaunch \/ CollectConversationPersistence
  BY <1>1 DEF CollectServiceHealth, CollectBuildAndLaunch, CollectConversationPersistence
<1>2. CASE CheckReadiness
  BY <1>2 DEF CheckReadiness
<1>3. CASE \/ SeedAcceptanceFacts \/ CaptureCalendarSystemApp \/ SeedCalendarCleanup
           \/ SeedCalendarPermissionDenial
  BY <1>3 DEF SeedAcceptanceFacts, CaptureCalendarSystemApp, SeedCalendarCleanup,
              SeedCalendarPermissionDenial
<1>4. CASE \/ SeedNotificationClickBackflow \/ SeedNotificationDelivery
           \/ SeedNativeKeyboardInput \/ SeedNativeAttachmentInputs
  BY <1>4 DEF SeedNotificationClickBackflow, SeedNotificationDelivery, SeedNativeKeyboardInput,
              SeedNativeAttachmentInputs
<1>5. CASE CollectUiTestEvidence \/ CollectSurfaces \/ CollectNotificationSyncBridge
  BY <1>5 DEF CollectUiTestEvidence, CollectSurfaces, CollectNotificationSyncBridge
<1> QED
  BY <1>1, <1>2, <1>3, <1>4, <1>5 DEF Collect

(* A run writes its files from the first on, and nothing before that. *)
LEMMA CollectKeeps ==
    ASSUME IInv, Collect
    PROVE  IInv'
<1>1. /\ stage \in ToSet(Stages) /\ run' = run /\ dir' = dir
      /\ \/ stage' \in ToSet(Stages) \union {Files[1]} /\ exit' = exit
         \/ stage' = Files[1] /\ exit' = "not ready"
  BY CollectGoesOn, NextStage
<1>2. exit = "running" /\ exit' \in {"running", "not ready"}
  <2>1. exit = "running"
    BY <1>1 DEF IInv, Unready
  <2> QED
    BY <1>1, <2>1
<1>3. /\ stage' \in ToSet(Stages) \/ stage' = Files[1]
      /\ stage' # "exit" /\ stage' # "idle"
  <2>1. stage' \in ToSet(Stages) \/ stage' = Files[1]
    BY <1>1
  <2> QED
    BY <2>1, Apart
<1>4. Typed'
  <2>1. Files[1] \in ToSet(Files)
    BY FileSet, SevenFiles
  <2> QED
    BY <1>1, <1>3, <2>1 DEF IInv, Typed
<1>5. Written'
  <2>1. ASSUME NEW k \in 1 .. 7, stage' = Files[k] PROVE 1 .. (k - 1) = {}
    <3>1. k = 1
      BY <1>3, <2>1, Apart, FirstSecondLast
    <3> QED
      BY <3>1
  <2>2. DOMAIN Files = 1 .. 7
    BY SevenFiles
  <2> QED
    BY <1>3, <2>1, <2>2 DEF Written
<1>6. Unready'
  <2>1. stage' \in ToSet(Stages) => exit' = "running"
    BY <1>1, <1>2, Apart
  <2> QED
    BY <1>1, <1>2, <2>1 DEF Unready
<1>7. Kept' /\ RecordsAreNeverNewer'
  BY <1>1, <1>2 DEF IInv, Kept, RecordsAreNeverNewer
<1> QED
  BY <1>4, <1>5, <1>6, <1>7 DEF IInv

(* Each file is written after those it refers to. *)
LEMMA WriteKeeps ==
    ASSUME IInv, WriteFile
    PROVE  IInv'
<1>1. PICK k \in 1 .. 7 : stage = Files[k]
  BY FileSet DEF WriteFile
<1>2. /\ dir' = [dir EXCEPT ![Files[k]] = run]
      /\ run' = run /\ exit' = exit
      /\ stage' = IF Files[k] = LastFile THEN "exit" ELSE Following(Files[k], Files)
  BY <1>1 DEF WriteFile
<1> DEFINE Names == {Files[i] : i \in 1 .. 7}
<1>3. ToSet(Files) = Names /\ DOMAIN Files = 1 .. 7
  BY SevenFiles DEF ToSet
<1>4. run \in Nat /\ dir \in [ToSet(Files) -> Nat] /\ \A file \in ToSet(Files) : dir[file] =< run
  BY DEF IInv, Typed
<1>5. \A j \in 1 .. (k - 1) : dir[Files[j]] = run
  BY <1>1, <1>3 DEF IInv, Written
<1>6. /\ dir' \in [ToSet(Files) -> Nat]
      /\ dir'[Files[k]] = run
      /\ \A file \in ToSet(Files) : file # Files[k] => dir'[file] = dir[file]
  BY <1>2, <1>3, <1>4
<1>7. \A file \in ToSet(Files) : dir'[file] =< run
  BY <1>4, <1>6
<1>8. \A j \in 1 .. k : dir'[Files[j]] = run
  <2> SUFFICES ASSUME NEW j \in 1 .. k PROVE dir'[Files[j]] = run
    OBVIOUS
  <2>1. CASE j = k
    BY <2>1, <1>6
  <2>2. CASE j # k
    <3>1. j \in 1 .. (k - 1) /\ j \in 1 .. 7
      BY <2>2
    <3>2. Files[j] # Files[k]
      BY <2>2, <3>1, DistinctFiles
    <3> QED
      BY <1>3, <1>5, <1>6, <3>1, <3>2
  <2> QED
    BY <2>1, <2>2
<1>9. exit \in {"running", "not ready"} /\ (exit = "not ready" => k \in {1, 2})
  <2>1. stage # "idle" /\ stage # "exit"
    BY <1>1, Apart
  <2>2. exit \in {"running", "not ready"} /\ (exit = "not ready" => stage \in {Files[1], Files[2]})
    BY <2>1 DEF IInv, Unready
  <2> QED
    BY <1>1, <2>2, FirstSecondLast
<1>10. Kept'
  BY <1>2, <1>9 DEF Kept
(* A record is the fifth file at the earliest. *)
<1>11. RecordsAreNeverNewer'
  <2> SUFFICES ASSUME NEW i \in {5, 6, 7}
               PROVE  \A j \in {1, 2, 3} : dir'[Files[j]] >= dir'[Files[i]]
    BY SevenFiles DEF RecordsAreNeverNewer
  <2> SUFFICES ASSUME NEW j \in {1, 2, 3} PROVE dir'[Files[j]] >= dir'[Files[i]]
    OBVIOUS
  <2>1. Files[i] \in ToSet(Files) /\ Files[j] \in ToSet(Files)
    BY FileSet
  <2>2. CASE j =< k
    <3>1. dir'[Files[j]] = run
      BY <1>8, <2>2
    <3> QED
      BY <1>4, <1>6, <1>7, <2>1, <3>1
  <2>3. CASE ~(j =< k)
    <3>1. Files[i] # Files[k] /\ Files[j] # Files[k]
      BY <2>3, DistinctFiles
    <3>2. dir[Files[j]] >= dir[Files[i]]
      BY SevenFiles DEF IInv, RecordsAreNeverNewer
    <3> QED
      BY <1>6, <2>1, <3>1, <3>2
  <2> QED
    BY <2>2, <2>3
<1>12. CASE Files[k] = LastFile
  <2>1. stage' = "exit"
    BY <1>2, <1>12
  <2>2. exit # "not ready" => k = 7
    <3>1. exit # "not ready" => Files[k] = Files[7]
      BY <1>12, SevenFiles DEF LastFile
    <3> QED
      BY <3>1, FirstSecondLast
  <2>3. Typed' /\ Unready'
    BY <1>2, <1>4, <1>6, <1>7, <1>9, <2>1, Apart DEF Typed, Unready
  <2>4. \A i \in 1 .. 7 : stage' # Files[i]
    BY <2>1, Apart
  <2>5. exit # "not ready" => \A file \in ToSet(Files) : dir'[file] = run
    BY <1>3, <1>8, <2>2
  <2>6. Written'
    BY <1>2, <1>3, <2>4, <2>5 DEF Written
  <2> QED
    BY <1>10, <1>11, <2>3, <2>6 DEF IInv
<1>13. CASE Files[k] # LastFile
  <2>1. exit = "not ready" => k = 1
    BY <1>9, <1>13, SevenFiles DEF LastFile
  <2>2. k # 7
    <3>1. CASE exit = "not ready"
      <4>1. k = 1
        BY <2>1, <3>1
      <4> QED
        BY <4>1
    <3>2. CASE exit # "not ready"
      <4>1. Files[k] # Files[7]
        BY <1>13, <3>2, SevenFiles DEF LastFile
      <4> QED
        BY <4>1
    <3> QED
      BY <3>1, <3>2
  <2>3. k \in 1 .. 6 /\ k + 1 \in 1 .. 7
    BY <2>2
  <2>4. stage' = Files[k + 1]
    BY <1>2, <1>13, <2>3, NextFile
  <2>5. Typed'
    BY <1>2, <1>3, <1>4, <1>6, <1>7, <2>3, <2>4 DEF Typed
  <2>6. stage' \notin ToSet(Stages) /\ stage' # "idle" /\ stage' # "exit"
    BY <2>3, <2>4, Apart
  <2>7. exit = "not ready" => stage' = Files[2]
    <3>1. k = 1 => k + 1 = 2
      OBVIOUS
    <3> QED
      BY <2>1, <2>4, <3>1
  <2>8. Unready'
    BY <1>2, <1>9, <2>6, <2>7 DEF Unready
  <2>9. \A i \in 1 .. 7 : stage' = Files[i] => i = k + 1
    BY <2>3, <2>4, DistinctFiles
  <2>10. Written'
    <3>1. ASSUME NEW i \in 1 .. 7, stage' = Files[i], NEW j \in 1 .. (i - 1)
          PROVE  dir'[Files[j]] = run'
      <4>1. j \in 1 .. k
        BY <2>9, <3>1
      <4> QED
        BY <1>2, <1>8, <4>1
    <3> QED
      BY <1>3, <2>6, <3>1 DEF Written
  <2> QED
    BY <1>10, <1>11, <2>5, <2>8, <2>10 DEF IInv
<1> QED
  BY <1>12, <1>13

LEMMA AlwaysIInv == Spec => []IInv
<1>1. Init => IInv
  <2> SUFFICES ASSUME Init PROVE IInv
    OBVIOUS
  <2>1. run = 0 /\ stage = "idle" /\ exit = "none" /\ dir = [file \in ToSet(Files) |-> 0]
    BY DEF Init, NoRun
  <2>2. Typed
    BY <2>1 DEF Typed
  <2>3. Written
    BY <2>1, Apart, SevenFiles DEF Written
  <2>4. Unready /\ Kept
    BY <2>1, Apart DEF Unready, Kept
  <2>5. RecordsAreNeverNewer
    BY <2>1, FileSet DEF RecordsAreNeverNewer
  <2> QED
    BY <2>2, <2>3, <2>4, <2>5 DEF IInv
<1>2. IInv /\ [Next]_vars => IInv'
  <2> SUFFICES ASSUME IInv, [Next]_vars PROVE IInv'
    OBVIOUS
  <2>1. CASE UNCHANGED vars
    BY <2>1 DEF vars, IInv, Typed, Written, Unready, Kept, RecordsAreNeverNewer
  <2>2. CASE StartRun
    <3>1. run' = run + 1 /\ stage' \in ToSet(Stages) /\ exit' = "running" /\ UNCHANGED dir
      BY <2>2, StageSet DEF StartRun
    <3>2. Typed' /\ RecordsAreNeverNewer'
      BY <3>1, FileSet DEF IInv, Typed, RecordsAreNeverNewer
    <3>3. stage' # "exit" /\ \A k \in 1 .. 7 : stage' # Files[k]
      BY <3>1, Apart
    <3>4. Written'
      BY <3>3, SevenFiles DEF Written
    <3>5. Unready' /\ Kept'
      BY <3>1 DEF Unready, Kept
    <3> QED
      BY <3>2, <3>4, <3>5 DEF IInv
  <2>3. CASE Collect
    BY <2>3, CollectKeeps
  <2>4. CASE WriteFile
    BY <2>4, WriteKeeps
  <2>5. CASE ExitRun
    BY <2>5, FileSet, SevenFiles, StageSet
       DEF ExitRun, IInv, Typed, Written, Unready, Kept, RecordsAreNeverNewer
  <2>6. CASE Interrupt
    BY <2>6, FileSet, SevenFiles, StageSet
       DEF Interrupt, IInv, Typed, Written, Unready, Kept, RecordsAreNeverNewer
  <2> QED
    BY <2>1, <2>2, <2>3, <2>4, <2>5, <2>6 DEF Next
<1> QED
  BY <1>1, <1>2, PTL DEF Spec

-----------------------------------------------------------------------------
(* The package of a run that exits with 0 is its own, and no record is     *)
(* newer than what it refers to, for any number of runs into one directory *)
(* (main, from the evidence file to the exit code).                        *)
THEOREM PackagesAreWhole == Spec => []RunsAreWhole
<1>1. IInv => RunsAreWhole
  BY DEF IInv, Kept, RunsAreWhole, SuccessIsWhole
<1> QED
  BY <1>1, AlwaysIInv, PTL

-----------------------------------------------------------------------------
(* What the review of a package rests on. A label is suggested for one     *)
(* thing found, or for one of a few; the ledger markers alone do not tell  *)
(* a confirmed seed from a cancelled event, and there the entry in the     *)
(* system calendar does, which is looked for after the seed only.          *)
Founded ==
    /\ exit = "ok" => RequiredCommands \subseteq found
    /\ "calendar app" \in found => "facts" \in found

(* An item of which nothing is missing is suggested all that is required.  *)
LEMMA NothingMissing ==
    ASSUME NEW things, StillMissing(things) = {}, NEW item \in Items
    PROVE  Required[item] \subseteq Suggested(things)[item]
BY DEF StillMissing

LEMMA WhenFound ==
    ASSUME NEW condition \in BOOLEAN, NEW labels, NEW label \in When(condition, labels)
    PROVE  condition /\ label \in labels
BY DEF When

(* The items of the address, the conversation, the pages and the keyboard. *)
LEMMA FirstItems ==
    ASSUME NEW things, StillMissing(things) = {}
    PROVE  {"private LAN", "target marker", "id before", "id after", "same id",
            "navigation UI test", "surfaces", "keyboard UI test", "keyboard input"}
              \subseteq things
<1>1. {Shot("launch at the LAN address"), Marker("h5NativeTargetMarkerFound")}
         \subseteq AddressLabels(things)
  BY NothingMissing DEF Items, Required, Suggested
<1>2. {Api("turns"), Shot("id before the relaunch"), Shot("id after the relaunch")}
         \subseteq PersistenceLabels(things)
  BY NothingMissing DEF Items, Required, Suggested
<1>3. {Shot("header"), Shot("seven pages")} \subseteq NavigationLabels(things)
  BY NothingMissing DEF Items, Required, Suggested
<1>4. {Shot("input text"), Api("reminders")} \subseteq KeyboardLabels(things)
  BY NothingMissing DEF Items, Required, Suggested
<1> QED
  BY <1>1, <1>2, <1>3, <1>4
  DEF AddressLabels, PersistenceLabels, NavigationLabels, KeyboardLabels, When,
      Shot, Api, Marker, Artifact

(* Those of voice, attachments and notifications. *)
LEMMA MiddleItems ==
    ASSUME NEW things, StillMissing(things) = {}
    PROVE  {"voice UI test", "voice permission UI test", "attachment UI test",
            "attachment inputs", "expense record", "schedule follow-up", "reminder card",
            "delivery reminder", "notification UI test"} \subseteq things
<1>1. {Shot("permission prompt"), Shot("recognized text")} \subseteq VoiceLabels(things)
  BY NothingMissing DEF Items, Required, Suggested
<1>2. {Api("attachments"), Api("expenses"), Shot("PhotosPicker")} \subseteq PhotoLabels(things)
  BY NothingMissing DEF Items, Required, Suggested
<1>3. {Shot("follow-up")} \subseteq PdfLabels(things)
  BY NothingMissing DEF Items, Required, Suggested
<1>4. {Shot("reminder card"), Shot("reminders scheduled"), Artifact("system notification")}
         \subseteq NotificationLabels(things)
  BY NothingMissing DEF Items, Required, Suggested
<1>5. {"voice UI test", "voice permission UI test"} \subseteq things
  BY <1>1 DEF VoiceLabels, When, Shot, Api, Marker, Artifact
<1>6. {"attachment UI test", "attachment inputs", "expense record"} \subseteq things
  BY <1>2 DEF PhotoLabels, StoredLabels, When, Shot, Api, Marker, Artifact
<1>7. "schedule follow-up" \in things
  BY <1>3 DEF PdfLabels, StoredLabels, When, Shot, Api, Marker, Artifact
<1>8. {"reminder card", "delivery reminder", "notification UI test"} \subseteq things
  BY <1>4 DEF NotificationLabels, When, Shot, Api, Marker, Artifact
<1> QED
  BY <1>5, <1>6, <1>7, <1>8

(* Those of the tap, the calendar and the refused permission. *)
LEMMA LastItems ==
    ASSUME NEW things, StillMissing(things) = {}
    PROVE  {"backflow reminder", "backflow highlighted", "calendar card", "calendar app",
            "cleanup", "denial"} \subseteq things
<1>1. {Shot("highlighted reminder"), Api("reminders")} \subseteq BackflowLabels(things)
  BY NothingMissing DEF Items, Required, Suggested
<1>2. {Shot("calendar card"), Shot("calendar scheduled")} \subseteq CalendarWriteLabels(things)
  BY NothingMissing DEF Items, Required, Suggested
<1>3. {Marker("status=canceled")} \subseteq CleanupLabels(things)
  BY NothingMissing DEF Items, Required, Suggested
<1>4. {Marker("native.error")} \subseteq DegradationLabels(things)
  BY NothingMissing DEF Items, Required, Suggested
<1> QED
  BY <1>1, <1>2, <1>3, <1>4
  DEF BackflowLabels, CalendarWriteLabels, CleanupLabels, DegradationLabels, When,
      Shot, Api, Marker, Artifact

LEMMA CompleteGivesVital ==
    ASSUME Founded, exit = "ok", StillMissing(found) = {}
    PROVE  Vital \ When("skip build" \in options, {"build"}) \subseteq found
<1>1. AlwaysRequired \union When("skip build" \notin options, {"build"}) \subseteq found
  BY DEF Founded, RequiredCommands
<1>2. "facts" \in found
  BY LastItems DEF Founded
<1> QED
  BY <1>1, <1>2, FirstItems, MiddleItems, LastItems DEF Vital, UiTests, When

(* Who finds everything is suggested everything. *)
LEMMA EverythingSuffices ==
    ASSUME NEW things, Everything \subseteq things
    PROVE  StillMissing(things) = {}
<1> USE DEF Everything, UiTests, When
<1>1. Required["h5_address_override"] \subseteq Suggested(things)["h5_address_override"]
  BY DEF Suggested, Required, AddressLabels
<1>2. Required["conversation_persistence"] \subseteq Suggested(things)["conversation_persistence"]
  BY DEF Suggested, Required, PersistenceLabels
<1>3. Required["navigation_surfaces"] \subseteq Suggested(things)["navigation_surfaces"]
  BY DEF Suggested, Required, NavigationLabels
<1>4. Required["keyboard_input"] \subseteq Suggested(things)["keyboard_input"]
  BY DEF Suggested, Required, KeyboardLabels
<1>5. Required["voice_input"] \subseteq Suggested(things)["voice_input"]
  BY DEF Suggested, Required, VoiceLabels
<1>6. Required["photo_attachment"] \subseteq Suggested(things)["photo_attachment"]
  BY ZenonT(60) DEF Suggested, Required, PhotoLabels, StoredLabels
<1>7. Required["file_attachment"] \subseteq Suggested(things)["file_attachment"]
  BY ZenonT(60) DEF Suggested, Required, FileLabels, StoredLabels
<1>8. Required["pdf_text_extraction"] \subseteq Suggested(things)["pdf_text_extraction"]
  BY ZenonT(60) DEF Suggested, Required, PdfLabels, StoredLabels
<1>9. Required["local_notification"] \subseteq Suggested(things)["local_notification"]
  BY DEF Suggested, Required, NotificationLabels
<1>10. Required["notification_click_backflow"] \subseteq Suggested(things)["notification_click_backflow"]
  BY DEF Suggested, Required, BackflowLabels
<1>11. Required["system_calendar_write"] \subseteq Suggested(things)["system_calendar_write"]
  BY DEF Suggested, Required, CalendarWriteLabels
<1>12. Required["system_calendar_cleanup"] \subseteq Suggested(things)["system_calendar_cleanup"]
  BY DEF Suggested, Required, CleanupLabels
<1>13. Required["backend_fact_confirmation"] \subseteq Suggested(things)["backend_fact_confirmation"]
  BY DEF Suggested, Required, BackendFactLabels
<1>14. Required["system_sync_degradation"] \subseteq Suggested(things)["system_sync_degradation"]
  BY DEF Suggested, Required, DegradationLabels
<1>15. Items = {"h5_address_override", "conversation_persistence", "navigation_surfaces",
                "keyboard_input", "voice_input", "photo_attachment", "file_attachment",
                "pdf_text_extraction", "local_notification", "notification_click_backflow",
                "system_calendar_write", "system_calendar_cleanup",
                "backend_fact_confirmation", "system_sync_degradation"}
  BY DEF Items, Required
<1>16. \A item \in Items : Required[item] \subseteq Suggested(things)[item]
  BY <1>1, <1>2, <1>3, <1>4, <1>5, <1>6, <1>7, <1>8, <1>9, <1>10, <1>11, <1>12, <1>13, <1>14,
     <1>15
<1> QED
  BY <1>16 DEF StillMissing

(* What is found in a run stays found, and the calendar entry is looked    *)
(* for after the seed only.                                                *)
LEMMA CollectFinds ==
    ASSUME Collect
    PROVE  /\ found \subseteq found'
           /\ "calendar app" \in found' => "calendar app" \in found \/ "facts" \in found
<1> USE DEF Gather, GatherAfter, Skip
<1>1. CASE CollectServiceHealth \/ CollectBuildAndLaunch \/ CollectConversationPersistence
  <2>1. CASE CollectServiceHealth
    BY <2>1 DEF CollectServiceHealth, HealthParts
  <2>2. CASE CollectBuildAndLaunch
    <3>1. "calendar app" \notin LaunchesFor
      BY DEF LaunchesFor, When
    <3> QED
      BY <2>2, <3>1 DEF CollectBuildAndLaunch, When
  <2>3. CASE CollectConversationPersistence
    BY <2>3 DEF CollectConversationPersistence, IdParts
  <2> QED
    BY <1>1, <2>1, <2>2, <2>3
<1>2. CASE CheckReadiness
  BY <1>2 DEF CheckReadiness
<1>3. CASE \/ SeedAcceptanceFacts \/ CaptureCalendarSystemApp \/ SeedCalendarCleanup
           \/ SeedCalendarPermissionDenial
  BY <1>3 DEF SeedAcceptanceFacts, CaptureCalendarSystemApp, SeedCalendarCleanup,
              SeedCalendarPermissionDenial, FactParts, CleanupParts
<1>4. CASE SeedNotificationClickBackflow \/ SeedNotificationDelivery
  BY <1>4 DEF SeedNotificationClickBackflow, SeedNotificationDelivery, BackflowParts,
              DeliveryParts
<1>5. CASE SeedNativeKeyboardInput \/ SeedNativeAttachmentInputs
  <2>1. CASE SeedNativeKeyboardInput
    BY <2>1 DEF SeedNativeKeyboardInput
  <2>2. CASE SeedNativeAttachmentInputs
    <3>1. \A clarified \in BOOLEAN :
            "calendar app" \notin AttachmentParts \union When(~clarified, {"expense record"})
      BY DEF AttachmentParts, When
    <3> QED
      BY <2>2, <3>1 DEF SeedNativeAttachmentInputs
  <2> QED
    BY <1>5, <2>1, <2>2
<1>6. CASE CollectUiTestEvidence \/ CollectSurfaces \/ CollectNotificationSyncBridge
  BY <1>6 DEF CollectUiTestEvidence, CollectSurfaces, CollectNotificationSyncBridge, UiTests
<1> QED
  BY <1>1, <1>2, <1>3, <1>4, <1>5, <1>6 DEF Collect

LEMMA AlwaysFounded == Spec => []Founded
<1>1. Init => Founded
  BY DEF Init, Founded
<1>2. IInv /\ Founded /\ [Next]_vars => Founded'
  <2> SUFFICES ASSUME IInv, Founded, [Next]_vars PROVE Founded'
    OBVIOUS
  <2>1. CASE UNCHANGED vars
    BY <2>1 DEF vars, Founded, RequiredCommands
  <2>2. CASE StartRun
    BY <2>2 DEF StartRun, Founded
  <2>3. CASE Collect
    <3>1. exit' # "ok"
      <4>1. exit = "running"
        BY <2>3, CollectGoesOn DEF IInv, Unready
      <4> QED
        BY <2>3, <4>1, CollectGoesOn
    <3> QED
      BY <2>3, <3>1, CollectFinds DEF Founded
  <2>4. CASE WriteFile
    BY <2>4 DEF WriteFile, Founded, RequiredCommands
  <2>5. CASE ExitRun
    BY <2>5 DEF ExitRun, Founded, RequiredCommands
  <2>6. CASE Interrupt
    BY <2>6 DEF Interrupt, Founded
  <2> QED
    BY <2>1, <2>2, <2>3, <2>4, <2>5, <2>6 DEF Next
<1> QED
  BY <1>1, <1>2, AlwaysIInv, PTL DEF Spec

(* A run that exits with 0 and whose review misses nothing really found    *)
(* each of the things an acceptance rests on, and a run that found         *)
(* everything leaves nothing missing, for any number of runs and misses    *)
(* (main and the guides of manual-evidence-review.mjs).                    *)
THEOREM ReviewsAreFounded == Spec => []ReviewIsFounded
<1>1. Founded => ReviewIsFounded
  BY CompleteGivesVital, EverythingSuffices
     DEF ReviewIsFounded, CompleteReviewIsFounded, FullRunIsComplete
<1> QED
  BY <1>1, AlwaysFounded, PTL
-----------------------------------------------------------------------------
(* The audit of the packages. *)

Fields == {"kind", "head", "verdict", "status", "evidence", "sign"}

History ==
    /\ log \in Seq(Nat) /\ Len(log) > 0
    /\ \A i, j \in 1..HEAD : i <= j => log[i] <= log[j]
    /\ tree \in Nat /\ log[HEAD] <= tree
    /\ clock \in Nat

(* Every record is of a commit there is, or of none.                       *)
OfACommit(r) == DOMAIN r = Fields /\ r.head \in 0..HEAD

Filed ==
    /\ DOMAIN files = Packages /\ DOMAIN mtime = Packages
    /\ \A p \in Packages :
          /\ DOMAIN files[p] = Slots /\ DOMAIN mtime[p] = Slots
          /\ \A s \in Slots : /\ Exists(p, s) => OfACommit(files[p][s])
                              /\ mtime[p][s] \in Nat /\ mtime[p][s] <= clock

Collecting ==
    /\ DOMAIN collecting = Packages
    /\ \A p \in Packages : collecting[p] # Idle => collecting[p].head \in 0..HEAD

(* What the audit's commands saw is not older than what the records of     *)
(* before show, and not newer than HEAD when it was committed.             *)
Between ==
    audit # Idle =>
        /\ audit.pc # "idle"
        /\ audit.began \in Nat /\ audit.began <= clock
        /\ audit.versions # {} /\ audit.versions \subseteq Nat
        /\ \A p \in Packages, s \in Slots, v \in audit.versions :
              Exists(p, s) /\ mtime[p][s] <= audit.began /\ files[p][s].head # NoHead
                 => log[files[p][s].head] <= v
        /\ audit.pc = "running" => \A v \in audit.versions : v <= tree
        /\ audit.pc # "running" /\ audit.clean => \A v \in audit.versions : v <= log[HEAD]

(* The head it read first is not older than that either.                   *)
Headed ==
    audit.pc \in {"headed", "selected", "read", "passed"} =>
        /\ audit.head \in 0..HEAD
        /\ audit.clean /\ audit.head # NoHead =>
              \A v \in audit.versions : v <= log[audit.head]

(* A record of before stays the one that was chosen.                       *)
Chosen ==
    audit.pc = "selected" =>
        /\ audit.package \in Packages /\ audit.slot \in Slots /\ audit.chosen \in 0..HEAD
        /\ Exists(audit.package, audit.slot)
        /\ mtime[audit.package][audit.slot] <= audit.began =>
              files[audit.package][audit.slot].head = audit.chosen

Taken ==
    audit.pc \in {"read", "passed"} =>
        /\ audit.record.head \in 0..HEAD /\ audit.chosen \in 0..HEAD
        /\ audit.written <= audit.began =>
              /\ audit.record.head = audit.chosen
              /\ audit.record.head # NoHead =>
                    \A v \in audit.versions : log[audit.record.head] <= v

Ended == /\ audit.pc = "passed" => audit.judged \in 0..HEAD
         /\ RecordIsOfAHead /\ CommandsRanOnTheRecord

OfTheAudit == Between /\ Headed /\ Chosen /\ Taken /\ Ended
FlowInv == History /\ Filed /\ Collecting /\ OfTheAudit
-----------------------------------------------------------------------------
LEMMA LeastOf ==
    ASSUME NEW T \in SUBSET Nat, T # {}
    PROVE  \E m \in T : \A k \in T : m <= k
<1>1. IsWellFoundedOn(OpToRel(<, Nat), Nat)
  BY NatLessThanWellFounded
<1>2. PICK m \in T : \A k \in Nat : <<k, m>> \in OpToRel(<, Nat) => ~ (k \in T)
  BY <1>1, WFMin
<1>3. \A k \in T : ~ (k < m)
  BY <1>2 DEF OpToRel
<1> QED
  BY <1>3

LEMMA HeadIsACommit == ASSUME History PROVE HEAD \in 1..HEAD /\ HEAD \in Nat
BY DEF History, HEAD

(* Steps that change nothing lead to the version they began with. *)
LEMMA NothingChanged ==
    ASSUME History, NEW a \in 1..HEAD, NEW b \in a..HEAD,
           \A c \in (a + 1) .. b : log[c] = log[c - 1]
    PROVE  log[a] = log[b]
<1> SUFFICES ASSUME log[a] # log[b] PROVE FALSE
  OBVIOUS
<1>1. HEAD \in Nat
  BY HeadIsACommit
<1> DEFINE Changed == {k \in a .. b : log[k] # log[a]}
<1>2. Changed \in SUBSET Nat /\ b \in Changed
  BY <1>1
<1>3. PICK m \in Changed : \A k \in Changed : m <= k
  BY <1>2, LeastOf
<1>4. m - 1 \in a .. b /\ m \in (a + 1) .. b
  BY <1>1, <1>3
<1>5. log[m - 1] = log[a]
  BY <1>1, <1>3, <1>4
<1> QED
  BY <1>3, <1>4, <1>5

(* Commits of documentation only, the one way or the other, leave the      *)
(* product as it was.                                                      *)
LEMMA DocsKeepTheProduct ==
    ASSUME History, NEW h \in 1..HEAD, NEW head \in 1..HEAD,
           DocsOnly(log, ChangedFiles(h, head))
    PROVE  log[h] = log[head]
<1>1. HEAD \in Nat /\ h # NoHead /\ head # NoHead
  BY HeadIsACommit DEF NoHead
<1>2. CASE h <= head
  <2>1. \A c \in (h + 1) .. head : log[c] = log[c - 1]
    BY <1>1, <1>2 DEF DocsOnly, ChangedFiles
  <2> QED
    BY <1>1, <1>2, <2>1, NothingChanged
<1>3. CASE head <= h
  <2>1. \A c \in (head + 1) .. h : log[c] = log[c - 1]
    BY <1>1, <1>3 DEF DocsOnly, ChangedFiles
  <2>2. log[head] = log[h]
    BY <1>1, <1>3, <2>1, NothingChanged
  <2> QED
    BY <2>2
<1> QED
  BY <1>1, <1>2, <1>3

(* The first of the sorted candidates is complete when one of them is, and *)
(* is of the very commit: the rank of its freshness comes first, and no    *)
(* other commit has the rank of this one.                                  *)
LEMMA BestIsComplete ==
    ASSUME NEW head, NEW candidates, NEW c \in Foremost(log, head, "best", candidates),
           NEW d \in candidates, RequireComplete(d.record), d.record.head = head
    PROVE  RequireComplete(c.record)
<1> SUFFICES ASSUME ~ RequireComplete(c.record) PROVE FALSE
  OBVIOUS
<1> DEFINE dKey == BestKey(log, head, d)
           cKey == BestKey(log, head, c)
<1>1. ~ Precedes(dKey, cKey)
  BY DEF Foremost
<1>2. DOMAIN dKey = 1 .. 6 /\ dKey[3] = 0
      /\ dKey[1] = FreshnessRank(Freshness(log, head, d.record))
      /\ dKey[2] = Cardinality(ChangedFiles(head, head))
  BY DEF BestKey
<1>3. /\ cKey[1] = FreshnessRank(Freshness(log, head, c.record)) /\ cKey[3] = 1
      /\ cKey[2] = Cardinality(ChangedFiles(c.record.head, head))
  BY DEF BestKey
<1>4. CASE c.record.head = head
  <2>1. cKey[1] = dKey[1] /\ cKey[2] = dKey[2]
    BY <1>2, <1>3, <1>4 DEF Freshness
  <2>2. \A j \in 1 .. (3 - 1) : dKey[j] = cKey[j]
    BY <1>2, <2>1
  <2> HIDE DEF dKey, cKey
  <2> QED
    BY <1>1, <1>2, <1>3, <2>2 DEF Precedes
<1>5. CASE c.record.head # head /\ head # NoHead
  <2>1. dKey[1] = 0 /\ cKey[1] \in {1, 2, 3}
    BY <1>2, <1>3, <1>5 DEF FreshnessRank, Freshness, FreshnessStatus
  <2>2. \A j \in 1 .. (1 - 1) : dKey[j] = cKey[j]
    OBVIOUS
  <2>3. dKey[1] < cKey[1]
    BY <2>1
  <2> HIDE DEF dKey, cKey
  <2> QED
    BY <1>1, <1>2, <2>2, <2>3 DEF Precedes
<1>6. CASE c.record.head # head /\ head = NoHead
  <2>1. dKey[1] = 2 /\ cKey[1] = 2
    BY <1>2, <1>3, <1>6 DEF FreshnessRank, Freshness, FreshnessStatus
  <2>2. ChangedFiles(c.record.head, head) = {} /\ ChangedFiles(head, head) = {}
    BY <1>6 DEF ChangedFiles
  <2>3. \A j \in 1 .. (3 - 1) : dKey[j] = cKey[j]
    BY <1>2, <1>3, <2>1, <2>2
  <2> HIDE DEF dKey, cKey
  <2> QED
    BY <1>1, <1>2, <1>3, <2>3 DEF Precedes
<1> QED
  BY <1>4, <1>5, <1>6

LEMMA InitFlowInv == FlowInit => FlowInv
<1> SUFFICES ASSUME FlowInit PROVE FlowInv
  OBVIOUS
<1>1. log = <<1>> /\ HEAD = 1 /\ log[1] = 1
  BY DEF FlowInit, HEAD
<1>2. History
  BY <1>1 DEF FlowInit, History
<1>3. Filed
  BY DEF FlowInit, Filed, Exists
<1>4. /\ audit = Idle /\ audit.pc = "idle"
      /\ DOMAIN collecting = Packages /\ \A p \in Packages : collecting[p] = Idle
  BY DEF FlowInit, Idle
<1>5. Collecting /\ OfTheAudit
  BY <1>4 DEF Collecting, OfTheAudit, Between, Headed, Chosen, Taken, Ended, RecordIsOfAHead,
              CommandsRanOnTheRecord, Passed
<1> QED
  BY <1>2, <1>3, <1>5 DEF FlowInv

(* An audit that is given up leaves nothing to be sound about. *)
LEMMA AuditGivenUp == ASSUME audit' = Idle PROVE OfTheAudit'
BY DEF OfTheAudit, Between, Headed, Chosen, Taken, Ended, RecordIsOfAHead,
       CommandsRanOnTheRecord, Passed, Idle

(* The history only grows, and no version in it is undone. *)
LEMMA Committing ==
    ASSUME FlowInv, NEW version \in Nat, log[HEAD] <= version, version <= tree',
           log' = Append(log, version), tree' \in Nat, tree <= tree',
           UNCHANGED <<files, mtime, clock, collecting, audit>>
    PROVE  FlowInv'
<1> USE DEF FlowInv
<1>1. /\ log' \in Seq(Nat) /\ HEAD \in Nat /\ HEAD > 0 /\ HEAD' = HEAD + 1
      /\ log'[HEAD'] = version /\ \A i \in 1..HEAD : log'[i] = log[i]
  BY DEF History, HEAD
<1>2. \A i \in 1..HEAD' : i \in 1..HEAD \/ i = HEAD'
  BY <1>1
<1>3. \A i \in 1..HEAD : log[i] \in Nat /\ log[i] <= log[HEAD]
  BY <1>1 DEF History, HEAD
<1>4. log[HEAD] \in Nat
  <2>1. HEAD \in 1..HEAD
    BY <1>1
  <2> QED
    BY <1>3, <2>1
<1>5. \A i, j \in 1..HEAD' : i <= j => log'[i] <= log'[j]
  <2> SUFFICES ASSUME NEW i \in 1..HEAD', NEW j \in 1..HEAD', i <= j
               PROVE  log'[i] <= log'[j]
    OBVIOUS
  <2>1. CASE j \in 1..HEAD
    <3>1. i \in 1..HEAD
      BY <1>1, <2>1
    <3>2. log[i] <= log[j]
      BY <2>1, <3>1 DEF History
    <3> QED
      BY <1>1, <2>1, <3>1, <3>2
  <2>2. CASE j = HEAD' /\ i \in 1..HEAD
    <3>1. log[i] \in Nat /\ log[i] <= log[HEAD]
      BY <1>3, <2>2
    <3>2. log'[j] = version /\ log'[i] = log[i]
      BY <1>1, <2>2
    <3> QED
      BY <1>4, <3>1, <3>2
  <2>3. CASE i = HEAD' /\ j = HEAD'
    <3>1. log'[i] = version /\ log'[j] = version
      BY <1>1, <2>3
    <3> QED
      BY <3>1
  <2> QED
    BY <1>2, <2>1, <2>2, <2>3
<1>6. History'
  BY <1>1, <1>5 DEF History, HEAD
<1>7. /\ \A h \in 0..HEAD : h \in 0..HEAD' /\ (h # NoHead => log'[h] = log[h])
      /\ \A v \in Nat : v <= log[HEAD] => v <= log'[HEAD']
      /\ \A v \in Nat : v <= tree => v <= tree'
  <2>1. \A h \in 0..HEAD : h \in 0..HEAD' /\ (h # NoHead => log'[h] = log[h])
    <3> HIDE DEF FlowInv
    <3>1. \A h \in 0..HEAD : h \in 0..HEAD' /\ (h # NoHead => h \in 1..HEAD)
      BY <1>1 DEF NoHead
    <3> QED
      BY <1>1, <3>1
  <2>2. \A v \in Nat : v <= log[HEAD] => v <= log'[HEAD']
    BY <1>1, <1>4
  <2>3. \A v \in Nat : v <= tree => v <= tree'
    BY DEF History
  <2> QED
    BY <2>1, <2>2, <2>3
<1>8. Filed'
  BY <1>7 DEF Filed, OfACommit, Exists
<1>9. Collecting'
  BY <1>7 DEF Collecting
<1>10. OfTheAudit'
  <2>1. Between'
    BY <1>7 DEF OfTheAudit, Between, Filed, OfACommit, Exists
  <2>3. Headed'
    BY <1>7 DEF OfTheAudit, Between, Headed, Idle
  <2>4. Chosen'
    BY <1>7 DEF OfTheAudit, Chosen, Exists
  <2>5. Taken'
    BY <1>7 DEF OfTheAudit, Taken
  <2>6. Passed => /\ log'[audit.record.head] = log[audit.record.head]
                  /\ log'[audit.judged] = log[audit.judged]
                  /\ audit.head # NoHead => log'[audit.head] = log[audit.head]
    BY <1>7 DEF OfTheAudit, Passed, Headed, Taken, Ended
  <2>7. Ended'
    <3>1. audit.pc = "passed" => audit.judged \in 0..HEAD'
      BY <1>7 DEF OfTheAudit, Ended
    <3>2. RecordIsOfAHead'
      BY <2>6 DEF OfTheAudit, Ended, RecordIsOfAHead, Passed
    <3>3. {log'[h] : h \in {audit.head} \ {NoHead}} = {log[h] : h \in {audit.head} \ {NoHead}}
          \/ ~ Passed
      BY <2>6
    <3>4. CommandsRanOnTheRecord'
      BY <2>6, <3>3 DEF OfTheAudit, Ended, CommandsRanOnTheRecord, Passed
    <3> QED
      BY <3>1, <3>2, <3>4 DEF Ended
  <2> QED
    BY <2>1, <2>3, <2>4, <2>5, <2>7 DEF OfTheAudit
<1> QED
  BY <1>6, <1>8, <1>9, <1>10

(* A record written now is none of those from before an audit began. *)
LEMMA RecordWritten ==
    ASSUME FlowInv, NEW p \in Packages, NEW s \in Slots, NEW r,
           Write(p, s, r), r # None, OfACommit(r), UNCHANGED <<log, tree, audit>>, Collecting'
    PROVE  FlowInv'
<1> USE DEF FlowInv
<1>1. /\ files' = [files EXCEPT ![p][s] = r]
      /\ mtime' = [mtime EXCEPT ![p][s] = clock + 1]
      /\ clock' = clock + 1 /\ clock \in Nat
  BY DEF Write, History
<1>2. /\ DOMAIN files' = Packages /\ DOMAIN mtime' = Packages
      /\ \A q \in Packages :
            /\ DOMAIN files'[q] = Slots /\ DOMAIN mtime'[q] = Slots
            /\ \A t \in Slots :
                  \/ files'[q][t] = r /\ mtime'[q][t] = clock + 1
                  \/ /\ files'[q][t] = files[q][t] /\ mtime'[q][t] = mtime[q][t]
                     /\ Exists(q, t)' <=> Exists(q, t)
      /\ \A q \in Packages, t \in Slots : Exists(q, t) => Exists(q, t)'
  BY <1>1 DEF Filed, Exists
<1>3. HEAD' = HEAD
  BY DEF HEAD
<1>4. History'
  BY <1>1, <1>3 DEF History
<1>5. Filed'
  <2>1. \A q \in Packages, t \in Slots :
           (Exists(q, t) => OfACommit(files[q][t]))' /\ mtime'[q][t] \in Nat
              /\ mtime'[q][t] <= clock'
    BY <1>1, <1>2, <1>3 DEF Filed, OfACommit
  <2> QED
    BY <1>2, <2>1 DEF Filed
<1>6. Between'
  <2> SUFFICES ASSUME audit # Idle PROVE Between'
    BY DEF Between
  <2>1. audit.began \in Nat /\ audit.began <= clock
    BY DEF OfTheAudit, Between
  <2>2. \A q \in Packages, t \in Slots, v \in audit.versions :
           Exists(q, t)' /\ mtime'[q][t] <= audit.began /\ files'[q][t].head # NoHead
             => log[files'[q][t].head] <= v
    BY <1>1, <1>2, <2>1 DEF OfTheAudit, Between
  <2>3. audit.began <= clock'
    BY <1>1, <2>1
  <2> QED
    BY <1>3, <2>2, <2>3 DEF OfTheAudit, Between
<1>7. Chosen'
  <2> SUFFICES ASSUME audit.pc = "selected" PROVE Chosen'
    BY DEF Chosen
  <2>1. /\ audit.package \in Packages /\ audit.slot \in Slots /\ audit.chosen \in 0..HEAD
        /\ Exists(audit.package, audit.slot)
        /\ audit.began \in Nat /\ audit.began <= clock
    BY DEF OfTheAudit, Chosen, Between, Idle
  <2>2. mtime'[audit.package][audit.slot] <= audit.began =>
           files'[audit.package][audit.slot].head = audit.chosen
    BY <1>1, <1>2, <2>1 DEF OfTheAudit, Chosen
  <2> QED
    BY <1>2, <1>3, <2>1, <2>2 DEF Chosen
<1>8. Headed' /\ Taken' /\ Ended'
  BY <1>3 DEF OfTheAudit, Headed, Taken, Ended, RecordIsOfAHead, CommandsRanOnTheRecord, Passed
<1> QED
  BY <1>4, <1>5, <1>6, <1>7, <1>8 DEF OfTheAudit

LEMMA SomeRecord == ASSUME NEW r, OfACommit(r) PROVE r # None
BY DEF OfACommit, Fields, None

(* The commands that make a record of another one keep its head. *)
LEMMA RecordsKept ==
    ASSUME FlowInv, NEW p \in Packages, NEW s \in Slots,
           \/ \E i \in RecordItems : AddEvidence(p, s, i) \/ MarkByHand(p, s, i)
           \/ FillDraft(p, s) \/ SignRecord(p, s) \/ AttachMetadata(p)
    PROVE  FlowInv'
<1>1. \A t \in Slots : Exists(p, t) => OfACommit(files[p][t])
  BY DEF FlowInv, Filed
<1>2. "filled" \in Slots /\ "notification" \in Slots /\ "review" \in Slots
  BY DEF Slots
<1>3. UNCHANGED <<log, tree, collecting, audit>> /\ HEAD' = HEAD
  BY DEF AddEvidence, MarkByHand, FillDraft, SignRecord, AttachMetadata, repo, HEAD
<1>4. Collecting'
  BY <1>3 DEF FlowInv, Collecting
<1>5. ASSUME NEW t \in Slots, NEW r, Write(p, t, r), OfACommit(r) PROVE FlowInv'
  BY <1>3, <1>4, <1>5, SomeRecord, RecordWritten
<1>6. ASSUME NEW i \in RecordItems, AddEvidence(p, s, i) PROVE FlowInv'
  <2> DEFINE r == [files[p][s] EXCEPT !.evidence = @ \cup {i}]
  <2>1. Exists(p, s) /\ Write(p, s, r)
    BY <1>6 DEF AddEvidence
  <2>2. OfACommit(r)
    BY <1>1, <2>1 DEF OfACommit, Fields
  <2> HIDE DEF r
  <2> QED
    BY <1>5, <2>1, <2>2
<1>7. ASSUME NEW i \in RecordItems, MarkByHand(p, s, i) PROVE FlowInv'
  <2>1. PICK status \in {"passed", "failed"} :
           LET r == [files[p][s] EXCEPT !.status[i] = status]
               all == \A j \in RecordItems : r.status[j] = "passed"
           IN  Write(p, s, [r EXCEPT !.verdict = IF all THEN "passed" ELSE r.verdict])
    BY <1>7 DEF MarkByHand
  <2> DEFINE marked == [files[p][s] EXCEPT !.status[i] = status]
             all == \A j \in RecordItems : marked.status[j] = "passed"
             r == [marked EXCEPT !.verdict = IF all THEN "passed" ELSE marked.verdict]
  <2>2. Exists(p, s) /\ Write(p, s, r)
    BY <1>7, <2>1 DEF MarkByHand
  <2>3. OfACommit(r)
    BY <1>1, <2>2 DEF OfACommit, Fields
  <2> HIDE DEF r
  <2> QED
    BY <1>5, <2>2, <2>3
<1>8. CASE FillDraft(p, s)
  <2> DEFINE r == FilledDraft(files[p][s])
  <2>1. Exists(p, s) /\ Write(p, "filled", r)
    BY <1>8 DEF FillDraft
  <2>2. OfACommit(r)
    BY <1>1, <2>1 DEF OfACommit, Fields, FilledDraft
  <2> HIDE DEF r
  <2> QED
    BY <1>2, <1>5, <2>1, <2>2
<1>9. CASE SignRecord(p, s)
  <2> DEFINE r == Signed(files[p][s])
  <2>1. Exists(p, s) /\ Write(p, "filled", r)
    BY <1>9 DEF SignRecord
  <2>2. OfACommit(r)
    BY <1>1, <2>1 DEF OfACommit, Fields, Signed
  <2> HIDE DEF r
  <2> QED
    BY <1>2, <1>5, <2>1, <2>2
<1>10. CASE AttachMetadata(p)
  <2> DEFINE r == FilledDraft([files[p]["review"] EXCEPT !.evidence = @ \cup {Notification}])
  <2>1. Exists(p, "review") /\ Write(p, "notification", r)
    BY <1>10 DEF AttachMetadata
  <2>2. OfACommit(r)
    BY <1>1, <1>2, <2>1 DEF OfACommit, Fields, FilledDraft
  <2> HIDE DEF r
  <2> QED
    BY <1>2, <1>5, <2>1, <2>2
<1> QED
  BY <1>6, <1>7, <1>8, <1>9, <1>10

(* The collector's record is of the commit it saw, or of none. *)
LEMMA PackageCollected ==
    ASSUME FlowInv, NEW p \in Packages, FinishCollect(p)
    PROVE  FlowInv'
<1>1. PICK captured \in SUBSET RecordItems :
        Write(p, "review", ReviewRecord(collecting[p].head, captured))
  BY DEF FinishCollect
<1> DEFINE r == ReviewRecord(collecting[p].head, captured)
<1>2. OfACommit(r)
  BY DEF FinishCollect, FlowInv, Collecting, OfACommit, ReviewRecord, Fields
<1>3. /\ UNCHANGED <<log, tree, audit>> /\ HEAD' = HEAD
      /\ collecting' = [collecting EXCEPT ![p] = Idle]
  BY DEF FinishCollect, repo, HEAD
<1>4. Collecting'
  <2>1. /\ DOMAIN collecting' = Packages
        /\ \A q \in Packages : collecting'[q] = Idle \/ collecting'[q] = collecting[q]
    BY <1>3 DEF FlowInv, Collecting
  <2> QED
    BY <1>3, <2>1 DEF FlowInv, Collecting
<1>5. "review" \in Slots /\ Write(p, "review", r)
  BY <1>1 DEF Slots
<1> HIDE DEF r
<1> QED
  BY <1>2, <1>3, <1>4, <1>5, SomeRecord, RecordWritten

(* The steps of an audit leave the repository and the records as they are. *)
LEMMA NothingWritten ==
    ASSUME FlowInv, UNCHANGED <<log, tree, files, mtime, clock, collecting>>
    PROVE  /\ History' /\ Filed' /\ Collecting' /\ HEAD' = HEAD
           /\ \A p, s : Exists(p, s)' <=> Exists(p, s)
BY DEF FlowInv, History, Filed, Collecting, HEAD, Exists, OfACommit

(* No record is of a later version than HEAD, nor HEAD than the tree. *)
LEMMA NoneIsAhead ==
    ASSUME FlowInv
    PROVE  /\ HEAD \in 1..HEAD /\ HEAD \in Nat /\ log[HEAD] \in Nat
           /\ tree \in Nat /\ log[HEAD] <= tree
           /\ \A h \in 1..HEAD : log[h] \in Nat /\ log[h] <= log[HEAD] /\ log[h] <= tree
           /\ \A p \in Packages, s \in Slots :
                 Exists(p, s) => files[p][s].head = NoHead \/ files[p][s].head \in 1..HEAD
<1>1. HEAD \in 1..HEAD /\ HEAD \in Nat
  BY HeadIsACommit DEF FlowInv
<1>2. \A h \in 1..HEAD : log[h] \in Nat /\ log[h] <= log[HEAD]
  BY <1>1 DEF FlowInv, History, HEAD
<1>3. tree \in Nat /\ log[HEAD] <= tree /\ log[HEAD] \in Nat
  BY <1>1, <1>2 DEF FlowInv, History
<1>4. \A p \in Packages, s \in Slots :
         Exists(p, s) => files[p][s].head = NoHead \/ files[p][s].head \in 1..HEAD
  BY <1>1 DEF FlowInv, Filed, OfACommit, NoHead
<1> QED
  BY <1>1, <1>2, <1>3, <1>4

LEMMA AuditStarted ==
    ASSUME FlowInv, StartAudit
    PROVE  FlowInv'
<1>1. PICK strategy \in Strategies :
        audit' = [pc |-> "running", strategy |-> strategy, began |-> clock,
                  versions |-> {tree}, clean |-> Committed]
  BY DEF StartAudit
<1>2. UNCHANGED <<log, tree, files, mtime, clock, collecting>>
  BY DEF StartAudit, repo, disk
<1>3. clock \in Nat /\ tree \in Nat
  BY DEF FlowInv, History
<1>4. Between'
  BY <1>1, <1>2, <1>3, NoneIsAhead, NothingWritten DEF Between
<1>5. Headed' /\ Chosen' /\ Taken' /\ Ended'
  BY <1>1 DEF Headed, Chosen, Taken, Ended, RecordIsOfAHead, CommandsRanOnTheRecord, Passed
<1> QED
  BY <1>2, <1>4, <1>5, NothingWritten DEF FlowInv, OfTheAudit

LEMMA CommandsFinished ==
    ASSUME FlowInv, FinishCommands
    PROVE  FlowInv'
<1>1. /\ audit' = [pc |-> "ran", strategy |-> audit.strategy, began |-> audit.began,
                   versions |-> audit.versions \cup {tree}, clean |-> audit.clean /\ Committed]
      /\ audit.pc = "running" /\ audit # Idle
      /\ UNCHANGED <<log, tree, files, mtime, clock, collecting>>
  BY DEF FinishCommands, repo, disk, Idle
<1>2. tree \in Nat
  BY DEF FlowInv, History
<1>3. Between'
  <2>1. \A p \in Packages, s \in Slots, v \in audit'.versions :
           (Exists(p, s) /\ mtime[p][s] <= audit.began /\ files[p][s].head # NoHead)'
             => log[files[p][s].head] <= v
    BY <1>1, NoneIsAhead, NothingWritten DEF FlowInv, OfTheAudit, Between
  <2>2. audit'.clean => \A v \in audit'.versions : v <= log[HEAD]
    BY <1>1, NoneIsAhead DEF FlowInv, OfTheAudit, Between, Committed
  <2> QED
    BY <1>1, <1>2, <2>1, <2>2, NothingWritten DEF FlowInv, OfTheAudit, Between
<1>4. Headed' /\ Chosen' /\ Taken' /\ Ended'
  BY <1>1 DEF Headed, Chosen, Taken, Ended, RecordIsOfAHead, CommandsRanOnTheRecord, Passed
<1> QED
  BY <1>1, <1>3, <1>4, NothingWritten DEF FlowInv, OfTheAudit

LEMMA HeadWasRead ==
    ASSUME FlowInv, ReadHead
    PROVE  FlowInv'
<1>1. PICK head \in HeadRead :
        audit' = [pc |-> "headed", strategy |-> audit.strategy,
                  began |-> audit.began, versions |-> audit.versions, clean |-> audit.clean,
                  head |-> head]
  BY DEF ReadHead
<1>2. /\ audit.pc = "ran" /\ audit # Idle
      /\ UNCHANGED <<log, tree, files, mtime, clock, collecting>>
  BY DEF ReadHead, repo, disk, Idle
<1>3. head \in 0..HEAD /\ (head # NoHead => head = HEAD)
  BY NoneIsAhead DEF HeadRead, NoHead
<1>4. Between'
  BY <1>1, <1>2, NothingWritten DEF FlowInv, OfTheAudit, Between
<1>5. Headed'
  BY <1>1, <1>2, <1>3, NothingWritten DEF FlowInv, OfTheAudit, Between, Headed
<1>6. Chosen' /\ Taken' /\ Ended'
  BY <1>1 DEF Chosen, Taken, Ended, RecordIsOfAHead, CommandsRanOnTheRecord, Passed
<1> QED
  BY <1>2, <1>4, <1>5, <1>6, NothingWritten DEF FlowInv, OfTheAudit

LEMMA RecordChosen ==
    ASSUME FlowInv, Choose
    PROVE  FlowInv'
<1>1. PICK c \in Candidates :
        audit' = [pc |-> "selected", strategy |-> audit.strategy,
                  began |-> audit.began, versions |-> audit.versions, clean |-> audit.clean,
                  head |-> audit.head, package |-> c.package, slot |-> c.slot,
                  chosen |-> c.record.head]
  BY DEF Choose
<1>2. /\ audit.pc = "headed" /\ audit # Idle
      /\ UNCHANGED <<log, tree, files, mtime, clock, collecting>>
  BY DEF Choose, repo, disk, Idle
<1>3. /\ c.package \in Packages /\ c.slot \in Slots
      /\ c.record = files[c.package][c.slot] /\ Exists(c.package, c.slot)
  BY DEF Candidates, Candidate, Slots
<1>4. c.record.head \in 0..HEAD
  BY <1>3 DEF FlowInv, Filed, OfACommit
<1>5. Between' /\ Headed'
  BY <1>1, <1>2, NothingWritten DEF FlowInv, OfTheAudit, Between, Headed
<1>6. Chosen'
  BY <1>1, <1>2, <1>3, <1>4, NothingWritten DEF Chosen
<1>7. Taken' /\ Ended'
  BY <1>1 DEF Taken, Ended, RecordIsOfAHead, CommandsRanOnTheRecord, Passed
<1> QED
  BY <1>2, <1>5, <1>6, <1>7, NothingWritten DEF FlowInv, OfTheAudit

(* The record that is read is the one that was chosen, or a later one. *)
LEMMA RecordRead ==
    ASSUME FlowInv, ReadRecord
    PROVE  FlowInv'
<1>1. /\ audit' = [pc |-> "read", strategy |-> audit.strategy,
                   began |-> audit.began, versions |-> audit.versions, clean |-> audit.clean,
                   head |-> audit.head, chosen |-> audit.chosen,
                   record |-> files[audit.package][audit.slot],
                   written |-> mtime[audit.package][audit.slot]]
      /\ audit.pc = "selected" /\ audit # Idle
      /\ UNCHANGED <<log, tree, files, mtime, clock, collecting>>
  BY DEF ReadRecord, repo, disk, Idle
<1>2. /\ audit.package \in Packages /\ audit.slot \in Slots /\ audit.chosen \in 0..HEAD
      /\ Exists(audit.package, audit.slot)
      /\ mtime[audit.package][audit.slot] <= audit.began =>
            files[audit.package][audit.slot].head = audit.chosen
  BY <1>1 DEF FlowInv, OfTheAudit, Chosen
<1>3. files[audit.package][audit.slot].head \in 0..HEAD
  BY <1>2 DEF FlowInv, Filed, OfACommit
<1>4. Between' /\ Headed'
  BY <1>1, NothingWritten DEF FlowInv, OfTheAudit, Between, Headed
<1>5. Taken'
  BY <1>1, <1>2, <1>3, NothingWritten DEF FlowInv, OfTheAudit, Between, Taken
<1>6. Chosen' /\ Ended'
  BY <1>1 DEF Chosen, Ended, RecordIsOfAHead, CommandsRanOnTheRecord, Passed
<1> QED
  BY <1>1, <1>4, <1>5, <1>6, NothingWritten DEF FlowInv, OfTheAudit

(* A record that is not stale is of the product of a head that was read.   *)
LEMMA RecordJudged ==
    ASSUME FlowInv, Judge
    PROVE  FlowInv'
<1>1. /\ audit.pc = "read" /\ audit # Idle
      /\ UNCHANGED <<log, tree, files, mtime, clock, collecting>>
  BY DEF Judge, repo, disk, Idle
<1>2. PICK head \in HeadRead :
        audit' = IF VerdictOf(audit, audit.record, head) = "passed"
                 THEN [pc |-> "passed", strategy |-> audit.strategy, began |-> audit.began,
                       versions |-> audit.versions, clean |-> audit.clean, head |-> audit.head,
                       chosen |-> audit.chosen, record |-> audit.record,
                       written |-> audit.written, judged |-> head]
                 ELSE Idle
  BY DEF Judge
<1>3. CASE audit' = Idle
  BY <1>1, <1>3, AuditGivenUp, NothingWritten DEF FlowInv
<1>4. CASE VerdictOf(audit, audit.record, head) = "passed"
  <2> DEFINE h == audit.record.head
             shown == log[h]
  <2>1. audit' = [pc |-> "passed", strategy |-> audit.strategy, began |-> audit.began,
                  versions |-> audit.versions, clean |-> audit.clean, head |-> audit.head,
                  chosen |-> audit.chosen, record |-> audit.record,
                  written |-> audit.written, judged |-> head]
    BY <1>2, <1>4
  <2>2. head \in 0..HEAD /\ (head # NoHead => head = HEAD)
    BY NoneIsAhead DEF HeadRead, NoHead
  <2>3. /\ h \in 0..HEAD /\ audit.chosen \in 0..HEAD /\ audit.head \in 0..HEAD
        /\ \A k \in 0..HEAD : k # NoHead => k \in 1..HEAD
    BY <1>1, NoneIsAhead DEF FlowInv, OfTheAudit, Taken, Headed, NoHead
  <2>4. ASSUME h # NoHead, head # NoHead
        PROVE  h = head \/ DocsOnly(log, FilesToJudge(audit, audit.record, head))
    BY <1>4, <2>4 DEF VerdictOf, FreshnessStatus
  <2>5. ASSUME h # NoHead, head # NoHead, audit.strategy = "path"
        PROVE  shown = log[head]
    <3>1. CASE DocsOnly(log, ChangedFiles(h, head))
      BY <2>2, <2>3, <2>5, <3>1, DocsKeepTheProduct DEF FlowInv
    <3> QED
      BY <2>4, <2>5, <3>1 DEF FilesToJudge
  <2>6. ASSUME h # NoHead, head # NoHead, audit.strategy # "path", h = audit.chosen
        PROVE  shown = log[head] \/ (audit.head # NoHead /\ shown = log[audit.head])
    <3>1. CASE DocsOnly(log, ChangedFiles(audit.chosen, audit.head))
      <4>1. audit.head # NoHead
        BY <3>1 DEF DocsOnly, ChangedFiles
      <4>2. shown = log[audit.head]
        BY <2>3, <2>6, <3>1, <4>1, DocsKeepTheProduct DEF FlowInv
      <4> QED
        BY <4>1, <4>2
    <3> QED
      BY <2>4, <2>6, <3>1 DEF FilesToJudge
  <2>7. Between' /\ Headed' /\ Taken'
    BY <1>1, <2>1, NothingWritten DEF FlowInv, OfTheAudit, Between, Headed, Taken
  <2>8. RecordIsOfAHead'
    BY <1>1, <2>1, <2>5, <2>6 DEF RecordIsOfAHead, Passed
  <2>9. ASSUME h # NoHead, head # NoHead, audit.clean, audit.written <= audit.began
        PROVE  audit.versions \cup {log[k] : k \in {audit.head} \ {NoHead}} = {shown}
    <3>1. /\ audit.versions # {} /\ audit.versions \subseteq Nat
          /\ \A v \in audit.versions : shown <= v /\ v <= log[HEAD]
          /\ audit.head # NoHead => \A v \in audit.versions : v <= log[audit.head]
      BY <1>1, <2>9 DEF FlowInv, OfTheAudit, Between, Headed, Taken
    <3>2. /\ shown \in Nat /\ log[HEAD] \in Nat /\ head = HEAD
          /\ audit.head # NoHead => log[audit.head] \in Nat /\ log[audit.head] <= log[HEAD]
      BY <2>2, <2>3, <2>9, NoneIsAhead
    <3>3. shown = log[HEAD] \/ (audit.head # NoHead /\ shown = log[audit.head])
      BY <1>1, <2>5, <2>6, <2>9, <3>2 DEF FlowInv, OfTheAudit, Taken
    <3> HIDE DEF shown, h
    <3>4. \A v \in audit.versions : v = shown
      BY <3>1, <3>2, <3>3
    <3>5. audit.head # NoHead => log[audit.head] = shown
      BY <3>1, <3>2, <3>3, <3>4
    <3> QED
      BY <3>1, <3>4, <3>5
  <2>10. CommandsRanOnTheRecord'
    BY <1>1, <2>1, <2>9 DEF CommandsRanOnTheRecord, Passed
  <2>11. Chosen' /\ Ended'
    BY <2>1, <2>2, <2>8, <2>10, <1>1, NothingWritten DEF Chosen, Ended
  <2> QED
    BY <1>1, <2>7, <2>11, NothingWritten DEF FlowInv, OfTheAudit
<1> QED
  BY <1>2, <1>3, <1>4

LEMMA AlwaysFlowInv == FlowSpec => []FlowInv
<1>1. FlowInv /\ [FlowNext]_flowVars => FlowInv'
  <2> SUFFICES ASSUME FlowInv, [FlowNext]_flowVars PROVE FlowInv'
    OBVIOUS
  <2>1. CASE UNCHANGED flowVars
    <3>1. OfTheAudit'
      BY <2>1, NothingWritten
         DEF flowVars, FlowInv, OfTheAudit, Between, Headed, Chosen, Taken, Ended,
             RecordIsOfAHead, CommandsRanOnTheRecord, Passed
    <3> QED
      BY <2>1, <3>1, NothingWritten DEF flowVars, FlowInv
  <2>2. CASE CommitDocs
    <3>1. log' = Append(log, log[HEAD])
          /\ UNCHANGED <<tree, files, mtime, clock, collecting, audit>>
      BY <2>2 DEF CommitDocs, disk
    <3> QED
      BY <3>1, NoneIsAhead, Committing
  <2>3. CASE CommitProduct
    <3>1. /\ tree' \in {tree, tree + 1} /\ log' = Append(log, tree')
          /\ UNCHANGED <<files, mtime, clock, collecting, audit>>
      BY <2>3 DEF CommitProduct, disk
    <3>2. tree' \in Nat /\ log[HEAD] <= tree' /\ tree <= tree' /\ tree' <= tree'
      BY <3>1, NoneIsAhead
    <3> QED
      BY <3>1, <3>2, Committing
  <2>4. CASE EditProduct
    <3>1. tree' = tree + 1 /\ UNCHANGED <<log, files, mtime, clock, collecting, audit>>
      BY <2>4 DEF EditProduct, disk
    <3>2. tree \in Nat /\ log[HEAD] <= tree /\ log[HEAD] \in Nat
      BY NoneIsAhead
    <3>3. History' /\ Filed' /\ Collecting' /\ HEAD' = HEAD
      BY <3>1, <3>2 DEF FlowInv, History, Filed, Collecting, HEAD, Exists, OfACommit
    <3>4. Between'
      BY <3>1, <3>2, <3>3 DEF FlowInv, OfTheAudit, Between, Exists
    <3>5. Headed' /\ Chosen' /\ Taken' /\ Ended'
      BY <3>1, <3>3 DEF FlowInv, OfTheAudit, Headed, Chosen, Taken, Ended, RecordIsOfAHead,
                        CommandsRanOnTheRecord, Passed, Exists
    <3> QED
      BY <3>3, <3>4, <3>5 DEF FlowInv, OfTheAudit
  <2>5. ASSUME NEW p \in Packages, StartCollect(p) PROVE FlowInv'
    <3>1. PICK head \in HeadRead :
             collecting' = [collecting EXCEPT ![p] = [pc |-> "collecting", head |-> head]]
      BY <2>5 DEF StartCollect
    <3>2. UNCHANGED <<log, tree, files, mtime, clock, audit>> /\ HEAD' = HEAD
      BY <2>5 DEF StartCollect, repo, disk, HEAD
    <3>3. head \in 0..HEAD
      BY NoneIsAhead DEF HeadRead, NoHead
    <3>4. Collecting'
      BY <3>1, <3>2, <3>3 DEF FlowInv, Collecting
    <3>5. History' /\ Filed'
      BY <3>2 DEF FlowInv, History, Filed, Exists, OfACommit
    <3>6. OfTheAudit'
      BY <3>2 DEF FlowInv, OfTheAudit, Between, Headed, Chosen, Taken, Ended, RecordIsOfAHead,
                  CommandsRanOnTheRecord, Passed, Exists
    <3> QED
      BY <3>4, <3>5, <3>6 DEF FlowInv
  <2>6. ASSUME NEW p \in Packages, AttachMetadata(p) PROVE FlowInv'
    <3>1. "review" \in Slots
      BY DEF Slots
    <3> QED
      BY <2>6, <3>1, RecordsKept
  <2>7. CASE Operate
    BY <2>5, <2>6, <2>7, PackageCollected, RecordsKept DEF Operate
  <2>8. CASE FailCommands \/ JudgeNothing
    <3>1. UNCHANGED <<log, tree, files, mtime, clock, collecting>> /\ audit' = Idle
      BY <2>8 DEF FailCommands, JudgeNothing, repo, disk
    <3> QED
      BY <3>1, AuditGivenUp, NothingWritten DEF FlowInv
  <2>9. CASE Audit
    BY <2>8, <2>9, AuditStarted, CommandsFinished, HeadWasRead, RecordChosen, RecordRead,
       RecordJudged DEF Audit
  <2> QED
    BY <2>1, <2>2, <2>3, <2>4, <2>7, <2>9 DEF FlowNext
<1> QED
  BY <1>1, InitFlowInv, PTL DEF FlowSpec

(* A passed audit went by a record of the product of a HEAD it read; if    *)
(* that record was there before its commands ran and the product was       *)
(* committed as they began and ended, they ran on that product and no      *)
(* other; and "best" finds a record that can close the audit when there is *)
(* one of HEAD - for any number of packages, commits and writes, by        *)
(* whatever strategies, whoever edits, commits, collects and signs between *)
(* its steps, and whether or not git answers (buildV1CompletionAudit).     *)
THEOREM AuditsAreSound == FlowSpec => []AuditIsSound
<1>1. FlowInv => AuditIsSound
  <2> SUFFICES ASSUME FlowInv PROVE AuditIsSound
    OBVIOUS
  <2>1. BestFindsTheSigned
    BY BestIsComplete DEF BestFindsTheSigned
  <2> QED
    BY <2>1 DEF FlowInv, OfTheAudit, Ended, AuditIsSound
<1> QED
  BY <1>1, AlwaysFlowInv, PTL
=============================================================================
