---------------------------- MODULE CollectorRun ----------------------------
(***************************************************************************)
(* scripts/collect-ios-acceptance-evidence.mjs: one run after the other    *)
(* that builds and launches the app, goes through the parts of the         *)
(* acceptance evidence in a fixed order, and writes a package of files     *)
(* into an output directory that may be the one of an earlier run.  Any    *)
(* part may fail to find what it looks for; later parts then find less.    *)
(* A run may be interrupted anywhere, between two files included.          *)
(***************************************************************************)
EXTENDS Naturals, FiniteSets, Sequences, SequencesExt, EvidenceReview

CONSTANTS
    Options,    \* combinations of arguments to run with
    Urls,       \* addresses the app may have been built with
    MaxRuns,    \* bound: runs
    MaxMisses   \* bound: parts of a run that fail by themselves

(* What a run may be asked for: the parts that write or capture something, *)
(* each with an argument of its own; a private address; no build of its    *)
(* own; an app installed afresh.  A supported run is asked for the six     *)
(* parts of --seed-supported-system-evidence at once.                      *)
SupportedParts == {"facts", "calendar app", "cleanup", "denial", "backflow", "delivery"}
Arguments == SupportedParts \union {"keyboard", "attachments", "lan", "skip build", "reset"}

ASSUME OptionsAssumption == Options \subseteq SUBSET Arguments
ASSUME UrlsAssumption == Urls \subseteq {"none", "loopback", "private_lan"}
ASSUME BoundsAssumption == MaxRuns \in Nat /\ MaxMisses \in Nat

VARIABLES
    run,        \* number of the last run that was started
    options,    \* its arguments
    url,        \* H5DevServerURL in its build
    fallback,   \* address the readiness falls back to
    stage,      \* what it does next
    found,      \* what it has found so far
    misses,     \* how many of its parts failed by themselves
    exit,       \* how it ended
    dir         \* by file of the output directory, the run that wrote it

vars == <<run, options, url, fallback, stage, found, misses, exit, dir>>

\* faulty: the records are written before what they refer to
RecordsFirst == <<"template.json", "draft.json", "review.json", "acceptance-evidence.json",
                  "manifest.json", "summary.md", "manual-checklist">>

(* The order the files of a package are written in. *)
Files == <<"acceptance-evidence.json", "manifest.json", "summary.md", "manual-checklist",
           "template.json", "draft.json", "review.json">>
NoRun == 0

(* The parts of a run, in order. *)
Stages == <<"health", "build", "persistence", "readiness", "facts", "calendar app", "cleanup",
            "denial", "backflow", "delivery", "keyboard", "attachments", "UI tests",
            "surfaces", "bridge">>
Following(element, order) == order[1 + CHOOSE i \in DOMAIN order : order[i] = element]
After(part) == IF part = Last(Stages) THEN Head(Files) ELSE Following(part, Stages)

(* What the parts look for. *)
HealthParts == {"api", "h5", "target marker"}
LaunchParts == {"build", "smoke", "simulator", "reset", "launch screenshot"}
AddressParts == {"plist", "H5 URL", "private LAN"}
IdParts == {"id before", "id after", "relaunched", "same id"}
FactParts == {"facts", "calendar card", "reminder card"}
CleanupParts == {"cleanup", "entry gone screenshot"}
BackflowParts == {"backflow reminder", "backflow highlighted"}
DeliveryParts == {"delivery reminder", "delivery pending", "delivered"}
AttachmentParts == {"attachment inputs", "expense follow-up", "schedule follow-up"}
SingleParts == {"calendar app", "denial", "keyboard input", "expense record", "surfaces", "sync bridge"}
Parts ==
    UNION {HealthParts, LaunchParts, AddressParts, IdParts, FactParts, CleanupParts, BackflowParts,
           DeliveryParts, AttachmentParts, SingleParts, UiTests}

(* The commands a live run must have got through to exit with 0: of the    *)
(* build and of the installation, only those it gave.                      *)
AlwaysRequired == {"api", "h5", "smoke", "plist", "launch screenshot"}
RequiredCommands ==
    AlwaysRequired
    \union When("skip build" \notin options, {"build"})
    \union When("reset" \in options /\ "simulator" \in found, {"reset"})
ASSUME PartsAssumption == Cardinality(Parts) = 40 /\ AlwaysRequired \subseteq Parts

Init ==
    /\ run = NoRun
    /\ options \in Options
    /\ url \in Urls
    /\ fallback \in {"loopback", "private_lan"}
    /\ stage = "idle"
    /\ found = {}
    /\ misses = 0
    /\ exit = "none"
    /\ dir = [file \in ToSet(Files) |-> NoRun]

StartRun ==
    /\ stage = "idle"
    /\ run < MaxRuns
    /\ run' = run + 1
    /\ options' \in Options
    /\ url' \in Urls
    /\ fallback' \in {"loopback", "private_lan"}
    /\ stage' = Head(Stages)
    /\ found' = {}
    /\ misses' = 0
    /\ exit' = "running"
    /\ UNCHANGED dir

(* A part finds some of what it looks for and fails on the rest; what it   *)
(* finds implies more, and what it needs must have been found before.      *)
Gather(part, parts) ==
    /\ stage = part
    /\ \E lost \in SUBSET parts :
          /\ misses + Cardinality(lost) =< MaxMisses
          /\ misses' = misses + Cardinality(lost)
          /\ found' = found \union (parts \ lost)
    /\ stage' = After(part)
    /\ UNCHANGED <<run, options, url, fallback, exit, dir>>

Skip(part) ==
    /\ stage = part
    /\ stage' = After(part)
    /\ UNCHANGED <<run, options, url, fallback, found, misses, exit, dir>>

HasConversation(conversation) == conversation \cap {"id before", "id after"} # {}

(* The service, its page and whether that page is the workbench. *)
CollectServiceHealth == Gather("health", HealthParts)

LaunchesFor ==
    {"smoke", "simulator", "launch screenshot"}
    \union When("skip build" \notin options, {"build"})
    \union When("reset" \in options, {"reset"})

(* Build, smoke test, installation and launch screenshot.  The address is  *)
(* read out of the Info.plist of this build or of an earlier one; without  *)
(* a simulator nothing can be installed or photographed.                   *)
CollectBuildAndLaunch ==
    /\ stage = "build"
    /\ \E lost \in SUBSET LaunchesFor :
          LET gone == lost \union When("simulator" \in lost, {"reset", "launch screenshot"}) IN
          /\ misses + Cardinality(lost) =< MaxMisses
          /\ misses' = misses + Cardinality(lost)
          /\ found' = found
                \union (LaunchesFor \ gone)
                \union When(url # "none", {"plist", "H5 URL"})
                \union When(url = "private_lan", {"private LAN"})
    /\ stage' = After("build")
    /\ UNCHANGED <<run, options, url, fallback, exit, dir>>

(* The conversation id is read before and after a relaunch.  The two are   *)
(* the same also when the app could not be stopped or launched again.      *)
CollectConversationPersistence ==
    \/ /\ "simulator" \in found
       /\ stage = "persistence"
       /\ \E lost \in SUBSET IdParts :
             /\ "same id" \in lost => "relaunched" \notin lost
             /\ misses + Cardinality(lost) =< MaxMisses
             /\ misses' = misses + Cardinality(lost)
             /\ found' = found \union
                   ((IdParts \ lost)
                       \ When(lost \cap {"id before", "id after"} # {}, {"same id"}))
       /\ stage' = After("persistence")
       /\ UNCHANGED <<run, options, url, fallback, exit, dir>>
    \/ "simulator" \notin found /\ Skip("persistence")

(* buildFormalReadiness *)
UrlKind == IF url = "none" THEN fallback ELSE url
Ready == "lan" \in options => UrlKind = "private_lan"

(* A run that is not ready writes its evidence and its manifest only, and  *)
(* leaves everything else in the directory as it is.                       *)
CheckReadiness ==
    /\ stage = "readiness"
    /\ stage' = IF Ready THEN After("readiness") ELSE Head(Files)
    /\ exit' = IF Ready THEN exit ELSE "not ready"
    /\ UNCHANGED <<run, options, url, fallback, found, misses, dir>>

(* A part is gone through when it was asked for and there is a conversation. *)
Seeds(part) == part \in options /\ HasConversation(found)

(* Each plan is confirmed whether or not its card could be photographed.   *)
SeedAcceptanceFacts ==
    \/ Seeds("facts") /\ Gather("facts", FactParts)
    \/ ~Seeds("facts") /\ Skip("facts")

CaptureCalendarSystemApp ==
    LET possible == Seeds("calendar app") /\ {"facts", "simulator"} \subseteq found IN
    \/ possible /\ Gather("calendar app", {"calendar app"})
    \/ ~possible /\ Skip("calendar app")

SeedCalendarCleanup ==
    LET possible == Seeds("cleanup") /\ "facts" \in found IN
    \/ possible /\ Gather("cleanup", CleanupParts)
    \/ ~possible /\ Skip("cleanup")

SeedCalendarPermissionDenial ==
    LET possible == Seeds("denial") /\ "simulator" \in found IN
    \/ possible /\ Gather("denial", {"denial"})
    \/ ~possible /\ Skip("denial")

(* Parts that are looked for only when the first was found. *)
GatherAfter(part, first, parts) ==
    \/ Gather(part, parts) /\ first \in found'
    \/ /\ stage = part
       /\ misses < MaxMisses
       /\ misses' = misses + 1
       /\ stage' = After(part)
       /\ UNCHANGED <<run, options, url, fallback, found, exit, dir>>

SeedNotificationClickBackflow ==
    \/ Seeds("backflow") /\ GatherAfter("backflow", "backflow reminder", BackflowParts)
    \/ ~Seeds("backflow") /\ Skip("backflow")

SeedNotificationDelivery ==
    \/ Seeds("delivery") /\ GatherAfter("delivery", "delivery reminder", DeliveryParts)
    \/ ~Seeds("delivery") /\ Skip("delivery")

SeedNativeKeyboardInput ==
    \/ Seeds("keyboard") /\ Gather("keyboard", {"keyboard input"})
    \/ ~Seeds("keyboard") /\ Skip("keyboard")

(* The follow-ups are looked for while the attachments are sent; only a    *)
(* confirmed expense leaves a record, a question about its amount does not. *)
SeedNativeAttachmentInputs ==
    \/ /\ Seeds("attachments")
       /\ \E clarified \in BOOLEAN :
             Gather("attachments", AttachmentParts
                                      \union When(~clarified, {"expense record"}))
    \/ ~Seeds("attachments") /\ Skip("attachments")

(* What the six UI tests left behind, from whenever they were run. *)
CollectUiTestEvidence == Gather("UI tests", UiTests)

(* Seven pages in one browser: the first that does not show fails all. *)
CollectSurfaces ==
    \/ HasConversation(found) /\ Gather("surfaces", {"surfaces"})
    \/ ~HasConversation(found) /\ Skip("surfaces")

(* The sync message is among those of the seven pages, or a page of its    *)
(* own has to show it.                                                     *)
CollectNotificationSyncBridge ==
    \/ Seeds("delivery") /\ Gather("bridge", {"sync bridge"})
    \/ ~Seeds("delivery") /\ Skip("bridge")

Collect ==
    \/ CollectServiceHealth \/ CollectBuildAndLaunch \/ CollectConversationPersistence
    \/ CheckReadiness
    \/ SeedAcceptanceFacts \/ CaptureCalendarSystemApp \/ SeedCalendarCleanup
    \/ SeedCalendarPermissionDenial \/ SeedNotificationClickBackflow \/ SeedNotificationDelivery
    \/ SeedNativeKeyboardInput \/ SeedNativeAttachmentInputs \/ CollectUiTestEvidence
    \/ CollectSurfaces \/ CollectNotificationSyncBridge

\* faulty: without its pages a package gets no records
LastFileWithPages == IF exit = "not ready" THEN "manifest.json"
                     ELSE IF "surfaces" \in found THEN Last(Files) ELSE "manual-checklist"

(* The last file of a run that is not ready is its manifest. *)
LastFile == IF exit = "not ready" THEN "manifest.json" ELSE Last(Files)

WriteFile ==
    /\ stage \in ToSet(Files)
    /\ dir' = [dir EXCEPT ![stage] = run]
    /\ stage' = IF stage = LastFile THEN "exit" ELSE Following(stage, Files)
    /\ UNCHANGED <<run, options, url, fallback, found, misses, exit>>

(* The package is written whatever failed; only then is it decided whether *)
(* the run did.                                                            *)
ExitRun ==
    /\ stage = "exit"
    /\ stage' = "idle"
    /\ exit' = IF exit = "not ready" THEN exit
               ELSE IF RequiredCommands \subseteq found THEN "ok" ELSE "failed"
    /\ UNCHANGED <<run, options, url, fallback, found, misses, dir>>

(* The run is interrupted, or throws. *)
Interrupt ==
    /\ stage # "idle"
    /\ stage' = "idle"
    /\ exit' = "interrupted"
    /\ found' = {}
    /\ misses' = 0
    /\ UNCHANGED <<run, options, url, fallback, dir>>

Next == StartRun \/ Collect \/ WriteFile \/ ExitRun \/ Interrupt
Spec == Init /\ [][Next]_vars
-----------------------------------------------------------------------------
ReviewIsOurs == run > 0 /\ dir["review.json"] = run

(* Every label of the fourteen guides is suggested by some part: a run     *)
(* that finds everything leaves a review with nothing missing.             *)
Everything ==
    UiTests \union {"H5 URL", "private LAN", "target marker", "id before", "id after", "same id",
        "surfaces", "facts", "calendar card", "reminder card", "calendar app", "cleanup", "denial",
        "backflow reminder", "backflow highlighted", "delivery reminder", "delivery pending",
        "keyboard input", "attachment inputs", "expense follow-up", "expense record",
        "schedule follow-up", "sync bridge"}
ASSUME EverythingAssumption == Everything \subseteq Parts

FullRunIsComplete ==
    ReviewIsOurs /\ Everything \subseteq found => StillMissing(found) = {}

(* A run that exits with 0 and whose review misses nothing really found    *)
(* each of the things an acceptance rests on, whatever else it missed and  *)
(* with whatever arguments; of the build only if it made one, which a run  *)
(* with --skip-build does not.                                             *)
Vital ==
    UiTests \union AlwaysRequired \union {"build", "private LAN", "target marker", "id before", "id after",
        "same id", "surfaces", "facts", "calendar card", "reminder card", "calendar app", "cleanup",
        "denial", "backflow reminder", "backflow highlighted", "delivery reminder",
        "keyboard input", "attachment inputs", "expense record", "schedule follow-up"}
ASSUME VitalAssumption == Vital \subseteq Parts

CompleteReviewIsFounded ==
    ReviewIsOurs /\ exit = "ok" /\ StillMissing(found) = {}
        => Vital \ When("skip build" \in options, {"build"}) \subseteq found

(* What the review draft suggests and what the guides ask for agree: all   *)
(* of it can be had, and only by finding it.                               *)
ReviewIsFounded == CompleteReviewIsFounded /\ FullRunIsComplete

(* In a directory that several runs wrote to, some interrupted or not      *)
(* ready, a record is never newer than the evidence, the manifest and the  *)
(* summary next to it: what it refers to is what it was made from, or a    *)
(* later run has replaced that and the dates tell (the order of the        *)
(* writes of main, and its early return when the run is not ready).        *)
RecordsAreNeverNewer ==
    \A record \in {"template.json", "draft.json", "review.json"} :
        /\ dir["acceptance-evidence.json"] >= dir[record]
        /\ dir["manifest.json"] >= dir[record]
        /\ dir["summary.md"] >= dir[record]

(* A run that exits with 0 leaves a package that is all its own.           *)
SuccessIsWhole == exit = "ok" => \A file \in ToSet(Files) : dir[file] = run

(* Whatever failed, was interrupted or stopped early before it in the same *)
(* directory, a package does not mix the runs in a way that misleads.      *)
RunsAreWhole == RecordsAreNeverNewer /\ SuccessIsWhole
=============================================================================
