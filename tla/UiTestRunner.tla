---------------------------- MODULE UiTestRunner ----------------------------
(***************************************************************************)
(* The six scripts validate-ios-*-ui-test.mjs, each of which runs one      *)
(* XCTest against the app and leaves a log, a result bundle and a metadata *)
(* file in a directory of its own - the notification test a video too -    *)
(* and the six readers of the evidence collector, which take what they     *)
(* find there as evidence.  A script may be interrupted anywhere.          *)
(*                                                                         *)
(* A file is the number of the run that wrote it, NoFile when there is     *)
(* none.                                                                   *)
(***************************************************************************)
EXTENDS Naturals

CONSTANTS
    Tests,   \* the tests that are run
    MaxRuns  \* bound: runs

AllTests == {"keyboard", "voice", "voice permission", "navigation", "attachment", "notification"}

ASSUME TestsAssumption == Tests \subseteq AllTests
ASSUME RunsAssumption == MaxRuns \in Nat

VARIABLES
    run,       \* number of the last run that was started
    test,      \* its test
    stage,     \* what its script does next
    recorder,  \* simctl recordVideo: "off", "on" or "gone" by itself
    outcome,   \* how xcodebuild ended
    log, bundle, video, metadata,  \* by test, the run that wrote the file
    passed,    \* by test, what the metadata says
    proven,    \* the runs whose test was executed and passed
    broken     \* tests whose last run that touched the files was interrupted

script == <<run, test, stage, recorder, outcome>>
files == <<log, bundle, video, metadata, passed>>
vars == <<script, files, proven, broken>>

NoFile == 0
Runs == NoFile .. MaxRuns
Stages == {"idle", "check", "clear", "reset", "record", "begin", "testing", "stop", "killing",
           "log", "metadata"}
Outcomes == {"none", "timed out", "error", "failed", "no test", "passed"}

(* The scripts that film the simulator, and that reset its privacy first.   *)
Filming == {"notification"}
Resetting == {"notification", "voice permission"}

Init ==
    /\ run = 0
    /\ test \in Tests
    /\ stage = "idle"
    /\ recorder = "off"
    /\ outcome = "none"
    /\ log = [t \in Tests |-> NoFile]
    /\ bundle = [t \in Tests |-> NoFile]
    /\ video = [t \in Tests |-> NoFile]
    /\ metadata = [t \in Tests |-> NoFile]
    /\ passed = [t \in Tests |-> FALSE]
    /\ proven = {}
    /\ broken = {}

Begin(t) ==
    /\ stage = "idle" /\ run < MaxRuns
    /\ run' = run + 1
    /\ test' = t
    /\ stage' = "check"
    /\ outcome' = "none"
    /\ UNCHANGED <<recorder, files, proven, broken>>

(* Without Xcode the script exits at once, before it touches a file.        *)
CheckXcode ==
    /\ stage = "check"
    /\ stage' \in {"idle", "clear"}
    /\ UNCHANGED <<run, test, recorder, outcome, files, proven, broken>>

(* The bundle and the video of the run before are removed; its log and its  *)
(* metadata stay until they are written anew.                               *)
ClearOld ==
    /\ stage = "clear"
    /\ bundle' = [bundle EXCEPT ![test] = NoFile]
    /\ video' = [video EXCEPT ![test] = NoFile]
    /\ stage' = IF test \in Resetting THEN "reset" ELSE "begin"
    /\ UNCHANGED <<run, test, recorder, outcome, log, metadata, passed, proven, broken>>

(* Whether the app could be removed and its permissions reset is recorded,  *)
(* and decides nothing.                                                     *)
ResetPrivacy ==
    /\ stage = "reset"
    /\ stage' = IF test \in Filming THEN "record" ELSE "begin"
    /\ UNCHANGED <<run, test, recorder, outcome, files, proven, broken>>

(* The recorder is started and not waited for; it may end by itself, for    *)
(* want of a booted simulator, and then leaves no video.                    *)
StartRecorder ==
    /\ stage = "record"
    /\ \/ recorder' = "on" /\ video' = [video EXCEPT ![test] = run]
       \/ recorder' = "gone" /\ UNCHANGED video
    /\ stage' = "begin"
    /\ UNCHANGED <<run, test, outcome, log, bundle, metadata, passed, proven, broken>>

(* xcodebuild makes the bundle when it has built the app.                   *)
BeginTest ==
    /\ stage = "begin"
    /\ bundle' \in {bundle, [bundle EXCEPT ![test] = run]}
    /\ stage' = "testing"
    /\ UNCHANGED <<run, test, recorder, outcome, log, video, metadata, passed, proven, broken>>

(* It ends, or the time limit of the script ends it.                        *)
EndTest ==
    /\ stage = "testing"
    /\ outcome' \in Outcomes \ {"none"}
    /\ outcome' = "passed" => bundle[test] = run
    /\ proven' = IF outcome' = "passed" THEN proven \union {run} ELSE proven
    /\ stage' = IF test \in Filming THEN "stop" ELSE "log"
    /\ UNCHANGED <<run, test, recorder, files, broken>>

(* stopVideoRecording: an interrupt, five seconds to end, then the recorder *)
(* is killed and not waited for.                                            *)
AskRecorder ==
    /\ stage = "stop"
    /\ stage' = IF recorder = "gone" THEN "log" ELSE "killing"
    /\ UNCHANGED <<run, test, recorder, outcome, files, proven, broken>>

RecorderEnds ==
    /\ stage = "killing"
    /\ recorder' = "off"
    /\ stage' = "log"
    /\ UNCHANGED <<run, test, outcome, files, proven, broken>>

\* faulty: only the end of the recorder is waited for
NeverKill == FALSE /\ UNCHANGED vars

KillRecorder ==
    /\ stage = "killing"
    /\ recorder' = "off"
    /\ stage' = "log"
    /\ UNCHANGED <<run, test, outcome, files, proven, broken>>

WriteLog ==
    /\ stage = "log"
    /\ log' = [log EXCEPT ![test] = run]
    /\ stage' = "metadata"
    /\ UNCHANGED <<run, test, recorder, outcome, bundle, video, metadata, passed, proven, broken>>

\* faulty: a run that executed no test passes
ExitedWithZero == outcome \in {"passed", "no test"}

(* No time limit, no error, exit code 0, and at least one test executed.    *)
Passed == outcome = "passed"

WriteMetadata ==
    /\ stage = "metadata"
    /\ metadata' = [metadata EXCEPT ![test] = run]
    /\ passed' = [passed EXCEPT ![test] = Passed]
    /\ broken' = broken \ {test}
    /\ stage' = "idle"
    /\ recorder' = "off"
    /\ UNCHANGED <<run, test, outcome, log, bundle, video, proven>>

(* The operator, or an error of the script itself, stops it.                *)
Interrupt ==
    /\ stage # "idle"
    /\ stage' = "idle"
    /\ recorder' = "off"
    /\ broken' = IF stage \in {"check", "clear"} THEN broken ELSE broken \union {test}
    /\ UNCHANGED <<run, test, outcome, files, proven>>

Step ==
    \/ CheckXcode \/ ClearOld \/ ResetPrivacy \/ StartRecorder \/ BeginTest \/ EndTest
    \/ AskRecorder \/ KillRecorder \/ WriteLog \/ WriteMetadata

(* The six scripts: the same steps, two of them with a reset of the         *)
(* permissions and one of these with a recorder.                            *)
KeyboardScript == Begin("keyboard") \/ (test = "keyboard" /\ (Step \/ Interrupt))
VoiceScript == Begin("voice") \/ (test = "voice" /\ (Step \/ Interrupt))
VoicePermissionScript ==
    Begin("voice permission") \/ (test = "voice permission" /\ (Step \/ Interrupt))
NavigationScript == Begin("navigation") \/ (test = "navigation" /\ (Step \/ Interrupt))
AttachmentScript == Begin("attachment") \/ (test = "attachment" /\ (Step \/ Interrupt))
NotificationScript ==
    Begin("notification") \/ (test = "notification" /\ (Step \/ RecorderEnds \/ Interrupt))

Next ==
    \/ "keyboard" \in Tests /\ KeyboardScript
    \/ "voice" \in Tests /\ VoiceScript
    \/ "voice permission" \in Tests /\ VoicePermissionScript
    \/ "navigation" \in Tests /\ NavigationScript
    \/ "attachment" \in Tests /\ AttachmentScript
    \/ "notification" \in Tests /\ NotificationScript

Spec == Init /\ [][Next]_vars

(* A script goes on by itself: each of its waits has a limit.  Nothing is   *)
(* asked of the recorder.                                                   *)
FairSpec == Spec /\ WF_vars(Step)

(* What the collector takes as evidence: a metadata file that says passed,  *)
(* and the files it names exist.                                            *)
Usable(t) == metadata[t] # NoFile /\ passed[t] /\ log[t] # NoFile /\ bundle[t] # NoFile

KeyboardAvailable == Usable("keyboard")
VoiceAvailable == Usable("voice")
VoicePermissionAvailable == Usable("voice permission")
NavigationAvailable == Usable("navigation")
AttachmentAvailable == Usable("attachment")
NotificationAvailable == Usable("notification") /\ video["notification"] # NoFile

Available(t) ==
    CASE t = "keyboard" -> KeyboardAvailable
      [] t = "voice" -> VoiceAvailable
      [] t = "voice permission" -> VoicePermissionAvailable
      [] t = "navigation" -> NavigationAvailable
      [] t = "attachment" -> AttachmentAvailable
      [] t = "notification" -> NotificationAvailable
-----------------------------------------------------------------------------
TypeOK ==
    /\ run \in Runs
    /\ test \in Tests
    /\ stage \in Stages
    /\ recorder \in {"off", "on", "gone"}
    /\ outcome \in Outcomes
    /\ log \in [Tests -> Runs]
    /\ bundle \in [Tests -> Runs]
    /\ video \in [Tests -> Runs]
    /\ metadata \in [Tests -> Runs]
    /\ passed \in [Tests -> BOOLEAN]
    /\ proven \subseteq Runs
    /\ broken \subseteq Tests

Filed(t) == {log[t], bundle[t]} \union (IF t \in Filming THEN {video[t]} ELSE {})

(* Between two runs, what the readers take as evidence of a test whose last *)
(* run was not interrupted is the work of one run, and that run executed    *)
(* its test and passed - however many runs before it failed, timed out,     *)
(* lost their video or were broken off.                                     *)
EvidenceIsOfOnePass ==
    stage = "idle" =>
        \A t \in Tests \ broken :
            Available(t) => Filed(t) = {metadata[t]} /\ metadata[t] \in proven

(* At any time, interrupted or not, evidence never names a file that is     *)
(* older than the pass it is evidence of.                                   *)
NothingIsOlderThanItsPass ==
    \A t \in Tests : Available(t) => \A file \in Filed(t) : file >= metadata[t]

(* The evidence the six readers find usable is what it is taken for, after  *)
(* any sequence of passes, failures and interruptions.                      *)
EvidenceIsSound == EvidenceIsOfOnePass /\ NothingIsOlderThanItsPass

(* A script ends, though the recorder it started may not.                   *)
ScriptsEnd == stage # "idle" ~> stage = "idle"
=============================================================================
