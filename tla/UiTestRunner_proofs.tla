------------------------- MODULE UiTestRunner_proofs -------------------------
(***************************************************************************)
(* What the UI test scripts leave behind after any number of runs.  The    *)
(* evidence is sound because a run removes the old bundle and the old      *)
(* video before it makes its own (Fresh), knows at the end of the test     *)
(* whether it passed (Tested), and writes the metadata last: until its     *)
(* files are touched again they are those of the run that wrote it         *)
(* (Settled), and afterwards they are none or younger (Younger).           *)
(***************************************************************************)
EXTENDS UiTestRunner, TLAPS

(* A script that has not come to its files. *)
Untouched(t) == test = t => stage \in {"idle", "check", "clear"}

Fresh ==
    stage \notin {"idle", "check", "clear"} =>
        bundle[test] \in {NoFile, run} /\ video[test] \in {NoFile, run}

Tested ==
    /\ stage \in {"stop", "killing", "log", "metadata"} /\ outcome = "passed" =>
          bundle[test] = run /\ run \in proven
    /\ stage = "metadata" => log[test] = run

Settled ==
    \A t \in Tests \ broken :
        Untouched(t) /\ passed[t] =>
            /\ log[t] = metadata[t]
            /\ bundle[t] = metadata[t]
            /\ video[t] \in {NoFile, metadata[t]}
            /\ metadata[t] \in proven

Younger ==
    \A t \in Tests :
        /\ log[t] =< run /\ metadata[t] =< log[t]
        /\ passed[t] => \A file \in {bundle[t], video[t]} : file = NoFile \/ metadata[t] =< file

IInv == TypeOK /\ Fresh /\ Tested /\ Settled /\ Younger
-----------------------------------------------------------------------------
USE DEF script, files

(* The next-state relation by its steps, whichever script takes them.      *)
LEMMA Steps ==
    ASSUME Next
    PROVE  \/ \E t \in Tests : Begin(t)
           \/ Step \/ RecorderEnds \/ Interrupt
BY DEF Next, KeyboardScript, VoiceScript, VoicePermissionScript, NavigationScript,
       AttachmentScript, NotificationScript

(* A run has a number, and the next one has if there is a next one. *)
LEMMA RunNumbers == NoFile \in Runs /\ \A r \in Runs : r < MaxRuns => r + 1 \in Runs
BY RunsAssumption DEF Runs, NoFile

(* Every step keeps the types. *)
LEMMA NextTyping ==
    ASSUME TypeOK, Next
    PROVE  TypeOK'
<1> USE DEF TypeOK, Stages, Outcomes
<1>1. CASE \E t \in Tests : Begin(t)
  BY RunNumbers, <1>1 DEF Begin
<1>2. CASE CheckXcode
  BY <1>2 DEF CheckXcode
<1>3. CASE ClearOld
  BY RunNumbers, <1>3 DEF ClearOld
<1>4. CASE ResetPrivacy
  BY <1>4 DEF ResetPrivacy
<1>5. CASE StartRecorder
  BY <1>5 DEF StartRecorder
<1>6. CASE BeginTest
  BY <1>6 DEF BeginTest
<1>7. CASE EndTest
  BY <1>7 DEF EndTest
<1>8. CASE AskRecorder \/ RecorderEnds \/ KillRecorder
  BY <1>8 DEF AskRecorder, RecorderEnds, KillRecorder
<1>9. CASE WriteLog
  BY <1>9 DEF WriteLog
<1>10. CASE WriteMetadata
  BY <1>10 DEF WriteMetadata, Passed
<1>11. CASE Interrupt
  BY <1>11 DEF Interrupt
<1> QED
  BY <1>1, <1>2, <1>3, <1>4, <1>5, <1>6, <1>7, <1>8, <1>9, <1>10, <1>11, Steps DEF Step

(* A script works on files of its own run only. *)
LEMMA NextFresh ==
    ASSUME TypeOK, Fresh, Tested, Next
    PROVE  Fresh' /\ Tested'
<1> USE DEF TypeOK, Fresh, Tested
<1>1. CASE \E t \in Tests : Begin(t)
  BY <1>1 DEF Begin
<1>2. CASE CheckXcode
  BY <1>2 DEF CheckXcode
<1>3. CASE ClearOld
  BY <1>3 DEF ClearOld
<1>4. CASE ResetPrivacy
  BY <1>4 DEF ResetPrivacy
<1>5. CASE StartRecorder
  BY <1>5 DEF StartRecorder
<1>6. CASE BeginTest
  BY <1>6 DEF BeginTest
<1>7. CASE EndTest
  BY <1>7 DEF EndTest
<1>8. CASE AskRecorder \/ RecorderEnds \/ KillRecorder
  BY <1>8 DEF AskRecorder, RecorderEnds, KillRecorder
<1>9. CASE WriteLog
  BY <1>9 DEF WriteLog
<1>10. CASE WriteMetadata
  BY <1>10 DEF WriteMetadata
<1>11. CASE Interrupt
  BY <1>11 DEF Interrupt
<1> QED
  BY <1>1, <1>2, <1>3, <1>4, <1>5, <1>6, <1>7, <1>8, <1>9, <1>10, <1>11, Steps DEF Step

(* The metadata is written last, and says passed of what it lies next to. *)
LEMMA NextSettled ==
    ASSUME IInv, Next
    PROVE  Settled'
<1> USE DEF IInv, TypeOK, Settled, Untouched
<1>1. CASE \E t \in Tests : Begin(t)
  BY <1>1 DEF Begin
<1>2. CASE CheckXcode
  BY <1>2 DEF CheckXcode
<1>3. CASE ClearOld
  BY <1>3 DEF ClearOld
<1>4. CASE ResetPrivacy
  BY <1>4 DEF ResetPrivacy
<1>5. CASE StartRecorder
  BY <1>5 DEF StartRecorder
<1>6. CASE BeginTest
  BY <1>6 DEF BeginTest
<1>7. CASE EndTest
  BY <1>7 DEF EndTest
<1>8. CASE AskRecorder \/ RecorderEnds \/ KillRecorder
  BY <1>8 DEF AskRecorder, RecorderEnds, KillRecorder
<1>9. CASE WriteLog
  BY <1>9 DEF WriteLog
<1>10. CASE WriteMetadata
  BY <1>10 DEF WriteMetadata, Passed, Fresh, Tested
<1>11. CASE Interrupt
  BY <1>11 DEF Interrupt
<1> QED
  BY <1>1, <1>2, <1>3, <1>4, <1>5, <1>6, <1>7, <1>8, <1>9, <1>10, <1>11, Steps DEF Step

(* What is written anew is of a later run than the metadata next to it. *)
LEMMA NextYounger ==
    ASSUME IInv, Next
    PROVE  Younger'
<1> USE RunsAssumption DEF IInv, TypeOK, Younger, Runs, NoFile
<1>1. CASE \E t \in Tests : Begin(t)
  BY <1>1 DEF Begin
<1>2. CASE CheckXcode
  BY <1>2 DEF CheckXcode
<1>3. CASE ClearOld
  BY <1>3 DEF ClearOld
<1>4. CASE ResetPrivacy
  BY <1>4 DEF ResetPrivacy
<1>5. CASE StartRecorder
  BY <1>5 DEF StartRecorder
<1>6. CASE BeginTest
  BY <1>6 DEF BeginTest
<1>7. CASE EndTest
  BY <1>7 DEF EndTest
<1>8. CASE AskRecorder \/ RecorderEnds \/ KillRecorder
  BY <1>8 DEF AskRecorder, RecorderEnds, KillRecorder
<1>9. CASE WriteLog
  BY <1>9 DEF WriteLog
<1>10. CASE WriteMetadata
  BY <1>10 DEF WriteMetadata, Fresh, Tested
<1>11. CASE Interrupt
  BY <1>11 DEF Interrupt
<1> QED
  BY <1>1, <1>2, <1>3, <1>4, <1>5, <1>6, <1>7, <1>8, <1>9, <1>10, <1>11, Steps DEF Step

LEMMA AlwaysIInv == Spec => []IInv
<1>1. Init => IInv
  BY RunsAssumption DEF Init, IInv, TypeOK, Fresh, Tested, Settled, Younger, Untouched, Runs, NoFile,
                        Stages, Outcomes
<1>2. IInv /\ [Next]_vars => IInv'
  <2>1. CASE UNCHANGED vars
    BY <2>1 DEF vars, IInv, TypeOK, Fresh, Tested, Settled, Younger, Untouched
  <2>2. CASE IInv /\ Next
    BY <2>2, NextTyping, NextFresh, NextSettled, NextYounger DEF IInv
  <2> QED
    BY <2>1, <2>2
<1> QED
  BY <1>1, <1>2, PTL DEF Spec

-----------------------------------------------------------------------------
(* The states of the scripts and of their files are of these kinds, for    *)
(* any number of runs of any of the six tests.                             *)
THEOREM UiTestTypes == Spec => []TypeOK
<1>1. IInv => TypeOK
  BY DEF IInv
<1> QED
  BY <1>1, AlwaysIInv, PTL

(* What the readers of the collector take as evidence is of one run that   *)
(* passed, or never older than the pass when a run was interrupted.        *)
THEOREM UiTestEvidence == Spec => []EvidenceIsSound
<1> USE DEF Usable, KeyboardAvailable, VoiceAvailable, VoicePermissionAvailable,
            NavigationAvailable, AttachmentAvailable, NotificationAvailable
<1>1. \A t \in Tests : Available(t) =>
          /\ metadata[t] # NoFile /\ passed[t] /\ log[t] # NoFile /\ bundle[t] # NoFile
          /\ t \in Filming => video[t] # NoFile
  BY TestsAssumption DEF Available, AllTests, Filming
<1>2. IInv => EvidenceIsOfOnePass
  BY <1>1 DEF IInv, Settled, Untouched, EvidenceIsOfOnePass, Filed
<1>3. IInv => NothingIsOlderThanItsPass
  BY <1>1 DEF IInv, Younger, NothingIsOlderThanItsPass, Filed, TypeOK, Runs, NoFile
<1>4. IInv => EvidenceIsSound
  BY <1>2, <1>3 DEF EvidenceIsSound
<1> QED
  BY <1>4, AlwaysIInv, PTL
=============================================================================
