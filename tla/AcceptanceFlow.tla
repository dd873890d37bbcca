--------------------------- MODULE AcceptanceFlow ---------------------------
(***************************************************************************)
(* From a collected package to the completion audit: the commands          *)
(*   collect:ios-acceptance-evidence, prepare:ios-manual-evidence-record,  *)
(*   collect:v1-completion-audit                                           *)
(* run by operators on the same files while the code moves on.  Nothing    *)
(* keeps them apart: commits, writes and collections may come between any  *)
(* two steps of an audit.                                                  *)
(***************************************************************************)
EXTENDS AcceptanceRecord

CONSTANTS Packages,     \* output directories of the collector
          Notification, \* the item a passing UI test leaves evidence for
          Strategies,   \* what --manual-record is given: best, latest, path
          MayEdit,      \* the working tree may differ from HEAD
          MaxCommits, MaxWrites

VARIABLES log,     \* the version of the product code in each commit
          tree,    \* the version in the working tree
           files,   \* package -> slot -> record
          mtime,   \* package -> slot -> when it was written
           clock, collecting, audit

flowVars == <<log, tree, files, mtime, clock, collecting, audit>>
repo == <<log, tree>>
disk == <<files, mtime, clock>>

Slots == {"review", "notification", "filled"}
HEAD == Len(log)
Idle == [pc |-> "idle"]

FlowInit ==
  /\ log = <<1>> /\ tree = 1 /\ clock = 0
  /\ files = [p \in Packages |-> [s \in Slots |-> None]]
  /\ mtime = [p \in Packages |-> [s \in Slots |-> 0]]
  /\ collecting = [p \in Packages |-> Idle] /\ audit = Idle

\* The working tree is what HEAD says.
Committed == tree = log[HEAD]

\* git rev-parse, which may fail
HeadRead == {HEAD, NoHead}

Exists(p, s) == files[p][s] # None

\* A command that writes one record: bounded by MaxWrites.
Write(p, s, r) == /\ clock < MaxWrites
                  /\ clock' = clock + 1
                  /\ files' = [files EXCEPT ![p][s] = r]
                  /\ mtime' = [mtime EXCEPT ![p][s] = clock + 1]

-----------------------------------------------------------------------------
(* The repository.                                                         *)

\* A commit of documentation or of memory drafts only.
CommitDocs == /\ HEAD < MaxCommits
              /\ log' = Append(log, log[HEAD])
              /\ UNCHANGED <<tree, disk, collecting, audit>>

\* The product changes in the working tree ...
EditProduct == /\ MayEdit /\ tree < MaxCommits
               /\ tree' = tree + 1
               /\ UNCHANGED <<log, disk, collecting, audit>>

\* ... and is committed, with what the tree holds by then.
CommitProduct == /\ HEAD < MaxCommits
                 /\ tree' = IF Committed THEN tree + 1 ELSE tree
                 /\ log' = Append(log, tree')
                 /\ UNCHANGED <<disk, collecting, audit>>

-----------------------------------------------------------------------------
(* The collector: main reads the commit first, the evidence later.         *)

StartCollect(p) ==
  /\ collecting[p] = Idle
  /\ \E head \in HeadRead :
       collecting' = [collecting EXCEPT ![p] = [pc |-> "collecting", head |-> head]]
  /\ UNCHANGED <<repo, disk, audit>>

\* writeManualEvidenceRecords, with what the run captured and what the UI tests
\* have left.  Whatever else the directory holds stays.
FinishCollect(p) ==
  /\ collecting[p] # Idle
  /\ \E captured \in SUBSET RecordItems :
       Write(p, "review", ReviewRecord(collecting[p].head, captured))
  /\ collecting' = [collecting EXCEPT ![p] = Idle]
  /\ UNCHANGED <<repo, audit>>

-----------------------------------------------------------------------------
(* The operator.                                                           *)

\* The instructions in the record: fill in evidence by hand, ...
AddEvidence(p, s, i) ==
  /\ Exists(p, s) /\ i \notin files[p][s].evidence
  /\ Write(p, s, [files[p][s] EXCEPT !.evidence = @ \cup {i}])
  /\ UNCHANGED <<repo, collecting, audit>>

\* ... and set the status of an item and, at the end, the verdict.
MarkByHand(p, s, i) ==
  /\ Exists(p, s)
  /\ \E status \in {"passed", "failed"} :
       LET r == [files[p][s] EXCEPT !.status[i] = status]
           all == \A j \in RecordItems : r.status[j] = "passed"
       IN  Write(p, s, [r EXCEPT !.verdict = IF all THEN "passed" ELSE r.verdict])
  /\ UNCHANGED <<repo, collecting, audit>>

\* prepare:ios-manual-evidence-record without --mark-passed writes filled.json
FillDraft(p, s) ==
  /\ Exists(p, s)
  /\ Write(p, "filled", FilledDraft(files[p][s]))
  /\ UNCHANGED <<repo, collecting, audit>>

\* --attach-notification-ui-test-metadata, when the test has left any
AttachMetadata(p) ==
  /\ Exists(p, "review")
  /\ Write(p, "notification",
           FilledDraft([files[p]["review"] EXCEPT !.evidence = @ \cup {Notification}]))
  /\ UNCHANGED <<repo, collecting, audit>>

\* --mark-passed, with the items that were reviewed.  Given one by one, as lines
\* or as an array they are of no head (assertReviewedItemIds,
\* parseReviewedItemIdsFile); the list of the handoff is refused when it is of
\* another head, and opens no further way.
SignRecord(p, s) ==
  /\ Exists(p, s)
  /\ LET r == Signed(files[p][s])
     IN  RequireComplete(r) /\ Write(p, "filled", r)
  /\ UNCHANGED <<repo, collecting, audit>>

-----------------------------------------------------------------------------
(* The completion audit: of several at a time each judges for itself.      *)

\* collectManualRecordCandidates: manual-evidence-record.notification-review
\* is not among the names it looks for.
Candidate(p, s) ==
  [record |-> files[p][s], package |-> p, slot |-> s, mtime |-> mtime[p][s],
   priority |-> IF s = "filled" THEN 0 ELSE 1]
Candidates ==
  {Candidate(x[1], x[2]) : x \in {y \in Packages \X {"review", "filled"} : Exists(y[1], y[2])}}

\* writeV1CompletionAudit: the commands run first, for a long time.
StartAudit ==
  /\ audit.pc \in {"idle", "passed"}
  /\ \E strategy \in Strategies :
       audit' = [pc |-> "running", strategy |-> strategy, began |-> clock,
                 versions |-> {tree}, clean |-> Committed]
  /\ UNCHANGED <<repo, disk, collecting>>

\* All of them passed.
FinishCommands ==
  /\ audit.pc = "running"
  /\ audit' = [pc |-> "ran", strategy |-> audit.strategy, began |-> audit.began,
               versions |-> audit.versions \cup {tree}, clean |-> audit.clean /\ Committed]
  /\ UNCHANGED <<repo, disk, collecting>>

\* One of them failed, or was not run: what follows is read only, and its
\* verdict is not_complete.
FailCommands ==
  /\ audit.pc = "running"
  /\ audit' = Idle
  /\ UNCHANGED <<repo, disk, collecting>>

\* buildV1CompletionAudit: the head the candidates are judged by
ReadHead ==
  /\ audit.pc = "ran"
  /\ \E head \in HeadRead :
       audit' = [pc |-> "headed", strategy |-> audit.strategy,
                 began |-> audit.began, versions |-> audit.versions, clean |-> audit.clean,
                 head |-> head]
  /\ UNCHANGED <<repo, disk, collecting>>

\* resolveManualRecordPath.  The files changed since the chosen record's head
\* are handed on; a path given explicitly is taken as it is.
Choose ==
  /\ audit.pc = "headed" /\ Candidates # {}
  /\ \E c \in Candidates :
       /\ audit.strategy # "path" => c \in Foremost(log, audit.head, audit.strategy, Candidates)
       /\ audit' = [pc |-> "selected", strategy |-> audit.strategy,
                    began |-> audit.began, versions |-> audit.versions, clean |-> audit.clean,
                    head |-> audit.head, package |-> c.package, slot |-> c.slot,
                    chosen |-> c.record.head]
  /\ UNCHANGED <<repo, disk, collecting>>

\* Without a candidate the record is missing and the audit not complete.
JudgeNothing ==
  /\ audit.pc = "headed" /\ Candidates = {}
  /\ audit' = Idle
  /\ UNCHANGED <<repo, disk, collecting>>

\* readManualRecord reads the file again.
ReadRecord ==
  /\ audit.pc = "selected"
  /\ audit' = [pc |-> "read", strategy |-> audit.strategy,
               began |-> audit.began, versions |-> audit.versions, clean |-> audit.clean,
               head |-> audit.head, chosen |-> audit.chosen,
               record |-> files[audit.package][audit.slot],
               written |-> mtime[audit.package][audit.slot]]
  /\ UNCHANGED <<repo, disk, collecting>>

\* buildManualEvidencePackageFreshness uses the files handed on when there are
\* any to use: those of the head read first and of the record chosen
FilesToJudge(a, r, head) ==
  IF a.strategy = "path" THEN ChangedFiles(r.head, head) ELSE ChangedFiles(a.chosen, a.head)

\* faulty: a complete record is enough, however old
VerdictOfAnyAge(a, r, head) == IF RequireComplete(r) THEN "passed" ELSE "not_complete"

\* The verdict of buildV1CompletionAudit when all commands have passed
VerdictOf(a, r, head) ==
  IF /\ RequireComplete(r)
     /\ FreshnessStatus(log, r.head, head, FilesToJudge(a, r, head)) # "stale"
  THEN "passed" ELSE "not_complete"

\* buildManualEvidenceAudit: a record with a head is judged by the head of now,
\* which is read a second time.
Judge ==
  /\ audit.pc = "read"
  /\ \E head \in HeadRead :
       audit' = IF VerdictOf(audit, audit.record, head) = "passed"
                THEN [pc |-> "passed", strategy |-> audit.strategy, began |-> audit.began,
                      versions |-> audit.versions, clean |-> audit.clean, head |-> audit.head,
                      chosen |-> audit.chosen, record |-> audit.record,
                      written |-> audit.written, judged |-> head]
                ELSE Idle
  /\ UNCHANGED <<repo, disk, collecting>>

Operate == \E p \in Packages :
  \/ StartCollect(p) \/ FinishCollect(p) \/ AttachMetadata(p)
  \/ \E s \in Slots : \/ FillDraft(p, s) \/ SignRecord(p, s)
                      \/ \E i \in RecordItems : AddEvidence(p, s, i) \/ MarkByHand(p, s, i)

Audit == \/ StartAudit \/ FinishCommands \/ FailCommands \/ ReadHead \/ Choose \/ JudgeNothing
         \/ ReadRecord \/ Judge

FlowNext == CommitDocs \/ EditProduct \/ CommitProduct \/ Operate \/ Audit

FlowSpec == FlowInit /\ [][FlowNext]_flowVars

-----------------------------------------------------------------------------
\* The audit has passed, by a record and a HEAD that git could tell.
Passed == /\ audit.pc = "passed"
          /\ audit.record.head # NoHead
          /\ audit.judged # NoHead

\* Such an audit went by a record of the product code of a HEAD it read: with
\* an explicit path, of the one read last; otherwise of one of the two, if the
\* record still was of the commit it was chosen for when it was read again.
RecordIsOfAHead ==
  Passed =>
    LET shows(head) == log[audit.record.head] = log[head] IN
    /\ audit.strategy = "path" => shows(audit.judged)
    /\ audit.record.head = audit.chosen =>
         shows(audit.judged) \/ (audit.head # NoHead /\ shows(audit.head))

\* And if the record was written before the commands began, and the product was
\* committed as they began and as they ended, they ran on one version of it,
\* which is that of the record and of the HEAD they were followed by, whatever
\* was edited and committed in the meantime.
CommandsRanOnTheRecord ==
  (Passed /\ audit.clean /\ audit.written =< audit.began) =>
    audit.versions \cup {log[h] : h \in {audit.head} \ {NoHead}} = {log[audit.record.head]}

\* "best" takes a record that can close the audit when there is one for the
\* HEAD just read, whatever else was written later or misses less
\* (compareManualRecordCandidatesForBest).
BestFindsTheSigned ==
  LET closes(c) == RequireComplete(c.record) IN
  (/\ audit.pc = "headed" /\ audit.strategy = "best"
   /\ \E c \in Candidates : closes(c) /\ c.record.head = audit.head)
  => \A c \in Foremost(log, audit.head, "best", Candidates) : closes(c)

\* The audit passes the code it judged, and judges by a record that can pass
\* it when there is one, whatever is written and committed while it runs
\* (buildV1CompletionAudit).
AuditIsSound == RecordIsOfAHead /\ CommandsRanOnTheRecord /\ BestFindsTheSigned
=============================================================================
