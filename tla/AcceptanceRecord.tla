-------------------------- MODULE AcceptanceRecord --------------------------
(***************************************************************************)
(* The manual evidence record of an iOS acceptance package, and what the   *)
(* scripts that read it compute: what is missing, whether it is complete,  *)
(* whether it is fresh, and which of several records an audit takes.       *)
(*                                                                         *)
(* An item has all the evidence it asks for or not: the five categories    *)
(* and the labels looked for in them are EvidenceReview's subject.  Commits*)
(* are numbered and history is linear: log[h] is the version of the        *)
(* product code in commit h, and a documentation commit repeats the        *)
(* version of the one before.  An item has a blocker when its status is    *)
(* failed or blocked.  The constant header fields of a record              *)
(* (schemaVersion, the two manual flags, packageEvidence) are never edited.*)
(***************************************************************************)
EXTENDS Integers, Sequences, FiniteSets, FiniteSetsExt

CONSTANTS RecordItems

None == [kind |-> "none"]

\* What git rev-parse leaves when it fails: the empty headSha of a record, the
\* null head of an audit.
NoHead == 0
Unsigned == [mode |-> "none", head |-> NoHead, items |-> {}]

\* buildManualEvidenceRecord, buildManualEvidenceDraft and
\* buildManualEvidenceReview: the three files of a package agree but for the
\* evidence, which only the review has.  The review is what is kept here.
ReviewRecord(head, evidence) ==
  [kind |-> "record", head |-> head,
   verdict |-> "not_evaluated",
   status |-> [i \in RecordItems |-> "pending"],
   evidence |-> evidence, sign |-> Unsigned]

\* missingEvidenceForItem, missingEvidenceEntries, missingEvidence
Missing(r) == RecordItems \ r.evidence

\* reviewedItemIdMismatch and completionSignoffGaps: the head of a sign-off is
\* compared when the record has one
SignoffHolds(r) == /\ r.sign.mode = "mark-passed"
                   /\ r.sign.items = RecordItems
                   /\ r.head # NoHead => r.sign.head = r.head

\* validateManualEvidenceRecord with requireComplete
RequireComplete(r) == /\ r.verdict = "passed"
                      /\ SignoffHolds(r)
                      /\ Missing(r) = {}
                      /\ \A i \in RecordItems : r.status[i] = "passed"

\* buildFilledManualEvidenceRecord: the draft it writes without --mark-passed
FilledDraft(r) == [r EXCEPT !.sign = [Unsigned EXCEPT !.mode = "draft"]]

\* ... and what --mark-passed writes: every status is replaced.
\* It is written only when it validates as complete.
Signed(r) ==
  [r EXCEPT !.verdict = "passed",
            !.status = [i \in RecordItems |-> "passed"],
            !.sign = [mode |-> "mark-passed", head |-> r.head,
                      items |-> RecordItems]]

\* postRecordChangedFilesBetweenHeads: what differs between two commits, one
\* file for each commit from the one to the other; nothing for a missing head
ChangedFiles(recordHead, head) ==
  IF recordHead = NoHead \/ head = NoHead THEN {}
  ELSE {c \in 1 .. recordHead + head :
          \/ recordHead < c /\ c =< head
          \/ head < c /\ c =< recordHead}

\* docsOnlyFreshnessStatusForChangedFiles: none of them changed the product
DocsOnly(log, files) ==
  files # {} /\ \A c \in files : log[c] = log[c - 1]

\* freshnessStatusForRecordHead and packageFreshness, with the files the
\* caller found changed.  A head that is there is one that git printed.
FreshnessStatus(log, recordHead, head, files) ==
  CASE recordHead = NoHead -> "missing_record_head"
    [] recordHead # NoHead /\ head = NoHead -> "unknown"
    [] recordHead # NoHead /\ recordHead = head -> "current"
    [] /\ recordHead # NoHead /\ head # NoHead /\ recordHead # head
       /\ DocsOnly(log, files) -> "current_with_docs_only_changes"
    [] OTHER -> "stale"

\* manualRecordFreshnessRank
FreshnessRank(status) ==
  CASE status = "current" -> 0
    [] status = "current_with_docs_only_changes" -> 1
    [] status \in {"missing_record_head", "unknown"} -> 2
    [] status = "stale" -> 3

Freshness(log, head, r) ==
  FreshnessStatus(log, r.head, head, ChangedFiles(r.head, head))

\* faulty: the evidence that is there counts before the sign-off does
BestByEvidence(log, head, c) ==
  << FreshnessRank(Freshness(log, head, c.record)),
     Cardinality(ChangedFiles(c.record.head, head)),
     0, Cardinality(Missing(c.record)), -c.priority, -c.mtime >>

\* compareManualRecordCandidatesForBest.  A candidate is a record with its
\* place: [record, priority, mtime].  The keys are compared one after another.
BestKey(log, head, c) ==
  << FreshnessRank(Freshness(log, head, c.record)),
     Cardinality(ChangedFiles(c.record.head, head)),
     IF RequireComplete(c.record) THEN 0 ELSE 1,
     Cardinality(Missing(c.record)),
     c.priority,
     -c.mtime >>

\* compareManualRecordCandidatesForLatest
LatestKey(c) == << -c.mtime, c.priority >>

Precedes(a, b) ==
  \E k \in DOMAIN a : a[k] < b[k] /\ \A j \in 1 .. (k - 1) : a[j] = b[j]

\* resolveManualRecordPath: what may be the first of the sorted candidates
Foremost(log, head, strategy, candidates) ==
  LET Key(c) == IF strategy = "best" THEN BestKey(log, head, c) ELSE LatestKey(c)
  IN  {c \in candidates : \A d \in candidates : ~Precedes(Key(d), Key(c))}
=============================================================================
