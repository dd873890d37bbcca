# Verification of the AI time-management product

TLA+ models of three parts of this repository. The backend decides what is
written to a user's calendar, expenses and reminders: a turn of the conversation
becomes a plan, the user confirms or rejects it, the backend executes it, records
it in a ledger, and the user may change the same facts directly. The clients, the
H5 workbench and the iOS shell around it, show those facts, offer the plans to
confirm and keep the system's notifications and calendar. The acceptance scripts
gather evidence that all of it works and judge a release by it. The models are
checked with TLC on small instances; what matters most is proved with TLAPS for
every instance.

## 1. Inventory

### The system

| Component | State it keeps | Operations | Interacts with |
|---|---|---|---|
| Planner and SubmitTurn (`python/orchestrator/.../planner.py`, `use_cases/submit_turn.py`, `routes/agent.py`) | none of its own | `submit_turn`: read the open clarification, resolve it or plan the text, abandon, ask, compile and store a plan, record the turn | agent runtime (calls), clarification, plan and turn stores |
| Pending clarifications (`pending_clarification_store.py`, `pending_clarification_repository.py`) | `pending_clarifications`: status, created_at, expires_at | `save`, `latest_open`, `mark_resolved`, `mark_abandoned` | planner |
| Plan execution (`executor.py`, `execution/`, `use_cases/confirm_plan.py`, `reject_plan.py`, `routes/execution.py`) | none of its own | `confirm_plan`, `reject_plan` | plan store, handlers, ledger |
| Plan store (`postgres_execution_store.py`) | `execution_plans`, `domain_actions`, `confirmations`, `confirmation_token_sessions`, `execution_ledger` | `save_plan`, `get_plan`, `list_pending_plans_for_conversation` with recovery tokens, `verify_confirm_token`, `append_ledger` | executor, planner, auditor |
| Domain facts (`domains/calendar`, `expense`, `reminder`; `execution/handlers.py`) | `calendar_events`, `expense_records`, `reminders`, one row per source action | create, patch, close (cancel, complete, submit) | handlers, direct actions |
| Direct actions (`routes/calendar.py`, `expense.py`, `reminder.py`, `direct_action_audit.py`) | none of its own | change a fact, then store a succeeded plan and a ledger entry | facts, plan store |
| Agent runtime (`python/agent-runtime`) | none | rule-based and LLM planning, context assembly, policy, target validation, plan compilation | planner |
| Attachments (`domains/attachment`) | `attachment_intakes` | upload, read | planner's context |
| Turns, events, traces | `conversation_turns`, `agent_events`, `decision_traces` | append, list | use case, planner, H5 |
| In-memory stores | Python lists and dictionaries | the same operations without a database | tests and development |
| H5 workbench (`apps/h5`, `packages/sdk`) | elements per surface, pending tokens in local storage, dock, edit draft | submit, attach, confirm, cancel, act on a row, edit, refresh, follow native | backend over HTTP, shell over the bridge |
| iOS shell (`apps/ios`) | event slot, notifications, system calendar, diagnostics | send events, sync reminders and events, dictate | H5 over the bridge, iOS |
| HTTP retry (`scripts/http-retry.mjs`) | none | a request and up to three attempts | collector, backend |
| Evidence collector (`scripts/collect-ios-acceptance-evidence.mjs`, `manual-evidence-review.mjs`) | a package of files in an output directory | build, launch, seed, photograph, read, write the package and draft the review | backend, simulator, UI test files |
| UI test scripts (`scripts/validate-ios-*-ui-test.mjs`) | a log, a result bundle, metadata, a video per test | run one XCTest, record it | simulator, collector |
| Records and audit (`fill-…`, `validate-…-record`, `prepare-…-handoff`, `collect-v1-completion-audit.mjs`) | the manual records of the packages | draft, fill, sign, validate, choose a record, judge | collector's packages, git |
| Migrations (`scripts/db_migrate.py`, `infra/db`) | `schema_migrations` | plan, apply, baseline | Postgres |
| Android, admin, packages, validation scripts, contracts, AI factory | nothing that matters here | views, types, documents, file checks | - |

### What is hard

FastAPI runs each handler in a thread of its own; nothing locks a plan, a
clarification or a fact, and every repository call opens its own connection and
commits by itself. So two requests on one plan interleave between any two
statements, a local copy of a plan may be old (or torn between two saves of
someone else) when it is saved, and a request that stops halfway leaves what it
has committed. Tokens of several plans and recoveries are alive together, the
client's clock decides which clarification is open, and the shells refresh,
retry and synchronise without numbering what they send. The page is one thread
whose handlers are suspended at every await, so their answers come in any order
and to a page that has moved on or has been loaded again. Native callbacks of two
syncs interleave. The acceptance scripts read, at times they choose, what an app
at its own pace has left, write over what earlier runs left, and are interrupted;
a record is judged while code and records change. The full list, each at
its line and with the properties that watch it, is under "hazards" in
`PROJECT.json`.

### What makes each component correct

* Plan execution: an action takes effect at most once, only with consent, and is
  in the ledger; the ledger and a plan's status are true of the facts; a settled
  plan stays settled; a confirmation that is let in settles its plan.
* Plan store: the rows of a plan agree with each other.
* Facts: one row per action; a closed fact stays as it was closed.
* Turn and clarifications: one question at a time, answered at most once, only
  while it is fresh, and then closed; a resolved question is not lost; a stored
  plan is recorded.
* Policy, validator, compiler: no plan from an unknown tool, a missing field or a
  closed target; every action of a plan needs the confirmation.
* Migrations: each is applied once, in order, or the tool stops.
* H5: what it tells of a plan is what was decided; when it is quiet, it offers what
  awaits and shows what is stored; rows and edits are of the facts they show; every
  handler ends.
* iOS: events arrive in order and once; the notifications are those of the
  scheduled reminders; no event is in the system calendar twice.
* HTTP retry: a request that is sent again does not make a second fact.
* Evidence: what is recorded as evidence was so; files of different runs do not mix
  in a way that misleads; what is interrupted leaves nothing that looks whole.
* Audit: it passes the code it judged, with a complete and signed record of it.

## 2. Plan

| # | Modules | Contents | State |
|---|---|---|---|
| 1 | `PlanExecution`, `PlanLifecycle`, `PlanExecutionRefinement`, `PlanExecution_proofs` | confirm, reject, recover, direct actions, facts, ledger | done |
| 2 | `SubmitTurn`, `Dialogue`, `SubmitTurnRefinement`, `SubmitTurn_proofs` | turns and clarifications | done |
| 3 | `Workbench`, `WorkbenchProperties`, `Outcome`, `FactLists`, `FactEditing`, `Workbench_proofs` | the H5 page over an abstract backend | done |
| 4 | `BridgeMessages`, `NativeBridge`, `ReminderSync`, `SystemCalendar`, `Shell_proofs` | the iOS shell | done but for voice input |
| 5 | `SeedRequests`, `SeedRequests_proofs`, `CalendarEvidence`, `CalendarEvidence_proofs`, `NotificationEvidence`, `UiTestRunner`, `UiTestRunner_proofs` | gathering evidence, HTTP retry included | done |
| 6 | `EvidenceReview`, `CollectorRun`, `AcceptanceRecord`, `AcceptanceFlow`, `Acceptance_proofs` | packages, records, audit | done |
| 7 | `DomainFacts` | patch as read, check, write (end after start), in-memory stores that share records by reference, first against last page of turns | next |
| 8 | `PlanningPolicy` | policy engine, target validator, compiler and context limits as operators against reference definitions | |
| 9 | `DbMigrate` | crash between apply and record, rerun, two migrators | |

The MC modules compose the parts they check: `MCWorkbench`, `MCQuietPage`,
`MCShell`, `MCEvidence`, `MCAcceptance` and `MCEnds` choose one part at the start and
leave the variables of the others alone, so that one run asks one kind of question of
several parts whose state spaces would only multiply.

Every safety property the passing runs check is proved (section 5); the theorems of
parts 7 to 9 come with their modules.

## 3. The modules

### PlanExecution

A request is a process; its thread's place is `pc`, its copy of the plan is
`seenPlan`, `seenActions`, `seenConfirm`, and the actions still to execute are
`todo`. The tables are variables of their own: `planStatus`, `actionStatus`,
`confirmation` (three tables `save_plan` writes in one transaction), `session`
and `live` (recovery tokens, and those not expired), `ledger`, `factIds` and
`factStatus` (the fact tables, one fact per source action). `applied` is a
history variable: which requests wrote the effect of an action.

| Code | Action |
|---|---|
| `save_plan` of a new plan, end of `submit_turn` | `Propose` |
| a handler thread starts | `Start` |
| `get_plan`: three SELECTs | `RefuseUnknown`/`ReadPlan`, `ReadActions`, `ReadConfirmation` |
| `list_pending_plans_for_conversation`, `_issue_recovery_confirm_token` | `ListPending`/`ListNothing`, then `get_plan`, then `IssueRecoveryToken` |
| `confirm_plan` up to the loop | `AcceptConfirm`, `ReplayConfirm`, `RefuseConfirm` |
| `_execute_action`: handler, then ledger | `ExecuteSucceeds`/`ExecuteFails` (its fact written or not), then `RecordOutcome` |
| end of `confirm_plan` | `SaveExecuted` |
| `reject_plan` | `SaveRejected`/`RefuseReject`, then `RecordRejection` |
| direct action routes and auditor | `DirectChange`/`RefuseDirect`, `SaveDirectPlan`, `RecordDirect` |
| `expires_at` of a recovery token passes | `Expire` |
| the process stops, or a database call raises | `Lose` |

Abstractions. The body of a patch is not modelled: an update needs an open fact
and leaves it open. `action_ids` is reduced to "names every required action" or
not. A handler in `Fallible` may raise whatever the fact's state: before the fact is
written (a payload it cannot read), or at or after its commit (the connection breaks,
the row it reads back does not convert). `ExecutionRunner` catches either
(`runner.py:20`), so an action may count as failed although its fact is there, and a
failed plan keeps what took effect; the request goes on. `list_pending_plans_for_conversation` is followed for one plan of
the conversation per request; several plans are several requests. A fact is
named by the action that created it, which is what the unique `source_action_id`
makes it. A token is named by what it was issued for, so equal tokens never
happen by chance. A commit of a plan or of a ledger entry that happened though it was
never acknowledged is the commit followed by `Lose`. Not modelled: the summary memory
that is written after an action, and read-only endpoints.

`PlanLifecycle` is the promise: absent, awaiting, executing, settled; an action
takes effect once, and only while executing; a plan succeeds only when all of its
actions took effect, and a failed one keeps those that did; an execution that is
interrupted leaves the plan waiting (`Safety`); an execution ends or is interrupted.
`PlanExecutionRefinement` maps the one to the other: "executing" is never stored,
it is the time between letting a confirmation in and saving the plan.

### SubmitTurn

A turn is a process of one conversation (every query names the conversation).
`status` is `pending_clarifications` - a question is named by the turn that asked
it - and `plans`, `ledger`, `history` are the plans, their entries and
`conversation_turns`. The two reads of `latest_open` in `submit_turn` are two
steps (`ReadOpen`, then `MatchAnswer` or `MatchNothing`), as are `Resolve`,
`Plan`, `Abandon`, `Ask`, `StorePlan`, the two ledger entries (`Record`) and the
two records of the turn (`Tell`). What a text means is not modelled: it may or
may not answer the open question, and planning, policy and validation may come
to any outcome - but an answer never comes to a mere message. "refused" is the
question `ManagementTargetValidator` asks, which the code does not store.
`latest_open` is exact, expiry and order included: the clock is the client's
(`created_at` too), ties are broken by the random id (`Rank`).

`Dialogue` is the promise: one question at a time, its answer makes at most one
plan. `SubmitTurnRefinement` maps a question that has expired by the latest clock
to a closed one.

The design says of an expired question that the user is told so
(`docs/superpowers/specs/2026-05-27-conversation-routing-clarification-design.md:210`);
the code has no such answer, an expired question is as if it had never been.

### Workbench, Outcome, FactLists, FactEditing

A handler of `AgentWorkbench` that was started is a job: `job[j]` is where it is
suspended and with what. The begin action of a handler runs it to its first await
(`HandleSubmittedText`, `HandleSubmittedAttachment`, `HandleConfirm`,
`HandleCancel`, `HandleSummaryAction`, `HandleSubmitSummaryEdit`, the mount effect
`Open`, the cases of its bridge dispatcher); `Serve` lets the backend serve,
refuse or lose one request; `Continue` runs the continuation when its answers are
there (`SubmitAnswered`, `ConfirmAnswered`, ..., `Failed`). A refresh has two
waves of requests (`ReadSurface`, `ReadTurns`, `ReadPending`, `ReadFiles`), each of which
may fail by itself and then falls back (`FallBack`); `ApplyRefresh` puts them on
the page at once. `storage` is the local storage, which outlives `Close`; `synced`
is what native was last given. The backend is what its requests observe of it:
plans, facts, turns, files and the tokens it accepts. It decides a plan in the steps of
`executor.py:113-175`: a request is let in (`ServeConfirm`, `ServeReject`, or
`OtherClientAsks` for a request in `Others`, of another page or client), a confirmation
executes (`Execute`), and what was decided is saved over whatever was saved since
(`SaveDecision`), or never is (`LoseDecision`). `decision` says how far each request has
come. So overlapping requests may all decide a plan, and the backend goes on when the
page has closed or its `fetch` has failed. One step here and several in the code are the
reads of a plan with the check of its token (`PlanExecution` has the torn ones) and the
storing of a turn with its plan (`SubmitTurn` has those).

`Outcome` is the promise to the user: a plan is decided only by requests let in while it
was open, by each at most once and the way it asked for, and only decisions that were
saved are ever told. Of requests that overlap each is told what it did, and the last
save stands: a page may say "cancelled" of a plan whose facts a confirmation wrote
meanwhile, which is the first of the two findings seen by the user. `WorkbenchProperties`
states the mapping (`OutcomeNow`, `AdmittedNow`, `TakenNow`, `ToldNow`) and the
properties. `FactLists` is `backendApi.ts` as functions of the stored
facts, which are kept by domain as the backend's tables are (`facts`): the lists cut to
their latest rows with the focused fact forced in (`Items`, `ListOf`), the timeline cut
to its earliest; an entry of the timeline is a domain and a place in it (`Entries`,
`ComesBefore`), so that its order is a line also where times are equal. A button is
refused of a fact that is not there or is closed (`Press`). `FactEditing` is the edit panel with
`dateTimeInput.ts`: a stored time is a wall clock with an offset, the control
shows the clock, saving puts an offset back - that of the timezone's text where it ends
in one (`Texts`; a zone's name may, as NZ does), or else the old value's. The seconds of a
stored time are a number of their own.

### BridgeMessages, NativeBridge, ReminderSync, SystemCalendar

`slot` is `HybridShellView.bridgeEvent`, one event numbered when it is set
(`Put`); `UpdateView` evaluates it if it is new to the coordinator (`IsNew`);
`DidFinish` adds the host context; `wire` is what WebKit has not run yet. A page
that has not subscribed drops what is run (`listening`), `ReloadPage` forgets
everything of the page. `Handle` is the page's dispatcher, its cases in their
order, with the texts of a message as far as a case looks at them.

`ReminderSync`: a refresh reads the reminders (`ReadReminders`) and posts its list some
requests later (`PostReminders`), whichever refresh comes first; the user ends and moves
reminders meanwhile (`EndReminder`, `MoveReminder`). A posted list is a sequence of
steps, each a callback of the notification center: list the pending ones, remove them,
ask for permission and add, report (`ListPending`, `RemoveListed`, `AddRequests`,
`Report`, `Refused`). A request is known by its reminder, so adding one replaces that
reminder's, with the time the list says. A list may be posted while earlier ones are
still on their way; `last` says of the newest one whether its sync has ended, whether it
was `alone` when it listed what was pending, and whether a sync failed since, and
`mixed` which reminders the syncs on their way were not given alike: a different time, or
not at all by one of them. There the callbacks that come last win.
`SystemCalendar` is a loaded page that reads and posts the events and
`syncWithAccess`, which removes the entry of an event before it writes it, and may
break off anywhere (`SyncFails`).

### SeedRequests, CalendarEvidence, NotificationEvidence, UiTestRunner

`SeedRequests` is `fetchWithRetry` under `seedAcceptanceFacts`: requests on their
way are a set (`wire`) that earlier attempts stay in, so that a request is served
late, twice as two attempts, or never. A plan is named by the input and the
attempt that made it. `CalendarEvidence` and `NotificationEvidence` put the
collector's waits and reads beside the app's own steps: what it reads is what is
there by then. `UiTestRunner` is one run of a test after the other in a directory
of its own: a file is the number of the run that wrote it.

### EvidenceReview, CollectorRun, AcceptanceRecord, AcceptanceFlow

`CollectorRun` goes from part to part in the order of `main`, those its `options` ask
for, `--skip-build` among them; a part finds some of what it looks for, and
`EvidenceReview` says what the review draft suggests out of what was found and what the
guides ask for, label by label. Each file of the package is a step (`WriteFile`), `dir`
is the run that wrote it last. A record
in `AcceptanceRecord` is its commit, its items with the version of the product
each evidence is of, and its sign-off; the choice of a record is by keys compared
in order (`BestKey`, `LatestKey`), freshness by the files changed since its commit, or
unknown where there is no commit to compare (`NoHead`: git did not tell one).
`AcceptanceFlow` is the commands that make and change records, commits of
documents and of code, edits not yet committed (`MayEdit`), and the audit in its
steps: it starts, its commands end, it reads HEAD (`ReadHead`), chooses a record
(`Choose`: `Foremost` under the strategy), reads that record again (`ReadRecord`) and
judges it by a second look at HEAD (`Judge`). Nothing holds files and HEAD still, so
everything else may happen between any two of them. `clean` tells whether the product
was committed as its commands began and as they ended, `written` when the judged record
was written, `judged` which HEAD it was judged by. The reviewed items an operator gives
to `--mark-passed`, one by one, as lines, as an array or as the list of the handoff, open
no further way to sign, so `SignRecord` has none of them. One step here and several
in the code is the reading of all candidates.

## 4. The runs

| Run | Shows | Instance |
|---|---|---|
| `plan_execution_race` | what plans, ledger and facts say of each other stays true under any interleaving and any loss | 3 concurrent requests of any kind; plan p1 creates a fact and cancels an older one, plan p2 edits that same one; both actions of p1 may fail before or after they write |
| `plan_execution_serial` | requests one after the other implement `PlanLifecycle`, its liveness included | 3 requests, one at a time, any of them lost, of which one action may fail before or after its fact is written |
| `plan_execution_reject` | violation: a rejected plan whose facts were written | 2 concurrent requests |
| `plan_execution_repeat` | violation: a succeeded plan turns into a failed one | 2 concurrent confirmations |
| `submit_turn_race` | questions, answers, plans and records stay consistent | 3 concurrent turns, clocks 0 and 1 in any order, a question lives 1 |
| `submit_turn_serial` | turns one after the other implement `Dialogue` | 3 turns, clocks 0 to 2 that do not go back, a question lives 2 |
| `workbench_page` | what the page tells, lists and edits is so, whatever overlaps | a race of 4 handlers, 2 at a time, of one plan, with failures and a page that closes at any time; 4 handlers and a request of another client, on a page that stays and without failures; 3 facts in lists cut to 2 and a timeline cut to 2; times of 3 clock readings with offsets that differ, a zone that changes its own and a zone whose name reads as an offset |
| `ends` | what was started ends: a confirmation that was let in settles its plan unless it is lost, handlers and docks, the seeding, the scripts | 2 concurrent requests on the plans of `plan_execution_race`; 3 handlers, 2 at a time, with failures; 3 of facts; 2 events and 2 messages across a reload; 2 inputs and 2 attempts; 2 runs of two UI tests |
| `quiet_page` | what a quiet page offers, shows and gives native | 5 handlers of every kind there is, one at a time, 2 plans and 3 facts, the page loaded again between any two turns; in the iOS shell and in a browser |
| `shell` | order of events, notifications, evidence of notifications | 3 events of six kinds, 2 messages, a reload; 3 syncs that overlap, of a reminder that is moved, read by refreshes of which 2 overtake each other; 2 syncs of 2 reminders; the collector with 3 reminders |
| `evidence` | evidence of UI tests, seeding and calendar | 3 runs of each of the six tests; 2 inputs with the 3 attempts of the code; 2 runs of the collector on one calendar |
| `acceptance` | packages, reviews, audits | 2 runs with at most 2 misses each, with every option but `--skip-build`, with what `--seed-supported-system-evidence` asks for and `--skip-build`, and with none; audits of a package of 2 items under 2 commits, 3 writes and the strategies "latest" and "path"; of 2 packages under 1 commit, 3 writes and the strategy "best"; of a package under uncommitted edits, 3 commits and 2 writes |

Why these bounds are enough, for the backend: the hazards are races of two requests, and a third
is what a race needs to show its result to (a retry after a lost confirmation, a
later question after two asked at once). p1 has two actions, so that a loop can
be lost between them and one can fail after another succeeded; both plans
target one fact, so that chat and direct actions race for it; an action that
closes and one that patches are both there, the third kind creates. With three
clock readings a question can be fresh, expired by a later turn, and open again
to a clock that went back. `MaxInFlight`, `Times` and the finite sets of requests
are the only bounds; deadlock is not checked because a run ends when all
requests have been served.

For the others: what goes wrong between two handlers, syncs or runs needs two and
a third step to show it - a refresh that began before a turn and ends after a
cancellation, a third sync after two that overlapped, a third run of a UI test
whose files are those of the two before. Lists need one row more than their limit,
and one that is focused. A record needs a commit before and a commit after it, a
choice needs two. Two misses are what it takes for one to hide the other. What is
not in an instance is not in its claim: the page's lists and its handlers are
checked apart, because a list is a function of what a refresh read. The handlers of
the page that run one at a time are alike, and so are the ids of facts, so `quiet_page`,
`ends` and the lists of `workbench_page` take them in the order of their names
only (`InOrder`), and so does the race of `workbench_page` (`HandlersInOrder`). The
requests of `plan_execution_race` are a symmetry set.

Fairness: `FairSpec` of the backend asks for weak fairness of every step of a request that has
started, because the server's thread runs until it answers; it asks nothing of
clients, of the loss of a request or of the expiry of a token. In `ends` a
request of the page is answered or fails - `fetch` does one of the two - and a
continuation whose answers are there runs; SwiftUI updates a view whose state
changed, WebKit runs its scripts, a handler of the page ends; a connection
answers or breaks; a script's process goes on. Nothing is asked of the user, of a
recorder (it may ignore the signal it gets) or of the server's answer in time.
Of the backend and of the page `ends` asks only that some step that is due be taken, not
each request's and handler's: every request takes boundedly many, so that is enough.

### The two findings

`confirm_plan` and `reject_plan` decide on the status in the copy they read and
then save that copy without a lock or a condition on what is stored.
`plan_execution_reject`: a rejection reads, a confirmation executes and saves,
the rejection saves: the plan reads "rejected", its facts are written - what the
400 of `test_reject_executed_plan_fails` is there to exclude.
`plan_execution_repeat`: two confirmations are let in; the second finds the facts
already closed, its actions fail and "failed" is saved over "succeeded", although
repeated confirmation is to be idempotent. Everything the race run checks holds
all the same; in particular neither makes a row twice.

### What concurrent turns can do

`Dialogue` is kept by turns that come one after the other, which is what a client
that waits for its answer does. It is not promised, and not kept, by turns that
overlap: two turns that find no open question leave two, the older of which is
offered for an answer when the newer is closed; two turns can answer the same
question and make two plans; and an abandonment can be written over a resolution.
The race run shows what remains true even then.

### What the clients and scripts do not keep

Met while modelling, each a step the models have, none a run of its own. Line
numbers with 05 and 03 are of `05-ai-workflow-collaboration.md` and
`03-evolution-log.md` in `docs/knowledge-sync/feishu-pages`.

* The page is told "cancelled" of a plan whose facts are written where a confirmation and
  a rejection of it overlap, and a result of a plan that reads rejected: `ToldTheTruth`
  says what is so when only one kind was let in, and what each was told when both were.
* An action that fails after its fact was committed (`runner.py:20`) is told, recorded
  and saved as failed; its fact is there. `SucceededIsLedgered` and `WritesAreAudited`
  say what is left to rely on.

* A refresh that was overtaken puts an old list back, and one whose request failed
  an empty one: the card of a waiting plan is gone until the next (05:164, 03:1675),
  a decided plan's card may come back (03:1676). `OffersWhatAwaits` and
  `ShowsTheFacts` are about handlers that do not overlap and requests that do not fail.
* An event set before the view updated is lost, a tap on a notification with it
  (05:154, `HybridShellView.swift:316`); a reminder outside the first rows of the
  timeline is focused but not shown there (`docs/qa/ios-v1-system-acceptance.md:241`).
* An event saved in a named zone gets the offset its old value had, not the offset of
  the zone that was filled in (05:182; `dateTimeInput.ts:71`); and one in the zone NZ,
  which the field takes as any text (`components.tsx:1141`), is moved by about half a day
  when it is saved as it is, since the Z of the name is read as +00:00
  (`dateTimeInput.ts:16-22`). `EditsMoveNothingElse` exempts such a name.
* Two reminder syncs that overlap leave the notification of a closed reminder
  (03:941), or one at the time a reminder was moved away from; and refreshes that overtake
  each other make the list posted last the older one. `NoGhost` is about a sync
  that began with no other on its way, `NothingLost` leaves out what the syncs were not
  given alike, and that the list is the freshest is `NativeFollows`, of a page whose
  handlers do not overlap.
* A calendar permission denial is accepted though the permission had been refused
  earlier (05:234), and given back only if it was known to be granted
  (`docs/qa/ios-v1-system-acceptance.md:125`). The picture of the calendar without the
  entry is named as evidence though it was not taken (05:564); the bridge evidence is
  available when the sync message did not include the run's own reminder (05:797); the
  conversation id is "stable" also if the app could not be stopped and launched
  again (03:3138).
* `fetchWithRetry` retries what breaks before the answer, not the reading of its
  body (05:240).
* The collector takes the files of UI tests as they are, whatever commit they are
  of (05:757), and after an interrupted run those of that run (05:799):
  `EvidenceIsOfOnePass` is about tests whose last run ended.
* With `--skip-build` a run of the collector exits with 0 though nothing was built:
  `ReviewIsFounded` and `RunsAreWhole` say of a build only what the run asked for.
* The audit looks at HEAD, not at what is edited (05:504), and reads HEAD and its record
  twice each: a commit, or a record written anew, between the two looks can let a record
  of an earlier product pass, which 05:506 calls stale. It blocks only what is "stale"
  (`collect-v1-completion-audit.mjs:772`), so a record without a commit, or a git that
  does not answer, passes too. `AuditIsSound` says what holds whatever is committed
  and written meanwhile: a pass by a record that has a commit rests on the product of a
  HEAD the audit read, and on the code its commands ran on only where the record was
  written before them and they began and ended on what was committed.
* A list of confirmed items without the commit of its record signs any record (05:949).

## 5. The proofs

Checked by TLAPS for every value of the constants: any sets of plans, actions,
requests, turns, handlers, events, reminders and packages, and any number of runs.
Five theorems have hypotheses on how the system is used, named with them below.

`PlanExecution_proofs`: `TypeCorrect`, `OneRowPerAction`, `ClosedFactsStay`,
`SettledPlansStay`, `LedgerIsTrue`, `SuccessIsLedgered`, `ConsentToWrites`,
`WritesAudited` and `RowsAgree` - every property of the race run. None is
inductive by itself. The inductive invariant `IInv` adds to the types: what a
request knows by the step it stands at (`RequestOK`, `SeenOK`: the plan
it read is stored, and it found a confirmation just when the plan has actions), that a confirmation
row exists exactly for plans with actions (`CardOK`), that recovery tokens are
kept with their plan (`SessionOK`), how far the loop of a confirmation has come
and what the ledger and facts hold of it (`WorkOK`), and who wrote an effect
(`AppliedOK`). `RowsAgree`
follows from `WorkOK` and `SeenOK`: whatever was torn in what a request read, by
the time a confirmation saves every action is settled in its own copy, and a save
replaces all rows of the plan by statuses that agree; a rejection sets them all,
and finds a confirmation to set just when the plan has actions. For the ledger the
argument is that facts only move forward: absent, open, closed.

`PlansKeepTheirLifecycle`: requests served one after the other (`MaxInFlight = 1`), any
of them lost halfway and with actions that fail before or after they write, implement
`PlanLifecycle!Safety`, step by step (`LifecycleStep`): a plan begins where its
confirmation is let in, an action is performed where its handler writes for the first
time, the plan ends where it is saved and waits again where the request is lost. Beyond
`IInv` the argument needs `OneByOne`: what a request has read of its plan is still so
(`CopyIsNow`), and what it has seen succeed has had its effect (`SuccessesAreReal`), by
itself or by one that was lost before. `CopyIsNow` is what concurrent requests break,
which is how the two findings come about.

`SubmitTurn_proofs`: `TypeCorrect`, `AnswersClose`, `FreshAnswers`, `ResolutionsHaveAnswers`,
`RecordsOfPlans` and `ClosedQuestionsStay`, from `PhaseOK`
(what a turn has done by the step it stands at), `AnswerOK` (questions it has
read were asked; one it answers is closed unless it has not come to that) and
`RecordOK`.

`TurnsAreADialogue`: turns served one after the other whose clocks do not go back
(`MaxInFlight = 1`, `Skewed = FALSE`) implement `Dialogue`, however many are lost
halfway. `SerialInv` adds that the turn being served has the latest clock
(`LatestClock`), that it has read the question that is open or closed it
(`KnowsTheOpen`), and that of two turns that answer one question one was lost before
it made a plan (`OneAnswer`); so no question that has expired for all opens again
(`NothingReopens`) and a question is asked only when none is open.

`SeedRequests_proofs`: `SeedingTypes` and `OneFactForEachInput`, for any number of
inputs and attempts. The argument: all confirmations of an input, sent or
executed, name one plan (`OnePlan`), those of the input at hand the one chosen for
it (`AtHand`), later inputs have none (`NothingAhead`).

`UiTestRunner_proofs`: `UiTestTypes` and `UiTestEvidence`, for any tests and any
number of runs. A run removes the old bundle and video before it makes its own
(`Fresh`), knows at the end of the test whether it passed (`Tested`), and writes the
metadata last (`Settled`, `Younger`).

`Workbench_proofs`: `PageTyped`, `ToldIsTrue`, `NoTurnStandsTwice`,
`OutcomesAreTold` and `EditsAreExact`, for any plans, facts and handlers that
overlap, fail and are left behind by a page that closes, with or without another
client. The invariant `PageInv`: a fact of a plan is written by a request that
executes it, and what is saved of a plan is what one of its requests decided
(`DecisionsSound`); a handler that was answered knows of a request that saved what it
was told, and of no turn the backend has not (`HandlersKnow`) - what a request has saved
stays its decision whatever is saved over it (`Onwards`), so an answer is true however
late the continuation runs; turns are of handlers that were
started (`TurnsStarted`); what stands in the conversation is of such handlers, and
what was typed was typed on this page (`ElementsGrounded`), which is why a refresh
leaves the history out. `OutcomesAreTold` is the refinement of `Outcome`, whole: it
asks for no fairness. A step that lets a request in is `Admit` (`AdmitsOne`), a save is
`Decide` (`DecidesOne`), whoever else was let in meanwhile. `EditsAreExact` is arithmetic over any clocks, zones and
offsets. The hypotheses are `ConstantsOk` and `EditingConstants`, which say what the
constants are and which `MCWorkbench` assumes.

`QuietPagesOffer`, `QuietPagesShow` and `NativeIsKeptUpToDate` state
`OffersWhatAwaits`, `ShowsTheFacts` and `NativeFollows` for any plans, facts and
handlers, on either host, under `OneAtATime`: handlers do not overlap, no request
fails, no other client settles plans (`Others = {}`), and the page is closed only when it
is quiet.
`MCQuietPage` assumes the same of the two pages it checks them on. Quiet is only where a
handler ends, so the invariant `QuietInv` follows the one handler there is
through its steps (`Sole`): until its request is served the page is as it should be
(`UpToDate`), and a request that was let in is its own until it is saved (`Held`);
afterwards what it has read again is what is stored (`ReadsAreNow`), and
whatever is out of date is its own to put right - the card of the plan it
decided (`CardsAwait`), that plan's stored token (`TokensAwait`), the lists
native was given (`NativeIsTold`). The last is where the handlers that do not post
to native matter: one that changes a fact always does. `CardsRefreshed` is the core:
what is left on the page when the second wave is merged in is a card for
each plan that awaits, with the token this handler's recovery made live.

`RowsStaySound` is `RowsAreSound` for any facts, ids, times and limits. `ListsInv`
keeps that the facts of a domain stand in its list, that no two have one id (`FactsOk`),
and that nothing was refused: a row that is rendered is of a fact that is there, and
one with buttons of an open one (`RowsAreOfFacts`), so a button of it changes that
very fact. What is left of a list that was cut is given row by row (`LatestKeeps`,
`FirstKeeps`, `SelectedRows`). For the timeline its order is a line (`InOneLine`) and a
place counts what comes before it (`PlacesCount`), so what is left out comes after all
that is kept; that it is full before anything is left out needs a first of the entries
left out and a last of those kept (`OneIsFirst`, `OneIsLast`), which there are because
the strict subsets of a finite set are well-founded: what is first has the fewest before
it. The only hypothesis is `ListConstants`, which `MCWorkbench` assumes.

`Shell_proofs`: `EventsInOrder`, for any events, messages and reloads: the
numbers received, on the wire and dispatched last form one increasing line. Of the
notifications `SyncsLoseNothing`, `LoneSyncsLeaveNoGhost` and
`NotificationEvidenceHolds` (with `CollectingLosesNothing`), for any reminders and any
times, lists posted in any order and syncs whose callbacks interleave. Why an older
sync cannot lose what the newest added: syncs list what is pending in the order they
were posted (`InTurn`), and only what native was asked for is ever pending (`AskedFor`);
a reminder that is not `mixed` has one time in all lists on their way, and a sync that
follows one that was given it was given it too (`Alike`);
so whatever a sync removes of it is still to be added, for that time, by a sync
that has cleared and not yet added (`Kept`). A sync that began alone runs alone
(`Alone`). For the evidence, what the collector has found was shown by the center (`Grounded`), and its
reminders are not there before it makes them (`NotYet`).

`Acceptance_proofs`: `PackagesAreWhole`, for any number of runs: a run that
stands at a file has written those before it (`Written`), one that is not ready
never comes to the records (`Unready`), one that exits with 0 has written all (`Kept`).
`ReviewsAreFounded`: what the draft suggests was found, label by label, where the
ledger's markers alone would not tell and the entry in the calendar does (`Founded`).
`AuditsAreSound`, for any packages, commits and writes between any two steps of an
audit: versions of the product only grow (`History`), a record is of a commit there is
or of none (`Filed`), and what the audit's commands saw is of no version before that of
any record written before them and, when committed, of none after HEAD (`Between`), nor
after the HEAD it reads (`Headed`). A record of before stays the one that was chosen
(`Chosen`, `Taken`), as writing it anew makes it a later one; so where the files changed
since the record leave it fresh (`NothingChanged`, `DocsKeepTheProduct`) record, commands
and that HEAD show one version. That the best record is complete when one of HEAD is
(`BestIsComplete`) follows from its key.

`CalendarEvidence_proofs`: `OneEntryOfEach` and `CalendarEvidenceHolds`, for any
events, refreshes and runs of the collector on one calendar. The first follows from
what a write clears before it writes (`WriteCounts`). For the second, what a sync
has reported removed is gone for good (`Gone`): canceled, in neither the calendar
nor the identifiers, and held as scheduled by no process of the app. `Posted`
gives that a process posts one reading of the facts, in which what is canceled
stays so; `Ahead` that a run creates its events once. `SeedsDiffer` - the events of
different runs differ, as `create_event` gives each a new identifier - is a
hypothesis of both theorems, which `MCEvidence` assumes of its instance.

The proofs assume only the named assumptions of each module on its constants,
which TLC evaluates in the runs, and the hypotheses named above. Only model-checked:
liveness (`ConfirmSettles`, `PageSettles`, `BridgeSettles`, `ScriptsEnd`, and of
`ImplementsLifecycle` that an execution ends), which these provers do not reach.

## 6. Not modelled

The components with status `not_modelled` in `PROJECT.json`, each with its
reason: those of the backend are on the plan above; the Android shell, the admin
app, the shared packages, the documents and the validation scripts keep no state
that a property could be about. Of the iOS shell, speech and text recognition and
the drawer; of the collector, `--reset-app` but for the calendar, the browser's clicks and the wording
of its reports; of the records, the printed review pack.
