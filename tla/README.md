# Formal model of the product test tracing system

The repository is a web application (FastAPI, SQLAlchemy, SQLite) in which
testers execute product tests and developers work on the defects that are
found.  This directory holds TLA+ modules that model its core, TLC
configurations that check them on small instances, and proofs, checked by the
TLA+ proof system, of the properties that matter most.  Paths below are
relative to the root of the repository; `run service` stands for
`app/services/product_test_run_service/`.

- [The system](#the-system)
- [The modules](#the-modules)
- [What is checked](#what-is-checked)
- [Bounds and abstractions](#bounds-and-abstractions)
- [What is proved](#what-is-proved)
- [What the violations show](#what-the-violations-show)
- [What is not modelled](#what-is-not-modelled)

## The system

### Components

| component | state | operations | what makes it correct |
|---|---|---|---|
| status transition service (`_status.py`, table in `_common.py`) | status column of runs, results, procedure results, defects; rows of `product_test_status_transition` | `ensure_product_test_status_transition_recorded` | statuses move along edges only; every move is recorded with its old and new status in the same transaction |
| runs, results, evidence, defects (`_runs.py`) | the rows and their columns | start, finish, cancel a run; start a result; save a procedure result, evidence, a defect | a result is the summary of its procedures; judgements have reasons; one result per run and case; one defect per scope and title |
| defect workflow (`_defects.py`) | columns of a defect | assign, fix, create retest, retest, close, reject | evidence before a serious defect is assigned; a retest is another passed result of the same case |
| shared helpers (`_common.py`) | none | next identifier, commit or rollback, row lookup | identifiers are unique |
| sessions (`app/db.py`) | engines, pooled connections | one session per request, `autoflush=False` | a request commits as a whole or not at all |
| tester routes (`product_test_tester_router.py`) | none | one request each | a refused request changes nothing |
| seed (`_seed.py`) and import (`scripts/migrate_excel_to_db.py`) | rows of all tables; the import commits nine times | run once; run again after a failure or with a corrected workbook | what they write satisfies the rules; a resumed import does what one import does |
| table editor (`product_test_field_update_service.py`) | any row; the foreign-key switch of a pooled connection | update cells, rename identifiers, delete with cascades | no reference without a row, no unrecorded status, no wrong summary but by the paths that are known to leave one |
| UI state (`tracking-ui-state.js`, `ui-state` routes) | local storage, pending timers, requests in flight, one row per key | set, remove, flush, hydrate; upsert, delete | the last change of a user is stored and shown |
| custom sheets, calendar (`tracking_router.py`, `tracking.js`) | rows with an order per region; cells; edits not yet saved | create, edit, save, retry, delete, move | the order of a region is strict; every cell filled in is stored |
| summary of the tracking page (`tracking_router.py`, `status_vocab.py`) | none | one read that joins the sheets into nine lists | the lists agree with each other |
| restart daemon (`smart_web_restarting_daemon.py`, `run.py`) | web process, debounce timer, main loop | restart, poll and spawn | one process, running the code on disk |
| start of the server (`main.py`, `app/db.py`) and daily backup | schema; directory of the day | rename tables and columns, back up, bind the port | the schema is whole when a server serves; a backup is one snapshot |
| scripts that rename identifiers (`scripts/task15_*.py`) | runs, cases, results and their identifiers; a plan read before | normalise rounds, renumber, replace releases by rounds | nothing is lost; identifiers agree with what they name |
| scripts that rebuild the release tree (`scripts/migrate_topology_restructure.py` and three more) | rounds, topologies, RCs and their statuses | four rebuilds in any order | every result keeps its round and configuration; statuses roll up |
| scripts that rework records (merges of tables, renames, repairs) | tables of targets and configurations, identifiers of cases, rounds | one transaction each, or a copy written back | identifiers that rows name exist; no row is lost or misfiled |
| project engines (`app/db.py`) | dictionary of engines | get or create | one engine per project |
| authentication (`app/auth.py`) | set of active names | admit | the limit is on active users |
| lists, traces, exports, forms, sheets, pages | - | reads, single-row writes | - |

### How they interact

A route calls one function of the run service with a session of its own.  The
function checks its arguments, reads rows, calls the transition service for
every row whose status changes, adds rows, and ends with
`_commit_or_rollback`.  The routes are plain functions, so FastAPI runs them in
a pool of threads: requests overlap.  They share nothing but the database.
SQLite (WAL) serialises the commits; pysqlite begins a transaction at the first
write, so everything a request reads before is read in separate snapshots.
Identifiers are chosen by the service: one more than the largest number in the
table (`_next_prefixed_id`).

Browsers keep settings and sheets of their own and save them behind the user's
back; each save is an independent request.  In its watching mode, `run.py`
starts the server from a daemon that replaces it when a file changes; every
start renames parts of the schema and makes the backup of the day before it
binds the port.  The scripts open the database file directly, while the server
may be running, or write a changed copy back over it.

### What is hard about it

- *Identifiers and `autoflush=False`.*  A row that is added is not in the
  database before the commit, so the next identifier of the same table is the
  same again.  Every transaction with two rows of one table fails, and every
  status transition is a row of one table.
- *A stored summary.*  The status of a result is written by whoever saves a
  procedure; some summaries cannot be reached along an edge (blocked to failed)
  and such a save is refused as a whole.
- *Checks now, use later.*  A defect is closed on a result that was passed when
  it was retested; evidence is checked at some transitions only; a defect needs
  a failed result only when it is opened.
- *Overlapping requests.*  The status of a row is read when the row is loaded,
  the transition number later, and both are written at the commit.

- *Connections are pooled.*  `PRAGMA foreign_keys` belongs to a connection and
  does nothing inside a transaction: what one request switches off stays off
  for the next one.
- *Statements that commit by themselves.*  sqlite3 opens a transaction at the
  first INSERT, UPDATE or DELETE; a CREATE TABLE or ALTER TABLE before it is
  committed at once and outlives a rollback.
- *Local state and the server's.*  A browser writes what it read over what it
  has changed since, and the server what arrived last over what was sent last.
- *Scripts in an order nobody tried.*  Each was written for the database the one
  before it left; most can be run again, and some were broken off.

The list of hazards with their lines is in `PROJECT.json`.

## The modules

```
StatusRules          the vocabulary, the edges, the summary rule
   |        \   \
   |         \   TableEdits -- MCTableEdits          the table editor
   |          \     \-- TableEditsProofs
   |           ConcurrentRequests -- MCConcurrentRequests   overlapping requests
   |              \-- ConcurrentRequestsProofs
TestExecution -- MCTestExecution -- GuideClaims      the run service
   |   \-- TestExecutionProofs
   +-- INSTANCE AuditedLifecycle   (what the status service promises)

TrackingSummary -- TrackingPage -- MCTrackingPage    browsers, tracking_router.py
                       \-- TrackingPageProofs
WebHost -- WebHostProofs                             daemon, start, backup
ExcelImport -- RecordScripts -- MCRecordScripts      import and repairs
                  \-- RecordScriptsProofs
ReleaseTree -- MCReleaseTree                         rebuilds of the release tree
    \-- ReleaseTreeProofs
IdMigration -- MCIdMigration                         task15_1 to task15_5
    \-- IdMigrationProofs
```
A line is EXTENDS, from left to right or downwards.

**StatusRules** translates `ENTITY_TRANSITIONS`, the status vocabularies and
`_summarize_result_status`.  A machine is a set of edges.  The status `absent`
stands for a row that is not there and for the NULL `from_status` of a creation.

**AuditedLifecycle** is the abstract specification: entities with a status and
the newest transition row about them; a step moves some entities, each along an
edge of its machine or from nothing to a first status, and the newest
transition of a moved entity says exactly that.

**TestExecution** models the operations of the run service, one action each,
requests served one after the other.

| state | code |
|---|---|
| `status` | the four status columns; a procedure row is the pair of its result and procedure |
| `newest` | the newest row of `product_test_status_transition` of each entity |
| `place` | `product_test_run_id` and the case of a result |
| `reason` | `judgement_reason` of a procedure row |
| `defect` | result, scope (procedure row or none), normalised title, critical/major or not, retest result |
| `evidenced` | the defects that evidence of their own result points to |
| `failed` | the operation whose commit failed last (history, read by the claims only) |

| action | code |
|---|---|
| `StartRun`, `EndRun` | `start_run`, `finish_run`, `cancel_run` |
| `StartResult`, `CreateResult` | `start_product_test_result`, up to and after the search for an existing result |
| `SaveProcedureResult` | `save_procedure_result`: the judgement, the summary, the move of the result |
| `SaveDefect`, `SaveEvidence` | `save_defect`, `save_evidence` |
| `Assign`, `Fix`, `Retest`, `Close`, `Reject` | the transitions of `_defects.py`, with the guards of `_validate_transition_guard` in `Admitted` |
| `CreateRetest` | `create_retest_product_test_result_from_defect`, which calls `start_product_test_result` |

A refused request (ValueError, LookupError) changes nothing: the action is not
enabled.  A transaction that fails at its commit is the action `RolledBack`.
The constant `AutoFlush` says whether identifiers are read after a flush.
`FALSE` is the deployed configuration.  `TRUE` is the service with identifiers
that do not collide: with it the rules, which the deployed configuration hides
because results cannot be created or summarised, are exercised in full.  All
theorems hold for both.

`Init` admits every database the import and the seed leave behind: the seeded
failed result of a finished run, with its judged procedures; imported runs,
results without procedure rows, and defects.  The import writes statuses of its
own, in capitals (`PASSED`, `IN_PROGRESS`, `OPEN`;
`migrate_excel_to_db.py:51-64` and `:1011`), which are no vertex of any machine:
the service refuses to move such a row (`_status.py:174`).  A status of the workbook that `RESULT_STATUS` does not
list is written as it is, and is not modelled.

**ConcurrentRequests** models the same service under overlapping requests,
for requests that move or add one row.  A request is a record with a program
counter; `Load` / `Compare`, `Identify`, `Number` and `Commit` are its
database accesses in their order in the code.  `table` and `log` are the
committed rows; the index of a row is the number in its identifier.  `Write` is
the flush and commit; it fails (`Fail`) when a chosen number is the primary key
of a committed row.  An update names its row by primary key only, so it does
not notice that the status it read is no longer the status of the row.

**GuideClaims** states a sentence of `docs/product_test_operation_guide.md`
over TestExecution.

**TableEdits** models the cell updates and bulk deletes of the administration
page on threads that share a pool of connections.  `db` is the committed
database: rows, references as triples of child, column and parent, statuses,
texts, the newest transition of each row, and the numbers of all transitions.  A
request holds a connection and a session: columns that have been changed stay in the session until a flush; the
SQL of a rename takes the write lock and works on a copy (`work`) until the
commit.  `EditStatus`, `EditText`, `JudgeEdit`, `Rename`, `RefuseEdit` are the
branches of `_apply_single_update`; `Save` is the judgement that commits in the
middle; `Finish` commits or, on an error of the database, rolls back; `Delete`
is a bulk delete with its cascades; `CheckEvidence` and `InsertEvidence` are the
two halves of `save_evidence`, which has to meet a parent that is deleted in
between.  `enforce` is `PRAGMA foreign_keys` of each connection; a rename or a bulk delete that
waits too long for the lock (`RenameTimeout`, `DeleteTimeout`) has switched it off by then,
any other request fails without effect (`LockTimeout`).  A transition has the
number after the newest one at the time its status was checked (`NextNumber`), and a
flush fails when that number is taken (`Flushable`); the deletion of a run or round
deletes its transitions, after which their numbers are given again (`renumbered`).

**TrackingPage** models browsers (`local`, `timer`, `copy`, `dirty`), requests
under way (`calls`) and the server's rows (`table`, `sheets`).  A handler that
writes looks its row up in `Look` and commits in `PutRow`, `DeleteRow`,
`PatchSheet`, `MoveSheet`, `CreateSheet` or `DropSheet`; `Lose` drops a call;
`Reload`, `Hide` and `Loaded` are leaving, hiding and hydrating a page.
**TrackingSummary** is `get_tracking_summary` and `status_vocab.py` as
operators, each list of the answer translated on its own, the way it is joined
there.

**WebHost** models `run.py` in its watching mode: the timers of the debounce and
the main loop as threads that share the handle `web`, the processes they start,
and what each does before it binds the port (`CheckTable` to `RenameRunColumn`,
`CheckBackup` to `Copy`, `Bind`), with a death (`Crash`) at every step.  The backup of a
day is `none`, `begun` (its directory exists), `whole` (VACUUM INTO ended), `failed` (VACUUM
INTO raised, for whatever reason: `VacuumFails`), or `copied`; `CheckBackup` asks only
whether the directory exists.

**ExcelImport** models `migrate_excel_to_db.py`: nine transactions (`After`),
each a function of the workbook and the database in which the rows that exist
win; `ImportCrash` ends it before a commit, `ImportStart` starts it again,
`Correct` puts another edition of the workbook in the place of the first.  A database
also says which tables it has (`tables`): the import creates those that are missing
before its first transaction (`Schema`).  A result is named by its report and number,
and the first row of a name makes it (`RowFor`); a defect by issue, number of the
result and place of the issue, without the report (`DefectNames`, line 993), and it is about
the result that was inserted first.
**RecordScripts** adds the scripts that rework what was imported, one action
each, a start and two writes of the server, and the checkpoint of the log:
`main` is the content of the main file without it.  A CREATE TABLE before the first
write is committed by itself: the start of a merge, and `RoundsTable`.  (The ALTER TABLE
of `migrate_add_test_round.py` comes after its INSERTs, inside their transaction.)

**ReleaseTree** models the four scripts that rebuild the releases into rounds,
topologies and RCs: `TopologyRestructure`, `RunSessionLayer`,
`DeviceCentricRounds`, `ExcelRoundsNormalize`, and the judgements in between, of the
results of runs that the service has started (those of the import are in statuses it does
not move).  A report tells its round by its name or, as the fallback release of the import
always, none: the normalisation then files its results under `Unclassified`
(`TEST_RELEASE-UNCLASSIFIED`), which it creates and never rolls up.  A result names a
configuration (`ComboOf`), or only its case does (`CaseComboOf`), which the restructure
takes instead and the normalisation does not.
What a script takes in the order of rows is a choice.

**IdMigration** models task15_1 (`NormalizeRounds`), 15_2 to 15_4
(`PlanRenumbering`, `Renumber`) and 15_5 (`CreateNewTable`, `Rebuild`, `Break`),
with a defect that the server opens between a plan and its apply.

## What is checked

Every property of a passing run has a mutant of the code (an operator next to
the original, named in `PROJECT.json`) under which TLC finds it violated.

| run | instance | shows |
|---|---|---|
| `execution_flushed` | 2 runs, the seeded result and a fresh one of the same case, 2 procedures, 1 defect; `AutoFlush = TRUE`; 81,004 states | the rules of the run service, over every order of requests |
| `execution_deployed` | `AutoFlush = FALSE`, 3 runs (one imported, one seeded), 3 results of 2 cases (one imported, one seeded), an imported and two new defects; 82,512 states | what the configured service still does |
| `concurrent_requests` | 3 requests, a run, a defect that is opened or retested, 2 titles; 143,872 states | overlapping requests |
| `table_edits` | 3 requests on 2 connections, one row of each table (two judgements), 9 bulk updates, every bulk delete, a second run whose transition is the newest; 421,394 states | what overlapping, renaming, deleting and half-committed edits leave behind |
| `tracking_page` | 2 browsers, a setting, a day, 3 sheets of 2 cells, 3 edits or losses; 3,187 contents of the sheets; 128,095 states | what users enter is stored and shown; the lists of the summary agree |
| `web_host` | 3 processes, 1 timer, 1 edit, 1 midnight; 650,590 states | restarts, the schema, the backup |
| `id_migration` | 3 releases, 4 runs, 4 results, 168 databases; 22,722 states | the scripts task15 in any order, broken off anywhere |
| `release_tree` | 3 reports and the fallback release, 4 runs (2 of the service), 5 results, 2 configurations; 24,587 states | the four rebuilds in any order, as often as one likes |
| `record_scripts` | a workbook of 3 reports and its correction, 3 scripts or starts after the import; 321,502 states | the import resumed; scripts in any order |
| `guide_retest_created`, `table_text`, `release_tree_filed` | as above | violations, see below |

Properties of TestExecution:

- `References`: no row points at a missing row.
- `SummaryAgrees`: a result with procedure rows has the status of their summary.
- `JudgementHasReason`: a failed, blocked or skipped procedure has a reason.
- `DefectOfFailedResult`: a defect opened through the service belongs to a
  failed result, for ever.
- `RetestPassed`: a retested or closed defect names another result of its case
  that is passed, not only when the retest was recorded.
- `EvidenceBeforeFix`: a critical or major defect beyond opened has evidence.
- `NoDuplicates`: one result per run and case, one defect per scope and title.  In its
  run only defects are created; its theorem also covers the service that creates
  results.
- `Permanent` (action property): rows stay, passed and failed stay, places,
  scopes, severities and evidence stay.
- `NoNewResult`: without a flush no result is ever created.
- `Audited` (refinement): the operations implement `AuditedLifecycle`.

Properties of ConcurrentRequests:

- `LogAgrees`: the status of a row is the one its newest transition says,
  whatever overlaps: both are written by one transaction.
- `CollisionHasWinner`: a request fails only because another one with its
  number was committed.
- `Ends` (liveness): every request that was started ends.

Properties of TableEdits: what does go wrong there is the code's, and is part
of the property; the rest may not.

- `DanglingIsExplained`: the only references without a row are those of defects,
  which no cascade names, of a run to its target and configuration, and of
  evidence that a connection inserted after an editor had left it with foreign
  keys off.
- `LogExplained`: a status differs from its newest transition only where an
  editor set it past the transition service or renamed the row.
- `SummaryExplained`: a result has the status of its summary unless a
  procedure result of it was deleted: of two saves that overlap one finds its
  number taken.  Excepted is everything after transitions were deleted while a
  request had chosen a number.

Properties of TrackingPage (what is excused is recorded in `raced`):

- `RowsSaved`: a setting or a day is stored as it was set last once nothing
  about it is pending, and shown by the browser that set it.
- `SheetsSaved`: every cell that was filled in is stored once no save of the
  sheet is pending, although a save sends the whole sheet and may be lost.
- `NewTabFits`: a new sheet is refused only after a gap in the orders.
- `PageAgrees`: counts, defects, evidence, judgements and statuses that the
  summary lists in several places are the same in all of them (counts of releases that
  have one row).

Properties of WebHost:

- `RestartedRight`: when all is quiet, the one process that lives is the one the
  daemon holds, and it runs the code on disk, unless two threads replaced it
  at once.
- `SchemaWhole`: the schema is whole when a server serves, unless a process
  died, or two were, in the middle of a rename.
- `BackupWhole`: however often the server was restarted on a day, the backup of a day that
  counts as backed up is one snapshot, or is being made.  Excepted are a day whose
  VACUUM INTO failed (it gets a copy without the log, or nothing but the directory), one
  on which a process died between mkdir and the end of the backup, and two processes
  at it at once.
- `Available` (liveness): a server serves again and again, whatever starts were
  cut off, unless processes fail for ever.

Properties of the scripts:

- `NothingLost` (IdMigration; with `StepsKept`): every result of the beginning is
  one row, with its judgements, evidence and defects, and judgements stay with
  steps of their case; excepted are a defect opened between plan and apply and
  cases that are split.  `NamesAgree` (with `RoundsKept`): the campaign in an
  identifier is that of the run, and rounds that are named exist or are among
  those that no script creates.  `CampaignsKept`: only 15-1 moves a result to
  another campaign.
- `TreeWhole` (ReleaseTree; with `OneRC`): a result leads to a round, a report to
  its release.  `FiledRight`: a result stays in its round and is only moved to
  its own configuration.  `BlockedShown`: a blocked result shows as BLOCKED above, as far
  up as the script that ran last settles; the round `Unclassified` is settled by none
  (`migrate_excel_rounds_normalize.py:814`), and a blocked result of a release whose name
  tells no round shows at its RC and its configuration only.
- `Resumed` (ExcelImport): an import broken off anywhere, as often, has in the end
  done what one import does.  Of defects it says that each is about a result whose row
  lists its issue, and that those of a result exist, though perhaps about another
  result of its number: their names do not tell the report.  `TypeOK` (RecordScripts) is the integrity query of
  `scripts/diagnose_integrity.py`: identifiers that rows name exist, in the database
  and in its main file.  It excepts what two scripts do not ask: the targets that
  `relink_run_targets.py` puts into runs (`Relinked`), and the configurations that
  `migrate_strip_test_prefix.py` renames under runs that take theirs from a merged
  table (`Overlooked`).  `RowsKept`:
  no step loses a result, defect, target or round, makes a result one of another
  run, release or case, or parts it from the steps of its case.

*Fairness.*  TestExecution assumes none: its actions are choices of users.
ConcurrentRequests assumes weak fairness of the steps of a started request
(a thread of the pool runs until its function returns; it waits only for the
write lock, and for that no longer than `busy_timeout`), and none of starting
one.  WebHost assumes weak fairness of the threads of the daemon and of the steps
of a process that was started, strong fairness of `Spawn`, for which a process
identifier has to be free, and none of edits, deaths and midnights.
`CHECK_DEADLOCK FALSE` is set because every one of these systems may rest:
nobody has to make a request, each request of ConcurrentRequests is made once,
and edits, losses and scripts are bounded.

## Bounds and abstractions

- Identifiers are model values.  Two runs are the least for a retest (a run has
  one result per case); the second result is the retest of the seeded one or a
  fresh result with all its judgements; two procedures are the least for a
  summary of different judgements; two defects, and three requests, are the
  least for what two actors do to a third.  The proofs lift these bounds.
- In TableEdits two connections are the least for one that was left without
  foreign keys beside one that was not, and the third request is the one that
  finds them.  In WebHost a debounce timer and the main loop are the two threads
  that can collide; the third process is the orphan.  `MaxVersion` and `MaxDay`
  bound edits and midnights, `MaxEdits` what users and the network do to the
  tracking page, `MaxScripts` the scripts and starts of the server after the
  import: three are the least for a script that needs two before it (a case that
  moves, rounds, then prefixes).  The workbook of `record_scripts` has one report of
  each kind the importer distinguishes (MCRecordScripts); its correction gives a
  result with an issue another report.  In `release_tree` the fallback release has a
  result whose configuration only its case names, and one report a result without
  any.
- Procedures and defects are symmetric in the runs that use symmetry sets, as
  are browsers, values and cells; no liveness is checked there.
- Data is abstracted to what the guards compare: a title is its normalised
  form, a severity is critical/major or not, a reason is present or not (two
  different reasons in the claims), remarks and times are left out.  Arguments
  that only have to be non-empty (description, assignee, fix description) are
  taken to be so; empty ones are refused.
- Evidence without a defect changes only a warning in a later remark and is
  left out.  Starting a result that exists returns it and changes nothing.
- The local date, which is part of the prefix of a transition identifier, does
  not change within a transaction; the log of ConcurrentRequests is that of one
  day.
- `_round_is_locked` returns False: the lock refuses nothing.
- In ConcurrentRequests the guards other than the edge are left out.  What they
  read (evidence, a passed retest result, a failed result) is never taken back
  by the service, which is `Permanent`, so a stale read of it is still true.
- Lock timeouts and an exhausted pool fail a request without effect, like a
  collision; only TableEdits, where a connection can be left changed, has the former.
- In TrackingPage a value is an atom, a sheet the set of cells that are filled
  in; equal calls under way are one.  The contents under `PageAgrees` are
  enumerated, up to two runs and two results, or three rounds whose identifiers may repeat.
- In the scripts a text is its parts, as tuples; dates, remarks and titles are
  left out.  The scripts run one after the other; where a script reads a plan
  and applies it later, server steps may come in between.  In RecordScripts,
  configuration names differ, the end of a script closes the last connection and
  so writes the log back, commits of a running server stay in the log until
  `Checkpoint`, and no identifier of a workbook begins with `TEST_ROUND`.

## What is proved

All proofs are about arbitrary values of the constants: any sets of runs, results,
cases, procedures, defects and titles, any imported and seeded rows, both values of
`AutoFlush`; any number of requests, connections and bulk updates; any number of
processes and debounce timers; any browsers, settings, days, regions and cells.
The assumptions are those named in the modules: identifiers of different tables
differ (`DisjointIds`, `OutsideIds`), the procedures of a case are procedures
(`MasterData`), imported rows are of the imported kinds and the seed wrote others
(`ImportedIds`), the tables contain rows (`TablesOfRows`); the table editor finds a database that the services
have written and is sent cells of tables that it knows, each once
(`TableAssumption`); timers and processes can be told apart (`HostAssumption`);
settings, days and sheets can be told apart (`PageAssumption`); the sheets behind the
summary are lists of rows that have identifiers (`EntityAssumption`; what the rows name may
be missing, and identifiers may repeat); the scripts task15
start on a database that none of them has worked on, in which what rows name exists,
and the seven campaigns contain what 15-1 creates and no device
(`MigrationAssumption`); the scripts of the release tree start on what the import
leaves, with runs that the service has started since, in which names of reports are not
those of canonical rounds, reports are numbered from 1, the version of a device names a
canonical round, and some result names its configuration (`TreeAssumption`; a report may
tell no round; if no result named a configuration, the restructure could run twice and
delete an import under which configurations hang); a workbook is a set of lists with at
least one configuration and one report with a target (`WorkbookAssumption`; editions may
otherwise differ in any way);
the rounds that identifiers tell are rounds of the script (`ScriptAssumption`).

*TestExecutionProofs.*  The inductive invariant is the conjunction of the
types and of the rules (`References`, `SummaryAgrees`, `JudgementHasReason`,
`DefectOfFailedResult`, `RetestPassed`, `EvidenceBeforeFix`).  None of the rules
is inductive alone.  A defect keeps its failed result because failed has no
outgoing edge and the summary of the result still is failed; a save that
touches the result is described by one lemma (`SaveProcedureResultEffect`): it
moves at most the row and the result, along edges, to the summary.  Retests stay
passed for the same reason.  Each operation has a lemma that it keeps types, one
that it keeps the rules and takes nothing back (`Permanent`), and one that it is
a step of `AuditedLifecycle`; the refinement theorem `AuditedCorrect` combines
them.  `NoDuplicatesCorrect` and `NoNewResultCorrect` use the invariant.

*ConcurrentRequestsProofs.*  The invariant adds to `LogAgrees` and
`CollisionHasWinner` what a request has chosen (`Chosen`: its row exists, or its
number is at most one more than the rows there are) and that whoever took a
chosen number is committed (`Winner`).

*WebHostProofs.*  Which step of its start a process is at says how far the schema and
the backup are (`Stages`, `Renames`, `InOrder`, `Saved`): unless somebody died, or two
were, in the middle of a start, a schema between the two names has a process that
is renaming it, and a backup that is begun has one process that fills it, unless
somebody died; a failed one stays so.  For `RestartedRight` the invariant says, as long as two threads have not
replaced the process at once, who may live at each step of a replacement (nobody
before the spawn, then the child of that thread, then `web` alone: `Alone`), and
that an edit which a living process has not imported has the timer running
(`Fresh`).

*TrackingPageProofs.*  The properties speak about what is no longer pending; the
invariant says where a change is while it is.  A setting or day has at most one
timer and one call; its timer has the value that was set last, without a timer its
call has it, and without both the table (`RowsKept`); the browser that shows it has
that value, nobody else is about to save it, and a load on its way to that browser
brings the same (`ShowsKept`).  Of a sheet either one author's copy, or one
save under way, has every cell and nobody else has them all, or the table has them
(`SheetsKept`); a sheet that is not there is in no copy, call or answer.  The orders
of sheets are those from 0 on and at most one creation has counted them, until a gap
is made (`Places`).

The summary is proved for every content of its sheets (`PageSummary`).  Its sums are
folds over sets, so what a fold yields is shown first, by the smallest set for which it
would fail: the sum of the sizes of disjoint parts is the size of their union
(`SumOfSizes`, `SumOfCounts`).  `CountsAgree` then says that the lines of the runs, and those
of the cases, part the triples of round, run and result that the release counts
(`RunsCounted`, `ReceivedCounted`, `CasesParted`).  The loop that settles the parents is a fold
in the order of their first children; `SettlingExists` and `SettledFacts` give its
recursion, `RoundsOrdered` the first and last of rounds whose identifiers repeat, and
`BlockedListed` the invariant of the loop: a round that is nobody's parent keeps its
status, and each parent is settled once.

*TableEditsProofs.*  Types and `DanglingIsExplained` need that every column of a row
holds one reference and that evidence about a procedure result belongs to its
result (`Sound`), of the evidence that is on its way too (`Drafted`): a cascade that
deletes a procedure result or a result then deletes the evidence about both
(lemma `Cascade`).  `SummaryExplained` is the hardest.  A save is prepared from one
database and flushed into another.  The invariant says that the number a
request has chosen is taken or still the next (`Numbered`), and that a prepared save
either cannot be flushed any more or leaves every result with its summary
(`Summary`); a flush that moves a status takes the next number (`FlushTakes`),
so that other prepared saves cannot be flushed; one that moves nothing leaves
the judgements as they are (`FlushAlike`).  The copy that the transaction of an
editor works on agrees with the database on results, judgements and what refers
to them (`InStep`).  TLC showed that all this breaks once numbers are given
again, which is why `renumbered` is in the model.

*IdMigrationProofs.*  Identifiers change under every reference, so the invariant names
a result by its first one (`was`): at every moment each result of the beginning is
exactly one row (`Same`), and what refers to it refers to that row (`Referred`).
The database is as it was given (`First`) or every run has a renumbered
identifier and no key (`Second`), so that a second apply has nothing to plan.  A
plan is read outside any transaction and used later: `Ready` says what of its
checks still holds at the apply, although the server opens defects in between (the
new identifiers are unique, cases do not merge, the copy to which the judgements
of a step go is one of its case, defects that are not in the plan were opened
meanwhile).  In the same way `Resolved` carries the checks of 15-5 to its second
transaction, and `Standing` says which rounds survive all repetitions of 15-1.  The
lemma `ResolvedFacts` is about the search upstream: it finds the round of a
release, and a release that has one of its own keeps it.

*ReleaseTreeProofs.*  The scripts may run in any order, and each parses what the
others wrote; so the invariant says of every row, by its kind, which identifier it
has, what it hangs on and whether it shows (`Whole`).  From that a chain of at most
three rows leads to a round or to an import that stands for one (`TopFacts`).  Rows
are only added with what they hang on (`Added`), deleted when nothing is left on
them (`Pruned`), or rewritten in their status (`RecountFacts`, `RollupFacts`).
`Hung` says that runs hang on candidates and imports.  Two parts are about running a
script again.  `Taken`: the run of a device has taken all results of that device
from the run it was split from, so that a second splitting does not overwrite a
candidate.  `Sorted`: once an import has stood for a round of configurations, every
result that names a configuration lies in a candidate of that configuration or of none, in
a run with no result of another; then the restructure is refused, and a candidate whose base is a report always has the
number 1, without which the sessions would put it under a copy that the next
script does not look for.  One lemma for each script shows that it keeps all this
and files every result right (`Filed`), which is `TreeFiled`.

*RecordScriptsProofs.*  The scripts may run in any order and any number of times, each
after or in the middle of imports, and each rewrites identifiers that others parse.  The
invariant says of a database that it is right (`Right`: what its rows name exists, in the
table where the next script looks for it); of the main file that it is right too and that
the log has only added results, runs, releases and cases to it (`Ahead`); of a merge that
was broken off what it has left (`Merging`); and of an import under way what its
transactions so far have put (`Imported`, `Own`, which also says that a defect is about a
result whose row lists it and that the defects of a result's row exist).  The
lemmas come in three families: a transaction of the import only adds rows, with all they
name (`Grown`); a write of the server keeps them (`Keeping`); a script maps rows to rows so
that what was named still is (`Reworked`).  `ImportResumes` needs no induction over the nine
transactions: instead of the recursive "what the steps up to now make of the workbook", the
invariant says row by row which rows must be there and which may be.  The defects of an
edition are not those of a fresh import: whose result a shared name is depends on what was
inserted first (`Issued`, `OwnerFound`, `ListedGrows`).

Each inductive invariant was checked with TLC on the instance of its run before it
was proved.

Only model-checked: `Ends` and `Available` (liveness), and the violations.  Every invariant
and every action property of a passing run is a theorem.

## What the violations show

| run | sentence | what the code does |
|---|---|---|
| `guide_retest_created` | guide, line 56: "Retest creates a new `product_test_result`." | the creation adds at least two transition rows with one identifier and fails at its commit |
| `table_text` | `tests/e2e_api/test_bulk_field_update.py:3` lists the update of a single ordinary text field among what the endpoint does | the cell passes the whitelist and is counted as updated, and no branch writes it |
| `release_tree_filed` | `migrate_excel_rounds_normalize.py:15`: a run goes to the RC1 of its configuration | the RC of a run is that of whichever of its results is read last |

`NoNewResult`, checked and proved for the deployed configuration, is the
invariant behind the first line: until identifiers are read after a flush, the
results of the system are those of the import and of the seed.

### What the code does not keep

Weaknesses that the modelling showed and that are written into the properties
as exceptions, or follow from an action of a model:

- *Requests.*  A run that another request has just finished can be cancelled by a
  request that read it before (`_status.py:178`).  Two overlapping requests can open
  the same defect twice (`_runs.py:559`).  The reason of a failed procedure can be
  overwritten by a save with the same status (`_runs.py:371`).  A retest may be any
  other passed result of the case, also an older one (`_status.py:138`).
- *Table editor.*  See `DanglingIsExplained`, `LogExplained`, `SummaryExplained`.  What
  keeps two overlapping judgements of one result from leaving a wrong summary is
  only that they choose the same number.  When the run with the newest transitions is
  deleted between the two choices, the numbers differ, both saves are
  committed, and each has summarised the result without the other
  (`_common.py:380`, `product_test_field_update_service.py:544`).  After
  a bulk delete the connection stays without foreign keys
  (`product_test_field_update_service.py:608`).
- *Tracking page.*  The summary counts the results of a round once for each row with its
  identifier (`tracking_router.py:209`): the release of a round that a sheet has twice shows
  twice the counts of its runs.  The comments at `tracking-ui-state.js:59` and `:101` say that
  keepalive and flush keep a setting from falling back to an older value; a load
  that overtakes the save shows the older value, and writes it to local storage.
  A sheet has no flush when the page is left; each save sends the whole sheet, so
  that the last of two authors wins, and an edit made while a save is under way
  is lost if the answer replaces the copy.  `NewTabFits`: after a deletion a new
  sheet is refused.  `custom_sheet_trace_service.py:6` says that the sheets match
  the tables and that LookupError is raised otherwise; it never is.
- *Restarts.*  A death between two renames leaves a schema that no later start
  completes (`app/db.py:170`); two threads of the daemon can replace the process at
  once.  A day whose directory exists counts as backed up (`backup_service.py:53`): after
  a death between mkdir and the copy, or an error of VACUUM INTO (`:36-44`: a copy
  without the write-ahead log, or nothing), no later start of that day makes up for it.
- *Scripts.*  15-5 leaves its new table behind when it is rolled back, and every
  later apply then fails (`task15_5_release_deprecate_dryrun.py:216`).  A merge that
  is broken off leaves an empty table, and a start of the server takes an empty
  table of configurations for the merged one.  `add_missing_targets.py` writes a copy
  of the main file back and empties the log.  `migrate_test_cases_by_topology.py`
  puts the device into an identifier again at each run.  After a case has been
  renamed, an import that is repeated adds it again under its old identifier, its
  steps stay with the new one, and further results lie under the case without
  steps.  `migrate_strip_test_prefix.py` names neither the snapshots of results nor
  the procedures of procedure results.  After an import, `migrate_env_id_prefix.py`,
  `migrate_merge_environment.py`, another import (which creates the old table of
  configurations again) and `migrate_add_test_round.py`, it leaves a run whose
  configuration does not exist, and commits before it counts the orphans
  (`migrate_strip_test_prefix.py:209`); `ai_handover/tasks/task10b_strip_test_prefix.md:79`
  asks for none.  The proof showed this sequence of five scripts (`Overlooked`); the bound
  of three of the run does not reach it.  The identifier of an imported
  defect does not tell its report (`migrate_excel_to_db.py:993`): when the report of a row is
  corrected, the new result finds the defect of the old one and stays without, and
  two results of one number share it.  The normalisation files releases
  whose name tells no round, as that of the fallback release, under
  `TEST_RELEASE-UNCLASSIFIED`, whose status stays TESTING whatever is blocked below it
  (`migrate_excel_rounds_normalize.py:814`).  The check that
  `relink_run_targets.py` makes after its commit compares with the old targets and
  always fails.  The roll-up of `migrate_excel_rounds_normalize.py` counts
  lower-case statuses, the import writes them in capitals.
- *Seed.*  A second run on a used database overwrites statuses without a
  transition (`_seed.py:56`).

## What is not modelled

Not modelled:

- the engines of single projects (`app/db.py:73`): two first requests may both
  create one, and the later is kept;
- users, roles and the limit of active users, forms and their sheets, pages,
  lists, traces and exports: reads and single-row writes without a rule that
  relates several of them;
- images of defects, the computation endpoint and the client log of the tracking
  page; browser scripts that only render;
- scripts that rewrite texts or dates row by row (`complete_skeleton_records.py`,
  `migrate_normalize_run_dates.py`, `procedure_expected_result_merge_*.py`,
  `fix_defect_description_summary.py`), the source files (`task15_5_code_sync.py`) or
  that only print; `cleanup_orphan_releases.py`, which works on releases that no
  code of the repository creates; `migrate_to_project_dbs.py` and
  `purge_seed_sqa_data.py`, which copy or delete whole files and rows once;
- the superseded `product_test_run_service.py` (a package of the same name shadows
  it), the parsing of workbooks, logging and configuration.

The start route passes a keyword `start_run` does not have
(`product_test_tester_router.py:112`) and so never starts a run, and nothing
else in the repository calls `start_run`.  The model keeps the service function
as it is written; what it shows without new runs is part of what it shows with
them, because `StartRun` is an action that may never be taken.
