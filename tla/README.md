# task_scaffold in TLA+

`task_scaffold` (package `task_core`) runs data tasks: a task names pipelines,
a pipeline reads files and databases through petl and returns a table, and the
runner publishes that table to PostgreSQL, replacing the previous one. This
directory holds TLA+ models of the parts of it that are hard to test, the TLC
runs that check them on small instances, and theorems about eight of them, proved
for every value of their constants.

Paths below are relative to the repository. Every definition that models code
is listed in `PROJECT.json` ("map") with the lines it stands for.

## Inventory

| component | code | state it keeps | operations | modelled |
|---|---|---|---|---|
| run orchestration | `runner.py`, `cleanup.py` | the two error variables, `rollback_attempted` | `run_pipelines()`: claim, source check, pipeline loop, commit, except and finally | `RunLifecycle`, `StagedPublication` |
| task context | `context.py` | resource cache, results, artifacts, `_closed` | `get_resource`, `set_result`, `close` | `RunLifecycle` (not the artifacts) |
| table adapters | `table_adapters.py`, `export.py` | the cache of a stabilized table | `stabilize`, `nrows`, row iteration | `RunLifecycle` (not the cell conversions) |
| publisher | `db/publish.py` | session, `_tx`, `_locked_task_name`, `_generated_names`, `_pending_swaps` | `begin_run`, `publish`, `commit`, `rollback`, `close` | `PublisherSession`, `StagedPublication` |
| publication locks | `db/publish.py`, `db/policies.py` | attempt number, budgets | `commit()`'s loop, `attempt_budgets_ms()` | `PublicationRetry` |
| publication strategies | `db/publish.py` | the swap or refill of one target | preflight, look-up, LOCK TABLE, the loop of `_publish_once()` | `TargetLocks` |
| staging identity | `db/identifiers.py` | names and table comments | building and recognising them | `StagingNames`, run in `TableLoad` |
| source change check | `source_state.py`, `source_tracking.py` | the source-state table | fingerprint, compare, upsert, prune | `SourceFiles`; one fingerprint per task in `StagedPublication` |
| COPY spools | `db/spool_io.py`, `db/spool_format.py`, `db/copy.py` | files of one directory | two passes over the rows, clean-up, predecessor removal | `CopySpool`; the framing in `SpoolFormat` |
| type inference | `db/values.py` | families per column | sampled, row-major, full and streaming inference | `TypeInference` |
| declared values, COPY text | `db/values.py`, `db/copytext.py` | none | normalize, validate, write a field, read it back | `CopyText` |
| payload | `db/payload.py`, `db/insert.py`, `db/copy.py` | a one-shot row source | projections onto a schema by both loaders | `TableLoad` |
| file selection | `file_access.py`, `resources/file_set.py` | none; reads a directory that changes | select, latest, members of a set | `SourceFiles` |
| CSV resources | `resources/csv.py` | the header and position of a reader | records to rows, header agreement | `CsvTable`, run in `SourceFiles` |
| resource binding | `binding.py`, `resources/factories.py` | loaders of a run | which resources a run wires and tracks | `SourceFiles` |
| workbook resources | `resources/excel.py`, `excel_metadata.py` | an open workbook | select, open once, close | `SourceFiles` (which file only) |
| output schema generator | `tools/generate_output_schema.py` | none | an existing table to a declared schema | `OutputSchema`, run in `TableLoad` |
| database resource | `resources/db.py` | a connection, a cache of query definitions | `get_table`, `close` | `SourceFiles` (a tracked query) |
| pipeline contracts, tasks, examples | `types.py`, `tasks/`, `examples/` | none | static validation, business rules | no |

How they interact. `run_pipelines()` drives the publisher and owns the task
context; both have to be closed on every path. The publisher keeps one database
session for the whole run: its advisory lock is what makes a run the only one
of its task, and it is held while pipelines run for hours without a transaction.
The publisher calls the COPY loader, which shares a spool directory with the
other runs of the host, and inference, which reads rows that a lazy table
produces on demand. What runs share, beyond the lock, is the schema (live
tables, staging tables recognised by name and comment), the source-state table,
the spool directory and the directories of source files, which others write.
Tasks that publish overlapping tables meet only in PostgreSQL's table locks.

What is hard, and cannot be seen in one run of one process: runs that overlap
because a session died and the process did not; a kill between two statements;
a COMMIT whose answer is lost; a clean-up step that fails; tasks and readers
that lock the same tables; a file edited, replaced or removed between its
listing, its stat, its fingerprint and its reading; two PostgreSQL timers, a
horizon and a random delay that have to fit together; two loaders, written
apart, that have to accept and store the same; inference that stops reading
early. `PROJECT.json` ("hazards") lists each at its line, with the property
that is about it or the reason there is none.

## Modules

| module | about | runs | proofs |
|---|---|---|---|
| `AtomicOutput` | what a publication promises its readers | (a property of `staged_safety`) | |
| `StagedPublication` | overlapping runs of one task | `staged_safety`, `staged_liveness` | `StagedPublicationProofs` |
| `PublicationRetry` | `commit()` against the clock | `publication_retry` | `PublicationRetryProofs` |
| `TargetLocks` | `commit()` of several tasks, and readers | `target_locks` | `TargetLocksProofs` |
| `PublisherSession` | one database session, statement by statement | `session`, `session_diagnostic` | `PublisherSessionProofs` |
| `RunLifecycle` | one call of `run_pipelines()` | `run_lifecycle` | `RunLifecycleProofs` |
| `SourceFiles` | successive runs over a directory that changes | `source_files` | `SourceFilesProofs` |
| `CsvTable` | records of CSV members as one table (operators) | used by `SourceFiles` | |
| `CopySpool` | spool files of one host | `copy_spool`, `copy_spool_databases` | `CopySpoolProofs` |
| `TableLoad` | a table on its way through both loaders | `table_load`, `table_load_override` | `TableLoadProofs` |
| `TypeInference` | the type of an inferred column | extended by `TableLoad` | |
| `CopyText` | declared values and the COPY text of a field (operators) | used by `TableLoad` | |
| `SpoolFormat` | the neutral spool, byte by byte (operators) | used by `TableLoad` | |
| `Numerals` | powers and digits (operators) | used by `CopyText` and `SpoolFormat` | |
| `StagingNames` | names and comments of staging tables (operators) | used by `TableLoad` | |
| `OutputSchema` | a table, its declaration, and the table made of that (operators) | used by `TableLoad` | |

Each `MC` module holds the values its configurations give to constants and
nothing else. Definitions whose comment begins with "Mutant:" are plausible
wrong versions of the definition after them; `PROJECT.json` ("mutants") says
which property finds each. They are part of no run as it stands.

### StagedPublication and AtomicOutput

A set of run tokens shares one schema. `version` is the content of the sources;
a table is represented by the run that wrote it and the version that run read.
PostgreSQL is what the code relies on: a committed set of staging tables (run,
target), the advisory lock, and per run a session and an uncommitted write set
`tx`, lost with the session. The client side is `pc` and the four attributes
that decide what happens next: `held` (`_locked_task_name`), `generated`
(`_generated_names`), `pending` (`_pending_swaps`), and the fingerprint.
One action per step of `run_pipelines()` as the server sees it: claim, clean
predecessors, fingerprint, compare, run a pipeline, create and load a staging
table, commit it, verify, swap, commit, roll back, close. `StartDirectly` is a
caller of the publisher that skips `begin_run()`, which the guards
`ensure_connection` and `require_task_lock` are there for.

A failing statement, a kill, a session ended by the server and a caller without
the lock are all possible at every step, together `MaxFaults` times. A client
whose session is gone finds out only at its next statement, so it may compute,
and believe that it owns the task, while another run has claimed it. A token is
reused once nothing bears it any more, which is how an unbounded sequence of
runs fits a finite set.

`AtomicOutput` keeps only the sources, the live tables and the stored
fingerprint: all tables and the fingerprint change in one step, to data read
after the fingerprint was taken, and the fingerprint does not go back.
`AtomicPublication` says that `StagedPublication` implements it, with the
identity on those three variables.

### PublicationRetry

The loop of `commit()` in milliseconds. `LOCK TABLE a, b, c` is a sequence of
grants in order; `lock_timeout` restarts for each table and `statement_timeout`
does not; what the statement spends on anything but waiting is at most
`Overhead`, assumed smaller than the margin the policy leaves. Other sessions
hold and release every target at any moment. `attempt_budgets_ms()` is
`FullAcquisition`, `StatementBudget` and `LockBudget`; the delay before the next
attempt is any in the policy's range.

### PublisherSession

One run's session at the granularity of statements: SQLAlchemy's implicit
transactions (`txn`, begun by any statement), explicit ones, and PostgreSQL's
aborted state, in which every statement fails until a rollback. Every statement
can fail or lose the session (at COMMIT: before or after it took effect), and an
interrupt can come before every step, those of the handlers, of `rollback()` and of
`close()` included. What an exception meets depends on its class: `Handler` is where an
ordinary one is caught, `Escape` where an interrupt is, which passes each
`except Exception` and ends `rollback()` or `close()` where it is; the runner collects it
and takes its next clean-up step. An interrupt inside a statement is one before it,
one after it, or, where SQLAlchemy gives the connection up, a lost session. `errors`
records where the run was hit, so that a property can name the cases in which something
may remain.

### CopySpool

The files `(run, stage)` of one directory, a lock per database and task, and for
each run: listing and examining the directory, unlinking with its retries, the
two passes, COPY, commit, and the except blocks that know (`known`) or do not
yet know a path. A file is `bare` until its ownership header is complete, which
is all another run can see of it.

### TargetLocks

Several publications, one per task, whose targets overlap, and readers that lock
tables in any order. A layout says who publishes what, which targets are refilled
and which exist. PostgreSQL is `live` (which relation a name is, and whose rows it
has), `locks` and `claims`, the names under which a publication has a relation that
is not committed. The client is `commit()`: create the refill targets that do not
exist, look the others up, lock what was found in one LOCK TABLE, then DROP and
RENAME, or TRUNCATE and INSERT, in sorted order; `Commit` makes all of it visible.
Only LOCK TABLE waits under `lock_timeout`, which the documentation has below the
server's `deadlock_timeout`: the deadlock detector ends only cycles that contain
no such wait. An attempt that is rolled back forgets what it found, created and
checked. Any statement may fail.

### SourceFiles and CsvTable

Runs of one task, one after the other, with any `run_sequence` and with or without
`force_run`, over a directory in which files are written, removed and brought back at
any moment. A run wires the resources its pipelines use, fingerprints those that are
tracked (each loader lists, looks at file after file, and selects once), compares with
the stored state, and then the pipelines read what was selected, by path, at their
turn; a workbook is opened once and held, a tracked query is one statement for its row
and another one, later, for the data. `Publish` stores tables and state
together. A layout says of each resource whether it is a fixed file, the latest, a
set or a query, local or on SMB, tracked or not, which pipelines use it, which files the folder's
pattern or its rule about hidden files leaves out, and what records the files contain.

`CsvTable` is what `resources/csv.py` makes of records: blank ones dropped, header or
explicit columns, rows fitted to the width, members that agree or are skipped.
`Describes` and `Refused` say what decisions/0015 promises of the result without saying
how it is computed.

### TableLoad, TypeInference, CopyText, SpoolFormat, Numerals, StagingNames, OutputSchema

`TableLoad` takes one table to its staging table. Each behaviour is one of five modes.

* Inferred: `TypeInference`, where values are abstracted to fourteen kinds, as many as
  inference, driver and server tell apart; among them "bit", an int equal to a bool,
  "unit", a fractional number equal to one, "huge", an int outside bigint, "code", a string
  that reads as a number, and "nul", one with a NUL. Rows arrive one by one and
  feed the COPY accumulator, then the row-major way walks them (sample, decide,
  verify, rescan); the per-column path is `InferColumnType`, and the full scan
  `FullScan` the reference. What driver and server do with a value of another kind
  (`Lookalikes`, `Keeps`, `Narrows`) is external and stated as such.
* Declared: a payload has source columns, a `db_contract`, perhaps the framework's
  column, and a schema. COPY projects and writes row by row until one is refused
  (`CopyText`: normalize, the fast path, validate, escape); INSERT projects to mappings
  by code of its own and validates them. `CopyFrom` is the server reading COPY text.
* Framed: rows go to the neutral spool (`SpoolFormat`: tags, two's complement integers
  with a length, a terminator), which may lose its end before it is read back. Integers
  that are too long for their length byte, and texts beyond the cap of 512 MiB, are refused
  when they are written.
* Staging: names built under a configured and a server limit, the comment, and what
  may have happened to the table since (`Fates`), for every later run that cleans up.
* Schema (`OutputSchema`): an existing table as the generator inspects it, the declaration
  it prints, the table that this declaration is made into, and the preflight that
  compares that table with the existing one before a refill.

### RunLifecycle

`run_pipelines()` with the publisher reduced to what the runner sees of it. Each
pipeline has any combination of consumers: row count, published result, display,
workbook, INSERT or COPY. A table is lazy until `PlanOutput` has it cached. Its rows
are two parts, those a display shows (`limit=1000`) and the rest, which only a long
table has (`long`): a cache holds what some reader has got to, a display of a long table
stops before the rest, and a later reader takes it from the source. `seen` collects the
content of each part that the consumers got while the source changes. Every
call may raise, `try_step()` collects what the clean-up raises, and `closes`
counts how often each resource was closed.

## Runs

Every run but those marked "violation" passes. Deadlock is checked where the system
never ends, in the `StagedPublication` runs (their scheduler goes on) and in
`source_files` (a next run can always start); the others switch it off because one
`commit()`, one session, one run, one table or the runs of one host do end.

| run | bounds | checks |
|---|---|---|
| `staged_safety` | 3 run tokens, 2 targets, 2 versions, 2 attempts, 2 faults; symmetric | one owner of the task (`ExclusiveOwner`); the owner finds no one else's staging tables (`CleanForOwner`); prepared tables survive clean-ups (`PreparedSurvives`); a changed source is seen as changed (`ChangeNeverMissed`); `AtomicPublication` |
| `staged_liveness` | 3 tokens, 1 target, 2 versions, 1 fault | runs end and the lock is freed (`RunsEnd`), tables become fresh (`EventuallyFresh`), orphans go (`OrphansRemoved`) |
| `publication_retry` | 3 targets, 3 attempts, lock 2, acquisition 6, margin 2, horizon 16, delay 1..3, clock to 20 | contention is 55P03, never 57014 (`ContentionIsRetryable`); `LockPhaseInHorizon`; `ReadersBlockedBriefly`; `Terminates` |
| `target_locks` | 2 publications, 1 reader, 2 tables, 2 attempts; second publication on both tables or one, every set of refill targets and of existing tables | no cycle of publications, and once targets exist, none is a deadlock's victim and whoever keeps readers out waits under a timeout (`SortedOrderSuffices`); a refilled relation is the one validated (`RefilledAsValidated`); `EveryoneEnds` |
| `session` | 2 targets, 2 attempts, 3 errors | no transaction survives its phase (`NothingLeftOpen`); staging tables are locked, but where an interrupt has hidden them from `rollback()` or cut it short (`LockOutlivesStaging`); `OneFailureLeavesNothing`; the reported outcome is true (`OutcomeIsTrue`) |
| `session_diagnostic` | 1 target, 1 attempt, 1 error | violation, see Findings |
| `copy_spool` | 2 runs of one task, what a killed run of another task left (one spool marked as its own, one whose header is incomplete), 2 unlink attempts, 3 faults | the owner keeps its spools (`OwnerKeepsSpools`); none is on disk when its table is committed (`NoSpoolAtCommit`); predecessors' are gone (`DirectoryIsClean`); a run that ends cleans up (`NothingLeftBehind`); `ForeignSpoolsKept` |
| `copy_spool_databases` | 2 runs, 2 databases, no fault | violation |
| `table_load` | 2 columns and 4 rows of all 14 kinds, samples of all, 1 and 2, one column's type given; 14 column types, 60 projections and two numeric columns beside each other, 2 rows; integers of 2, 3 and 4 bits, bytes of 4 bits; names of 1 to 4 letters under limits 3 to 9; tables of every type with one peculiarity each, the framework's column in each place | inference by all implementations agrees (`PathsAgree`); a wrong sample fails or is a known lookalike (`SampleErrsLoudly`); of what it inferred, COPY refuses nothing but bytes in text and what INSERT is refused, too (`CopyTakesWhatItInferred`); `LoadersAgree`; numbers are kept whole or refused (`AcceptedIsExact`); `SpoolReadsBack`; `StagingIsRecognised`; what the generator prints can be declared and refills the table it was printed from (`GeneratedSchemaFits`) |
| `table_load_override` | 2 columns, 2 rows, 3 kinds | violation |
| `source_files` | 2 files of 2 versions, 2 resources, 2 pipelines, 2 changes, 7 layouts | a skip is justified (`SkipIsJustified`); an untouched directory is skipped (`NoSpuriousRun`); table and fingerprint are of the same files (`SameFiles`); a CSV set is what it is said to be (`TablesAsDescribed`) |
| `run_lifecycle` | 2 pipelines with any consumers (no result of the last, which nobody can ask for), 3 keys for 2 objects, 2 faults, 1 source change, tables longer and not longer than a display; symmetric in the keys of one object | consumers get the same rows, of one content but for a long table displayed before COPY (`ConsumersAgree`); each object is closed once (`ClosedOnce`); `AllOrNothing`; `FirstErrorWins` |

Why the bounds are enough. Three tokens are a published run, an orphan or a cut-off
predecessor, and the run that cleans up after it; a fourth would repeat one of
those. Two targets are what atomicity needs to be violated. Two faults are a
failure and the failure of its clean-up, or a lost session and a kill; in
`session` and `copy_spool`, where a fault leads to longer clean-up paths, there
are three. In `PublicationRetry` 3 targets of 2 ms exceed the acquisition
timeout less its margin, so that budgets have to be cut; a horizon of 16 permits
two full attempts and a shortened one; nothing happens after it, so a clock to 20 hides
nothing. Two versions suffice since a property of versions compares two. In
`target_locks` two tables are what a cycle needs, and one reader both blocks and
closes one; with three publications the properties do not hold (see Findings), so two
is the case the code argues about and not a small case of more. In `source_files` two
changes of a directory are a change during the run that stores the state and one
after it, or a file removed and brought back. Four rows are three families, which end a
scan, and one value it does not see; integers of 2 to 4 bits and bytes of 4 have their
boundaries, and the values beside them, among the inputs. Names of three letters and
a suffix of four parts under limits from 3 to 9 include each way of cutting. What the
proofs establish (below) does not depend on these bounds.

### Fairness

`StagedPublication`: weak fairness of each process' next step (it keeps executing
unless killed), of the scheduler starting a run (a cron job does), and of the
server noticing a dead client (its TCP keepalive does). None on faults, on source
changes or on which branch a step takes: a run may find the task claimed and be
skipped. Liveness is about what happens after the last fault; the code promises
nothing while they go on. `PublicationRetry`: weak fairness of the loop's own steps
and of the clock, none on other sessions releasing locks, so `Terminates` holds
against readers that never let go. `TargetLocks`: strong fairness of each
publication's statements and of the readers' reads and ends. PostgreSQL queues lock
requests, so a lock that is free again and again is granted; without it two readers
that alternate would hold a publication up for ever. The client's own steps need
weak fairness only, and none is assumed on readers asking for anything.

## Proofs

`StagedPublicationProofs`, from `StagedAssumption` only (any set of runs, finite or
not, any set of targets, any bounds):

* `TypeCorrect`, by one step per action.
* `Inductive`: `IInv` holds of every reachable state. The properties alone are
  not inductive. `LockPhases` says at which `pc` `held` can be set and a run
  can have prepared tables; `PlanPhases` that a run about to swap has
  `pending = Targets` and its staging tables are there while its session lives;
  `ReadOrder` orders stored fingerprint, fingerprint, data and source version. The
  argument in short: `held` implies the lock while the session lives; the lock has
  one owner; clean-up is done only by an owner and removes only others' tables;
  whoever has prepared tables is, if its session lives, the owner.
* `OneOwner`, `OwnerIsClean`, `PreparedIsKept`, `NoMissedChange` follow from `IInv`.
* `Refinement`: every step is a step of `AtomicOutput` or leaves its variables
  alone; the commit is the only one that does not, and `PlanPhases` and
  `ReadOrder` provide its witnesses.

`PublicationRetryProofs`, from `PolicyAssumption` (what
`PublicationLockPolicy.__post_init__` enforces, and `Overhead < TIMEOUT_MARGIN_MS`):

* `BudgetsFit`: the budgets `attempt_budgets_ms()` returns satisfy
  n * lock + margin <= statement <= what is left of the horizon.
* `Accounted`: `RInv`, the types and `Accounting`: the time LOCK TABLE has
  used is at most (targets granted) * lock timeout + the current wait + overhead.
  Without that sum nothing relates the two timers.
* `TypeCorrect` is its first part.
* `Retryable`, `WithinHorizon`, `ReadersProtected`, `UsefulSleeps` follow from it.

`PublisherSessionProofs`, from `SessionAssumption` (any finite set of targets, any
number of attempts and errors). `Inductive` proves `IInv`, whose parts say where a transaction may be
open (`Transactions`), that `_pending_swaps` and `_generated_names` agree and what has been
swapped (`Bookkeeping`), from where to where the task lock is held (`Protection`), what
can have been published by then (`Truth`), and that everything left behind has an error
to show for it (`Reasons`):

* `PhasesEndTransactions`, `LockProtects` and `ReportIsTrue` are read off `Transactions`,
  `Protection` and `Truth`, which hold with interrupts at every step: `Protection` says which
  interrupts let a staging table lose its lock, and `Truth` that only interrupts of both
  handlers (`LeftOpen`) leave `close()` a transaction to commit.
* `OneFailure` follows from `Reasons`: at the end a staging table is left only with a lost
  session, an interrupt at the one unguarded moment, or two different errors.

`RunLifecycleProofs`, from `LifecycleAssumption` and `PlansAssumption` (any number of pipelines with any consumers, resource
keys, objects, versions and failures). `IInv` has how far the loop is (`Progress`), which pipelines'
tables are unread, planned, cached how far, and of one content (`Reading`), which objects are open, about to
be closed or closed (`Closing`), what has taken effect (`Effects`) and which error is
kept (`Errors`):

* `ConsumersSeeOneTable`: each part of a cached table is read as one content, and both parts
  as one if the first reader goes to the end, as the row count does; the exception is a long
  table that is displayed before COPY. A table that `PlanOutput` leaves lazy has one reader.
* `ObjectsClosedOnce`: `closing` has one key of each object that is open and no other.
* `TablesTogether` and `FirstErrorReported` are read off `Effects` and `Errors`.

`CopySpoolProofs`, from `SpoolAssumption` (any runs, tasks, databases and faults). `SInv`
says which paths a run may hold, list and remove in which phase, and that every file it
has made is in `known`, on its list, or the one it is just creating (`Accounted`,
`Removed`). It holds of every placement of tasks and databases:

* `NothingSpooledAtCommit`, `RunsCleanUp`, and the action property `ForeignSpoolsStay`.
* `OwnerKeeps` and `OwnerFindsClean` need `OneDatabasePerTask`, a hypothesis of the two
  theorems and not of the module: all runs of a task use one database. The code does not
  enforce it, and without it the spools of a live run are removed
  (`copy_spool_databases`). `InductivePerDatabase` adds to `SInv` that nobody of the same
  lock who had it when he listed has the owner's files on his list (`OwnerUnlisted`), that they are there (`OwnerIntact`) and
  that the owner has seen or removed each of its predecessors' (`PredecessorsSeen`).

`TargetLocksProofs`, from `LocksAssumption` (any publications, readers, tables and layouts).
`LInv` follows the loops of `commit()`: what has been created, found and locked, in
ascending order (`Loops`, `Ascending`), that a refill target was validated or created
before anything is locked (`Prepared`), that what existed stays and is found (`Existing`,
`Found`), and that an uncommitted relation has its name for itself (`Exclusive`):

* `ExistingTargetsNeverDeadlock`, for a finite set of tables: of the tables waited for in
  a cycle take the greatest; whoever holds it waits for a greater one. This is the second
  half of `SortedOrderSuffices` and the absence of cycles, once all targets exist, for any
  number of publications.
* `SortedOrderSufficesForTwo`: the whole property, if there are at most two publications
  (`AtMostTwo`) and they agree which common targets are refills (`Agreed`). Neither
  condition can be dropped (see Findings), and the run has both.
* `RefillMeetsItsTable`, if all `Agreed`: `SameRelation` adds to `LInv` that the validated
  relation is still the live one. If one task refills what another one replaces, the
  look-up by name can find another relation than the preflight did (see Findings).

`SourceFilesProofs`, from `FilesAssumption` (any finite directory, any number of versions,
changes, resources and pipelines). `IInv` orders the versions: what was selected is no
older than what any live table was read from (`SelectedLater`, from `Written`), what is
read is no older than what was selected and has its names in its order
(`ReadAsSelected`), and a member that is gone fails the run:

* `TableAndSignatureAgree` is a part of it.
* `SkippedRunsHaveNothingToDo`: for a skipped run the selection is the stored signature,
  so the table's versions are no older than the selected ones, and no newer.
* `UntouchedSourcesAreSkipped`: `Calmly` and `Quietly` say that the run and the stored
  state have each selected what is there. A selection of the same directory is unique:
  the position of a file in ascending order is the number of files up to it (`Ranks`,
  `OneOrder`), and time and path together have one greatest pair (`OneLatest`).

* `TablesAreAsDescribed`, from the same assumption with fields that are strings: `csv.py`
  takes members one after another, so what it makes of them is defined by recursion, and
  `SoFar` is the invariant of that loop. `ParsedMember` says what one member comes to,
  `OneMemberMore` that one more keeps `SoFar`, and `CombinedAsDescribed` that the end of the
  loop is `Describes` or `Refused`, for any streams and options.

`TableLoadProofs`, about all five modes of `TableLoad`, and so about `TypeInference`,
`CopyText`, `SpoolFormat`, `Numerals`, `StagingNames` and `OutputSchema`. What a scan, a text, a number or a
spool comes to is defined by recursion on its length. `SetInduction` (a set with 0 and the
successor of each of its numbers has all of them) follows from the well-foundedness of
strict subsets, and `RecursionHasSolution` from that: a start and a step define a function on
0..N. The two stand in for the induction theorems of the library, which no installed
prover can instantiate. Assumed are `LoadAssumption` (what payloads, columns and limits
are, where no scale exceeds its precision), `StagingAssumption`, `ValueAssumption` (names are
strings, a source yields Python values, among them finite Decimals in digits of which only
zero's begin with one), `BitsAssumption` (smallint is narrower than integer, and that than bigint),
`InspectedAssumption` (what the generator can have inspected), `FrameAssumption` (a spool's
rows hold what it can hold, and integers whose length fits one byte) and `ByteAssumption`
(a byte has four bits or more).

* `InferenceInvariant` proves `InferInv`: what the accumulator and each walk have found of the
  rows they have walked is what those rows contain, and which columns the sample has
  settled, doubted or left to the second walk. From it follow `InferencePathsAgree`,
  `SamplingErrsLoudly` and `CopyTakesInferred`, for any number of rows and columns and
  any sample.
* `StagingTablesAreRecognised`: of the four cuts of a name each leaves a suffix that names the
  run, under every pair of limits.
* `GeneratedSchemasFit`: a type that is printed leads back to its column
  (`RenderedType`, `RenderedAgain`), so that a table made from the print is printed
  the same (`RecreatedPrintsTheSame`); `WhatRefills` is the comparison before a refill.
* `LoadersAlwaysAgree`, of sources without a signaling NaN in a nullable numeric column (see
  Findings): the two projections accept the same payloads (`ProjectionsAgree`) and
  give every column the same value (`RowsAgree`); each writer of a field takes what INSERT
  takes and writes what INSERT stores (`WritesWhatInserts`). Escaping is followed symbol by
  symbol and the server's reader as a sequence of states: a text, a field and a line
  are read back (`TextsReadBack`, `FieldReadsBack`, `LineReadsBack`), and `LoadInv` carries
  that from row to row.
* `SpoolsReadBack`: `EnoughBytes` and `BytesReadBack` are two's complement of any width,
  `ValueIsReadBack` and `RowIsReadBack` say of bytes that may end too soon that a value, or a
  row, is read whole or not at all. `SpoolInv` is where each row ends in the file, and what
  of the file is there.

* `NumbersAreKept`: the code decides about a Decimal by counting digits before and behind the
  point, less the zeros at its end; the property is about the number, which the column keeps
  if it is whole at the scale and below ten to the precision. `NumeralBounds` and
  `NumeralDivides` say what the count of digits and of zeros says of a number,
  `ShiftedBelow` what a shift of the point does to it, and `FitsWhatIsKept` that the
  two agree. An integer gets as many digits as `NumberOfDigits` finds (`DigitsReadBack`), and
  the range of a family is where two's complement does not wrap (`RangeIsWhatIsKept`).

Only model-checked: all liveness (the prover does not reason about `ENABLED`). Of
`SortedOrderSuffices` the cycles of three or more publications over targets that do not exist yet have no
theorem, since there are such cycles.

## Findings

Shown by a run:

* `session_diagnostic`: `_log_lock_timeout_relationship` swallows a failing query as its
  docstring promises, but the transaction is left aborted and the next statement of
  `begin_run()` fails the run.
* `copy_spool_databases`: predecessor spools are recognised by task name alone, while
  the lock that is said to exclude a live owner belongs to one database.
* `table_load_override`: the neutral pass of COPY infers the columns whose type is given,
  too, and refuses a table for a column that INSERT never infers.

Met while modelling. The modules do as the code does, so these are part of what the
properties hold of:

* `publish.py:1242` and `1673` say that sorted order prevents deadlock. It does for two
  publications that agree on strategies (`NoPublisherCycle`, a part of `SortedOrderSuffices`). Three first
  publications of the same absent tables, or one that replaces and one that
  refills a table, can wait for each other in a RENAME or DROP without a timeout, because
  nothing exists yet that LOCK TABLE could name. "Either every lock is held here or
  none is" (`publish.py:1414`) is not so for a table that appears after its look-up.
* An existing refill target is validated before the lock phase (`publish.py:1644`) and filled
  after it (`1683`), by name. If another task replaces that table in between, the relation
  that is filled is not the one whose columns were compared; `RefilledAsValidated` holds if
  the tasks agree on how a table is published (`Agreed` in `TargetLocksProofs`).
* `values.py:832` stops at three families since these "only ever resolve to Text"; date,
  naive and aware datetimes together are an error. The answer depends on the
  order of the rows, alike in every implementation (`PathsAgree`).
* `values.py:977`: a numeric or boolean sample is not verified against the rest. Three kinds
  behind it are taken for the type without a word (`Lookalikes`): the server stores a string
  that reads as a number ('007') as one, and SQLAlchemy's Boolean, which binds what is a
  member of {None, True, False}, takes 0 and 1 as well as 0.0 and `Decimal(1)` for bools.
* An int outside bigint in a column of ints, and a string with a NUL, are inferred as bigint and
  text, which cannot hold them; both loaders then refuse the table (`CopyTakesWhatItInferred`).
* `table_adapters.py:169`: `display()` reads 1000 rows, so the cache of a longer table is
  filled in part. COPY has no row count before it that would fill it, takes the rest from
  the source as it is by then, and publishes rows of two contents; the comment in
  `stabilize()` has every later traversal served from the cache. `ConsumersAgree` excepts
  this case (`Previewed`) from being of one content, and without the exception its run fails.
* `copytext.py:388`: `Decimal('sNaN')` in a nullable NUMERIC column is a null to COPY, whose
  fast path asks `is_nan()`, and is refused by INSERT, where `pd.isna()` raises on it; the
  docstring at `values.py:540` says that one kernel of rules keeps COPY from drifting.
  `LoadersAgree` excepts the value (`Signaling`), and without the exception its run fails.
* `publish.py:489`: an interrupt between two replacements, one in the handler of `commit()`
  and one in `rollback()` leave the transaction open with some targets replaced, and
  `close()` commits it with the release of the lock, although `commit()` is said to publish
  atomically. It takes all three interrupts (`LeftOpen` in `OutcomeIsTrue`).
* An interrupt in `rollback()` passes its `except Exception` (`publish.py:1759`): the tables
  not yet dropped stay, and `close()` unlocks while they are there, although the docstring of
  `rollback()` wants the lock held for as long. They are the next run's to clean;
  `LockOutlivesStaging` names these interrupts.
* An empty header with `db_updated_at`: INSERT refuses the table, an inferred COPY
  publishes one with the framework's column alone.
* A `datetime` whose `tzinfo` gives no offset is an `AttributeError` in the neutral spool, and
  subclasses of str and int that INSERT takes are refused by it.
* `csv.py:620`: a set without a usable member is an error even if `columns=` is given and
  there is no member at all; decisions/0015 §13 has a table without rows.
* State is kept by resource and not by pipeline: a pipeline added to `run_sequence` over
  sources that were processed is skipped with them (`SkipIsJustified` is about the
  pipelines the state was stored for).
* `generate_output_schema.py:524` and docs/task-authoring.md:350 say that a refill
  preserves a column's default; `publish.py:1279` refuses a target that has one, as
  decisions/0009 wants it. Of a partitioned table and of a `timestamp(6)` the generator
  prints a declaration too, and the refill refuses the table it was printed from;
  `GeneratedSchemaFits` is about the others.
* A file replaced by one of the same size and modification time is not seen as changed,
  and a workbook's metadata and its cells come from two openings of the file.

## Not modelled, and why

Passwords and network set-up, logging, the text of errors and notices, and the
layout of workbooks are not about correctness of state. Of a database
resource `SourceFiles` has the tracked query, whose row is taken to change whenever the
data do; a watermark that misses a deletion is the query's. What a cursor fetches when
is petl's and psycopg2's. The sheets, ranges and tables of a workbook are openpyxl's, as decoding and
quoting are `csv.reader`'s. AES-GCM frames of a spool fail as a whole when a byte is
missing, by the cipher's promise, which is stronger than what `SpoolReadsBack`
asks of the bytes. `min_age_seconds` compares two clocks and has no order of events to
get wrong that the directory's changes do not already have. Tasks and examples are
business rules; static validation of pipeline classes and bindings has no behaviour over
time. The shared artifacts of the task context are a dictionary. Indexes, grants and
comments of a swapped table belong to its one transaction and are not told apart.
Time is modelled in `PublicationRetry` only. One pass over a table is atomic in `RunLifecycle`:
what a reader gets of a source that changes under it is petl's. pandas tables are read
once, when the pipeline returns, and are the cached case. Inferred columns have no signaling
NaN, `Fraction` or complex number among their kinds.

## Plan

Built, in this order: `StagedPublication` over `AtomicOutput`, `PublicationRetry`,
`PublisherSession`, `CopySpool`, `TypeInference`, `RunLifecycle`, the proofs of the first
two, then `TargetLocks`, `CsvTable` and `SourceFiles`, `CopyText`, `SpoolFormat`,
`StagingNames`, `OutputSchema` and `TableLoad`, which composes those four with `TypeInference`,
and the proofs about `PublisherSession`, `RunLifecycle`, `CopySpool`, `TargetLocks`,
`SourceFiles` and `TableLoad`.

What is left:

1. `TargetLocks` and `PublicationRetry` share the lock phase, the first without time and
   the second without other publications; a refinement would relate them.
