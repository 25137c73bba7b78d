# Procurement Watchdog lakehouse: TLA+ verification project

The repository fetches Polish public-procurement notices (BZP) day by day and
builds layers from them: raw JSON, *bronze* (validated, deduplicated Parquet),
*silver* (Iceberg section tables, a common envelope, a quarantine) and *update
deltas*.  Cloud Workflows or local runners call the stages, for one day or for a
range of dates.  Every stage is meant to be safe to re-run: processed-date
manifests let a range job skip what is up to date, and what is rebuilt is deleted
and written again.  The hard part is that no transaction spans these steps, jobs
may die between any two of them, code is deployed in between, and the same day is
built by a daily and by a range job that follow different rules.

## 1. Inventory

| component (source) | state it keeps | operations | what is hard | what makes it correct |
|---|---|---|---|---|
| manifests (`src/procurement/manifests.py`) | one document per layer, date and notice type | write, check | written last; tracks code, not data; daily and range hashes never match each other | a match means the output is what the code makes |
| fetch (`fetch/bzp_api.py`, `fetch_bzp_range.py`, `fetch_bzp_yesterday.py`) | raw file, run record and manifest per day | page through the notice types, retry with backoff, filter to the day, dedup, write | pages cut by the last objectId while notices are published; retries; a day fetched before its end | a manifest vouches for a complete file, or the day was still open, or a local write was torn |
| bronze (`build_bronze.py`, `build_bronze_range.py`, `bronze/`) | partitions (type, day), error file and manifest per day; `seen_ids` and prepared rows in memory | daily build, range build: scan, skip, prepare, delete, write, finalize | cross-day dedup that carries state along the loop; delete before write; crash, failed scan, missing raw file; rebuild of a day in the middle | no notice lost, no stale rows in a day that is skipped, first day keeps a duplicate |
| silver (`silver/pipeline_orchestrator.py`, `build_silver_day.py`, `build_silver_range.py`) | section tables, quarantine, envelope (Iceberg), manifest per (type, day) | day job (types in parallel threads), range job (type by type) | append to a shared table; pre-deletes; failing batches; several jobs at once | each notice once in the envelope and in core or quarantine; skippable means complete |
| section pipeline (`silver/section_pipeline/`) | none between notices; per notice the entity counters and the last section of each model | HTML headings to sections, grouping into occurrences, section tables, parsers, validation, quarantine | occurrences are told apart by the order of section numbers only; five places where a value can be left out | every value is in a table, or the notice is flagged; occurrences follow the body |
| value parsers (`section_value_parsers/common.py`) | none | text to dates, durations, amounts, identifiers, changes | end of month, markers missing or swapped | duration and end date agree; no word of a change is lost |
| update deltas (`build_silver_update_deltas.py`, `update_deltas/`) | delta tables per target type, manifest per day | day and range build by chunks | index by years; deleted before written; order of changes in a notice | deltas of a skippable day are complete |
| day-by-day backfill and parallel runner (`build_silver_backfill.py`, `scripts/ops/backfill_parallel.py`) | checkpoint file; pool of subprocesses | run pending days, resume, reset, retry failed; start, poll and collect children | crash between work and checkpoint; children that outlive their pool | who says a day was built is right; every day is completed in the end |
| workflows and runners of all stages (`workflows/*.yaml`, `run_backfill.py`, `run_day_pipeline.py`, `batch_fetch.py`, `apps/downloader`) | current stage, batch id, attempt | submit the stages one after the other; poll; retry on quota; skip | a cancelled batch that still runs; a reply that is lost; force that does not reach every stage; daily and range manifests | a run that returns leaves each stage it repeats with all that comes of the stage before |
| BigQuery refresh (`scripts/ops/setup_bq_external_tables.py`) | one external table per Iceberg table, pinned to a metadata file | list the tables, find the latest metadata file, create or replace | names sorted as strings; one table of several fails | BigQuery reads the latest version |
| runtime providers, locks (`runtime/`, `common/locks.py`) | JSON files, lock files | read, atomic write, lock | breaking stale locks | at most one holder |
| observability, lineage, TED, dev scripts | append-only records | write | - | out of scope: pure output or one-off I/O |

Interactions: stages share storage only.  Fetch writes raw files that bronze
reads; bronze partitions are read by silver; silver's envelope and section tables
are read by deltas.  A range job of a stage records the code hashes of all stages
before it in its manifests, and a daily job none.  Inside a day job of silver,
threads share Iceberg tables.  No lock is taken by any script.

The hazards, each with its line and the properties on it, are listed in
`PROJECT.json`.

Errors the code passes over.  Several steps catch every exception and go on: the
pre-deletes of silver, the delete and the reads of the deltas, the run record of
fetch.  In the modules such an error is an outcome of the step like any other, chosen
when the step runs (`Fallible` names the statements of `Silver` and `Deltas` that may meet
one in an instance, the proofs allow all), and a history variable records it, which
no guard reads (`unswept`, `missed`, `kept`, the mark `Lost`).  A property then says
exactly what is wrong after that error, and that nothing else is.

## 2. Modules

| module | models | composes |
|---|---|---|
| `Manifests` | `manifests.py` | parameterised by the hashes and dependency mappings of a layer |
| `Bronze` | `build_bronze.py`, `build_bronze_range.py`, `bronze/dedup.py` | INSTANCE `Manifests` |
| `MCBronze` | instance data for `Bronze` | |
| `BronzeProofs` | theorems about `Bronze` | EXTENDS `Bronze`, TLAPS |
| `Silver` | `pipeline_orchestrator.py`, `build_silver_day.py`, `build_silver_range.py` | INSTANCE `Manifests` |
| `MCSilver` | instance data for `Silver` | |
| `SilverProofs` | theorems about `Silver` | EXTENDS `Silver`, TLAPS |
| `Deltas` | `build_silver_update_deltas.py`, `update_deltas/delta_builder.py` | INSTANCE `Manifests` |
| `MCDeltas` | instance data for `Deltas` | |
| `DeltasProofs` | theorems about `Deltas` | EXTENDS `Deltas`, `ListProofs` |
| `Fetch` | `fetch/bzp_api.py`, `fetch_bzp_range.py`, `fetch_bzp_yesterday.py` | INSTANCE `Manifests` |
| `MCFetch` | instance data for `Fetch` | |
| `FetchProofs` | theorems about `Fetch` | EXTENDS `Fetch`, `ListProofs` |
| `Lists` | what sorting makes of a set: dates, objectIds, the changes of a notice | used by `Backfill`, `Fetch`, `Deltas` |
| `ListProofs` | lemmas on these lists, induction on numbers, recursive definitions over them | EXTENDS `Lists`, TLAPS |
| `Values` | `section_value_parsers/common.py`, `parser_registry.py`, the call of a parser in `spark_table_builder.py` | |
| `Sections` | `raw_section_extractor.py`, `notice_schema_reader.py`, `spark_table_builder.py`, `final_schema_validator.py` | EXTENDS `Values` |
| `MCSections` | a profile and bodies for `Sections` | |
| `SectionsProofs` | theorems about `Sections` | EXTENDS `Sections`, `ListProofs` |
| `Backfill` | `build_silver_backfill.py`, `backfill_parallel.py` | INSTANCE `DayPool` (refinement) |
| `DayPool` | what a pool of day jobs promises: the abstract specification | |
| `MCBackfill` | instance data for `Backfill` | |
| `BackfillProofs` | theorems about `Backfill`, its refinement of `DayPool` among them | EXTENDS `Backfill`, `ListProofs` |
| `Pipeline` | `workflows/*.yaml`, `run_backfill.py`, `run_day_pipeline.py`, `batch_fetch.py`, `setup_bq_external_tables.py` | the stages, each as one output |
| `MCPipeline` | TLC's operators for `Pipeline` | |
| `PipelineProofs` | theorems about `Pipeline` | EXTENDS `Pipeline`, TLAPS |

### Manifests

A SHA-256 over source files is modelled as the pair of the entry point and the
version of the code under it: equal versions, equal hashes.  `read_json` and
`write_json` replace a document atomically, so a manifest is one variable updated
in one step.  `IsAlreadyProcessed` is the form with dependency hashes, which every
range job uses.

### Bronze

`bronze[d]` is the set of objectIds stored in the partitions of day `d`; the
notice type of an id is fixed, so `InPartition` cuts out one partition.  A job is
the sequence of the program: `StartRange` (hashes, pre-range scan), then for the
date under the `cursor` one of `SkipDate`, `NoRawFile`, `PrepareDate`; at the end
of a chunk with prepared dates, `DeletePartition` once per partition, `StartWrite`,
`OverwritePartition` once per partition, `EndWrite`, `FinalizeDate` once per date
in order, `EndChunk`; and `Exit`.  The daily script is `StartDay`, then the same
overwrite without a pre-delete, then `FinalizeDay`, whose manifest has the daily
hash and no dependencies.  `Crash` ends the process between any two steps and
covers exceptions too.  `Deploy` installs newer bronze or fetch code at any time.

Abstractions: the content of a day's raw file is fixed (`Published`), its presence
is not (a job finds it or not, at any time); validation is the set `Valid[v]` of
ids that version `v` accepts; an objectId is never missing or padded with blanks,
and the day a notice is filed under equals its publication day; replacing one
partition is atomic; bronze jobs run one at a time; deployments do not go back to
older code; `obs` writes and logs are left out.  `built` and `blind` are history
variables: the dates this job finished, and the dates whose ids it did not get to
see because a scan raised or the raw file was missing.

### Silver

`sections[m][k]` are the rows of partition `k = <<type, day>>` in the table of data
model `m`, tagged with the code version that parsed them; `quarantine[k]` the
quarantined ids; `copies[k]` how many times the bronze rows of `k` are in the
envelope.  Each process in `Jobs` runs a job: `DeleteEnvelope`, for a range job
`DeleteQuarantine`, then batches: `SkipType` or `BeginBatch`, for a range job
`PredeleteTable` per table and `ReadBatch`, then `WriteSection` per table in any
order (a thread pool writes them), `WriteQuarantine`, `AppendEnvelope`, and the
manifests, one per date (`WriteRangeManifest`) or one (`WriteDayManifest`).  A
range job has one batch at a time, a day job up to `BatchWorkers`.  `FailBatch` is
an exception in a worker thread of a day job: the executor finishes the others
first.  `Crash` is the death of a process or an exception in a range job.

Abstractions: every Spark SQL statement or Iceberg write is one atomic commit;
bronze does not change while silver jobs run; the fallback of the day job to raw
JSON is left out; types without a name (`noticeType` null) have no manifest, no
section table and no quarantine, as in the code; which ids get rows or quarantine
entries is `Rows[v]` and `Flagged[v]`, with the assumption that each id of a
profiled type is in one of the two (`ConstantsAssumption`).  `Overlapping = FALSE`
says that operators do not start a job on days of a running job; nothing in the
code enforces it, and with `TRUE` two day jobs put notices twice in the envelope.

Every pre-delete may meet an error, which the code swallows: `DeleteEnvelope` and
`DeleteQuarantine` catch it, and `PredeleteTable` takes a table for missing when `SHOW
TABLES` or `DESCRIBE` fails (`pipeline_orchestrator.py:185-191`, `:269-303`).  The job
then goes on, and its manifests will match.  `unswept[k]` is the history of it: the
tables in which the last pre-delete of `k` left rows, until a write replaces them
(`overwritePartitions`) or a later pre-delete removes them.  `LeftOver` is the
exception the properties make: rows of an earlier run stay in a partition that is to be empty.
An envelope that was not swept, to which rows are appended, holds them more than once.

### Deltas

`deltas[t]` are the rows of the delta table of type `t`: the update notice (NUN),
its day, the envelope entry its number resolved to, and the version of the code.
A range job is `StartRange` (the NUN days without a matching manifest), `LoadIndex`
once for their years, then for each chunk `BeginChunk`, `DeleteDeltaPartitions`
once per table, `EndDelete`, `ReadDay` once per day, `WriteDeltas` once per table
with rows, `EndWrite`, `WriteManifest` once per day; then `Exit`.  The day job is
`StartDay`, the same deletes, `ReadCore`, `LoadDayIndex`, the same writes, one
manifest.  Three errors are passed over: if `DESCRIBE` fails, `StartRange` finds no days and
`ReadDay` or `ReadCore` no core rows or no changes; if `SHOW TABLES` fails,
`SkipDelete` deletes nothing (`build_silver_update_deltas.py:156-159`, `delta_builder.py:216-238`,
`:267-269`).  `missed[d]` is the history of that for the rows of day `d`: a delete that
is skipped while the day has rows counts until one goes through, core rows not read until
they are read, changes not read until the rows made without them are deleted.  `Silver` is here only as a sequence of states, each with its core table
of NUNs (`Core`) and its common envelope (`Envelope`): `RebuildSilver` moves to the
next at any time, also between the statements of a job, so that a job may read the
days of one state and the index of another.

Abstractions: one deltas job at a time; every Spark SQL statement is atomic; all
tables exist from the beginning (a table that is not there is an empty one); two
entries of one number on one day, whose order Spark chooses, do not occur; the `--all`
mode is the range of all days.  The columns of a row are total functions, null where
no change writes them; a parsed value is the pair of parser and text; the raw list
`section_changes` is left out.

### Fetch

A job is `StartRange` or `StartDay`, then per day `SkipDay` or `BeginDay`, one of
`ReceivePage`, `TransientError` and `PermanentError` per request, `WriteOutput`,
`WritePipelineRun`, `WriteManifest`, and `Exit`.  The API is external: a request
returns the next `PageSize` notices after the last objectId among those published
at that moment.  `Publish` adds a notice of today or of a later day at any time,
`Midnight` ends a day, `Crash` ends the process.  A notice has the day whose query
returns it (`window`) and the day its `publicationDate` begins with (`prefix`),
which differ near midnight; it may lack an objectId, and two types may share one.
`runs[d].started` is the day on which the download began, as the run record has it;
`WritePipelineRun` may store none, since the insert into BigQuery only logs its errors and
does nothing without a directory elsewhere.  `WriteTorn` is a local write that stops in
the middle: `write_text` truncates the old file first, and its manifest, if there is
one, still matches.  `begun[d]` is the history of when the last whole file was begun.
Left out: the fields of a notice, the delay before a retry.

### Values and Sections

`Values` says what each parser returns for the kinds of text its regular
expressions tell apart: a date in the exact form or not, a duration in days, weeks,
months or years, an end date, a range of dates, an amount with a currency or not, a
valid identifier or not, a change as a sequence of words and markers.  The calendar
is computed, with month lengths, leap years and the limits of `datetime.date`.
`Sections` reads one body heading by heading (`SkipEmpty`, `UnknownSection`,
`CoreSection`, `EntitySection`), with `slots`, `index` and `last` as the code's
`model_values`, `current_index` and `last_section_by_model`; then
`BuildSectionTables`, `ApplyColumnParsers` and `ApplyPydanticValidation`.  A value
is known by the heading it comes from, so that properties can follow it into the
tables.  A table is the set of its rows, which their ordinals tell apart; a child
table counts its rows through all occurrences, as `posexplode` does (`UpToChild`).
Notices do not depend on each other, so a body is a behaviour.  `ConstantsAssumption`
says what the profile files have in common: a model of the core has no children, a
section with derived columns has no parser of its own, derived columns carry the
number of their section and are none of the computed columns, which read columns of
their own model; a profile with computed columns has one duration and one end date, made of
the same two sections, of which the duration's has no parser; a section of changes has the label, the old and the new text, once each,
and a text under it is a sequence of words and markers (`IsChange`); and a strict
parser (`StrictParsers`), given a text, returns a value or raises.  Left out: `NOTICE_TYPE_PARSERS`, which is empty, the comparison of profiles with Pydantic
models at start-up, the list, NUTS and CPV parsers, check digits.

### Backfill and DayPool

The job: `StartJob`, `LoadState`, `BeginDay`, the steps of a day, `CompleteDay` or
`FailDay`, `FinishJob`; `KillJob` at any time.  The file is written after every
change of the state in memory, hence one variable `ckpt`.  The pool: `StartPool`,
`StartNext`, `Poll`, `EndStage`; `KillPool` at any time, after which the children go
on.  A day is `DeleteEnvelope`, then `AppendEnvelope` per notice type; what else a
day writes is overwritten by partition and left out.  A delete that meets an error is only
logged (`pipeline_orchestrator.py:640-646`) and the appends follow: the history variable
`kept[d]` has the rows that the last delete of the day left.  A day without bronze fails
in the job, and is built from the raw file by a child (`--input-layer auto`).
`build_gold.py` is not in the repository, so each child of the stage gold fails.
`DayPool` is the abstract pool; `Backfill` implements it with `waiting`, `running`
and `ended` as the days of `pending`, `active` and `completed`.  `built` is a
history variable: the last builder of a day, if no other overlapped with it.  Left
out: the count of attempts and the report, which nothing reads.  Operators do not
start one runner while the other runs.

### Pipeline

A run `e` is at a stage, where it submits a *unit* (a Cloud Run job, a Dataproc
batch or a child process), polls it, and goes on, tries again, or raises.  The output of a stage, which the
next one reads, is `data[s]`: the versions of the raw file it may have rows of (`of`), and
the script of its manifest (`by`), which is of a day or of a range because the hashes of
the two scripts differ.  A unit skips if the manifest is of its script, unless it is told
not to (`RunsAgain`), and builds from the input it finds when it begins (`Read`).  What
it builds replaces the old output only in the range script of bronze, which deletes all
partitions of its days; all others keep what they do not write (`Keeps`):
scripts of a day overwrite the partitions they have rows for (`build_bronze.py:359`,
`pipeline_orchestrator.py:735`), the range script of silver sweeps the types that bronze has,
that of the deltas the days that silver has, and ends well without a manifest if it finds
none.  `FinishAfterError` is a silver or deltas build that passed over an error: it may have built
anything, or (deltas) nothing, and marks the output with `Lost`, which the builds
that read it inherit.  A unit that stops leaves nothing, a part (`Torn`: some of the
latest rows may be missing), or everything but the manifest; so does one beside a
unit of the same stage.  Units can be refused for want of quota, fail, be cancelled
(they go on for a while in state CANCELLING), or be submitted by a request whose
reply is lost.  `HasOutput` is the existence check of `batch_fetch.py`.  The refresh
of BigQuery is modelled by its steps: list, create or replace, for each namespace.
`alone` is a history variable: no unit but the run's own current one lived since
the run began.  What a stage does inside is the matter of the other modules.

## 3. Runs

| run | instance | shows |
|---|---|---|
| `bronze` | 3 days, 3 ids of 2 types, one id on days 1 and 2, one on days 2 and 3, 2 versions of bronze and of fetch code, chunks of 2 days, scans that fail; no `--force`; 2.2 million states | `TypeOK`, `NoticeStoredOrDue`, `MatchedDayIsCurrent`, `FirstDayKeepsNotice`, `SkippedDayUntouched` |
| `bronze_force` (violation) | one version, `--force` allowed | a crash of a forced job between delete and write leaves a matching manifest and no rows |
| `silver` | 1 process, 2 days, 2 types (one profiled with 2 tables, one without profile), 2 versions; pre-deletes of a table without rows and of the quarantine may be swallowed; 4.6 million states | `TypeOK`, `SkippableRangeIsCurrent`, `BuiltTypeIsAccounted`, `RangeBuildLeavesNothingStale` |
| `silver_parallel` | 2 processes on disjoint days, 2 types (one null), symmetry on processes; pre-deletes of the envelope may be swallowed; 0.7 million states | `EnvelopeHasNoDuplicates`, `BuiltTypeIsAccounted` with jobs interleaved |
| `silver_resume` (violation) | 1 process, 3 types, one version | a re-run of a finished range empties the envelope of the types it skips |
| `deltas` | 3 days of 3 years, 5 NUNs, 3 numbers, 2 indexed types and one without index, a column with an unknown parser, one rebuild of silver that adds NUNs and moves a number to another type, one deployment, errors in the delete, the reads and the discovery, those about rows on day 2 only (`Bounded`), chunks of 2 days; no `--force`; 1.7 million states | `TypeOK`, `MatchedDayIsOneBuild`, `RecentTargetIsResolved`, `OneDeltaPerNotice`, `LastChangeWins`, `SkippedDayUntouched` |
| `deltas_rerun` (violation) | the same, chunks of one day | after a rebuild of silver, a finished job leaves deltas that name a notice silver no longer resolves the number to |
| `fetch` | 2 days, 2 types, 7 notices (some without objectId, two with the same, one whose day differs from its window), pages of 2, 2 attempts, torn files and lost run records; 770 thousand states | `TypeOK`, `ManifestVouchesForDay`, `FileHasDistinctNotices`, `MatchedDayUntouched`, `JobEnds` |
| `sections` | a profile with core, client, parts, criteria and changes; all bodies of up to 5 part headings, of up to 3 of all kinds, all pairs of 27 starts and 207 durations, all contents of up to 3 nodes, all changes of up to 4 words and markers; 86 thousand states | `TypeOK`, `NothingLostSilently`, `OrderIsKept`, `NoEmptyUnit`, `PartsAreOccurrences`, `ChildHasParent`, `DurationMatchesEndDate`, `ChangeTextIsKept` |
| `backfill` | 2 days, one without bronze, 1 worker, 2 child processes, 2 troubles; 170 thousand states | `TypeOK`, `ClaimedDayIsBuilt`, `CompletedDayIsLeft`, `PoolIsQueue`, `PoolEnds`, `RangeCompletes` |
| `pipeline` | 2 runs, the second of any kind, one retry for quota, 1 trouble; 530 thousand states | `TypeOK`, `LiveUnitIsOwned`, `RunIsEndToEnd`, `RunEnds` |
| `pipeline_names` (violation) | 2 runs, 5 commits per build, no trouble | from the tenth version on, the refresh takes `v9.metadata.json` for the latest |

Why these bounds: three days are the least with a day before, in and after a
range, chunks of two days give a full and a partial chunk, and two chained
duplicates (day 1 and 2, day 2 and 3) allow a drop that depends on a drop.  Two
code versions suffice because every manifest comparison is for equality and
versions only grow.  In `silver`, day 2 has no rows of type 2, and the newer code
makes no row of the model `part`: both leave a partition that `overwritePartitions`
does not touch.  In
`deltas`, the three days are in three years: the least for a target that needs the
lookback and one that is beyond it; day 1 has no NUN at first and later only one without a
number, and day 2 can be current when days 1 and 3 are not, so that a matching day can
lie inside a chunk's range; a number moves to another table, which a build that
does not delete first would leave in both; one NUN changes a section three times,
one of them to a text that cannot be parsed.  In `fetch`, pages of 2 (500 in the
code) make a type end on a full page, on a short one and on an empty one; two
attempts (5 in the code) tell the last from the others.  In `sections`, five part
headings are two parts with a criterion each and one heading in excess.  In
`backfill`, one worker and two process ids let a child of a dead pool run beside one
of the next; the bounds `MaxTrouble` in `Backfill` and `Pipeline` count crashes,
failures, errors that are passed over and resets, and failures for want of quota are bounded by `MaxAttempts`
(3 in the code) alone.  In `pipeline`, `Beside` limits which kinds of run are started beside
another to the three local ones; on Google Cloud the second run comes after the
first, but may meet a batch the first has left.

Deadlock is checked in all runs but `sections` and `pipeline`: a body is read to its
end, and the runs of an instance are over once each has been started.

Fairness.  `Fetch`: weak fairness of the job's steps; requests time out after 60
seconds and delays are finite.  `Pipeline`: weak fairness of the system, since a batch
has a `ttl`, a child process ends, and Cloud Workflows goes on with an execution; it
is not assumed that anything succeeds.  `Backfill`: weak fairness of the job, the pool
and each child, and for `RangeCompletes` strong fairness of somebody starting the
backfill again with `--continue-on-error` and no `--max-days`: with `--max-days` or without
`--continue-on-error`, a day that always fails keeps the later ones waiting.  The other
specifications state no fairness, their properties are safety properties.

What the violations say.  With `--force` and a crash, manifests of the earlier run
keep matching (`build_bronze_range.py:410` and `:448`).  The silver range job deletes
the envelope and the quarantine of all its days before it decides, type by type, what
to skip (`pipeline_orchestrator.py:925-946` and `:979-1011`).  The deltas job skips by
the hashes of code and never learns that silver changed
(`build_silver_update_deltas.py:264-283`).  The refresh of BigQuery sorts
`v10.metadata.json` before `v9.metadata.json` (`setup_bq_external_tables.py:265`).  Each
contradicts a sentence of the repository, quoted in `PROJECT.json`.

Met while modelling, and not a run of its own: range jobs of silver on overlapping
ranges can leave a skipped day without rows (hazard at
`pipeline_orchestrator.py:994`); the daily workflow does not refresh BigQuery at
all, and each table of BigQuery is pinned to one metadata file, although
`docs/iceberg.md:91` expects that no update is needed; the workflow's `FORCE_FETCH` is read
by no script, so `force` does not fetch again (`RunsAgain`).

## 4. Proofs

TLC checks the properties on the instances of section 3; the theorems below hold for
every value of the constants that satisfies the named assumptions of the module
(`ConstantsAssumption`, `NoManifestAssumption`), which TLC evaluates in the runs.
What an assumption says beyond the types: sets of files, processes, notices and
changes are finite, a missing file or manifest is told from every value, and no
notice type is listed twice.

| module | theorem | states | from |
|---|---|---|---|
| `BronzeProofs` | `TypeCorrect` | `TypeOK` | |
| | `NoticesAreKept`, `MatchedDaysAreCurrent`, `SkippedDaysAreUntouched` | `NoticeStoredOrDue`, `MatchedDayIsCurrent`, `SkippedDayUntouched` | no `--force` |
| | `FirstDaysKeepNotices` | `FirstDayKeepsNotice` | |
| `SilverProofs` | `TypeCorrect` | `TypeOK` | |
| | `EnvelopesHaveNoDuplicates`, `BuiltTypesAreAccounted`, `RangeBuildsLeaveNothingStale` | `EnvelopeHasNoDuplicates`, `BuiltTypeIsAccounted`, `RangeBuildLeavesNothingStale` | jobs kept apart |
| | `SkippableRangesAreCurrent` | `SkippableRangeIsCurrent` | jobs kept apart, no `--force`, `RangesApart` |
| `FetchProofs` | `TypesAreCorrect`, `FilesHaveDistinctNotices`, `ManifestsVouchForDays`, `MatchedDaysAreUntouched` | `TypeOK`, `FileHasDistinctNotices`, `ManifestVouchesForDay`, `MatchedDayUntouched` | |
| `BackfillProofs` | `TypesAreCorrect`, `CompletedDaysAreLeft`, `ClaimsAreTrue` | `TypeOK`, `CompletedDayIsLeft`, `ClaimedDayIsBuilt` | |
| | `PoolImplementsDayPool` | `PoolIsQueue`: `Backfill` implements `DayPool` | |
| `DeltasProofs` | `TypesAreCorrect`, `NoticesHaveOneDelta`, `LastChangesWin`, `SkippedDaysAreUntouched` | `TypeOK`, `OneDeltaPerNotice`, `LastChangeWins`, `SkippedDayUntouched` | |
| | `MatchedDaysAreOneBuild`, `RecentTargetsAreResolved` | `MatchedDayIsOneBuild`, `RecentTargetIsResolved` | no `--force` |
| `PipelineProofs` | `TypesAreCorrect`, `LiveUnitsAreOwned`, `RunsAreEndToEnd` | `TypeOK`, `LiveUnitIsOwned`, `RunIsEndToEnd` | |
| `SectionsProofs` | `TypesAreCorrect`, `OrderIsAlwaysKept`, `NoUnitIsEmpty` | `TypeOK`, `OrderIsKept`, `NoEmptyUnit` | |
| | `ChildrenHaveParents`, `NothingIsLost` | `ChildHasParent`, `NothingLostSilently` | |
| | `ChangesAreKept`, `DurationsAreRight` | `ChangeTextIsKept`, `DurationMatchesEndDate` | |
| | `PartsAreKept` | `PartsAreOccurrences` | |
| | `ValuesAreInPlace` | `PlacesInv`: the place of every value, in any body | |

The hypotheses in the last column are about operators and storage, not about the
code, and each marks a place where the code does not hold without it:

- no `--force` (`ForceFlags \subseteq {FALSE}`): a forced job that dies between
  deleting and writing leaves manifests of the earlier run that match - the run
  `bronze_force` shows it for bronze, and the same happens to deltas and silver;
- jobs kept apart (`Overlapping = FALSE`) and `RangesApart` (ranges of silver jobs are
  the same or share no day): the hazards at `pipeline_orchestrator.py:639` and `:994`.

None assumes that a swallowed error does not happen: the theorems hold for every value
of `Fallible`, and what such an error may spoil is in the property itself.  What the
theorems that need no hypothesis say includes `--force`, crashes between any
two steps, deployments, and in `Deltas` rebuilds of silver while a job runs.

### The arguments

Hardly any property is inductive as it stands.  Each proof module defines what is missing, by name, proves that `Init` implies the
whole and that every action keeps it, one step per action, and has *frame* lemmas for
what an action does not touch.

**Bronze.**  That deleting a day's rows is
safe depends on what the running job knows.  `IInv` adds:

- `Control`: how `pc`, `cursor`, `prepared` and `todo` go together;
- `Versioning`: the job is not forced; no running job and no manifest is newer than
  the deployed code, so a deployment can only end matches, never create one
  (`DeployUnmatches`); the dates a range job has prepared have no matching manifest
  (the place where `--force` breaks the proof);
- `Contents`: the rows and errors of a day are of its raw file, prepared rows are
  ids the job's code accepts and the prepared errors are ids it rejects;
- `Writing`: while partitions are deleted and overwritten, those no longer in
  `todo` are empty or hold the prepared rows;
- `SeenIsHeld`: every id in `seen` is held on some day, stored or about to be
  written by this job, and every id of a prepared day is in its rows, its errors
  or in `seen` - the fact that makes "A dropped it because of B, B is rebuilt"
  harmless;
- `NoticeStoredOrDue` and `MatchedDayIsCurrent` themselves.

`FirstInv` is the smaller invariant behind `FirstDaysKeepNotices`: its `SeenEarlier`
says that `seen` covers all earlier days that are not blind.  Both `Versioning` and
the versions of the model rest on deployments that never go back: after a
rollback, a manifest of the older code would match again although a job of the newer
code may have died with the day's rows deleted.

**Silver.**  A batch is right because the job that runs it has its days to itself
(`Apart`) and because of what it has deleted when it writes: `Tables`, `Routed` and
`Appended` say of each stage of a batch what the tables, the quarantine and the
envelope of its partitions hold, each with the exception that `unswept` records.  For
skipped ranges, `ManifestInv` adds that manifests are no newer
than the job that will overwrite them (`NotNewer`, `Versioned`) and that a range
whose tables are being deleted has a date without a match (`Unfinished`).

**Fetch.**  `GotInv` says which notices the running download has: each once, and, if
the day was over when it began and no notice lacks an objectId, all of the types it
is done with and those up to the last objectId of the type it is at.  Nothing is
published of a day that is over, so pages cut by objectId miss nothing.  `FileInv`
carries that to the file and ties the run record and the manifest to it: both come after
the file, so that a crash between them does no harm, and a record is never newer than
the file.  A torn file is all that a manifest may vouch for wrongly.

**Backfill.**  `JobInv` says that the days still to do are not completed, `PoolInv`
that the children of the pool, its queue and its results share no day.
`BuildInv` says, for the sole builder of a day, how much of the envelope is there,
over the rows that its delete left.
The refinement maps `waiting`, `running` and `ended` to the days of `pending`,
`active` and `completed`; every step is a step of `DayPool` or a stutter.

**Deltas.**  `TablesInv` and `RowsInv` say which partitions a chunk has emptied, or
failed to, and which rows it holds for them; `ManifestInv` that nothing is newer than the code.
`LastChangeWins` is about the fold of the changes in `build_update_deltas`: after `i`
changes, a column says what the last of the first `i` says (`DeltasProofs`, by
induction on `i`).

**Pipeline.**  `TypeInv` adds to the types that the version a refresh has listed is
still there; `PlaceInv` says where the unit of a run can be when it is not awaited
any more.  `FreshInv` follows a run that is alone: each stage behind it that it
repeats has all that comes of the raw file there is, unless it carries the mark `Lost`
(`IsFresh`), its unit has read the output of the stage before as it still is, and a refresh has
caught up with every table it has passed.  What earlier runs left can only add to an
output (`Keeps`), and only bronze made by its range script is free of it.  The order of the metadata names is
proved, too: up to `v9` and from `v90` to `v99` the last by name is the latest,
in between it is `v9` (`LatestExists`), hence the bound `MaxVersion` = 99 on the
versions of a table, at which builds stop.

**Sections.**  The counters of the reader say nothing by themselves about the lists
they point into.  `GroupInv` says, of each entity and each list of children in turn:
the counter stands at the last unit and none of that unit's sections is above the
last one read (`Current`); each unit has a value, and all values of a unit come
before those of the next (`ListOK`).  Hence a
section that does not repeat is written into a free field after all others, and one
that does begins a unit behind the last: no value is overwritten, although
`Put` skips fields that are taken, and `KeptInv` can say that each value read is in its field,
among the unknown sections or among the errors.  `TablesInv` gives the tables of each
stage as images of these lists under the column parsers; `NothingIsLost` then follows a value
through `ParseInPlace`, `ParseDerived` and `Compute`, parser by parser.  In the other direction,
`StoredInv` says that what a field holds was read at its section; `ChangesAreKept` uses
it to go from a cell back to its text, whose places the three parsers divide among
them (`PlacesCoverChange`, `PlacesAreApart`).  `DurationsAreRight` goes the same way back to
the text of the duration, and from there by the calendar: `FromOrdinal` finds the year
and the month of every day (`YearExists`, `MonthExists`) and is the inverse of
`Ordinal` (`DateIsOfItsDay`); the day after the last one of a month is the first of the
next (`MonthsEnd`).  `IInv` also holds, by TLC, on all bodies
of the run `sections`, with the positions in `StoredInv` bounded.

`PartsAreOccurrences` speaks of bodies of which nothing is known until the last heading
is read, and counts units; its own prefixes are no induction hypothesis one could
use, since the reader never counts starts.  What it does count are the values
whose section is not above that of the value before them, in the same unit of the
parent (`Breaks`).  `PlacesInv` says so of every body, ascending or not: `index` is the
number of breaks of the running unit, `last` the section of its last value
(`Counts`), and a value stands in the slot, and at the place of its child, that has the
number of the breaks up to it plus one (`SlotOf`, `KidOf`, `PlacesOK`).  It is inductive on
top of `IInv`, by which a value is written into a free field and those written before
keep their places (`PlacesKept`).  That is `ValuesAreInPlace`; `PlacesInv` holds by TLC on the
bodies of `sections` of up to four part headings.  In a body whose parts begin with their first
section the breaks of a model are its starts but the first (`PartsAreUnits`, and
`ChildrenAreUnits` within a part), so a number of breaks plus one is a
number of starts (`FirstIsOneMore`), which is what `UnitOf` says.

**Lists.**  `Ranked` and `InOrder` put each member of a finite set at its rank.
`RankedListsEach` and `InOrderListsEach` say that the result has each member once and
in order; `InductionUpTo` is induction on numbers for a property that is given as the set
of the numbers that have it, and `ChainExists` says that a recursive definition on
`0 .. n` defines a function, which gives the recursive functions of the models their
equations.

### What is not proved

- Liveness: `JobEnds`, `PoolEnds`, `RangeCompletes`, `RunEnds`.  Fairness and ENABLED
  are out of the prover's reach, TLC checks them on the instances.
- The expected violations are about single behaviours, which TLC shows.

All other properties of the passing runs, safety invariants and action properties,
are theorems.

## 5. Plan

What is left: a shared module for the lemmas on manifests and deployments that
`BronzeProofs`, `SilverProofs` and `DeltasProofs` each have.

## 6. Not modelled

- Runtime providers: reads and atomic writes of JSON files are part of the actions
  that make them.  The locks of `common/locks.py` and the batch launcher of
  `runtime/providers/gcp.py` are called by no script.
- Observability and lineage (`obs.py`, `build_obs.py`, `lineage.py`): append-only output
  that no stage reads back; `fetch`'s run record is in `Fetch`.
- The parquet mode of the BigQuery setup: no workflow uses it.
- In silver: the raw-JSON fallback of the day job with its tables (only its
  envelope, in `Backfill`).
- In the section pipeline: lists of codes and the field lists of the Pydantic models;
  the conversions are regular expressions on text.
- TED download and developer scripts: single-shot I/O.
