------------------------------- MODULE Silver --------------------------------
(***************************************************************************)
(* The silver layer: src/procurement/silver/pipeline_orchestrator.py,      *)
(* called by build_silver_day.py (one date, the notice types in parallel)  *)
(* and by build_silver_range.py (a range of dates, one notice type after   *)
(* the other).  A batch of a notice type parses the type's bronze rows     *)
(* into section tables, routes what does not parse to the quarantine table *)
(* and appends all rows to the common envelope; a manifest per date and    *)
(* notice type lets a range job skip a type.                               *)
(*                                                                         *)
(* Several jobs may run at once (backfill_parallel.py runs disjoint ranges *)
(* side by side, the daily workflow runs by itself).  Each Spark statement *)
(* is one Iceberg commit, hence one step.  A job may die between any two   *)
(* steps, a batch of a day job may fail while the others go on, and new    *)
(* code may be deployed at any time.  Bronze does not change here.         *)
(*                                                                         *)
(* No pre-delete of old rows is sure: the job logs or never sees an error  *)
(* and goes on over the rows that stay.  The history variable unswept      *)
(* records where that happened; no step depends on it.                     *)
(***************************************************************************)
EXTENDS Integers, FiniteSets

CONSTANTS
  Jobs,           \* processes that may run a job at the same time
  LastDay,        \* days are the numbers 1 .. LastDay
  LastType,       \* notice types are the numbers 1 .. LastType, in batch order
  Named,          \* the types that have a name (the others are noticeType null)
  Profiled,       \* the types with a registered section profile
  Ids,            \* objectIds
  Models,         \* data models: the section tables of a profiled type
  Stored,         \* the objectIds in the bronze partition of a type and a day
  MaxVersion,     \* bound on the versions of the code deployed
  Rows,           \* the objectIds that get a row in a model, by silver version
  Flagged,        \* the objectIds that get a quarantine row, by silver version
  Ranges,         \* the date ranges operators give to range jobs
  Overlapping,    \* whether operators start jobs on days of a running job
  ForceFlags,     \* the values of --force that operators use
  Fallible,       \* the tables whose pre-delete may meet an error
  BatchWorkers,   \* --max-batch-workers of a day job
  MaxCopies,      \* bound on the copies of a row in the envelope
  NoManifest

Days == 1 .. LastDay
Types == 1 .. LastType
Versions == 0 .. MaxVersion
Partition == Types \X Days
DateRange == {r \in Days \X Days : r[1] <= r[2]}

\* The core model of a profiled type has a row for each notice that is not
\* quarantined (build_section_tables, apply_pydantic_validation).
Core == "core"

\* The common tables, beside the models' tables.
Envelope == "common_envelope"
Quarantine == "quarantine_notices"

ASSUME ConstantsAssumption ==
  /\ LastDay \in Nat \ {0} /\ LastType \in Nat \ {0} /\ MaxVersion \in Nat
  /\ Profiled \subseteq Named /\ Named \subseteq Types
  /\ Core \in Models /\ Models \cap {Envelope, Quarantine} = {}
  /\ Stored \in [Partition -> SUBSET Ids]
  /\ Rows \in [Versions -> [Models -> SUBSET Ids]]
  /\ Flagged \in [Versions -> SUBSET Ids]
  /\ \A v \in Versions : Rows[v][Core] \cup Flagged[v] = Ids
  /\ Ranges \subseteq DateRange
  /\ Overlapping \in BOOLEAN
  /\ ForceFlags \subseteq BOOLEAN
  /\ BatchWorkers \in Nat \ {0} /\ MaxCopies \in Nat \ {0}

\* A script hash covers the entry point and the silver package; a range job
\* also records the hashes of the fetch and bronze stages, which one version
\* number of all upstream code stands for.
Hashes == [entry : {"range", "day"}, silver : Versions]
NoDeps == -1
Deps == Versions \cup {NoDeps}

ASSUME NoManifestAssumption == NoManifest \notin [script : Hashes, deps : Deps]

INSTANCE Manifests

VARIABLES
  sections,    \* sections[m][k]: rows of partition k = <<t, d>> of model m's
               \* table of type t, as <<objectId, version that parsed it>>
  quarantine,  \* quarantine[k]: the objectIds in the quarantine partition
  copies,      \* copies[k]: how often each bronze row of k is in the envelope
  manifest,    \* manifest[k]: the silver manifest
  code         \* the deployed versions of the silver and the upstream code

stores == <<sections, quarantine, copies, manifest, code>>

VARIABLE
  unswept      \* unswept[k]: history, the tables in which the last pre-delete
               \* of partition k left rows, up to a write that replaces them

VARIABLES
  pc,          \* pc[p]: where the job of process p is
  job,         \* job[p]: its kind, arguments and hashes
  stage,       \* stage[p][t]: where its batch of type t is
  todo,        \* todo[p][t]: the section tables left to delete, then to write
  cursor       \* cursor[p]: the next date whose manifest a range job writes

memory == <<pc, job, stage, todo, cursor>>
vars == <<stores, unswept, memory>>

Job == [kind : {"range", "day"}, first : Days, last : Days, force : BOOLEAN,
        silver : Versions, upstream : Versions]
NoJob == [kind |-> "day", first |-> 1, last |-> 1, force |-> FALSE,
          silver |-> 0, upstream |-> 0]

Active == {"predelete", "sections", "append", "manifests"}
Ended == {"skipped", "done", "failed"}

DaysOf(j) == j.first .. j.last
PartitionsOf(t, j) == {t} \X DaysOf(j)

RangeHash(version) == [entry |-> "range", silver |-> version]
DayHash(version) == [entry |-> "day", silver |-> version]

\* What is_already_processed answers a range job of the deployed code.
Match(k) == IsAlreadyProcessed(manifest[k], RangeHash(code.silver), code.upstream)

\* The rows of partition k that code of a version writes into model m's table
\* and into quarantine: a type without a profile is quarantined as a whole
\* and has no section table, a null type has neither.
ModelsOf(t) == IF t \in Profiled THEN Models ELSE {}
Parsed(m, k, version) ==
  IF k[1] \in Profiled THEN (Stored[k] \cap Rows[version][m]) \X {version} ELSE {}
ToQuarantineMutant(k, version) ==
  {i \in Stored[k] : k[1] \in Profiled /\ i \in Flagged[version]}
ToQuarantine(k, version) ==
  {i \in Stored[k] : k[1] \in Profiled => i \in Flagged[version]}

\* Whether a pre-delete of a table deletes, or an error in it is swallowed.
Outcomes(table) == IF table \in Fallible THEN {TRUE, FALSE} ELSE {TRUE}

\* The history after a pre-delete (or a replacement) of keys of a table.
Record(table, keys, ok) ==
  unswept' = [k \in Partition |->
                IF k \notin keys THEN unswept[k]
                ELSE IF ok THEN unswept[k] \ {table} ELSE unswept[k] \cup {table}]

\* The partitions of a job, of all types.
JobPartitions(j) == Types \X DaysOf(j)

NoStages == [t \in Types |-> "skipped"]

-----------------------------------------------------------------------------
Init ==
  /\ sections = [m \in Models |-> [k \in Partition |-> {}]]
  /\ quarantine = [k \in Partition |-> {}]
  /\ copies = [k \in Partition |-> 0]
  /\ manifest = [k \in Partition |-> NoManifest]
  /\ code = [silver |-> 0, upstream |-> 0]
  /\ unswept = [k \in Partition |-> {}]
  /\ pc = [p \in Jobs |-> "idle"]
  /\ job = [p \in Jobs |-> NoJob]
  /\ stage = [p \in Jobs |-> NoStages]
  /\ todo = [p \in Jobs |-> [t \in Types |-> {}]]
  /\ cursor = [p \in Jobs |-> 1]

\* Process p ends, whichever way, and has no memory.
End(p) ==
  /\ pc' = [pc EXCEPT ![p] = "idle"]
  /\ job' = [job EXCEPT ![p] = NoJob]
  /\ stage' = [stage EXCEPT ![p] = NoStages]
  /\ todo' = [todo EXCEPT ![p] = [t \in Types |-> {}]]
  /\ cursor' = [cursor EXCEPT ![p] = 1]
  /\ UNCHANGED <<stores, unswept>>

Deploy(s, u) ==
  /\ s >= code.silver /\ u >= code.upstream
  /\ code' = [silver |-> s, upstream |-> u]
  /\ code' # code
  /\ UNCHANGED <<sections, quarantine, copies, manifest, unswept, memory>>

\* The process dies, or an exception of a range job leaves main.
Crash(p) == pc[p] # "idle" /\ End(p)

-----------------------------------------------------------------------------
(* The start of a job, up to its batches.                                  *)

\* No lock keeps jobs apart: whether they meet on a day is up to operators.
Free(j) ==
  Overlapping \/ \A q \in Jobs : pc[q] # "idle" => DaysOf(job[q]) \cap DaysOf(j) = {}

Start(p, j) ==
  /\ pc[p] = "idle"
  /\ Free(j)
  /\ pc' = [pc EXCEPT ![p] = "envelope"]
  /\ job' = [job EXCEPT ![p] = j]
  /\ cursor' = [cursor EXCEPT ![p] = j.first]
  /\ UNCHANGED <<stores, unswept, stage, todo>>

StartRange(p, r, force) ==
  Start(p, [kind |-> "range", first |-> r[1], last |-> r[2], force |-> force,
            silver |-> code.silver, upstream |-> code.upstream])

\* _discover_notice_types_for_range: the types with a directory under bronze.
\* _discover_bronze_partitions: the types with a partition of the day.
Discovered(j) ==
  {t \in Types : \E d \in Days :
     Stored[<<t, d>>] # {} /\ (j.kind = "day" => d = j.first)}

\* A day without bronze partitions falls back to the raw file or raises.
StartDay(p, d) ==
  LET j == [kind |-> "day", first |-> d, last |-> d, force |-> FALSE,
            silver |-> code.silver, upstream |-> code.upstream]
  IN  Discovered(j) # {} /\ Start(p, j)

EnterBatches(p) ==
  /\ pc' = [pc EXCEPT ![p] = "batches"]
  /\ stage' = [stage EXCEPT ![p] =
                 [t \in Types |-> IF t \in Discovered(job[p]) THEN "waiting" ELSE "skipped"]]

\* Mutants: the last date is not deleted; other days are deleted, too.
DeleteEnvelopeMutant(p, ok) ==
  /\ pc[p] = "envelope"
  /\ copies' = [k \in Partition |->
                  IF ok /\ k[2] \in DaysOf(job[p]) \ {job[p].last} THEN 0 ELSE copies[k]]
  /\ Record(Envelope, {k \in JobPartitions(job[p]) : ok \/ copies[k] > 0}, ok)
  /\ IF job[p].kind = "range"
       THEN pc' = [pc EXCEPT ![p] = "quarantine"] /\ UNCHANGED stage
       ELSE EnterBatches(p)
  /\ UNCHANGED <<sections, quarantine, manifest, code, job, todo, cursor>>
DeleteEnvelopeDeletesAll(p, ok) ==
  /\ pc[p] = "envelope"
  /\ copies' = [k \in Partition |-> IF ok THEN 0 ELSE copies[k]]
  /\ Record(Envelope, {k \in JobPartitions(job[p]) : ok \/ copies[k] > 0}, ok)
  /\ IF job[p].kind = "range"
       THEN pc' = [pc EXCEPT ![p] = "quarantine"] /\ UNCHANGED stage
       ELSE EnterBatches(p)
  /\ UNCHANGED <<sections, quarantine, manifest, code, job, todo, cursor>>

\* A pre-delete that raises is logged and the job goes on; one that takes the
\* table for missing (_iceberg_table_exists) is not even logged.
DeleteEnvelope(p, ok) ==
  /\ pc[p] = "envelope"
  /\ copies' = [k \in Partition |->
                  IF ok /\ k[2] \in DaysOf(job[p]) THEN 0 ELSE copies[k]]
  /\ Record(Envelope, {k \in JobPartitions(job[p]) : ok \/ copies[k] > 0}, ok)
  /\ IF job[p].kind = "range"
       THEN pc' = [pc EXCEPT ![p] = "quarantine"] /\ UNCHANGED stage
       ELSE EnterBatches(p)
  /\ UNCHANGED <<sections, quarantine, manifest, code, job, todo, cursor>>

\* Mutant: the quarantine rows stay.
DeleteQuarantineMutant(p, ok) ==
  /\ pc[p] = "quarantine"
  /\ Record(Quarantine, {k \in JobPartitions(job[p]) : ok \/ quarantine[k] # {}}, ok)
  /\ EnterBatches(p)
  /\ UNCHANGED <<sections, quarantine, copies, manifest, code, job, todo, cursor>>

\* Only a range job deletes the quarantine rows of its days.
DeleteQuarantine(p, ok) ==
  /\ pc[p] = "quarantine"
  /\ quarantine' = [k \in Partition |->
                      IF ok /\ k[2] \in DaysOf(job[p]) THEN {} ELSE quarantine[k]]
  /\ Record(Quarantine, {k \in JobPartitions(job[p]) : ok \/ quarantine[k] # {}}, ok)
  /\ EnterBatches(p)
  /\ UNCHANGED <<sections, copies, manifest, code, job, todo, cursor>>

-----------------------------------------------------------------------------
(* The batches.                                                            *)

\* A range job runs one batch at a time, a day job up to BatchWorkers at once;
\* both take the types in order.
CanBegin(p, t) ==
  /\ pc[p] = "batches"
  /\ stage[p][t] = "waiting"
  /\ \A u \in Types : u < t => stage[p][u] # "waiting"
  /\ Cardinality({u \in Types : stage[p][u] \in Active})
       < IF job[p].kind = "range" THEN 1 ELSE BatchWorkers

SkipGuard(p, t) ==
  /\ job[p].kind = "range"
  /\ ~job[p].force
  /\ t \in Named
  /\ \A k \in PartitionsOf(t, job[p]) :
       IsAlreadyProcessed(manifest[k], RangeHash(job[p].silver), job[p].upstream)

GoTo(p, t, next) == stage' = [stage EXCEPT ![p][t] = next]

SkipType(p, t) ==
  /\ CanBegin(p, t)
  /\ SkipGuard(p, t)
  /\ GoTo(p, t, "skipped")
  /\ UNCHANGED <<stores, unswept, pc, job, todo, cursor>>

\* A range job first deletes the range from all tables of the type.
BeginBatch(p, t) ==
  /\ CanBegin(p, t)
  /\ ~SkipGuard(p, t)
  /\ GoTo(p, t, IF job[p].kind = "range" THEN "predelete" ELSE "sections")
  /\ todo' = [todo EXCEPT ![p][t] = ModelsOf(t)]
  /\ UNCHANGED <<stores, unswept, pc, job, cursor>>

\* Mutant: no pre-delete.
PredeleteTableMutant(p, t, m, ok) ==
  /\ stage[p][t] = "predelete"
  /\ m \in todo[p][t]
  /\ Record(m, {k \in PartitionsOf(t, job[p]) : ok \/ sections[m][k] # {}}, ok)
  /\ todo' = [todo EXCEPT ![p][t] = @ \ {m}]
  /\ UNCHANGED <<stores, pc, job, stage, cursor>>

\* _predelete_notice_type_range, one table after the other.  A table is passed
\* over without a word when SHOW TABLES raises (_iceberg_tables_in_namespace
\* lists none) or DESCRIBE does (_iceberg_table_exists takes it for missing).
PredeleteTable(p, t, m, ok) ==
  /\ stage[p][t] = "predelete"
  /\ m \in todo[p][t]
  /\ sections' = [sections EXCEPT ![m] =
                    [k \in Partition |->
                       IF ok /\ k \in PartitionsOf(t, job[p]) THEN {} ELSE @[k]]]
  /\ Record(m, {k \in PartitionsOf(t, job[p]) : ok \/ sections[m][k] # {}}, ok)
  /\ todo' = [todo EXCEPT ![p][t] = @ \ {m}]
  /\ UNCHANGED <<quarantine, copies, manifest, code, pc, job, stage, cursor>>

\* The batch is read and counted; without rows nothing is written.
ReadBatch(p, t) ==
  /\ stage[p][t] = "predelete"
  /\ todo[p][t] = {}
  /\ IF \A k \in PartitionsOf(t, job[p]) : Stored[k] = {}
       THEN /\ GoTo(p, t, IF t \in Named THEN "manifests" ELSE "done")
            /\ UNCHANGED todo
       ELSE /\ GoTo(p, t, "sections")
            /\ todo' = [todo EXCEPT ![p][t] = ModelsOf(t)]
  /\ UNCHANGED <<stores, unswept, pc, job, cursor>>

\* overwritePartitions: the date partitions the frame has rows for.
WriteSection(p, t, m) ==
  LET keys == {k \in PartitionsOf(t, job[p]) : Parsed(m, k, job[p].silver) # {}} IN
  /\ stage[p][t] = "sections"
  /\ m \in todo[p][t]
  /\ sections' = [sections EXCEPT ![m] =
                    [k \in Partition |->
                       IF k \in keys THEN Parsed(m, k, job[p].silver) ELSE @[k]]]
  /\ Record(m, keys, TRUE)
  /\ todo' = [todo EXCEPT ![p][t] = @ \ {m}]
  /\ UNCHANGED <<quarantine, copies, manifest, code, pc, job, stage, cursor>>

WriteQuarantine(p, t) ==
  LET keys == {k \in PartitionsOf(t, job[p]) :
                 t \in Named /\ ToQuarantine(k, job[p].silver) # {}} IN
  /\ stage[p][t] = "sections"
  /\ todo[p][t] = {}
  /\ quarantine' = [k \in Partition |->
                      IF k \in keys THEN ToQuarantine(k, job[p].silver) ELSE quarantine[k]]
  /\ Record(Quarantine, keys, TRUE)
  /\ GoTo(p, t, "append")
  /\ UNCHANGED <<sections, copies, manifest, code, pc, job, todo, cursor>>

AppendEnvelope(p, t) ==
  /\ stage[p][t] = "append"
  /\ \A k \in PartitionsOf(t, job[p]) : copies[k] < MaxCopies
  /\ copies' = [k \in Partition |->
                  IF k \in PartitionsOf(t, job[p]) /\ Stored[k] # {}
                    THEN copies[k] + 1 ELSE copies[k]]
  /\ GoTo(p, t, IF t \in Named THEN "manifests" ELSE "done")
  /\ UNCHANGED <<sections, quarantine, manifest, code, unswept, pc, job, todo, cursor>>

\* Mutant: the loop runs one date too far.
WriteRangeManifestMutant(p, t) ==
  /\ stage[p][t] = "manifests"
  /\ job[p].kind = "range"
  /\ manifest' = WriteProcessedManifest(manifest, <<t, cursor[p]>>,
                                        RangeHash(job[p].silver), job[p].upstream)
  /\ IF cursor[p] > job[p].last
       THEN GoTo(p, t, "done") /\ cursor' = [cursor EXCEPT ![p] = job[p].first]
       ELSE UNCHANGED stage /\ cursor' = [cursor EXCEPT ![p] = @ + 1]
  /\ UNCHANGED <<sections, quarantine, copies, code, unswept, pc, job, todo>>

\* A range job writes the manifests of its dates in turn.
WriteRangeManifest(p, t) ==
  /\ stage[p][t] = "manifests"
  /\ job[p].kind = "range"
  /\ manifest' = WriteProcessedManifest(manifest, <<t, cursor[p]>>,
                                        RangeHash(job[p].silver), job[p].upstream)
  /\ IF cursor[p] = job[p].last
       THEN GoTo(p, t, "done") /\ cursor' = [cursor EXCEPT ![p] = job[p].first]
       ELSE UNCHANGED stage /\ cursor' = [cursor EXCEPT ![p] = @ + 1]
  /\ UNCHANGED <<sections, quarantine, copies, code, unswept, pc, job, todo>>

WriteDayManifest(p, t) ==
  /\ stage[p][t] = "manifests"
  /\ job[p].kind = "day"
  /\ manifest' = WriteProcessedManifest(manifest, <<t, job[p].first>>,
                                        DayHash(job[p].silver), NoDeps)
  /\ GoTo(p, t, "done")
  /\ UNCHANGED <<sections, quarantine, copies, code, unswept, pc, job, todo, cursor>>

\* The executor of a day job finishes the other batches before it raises.
FailBatch(p, t) ==
  /\ stage[p][t] \in Active
  /\ job[p].kind = "day"
  /\ GoTo(p, t, "failed")
  /\ todo' = [todo EXCEPT ![p][t] = {}]
  /\ UNCHANGED <<stores, unswept, pc, job, cursor>>

Exit(p) ==
  /\ pc[p] = "batches"
  /\ \A t \in Types : stage[p][t] \in Ended
  /\ End(p)

-----------------------------------------------------------------------------
Begin(p) ==
  \/ \E r \in Ranges, force \in ForceFlags : StartRange(p, r, force)
  \/ \E d \in Days : StartDay(p, d)
  \/ \E ok \in Outcomes(Envelope) : DeleteEnvelope(p, ok)
  \/ \E ok \in Outcomes(Quarantine) : DeleteQuarantine(p, ok)

Batch(p, t) ==
  \/ SkipType(p, t)
  \/ BeginBatch(p, t)
  \/ \E m \in Models :
       \/ \E ok \in Outcomes(m) : PredeleteTable(p, t, m, ok)
       \/ WriteSection(p, t, m)
  \/ ReadBatch(p, t)
  \/ WriteQuarantine(p, t)
  \/ AppendEnvelope(p, t)
  \/ WriteRangeManifest(p, t)
  \/ WriteDayManifest(p, t)
  \/ FailBatch(p, t)

Next ==
  \/ \E s, u \in Versions : Deploy(s, u)
  \/ \E p \in Jobs :
       \/ Crash(p)
       \/ Begin(p)
       \/ \E t \in Types : Batch(p, t)
       \/ Exit(p)

Spec == Init /\ [][Next]_vars

-----------------------------------------------------------------------------
(***************************************************************************)
(* Properties.                                                             *)
(***************************************************************************)
\* The types of the variables.
TypeOK ==
  /\ sections \in [Models -> [Partition -> SUBSET (Ids \X Versions)]]
  /\ quarantine \in [Partition -> SUBSET Ids]
  /\ copies \in [Partition -> 0 .. MaxCopies]
  /\ manifest \in [Partition -> Manifest]
  /\ code \in [silver : Versions, upstream : Versions]
  /\ unswept \in [Partition -> SUBSET (Models \cup {Envelope, Quarantine})]
  /\ pc \in [Jobs -> {"idle", "envelope", "quarantine", "batches"}]
  /\ job \in [Jobs -> Job]
  /\ stage \in [Jobs -> [Types -> {"waiting"} \cup Active \cup Ended]]
  /\ todo \in [Jobs -> [Types -> SUBSET Models]]
  /\ cursor \in [Jobs -> Days]
  /\ \A p \in Jobs : cursor[p] \in DaysOf(job[p])

\* What a table may hold of earlier runs in a partition: nothing, unless its last
\* pre-delete was swallowed and the run had no rows to replace the partition by.
LeftOver(table, k, rows) == table \in unswept[k] /\ rows = {}

\* A range that a range job would skip for a notice type holds in each section
\* table exactly the rows the deployed code makes: no crash between
\* _predelete_notice_type_range and the last manifest (pipeline_orchestrator.py:
\* 1013-1085), and no day job in between, leaves it skipped and incomplete.  Only
\* a partition that is to be empty may hold older rows, where the pre-delete was
\* swallowed (185-191, 269-274): every other one is written whole.
SkippableRangeIsCurrent ==
  \A t \in Named : \A r \in Ranges :
    LET partitions == {t} \X (r[1] .. r[2]) IN
    (\A k \in partitions : Match(k)) =>
      \A m \in ModelsOf(t) : \A k \in partitions :
        LET rows == Parsed(m, k, code.silver) IN sections[m][k] = rows \/ LeftOver(m, k, rows)

\* The envelope never holds a notice twice: the pre-delete of a run and the
\* appends of its batches (pipeline_orchestrator.py:573, 638-647, 925-936)
\* survive crashes, failed batches and re-runs.  Only a swallowed pre-delete can
\* double it, and the next one that deletes takes the copies away again.
EnvelopeHasNoDuplicates ==
  \A k \in Partition : Envelope \in unswept[k] \/ copies[k] <= 1

\* When a job has built a notice type, each of the type's notices on its days is
\* in the envelope, once unless the pre-delete was swallowed, and is in the core
\* table or in quarantine, whatever other jobs and batches do meanwhile
\* (pipeline_orchestrator.py:534-573).
BuiltTypeIsAccounted ==
  \A p \in Jobs : \A t \in Types : stage[p][t] = "done" =>
    \A k \in PartitionsOf(t, job[p]) :
      /\ Stored[k] # {} => copies[k] = 1 \/ (Envelope \in unswept[k] /\ copies[k] > 1)
      /\ t \in Named =>
           \A i \in Stored[k] :
             <<i, job[p].silver>> \in sections[Core][k] \/ i \in quarantine[k]

\* When a range job has built a notice type, neither its section tables nor its
\* quarantine hold anything of an earlier run (pipeline_orchestrator.py:937-946
\* and 1013), but in partitions that are to be empty and whose pre-delete was
\* swallowed: what a run writes replaces what a swallowed pre-delete left.
RangeBuildLeavesNothingStale ==
  \A p \in Jobs : \A t \in Named : stage[p][t] = "done" /\ job[p].kind = "range" =>
    \A k \in PartitionsOf(t, job[p]) :
      LET flagged == ToQuarantine(k, job[p].silver) IN
      /\ quarantine[k] = flagged \/ LeftOver(Quarantine, k, flagged)
      /\ \A m \in ModelsOf(t) :
           LET rows == Parsed(m, k, job[p].silver) IN
           sections[m][k] = rows \/ LeftOver(m, k, rows)

\* pipeline_orchestrator.py:895-896, "On re-runs only batches whose manifest is
\* absent or stale are reprocessed": when no job runs, a range that will be
\* skipped for a type has the type's notices in the envelope.
SkippableRangeIsInEnvelope ==
  (\A p \in Jobs : pc[p] = "idle") =>
    \A t \in Named : \A r \in Ranges :
      LET partitions == {t} \X (r[1] .. r[2]) IN
      (\A k \in partitions : Match(k)) =>
        \A k \in partitions : Stored[k] # {} => copies[k] = 1
=============================================================================
