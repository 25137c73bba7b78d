------------------------------- MODULE Bronze --------------------------------
(***************************************************************************)
(* The bronze layer: scripts/pipeline/build_bronze.py (one date) and       *)
(* build_bronze_range.py (a range, chunk by chunk) turn the raw file of a  *)
(* day into the bronze partitions (notice type, day), validate and         *)
(* deduplicate the notices by objectId, and leave a manifest per day that  *)
(* later range runs use to skip the day.                                   *)
(*                                                                         *)
(* A raw file may be there or not at any time: it is fetched some time     *)
(* after its day and deleted by the retention policy of its bucket, so     *)
(* whether a job finds it is left open.                                    *)
(*                                                                         *)
(* One job runs at a time.  A job may die between any two steps; what it   *)
(* wrote stays, what it held in memory is gone.  New code may be deployed  *)
(* at any time; a running job keeps the hashes it computed when it began.  *)
(***************************************************************************)
EXTENDS Integers

CONSTANTS
  LastDay,      \* days are the numbers 1 .. LastDay, in calendar order
  Ids,          \* objectIds
  Types,        \* notice types
  TypeOf,       \* the notice type of an objectId
  Published,    \* the objectIds in the raw file of a day
  MaxVersion,   \* bound on the versions of the code deployed
  Valid,        \* the objectIds that pass validate_raw in a bronze code version
  ChunkDays,    \* --chunk-days
  ForceFlags,   \* the values of --force that operators use
  ScanOutcomes, \* whether a scan of bronze succeeds (TRUE) or raises (FALSE)
  NoManifest

Days == 1 .. LastDay
Versions == 0 .. MaxVersion

ASSUME ConstantsAssumption ==
  /\ LastDay \in Nat \ {0}
  /\ MaxVersion \in Nat
  /\ ChunkDays \in Nat \ {0}
  /\ TypeOf \in [Ids -> Types]
  /\ Published \in [Days -> SUBSET Ids]
  /\ Valid \in [Versions -> SUBSET Ids]
  /\ ForceFlags \subseteq BOOLEAN
  /\ ScanOutcomes \subseteq BOOLEAN

\* A script hash covers the entry point and the bronze package; the mapping
\* dependency_hashes of a range run holds the hash of the fetch stage, the
\* daily script passes none (NoDeps).
Hashes == [entry : {"range", "day"}, bronze : Versions]
NoDeps == -1
Deps == Versions \cup {NoDeps}

ASSUME NoManifestAssumption == NoManifest \notin [script : Hashes, deps : Deps]

INSTANCE Manifests

VARIABLES
  bronze,     \* bronze[d]: the objectIds in the bronze partitions of day d
  errors,     \* errors[d]: the objectIds in the validation error file of d
  manifest,   \* manifest[d]: the bronze manifest of day d
  code        \* the deployed versions of the bronze and the fetch code

stores == <<bronze, errors, manifest, code>>

VARIABLES
  pc,         \* where the running job is ("idle": no job)
  job,        \* its kind, arguments and hashes
  cursor,     \* the next date of its date loop
  seen,       \* seen_ids of a range run
  prepared,   \* the dates prepared and not finalized
  rows,       \* rows[d]: valid_rows of a prepared date
  errs,       \* errs[d]: its validation errors
  todo,       \* the partitions still to delete, then to write
  built,      \* the dates this job finalized
  blind       \* the dates whose bronze ids this job did not get to see

memory == <<pc, job, cursor, seen, prepared, rows, errs, todo, built, blind>>
vars == <<stores, memory>>

Job == [kind : {"range", "day"}, first : Days, last : Days, force : BOOLEAN,
        bronze : Versions, fetch : Versions]

Partition == Types \X Days
InPartition(ids, t) == {i \in ids : TypeOf[i] = t}
PartitionsOf(data, days) ==
  {p \in Partition : p[2] \in days /\ InPartition(data[p[2]], p[1]) # {}}

RangeHash(version) == [entry |-> "range", bronze |-> version]
DayHash(version) == [entry |-> "day", bronze |-> version]

\* What is_already_processed answers a range run of the deployed code.
Match(d) == IsAlreadyProcessed(manifest[d], RangeHash(code.bronze), code.fetch)

\* The ids of a raw file that pass the dedup filter, given the ids seen on
\* other days; then those that also pass validation, and those that fail.
ApplyDedupFilter(ids, ids_seen_other_day) == ids \ ids_seen_other_day
ValidRows(d, ids_seen_other_day, version) ==
  ApplyDedupFilter(Published[d], ids_seen_other_day) \cap Valid[version]
InvalidRows(d, ids_seen_other_day, version) ==
  ApplyDedupFilter(Published[d], ids_seen_other_day) \ Valid[version]

NoRows == [d \in Days |-> {}]

-----------------------------------------------------------------------------
Idle == pc = "idle"

NoJob == [kind |-> "range", first |-> 1, last |-> 1, force |-> FALSE,
          bronze |-> 0, fetch |-> 0]

Init ==
  /\ bronze = NoRows
  /\ errors = NoRows
  /\ manifest = [d \in Days |-> NoManifest]
  /\ code = [bronze |-> 0, fetch |-> 0]
  /\ pc = "idle" /\ job = NoJob /\ cursor = 1
  /\ seen = {} /\ prepared = {} /\ rows = NoRows /\ errs = NoRows
  /\ todo = {} /\ built = {} /\ blind = {}

\* A process that ended, whichever way, has no memory.
NoMemory ==
  /\ pc' = "idle" /\ job' = NoJob /\ cursor' = 1
  /\ seen' = {} /\ prepared' = {} /\ rows' = NoRows /\ errs' = NoRows
  /\ todo' = {} /\ built' = {} /\ blind' = {}

(***************************************************************************)
(* What happens around the jobs.                                           *)
(***************************************************************************)
\* A deployment replaces the bronze code, the fetch code or both by code that
\* never ran before.
Deploy(b, f) ==
  /\ b >= code.bronze /\ f >= code.fetch
  /\ code' = [bronze |-> b, fetch |-> f]
  /\ code' # code
  /\ UNCHANGED <<bronze, errors, manifest, memory>>

\* The process dies (or an exception leaves main): its memory is gone.
Crash ==
  /\ ~Idle
  /\ NoMemory
  /\ UNCHANGED stores

(***************************************************************************)
(* build_bronze_range.py                                                   *)
(***************************************************************************)
\* _chunks: the chunk of the date d ends when d is the last date, or when the
\* number of dates before its successor is a multiple of ChunkDays.
EndsChunk(d) ==
  \/ d = job.last
  \/ (d + 1 - job.first) % ChunkDays = 0

\* _collect_pre_range_object_ids and _collect_object_ids_for_date: a scan
\* that raises is taken for an empty table, and the job is blind to the days
\* it would have read.
Scan(days, ok) == IF ok THEN UNION {bronze[d] : d \in days} ELSE {}
Unseen(days, ok) == IF ok THEN {} ELSE days

DaysBeforeMutant(first) == {d \in Days : d <= first}
DaysBefore(first) == {d \in Days : d < first}

StartRange(first, last, force, ok) ==
  /\ Idle
  /\ first <= last
  /\ pc' = "prepare"
  /\ job' = [kind |-> "range", first |-> first, last |-> last, force |-> force,
             bronze |-> code.bronze, fetch |-> code.fetch]
  /\ cursor' = first
  /\ seen' = Scan(DaysBefore(first), ok)
  /\ blind' = Unseen(DaysBefore(first), ok)
  /\ built' = {}
  /\ UNCHANGED <<stores, prepared, rows, errs, todo>>

\* Mutants: the loop runs one date too far; the whole chunk is deleted.
AdvanceCursorMutant ==
  /\ cursor' = cursor + 1
  /\ IF EndsChunk(cursor) /\ prepared' # {}
       THEN pc' = "delete" /\ todo' = Types \X prepared'
       ELSE /\ pc' = IF cursor > job.last THEN "done" ELSE "prepare"
            /\ todo' = {}
AdvanceCursorDeletesChunk ==
  /\ cursor' = cursor + 1
  /\ IF EndsChunk(cursor) /\ prepared' # {}
       THEN pc' = "delete" /\ todo' = Types \X (job.first .. cursor)
       ELSE /\ pc' = IF cursor = job.last THEN "done" ELSE "prepare"
            /\ todo' = {}

\* Once the date loop is done with the cursor's date it goes to the next date
\* of the chunk, to the chunk's writes, or past a chunk with nothing prepared.
\* After the last chunk pc is "done".
AdvanceCursor ==
  /\ cursor' = cursor + 1
  /\ IF EndsChunk(cursor) /\ prepared' # {}
       THEN pc' = "delete" /\ todo' = Types \X prepared'
       ELSE /\ pc' = IF cursor = job.last THEN "done" ELSE "prepare"
            /\ todo' = {}

SkipGuard ==
  /\ ~job.force
  /\ IsAlreadyProcessed(manifest[cursor], RangeHash(job.bronze), job.fetch)

\* Mutant: a skipped date does not contribute to seen_ids.
SkipDateMutant(ok) ==
  /\ pc = "prepare"
  /\ SkipGuard
  /\ UNCHANGED <<stores, job, seen, blind, prepared, rows, errs, built>>
  /\ AdvanceCursor

SkipDate(ok) ==
  /\ pc = "prepare"
  /\ SkipGuard
  /\ seen' = seen \cup Scan({cursor}, ok)
  /\ blind' = blind \cup Unseen({cursor}, ok)
  /\ UNCHANGED <<stores, job, prepared, rows, errs, built>>
  /\ AdvanceCursor

\* _prepare_date returns None: the loop continues with the next date and
\* does not look at the rows bronze already has for this one.
NoRawFile ==
  /\ pc = "prepare"
  /\ ~SkipGuard
  /\ blind' = blind \cup {cursor}
  /\ UNCHANGED <<stores, job, seen, prepared, rows, errs, built>>
  /\ AdvanceCursor

PrepareDate ==
  /\ pc = "prepare"
  /\ ~SkipGuard
  /\ rows' = [rows EXCEPT ![cursor] = ValidRows(cursor, seen, job.bronze)]
  /\ errs' = [errs EXCEPT ![cursor] = InvalidRows(cursor, seen, job.bronze)]
  /\ seen' = seen \cup ValidRows(cursor, seen, job.bronze)
  /\ prepared' = prepared \cup {cursor}
  /\ UNCHANGED <<stores, job, built, blind>>
  /\ AdvanceCursor

\* Mutant: no pre-delete.
DeletePartitionMutant(t, d) ==
  /\ pc = "delete"
  /\ <<t, d>> \in todo
  /\ todo' = todo \ {<<t, d>>}
  /\ UNCHANGED <<bronze, errors, manifest, code, pc, job, cursor, seen, prepared,
                 rows, errs, built, blind>>

\* _delete_bronze_date_partitions: one directory after the other.
DeletePartition(t, d) ==
  /\ pc = "delete"
  /\ <<t, d>> \in todo
  /\ bronze' = [bronze EXCEPT ![d] = @ \ InPartition(@, t)]
  /\ todo' = todo \ {<<t, d>>}
  /\ UNCHANGED <<errors, manifest, code, pc, job, cursor, seen, prepared,
                 rows, errs, built, blind>>

StartWrite ==
  /\ pc = "delete"
  /\ todo = {}
  /\ pc' = "write"
  /\ todo' = PartitionsOf(rows, prepared)
  /\ UNCHANGED <<stores, job, cursor, seen, prepared, rows, errs, built, blind>>

\* The dynamic partition overwrite of _write_chunk and of build_bronze.main:
\* Spark replaces the partitions that the frame has rows for, one after the
\* other, and leaves all others alone.
OverwritePartition(t, d) ==
  /\ pc = "write"
  /\ <<t, d>> \in todo
  /\ bronze' = [bronze EXCEPT
                  ![d] = (@ \ InPartition(@, t)) \cup InPartition(rows[d], t)]
  /\ todo' = todo \ {<<t, d>>}
  /\ UNCHANGED <<errors, manifest, code, pc, job, cursor, seen, prepared,
                 rows, errs, built, blind>>

EndWrite ==
  /\ pc = "write"
  /\ todo = {}
  /\ pc' = "finalize"
  /\ UNCHANGED <<stores, job, cursor, seen, prepared, rows, errs, todo, built,
                 blind>>

\* _write_errors is called only when there are errors: an earlier error file
\* of the day stays when there are none.
WriteErrors(d) ==
  errors' = IF errs[d] # {} THEN [errors EXCEPT ![d] = errs[d]] ELSE errors

FinalizeDate(d) ==
  /\ pc = "finalize"
  /\ job.kind = "range"
  /\ d \in prepared
  /\ \A e \in prepared : d <= e
  /\ WriteErrors(d)
  /\ manifest' = WriteProcessedManifest(manifest, d, RangeHash(job.bronze),
                                        job.fetch)
  /\ prepared' = prepared \ {d}
  /\ built' = built \cup {d}
  /\ UNCHANGED <<bronze, code, pc, job, cursor, seen, rows, errs, todo,
                 blind>>

EndChunk ==
  /\ pc = "finalize"
  /\ prepared = {}
  /\ pc' = IF cursor > job.last THEN "done" ELSE "prepare"
  /\ rows' = NoRows
  /\ errs' = NoRows
  /\ UNCHANGED <<stores, job, cursor, seen, prepared, todo, built, blind>>

Exit ==
  /\ pc = "done"
  /\ NoMemory
  /\ UNCHANGED stores

(***************************************************************************)
(* build_bronze.py: no manifest check, no pre-delete, the ids of all other *)
(* days are seen, and the manifest has no dependency hashes.  Without a    *)
(* raw file the script exits before it changes anything.                   *)
(***************************************************************************)
StartDay(d, ok) ==
  /\ Idle
  /\ job' = [kind |-> "day", first |-> d, last |-> d, force |-> FALSE,
             bronze |-> code.bronze, fetch |-> code.fetch]
  /\ cursor' = d + 1
  /\ seen' = Scan(Days \ {d}, ok)
  /\ blind' = Unseen(Days \ {d}, ok)
  /\ prepared' = {d}
  /\ rows' = [NoRows EXCEPT ![d] = ValidRows(d, seen', code.bronze)]
  /\ errs' = [NoRows EXCEPT ![d] = InvalidRows(d, seen', code.bronze)]
  /\ pc' = "write"
  /\ todo' = PartitionsOf(rows', {d})
  /\ built' = {}
  /\ UNCHANGED stores

FinalizeDay(d) ==
  /\ pc = "finalize"
  /\ job.kind = "day"
  /\ d \in prepared
  /\ WriteErrors(d)
  /\ manifest' = WriteProcessedManifest(manifest, d, DayHash(job.bronze), NoDeps)
  /\ prepared' = {}
  /\ built' = {d}
  /\ UNCHANGED <<bronze, code, pc, job, cursor, seen, rows, errs, todo,
                 blind>>

-----------------------------------------------------------------------------
Environment ==
  \/ \E b, f \in Versions : Deploy(b, f)
  \/ Crash

Start ==
  \E ok \in ScanOutcomes :
    \/ \E first, last \in Days, force \in ForceFlags :
         StartRange(first, last, force, ok)
    \/ \E d \in Days : StartDay(d, ok)

Step ==
  \/ \E ok \in ScanOutcomes : SkipDate(ok)
  \/ NoRawFile
  \/ PrepareDate
  \/ \E t \in Types, d \in Days : DeletePartition(t, d) \/ OverwritePartition(t, d)
  \/ StartWrite
  \/ EndWrite
  \/ \E d \in Days : FinalizeDate(d) \/ FinalizeDay(d)
  \/ EndChunk
  \/ Exit

Next == Environment \/ Start \/ Step

Spec == Init /\ [][Next]_vars

-----------------------------------------------------------------------------
(***************************************************************************)
(* Properties.                                                             *)
(***************************************************************************)
\* The types of the variables.
TypeOK ==
  /\ bronze \in [Days -> SUBSET Ids]
  /\ errors \in [Days -> SUBSET Ids]
  /\ manifest \in [Days -> Manifest]
  /\ code \in [bronze : Versions, fetch : Versions]
  /\ pc \in {"idle", "prepare", "delete", "write", "finalize", "done"}
  /\ job \in Job
  /\ cursor \in job.first .. job.last + 1
  /\ pc = "prepare" => cursor <= job.last
  /\ seen \subseteq Ids
  /\ prepared \subseteq Days
  /\ rows \in [Days -> SUBSET Ids]
  /\ errs \in [Days -> SUBSET Ids]
  /\ todo \subseteq Partition
  /\ built \subseteq Days
  /\ blind \subseteq Days

\* Every notice of a day that later range runs will skip is accounted for: it
\* is stored on some day, or its validation error is on file, or some day
\* that published it is still to be rebuilt.  Deleting the partitions of a day
\* before writing them (build_bronze_range.py:448) is safe only because of this.
Accounted(i) ==
  \E e \in Days : i \in bronze[e] \/ i \in errors[e] \/ (i \in Published[e] /\ ~Match(e))
NoticeStoredOrDue == \A d \in Days : \A i \in Published[d] : Accounted(i)

\* A day whose manifest matches the deployed code holds only rows that this
\* code accepts, whatever older code had left in its partitions: the purpose of
\* _delete_bronze_date_partitions (build_bronze_range.py:238).
MatchedDayIsCurrent ==
  \A d \in Days : Match(d) => bronze[d] \subseteq (Published[d] \cap Valid[code.bronze])

\* A date that a range run has finished shares no objectId with an earlier day,
\* unless the run never saw that day's ids: the running seen-set
\* (build_bronze_range.py:382) replaces the scan of the daily script.
FirstDayKeepsNotice ==
  job.kind = "range" =>
    \A d \in built : \A e \in Days \ blind :
      e < d => bronze[e] \cap bronze[d] = {}

\* A range run without --force changes no partition of a day whose manifest
\* matches: skipping (build_bronze_range.py:407) leaves the day untouched.
SkippedDayUntouched ==
  [][\A d \in Days :
       Match(d) /\ job.kind = "range" => bronze'[d] = bronze[d]]_vars

\* docs/runbooks/OPERATING_MODES.md:94, "interrupted runs resume from where they
\* left off": between two jobs no notice of a day that will be skipped is lost.
InterruptedRunResumes == Idle => NoticeStoredOrDue
=============================================================================
