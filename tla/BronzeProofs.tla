---------------------------- MODULE BronzeProofs -----------------------------
(***************************************************************************)
(* Proofs about Bronze for every number of days, set of notices, chunk     *)
(* size and number of versions.                                            *)
(***************************************************************************)
EXTENDS Bronze, TLAPS

USE ConstantsAssumption, NoManifestAssumption
USE DEF Days, Versions

-----------------------------------------------------------------------------
(* Type correctness.                                                       *)

LEMMA TypeInit == Init => TypeOK
BY DEF Init, TypeOK, NoRows, NoJob, Job, Manifest, Partition

\* Saying where the date loop goes next keeps the control variables in range.
LEMMA TypeAdvance ==
  ASSUME TypeOK, pc = "prepare", AdvanceCursor, prepared' \subseteq Days,
         job' = job
  PROVE  /\ cursor' \in job'.first .. job'.last + 1
         /\ pc' \in {"prepare", "delete", "done"}
         /\ pc' = "prepare" => cursor' <= job'.last
         /\ todo' \subseteq Partition
<1>1. /\ job.first \in Int /\ job.last \in Int /\ cursor \in Int
      /\ job.first <= cursor /\ cursor <= job.last
  BY DEF TypeOK, Job
<1>2. todo' \subseteq Partition
  <2>1. todo' = Types \X prepared' \/ todo' = {}
    BY Zenon DEF AdvanceCursor
  <2> QED
    BY <2>1 DEF Partition
<1>3. cursor' = cursor + 1
  BY DEF AdvanceCursor
<1>4. pc' \in {"prepare", "delete", "done"} /\ (pc' = "prepare" => cursor # job.last)
  BY DEF AdvanceCursor
<1> QED
  BY <1>1, <1>2, <1>3, <1>4

LEMMA TypeNext == TypeOK /\ [Next]_vars => TypeOK'
<1> SUFFICES ASSUME TypeOK, [Next]_vars PROVE TypeOK'
  OBVIOUS
<1>1. ASSUME NEW b \in Versions, NEW f \in Versions, Deploy(b, f) PROVE TypeOK'
  BY <1>1 DEF TypeOK, Deploy, memory
<1>2. CASE Crash
  BY <1>2 DEF TypeOK, Crash, NoMemory, NoJob, NoRows, stores, Job
<1>3. ASSUME NEW first \in Days, NEW last \in Days, NEW force \in ForceFlags,
             NEW ok \in ScanOutcomes, StartRange(first, last, force, ok)
      PROVE  TypeOK'
  <2>1. Scan(DaysBefore(first), ok) \subseteq Ids
    BY DEF Scan, DaysBefore, TypeOK
  <2>2. Unseen(DaysBefore(first), ok) \subseteq Days
    BY DEF Unseen, DaysBefore
  <2> QED
    BY <1>3, <2>1, <2>2 DEF TypeOK, StartRange, stores, Job
<1>4. ASSUME NEW d \in Days, NEW ok \in ScanOutcomes, StartDay(d, ok) PROVE TypeOK'
  <2>1. Scan(Days \ {d}, ok) \subseteq Ids /\ Unseen(Days \ {d}, ok) \subseteq Days
    BY DEF Scan, Unseen, TypeOK
  <2>2. /\ ValidRows(d, seen', code.bronze) \subseteq Ids
        /\ InvalidRows(d, seen', code.bronze) \subseteq Ids
    BY DEF ValidRows, InvalidRows, ApplyDedupFilter, TypeOK
  <2>3. PartitionsOf(rows', {d}) \subseteq Partition
    BY DEF PartitionsOf, Partition
  <2> QED
    <3>1. job' \in Job /\ cursor' \in job'.first .. job'.last + 1
      BY <1>4 DEF TypeOK, StartDay, Job
    <3>2. rows' \in [Days -> SUBSET Ids] /\ errs' \in [Days -> SUBSET Ids]
      BY <1>4, <2>2 DEF StartDay, NoRows
    <3> QED
      BY <1>4, <2>1, <2>3, <3>1, <3>2 DEF TypeOK, StartDay, stores
<1>5. ASSUME NEW ok \in ScanOutcomes, SkipDate(ok) PROVE TypeOK'
  <2>1. Scan({cursor}, ok) \subseteq Ids /\ Unseen({cursor}, ok) \subseteq Days
    BY <1>5 DEF Scan, Unseen, TypeOK, SkipDate, Job
  <2>2. prepared' \subseteq Days /\ job' = job /\ pc = "prepare" /\ AdvanceCursor
    BY <1>5 DEF SkipDate, TypeOK
  <2>3. /\ cursor' \in job'.first .. job'.last + 1
        /\ pc' \in {"prepare", "delete", "done"}
        /\ pc' = "prepare" => cursor' <= job'.last
        /\ todo' \subseteq Partition
    BY <2>2, TypeAdvance
  <2>4. seen' \subseteq Ids /\ blind' \subseteq Days
    BY <1>5, <2>1 DEF TypeOK, SkipDate
  <2>5. UNCHANGED <<bronze, errors, manifest, code, job, prepared, rows, errs, built>>
    BY <1>5 DEF SkipDate, stores
  <2>6. /\ bronze' \in [Days -> SUBSET Ids] /\ errors' \in [Days -> SUBSET Ids]
        /\ manifest' \in [Days -> Manifest] /\ code' \in [bronze : Versions, fetch : Versions]
        /\ job' \in Job /\ prepared' \subseteq Days /\ built' \subseteq Days
        /\ rows' \in [Days -> SUBSET Ids] /\ errs' \in [Days -> SUBSET Ids]
    BY <2>5 DEF TypeOK
  <2> QED
    BY <2>3, <2>4, <2>6 DEF TypeOK
<1>6. CASE NoRawFile
  <2>1. prepared' \subseteq Days /\ job' = job /\ pc = "prepare" /\ AdvanceCursor
    BY <1>6 DEF NoRawFile, TypeOK
  <2>2. /\ cursor' \in job'.first .. job'.last + 1
        /\ pc' \in {"prepare", "delete", "done"}
        /\ pc' = "prepare" => cursor' <= job'.last
        /\ todo' \subseteq Partition
    BY <2>1, TypeAdvance
  <2>3. blind' \subseteq Days
    BY <1>6 DEF TypeOK, NoRawFile, Job
  <2>4. UNCHANGED <<bronze, errors, manifest, code, job, seen, prepared, rows, errs, built>>
    BY <1>6 DEF NoRawFile, stores
  <2> QED
    BY <2>2, <2>3, <2>4 DEF TypeOK
<1>7. CASE PrepareDate
  <2>1. cursor \in Days
    BY <1>7 DEF PrepareDate, TypeOK, Job
  <2>2. /\ ValidRows(cursor, seen, job.bronze) \subseteq Ids
        /\ InvalidRows(cursor, seen, job.bronze) \subseteq Ids
    BY <2>1 DEF ValidRows, InvalidRows, ApplyDedupFilter, TypeOK, Job
  <2>3. prepared' \subseteq Days
    BY <1>7, <2>1 DEF PrepareDate, TypeOK
  <2> QED
    BY <1>7, <2>1, <2>2, <2>3, TypeAdvance DEF TypeOK, PrepareDate, stores
<1>8. ASSUME NEW t \in Types, NEW d \in Days, DeletePartition(t, d) PROVE TypeOK'
  BY <1>8 DEF TypeOK, DeletePartition
<1>9. ASSUME NEW t \in Types, NEW d \in Days, OverwritePartition(t, d) PROVE TypeOK'
  <2>1. InPartition(rows[d], t) \subseteq Ids
    BY DEF InPartition, TypeOK
  <2> QED
    BY <1>9, <2>1 DEF TypeOK, OverwritePartition
<1>10. CASE StartWrite
  BY <1>10 DEF TypeOK, StartWrite, stores, PartitionsOf
<1>11. CASE EndWrite
  BY <1>11 DEF TypeOK, EndWrite, stores
<1>12. ASSUME NEW d \in Days, FinalizeDate(d) PROVE TypeOK'
  BY <1>12 DEF TypeOK, FinalizeDate, WriteErrors, WriteProcessedManifest,
               RangeHash, Manifest, Hashes, Deps, Job
<1>13. ASSUME NEW d \in Days, FinalizeDay(d) PROVE TypeOK'
  BY <1>13 DEF TypeOK, FinalizeDay, WriteErrors, WriteProcessedManifest,
               DayHash, Manifest, Hashes, Deps, Job
<1>14. CASE EndChunk
  BY <1>14 DEF TypeOK, EndChunk, stores, NoRows, Job
<1>15. CASE Exit
  BY <1>15 DEF TypeOK, Exit, NoMemory, NoJob, NoRows, stores, Job
<1>16. CASE UNCHANGED vars
  BY <1>16 DEF TypeOK, vars, stores, memory
<1> QED
  BY <1>1, <1>2, <1>3, <1>4, <1>5, <1>6, <1>7, <1>8, <1>9, <1>10, <1>11, <1>12,
     <1>13, <1>14, <1>15, <1>16 DEF Next, Environment, Start, Step

\* The variables of the bronze jobs keep their types: the date loop never runs
\* past the range's last date (build_bronze_range.py:392-437).
THEOREM TypeCorrect == Spec => []TypeOK
BY TypeInit, TypeNext, PTL DEF Spec

-----------------------------------------------------------------------------
(***************************************************************************)
(* The inductive invariant.  While a job runs,                             *)
(*   Control     says which dates and partitions it holds in each phase,   *)
(*   Versioning  that no manifest is newer than the job's code, and that   *)
(*               the dates a range run prepared have no matching manifest, *)
(*   Contents    that days hold notices they published,                    *)
(*   Writing     how far the partitions of the prepared dates are written, *)
(*   SeenIsHeld  that each id the job dropped, or would drop, as seen is   *)
(*               stored on another day or about to be written.             *)
(***************************************************************************)
Control ==
  /\ pc \in {"idle", "done"} => prepared = {}
  /\ pc \notin {"delete", "write"} => todo = {}
  /\ \A p \in todo : p[2] \in prepared
  /\ pc \in {"prepare", "delete"} => job.kind = "range"
  /\ job.kind = "range" => \A d \in prepared : d < cursor
  /\ job.kind = "day" => cursor > job.last /\ \A d, e \in prepared : d = e

ManifestsUpTo(b, f) ==
  \A d \in Days :
    manifest[d] # NoManifest => manifest[d].script.bronze <= b /\ manifest[d].deps <= f

Versioning ==
  /\ ~job.force
  /\ job.bronze <= code.bronze /\ job.fetch <= code.fetch
  /\ ManifestsUpTo(code.bronze, code.fetch)
  /\ pc # "idle" => ManifestsUpTo(job.bronze, job.fetch)
  /\ job.kind = "range" =>
       \A d \in prepared :
         ~IsAlreadyProcessed(manifest[d], RangeHash(job.bronze), job.fetch)

Contents ==
  /\ \A d \in Days : bronze[d] \subseteq Published[d] /\ errors[d] \subseteq Published[d]
  /\ \A d \in prepared : /\ rows[d] \subseteq Published[d] \cap Valid[job.bronze]
                         /\ errs[d] \subseteq Published[d] \ Valid[job.bronze]

Writing ==
  /\ pc = "delete" => \A d \in prepared : \A i \in bronze[d] : <<TypeOf[i], d>> \in todo
  /\ pc \in {"write", "finalize"} =>
       \A d \in prepared :
         /\ job.kind = "range" => bronze[d] \subseteq rows[d]
         /\ \A i \in rows[d] : i \in bronze[d] \/ <<TypeOf[i], d>> \in todo

HeldOn(i, e) ==
  /\ job.kind = "range" => e < cursor
  /\ IF e \in prepared THEN i \in rows[e] ELSE i \in bronze[e]

SeenIsHeld ==
  /\ \A i \in seen : \E e \in Days : HeldOn(i, e)
  /\ \A d \in prepared : \A i \in Published[d] : i \in rows[d] \cup errs[d] \cup seen

IInv ==
  /\ TypeOK
  /\ Control
  /\ Versioning
  /\ Contents
  /\ Writing
  /\ SeenIsHeld
  /\ MatchedDayIsCurrent
  /\ NoticeStoredOrDue

LEMMA AdvanceCases ==
  ASSUME AdvanceCursor
  PROVE  /\ cursor' = cursor + 1
         /\ \/ pc' = "delete" /\ todo' = Types \X prepared'
            \/ pc' = "prepare" /\ todo' = {}
            \/ pc' = "done" /\ todo' = {} /\ prepared' = {}
BY Zenon DEF AdvanceCursor, EndsChunk

LEMMA InitIInv == Init => IInv
<1> SUFFICES ASSUME Init PROVE IInv
  OBVIOUS
<1>1. TypeOK
  BY TypeInit
<1>2. Control /\ Contents /\ Writing /\ SeenIsHeld
  BY DEF Init, Control, Contents, Writing, SeenIsHeld, NoJob, NoRows
<1>3. Versioning
  BY DEF Init, Versioning, ManifestsUpTo, NoJob
<1>4. \A d \in Days : ~Match(d)
  BY DEF Init, Match, IsAlreadyProcessed
<1>5. MatchedDayIsCurrent /\ NoticeStoredOrDue
  BY <1>4 DEF MatchedDayIsCurrent, NoticeStoredOrDue, Accounted
<1> QED
  BY <1>1, <1>2, <1>3, <1>5 DEF IInv

LEMMA ControlNext ==
  ASSUME TypeOK, Control, [Next]_vars
  PROVE  Control'
<1>1. ASSUME NEW b \in Versions, NEW f \in Versions, Deploy(b, f) PROVE Control'
  BY <1>1 DEF Control, Deploy, memory
<1>2. CASE NoMemory
  BY <1>2 DEF Control, NoMemory, NoJob
<1>3. ASSUME NEW first \in Days, NEW last \in Days, NEW force \in ForceFlags,
             NEW ok \in ScanOutcomes, StartRange(first, last, force, ok)
      PROVE  Control'
  BY <1>3 DEF Control, StartRange, Idle
<1>4. ASSUME NEW d \in Days, NEW ok \in ScanOutcomes, StartDay(d, ok) PROVE Control'
  BY <1>4 DEF Control, StartDay, PartitionsOf
<1>5. ASSUME pc = "prepare", job' = job, AdvanceCursor,
             prepared' \subseteq prepared \cup {cursor}
      PROVE  Control'
  <2>1. job.kind = "range" /\ \A d \in prepared : d < cursor
    BY <1>5 DEF Control
  <2>2. cursor \in Int /\ prepared \subseteq Int
    BY DEF TypeOK, Job
  <2>3. cursor' = cursor + 1
    BY <1>5, AdvanceCases
  <2>4. \A d \in prepared' : d < cursor'
    BY <1>5, <2>1, <2>2, <2>3
  <2>5. \A p \in todo' : p[2] \in prepared'
    BY <1>5, AdvanceCases
  <2>6. pc' \in {"prepare", "delete", "done"} /\ (pc' = "done" => prepared' = {})
        /\ (pc' # "delete" => todo' = {})
    BY <1>5, AdvanceCases
  <2> QED
    BY <1>5, <2>1, <2>4, <2>5, <2>6 DEF Control
<1>6. ASSUME NEW ok \in ScanOutcomes, SkipDate(ok) PROVE Control'
  BY <1>5, <1>6 DEF SkipDate
<1>7. CASE NoRawFile
  BY <1>5, <1>7 DEF NoRawFile
<1>8. CASE PrepareDate
  BY <1>5, <1>8 DEF PrepareDate
<1>9. ASSUME NEW t \in Types, NEW d \in Days,
             DeletePartition(t, d) \/ OverwritePartition(t, d)
      PROVE  Control'
  BY <1>9 DEF Control, DeletePartition, OverwritePartition
<1>10. CASE StartWrite
  BY <1>10 DEF Control, StartWrite, PartitionsOf
<1>11. CASE EndWrite
  BY <1>11 DEF Control, EndWrite
<1>12. ASSUME NEW d \in Days, FinalizeDate(d) \/ FinalizeDay(d) PROVE Control'
  BY <1>12 DEF Control, FinalizeDate, FinalizeDay
<1>13. CASE EndChunk
  BY <1>13 DEF Control, EndChunk, TypeOK, Job
<1>14. CASE UNCHANGED vars
  BY <1>14 DEF Control, vars, memory
<1> QED
  BY <1>1, <1>2, <1>3, <1>4, <1>6, <1>7, <1>8, <1>9, <1>10, <1>11, <1>12, <1>13,
     <1>14 DEF Next, Environment, Start, Step, Crash, Exit

LEMMA VersioningNext ==
  ASSUME ForceFlags \subseteq {FALSE}, TypeOK, Control, Versioning, [Next]_vars
  PROVE  Versioning'
<1> DEFINE Unmatched(d) == ~IsAlreadyProcessed(manifest[d], RangeHash(job.bronze), job.fetch)
<1>1. ASSUME NEW b \in Versions, NEW f \in Versions, Deploy(b, f) PROVE Versioning'
  <2>1. \A d \in Days : manifest[d] # NoManifest =>
          manifest[d].script.bronze \in Int /\ manifest[d].deps \in Int
    BY DEF TypeOK, Manifest, Hashes, Deps, NoDeps
  <2>2. job.bronze \in Int /\ job.fetch \in Int /\ code.bronze \in Int /\ code.fetch \in Int
    BY DEF TypeOK, Job
  <2>3. code'.bronze >= code.bronze /\ code'.fetch >= code.fetch
        /\ code'.bronze \in Int /\ code'.fetch \in Int
    BY <1>1 DEF Deploy
  <2> QED
    BY <1>1, <2>1, <2>2, <2>3
    DEF Versioning, ManifestsUpTo, Deploy, memory, IsAlreadyProcessed, RangeHash
<1>2. CASE NoMemory /\ UNCHANGED stores
  BY <1>2 DEF Versioning, ManifestsUpTo, NoMemory, NoJob, stores, TypeOK
<1>3. ASSUME NEW first \in Days, NEW last \in Days, NEW force \in ForceFlags,
             NEW ok \in ScanOutcomes, StartRange(first, last, force, ok)
      PROVE  Versioning'
  <2>1. force = FALSE
    OBVIOUS
  <2>2. /\ ~job'.force /\ job'.bronze = code.bronze /\ job'.fetch = code.fetch
        /\ UNCHANGED <<manifest, code>> /\ prepared' = {}
    BY <1>3, <2>1 DEF StartRange, stores, Idle, Control
  <2>3. code.bronze \in Int /\ code.fetch \in Int
    BY DEF TypeOK
  <2> QED
    BY <2>2, <2>3 DEF Versioning, ManifestsUpTo
<1>4. ASSUME NEW d \in Days, NEW ok \in ScanOutcomes, StartDay(d, ok) PROVE Versioning'
  BY <1>4 DEF Versioning, ManifestsUpTo, StartDay, stores, TypeOK
<1>5. ASSUME UNCHANGED <<stores, job>>, pc # "idle",
             \A d \in prepared' : d \in prepared \/ (d = cursor /\ ~SkipGuard)
      PROVE  Versioning'
  BY <1>5 DEF Versioning, ManifestsUpTo, stores, IsAlreadyProcessed, SkipGuard
<1>6. ASSUME NEW ok \in ScanOutcomes, SkipDate(ok) PROVE Versioning'
  BY <1>5, <1>6 DEF SkipDate
<1>7. CASE NoRawFile
  BY <1>5, <1>7 DEF NoRawFile
<1>8. CASE PrepareDate
  BY <1>5, <1>8 DEF PrepareDate
<1>9. ASSUME NEW t \in Types, NEW d \in Days,
             DeletePartition(t, d) \/ OverwritePartition(t, d)
      PROVE  Versioning'
  BY <1>9 DEF Versioning, ManifestsUpTo, DeletePartition, OverwritePartition,
              IsAlreadyProcessed
<1>10. CASE StartWrite \/ EndWrite \/ EndChunk
  BY <1>10, <1>5 DEF StartWrite, EndWrite, EndChunk
<1>11. ASSUME NEW d \in Days, NEW e \in Hashes, NEW f \in Deps,
              pc = "finalize", UNCHANGED <<code, pc, job>>, prepared' \subseteq prepared \ {d},
              e.bronze <= job.bronze, f <= job.fetch,
              manifest' = WriteProcessedManifest(manifest, d, e, f)
       PROVE  Versioning'
  <2>1. /\ manifest'[d] = [script |-> e, deps |-> f]
        /\ \A x \in Days \ {d} : manifest'[x] = manifest[x]
    BY <1>11 DEF WriteProcessedManifest, TypeOK
  <2>2. job.bronze \in Int /\ job.fetch \in Int /\ code.bronze \in Int /\ code.fetch \in Int
        /\ e.bronze \in Int /\ f \in Int
    BY DEF TypeOK, Job, Hashes, Deps, NoDeps
  <2>3. ManifestsUpTo(job.bronze, job.fetch)'
    BY <1>11, <2>1 DEF Versioning, ManifestsUpTo
  <2>4. ManifestsUpTo(code.bronze, code.fetch)'
    <3>1. e.bronze <= code.bronze /\ f <= code.fetch
      BY <1>11, <2>2 DEF Versioning
    <3>2. \A x \in Days \ {d} : manifest[x] # NoManifest =>
            manifest[x].script.bronze <= code.bronze /\ manifest[x].deps <= code.fetch
      BY DEF Versioning, ManifestsUpTo
    <3> QED
      BY <1>11, <2>1, <3>1, <3>2 DEF ManifestsUpTo
  <2>5. job.kind = "range" => \A x \in prepared' : Unmatched(x)'
    BY <1>11, <2>1 DEF Versioning, IsAlreadyProcessed, RangeHash, TypeOK
  <2> QED
    BY <1>11, <2>3, <2>4, <2>5 DEF Versioning
<1>12. ASSUME NEW d \in Days, FinalizeDate(d) PROVE Versioning'
  <2>1. RangeHash(job.bronze) \in Hashes /\ job.fetch \in Deps
    BY DEF TypeOK, Job, RangeHash, Hashes, Deps
  <2>2. RangeHash(job.bronze).bronze <= job.bronze /\ job.fetch <= job.fetch
    BY DEF TypeOK, Job, RangeHash
  <2> QED
    BY <1>11, <1>12, <2>1, <2>2 DEF FinalizeDate
<1>13. ASSUME NEW d \in Days, FinalizeDay(d) PROVE Versioning'
  <2>1. DayHash(job.bronze) \in Hashes /\ NoDeps \in Deps
    BY DEF TypeOK, Job, DayHash, Hashes, Deps
  <2>2. DayHash(job.bronze).bronze <= job.bronze /\ NoDeps <= job.fetch
    BY DEF TypeOK, Job, DayHash, NoDeps
  <2> QED
    BY <1>11, <1>13, <2>1, <2>2 DEF FinalizeDay
<1>14. CASE UNCHANGED vars
  BY <1>14 DEF Versioning, ManifestsUpTo, vars, memory, stores, IsAlreadyProcessed
<1> QED
  BY <1>1, <1>2, <1>3, <1>4, <1>6, <1>7, <1>8, <1>9, <1>10, <1>12, <1>13, <1>14
  DEF Next, Environment, Start, Step, Crash, Exit

LEMMA ContentsNext ==
  ASSUME TypeOK, Control, Contents, [Next]_vars
  PROVE  Contents'
<1>1. ASSUME NEW b \in Versions, NEW f \in Versions, Deploy(b, f) PROVE Contents'
  BY <1>1 DEF Contents, Deploy, memory
<1>2. CASE NoMemory /\ UNCHANGED stores
  BY <1>2 DEF Contents, NoMemory, stores
<1>3. ASSUME NEW first \in Days, NEW last \in Days, NEW force \in ForceFlags,
             NEW ok \in ScanOutcomes, StartRange(first, last, force, ok)
      PROVE  Contents'
  BY <1>3 DEF Contents, StartRange, stores, Idle, Control
<1>4. ASSUME NEW d \in Days, NEW ok \in ScanOutcomes, StartDay(d, ok) PROVE Contents'
  <2>1. /\ rows'[d] = ValidRows(d, seen', code.bronze)
        /\ errs'[d] = InvalidRows(d, seen', code.bronze)
        /\ prepared' = {d} /\ job'.bronze = code.bronze /\ UNCHANGED <<bronze, errors>>
    BY <1>4 DEF StartDay, NoRows, stores
  <2> QED
    BY <2>1 DEF Contents, ValidRows, InvalidRows, ApplyDedupFilter
<1>5. ASSUME NEW ok \in ScanOutcomes, SkipDate(ok) PROVE Contents'
  BY <1>5 DEF Contents, SkipDate, stores
<1>6. CASE NoRawFile
  BY <1>6 DEF Contents, NoRawFile, stores
<1>7. CASE PrepareDate
  <2>1. cursor \in Days
    BY <1>7 DEF PrepareDate, TypeOK, Job
  <2>2. /\ rows'[cursor] = ValidRows(cursor, seen, job.bronze)
        /\ errs'[cursor] = InvalidRows(cursor, seen, job.bronze)
        /\ \A d \in Days \ {cursor} : rows'[d] = rows[d] /\ errs'[d] = errs[d]
        /\ prepared' = prepared \cup {cursor} /\ UNCHANGED <<bronze, errors, job>>
    BY <1>7, <2>1 DEF PrepareDate, stores, TypeOK
  <2> QED
    BY <2>1, <2>2 DEF Contents, ValidRows, InvalidRows, ApplyDedupFilter, TypeOK
<1>8. ASSUME NEW t \in Types, NEW d \in Days, DeletePartition(t, d) PROVE Contents'
  BY <1>8 DEF Contents, DeletePartition, TypeOK
<1>9. ASSUME NEW t \in Types, NEW d \in Days, OverwritePartition(t, d) PROVE Contents'
  <2>1. rows[d] \subseteq Published[d]
    BY <1>9 DEF OverwritePartition, Control, Contents
  <2> QED
    BY <1>9, <2>1 DEF Contents, OverwritePartition, InPartition, TypeOK
<1>10. CASE StartWrite \/ EndWrite
  BY <1>10 DEF Contents, StartWrite, EndWrite, stores
<1>11. ASSUME NEW d \in Days, FinalizeDate(d) \/ FinalizeDay(d) PROVE Contents'
  <2>1. d \in prepared /\ prepared' \subseteq prepared /\ UNCHANGED <<bronze, rows, errs, job>>
    BY <1>11 DEF FinalizeDate, FinalizeDay
  <2>2. WriteErrors(d)
    BY <1>11 DEF FinalizeDate, FinalizeDay
  <2> QED
    BY <2>1, <2>2 DEF Contents, WriteErrors, TypeOK
<1>12. CASE EndChunk
  BY <1>12 DEF Contents, EndChunk, stores
<1>13. CASE UNCHANGED vars
  BY <1>13 DEF Contents, vars, memory, stores
<1> QED
  BY <1>1, <1>2, <1>3, <1>4, <1>5, <1>6, <1>7, <1>8, <1>9, <1>10, <1>11, <1>12, <1>13
  DEF Next, Environment, Start, Step, Crash, Exit

LEMMA WritingNext ==
  ASSUME TypeOK, Control, Contents, Writing, [Next]_vars
  PROVE  Writing'
<1>1. CASE pc' \notin {"delete", "write", "finalize"}
  BY <1>1 DEF Writing
<1>2. ASSUME NEW b \in Versions, NEW f \in Versions, Deploy(b, f) PROVE Writing'
  BY <1>2 DEF Writing, Deploy, memory
<1>3. ASSUME NEW d \in Days, NEW ok \in ScanOutcomes, StartDay(d, ok) PROVE Writing'
  <2>1. /\ pc' = "write" /\ job'.kind = "day" /\ prepared' = {d}
        /\ todo' = PartitionsOf(rows', {d})
    BY <1>3 DEF StartDay
  <2>2. rows'[d] \subseteq Ids
    BY <1>3 DEF StartDay, NoRows, ValidRows, ApplyDedupFilter
  <2>3. \A i \in rows'[d] : <<TypeOf[i], d>> \in todo'
    BY <2>1, <2>2 DEF PartitionsOf, Partition, InPartition
  <2> QED
    BY <2>1, <2>3 DEF Writing
<1>4. ASSUME AdvanceCursor, prepared' \subseteq Days, UNCHANGED bronze PROVE Writing'
  <2>1. CASE pc' = "delete"
    <3>1. todo' = Types \X prepared'
      BY <1>4, <2>1, AdvanceCases
    <3>2. \A d \in prepared' : \A i \in bronze'[d] : TypeOf[i] \in Types
      BY <1>4 DEF TypeOK
    <3> QED
      BY <2>1, <3>1, <3>2 DEF Writing
  <2> QED
    BY <1>1, <1>4, <2>1, AdvanceCases
<1>5. ASSUME NEW ok \in ScanOutcomes, SkipDate(ok) PROVE Writing'
  BY <1>4, <1>5 DEF SkipDate, stores, TypeOK
<1>6. CASE NoRawFile
  BY <1>4, <1>6 DEF NoRawFile, stores, TypeOK
<1>7. CASE PrepareDate
  <2>1. cursor \in Days
    BY <1>7 DEF PrepareDate, TypeOK, Job
  <2> QED
    BY <1>4, <1>7, <2>1 DEF PrepareDate, stores, TypeOK
<1>8. ASSUME NEW t \in Types, NEW d \in Days, DeletePartition(t, d) PROVE Writing'
  <2>1. \A x \in Days : \A i \in bronze'[x] :
          i \in bronze[x] /\ ~(x = d /\ TypeOf[i] = t)
    BY <1>8 DEF DeletePartition, InPartition, TypeOK
  <2>2. pc = "delete" /\ todo' = todo \ {<<t, d>>} /\ UNCHANGED <<pc, prepared>>
    BY <1>8 DEF DeletePartition
  <2> QED
    BY <2>1, <2>2 DEF Writing, TypeOK
<1>9. ASSUME NEW t \in Types, NEW d \in Days, OverwritePartition(t, d) PROVE Writing'
  <2>1. /\ \A x \in Days : bronze'[x] \subseteq bronze[x] \cup rows[x]
        /\ \A i \in rows[d] : TypeOf[i] = t => i \in bronze'[d]
        /\ \A x \in Days : \A i \in Ids :
             i \in bronze[x] /\ ~(x = d /\ TypeOf[i] = t) => i \in bronze'[x]
    BY <1>9 DEF OverwritePartition, InPartition, TypeOK
  <2>2. /\ pc = "write" /\ todo' = todo \ {<<t, d>>}
        /\ UNCHANGED <<pc, prepared, rows, job>>
    BY <1>9 DEF OverwritePartition
  <2>3. \A x \in prepared : rows[x] \subseteq Ids
    BY DEF TypeOK
  <2>4. ASSUME NEW x \in prepared', NEW i \in rows'[x]
        PROVE  i \in bronze'[x] \/ <<TypeOf[i], x>> \in todo'
    BY <2>1, <2>2, <2>3, <2>4 DEF Writing, TypeOK
  <2> QED
    BY <2>1, <2>2, <2>4 DEF Writing, TypeOK
<1>10. CASE StartWrite
  <2>1. /\ pc = "delete" /\ todo = {} /\ pc' = "write" /\ todo' = PartitionsOf(rows, prepared)
        /\ UNCHANGED <<bronze, prepared, rows, job>>
    BY <1>10 DEF StartWrite, stores
  <2>2. \A d \in prepared : bronze[d] = {}
    BY <2>1 DEF Writing
  <2>3. \A d \in prepared : \A i \in rows[d] : <<TypeOf[i], d>> \in todo'
    BY <2>1 DEF PartitionsOf, Partition, InPartition, TypeOK
  <2> QED
    BY <2>1, <2>2, <2>3 DEF Writing
<1>11. CASE EndWrite
  BY <1>11 DEF Writing, EndWrite, stores
<1>12. ASSUME NEW d \in Days, FinalizeDate(d) \/ FinalizeDay(d) PROVE Writing'
  BY <1>12 DEF Writing, FinalizeDate, FinalizeDay
<1>13. CASE UNCHANGED vars
  BY <1>13 DEF Writing, vars, memory, stores
<1>14. CASE NoMemory \/ EndChunk
  BY <1>1, <1>14 DEF NoMemory, EndChunk
<1>15. ASSUME NEW first \in Days, NEW last \in Days, NEW force \in ForceFlags,
              NEW ok \in ScanOutcomes, StartRange(first, last, force, ok)
       PROVE  Writing'
  BY <1>1, <1>15 DEF StartRange
<1> QED
  BY <1>2, <1>3, <1>5, <1>6, <1>7, <1>8, <1>9, <1>10, <1>11, <1>12, <1>13, <1>14,
     <1>15 DEF Next, Environment, Start, Step, Crash, Exit

LEMMA SeenIsHeldNext ==
  ASSUME TypeOK, Control, Writing, SeenIsHeld, [Next]_vars
  PROVE  SeenIsHeld'
<1>1. ASSUME UNCHANGED <<bronze, job, cursor, seen, prepared, rows, errs>> PROVE SeenIsHeld'
  BY <1>1 DEF SeenIsHeld, HeldOn
<1>2. CASE NoMemory
  BY <1>2 DEF SeenIsHeld, NoMemory
<1>3. ASSUME NEW first \in Days, NEW last \in Days, NEW force \in ForceFlags,
             NEW ok \in ScanOutcomes, StartRange(first, last, force, ok)
      PROVE  SeenIsHeld'
  <2>1. /\ prepared' = {} /\ cursor' = first /\ UNCHANGED bronze
        /\ seen' = Scan(DaysBefore(first), ok)
    BY <1>3 DEF StartRange, Idle, Control, stores
  <2>2. \A i \in seen' : \E e \in Days : e < first /\ i \in bronze[e]
    BY <2>1 DEF Scan, DaysBefore
  <2> QED
    BY <2>1, <2>2 DEF SeenIsHeld, HeldOn
<1>4. ASSUME NEW d \in Days, NEW ok \in ScanOutcomes, StartDay(d, ok) PROVE SeenIsHeld'
  <2>1. /\ prepared' = {d} /\ job'.kind = "day" /\ UNCHANGED bronze
        /\ seen' = Scan(Days \ {d}, ok)
        /\ rows'[d] = ValidRows(d, seen', code.bronze)
        /\ errs'[d] = InvalidRows(d, seen', code.bronze)
    BY <1>4 DEF StartDay, NoRows, stores
  <2>2. \A i \in seen' : \E e \in Days \ {d} : i \in bronze[e]
    BY <2>1 DEF Scan
  <2>3. \A i \in seen' : \E e \in Days : HeldOn(i, e)'
    BY <2>1, <2>2 DEF HeldOn
  <2> QED
    BY <2>1, <2>3 DEF SeenIsHeld, ValidRows, InvalidRows, ApplyDedupFilter
<1>5. ASSUME pc = "prepare", cursor' = cursor + 1,
             UNCHANGED <<bronze, job, prepared, rows, errs>>,
             seen' \subseteq seen \cup bronze[cursor], seen \subseteq seen'
      PROVE  SeenIsHeld'
  <2>1. cursor \in Days /\ cursor \notin prepared /\ job.kind = "range"
    BY <1>5 DEF TypeOK, Control, Job
  <2>0. cursor < cursor' /\ \A e \in Days : e < cursor => e < cursor'
    BY <1>5, <2>1
  <2>2. \A e \in Days : e = cursor => \A i \in bronze[e] : HeldOn(i, e)'
    BY <1>5, <2>0, <2>1 DEF HeldOn
  <2>3. \A i, e : e \in Days /\ HeldOn(i, e) => HeldOn(i, e)'
    BY <1>5, <2>0, <2>1 DEF HeldOn
  <2> QED
    BY <1>5, <2>1, <2>2, <2>3 DEF SeenIsHeld
<1>6. ASSUME NEW ok \in ScanOutcomes, SkipDate(ok) PROVE SeenIsHeld'
  <2>1. cursor' = cursor + 1
    BY <1>6, AdvanceCases DEF SkipDate
  <2> QED
    BY <1>5, <1>6, <2>1 DEF SkipDate, Scan, stores
<1>7. CASE NoRawFile
  <2>1. cursor' = cursor + 1
    BY <1>7, AdvanceCases DEF NoRawFile
  <2> QED
    BY <1>5, <1>7, <2>1 DEF NoRawFile, stores
<1>8. CASE PrepareDate
  <2>1. cursor \in Days /\ cursor \notin prepared /\ job.kind = "range" /\ cursor' = cursor + 1
    BY <1>8, AdvanceCases DEF PrepareDate, TypeOK, Job, Control
  <2>2. /\ rows'[cursor] = ValidRows(cursor, seen, job.bronze)
        /\ errs'[cursor] = InvalidRows(cursor, seen, job.bronze)
        /\ \A d \in Days \ {cursor} : rows'[d] = rows[d] /\ errs'[d] = errs[d]
        /\ seen' = seen \cup rows'[cursor]
        /\ prepared' = prepared \cup {cursor} /\ UNCHANGED <<bronze, job>>
    BY <1>8, <2>1 DEF PrepareDate, stores, TypeOK
  <2>0. cursor < cursor' /\ \A e \in Days : e < cursor => e < cursor'
    BY <2>1
  <2>3. \A e \in Days : e = cursor => \A i \in rows'[e] : HeldOn(i, e)'
    BY <2>0, <2>1, <2>2 DEF HeldOn
  <2>4. \A i, e : e \in Days /\ HeldOn(i, e) => HeldOn(i, e)'
    BY <2>0, <2>1, <2>2 DEF HeldOn
  <2>5. \A i \in seen' : \E e \in Days : HeldOn(i, e)'
    BY <2>1, <2>2, <2>3, <2>4 DEF SeenIsHeld
  <2>6. \A i \in Published[cursor] : i \in rows'[cursor] \cup errs'[cursor] \cup seen'
    BY <2>2 DEF ValidRows, InvalidRows, ApplyDedupFilter
  <2>7. \A d \in prepared : \A i \in Published[d] : i \in rows'[d] \cup errs'[d] \cup seen'
    BY <2>1, <2>2 DEF SeenIsHeld, TypeOK
  <2> QED
    BY <2>2, <2>5, <2>6, <2>7 DEF SeenIsHeld
<1>9. ASSUME NEW t \in Types, NEW d \in Days,
             DeletePartition(t, d) \/ OverwritePartition(t, d)
      PROVE  SeenIsHeld'
  <2>1. d \in prepared /\ \A e \in Days \ {d} : bronze'[e] = bronze[e]
    BY <1>9 DEF DeletePartition, OverwritePartition, Control, TypeOK
  <2>2. UNCHANGED <<job, cursor, seen, prepared, rows, errs>>
    BY <1>9 DEF DeletePartition, OverwritePartition
  <2>3. \A i, e : e \in Days /\ HeldOn(i, e) => HeldOn(i, e)'
    BY <2>1, <2>2 DEF HeldOn
  <2> QED
    BY <2>2, <2>3 DEF SeenIsHeld
<1>10. ASSUME NEW d \in Days, FinalizeDate(d) \/ FinalizeDay(d) PROVE SeenIsHeld'
  <2>1. pc = "finalize" /\ prepared' \subseteq prepared
        /\ UNCHANGED <<bronze, job, cursor, seen, rows, errs>>
    BY <1>10 DEF FinalizeDate, FinalizeDay
  <2>2. \A e \in prepared : rows[e] \subseteq bronze[e]
    BY <2>1 DEF Writing, Control
  <2>3. \A i, e : e \in Days /\ HeldOn(i, e) => HeldOn(i, e)'
    BY <2>1, <2>2 DEF HeldOn
  <2> QED
    BY <2>1, <2>3 DEF SeenIsHeld
<1>11. CASE EndChunk
  BY <1>11 DEF SeenIsHeld, HeldOn, EndChunk, stores
<1>12. ASSUME NEW b \in Versions, NEW f \in Versions, Deploy(b, f) PROVE SeenIsHeld'
  BY <1>1, <1>12 DEF Deploy, memory
<1>13. CASE StartWrite \/ EndWrite
  BY <1>1, <1>13 DEF StartWrite, EndWrite, stores
<1>14. CASE UNCHANGED vars
  BY <1>1, <1>14 DEF vars, memory, stores
<1> QED
  BY <1>2, <1>3, <1>4, <1>6, <1>7, <1>8, <1>9, <1>10, <1>11, <1>12, <1>13, <1>14
  DEF Next, Environment, Start, Step, Crash, Exit

-----------------------------------------------------------------------------
(* What the invariant says of matching manifests.                          *)

\* While a job runs, a manifest that matches the deployed code was written by
\* code as new as the job's: the job runs the deployed code.
LEMMA MatchMeansCurrent ==
  ASSUME TypeOK, Versioning, pc # "idle", NEW d \in Days, Match(d)
  PROVE  job.bronze = code.bronze /\ job.fetch = code.fetch
<1>1. /\ manifest[d] # NoManifest
      /\ manifest[d].script.bronze = code.bronze /\ manifest[d].deps = code.fetch
  BY DEF Match, IsAlreadyProcessed, RangeHash
<1>2. code.bronze <= job.bronze /\ code.fetch <= job.fetch
  BY <1>1 DEF Versioning, ManifestsUpTo
<1>3. /\ job.bronze \in Int /\ job.fetch \in Int
      /\ code.bronze \in Int /\ code.fetch \in Int
  BY DEF TypeOK, Job
<1> QED
  BY <1>2, <1>3 DEF Versioning

\* A range run prepares only days that later runs will not skip.
LEMMA PreparedNotMatched ==
  ASSUME TypeOK, Control, Versioning, job.kind = "range", NEW d \in prepared
  PROVE  ~Match(d)
<1> SUFFICES ASSUME Match(d) PROVE FALSE
  OBVIOUS
<1>1. pc # "idle" /\ d \in Days
  BY DEF Control, TypeOK
<1>2. job.bronze = code.bronze /\ job.fetch = code.fetch
  BY <1>1, MatchMeansCurrent
<1> QED
  BY <1>2 DEF Versioning, Match

\* After a deployment no manifest matches.
LEMMA DeployUnmatches ==
  ASSUME TypeOK, Versioning, NEW b \in Versions, NEW f \in Versions, Deploy(b, f)
  PROVE  \A d \in Days : ~Match(d)'
<1> SUFFICES ASSUME NEW d \in Days, Match(d)' PROVE FALSE
  OBVIOUS
<1>1. /\ manifest[d] # NoManifest
      /\ manifest[d].script.bronze = code'.bronze /\ manifest[d].deps = code'.fetch
  BY DEF Match, IsAlreadyProcessed, RangeHash, Deploy
<1>2. code'.bronze <= code.bronze /\ code'.fetch <= code.fetch
  BY <1>1 DEF Versioning, ManifestsUpTo
<1>3. code'.bronze = b /\ code'.fetch = f /\ b >= code.bronze /\ f >= code.fetch
  BY DEF Deploy
<1>4. code.bronze \in Int /\ code.fetch \in Int /\ b \in Int /\ f \in Int
  BY DEF TypeOK
<1>5. b = code.bronze /\ f = code.fetch
  BY <1>2, <1>3, <1>4
<1> QED
  BY <1>5 DEF Deploy, TypeOK

\* The steps that write neither bronze, errors nor a manifest.
LEMMA QuietSteps ==
  ASSUME [Next]_vars
  PROVE  \/ \E b, f \in Versions : Deploy(b, f)
         \/ UNCHANGED stores
         \/ \E t \in Types, d \in Days : DeletePartition(t, d) \/ OverwritePartition(t, d)
         \/ \E d \in Days : FinalizeDate(d) \/ FinalizeDay(d)
BY DEF Next, Environment, Start, Step, Crash, Exit, StartRange, StartDay, SkipDate,
       NoRawFile, PrepareDate, StartWrite, EndWrite, EndChunk, vars

LEMMA MatchedDayIsCurrentNext ==
  ASSUME TypeOK, Control, Versioning, Contents, Writing, MatchedDayIsCurrent, [Next]_vars
  PROVE  MatchedDayIsCurrent'
<1>1. ASSUME NEW b \in Versions, NEW f \in Versions, Deploy(b, f)
      PROVE  MatchedDayIsCurrent'
  BY <1>1, DeployUnmatches DEF MatchedDayIsCurrent
<1>2. CASE UNCHANGED stores
  BY <1>2 DEF MatchedDayIsCurrent, Match, stores
<1>3. ASSUME NEW t \in Types, NEW d \in Days,
             DeletePartition(t, d) \/ OverwritePartition(t, d)
      PROVE  MatchedDayIsCurrent'
  <2>1. /\ d \in prepared /\ pc # "idle" /\ UNCHANGED <<manifest, code>>
        /\ bronze'[d] \subseteq bronze[d] \cup rows[d]
        /\ \A x \in Days \ {d} : bronze'[x] = bronze[x]
    BY <1>3 DEF DeletePartition, OverwritePartition, Control, TypeOK, InPartition
  <2>2. Match(d) => rows[d] \subseteq Published[d] \cap Valid[code.bronze]
    BY <2>1, MatchMeansCurrent DEF Contents
  <2>3. \A x \in Days : Match(x)' <=> Match(x)
    BY <2>1 DEF Match
  <2> QED
    BY <2>1, <2>2, <2>3 DEF MatchedDayIsCurrent
<1>4. ASSUME NEW d \in Days, FinalizeDate(d) \/ FinalizeDay(d)
      PROVE  MatchedDayIsCurrent'
  <2>1. /\ d \in prepared /\ pc = "finalize" /\ UNCHANGED <<bronze, code>>
        /\ \A x \in Days \ {d} : manifest'[x] = manifest[x]
    BY <1>4 DEF FinalizeDate, FinalizeDay, WriteProcessedManifest, TypeOK
  <2>2. \A x \in Days \ {d} : Match(x)' <=> Match(x)
    BY <2>1 DEF Match
  <2>3. ASSUME Match(d)' PROVE bronze[d] \subseteq Published[d] \cap Valid[code.bronze]
    <3>1. CASE FinalizeDate(d)
      <4>1. job.kind = "range" /\ manifest'[d].script = RangeHash(job.bronze)
        BY <3>1 DEF FinalizeDate, WriteProcessedManifest, TypeOK
      <4>2. job.bronze = code.bronze
        BY <2>1, <2>3, <4>1 DEF Match, IsAlreadyProcessed, RangeHash
      <4> QED
        BY <2>1, <4>1, <4>2 DEF Writing, Contents
    <3>2. CASE FinalizeDay(d)
      <4>1. manifest'[d].script = DayHash(job.bronze)
        BY <3>2 DEF FinalizeDay, WriteProcessedManifest, TypeOK
      <4> QED
        BY <2>3, <4>1 DEF Match, IsAlreadyProcessed, RangeHash, DayHash
    <3> QED
      BY <1>4, <3>1, <3>2
  <2> QED
    BY <2>1, <2>2, <2>3 DEF MatchedDayIsCurrent
<1> QED
  BY <1>1, <1>2, <1>3, <1>4, QuietSteps

LEMMA NoticeStoredOrDueNext ==
  ASSUME TypeOK, Control, Versioning, Contents, Writing, SeenIsHeld,
         MatchedDayIsCurrent, NoticeStoredOrDue, [Next]_vars
  PROVE  NoticeStoredOrDue'
<1>1. ASSUME NEW b \in Versions, NEW f \in Versions, Deploy(b, f)
      PROVE  NoticeStoredOrDue'
  BY <1>1, DeployUnmatches DEF NoticeStoredOrDue, Accounted
<1>2. CASE UNCHANGED stores
  BY <1>2 DEF NoticeStoredOrDue, Accounted, Match, stores
\* A partition of a day d changes: an id it loses is published on d, which is
\* due, or is one the day job dropped because another day has it.
<1>3. ASSUME NEW t \in Types, NEW d \in Days,
             DeletePartition(t, d) \/ OverwritePartition(t, d)
      PROVE  NoticeStoredOrDue'
  <2>1. /\ d \in prepared /\ pc # "idle" /\ UNCHANGED <<errors, manifest, code>>
        /\ \A x \in Days \ {d} : bronze'[x] = bronze[x]
    BY <1>3 DEF DeletePartition, OverwritePartition, Control, TypeOK
  <2>2. \A x \in Days : Match(x)' <=> Match(x)
    BY <2>1 DEF Match
  <2>3. ASSUME NEW i \in bronze[d], i \notin bronze'[d], Match(d)
        PROVE  \E e \in Days \ {d} : i \in bronze[e]
    <3>1. job.kind # "range"
      BY <2>1, <2>3, PreparedNotMatched
    <3>2. OverwritePartition(t, d) /\ job.kind = "day"
      BY <1>3, <3>1 DEF DeletePartition, Control, TypeOK, Job
    <3>3. i \notin rows[d]
      BY <2>3, <3>2 DEF OverwritePartition, InPartition, TypeOK
    <3>4. i \in Published[d] /\ i \in Valid[job.bronze]
      BY <2>1, <2>3, MatchMeansCurrent DEF MatchedDayIsCurrent
    <3>5. i \in seen
      BY <2>1, <3>3, <3>4 DEF SeenIsHeld, Contents
    <3>6. PICK e \in Days : HeldOn(i, e)
      BY <3>5 DEF SeenIsHeld
    <3>7. e \notin prepared
      BY <2>1, <3>2, <3>3, <3>6 DEF HeldOn, Control
    <3> QED
      BY <2>1, <3>6, <3>7 DEF HeldOn
  <2>4. ASSUME NEW i, NEW e \in Days,
               i \in bronze[e] \/ i \in errors[e] \/ (i \in Published[e] /\ ~Match(e))
        PROVE  Accounted(i)'
    <3>1. CASE i \in bronze[e] /\ i \notin bronze'[e]
      <4>1. e = d /\ i \in Published[d]
        BY <2>1, <3>1 DEF Contents
      <4>2. CASE Match(d)
        BY <2>1, <2>3, <3>1, <4>1, <4>2 DEF Accounted
      <4>3. CASE ~Match(d)
        BY <2>2, <4>1, <4>3 DEF Accounted
      <4> QED
        BY <4>2, <4>3
    <3>2. CASE ~(i \in bronze[e] /\ i \notin bronze'[e])
      BY <2>1, <2>2, <2>4, <3>2 DEF Accounted
    <3> QED
      BY <3>1, <3>2
  <2> QED
    BY <2>4 DEF NoticeStoredOrDue, Accounted
\* A day is finalized: its notices are in its rows, its errors, or on the
\* days that hold the ids the job had seen.
<1>4. ASSUME NEW d \in Days, FinalizeDate(d) \/ FinalizeDay(d)
      PROVE  NoticeStoredOrDue'
  <2>1. /\ d \in prepared /\ pc = "finalize" /\ WriteErrors(d)
        /\ UNCHANGED <<bronze, code>>
        /\ \A x \in Days \ {d} : manifest'[x] = manifest[x]
    BY <1>4 DEF FinalizeDate, FinalizeDay, WriteProcessedManifest, TypeOK
  <2>2. \A x \in Days \ {d} : (Match(x)' <=> Match(x)) /\ errors'[x] = errors[x]
    BY <2>1 DEF Match, WriteErrors, TypeOK
  <2>3. \A e \in prepared : rows[e] \subseteq bronze[e]
    BY <2>1 DEF Writing, Control
  <2>4. ASSUME NEW i \in Published[d] PROVE Accounted(i)'
    <3>1. CASE i \in rows[d]
      BY <2>1, <2>3, <3>1 DEF Accounted, TypeOK
    <3>2. CASE i \in errs[d]
      <4>1. errors'[d] = errs[d]
        BY <2>1, <3>2 DEF WriteErrors, TypeOK
      <4> QED
        BY <3>2, <4>1 DEF Accounted
    <3>3. CASE i \in seen
      <4>1. PICK e \in Days : HeldOn(i, e)
        BY <3>3 DEF SeenIsHeld
      <4>2. i \in bronze'[e]
        BY <2>1, <2>3, <4>1 DEF HeldOn
      <4> QED
        BY <4>2 DEF Accounted
    <3> QED
      BY <2>1, <3>1, <3>2, <3>3 DEF SeenIsHeld
  <2>5. ASSUME NEW i, NEW e \in Days,
               i \in bronze[e] \/ i \in errors[e] \/ (i \in Published[e] /\ ~Match(e))
        PROVE  Accounted(i)'
    <3>1. CASE e = d
      BY <2>4, <2>5, <3>1 DEF Contents
    <3>2. CASE e # d
      BY <2>1, <2>2, <2>5, <3>2 DEF Accounted
    <3> QED
      BY <3>1, <3>2
  <2> QED
    BY <2>5 DEF NoticeStoredOrDue, Accounted
<1> QED
  BY <1>1, <1>2, <1>3, <1>4, QuietSteps

-----------------------------------------------------------------------------
(* The theorems.                                                           *)

LEMMA IInvNext ==
  ASSUME ForceFlags \subseteq {FALSE}, IInv, [Next]_vars
  PROVE  IInv'
<1>1. TypeOK' /\ Control' /\ Versioning'
  BY TypeNext, ControlNext, VersioningNext DEF IInv
<1>2. Contents' /\ Writing' /\ SeenIsHeld'
  BY ContentsNext, WritingNext, SeenIsHeldNext DEF IInv
<1>3. MatchedDayIsCurrent' /\ NoticeStoredOrDue'
  BY MatchedDayIsCurrentNext, NoticeStoredOrDueNext DEF IInv
<1> QED
  BY <1>1, <1>2, <1>3 DEF IInv

LEMMA IInvAlways ==
  ASSUME ForceFlags \subseteq {FALSE}
  PROVE  Spec => []IInv
<1>1. IInv /\ [Next]_vars => IInv'
  BY IInvNext
<1> QED
  BY InitIInv, <1>1, PTL DEF Spec

\* As long as no one uses --force, however many days, notices, chunks, crashes
\* and deployments: no notice of a day that later range runs skip is lost
\* (build_bronze_range.py:407-449, manifests.py:152-192).
THEOREM NoticesAreKept ==
  ASSUME ForceFlags \subseteq {FALSE}
  PROVE  Spec => []NoticeStoredOrDue
<1>1. IInv => NoticeStoredOrDue
  BY DEF IInv
<1> QED
  BY IInvAlways, <1>1, PTL

\* As long as no one uses --force, a day whose manifest matches the deployed
\* code holds only what that code accepts (build_bronze_range.py:233-277).
THEOREM MatchedDaysAreCurrent ==
  ASSUME ForceFlags \subseteq {FALSE}
  PROVE  Spec => []MatchedDayIsCurrent
<1>1. IInv => MatchedDayIsCurrent
  BY DEF IInv
<1> QED
  BY IInvAlways, <1>1, PTL

\* As long as no one uses --force, a range run changes no partition of a day
\* whose manifest matches (build_bronze_range.py:403-418).
THEOREM SkippedDaysAreUntouched ==
  ASSUME ForceFlags \subseteq {FALSE}
  PROVE  Spec => SkippedDayUntouched
<1>1. ASSUME IInv, [Next]_vars
      PROVE  [\A d \in Days : Match(d) /\ job.kind = "range" => bronze'[d] = bronze[d]]_vars
  <2> SUFFICES ASSUME NEW d \in Days, Match(d), job.kind = "range"
               PROVE  bronze'[d] = bronze[d]
    OBVIOUS
  <2>1. d \notin prepared
    BY <1>1, PreparedNotMatched DEF IInv
  <2>2. ASSUME NEW t \in Types, NEW e \in Days,
               DeletePartition(t, e) \/ OverwritePartition(t, e)
        PROVE  bronze'[d] = bronze[d]
    <3>1. e \in prepared
      BY <1>1, <2>2 DEF IInv, Control, DeletePartition, OverwritePartition
    <3> QED
      BY <1>1, <2>1, <2>2, <3>1 DEF IInv, TypeOK, DeletePartition, OverwritePartition
  <2> QED
    BY <1>1, <2>2, QuietSteps DEF Deploy, stores, FinalizeDate, FinalizeDay
<1> QED
  BY IInvAlways, <1>1, PTL DEF Spec, SkippedDayUntouched

-----------------------------------------------------------------------------
(***************************************************************************)
(* The first day keeps a notice.  Held(e) is what day e holds once the job *)
(* has written what it prepared.  A range run has seen what every earlier  *)
(* day holds or will hold, so what it prepares is new; the days it         *)
(* finalized come before those it still holds.                             *)
(***************************************************************************)
Held(e) == IF e \in prepared THEN rows[e] ELSE bronze[e]

SeenEarlier ==
  job.kind = "range" =>
    /\ \A d \in built : d < cursor /\ \A e \in prepared : d < e
    /\ \A e \in Days \ blind : e < cursor => Held(e) \subseteq seen
    /\ \A d \in prepared : \A e \in Days \ blind : e < d => Held(e) \cap rows[d] = {}

FirstInv == TypeOK /\ Control /\ Contents /\ Writing /\ SeenEarlier /\ FirstDayKeepsNotice

LEMMA FirstInvNext ==
  ASSUME FirstInv, [Next]_vars
  PROVE  (SeenEarlier /\ FirstDayKeepsNotice)'
<1> DEFINE Goal == (SeenEarlier /\ FirstDayKeepsNotice)'
<1> USE DEF FirstInv
<1>1. ASSUME job' = job, cursor' = cursor, seen' = seen, blind' = blind, built' = built,
             prepared' = prepared, rows' = rows, bronze' = bronze
      PROVE  Goal
  BY <1>1 DEF SeenEarlier, Held, FirstDayKeepsNotice
<1>2. CASE NoMemory
  BY <1>2 DEF NoMemory, NoJob, SeenEarlier, FirstDayKeepsNotice
<1>3. ASSUME NEW first \in Days, NEW last \in Days, NEW force \in ForceFlags,
             NEW ok \in ScanOutcomes, StartRange(first, last, force, ok)
      PROVE  Goal
  <2>1. /\ prepared' = {} /\ built' = {} /\ cursor' = first /\ UNCHANGED bronze
        /\ seen' = Scan(DaysBefore(first), ok) /\ blind' = Unseen(DaysBefore(first), ok)
    BY <1>3 DEF StartRange, Idle, Control, stores
  <2>2. \A e \in Days \ blind' : e < first => bronze[e] \subseteq seen'
    BY <2>1 DEF Scan, Unseen, DaysBefore
  <2> QED
    BY <2>1, <2>2 DEF SeenEarlier, Held, FirstDayKeepsNotice
<1>4. ASSUME NEW d \in Days, NEW ok \in ScanOutcomes, StartDay(d, ok) PROVE Goal
  <2>1. job'.kind = "day"
    BY <1>4 DEF StartDay
  <2> QED
    BY <2>1 DEF SeenEarlier, FirstDayKeepsNotice
\* The date loop leaves the cursor's date behind without preparing it.
<1>5. ASSUME pc = "prepare", cursor' = cursor + 1, blind \subseteq blind',
             UNCHANGED <<bronze, job, prepared, rows, built>>, seen \subseteq seen',
             cursor \in blind' \/ bronze[cursor] \subseteq seen'
      PROVE  Goal
  <2>1. cursor \in Days /\ cursor \notin prepared /\ job.kind = "range"
    BY <1>5 DEF TypeOK, Control, Job
  <2>2. \A e \in Days : e < cursor' => e < cursor \/ e = cursor
    BY <1>5, <2>1
  <2>3. \A e \in Days : Held(e)' = Held(e)
    BY <1>5 DEF Held
  <2>4. \A e \in Days \ blind' : e < cursor' => Held(e) \subseteq seen'
    BY <1>5, <2>1, <2>2 DEF SeenEarlier, Held
  <2>5. \A d \in built : d < cursor' /\ \A e \in prepared : d < e
    BY <1>5, <2>1 DEF SeenEarlier, TypeOK
  <2>6. \A d \in prepared : \A e \in Days \ blind' : e < d => Held(e) \cap rows[d] = {}
    BY <1>5, <2>1 DEF SeenEarlier
  <2>7. SeenEarlier'
    BY <1>5, <2>3, <2>4, <2>5, <2>6 DEF SeenEarlier
  <2> QED
    BY <1>5, <2>7 DEF FirstDayKeepsNotice
<1>6. ASSUME NEW ok \in ScanOutcomes, SkipDate(ok) PROVE Goal
  <2>1. cursor' = cursor + 1
    BY <1>6, AdvanceCases DEF SkipDate
  <2>2. cursor \in blind' \/ bronze[cursor] \subseteq seen'
    BY <1>6 DEF SkipDate, Scan, Unseen
  <2> QED
    BY <1>5, <1>6, <2>1, <2>2 DEF SkipDate, stores
<1>7. CASE NoRawFile
  <2>1. cursor' = cursor + 1
    BY <1>7, AdvanceCases DEF NoRawFile
  <2> QED
    BY <1>5, <1>7, <2>1 DEF NoRawFile, stores
<1>8. CASE PrepareDate
  <2>1. cursor \in Days /\ cursor \notin prepared /\ job.kind = "range" /\ cursor' = cursor + 1
    BY <1>8, AdvanceCases DEF PrepareDate, TypeOK, Job, Control
  <2>2. /\ rows'[cursor] \subseteq Ids \ seen
        /\ \A d \in Days \ {cursor} : rows'[d] = rows[d]
        /\ seen' = seen \cup rows'[cursor]
        /\ prepared' = prepared \cup {cursor} /\ UNCHANGED <<bronze, job, blind, built>>
    BY <1>8, <2>1 DEF PrepareDate, stores, TypeOK, ValidRows, ApplyDedupFilter
  <2>3. \A e \in Days : e < cursor' => e < cursor \/ e = cursor
    BY <2>1
  <2>4. \A e \in Days \ {cursor} : Held(e)' = Held(e)
    BY <2>2 DEF Held
  <2>5. \A e \in Days : e = cursor => Held(e)' = rows'[e]
    BY <2>2 DEF Held
  <2>6. \A e \in Days \ blind : e < cursor => Held(e) \subseteq seen
    BY <2>1 DEF SeenEarlier
  <2>7. \A e \in Days \ blind' : e < cursor' => Held(e)' \subseteq seen'
    BY <2>2, <2>3, <2>4, <2>5, <2>6
  <2>8. \A d \in built' : d < cursor' /\ \A e \in prepared' : d < e
    BY <2>1, <2>2 DEF SeenEarlier, TypeOK
  <2>9. ASSUME NEW d \in prepared', NEW e \in Days \ blind, e < d
        PROVE  Held(e)' \cap rows'[d] = {}
    <3>1. d \in Int /\ e \in Int /\ \A x \in prepared : x < cursor
      BY <2>1, <2>2 DEF TypeOK, Control
    <3>2. e < cursor
      BY <2>1, <2>2, <2>9, <3>1
    <3>3. Held(e)' = Held(e)
      BY <2>1, <2>4, <3>2
    <3>4. CASE d = cursor
      BY <2>2, <2>6, <3>2, <3>3, <3>4
    <3>5. CASE d # cursor
      BY <2>1, <2>2, <2>9, <3>3, <3>5 DEF SeenEarlier, TypeOK
    <3> QED
      BY <3>4, <3>5
  <2>10. SeenEarlier'
    BY <2>2, <2>7, <2>8, <2>9 DEF SeenEarlier
  <2> QED
    BY <2>2, <2>10 DEF FirstDayKeepsNotice
\* The partitions of a prepared day change: it is later than the built days.
<1>9. ASSUME NEW t \in Types, NEW x \in Days,
             DeletePartition(t, x) \/ OverwritePartition(t, x)
      PROVE  Goal
  <2>1. /\ x \in prepared /\ \A e \in Days \ {x} : bronze'[e] = bronze[e]
        /\ UNCHANGED <<job, cursor, seen, blind, built, prepared, rows>>
    BY <1>9 DEF DeletePartition, OverwritePartition, Control, TypeOK
  <2>2. \A e \in Days : Held(e)' = Held(e)
    BY <2>1 DEF Held
  <2>3. SeenEarlier'
    BY <2>1, <2>2 DEF SeenEarlier
  <2>4. job.kind = "range" => \A d \in built : d # x /\ \A e \in Days : e < d => e # x
    BY <2>1 DEF SeenEarlier, TypeOK
  <2> QED
    BY <2>1, <2>3, <2>4 DEF FirstDayKeepsNotice, TypeOK
<1>10. ASSUME NEW x \in Days, FinalizeDate(x) PROVE Goal
  <2>1. /\ x \in prepared /\ pc = "finalize" /\ job.kind = "range"
        /\ \A e \in prepared : x <= e
        /\ prepared' = prepared \ {x} /\ built' = built \cup {x}
        /\ UNCHANGED <<bronze, job, cursor, seen, blind, rows>>
    BY <1>10 DEF FinalizeDate
  <2>2. \A e \in prepared : rows[e] = bronze[e]
    BY <2>1 DEF Writing, Control
  <2>3. \A e \in Days : Held(e)' = Held(e) /\ Held(e) = bronze[e]
    BY <2>1, <2>2 DEF Held
  <2>4. \A d \in built' : d < cursor' /\ \A e \in prepared' : d < e
    BY <2>1 DEF SeenEarlier, Control, TypeOK
  <2>5. SeenEarlier'
    BY <2>1, <2>3, <2>4 DEF SeenEarlier
  <2>6. \A e \in Days \ blind : e < x => bronze[e] \cap bronze[x] = {}
    BY <2>1, <2>2, <2>3 DEF SeenEarlier
  <2> QED
    BY <2>1, <2>5, <2>6 DEF FirstDayKeepsNotice
<1>11. ASSUME NEW d \in Days, FinalizeDay(d) PROVE Goal
  BY <1>11 DEF FinalizeDay, SeenEarlier, FirstDayKeepsNotice
<1>12. CASE EndChunk
  <2>1. prepared = {} /\ UNCHANGED <<bronze, job, cursor, seen, prepared, blind, built>>
    BY <1>12 DEF EndChunk, stores
  <2> QED
    BY <2>1 DEF SeenEarlier, Held, FirstDayKeepsNotice
<1>13. ASSUME NEW b \in Versions, NEW f \in Versions, Deploy(b, f) PROVE Goal
  BY <1>1, <1>13 DEF Deploy, memory
<1>14. CASE StartWrite \/ EndWrite
  BY <1>1, <1>14 DEF StartWrite, EndWrite, stores
<1>15. CASE UNCHANGED vars
  BY <1>1, <1>15 DEF vars, memory, stores
<1> QED
  BY <1>2, <1>3, <1>4, <1>6, <1>7, <1>8, <1>9, <1>10, <1>11, <1>12, <1>13, <1>14, <1>15
  DEF Next, Environment, Start, Step, Crash, Exit

\* Whatever flags are used and however often the job dies: a date that a range
\* run finished shares no objectId with an earlier day, unless the run never
\* saw that day's ids (build_bronze_range.py:382-447, bronze/dedup.py:10-62).
THEOREM FirstDaysKeepNotices == Spec => []FirstDayKeepsNotice
<1>1. Init => FirstInv
  BY InitIInv DEF Init, NoJob, IInv, FirstInv, SeenEarlier, Held, FirstDayKeepsNotice
<1>2. FirstInv /\ [Next]_vars => FirstInv'
  BY TypeNext, ControlNext, ContentsNext, WritingNext, FirstInvNext DEF FirstInv
<1>3. FirstInv => FirstDayKeepsNotice
  BY DEF FirstInv
<1> QED
  BY <1>1, <1>2, <1>3, PTL DEF Spec
=============================================================================
