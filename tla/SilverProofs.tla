---------------------------- MODULE SilverProofs -----------------------------
(***************************************************************************)
(* Proofs about Silver for any number of jobs, days, notice types, models, *)
(* notices and versions of the code.                                       *)
(***************************************************************************)
EXTENDS Silver, TLAPS

USE ConstantsAssumption, NoManifestAssumption
USE DEF Days, Types, Versions

-----------------------------------------------------------------------------
(* Type correctness.                                                       *)

LEMMA JobType ==
  ASSUME TypeOK, NEW p \in Jobs
  PROVE  /\ job[p] \in Job
         /\ DaysOf(job[p]) \subseteq Days
         /\ \A t \in Types : PartitionsOf(t, job[p]) \subseteq Partition
         /\ cursor[p] \in Days /\ cursor[p] \in DaysOf(job[p])
         /\ job[p].silver \in Versions /\ job[p].upstream \in Versions
<1>1. job[p] \in Job /\ cursor[p] \in DaysOf(job[p])
  BY DEF TypeOK
<1>2. job[p].first \in Days /\ job[p].last \in Days
  BY <1>1 DEF Job
<1>3. DaysOf(job[p]) \subseteq Days
  BY <1>2 DEF DaysOf
<1> QED
  BY <1>1, <1>3 DEF PartitionsOf, Partition, Job

LEMMA NoJobType == NoJob \in Job /\ NoStages \in [Types -> Ended] /\ 1 \in DaysOf(NoJob)
BY DEF NoJob, Job, NoStages, Ended, DaysOf

\* The tables an earlier run's rows may be left in.
Known == Models \cup {Envelope, Quarantine}

LEMMA TypeRecord ==
  ASSUME TypeOK, NEW table \in Known, NEW keys, NEW ok, Record(table, keys, ok)
  PROVE  unswept' \in [Partition -> SUBSET Known]
BY DEF TypeOK, Record, Known

LEMMA TypeInit == Init => TypeOK
BY NoJobType DEF Init, TypeOK, Manifest

LEMMA TypeEnd ==
  ASSUME TypeOK, NEW p \in Jobs, End(p)
  PROVE  TypeOK'
BY NoJobType DEF TypeOK, End, stores

LEMMA TypeStart ==
  ASSUME TypeOK, NEW p \in Jobs, NEW j \in Job, j.first <= j.last, Start(p, j)
  PROVE  TypeOK'
<1>1. j.first \in DaysOf(j)
  BY DEF Job, DaysOf
<1>2. cursor' \in [Jobs -> Days]
  BY DEF TypeOK, Start, Job
<1>3. \A q \in Jobs : cursor'[q] \in DaysOf(job'[q])
  BY <1>1 DEF TypeOK, Start
<1> QED
  BY <1>2, <1>3 DEF TypeOK, Start, stores

LEMMA TypeEnterBatches ==
  ASSUME TypeOK, NEW p \in Jobs, EnterBatches(p)
  PROVE  /\ pc' \in [Jobs -> {"idle", "envelope", "quarantine", "batches"}]
         /\ stage' \in [Jobs -> [Types -> {"waiting"} \cup Active \cup Ended]]
BY DEF TypeOK, EnterBatches, Ended

LEMMA TypeGoTo ==
  ASSUME TypeOK, NEW p \in Jobs, NEW t \in Types, NEW next \in Active \cup Ended, GoTo(p, t, next)
  PROVE  stage' \in [Jobs -> [Types -> {"waiting"} \cup Active \cup Ended]]
BY DEF TypeOK, GoTo

LEMMA TypeNext == TypeOK /\ [Next]_vars => TypeOK'
<1> SUFFICES ASSUME TypeOK, [Next]_vars PROVE TypeOK'
  OBVIOUS
<1>1. ASSUME NEW s \in Versions, NEW u \in Versions, Deploy(s, u) PROVE TypeOK'
  BY <1>1 DEF TypeOK, Deploy, memory
<1>2. ASSUME NEW p \in Jobs, Crash(p) \/ Exit(p) PROVE TypeOK'
  BY <1>2, TypeEnd DEF Crash, Exit
<1>3. ASSUME NEW p \in Jobs, NEW r \in Ranges, NEW force \in ForceFlags, StartRange(p, r, force)
      PROVE  TypeOK'
  <2> DEFINE j == [kind |-> "range", first |-> r[1], last |-> r[2], force |-> force,
                   silver |-> code.silver, upstream |-> code.upstream]
  <2>1. r[1] \in Days /\ r[2] \in Days /\ r[1] <= r[2]
    BY DEF DateRange
  <2>2. j \in Job /\ j.first <= j.last
    BY <2>1 DEF Job, TypeOK
  <2> QED
    BY <1>3, <2>2, TypeStart DEF StartRange
<1>4. ASSUME NEW p \in Jobs, NEW d \in Days, StartDay(p, d) PROVE TypeOK'
  <2> DEFINE j == [kind |-> "day", first |-> d, last |-> d, force |-> FALSE,
                   silver |-> code.silver, upstream |-> code.upstream]
  <2>1. j \in Job /\ j.first <= j.last
    BY DEF Job, TypeOK
  <2> QED
    BY <1>4, <2>1, TypeStart DEF StartDay
<1>5. ASSUME NEW p \in Jobs, NEW ok, DeleteEnvelope(p, ok) PROVE TypeOK'
  <2>1. copies' \in [Partition -> 0 .. MaxCopies]
    BY <1>5 DEF DeleteEnvelope, TypeOK
  <2>2. /\ pc' \in [Jobs -> {"idle", "envelope", "quarantine", "batches"}]
        /\ stage' \in [Jobs -> [Types -> {"waiting"} \cup Active \cup Ended]]
    BY <1>5, TypeEnterBatches DEF DeleteEnvelope, TypeOK
  <2>3. unswept' \in [Partition -> SUBSET Known]
    BY <1>5, TypeRecord DEF DeleteEnvelope, Known
  <2> QED
    BY <1>5, <2>1, <2>2, <2>3 DEF DeleteEnvelope, TypeOK, Known
<1>6. ASSUME NEW p \in Jobs, NEW ok, DeleteQuarantine(p, ok) PROVE TypeOK'
  <2>1. quarantine' \in [Partition -> SUBSET Ids]
    BY <1>6 DEF DeleteQuarantine, TypeOK
  <2>2. unswept' \in [Partition -> SUBSET Known]
    BY <1>6, TypeRecord DEF DeleteQuarantine, Known
  <2> QED
    BY <1>6, <2>1, <2>2, TypeEnterBatches DEF DeleteQuarantine, TypeOK, Known
<1>7. ASSUME NEW p \in Jobs, NEW t \in Types, SkipType(p, t) PROVE TypeOK'
  BY <1>7, TypeGoTo DEF SkipType, TypeOK, stores, Ended
<1>8. ASSUME NEW p \in Jobs, NEW t \in Types, BeginBatch(p, t) PROVE TypeOK'
  <2>1. todo' \in [Jobs -> [Types -> SUBSET Models]]
    BY <1>8 DEF BeginBatch, TypeOK, ModelsOf
  <2> QED
    BY <1>8, <2>1, TypeGoTo DEF BeginBatch, TypeOK, stores, Active
<1>9. ASSUME NEW p \in Jobs, NEW t \in Types, NEW m \in Models, NEW ok,
             PredeleteTable(p, t, m, ok)
      PROVE  TypeOK'
  <2>1. sections' \in [Models -> [Partition -> SUBSET (Ids \X Versions)]]
    BY <1>9 DEF PredeleteTable, TypeOK
  <2>2. todo' \in [Jobs -> [Types -> SUBSET Models]]
    BY <1>9 DEF PredeleteTable, TypeOK
  <2>3. unswept' \in [Partition -> SUBSET Known]
    BY <1>9, TypeRecord DEF PredeleteTable, Known
  <2> QED
    BY <1>9, <2>1, <2>2, <2>3 DEF PredeleteTable, TypeOK, Known
<1>10. ASSUME NEW p \in Jobs, NEW t \in Types, NEW m \in Models, WriteSection(p, t, m)
       PROVE  TypeOK'
  <2>1. \A k \in Partition : Parsed(m, k, job[p].silver) \subseteq Ids \X Versions
    BY JobType DEF Parsed
  <2>2. sections' \in [Models -> [Partition -> SUBSET (Ids \X Versions)]]
    BY <1>10, <2>1 DEF WriteSection, TypeOK
  <2>3. todo' \in [Jobs -> [Types -> SUBSET Models]]
    BY <1>10 DEF WriteSection, TypeOK
  <2>4. unswept' \in [Partition -> SUBSET Known]
    BY <1>10, TypeRecord DEF WriteSection, Known
  <2> QED
    BY <1>10, <2>2, <2>3, <2>4 DEF WriteSection, TypeOK, Known
<1>11. ASSUME NEW p \in Jobs, NEW t \in Types, ReadBatch(p, t) PROVE TypeOK'
  <2>1. todo' \in [Jobs -> [Types -> SUBSET Models]]
    <3>1. ModelsOf(t) \subseteq Models
      BY DEF ModelsOf
    <3>2. todo' = todo \/ todo' = [todo EXCEPT ![p][t] = ModelsOf(t)]
      BY <1>11 DEF ReadBatch
    <3>3. todo \in [Jobs -> [Types -> SUBSET Models]]
      BY DEF TypeOK
    <3>4. [todo EXCEPT ![p][t] = ModelsOf(t)] \in [Jobs -> [Types -> SUBSET Models]]
      BY <1>11, <3>1, <3>3
    <3> QED
      BY <3>2, <3>3, <3>4
  <2>2. stage' \in [Jobs -> [Types -> {"waiting"} \cup Active \cup Ended]]
    BY <1>11, TypeGoTo DEF ReadBatch, Active, Ended
  <2> QED
    BY <1>11, <2>1, <2>2 DEF ReadBatch, TypeOK, stores
<1>12. ASSUME NEW p \in Jobs, NEW t \in Types, WriteQuarantine(p, t) PROVE TypeOK'
  <2>1. \A k \in Partition : ToQuarantine(k, job[p].silver) \subseteq Ids
    BY DEF ToQuarantine
  <2>2. quarantine' \in [Partition -> SUBSET Ids]
    BY <1>12, <2>1 DEF WriteQuarantine, TypeOK
  <2>3. unswept' \in [Partition -> SUBSET Known]
    BY <1>12, TypeRecord DEF WriteQuarantine, Known
  <2> QED
    BY <1>12, <2>2, <2>3, TypeGoTo DEF WriteQuarantine, TypeOK, Active, Known
<1>13. ASSUME NEW p \in Jobs, NEW t \in Types, AppendEnvelope(p, t) PROVE TypeOK'
  <2>1. copies' \in [Partition -> 0 .. MaxCopies]
    BY <1>13 DEF AppendEnvelope, TypeOK
  <2>2. stage' \in [Jobs -> [Types -> {"waiting"} \cup Active \cup Ended]]
    BY <1>13, TypeGoTo DEF AppendEnvelope, Active, Ended
  <2> QED
    BY <1>13, <2>1, <2>2 DEF AppendEnvelope, TypeOK
<1>14. ASSUME NEW p \in Jobs, NEW t \in Types, WriteRangeManifest(p, t) PROVE TypeOK'
  <2>1. manifest' \in [Partition -> Manifest]
    BY <1>14, JobType DEF WriteRangeManifest, WriteProcessedManifest, RangeHash, Manifest,
                          Hashes, Deps, TypeOK, Partition
  <2>2. stage' \in [Jobs -> [Types -> {"waiting"} \cup Active \cup Ended]]
    BY <1>14, TypeGoTo DEF WriteRangeManifest, Ended, TypeOK
  <2>3. \A q \in Jobs : cursor'[q] \in DaysOf(job[q])
    <3> SUFFICES ASSUME NEW q \in Jobs PROVE cursor'[q] \in DaysOf(job[q])
      OBVIOUS
    <3>1. /\ job[p].first \in Int /\ job[p].last \in Int /\ cursor[p] \in Int
          /\ job[p].first <= cursor[p] /\ cursor[p] <= job[p].last
      BY JobType DEF Job, DaysOf
    <3>2. CASE q = p
      BY <1>14, <3>1, <3>2 DEF WriteRangeManifest, DaysOf, TypeOK
    <3>3. CASE q # p
      BY <1>14, <3>3 DEF WriteRangeManifest, TypeOK
    <3> QED
      BY <3>2, <3>3
  <2>4. cursor' \in [Jobs -> Days]
    <3>1. \A q \in Jobs : cursor'[q] \in Days
      BY <2>3, JobType
    <3>2. DOMAIN cursor' = Jobs /\ cursor' = [q \in Jobs |-> cursor'[q]]
      BY <1>14 DEF WriteRangeManifest, TypeOK
    <3> QED
      BY <3>1, <3>2
  <2> QED
    BY <1>14, <2>1, <2>2, <2>3, <2>4 DEF WriteRangeManifest, TypeOK
<1>15. ASSUME NEW p \in Jobs, NEW t \in Types, WriteDayManifest(p, t) PROVE TypeOK'
  <2>1. job[p].first \in Days
    BY JobType DEF Job
  <2>2. manifest' \in [Partition -> Manifest]
    BY <1>15, <2>1, JobType DEF WriteDayManifest, WriteProcessedManifest, DayHash, Manifest,
                                Hashes, Deps, TypeOK, Partition
  <2> QED
    BY <1>15, <2>2, TypeGoTo DEF WriteDayManifest, TypeOK, Ended
<1>16. ASSUME NEW p \in Jobs, NEW t \in Types, FailBatch(p, t) PROVE TypeOK'
  BY <1>16, TypeGoTo DEF FailBatch, TypeOK, stores, Ended
<1>17. CASE UNCHANGED vars
  BY <1>17 DEF TypeOK, vars, stores, memory
<1> QED
  BY <1>1, <1>2, <1>3, <1>4, <1>5, <1>6, <1>7, <1>8, <1>9, <1>10, <1>11, <1>12, <1>13,
     <1>14, <1>15, <1>16, <1>17
  DEF Next, Begin, Batch

\* Every variable keeps its type, and a range job that writes manifests never
\* leaves the dates of its range (pipeline_orchestrator.py:1060-1085).
THEOREM TypeCorrect == Spec => []TypeOK
BY TypeInit, TypeNext, PTL DEF Spec

-----------------------------------------------------------------------------
(* What a step leaves alone.                                               *)

Step(q) == Crash(q) \/ Begin(q) \/ Exit(q) \/ \E t \in Types : Batch(q, t)

\* A step changes nothing of a partition.
RowsKept(k) ==
  /\ \A m \in Models : sections'[m][k] = sections[m][k]
  /\ quarantine'[k] = quarantine[k] /\ copies'[k] = copies[k]
  /\ manifest'[k] = manifest[k] /\ unswept'[k] = unswept[k]

\* A process changes no other process's memory.
LEMMA OthersKeepMemory ==
  ASSUME TypeOK, NEW q \in Jobs, Step(q), NEW p \in Jobs, p # q
  PROVE  /\ pc'[p] = pc[p] /\ job'[p] = job[p]
         /\ \A t \in Types : stage'[p][t] = stage[p][t] /\ todo'[p][t] = todo[p][t]
<1>1. ASSUME NEW j, Start(q, j)
      PROVE  pc'[p] = pc[p] /\ job'[p] = job[p] /\ stage' = stage /\ todo' = todo
  BY <1>1 DEF Start, TypeOK
<1>2. CASE Crash(q) \/ Exit(q)
  BY <1>2 DEF Crash, Exit, End, TypeOK
<1>3. CASE Begin(q)
  <2>1. ASSUME NEW ok, DeleteEnvelope(q, ok) \/ DeleteQuarantine(q, ok)
        PROVE  pc'[p] = pc[p] /\ job' = job /\ stage'[p] = stage[p] /\ todo' = todo
    BY <2>1 DEF DeleteEnvelope, DeleteQuarantine, EnterBatches, TypeOK
  <2> QED
    BY <1>1, <1>3, <2>1 DEF Begin, StartRange, StartDay
<1>4. ASSUME NEW t \in Types, Batch(q, t)
      PROVE  pc' = pc /\ job' = job /\ stage'[p] = stage[p] /\ todo'[p] = todo[p]
  BY <1>4 DEF Batch, SkipType, BeginBatch, PredeleteTable, WriteSection, ReadBatch,
              WriteQuarantine, AppendEnvelope, WriteRangeManifest, WriteDayManifest, FailBatch,
              GoTo, TypeOK
<1> QED
  BY <1>2, <1>3, <1>4 DEF Step

\* A step on a section table.
SectionStep(p, t) ==
  \E m \in Models : (\E ok : PredeleteTable(p, t, m, ok)) \/ WriteSection(p, t, m)

LEMMA SectionStepKeeps ==
  ASSUME TypeOK, NEW p \in Jobs, NEW t \in Types, SectionStep(p, t)
  PROVE  /\ UNCHANGED <<quarantine, copies, manifest, code, pc, job, stage, cursor>>
         /\ stage[p][t] \in {"predelete", "sections"}
         /\ \A u \in Types \ {t} : todo'[p][u] = todo[p][u]
         /\ \A k \in Partition :
              /\ Quarantine \in unswept[k] => Quarantine \in unswept'[k]
              /\ Envelope \in unswept[k] => Envelope \in unswept'[k]
<1>1. PICK m \in Models : (\E ok : PredeleteTable(p, t, m, ok)) \/ WriteSection(p, t, m)
  BY DEF SectionStep
<1>2. m # Quarantine /\ m # Envelope
  OBVIOUS
<1>3. CASE WriteSection(p, t, m)
  BY <1>2, <1>3 DEF WriteSection, Record, TypeOK
<1>4. ASSUME NEW ok, PredeleteTable(p, t, m, ok)
      PROVE  /\ UNCHANGED <<quarantine, copies, manifest, code, pc, job, stage, cursor>>
             /\ stage[p][t] \in {"predelete", "sections"}
             /\ \A u \in Types \ {t} : todo'[p][u] = todo[p][u]
             /\ \A k \in Partition :
                  /\ Quarantine \in unswept[k] => Quarantine \in unswept'[k]
                  /\ Envelope \in unswept[k] => Envelope \in unswept'[k]
  BY <1>2, <1>4 DEF PredeleteTable, Record, TypeOK
<1> QED
  BY <1>1, <1>3, <1>4

LEMMA WriteQuarantineStages ==
  ASSUME NEW p \in Jobs, NEW t \in Types, WriteQuarantine(p, t)
  PROVE  /\ stage[p][t] = "sections" /\ stage' = [stage EXCEPT ![p][t] = "append"]
         /\ todo[p][t] = {} /\ todo' = todo
<1>1. GoTo(p, t, "append") /\ stage[p][t] = "sections" /\ todo[p][t] = {} /\ todo' = todo
  BY DEF WriteQuarantine
<1> QED
  BY <1>1 DEF GoTo

LEMMA BatchSteps ==
  ASSUME NEW p \in Jobs, NEW t \in Types, Batch(p, t)
  PROVE  \/ SectionStep(p, t)
         \/ SkipType(p, t) \/ BeginBatch(p, t) \/ ReadBatch(p, t) \/ WriteQuarantine(p, t)
         \/ AppendEnvelope(p, t) \/ WriteRangeManifest(p, t) \/ WriteDayManifest(p, t)
         \/ FailBatch(p, t)
BY DEF Batch, SectionStep

\* A batch changes no other type's control and nothing but its own partitions.
LEMMA BatchIsLocal ==
  ASSUME TypeOK, NEW p \in Jobs, NEW t \in Types, Batch(p, t)
  PROVE  /\ UNCHANGED <<code, pc, job>>
         /\ \A u \in Types \ {t} : stage'[p][u] = stage[p][u] /\ todo'[p][u] = todo[p][u]
         /\ \A k \in Partition \ PartitionsOf(t, job[p]) :
              RowsKept(k)
<1>1. UNCHANGED <<code, pc, job>>
  BY BatchSteps, SectionStepKeeps
  DEF SkipType, BeginBatch, ReadBatch, stores, WriteQuarantine, AppendEnvelope,
      WriteRangeManifest, WriteDayManifest, FailBatch
<1>2. \A u \in Types \ {t} : stage'[p][u] = stage[p][u] /\ todo'[p][u] = todo[p][u]
  <2>1. CASE SectionStep(p, t)
    BY <2>1, SectionStepKeeps
  <2>2. CASE SkipType(p, t) \/ BeginBatch(p, t) \/ ReadBatch(p, t) \/ FailBatch(p, t)
    BY <2>2 DEF SkipType, BeginBatch, ReadBatch, FailBatch, GoTo, TypeOK
  <2>3. CASE WriteQuarantine(p, t) \/ AppendEnvelope(p, t)
    BY <2>3, WriteQuarantineStages DEF AppendEnvelope, GoTo, TypeOK
  <2>4. CASE WriteRangeManifest(p, t) \/ WriteDayManifest(p, t)
    BY <2>4 DEF WriteRangeManifest, WriteDayManifest, GoTo, TypeOK
  <2> QED
    BY <2>1, <2>2, <2>3, <2>4, BatchSteps
<1>3. ASSUME NEW k \in Partition \ PartitionsOf(t, job[p])
      PROVE  RowsKept(k)
  <2>1. <<t, cursor[p]>> \in PartitionsOf(t, job[p])
    BY JobType DEF PartitionsOf
  <2>2. job[p].kind = "day" => <<t, job[p].first>> \in PartitionsOf(t, job[p])
    <3>1. job[p].first \in Days /\ job[p].first <= job[p].last
      BY JobType DEF Job, DaysOf
    <3> QED
      BY <3>1, JobType DEF PartitionsOf, DaysOf, Job
  <2>3. CASE SkipType(p, t) \/ BeginBatch(p, t) \/ ReadBatch(p, t) \/ FailBatch(p, t)
    BY <2>3 DEF SkipType, BeginBatch, ReadBatch, FailBatch, stores, RowsKept
  <2>4. ASSUME NEW m \in Models, NEW ok, PredeleteTable(p, t, m, ok) \/ WriteSection(p, t, m)
        PROVE  RowsKept(k)
    <3>1. CASE PredeleteTable(p, t, m, ok)
      BY <1>3, <3>1 DEF PredeleteTable, TypeOK, Record, RowsKept
    <3>2. CASE WriteSection(p, t, m)
      BY <1>3, <3>2 DEF WriteSection, TypeOK, Record, RowsKept
    <3> QED
      BY <2>4, <3>1, <3>2
  <2>5. CASE WriteQuarantine(p, t) \/ AppendEnvelope(p, t)
    BY <1>3, <2>5 DEF WriteQuarantine, AppendEnvelope, Record, RowsKept
  <2>6. CASE WriteRangeManifest(p, t)
    BY <1>3, <2>1, <2>6 DEF WriteRangeManifest, WriteProcessedManifest, TypeOK, RowsKept
  <2>7. CASE WriteDayManifest(p, t)
    BY <1>3, <2>2, <2>7 DEF WriteDayManifest, WriteProcessedManifest, TypeOK, RowsKept
  <2> QED
    BY <2>3, <2>4, <2>5, <2>6, <2>7 DEF Batch
<1> QED
  BY <1>1, <1>2, <1>3

\* A process changes no partition outside the days of its job.
LEMMA OtherDaysKeepRows ==
  ASSUME TypeOK, NEW q \in Jobs, Step(q), NEW k \in Partition, k[2] \notin DaysOf(job[q])
  PROVE  RowsKept(k)
<1>1. ASSUME UNCHANGED <<stores, unswept>>
      PROVE  RowsKept(k)
  BY <1>1 DEF stores, RowsKept
<1>2. CASE Crash(q) \/ Exit(q)
  BY <1>1, <1>2 DEF Crash, Exit, End
<1>3. CASE Begin(q)
  <2>1. ASSUME NEW ok, DeleteEnvelope(q, ok) \/ DeleteQuarantine(q, ok)
        PROVE  RowsKept(k)
    <3>1. CASE DeleteEnvelope(q, ok)
      BY <3>1 DEF DeleteEnvelope, Record, JobPartitions, RowsKept
    <3>2. CASE DeleteQuarantine(q, ok)
      BY <3>2 DEF DeleteQuarantine, Record, JobPartitions, RowsKept
    <3> QED
      BY <2>1, <3>1, <3>2
  <2> QED
    BY <1>1, <1>3, <2>1 DEF Begin, StartRange, StartDay, Start
<1>4. ASSUME NEW t \in Types, Batch(q, t)
      PROVE  RowsKept(k)
  <2>1. k \notin PartitionsOf(t, job[q])
    BY DEF PartitionsOf, Partition
  <2> QED
    BY <1>4, <2>1, BatchIsLocal
<1> QED
  BY <1>2, <1>3, <1>4 DEF Step

-----------------------------------------------------------------------------
(***************************************************************************)
(* The inductive invariant, when operators keep jobs on different days.    *)
(*   Control    which stages go with where a job is,                       *)
(*   Apart      that two running jobs share no day,                        *)
(*   Tables     what a batch has deleted and written in each stage of it,  *)
(*   Routed     the same of the quarantine,                                *)
(*   Appended   the same of the envelope.                                  *)
(***************************************************************************)
Control(p) ==
  /\ pc[p] # "batches" => \A t \in Types : stage[p][t] = "skipped"
  /\ \A t \in Types : stage[p][t] = "predelete" => job[p].kind = "range"

Apart(p, q) ==
  pc[p] # "idle" /\ pc[q] # "idle" => DaysOf(job[p]) \cap DaysOf(job[q]) = {}

AppendedOn(p, t) == stage[p][t] \in {"manifests", "done"}
WrittenOn(p, t) == stage[p][t] = "append" \/ AppendedOn(p, t)

\* A range job's tables are empty before it writes them, but where its pre-delete
\* was swallowed; what a job has no rows for it leaves as it is.
Table(p, t, m, k) ==
  /\ stage[p][t] = "predelete" /\ m \notin todo[p][t] => sections[m][k] = {} \/ m \in unswept[k]
  /\ stage[p][t] = "sections" /\ m \in todo[p][t] /\ job[p].kind = "range" =>
       sections[m][k] = {} \/ m \in unswept[k]
  /\ WrittenOn(p, t) \/ (stage[p][t] = "sections" /\ m \notin todo[p][t]) =>
       \/ sections[m][k] = Parsed(m, k, job[p].silver)
       \/ /\ Parsed(m, k, job[p].silver) = {}
          /\ job[p].kind = "day" \/ m \in unswept[k]
Tables(p, t) == \A m \in ModelsOf(t) : \A k \in PartitionsOf(t, job[p]) : Table(p, t, m, k)

Routing(p, t, k) ==
  /\ stage[p][t] \in {"waiting", "predelete", "sections"} /\ job[p].kind = "range" =>
       quarantine[k] = {} \/ Quarantine \in unswept[k]
  /\ WrittenOn(p, t) =>
       \/ quarantine[k] = ToQuarantine(k, job[p].silver)
       \/ /\ ToQuarantine(k, job[p].silver) = {}
          /\ job[p].kind = "day" \/ Quarantine \in unswept[k]
Routed(p, t) ==
  t \in Named => \A k \in PartitionsOf(t, job[p]) : Routing(p, t, k)

Appending(p, t, k) ==
  /\ pc[p] = "quarantine" => copies[k] = 0 \/ Envelope \in unswept[k]
  /\ stage[p][t] \in {"waiting", "predelete", "sections", "append"} =>
       copies[k] = 0 \/ Envelope \in unswept[k]
  /\ AppendedOn(p, t) =>
       \/ copies[k] = IF Stored[k] = {} THEN 0 ELSE 1
       \/ Envelope \in unswept[k] /\ (Stored[k] = {} \/ copies[k] >= 1)
Appended(p, t) == \A k \in PartitionsOf(t, job[p]) : Appending(p, t, k)

LEMMA NextCases ==
  ASSUME [Next]_vars
  PROVE  \/ UNCHANGED vars
         \/ \E s, u \in Versions : Deploy(s, u)
         \/ \E q \in Jobs : Step(q)
BY DEF Next, Step

LEMMA ControlNext ==
  ASSUME TypeOK, \A p \in Jobs : Control(p), [Next]_vars
  PROVE  \A p \in Jobs : Control(p)'
<1> SUFFICES ASSUME NEW p \in Jobs PROVE Control(p)'
  OBVIOUS
<1>1. CASE UNCHANGED vars \/ \E s, u \in Versions : Deploy(s, u)
  BY <1>1 DEF vars, memory, Deploy, Control
<1>2. ASSUME NEW q \in Jobs, Step(q), q # p PROVE Control(p)'
  <2>1. /\ pc'[p] = pc[p] /\ job'[p] = job[p]
        /\ \A t \in Types : stage'[p][t] = stage[p][t]
    BY <1>2, OthersKeepMemory
  <2> QED
    BY <2>1 DEF Control
<1>3. CASE Crash(p) \/ Exit(p)
  BY <1>3 DEF Crash, Exit, End, Control, NoStages, TypeOK
<1>4. ASSUME NEW j, Start(p, j) PROVE Control(p)'
  BY <1>4 DEF Start, Control, TypeOK
<1>5. ASSUME EnterBatches(p), job' = job PROVE Control(p)'
  BY <1>5 DEF EnterBatches, Control, TypeOK
<1>6. ASSUME NEW ok, DeleteEnvelope(p, ok) \/ DeleteQuarantine(p, ok)
      PROVE  Control(p)'
  <2>1. CASE job[p].kind = "range" /\ DeleteEnvelope(p, ok)
    BY <2>1 DEF DeleteEnvelope, Control, TypeOK
  <2> QED
    BY <1>5, <1>6, <2>1 DEF DeleteEnvelope, DeleteQuarantine
<1>7. ASSUME NEW t \in Types, Batch(p, t) PROVE Control(p)'
  <2>1. UNCHANGED <<pc, job>> /\ \A u \in Types \ {t} : stage'[p][u] = stage[p][u]
    BY <1>7, BatchIsLocal
  <2>2. pc[p] = "batches"
    BY <1>7 DEF Batch, SkipType, CanBegin, BeginBatch, PredeleteTable, WriteSection, ReadBatch,
                WriteQuarantine, AppendEnvelope, WriteRangeManifest, WriteDayManifest,
                FailBatch, Control, Active
  <2>3. ASSUME stage'[p][t] = "predelete" PROVE job[p].kind = "range"
    <3>1. CASE stage'[p][t] = stage[p][t]
      BY <2>3, <3>1 DEF Control
    <3>2. CASE BeginBatch(p, t)
      BY <2>3, <3>2 DEF BeginBatch, GoTo, TypeOK
    <3>3. CASE SectionStep(p, t)
      BY <3>1, <3>3, SectionStepKeeps
    <3>4. ~SkipType(p, t) /\ ~ReadBatch(p, t) /\ ~FailBatch(p, t)
      BY <2>3 DEF SkipType, ReadBatch, FailBatch, GoTo, TypeOK
    <3>5. ~WriteQuarantine(p, t) /\ ~AppendEnvelope(p, t)
      BY <2>3, WriteQuarantineStages DEF AppendEnvelope, GoTo, TypeOK
    <3>6. CASE WriteRangeManifest(p, t) \/ WriteDayManifest(p, t)
      BY <2>3, <3>1, <3>6 DEF WriteRangeManifest, WriteDayManifest, GoTo, TypeOK
    <3> QED
      BY <1>7, <3>2, <3>3, <3>4, <3>5, <3>6, BatchSteps
  <2> QED
    BY <2>1, <2>2, <2>3 DEF Control
<1> QED
  BY <1>1, <1>2, <1>3, <1>4, <1>6, <1>7, NextCases
  DEF Step, Begin, StartRange, StartDay

LEMMA ApartNext ==
  ASSUME Overlapping = FALSE, TypeOK, \A p \in Jobs : Control(p),
         \A p, q \in Jobs : p # q => Apart(p, q), [Next]_vars
  PROVE  \A p, q \in Jobs : p # q => Apart(p, q)'
<1> SUFFICES ASSUME NEW p \in Jobs, NEW q \in Jobs, p # q PROVE Apart(p, q)'
  OBVIOUS
<1>1. CASE UNCHANGED vars \/ \E s, u \in Versions : Deploy(s, u)
  BY <1>1 DEF vars, memory, Deploy, Apart
\* Only the start of a job brings new days in.
<1>2. ASSUME NEW r \in Jobs, Step(r), NEW o \in Jobs, o # r, ~ \E j : Start(r, j)
      PROVE  Apart(o, r)' /\ Apart(r, o)'
  <2>1. pc'[o] = pc[o] /\ job'[o] = job[o]
    BY <1>2, OthersKeepMemory
  <2>2. pc'[r] = "idle" \/ (pc[r] # "idle" /\ job'[r] = job[r])
    <3>1. CASE Crash(r) \/ Exit(r)
      BY <3>1 DEF Crash, Exit, End, TypeOK
    <3>2. ASSUME NEW ok, DeleteEnvelope(r, ok) \/ DeleteQuarantine(r, ok)
          PROVE  pc[r] # "idle" /\ job'[r] = job[r]
      BY <3>2 DEF DeleteEnvelope, DeleteQuarantine
    <3>3. ASSUME NEW t \in Types, Batch(r, t) PROVE pc[r] # "idle" /\ job'[r] = job[r]
      BY <3>3 DEF Batch, SkipType, CanBegin, BeginBatch, PredeleteTable, WriteSection,
         ReadBatch, WriteQuarantine, AppendEnvelope, WriteRangeManifest, WriteDayManifest,
         FailBatch, Control, Active
    <3> QED
      BY <1>2, <3>1, <3>2, <3>3 DEF Step, Begin, StartRange, StartDay
  <2> QED
    BY <1>2, <2>1, <2>2 DEF Apart
<1>3. ASSUME NEW r \in Jobs, NEW o \in Jobs, o # r, NEW j, Start(r, j)
      PROVE  Apart(o, r)' /\ Apart(r, o)'
  <2>1. pc'[o] = pc[o] /\ job'[o] = job[o] /\ job'[r] = j
    BY <1>3 DEF Start, TypeOK
  <2>2. pc[o] # "idle" => DaysOf(job[o]) \cap DaysOf(j) = {}
    BY <1>3 DEF Start, Free
  <2> QED
    BY <2>1, <2>2 DEF Apart
<1>4. ASSUME NEW r \in Jobs, Step(r), r # p, r # q PROVE Apart(p, q)'
  BY <1>4, OthersKeepMemory DEF Apart
<1> QED
  BY <1>1, <1>2, <1>3, <1>4, NextCases

\* A process that runs keeps off the partitions of another one.
LEMMA OthersKeepRows ==
  ASSUME TypeOK, NEW p \in Jobs, NEW q \in Jobs, Control(q), Apart(p, q), pc[p] # "idle",
         Step(q), NEW t \in Types, NEW k \in PartitionsOf(t, job[p])
  PROVE  RowsKept(k)
<1>1. k \in Partition /\ k[2] \in DaysOf(job[p])
  BY JobType DEF PartitionsOf
<1>2. CASE pc[q] # "idle"
  <2>1. k[2] \notin DaysOf(job[q])
    BY <1>1, <1>2 DEF Apart
  <2> QED
    BY <1>1, <2>1, OtherDaysKeepRows
<1>3. CASE pc[q] = "idle"
  <2>1. UNCHANGED <<stores, unswept>>
    BY <1>3 DEF Step, Crash, Exit, End, Begin, StartRange, StartDay, Start, DeleteEnvelope,
       DeleteQuarantine, Batch, SkipType, CanBegin, BeginBatch, PredeleteTable, WriteSection,
       ReadBatch, WriteQuarantine, AppendEnvelope, WriteRangeManifest, WriteDayManifest,
       FailBatch, Control, Active
  <2> QED
    BY <2>1 DEF stores, RowsKept
<1> QED
  BY <1>2, <1>3

\* What a step does to the batch of type t of process p, and to its partitions.
Kept(p, t) ==
  /\ pc'[p] = pc[p] /\ job'[p] = job[p]
  /\ stage'[p][t] = stage[p][t] /\ todo'[p][t] = todo[p][t]
  /\ \A k \in PartitionsOf(t, job[p]) :
       RowsKept(k)
Started(p) ==
  /\ UNCHANGED <<stores, unswept>>
  /\ job'[p].silver = code.silver /\ job'[p].upstream = code.upstream
NoBatch(p, t) ==
  /\ stage'[p][t] = "skipped" /\ pc'[p] # "quarantine"
  /\ pc'[p] = "idle" \/ Started(p)

LEMMA BatchCases ==
  ASSUME TypeOK, \A p \in Jobs : Control(p), \A p, q \in Jobs : p # q => Apart(p, q),
         [Next]_vars, NEW p \in Jobs, NEW t \in Types
  PROVE  \/ Kept(p, t)
         \/ NoBatch(p, t)
         \/ \E ok : DeleteEnvelope(p, ok) \/ DeleteQuarantine(p, ok)
         \/ Batch(p, t)
<1>1. CASE UNCHANGED vars \/ \E s, u \in Versions : Deploy(s, u)
  BY <1>1 DEF vars, stores, memory, Deploy, Kept, RowsKept
<1>2. ASSUME NEW q \in Jobs, Step(q), q # p PROVE Kept(p, t) \/ NoBatch(p, t)
  <2>1. /\ pc'[p] = pc[p] /\ job'[p] = job[p]
        /\ stage'[p][t] = stage[p][t] /\ todo'[p][t] = todo[p][t]
    BY <1>2, OthersKeepMemory
  <2>2. CASE pc[p] = "idle"
    BY <2>1, <2>2 DEF NoBatch, Control
  <2>3. CASE pc[p] # "idle"
    <3>1. \A k \in PartitionsOf(t, job[p]) :
            RowsKept(k)
      BY <1>2, <2>3, OthersKeepRows
    <3> QED
      BY <2>1, <3>1 DEF Kept
  <2> QED
    BY <2>2, <2>3
<1>3. CASE Crash(p) \/ Exit(p)
  BY <1>3 DEF Crash, Exit, End, NoBatch, NoStages, TypeOK
<1>4. ASSUME NEW j, Start(p, j), j.silver = code.silver, j.upstream = code.upstream
      PROVE  NoBatch(p, t)
  BY <1>4 DEF Start, NoBatch, Started, Control, TypeOK
<1>5. ASSUME NEW u \in Types, u # t, Batch(p, u) PROVE Kept(p, t)
  <2>1. /\ UNCHANGED <<pc, job>>
        /\ stage'[p][t] = stage[p][t] /\ todo'[p][t] = todo[p][t]
    BY <1>5, BatchIsLocal
  <2>2. ASSUME NEW k \in PartitionsOf(t, job[p])
        PROVE  k \in Partition \ PartitionsOf(u, job[p])
    BY <1>5, <2>2, JobType DEF PartitionsOf
  <2>3. \A k \in PartitionsOf(t, job[p]) :
          RowsKept(k)
    BY <1>5, <2>2, BatchIsLocal
  <2> QED
    BY <2>1, <2>3 DEF Kept
<1> QED
  BY <1>1, <1>2, <1>3, <1>4, <1>5, NextCases DEF Step, Begin, StartRange, StartDay

LEMMA TablesNext ==
  ASSUME TypeOK, \A p \in Jobs : Control(p), \A p, q \in Jobs : p # q => Apart(p, q),
         \A p \in Jobs : \A t \in Types : Tables(p, t), [Next]_vars
  PROVE  \A p \in Jobs : \A t \in Types : Tables(p, t)'
<1> SUFFICES ASSUME NEW p \in Jobs, NEW t \in Types,
                    NEW m \in ModelsOf(t), NEW k \in PartitionsOf(t, job'[p])
             PROVE  Table(p, t, m, k)'
  BY DEF Tables
<1> DEFINE rows == Parsed(m, k, job[p].silver)
<1>1. m \in Models
  BY DEF ModelsOf
<1>2. CASE Kept(p, t)
  <2>1. Table(p, t, m, k)
    BY <1>2 DEF Kept, Tables
  <2>2. sections'[m][k] = sections[m][k] /\ unswept'[k] = unswept[k]
    BY <1>1, <1>2 DEF Kept, RowsKept
  <2> QED
    BY <1>2, <2>1, <2>2 DEF Kept, Table, WrittenOn, AppendedOn
<1>3. CASE NoBatch(p, t)
  BY <1>3 DEF NoBatch, Table, WrittenOn, AppendedOn
<1>4. ASSUME NEW ok, DeleteEnvelope(p, ok) \/ DeleteQuarantine(p, ok)
      PROVE  Table(p, t, m, k)'
  <2>1. stage'[p][t] \in {"waiting", "skipped"}
    BY <1>4 DEF DeleteEnvelope, DeleteQuarantine, EnterBatches, Control, TypeOK
  <2> QED
    BY <2>1 DEF Table, WrittenOn, AppendedOn
<1>5. CASE Batch(p, t)
  <2>1. job' = job /\ k \in PartitionsOf(t, job[p]) /\ k \in Partition /\ Table(p, t, m, k)
    BY <1>5, BatchIsLocal, JobType DEF Tables
  <2>2. CASE SkipType(p, t) \/ FailBatch(p, t)
    <3>1. stage'[p][t] \in {"skipped", "failed"}
      BY <2>2 DEF SkipType, FailBatch, GoTo, TypeOK
    <3> QED
      BY <3>1 DEF Table, WrittenOn, AppendedOn
  <2>3. CASE BeginBatch(p, t)
    <3>1. /\ todo'[p][t] = ModelsOf(t)
          /\ stage'[p][t] = IF job[p].kind = "range" THEN "predelete" ELSE "sections"
      BY <2>3 DEF BeginBatch, GoTo, TypeOK
    <3> QED
      BY <2>1, <3>1 DEF Table, WrittenOn, AppendedOn
  <2>4. ASSUME NEW n \in Models, NEW ok, PredeleteTable(p, t, n, ok)
        PROVE  Table(p, t, m, k)'
    <3>1. /\ stage[p][t] = "predelete" /\ stage' = stage
          /\ todo'[p][t] = todo[p][t] \ {n}
      BY <2>4 DEF PredeleteTable, TypeOK
    <3>2. CASE n = m
      <4>1. sections'[m][k] = IF ok THEN {} ELSE sections[m][k]
        BY <1>1, <2>1, <2>4, <3>2 DEF PredeleteTable, TypeOK
      <4>2. ~ok /\ sections[m][k] # {} => m \in unswept'[k]
        BY <2>1, <2>4, <3>2 DEF PredeleteTable, Record
      <4> QED
        BY <2>1, <3>1, <4>1, <4>2 DEF Table, WrittenOn, AppendedOn
    <3>3. CASE n # m
      <4>1. sections'[m][k] = sections[m][k]
        BY <1>1, <2>1, <2>4, <3>3 DEF PredeleteTable, TypeOK
      <4>2. m \in unswept[k] => m \in unswept'[k]
        BY <2>1, <2>4, <3>3 DEF PredeleteTable, Record
      <4> QED
        BY <2>1, <3>1, <3>3, <4>1, <4>2 DEF Table, WrittenOn, AppendedOn
    <3> QED
      BY <3>2, <3>3
  <2>5. CASE ReadBatch(p, t)
    <3>1. /\ stage[p][t] = "predelete" /\ todo[p][t] = {}
          /\ UNCHANGED <<sections, unswept>>
      BY <2>5 DEF ReadBatch, stores
    <3>2. sections[m][k] = {} \/ m \in unswept[k]
      BY <2>1, <3>1 DEF Table
    <3>3. CASE \A l \in PartitionsOf(t, job[p]) : Stored[l] = {}
      <4>1. rows = {}
        BY <2>1, <3>3 DEF Parsed
      <4>2. stage'[p][t] \in {"manifests", "done"}
        BY <2>5, <3>3 DEF ReadBatch, GoTo, TypeOK
      <4> QED
        BY <2>1, <3>1, <3>2, <4>1, <4>2 DEF Table, WrittenOn, AppendedOn
    <3>4. CASE ~ \A l \in PartitionsOf(t, job[p]) : Stored[l] = {}
      <4>1. stage'[p][t] = "sections" /\ todo'[p][t] = ModelsOf(t)
        BY <2>5, <3>4 DEF ReadBatch, GoTo, TypeOK
      <4> QED
        BY <2>1, <3>1, <3>2, <4>1 DEF Table, WrittenOn, AppendedOn
    <3> QED
      BY <3>3, <3>4
  <2>6. ASSUME NEW n \in Models, WriteSection(p, t, n) PROVE Table(p, t, m, k)'
    <3>1. /\ stage[p][t] = "sections" /\ stage' = stage /\ n \in todo[p][t]
          /\ todo'[p][t] = todo[p][t] \ {n}
      BY <2>6 DEF WriteSection, TypeOK
    <3>2. sections'[m][k] = IF n = m /\ rows # {} THEN rows ELSE sections[m][k]
      BY <1>1, <2>1, <2>6 DEF WriteSection, TypeOK
    <3>6. (n # m \/ rows = {}) /\ m \in unswept[k] => m \in unswept'[k]
      BY <2>1, <2>6 DEF WriteSection, Record
    <3>3. job[p].kind \in {"range", "day"}
      BY JobType DEF Job
    <3>4. CASE n = m
      BY <2>1, <3>1, <3>2, <3>3, <3>4, <3>6 DEF Table, WrittenOn, AppendedOn
    <3>5. CASE n # m
      BY <2>1, <3>1, <3>2, <3>5, <3>6 DEF Table, WrittenOn, AppendedOn
    <3> QED
      BY <3>4, <3>5
  <2>7. CASE WriteQuarantine(p, t)
    <3>1. /\ stage[p][t] = "sections" /\ todo[p][t] = {} /\ stage'[p][t] = "append"
          /\ UNCHANGED <<sections, todo>>
      BY <2>7 DEF WriteQuarantine, GoTo, TypeOK
    <3>2. m \in unswept[k] => m \in unswept'[k]
      BY <1>1, <2>1, <2>7 DEF WriteQuarantine, Record
    <3> QED
      BY <2>1, <3>1, <3>2 DEF Table, WrittenOn, AppendedOn
  <2>8. CASE AppendEnvelope(p, t) \/ WriteRangeManifest(p, t) \/ WriteDayManifest(p, t)
    <3>1. WrittenOn(p, t) /\ WrittenOn(p, t)' /\ UNCHANGED <<sections, todo, unswept>>
      BY <2>8 DEF AppendEnvelope, WriteRangeManifest, WriteDayManifest, GoTo, WrittenOn,
                  AppendedOn, TypeOK
    <3>2. stage'[p][t] \notin {"predelete", "sections"}
      BY <3>1 DEF WrittenOn, AppendedOn
    <3> QED
      BY <2>1, <3>1, <3>2 DEF Table
  <2> QED
    BY <1>5, <2>2, <2>3, <2>4, <2>5, <2>6, <2>7, <2>8 DEF Batch
<1> QED
  BY <1>2, <1>3, <1>4, <1>5, BatchCases

LEMMA RoutedNext ==
  ASSUME TypeOK, \A p \in Jobs : Control(p), \A p, q \in Jobs : p # q => Apart(p, q),
         \A p \in Jobs : \A t \in Types : Routed(p, t), [Next]_vars
  PROVE  \A p \in Jobs : \A t \in Types : Routed(p, t)'
<1> SUFFICES ASSUME NEW p \in Jobs, NEW t \in Types, t \in Named,
                    NEW k \in PartitionsOf(t, job'[p])
             PROVE  Routing(p, t, k)'
  BY DEF Routed
<1> DEFINE rows == ToQuarantine(k, job[p].silver)
<1>1. CASE Kept(p, t)
  <2>1. Routing(p, t, k)
    BY <1>1 DEF Kept, Routed
  <2>2. quarantine'[k] = quarantine[k] /\ unswept'[k] = unswept[k]
    BY <1>1 DEF Kept, RowsKept
  <2> QED
    BY <1>1, <2>1, <2>2 DEF Kept, Routing, WrittenOn, AppendedOn
<1>2. CASE NoBatch(p, t)
  BY <1>2 DEF NoBatch, Routing, WrittenOn, AppendedOn
<1>3. ASSUME NEW ok, DeleteEnvelope(p, ok) PROVE Routing(p, t, k)'
  <2>1. job[p].kind = "range" => stage'[p][t] = "skipped"
    BY <1>3 DEF DeleteEnvelope, Control
  <2>2. job[p].kind # "range" => stage'[p][t] \in {"waiting", "skipped"}
    BY <1>3 DEF DeleteEnvelope, EnterBatches, TypeOK
  <2>3. job' = job
    BY <1>3 DEF DeleteEnvelope
  <2> QED
    BY <2>1, <2>2, <2>3 DEF Routing, WrittenOn, AppendedOn
<1>4. ASSUME NEW ok, DeleteQuarantine(p, ok) PROVE Routing(p, t, k)'
  <2>1. stage'[p][t] \in {"waiting", "skipped"} /\ job' = job
    BY <1>4 DEF DeleteQuarantine, EnterBatches, Control, TypeOK
  <2>2. k \in Partition /\ k[2] \in DaysOf(job[p])
    BY <2>1, JobType DEF PartitionsOf
  <2>3. quarantine'[k] = {} \/ Quarantine \in unswept'[k]
    <3>1. CASE ok
      BY <1>4, <2>2, <3>1 DEF DeleteQuarantine
    <3>2. CASE ~ok /\ quarantine[k] = {}
      BY <1>4, <2>2, <3>2 DEF DeleteQuarantine
    <3>3. CASE ~ok /\ quarantine[k] # {}
      BY <1>4, <2>2, <3>3 DEF DeleteQuarantine, Record, JobPartitions, Partition
    <3> QED
      BY <3>1, <3>2, <3>3
  <2> QED
    BY <2>1, <2>3 DEF Routing, WrittenOn, AppendedOn
<1>5. CASE Batch(p, t)
  <2>1. job' = job /\ k \in PartitionsOf(t, job[p]) /\ k \in Partition /\ Routing(p, t, k)
    BY <1>5, BatchIsLocal, JobType DEF Routed
  <2>2. CASE SkipType(p, t) \/ FailBatch(p, t)
    <3>1. stage'[p][t] \in {"skipped", "failed"}
      BY <2>2 DEF SkipType, FailBatch, GoTo, TypeOK
    <3> QED
      BY <3>1 DEF Routing, WrittenOn, AppendedOn
  <2>3. CASE BeginBatch(p, t) \/ SectionStep(p, t)
    <3>1. quarantine' = quarantine /\ (Quarantine \in unswept[k] => Quarantine \in unswept'[k])
      BY <2>1, <2>3, SectionStepKeeps DEF BeginBatch, stores
    <3>2. /\ stage[p][t] \in {"waiting", "predelete", "sections"}
          /\ stage'[p][t] \in {"waiting", "predelete", "sections"}
      BY <2>3, SectionStepKeeps DEF BeginBatch, CanBegin, GoTo, TypeOK
    <3> QED
      BY <2>1, <3>1, <3>2 DEF Routing, WrittenOn, AppendedOn
  <2>4. CASE ReadBatch(p, t)
    <3>1. /\ quarantine[k] = {} \/ Quarantine \in unswept[k]
          /\ UNCHANGED <<quarantine, unswept>>
      BY <2>1, <2>4 DEF ReadBatch, Routing, Control, stores
    <3>2. stage'[p][t] = "sections" \/ rows = {}
      BY <2>1, <2>4 DEF ReadBatch, GoTo, ToQuarantine, TypeOK
    <3> QED
      BY <2>1, <3>1, <3>2 DEF Routing, WrittenOn, AppendedOn
  <2>5. CASE WriteQuarantine(p, t)
    <3>1. stage[p][t] = "sections" /\ stage'[p][t] = "append"
      BY <2>5 DEF WriteQuarantine, GoTo, TypeOK
    <3>2. /\ quarantine'[k] = IF rows # {} THEN rows ELSE quarantine[k]
          /\ rows = {} /\ Quarantine \in unswept[k] => Quarantine \in unswept'[k]
      BY <2>1, <2>5 DEF WriteQuarantine, Record
    <3>3. job[p].kind \in {"range", "day"}
      BY JobType DEF Job
    <3> QED
      BY <2>1, <3>1, <3>2, <3>3 DEF Routing, WrittenOn, AppendedOn
  <2>6. CASE AppendEnvelope(p, t) \/ WriteRangeManifest(p, t) \/ WriteDayManifest(p, t)
    <3>1. WrittenOn(p, t) /\ WrittenOn(p, t)' /\ UNCHANGED <<quarantine, unswept>>
      BY <2>6 DEF AppendEnvelope, WriteRangeManifest, WriteDayManifest, GoTo, WrittenOn,
                  AppendedOn, TypeOK
    <3> QED
      BY <2>1, <3>1 DEF Routing, WrittenOn, AppendedOn
  <2> QED
    BY <1>5, <2>2, <2>3, <2>4, <2>5, <2>6, BatchSteps
<1> QED
  BY <1>1, <1>2, <1>3, <1>4, <1>5, BatchCases

LEMMA AppendedNext ==
  ASSUME TypeOK, \A p \in Jobs : Control(p), \A p, q \in Jobs : p # q => Apart(p, q),
         \A p \in Jobs : \A t \in Types : Appended(p, t), [Next]_vars
  PROVE  \A p \in Jobs : \A t \in Types : Appended(p, t)'
<1> SUFFICES ASSUME NEW p \in Jobs, NEW t \in Types, NEW k \in PartitionsOf(t, job'[p])
             PROVE  Appending(p, t, k)'
  BY DEF Appended
<1>1. CASE Kept(p, t)
  <2>1. Appending(p, t, k)
    BY <1>1 DEF Kept, Appended
  <2>2. copies'[k] = copies[k] /\ unswept'[k] = unswept[k]
    BY <1>1 DEF Kept, RowsKept
  <2> QED
    BY <1>1, <2>1, <2>2 DEF Kept, Appending, AppendedOn
<1>2. CASE NoBatch(p, t)
  BY <1>2 DEF NoBatch, Appending, AppendedOn
<1>3. ASSUME NEW ok, DeleteEnvelope(p, ok) \/ DeleteQuarantine(p, ok)
      PROVE  Appending(p, t, k)'
  <2>1. stage'[p][t] \in {"waiting", "skipped"} /\ job' = job
    BY <1>3 DEF DeleteEnvelope, DeleteQuarantine, EnterBatches, Control, TypeOK
  <2>2. k \in PartitionsOf(t, job[p]) /\ k \in Partition /\ k[2] \in DaysOf(job[p])
    BY <2>1, JobType DEF PartitionsOf
  <2>3. copies'[k] = 0 \/ Envelope \in unswept'[k]
    <3>1. CASE DeleteEnvelope(p, ok)
      <4>1. copies[k] \in Nat /\ k \in JobPartitions(job[p])
        BY <2>2 DEF TypeOK, JobPartitions, Partition
      <4>2. CASE ok
        BY <2>2, <3>1, <4>2 DEF DeleteEnvelope
      <4>3. CASE ~ok /\ copies[k] = 0
        BY <2>2, <3>1, <4>3 DEF DeleteEnvelope
      <4>4. CASE ~ok /\ copies[k] # 0
        <5>1. copies[k] > 0
          BY <4>1, <4>4
        <5> QED
          BY <2>2, <3>1, <4>1, <4>4, <5>1 DEF DeleteEnvelope, Record
      <4> QED
        BY <4>2, <4>3, <4>4
    <3>2. CASE DeleteQuarantine(p, ok)
      <4>1. copies[k] = 0 \/ Envelope \in unswept[k]
        BY <2>2, <3>2 DEF DeleteQuarantine, Appended, Appending
      <4>2. Envelope \in unswept[k] => Envelope \in unswept'[k]
        BY <2>2, <3>2 DEF DeleteQuarantine, Record, Envelope, Quarantine
      <4> QED
        BY <3>2, <4>1, <4>2 DEF DeleteQuarantine
    <3> QED
      BY <1>3, <3>1, <3>2
  <2> QED
    BY <2>1, <2>3 DEF Appending, AppendedOn
<1>4. CASE Batch(p, t)
  <2>1. /\ UNCHANGED <<pc, job>> /\ k \in PartitionsOf(t, job[p]) /\ k \in Partition
        /\ Appending(p, t, k)
    BY <1>4, BatchIsLocal, JobType DEF Appended
  <2>2. CASE SkipType(p, t) \/ FailBatch(p, t)
    <3>1. stage'[p][t] \in {"skipped", "failed"} /\ UNCHANGED <<copies, unswept>>
      BY <2>2 DEF SkipType, FailBatch, GoTo, stores, TypeOK
    <3> QED
      BY <2>1, <3>1 DEF Appending, AppendedOn
  <2>3. CASE BeginBatch(p, t) \/ WriteQuarantine(p, t) \/ SectionStep(p, t)
    <3>1. copies' = copies
      BY <2>3, SectionStepKeeps DEF BeginBatch, WriteQuarantine, stores
    <3>2. /\ stage[p][t] \in {"waiting", "predelete", "sections"}
          /\ stage'[p][t] \in {"waiting", "predelete", "sections", "append"}
      <4>1. CASE SectionStep(p, t)
        BY <4>1, SectionStepKeeps
      <4>2. CASE BeginBatch(p, t)
        BY <4>2 DEF BeginBatch, CanBegin, GoTo, TypeOK
      <4>3. CASE WriteQuarantine(p, t)
        BY <4>3 DEF WriteQuarantine, GoTo, TypeOK
      <4> QED
        BY <2>3, <4>1, <4>2, <4>3
    <3>3. Envelope \in unswept[k] => Envelope \in unswept'[k]
      <4>1. CASE WriteQuarantine(p, t)
        BY <2>1, <4>1 DEF WriteQuarantine, Record, Envelope, Quarantine
      <4> QED
        BY <2>1, <2>3, <4>1, SectionStepKeeps DEF BeginBatch
    <3> QED
      BY <2>1, <3>1, <3>2, <3>3 DEF Appending, AppendedOn
  <2>4. CASE ReadBatch(p, t)
    <3>1. (copies[k] = 0 \/ Envelope \in unswept[k]) /\ UNCHANGED <<copies, unswept>>
      BY <2>1, <2>4 DEF ReadBatch, Appending, stores
    <3>2. stage'[p][t] = "sections" \/ Stored[k] = {}
      BY <2>1, <2>4 DEF ReadBatch, GoTo, TypeOK
    <3> QED
      BY <2>1, <3>1, <3>2 DEF Appending, AppendedOn
  <2>5. CASE AppendEnvelope(p, t)
    <3>1. stage[p][t] = "append" /\ AppendedOn(p, t)'
      BY <2>5 DEF AppendEnvelope, GoTo, AppendedOn, TypeOK
    <3>2. /\ copies'[k] = IF Stored[k] = {} THEN copies[k] ELSE copies[k] + 1
          /\ copies[k] = 0 \/ Envelope \in unswept[k]
          /\ copies[k] \in Nat /\ unswept' = unswept
      BY <2>1, <2>5 DEF AppendEnvelope, Appending, TypeOK
    <3>3. pc[p] = "batches"
      BY <3>1 DEF Control
    <3> QED
      BY <2>1, <3>1, <3>2, <3>3 DEF Appending, AppendedOn
  <2>6. CASE WriteRangeManifest(p, t) \/ WriteDayManifest(p, t)
    <3>1. AppendedOn(p, t) /\ AppendedOn(p, t)' /\ UNCHANGED <<copies, unswept>>
      BY <2>6 DEF WriteRangeManifest, WriteDayManifest, GoTo, AppendedOn, TypeOK
    <3> QED
      BY <2>1, <3>1 DEF Appending, AppendedOn
  <2> QED
    BY <1>4, <2>2, <2>3, <2>4, <2>5, <2>6, BatchSteps
<1> QED
  BY <1>1, <1>2, <1>3, <1>4, BatchCases

LEMMA EnvelopeNext ==
  ASSUME TypeOK, \A p \in Jobs : \A t \in Types : Appended(p, t), EnvelopeHasNoDuplicates,
         [Next]_vars
  PROVE  EnvelopeHasNoDuplicates'
<1> SUFFICES ASSUME NEW k \in Partition PROVE Envelope \in unswept'[k] \/ copies'[k] <= 1
  BY DEF EnvelopeHasNoDuplicates
<1> DEFINE Same == /\ copies'[k] = copies[k]
                   /\ Envelope \in unswept[k] => Envelope \in unswept'[k]
<1>1. copies[k] \in Nat /\ (Envelope \in unswept[k] \/ copies[k] <= 1)
  BY DEF EnvelopeHasNoDuplicates, TypeOK
<1>2. ASSUME NEW p \in Jobs, NEW ok, DeleteEnvelope(p, ok)
      PROVE  Same \/ copies'[k] = 0
  <2>1. CASE ok /\ k[2] \in DaysOf(job[p])
    BY <1>2, <2>1 DEF DeleteEnvelope
  <2>2. CASE ok /\ k[2] \notin DaysOf(job[p])
    BY <1>2, <2>2 DEF DeleteEnvelope, Record, JobPartitions
  <2>3. CASE ~ok
    BY <1>2, <2>3 DEF DeleteEnvelope, Record
  <2> QED
    BY <2>1, <2>2, <2>3
<1>3. ASSUME NEW p \in Jobs, NEW t \in Types, AppendEnvelope(p, t)
      PROVE  Envelope \in unswept'[k] \/ copies'[k] <= 1
  <2>1. k \in PartitionsOf(t, job[p]) => copies[k] = 0 \/ Envelope \in unswept[k]
    BY <1>3 DEF AppendEnvelope, Appended, Appending
  <2> QED
    BY <1>1, <1>3, <2>1 DEF AppendEnvelope
<1>4. CASE Same \/ copies'[k] = 0
  BY <1>1, <1>4
<1>5. ASSUME NEW p \in Jobs, NEW t \in Types, Batch(p, t), ~AppendEnvelope(p, t)
      PROVE  Same
  <2>1. CASE SectionStep(p, t)
    BY <2>1, SectionStepKeeps
  <2>2. CASE WriteQuarantine(p, t)
    BY <2>2 DEF WriteQuarantine, Record, Envelope, Quarantine
  <2> QED
    BY <1>5, <2>1, <2>2, BatchSteps DEF SkipType, BeginBatch, ReadBatch, WriteRangeManifest,
       WriteDayManifest, FailBatch, stores
<1>6. ASSUME NEW p \in Jobs, NEW ok, DeleteQuarantine(p, ok) PROVE Same
  BY <1>6 DEF DeleteQuarantine, Record, Envelope, Quarantine
<1>7. ASSUME NEW p \in Jobs, NEW j, Start(p, j) PROVE Same
  BY <1>7 DEF Start, stores
<1>8. ASSUME NEW p \in Jobs, Crash(p) \/ Exit(p) PROVE Same
  BY <1>8 DEF Crash, Exit, End, stores
<1>9. CASE UNCHANGED vars \/ \E s, u \in Versions : Deploy(s, u)
  <2>1. UNCHANGED <<copies, unswept>>
    BY <1>9 DEF vars, stores, Deploy
  <2> QED
    BY <1>1, <1>4, <2>1
<1> HIDE DEF Same
<1> QED
  BY <1>2, <1>3, <1>4, <1>5, <1>6, <1>7, <1>8, <1>9, NextCases
  DEF Step, Begin, StartRange, StartDay

Isolated ==
  /\ TypeOK
  /\ \A p \in Jobs : Control(p)
  /\ \A p, q \in Jobs : p # q => Apart(p, q)

IInv ==
  /\ Isolated
  /\ \A p \in Jobs : \A t \in Types : Tables(p, t) /\ Routed(p, t) /\ Appended(p, t)
  /\ EnvelopeHasNoDuplicates

LEMMA IInvInit == Init => IInv
<1> SUFFICES ASSUME Init PROVE IInv
  OBVIOUS
<1>1. \A p \in Jobs : pc[p] = "idle" /\ \A t \in Types : stage[p][t] = "skipped"
  BY DEF Init, NoStages
<1>2. Isolated
  BY <1>1, TypeInit DEF Isolated, Control, Apart
<1>3. \A p \in Jobs : \A t \in Types : Tables(p, t) /\ Routed(p, t) /\ Appended(p, t)
  BY <1>1 DEF Tables, Table, Routed, Routing, Appended, Appending, WrittenOn, AppendedOn
<1>4. EnvelopeHasNoDuplicates
  BY DEF Init, EnvelopeHasNoDuplicates
<1> QED
  BY <1>2, <1>3, <1>4 DEF IInv

LEMMA IsolatedNext ==
  ASSUME Overlapping = FALSE, Isolated, [Next]_vars
  PROVE  Isolated'
BY TypeNext, ControlNext, ApartNext DEF Isolated

LEMMA IInvAlways ==
  ASSUME Overlapping = FALSE
  PROVE  Spec => []IInv
<1>1. ASSUME IInv, [Next]_vars PROVE IInv'
  <2>1. Isolated'
    BY <1>1, IsolatedNext DEF IInv
  <2>2. \A p \in Jobs : \A t \in Types : Tables(p, t)'
    BY <1>1, TablesNext DEF IInv, Isolated
  <2>3. \A p \in Jobs : \A t \in Types : Routed(p, t)'
    BY <1>1, RoutedNext DEF IInv, Isolated
  <2>4. \A p \in Jobs : \A t \in Types : Appended(p, t)'
    BY <1>1, AppendedNext DEF IInv, Isolated
  <2>5. EnvelopeHasNoDuplicates'
    BY <1>1, EnvelopeNext DEF IInv, Isolated
  <2> QED
    BY <2>1, <2>2, <2>3, <2>4, <2>5 DEF IInv
<1> QED
  BY <1>1, IInvInit, PTL DEF Spec

\* If operators keep running jobs on different days, the common envelope holds no
\* notice twice, whichever jobs die, fail batches or run again, but where its last
\* pre-delete was swallowed (pipeline_orchestrator.py:573, 638-647, 925-936).
THEOREM EnvelopesHaveNoDuplicates ==
  ASSUME Overlapping = FALSE
  PROVE  Spec => []EnvelopeHasNoDuplicates
<1>1. IInv => EnvelopeHasNoDuplicates
  BY DEF IInv
<1> QED
  BY IInvAlways, <1>1, PTL

\* Under the same condition, what a job has built of a type is complete: each
\* notice in the envelope, once unless the envelope's pre-delete was swallowed,
\* and parsed or in quarantine, whichever pre-deletes were swallowed
\* (pipeline_orchestrator.py:534-573).
THEOREM BuiltTypesAreAccounted ==
  ASSUME Overlapping = FALSE
  PROVE  Spec => []BuiltTypeIsAccounted
<1>1. ASSUME IInv PROVE BuiltTypeIsAccounted
  <2> SUFFICES ASSUME NEW p \in Jobs, NEW t \in Types, stage[p][t] = "done",
                      NEW k \in PartitionsOf(t, job[p])
               PROVE  /\ Stored[k] # {} =>
                           copies[k] = 1 \/ (Envelope \in unswept[k] /\ copies[k] > 1)
                      /\ t \in Named =>
                           \A i \in Stored[k] :
                             <<i, job[p].silver>> \in sections[Core][k] \/ i \in quarantine[k]
    BY DEF BuiltTypeIsAccounted
  <2> DEFINE v == job[p].silver
  <2>1. v \in Versions /\ k \in Partition /\ k[1] = t
    BY <1>1, JobType DEF PartitionsOf, IInv, Isolated
  <2>2. AppendedOn(p, t) /\ WrittenOn(p, t)
    BY DEF AppendedOn, WrittenOn
  <2>3. Stored[k] # {} => copies[k] = 1 \/ (Envelope \in unswept[k] /\ copies[k] > 1)
    <3>1. Appending(p, t, k) /\ copies[k] \in Nat
      BY <1>1, <2>1 DEF IInv, Isolated, TypeOK, Appended
    <3> QED
      BY <2>2, <3>1 DEF Appending
  <2>4. ASSUME t \in Named, NEW i \in Stored[k]
        PROVE  <<i, v>> \in sections[Core][k] \/ i \in quarantine[k]
    <3>1. i \in ToQuarantine(k, v) => i \in quarantine[k]
      BY <1>1, <2>2, <2>4 DEF IInv, Routed, Routing
    <3>2. t \in Profiled /\ <<i, v>> \in Parsed(Core, k, v) => <<i, v>> \in sections[Core][k]
      BY <1>1, <2>2 DEF IInv, Tables, Table, ModelsOf
    <3>3. i \in Ids
      BY <2>1, <2>4
    <3>4. i \in Rows[v][Core] \/ i \in Flagged[v]
      BY <2>1, <3>3
    <3>5. i \in ToQuarantine(k, v) \/ (t \in Profiled /\ <<i, v>> \in Parsed(Core, k, v))
      BY <2>1, <2>4, <3>4 DEF ToQuarantine, Parsed
    <3> QED
      BY <3>1, <3>2, <3>5
  <2> QED
    BY <2>3, <2>4
<1> QED
  BY IInvAlways, <1>1, PTL

\* Under the same condition, the tables and the quarantine of a type that a range
\* job has built hold what its code makes of bronze and nothing else, but for old
\* rows in partitions that should be empty and whose pre-delete was swallowed
\* (pipeline_orchestrator.py:185-191, 269-274, 937-946 and 1013).
THEOREM RangeBuildsLeaveNothingStale ==
  ASSUME Overlapping = FALSE
  PROVE  Spec => []RangeBuildLeavesNothingStale
<1>1. ASSUME IInv PROVE RangeBuildLeavesNothingStale
  <2> SUFFICES ASSUME NEW p \in Jobs, NEW t \in Named, stage[p][t] = "done",
                      job[p].kind = "range", NEW k \in PartitionsOf(t, job[p])
               PROVE  /\ \/ quarantine[k] = ToQuarantine(k, job[p].silver)
                         \/ LeftOver(Quarantine, k, ToQuarantine(k, job[p].silver))
                      /\ \A m \in ModelsOf(t) :
                           \/ sections[m][k] = Parsed(m, k, job[p].silver)
                           \/ LeftOver(m, k, Parsed(m, k, job[p].silver))
    BY DEF RangeBuildLeavesNothingStale
  <2>1. t \in Types /\ WrittenOn(p, t)
    BY DEF WrittenOn, AppendedOn
  <2>2. Routing(p, t, k) /\ \A m \in ModelsOf(t) : Table(p, t, m, k)
    BY <1>1, <2>1 DEF IInv, Routed, Tables
  <2> QED
    BY <2>1, <2>2 DEF Routing, Table, LeftOver
<1> QED
  BY IInvAlways, <1>1, PTL

-----------------------------------------------------------------------------
(***************************************************************************)
(* Skipped ranges.  The inductive invariant, when jobs are kept apart,     *)
(* nobody uses --force and two ranges are the same or share no day:        *)
(*   NotNewer      a manifest is no newer than given versions,             *)
(*   Versioned     the manifests of a job's days are no newer than its     *)
(*                 code, and its code is no newer than the deployed one,   *)
(*   Unfinished    a range whose tables are being deleted has a date whose *)
(*                 manifest does not match.                                *)
(***************************************************************************)
NotNewer(m, silver, upstream) ==
  m # NoManifest => m.script.silver <= silver /\ m.deps <= upstream

Arguments(p) ==
  pc[p] # "idle" =>
    /\ job[p].silver <= code.silver /\ job[p].upstream <= code.upstream
    /\ job[p].kind = "range" =>
         <<job[p].first, job[p].last>> \in Ranges /\ job[p].force \in ForceFlags
    /\ job[p].kind = "day" => job[p].first = job[p].last

Versioned(p, t) ==
  pc[p] # "idle" => \A k \in PartitionsOf(t, job[p]) :
    NotNewer(manifest[k], job[p].silver, job[p].upstream)

Unfinished(p, t) ==
  stage[p][t] = "predelete" /\ t \in Named =>
    \E k \in PartitionsOf(t, job[p]) :
      ~IsAlreadyProcessed(manifest[k], RangeHash(job[p].silver), job[p].upstream)

RangesApart ==
  \A r, s \in Ranges : r # s => (r[1] .. r[2]) \cap (s[1] .. s[2]) = {}

ManifestInv ==
  /\ Isolated
  /\ \A k \in Partition : NotNewer(manifest[k], code.silver, code.upstream)
  /\ \A p \in Jobs : Arguments(p)
  /\ \A p \in Jobs : \A t \in Types : Tables(p, t) /\ Versioned(p, t) /\ Unfinished(p, t)
  /\ SkippableRangeIsCurrent

\* A step of a running process, but for its end, goes on with the same job.
LEMMA JobGoesOn ==
  ASSUME TypeOK, NEW p \in Jobs, Control(p), Step(p)
  PROVE  /\ code' = code
         /\ \/ pc'[p] = "idle"
            \/ pc[p] # "idle" /\ job'[p] = job[p]
            \/ \E r \in Ranges, force \in ForceFlags : StartRange(p, r, force)
            \/ \E d \in Days : StartDay(p, d)
<1>1. CASE Crash(p) \/ Exit(p)
  BY <1>1 DEF Crash, Exit, End, stores, TypeOK
<1>2. ASSUME NEW ok, DeleteEnvelope(p, ok) \/ DeleteQuarantine(p, ok)
      PROVE  code' = code /\ pc[p] # "idle" /\ job'[p] = job[p]
  BY <1>2 DEF DeleteEnvelope, DeleteQuarantine
<1>3. ASSUME NEW t \in Types, Batch(p, t) PROVE code' = code /\ pc[p] # "idle" /\ job'[p] = job[p]
  BY <1>3 DEF Batch, SkipType, CanBegin, BeginBatch, PredeleteTable, WriteSection, stores,
     ReadBatch, WriteQuarantine, AppendEnvelope, WriteRangeManifest, WriteDayManifest,
     FailBatch, Control, Active
<1>4. ASSUME NEW j, Start(p, j) PROVE code' = code
  BY <1>4 DEF Start, stores
<1> QED
  BY <1>1, <1>2, <1>3, <1>4 DEF Step, Begin, StartRange, StartDay

LEMMA ArgumentsNext ==
  ASSUME TypeOK, \A p \in Jobs : Control(p), \A p \in Jobs : Arguments(p), [Next]_vars
  PROVE  \A p \in Jobs : Arguments(p)'
<1> SUFFICES ASSUME NEW p \in Jobs PROVE Arguments(p)'
  OBVIOUS
<1>1. CASE UNCHANGED vars
  BY <1>1 DEF vars, stores, memory, Arguments
<1>2. ASSUME NEW s \in Versions, NEW u \in Versions, Deploy(s, u) PROVE Arguments(p)'
  <2>1. /\ code'.silver >= code.silver /\ code'.upstream >= code.upstream
        /\ UNCHANGED <<pc, job>> /\ code'.silver \in Versions /\ code'.upstream \in Versions
    BY <1>2 DEF Deploy, memory
  <2>2. code.silver \in Versions /\ code.upstream \in Versions
    BY DEF TypeOK
  <2> QED
    BY <2>1, <2>2, JobType DEF Arguments
<1>3. ASSUME NEW q \in Jobs, Step(q), q # p PROVE Arguments(p)'
  <2>1. code' = code /\ pc'[p] = pc[p] /\ job'[p] = job[p]
    BY <1>3, OthersKeepMemory, JobGoesOn
  <2> QED
    BY <2>1 DEF Arguments
<1>4. ASSUME NEW r \in Ranges, NEW force \in ForceFlags, StartRange(p, r, force)
      PROVE  Arguments(p)'
  <2>1. /\ job'[p].kind = "range" /\ job'[p].first = r[1] /\ job'[p].last = r[2]
        /\ job'[p].force = force /\ job'[p].silver = code.silver
        /\ job'[p].upstream = code.upstream /\ code' = code
    BY <1>4 DEF StartRange, Start, stores, TypeOK
  <2>2. r = <<r[1], r[2]>>
    BY DEF DateRange
  <2>3. code.silver \in Nat /\ code.upstream \in Nat
    BY DEF TypeOK
  <2> HIDE DEF Days, Types, Versions
  <2> QED
    BY <2>1, <2>2, <2>3 DEF Arguments
<1>5. ASSUME NEW d \in Days, StartDay(p, d) PROVE Arguments(p)'
  <2>1. /\ job'[p].kind = "day" /\ job'[p].first = d /\ job'[p].last = d
        /\ job'[p].silver = code.silver /\ job'[p].upstream = code.upstream /\ code' = code
    BY <1>5 DEF StartDay, Start, stores, TypeOK
  <2>2. code.silver \in Versions /\ code.upstream \in Versions
    BY DEF TypeOK
  <2> QED
    BY <2>1, <2>2 DEF Arguments
<1>6. CASE Step(p)
  <2>1. CASE pc'[p] = "idle"
    BY <2>1 DEF Arguments
  <2>2. CASE pc[p] # "idle" /\ job'[p] = job[p] /\ code' = code
    BY <2>2 DEF Arguments
  <2> QED
    BY <1>4, <1>5, <1>6, <2>1, <2>2, JobGoesOn
<1> QED
  BY <1>1, <1>2, <1>3, <1>6, NextCases

\* A batch writes no manifest but those of its partitions, with its job's code.
LEMMA ManifestWrites ==
  ASSUME TypeOK, NEW p \in Jobs, NEW t \in Types, Batch(p, t), NEW k \in Partition
  PROVE  \/ manifest'[k] = manifest[k]
         \/ /\ stage[p][t] = "manifests"
            /\ k \in PartitionsOf(t, job[p])
            /\ manifest'[k] \in
                 {[script |-> RangeHash(job[p].silver), deps |-> job[p].upstream],
                  [script |-> DayHash(job[p].silver), deps |-> NoDeps]}
            /\ job[p].kind = "day" => manifest'[k].script.entry = "day"
            /\ UNCHANGED <<sections, unswept>>
<1>1. CASE k \notin PartitionsOf(t, job[p])
  BY <1>1, BatchIsLocal DEF RowsKept
<1>2. CASE WriteRangeManifest(p, t) /\ k \in PartitionsOf(t, job[p])
  BY <1>2 DEF WriteRangeManifest, WriteProcessedManifest, TypeOK
<1>3. CASE WriteDayManifest(p, t) /\ k \in PartitionsOf(t, job[p])
  BY <1>3 DEF WriteDayManifest, WriteProcessedManifest, DayHash, TypeOK
<1>4. CASE ~WriteRangeManifest(p, t) /\ ~WriteDayManifest(p, t)
  BY <1>4 DEF Batch, SkipType, BeginBatch, PredeleteTable, WriteSection, ReadBatch,
     WriteQuarantine, AppendEnvelope, FailBatch, stores
<1> QED
  BY <1>1, <1>2, <1>3, <1>4

LEMMA NotNewerNext ==
  ASSUME TypeOK, \A p \in Jobs : Control(p), \A p \in Jobs : Arguments(p),
         \A k \in Partition : NotNewer(manifest[k], code.silver, code.upstream), [Next]_vars
  PROVE  \A k \in Partition : NotNewer(manifest'[k], code'.silver, code'.upstream)
<1> SUFFICES ASSUME NEW k \in Partition
             PROVE  NotNewer(manifest'[k], code'.silver, code'.upstream)
  OBVIOUS
<1>1. NotNewer(manifest[k], code.silver, code.upstream)
  OBVIOUS
<1>2. CASE UNCHANGED vars
  BY <1>1, <1>2 DEF vars, stores
<1>3. ASSUME NEW s \in Versions, NEW u \in Versions, Deploy(s, u)
      PROVE  NotNewer(manifest'[k], code'.silver, code'.upstream)
  <2>1. /\ code'.silver = s /\ code'.upstream = u /\ s >= code.silver /\ u >= code.upstream
        /\ manifest' = manifest
    BY <1>3 DEF Deploy
  <2>2. code.silver \in Versions /\ code.upstream \in Versions
    BY DEF TypeOK
  <2>3. manifest[k] # NoManifest =>
          manifest[k].script.silver \in Versions /\ manifest[k].deps \in Int
    BY DEF TypeOK, Manifest, Hashes, Deps, NoDeps
  <2> QED
    BY <1>1, <1>3, <2>1, <2>2, <2>3 DEF NotNewer
<1>4. ASSUME NEW q \in Jobs, Step(q) PROVE NotNewer(manifest'[k], code'.silver, code'.upstream)
  <2>1. code' = code
    BY <1>4, JobGoesOn
  <2>2. CASE \A t \in Types : ~Batch(q, t)
    <3>1. manifest' = manifest
      BY <1>4, <2>2 DEF Step, Crash, Exit, End, Begin, StartRange, StartDay, Start,
         DeleteEnvelope, DeleteQuarantine, stores
    <3> QED
      BY <1>1, <2>1, <3>1
  <2>3. ASSUME NEW t \in Types, Batch(q, t)
        PROVE  NotNewer(manifest'[k], code'.silver, code'.upstream)
    <3>1. CASE manifest'[k] = manifest[k]
      BY <1>1, <2>1, <3>1
    <3>2. CASE manifest'[k] # manifest[k]
      <4>1. pc[q] # "idle"
        BY <2>3, <3>2, ManifestWrites DEF Control
      <4>2. job[q].silver <= code.silver /\ job[q].upstream <= code.upstream
        BY <4>1 DEF Arguments
      <4>3. job[q].upstream \in Nat /\ code.upstream \in Nat
        BY JobType DEF TypeOK
      <4> QED
        BY <2>1, <2>3, <3>2, <4>2, <4>3, ManifestWrites
        DEF NotNewer, RangeHash, DayHash, NoDeps
    <3> QED
      BY <3>1, <3>2
  <2> QED
    BY <2>2, <2>3
<1> QED
  BY <1>2, <1>3, <1>4, NextCases

LEMMA VersionedNext ==
  ASSUME TypeOK, \A p \in Jobs : Control(p), \A p, q \in Jobs : p # q => Apart(p, q),
         \A k \in Partition : NotNewer(manifest[k], code.silver, code.upstream),
         \A p \in Jobs : \A t \in Types : Versioned(p, t), [Next]_vars
  PROVE  \A p \in Jobs : \A t \in Types : Versioned(p, t)'
<1> SUFFICES ASSUME NEW p \in Jobs, NEW t \in Types, pc'[p] # "idle",
                    NEW k \in PartitionsOf(t, job'[p])
             PROVE  NotNewer(manifest'[k], job'[p].silver, job'[p].upstream)
  BY DEF Versioned
<1>1. CASE Kept(p, t)
  BY <1>1 DEF Kept, RowsKept, Versioned
<1>2. CASE NoBatch(p, t)
  <2>1. Started(p)
    BY <1>2 DEF NoBatch
  <2>2. TypeOK'
    BY TypeNext
  <2>3. PartitionsOf(t, job'[p]) \subseteq Partition
    <3>1. job'[p] \in Job
      BY <2>2 DEF TypeOK
    <3> QED
      BY <3>1 DEF PartitionsOf, DaysOf, Partition, Job
  <2> QED
    BY <2>1, <2>3 DEF Started, stores
<1>3. ASSUME NEW ok, DeleteEnvelope(p, ok) \/ DeleteQuarantine(p, ok)
      PROVE  NotNewer(manifest'[k], job'[p].silver, job'[p].upstream)
  <2>1. UNCHANGED <<manifest, job>> /\ pc[p] # "idle"
    BY <1>3 DEF DeleteEnvelope, DeleteQuarantine
  <2> QED
    BY <2>1 DEF Versioned
<1>4. CASE Batch(p, t)
  <2>1. UNCHANGED <<pc, job>> /\ k \in Partition
    BY <1>4, BatchIsLocal, JobType
  <2>2. NotNewer(manifest[k], job[p].silver, job[p].upstream)
    BY <2>1 DEF Versioned
  <2>3. job[p].silver \in Nat /\ job[p].upstream \in Nat
    BY JobType
  <2> QED
    BY <1>4, <2>1, <2>2, <2>3, ManifestWrites DEF NotNewer, RangeHash, DayHash, NoDeps
<1> QED
  BY <1>1, <1>2, <1>3, <1>4, BatchCases

LEMMA UnfinishedNext ==
  ASSUME ForceFlags \subseteq {FALSE},
         TypeOK, \A p \in Jobs : Control(p), \A p, q \in Jobs : p # q => Apart(p, q),
         \A p \in Jobs : Arguments(p),
         \A p \in Jobs : \A t \in Types : Unfinished(p, t), [Next]_vars
  PROVE  \A p \in Jobs : \A t \in Types : Unfinished(p, t)'
<1> SUFFICES ASSUME NEW p \in Jobs, NEW t \in Types, stage'[p][t] = "predelete", t \in Named
             PROVE  \E k \in PartitionsOf(t, job'[p]) :
                      ~IsAlreadyProcessed(manifest'[k], RangeHash(job'[p].silver),
                                          job'[p].upstream)
  BY DEF Unfinished
<1>1. CASE Kept(p, t)
  <2>1. PICK k \in PartitionsOf(t, job[p]) :
          ~IsAlreadyProcessed(manifest[k], RangeHash(job[p].silver), job[p].upstream)
    BY <1>1 DEF Kept, Unfinished
  <2>2. manifest'[k] = manifest[k] /\ job'[p] = job[p]
    BY <1>1 DEF Kept, RowsKept
  <2> QED
    BY <2>1, <2>2
<1>2. ~NoBatch(p, t)
  BY DEF NoBatch
<1>3. ASSUME NEW ok, DeleteEnvelope(p, ok) \/ DeleteQuarantine(p, ok)
      PROVE  FALSE
  BY <1>3 DEF DeleteEnvelope, DeleteQuarantine, EnterBatches, Control, TypeOK
<1>4. CASE BeginBatch(p, t)
  <2>1. pc[p] # "idle" /\ job[p].kind = "range"
    BY <1>4 DEF BeginBatch, CanBegin, GoTo, TypeOK
  <2>2. ~job[p].force
    BY <2>1 DEF Arguments
  <2>3. job' = job /\ manifest' = manifest
    BY <1>4 DEF BeginBatch, stores
  <2> QED
    BY <1>4, <2>1, <2>2, <2>3 DEF BeginBatch, SkipGuard
<1>5. CASE \E m \in Models : \E ok : PredeleteTable(p, t, m, ok)
  <2>1. UNCHANGED <<stage, job, manifest>>
    BY <1>5 DEF PredeleteTable
  <2> QED
    BY <2>1 DEF Unfinished
<1>6. CASE Batch(p, t) /\ ~BeginBatch(p, t) /\ ~ \E m \in Models : \E ok : PredeleteTable(p, t, m, ok)
  <2>1. stage'[p][t] # "predelete"
    <3>1. CASE \E m \in Models : WriteSection(p, t, m)
      BY <3>1 DEF WriteSection
    <3> QED
      <4>1. CASE SkipType(p, t) \/ ReadBatch(p, t) \/ FailBatch(p, t)
        BY <4>1 DEF SkipType, ReadBatch, FailBatch, GoTo, TypeOK
      <4>2. CASE WriteQuarantine(p, t) \/ AppendEnvelope(p, t)
        BY <4>2, WriteQuarantineStages DEF AppendEnvelope, GoTo, TypeOK
      <4>3. CASE WriteRangeManifest(p, t) \/ WriteDayManifest(p, t)
        BY <4>3 DEF WriteRangeManifest, WriteDayManifest, GoTo, TypeOK
      <4> QED
        BY <1>6, <3>1, <4>1, <4>2, <4>3 DEF Batch
  <2> QED
    BY <2>1
<1> QED
  BY <1>1, <1>2, <1>3, <1>4, <1>5, <1>6, BatchCases

\* A manifest of a job's day that matches the deployed code was written by the
\* job's own code: had newer code been deployed, none of its days could match.
LEMMA MatchedIsJobs ==
  ASSUME TypeOK, NEW p \in Jobs, NEW t \in Types, pc[p] # "idle", Arguments(p), Versioned(p, t),
         NEW k \in PartitionsOf(t, job[p]), Match(k)
  PROVE  job[p].silver = code.silver /\ job[p].upstream = code.upstream
<1>1. /\ manifest[k] # NoManifest
      /\ manifest[k].script.silver = code.silver /\ manifest[k].deps = code.upstream
  BY DEF Match, IsAlreadyProcessed, RangeHash
<1>2. code.silver <= job[p].silver /\ code.upstream <= job[p].upstream
  BY <1>1 DEF Versioned, NotNewer
<1>3. job[p].silver <= code.silver /\ job[p].upstream <= code.upstream
  BY DEF Arguments
<1>4. /\ code.silver \in Int /\ code.upstream \in Int
      /\ job[p].silver \in Int /\ job[p].upstream \in Int
  BY JobType DEF TypeOK
<1> QED
  BY <1>2, <1>3, <1>4

\* A table holds what the deployed code makes, or old rows that a swallowed
\* pre-delete left where there should be none.
Current(m, k) ==
  \/ sections[m][k] = Parsed(m, k, code.silver)
  \/ m \in unswept[k] /\ Parsed(m, k, code.silver) = {}

LEMMA SkippableNext ==
  ASSUME RangesApart, ManifestInv, [Next]_vars
  PROVE  SkippableRangeIsCurrent'
<1> SUFFICES ASSUME NEW t \in Named, NEW r \in Ranges,
                    \A k \in {t} \X (r[1] .. r[2]) : Match(k)',
                    NEW m \in ModelsOf(t), NEW k \in {t} \X (r[1] .. r[2])
             PROVE  Current(m, k)'
  BY DEF SkippableRangeIsCurrent, Current, LeftOver
<1> DEFINE partitions == {t} \X (r[1] .. r[2])
<1> USE DEF ManifestInv, Isolated
<1>1. /\ t \in Types /\ m \in Models
      /\ partitions \subseteq Partition /\ k \in partitions
  <2>1. r[1] \in Days /\ r[2] \in Days
    BY DEF DateRange
  <2> QED
    BY <2>1 DEF ModelsOf, Partition
<1>2. ASSUME \A l \in partitions : manifest'[l] = manifest[l], code' = code
      PROVE  /\ \A l \in partitions : Match(l)
             /\ Current(m, k)
  <2>1. \A l \in partitions : Match(l)
    BY <1>2 DEF Match
  <2> QED
    BY <1>1, <1>2, <2>1 DEF SkippableRangeIsCurrent, Current, LeftOver
<1>3. CASE UNCHANGED vars
  BY <1>2, <1>3 DEF vars, stores, Current
\* No manifest matches code that was just deployed.
<1>4. ASSUME NEW s \in Versions, NEW u \in Versions, Deploy(s, u) PROVE FALSE
  <2>1. /\ code' = [silver |-> s, upstream |-> u] /\ s >= code.silver /\ u >= code.upstream
        /\ code' # code /\ manifest' = manifest
    BY <1>4 DEF Deploy
  <2>2. /\ manifest[k] # NoManifest
        /\ manifest[k].script.silver = s /\ manifest[k].deps = u
    BY <1>1, <2>1 DEF Match, IsAlreadyProcessed, RangeHash
  <2>3. s <= code.silver /\ u <= code.upstream
    BY <1>1, <2>2 DEF NotNewer
  <2>4. code = [silver |-> code.silver, upstream |-> code.upstream]
        /\ code.silver \in Int /\ code.upstream \in Int
    BY DEF TypeOK
  <2> QED
    BY <1>4, <2>1, <2>3, <2>4
<1>5. ASSUME NEW q \in Jobs, Step(q), ~Batch(q, t)
      PROVE  Current(m, k)'
  <2>1. code' = code
    BY <1>5, JobGoesOn
  <2>2. \A l \in partitions :
          /\ manifest'[l] = manifest[l] /\ sections'[m][l] = sections[m][l]
          /\ m \in unswept[l] => m \in unswept'[l]
    <3>1. CASE Begin(q) \/ Crash(q) \/ Exit(q)
      <4>1. m # Quarantine /\ m # Envelope
        BY <1>1
      <4>2. ASSUME NEW ok, DeleteEnvelope(q, ok)
            PROVE  /\ UNCHANGED <<manifest, sections>>
                   /\ \A l \in partitions : m \in unswept[l] => m \in unswept'[l]
        BY <1>1, <4>1, <4>2 DEF DeleteEnvelope, Record
      <4>3. ASSUME NEW ok, DeleteQuarantine(q, ok)
            PROVE  /\ UNCHANGED <<manifest, sections>>
                   /\ \A l \in partitions : m \in unswept[l] => m \in unswept'[l]
        BY <1>1, <4>1, <4>3 DEF DeleteQuarantine, Record
      <4>4. ASSUME NEW j, Start(q, j) PROVE UNCHANGED <<manifest, sections, unswept>>
        BY <4>4 DEF Start, stores
      <4>5. CASE Crash(q) \/ Exit(q)
        BY <4>5 DEF Crash, Exit, End, stores
      <4> QED
        BY <3>1, <4>2, <4>3, <4>4, <4>5 DEF Begin, StartRange, StartDay
    <3>2. ASSUME NEW u \in Types, u # t, Batch(q, u)
          PROVE  \A l \in partitions : RowsKept(l)
      <4>1. \A l \in partitions : l \in Partition \ PartitionsOf(u, job[q])
        BY <1>1, <3>2 DEF PartitionsOf
      <4> QED
        BY <1>1, <3>2, <4>1, BatchIsLocal
    <3> QED
      BY <1>1, <1>5, <3>1, <3>2 DEF Step, RowsKept
  <2> QED
    BY <1>1, <1>2, <2>1, <2>2 DEF Current
<1>6. ASSUME NEW q \in Jobs, Batch(q, t) PROVE Current(m, k)'
  <2>1. UNCHANGED <<code, pc, job>> /\ pc[q] # "idle"
    BY <1>1, <1>6, BatchIsLocal, JobGoesOn DEF Step, Batch, SkipType, CanBegin, BeginBatch,
       PredeleteTable, WriteSection, ReadBatch, WriteQuarantine, AppendEnvelope,
       WriteRangeManifest, WriteDayManifest, FailBatch, Control, Active
  <2>2. Arguments(q) /\ Versioned(q, t) /\ Tables(q, t) /\ Unfinished(q, t) /\ Control(q)
    BY <1>1
  <2>3. job[q].kind = "range" /\ partitions \cap PartitionsOf(t, job[q]) # {} =>
          partitions = PartitionsOf(t, job[q])
    <3>1. SUFFICES ASSUME job[q].kind = "range",
                          NEW l \in partitions, l \in PartitionsOf(t, job[q])
                   PROVE  partitions = PartitionsOf(t, job[q])
      OBVIOUS
    <3> DEFINE s == <<job[q].first, job[q].last>>
    <3>2. s \in Ranges
      BY <2>1, <2>2, <3>1 DEF Arguments
    <3>3. (r[1] .. r[2]) \cap (s[1] .. s[2]) # {}
      BY <3>1 DEF PartitionsOf, DaysOf
    <3>4. r = s
      BY <3>2, <3>3 DEF RangesApart
    <3> QED
      BY <3>4 DEF PartitionsOf, DaysOf
  <2>4. CASE \A l \in partitions : manifest'[l] = manifest[l]
    <3>1. (\A l \in partitions : Match(l)) /\ Current(m, k)
      BY <1>2, <2>1, <2>4
    <3>2. CASE sections'[m][k] = sections[m][k] /\ (m \in unswept[k] => m \in unswept'[k])
      BY <2>1, <3>1, <3>2 DEF Current
    <3>3. ASSUME NEW n \in Models, NEW ok, PredeleteTable(q, t, n, ok), k \in PartitionsOf(t, job[q])
          PROVE  FALSE
      <4>1. stage[q][t] = "predelete" /\ job[q].kind = "range"
        BY <1>1, <2>2, <3>3 DEF PredeleteTable, Control
      <4>2. partitions = PartitionsOf(t, job[q])
        BY <1>1, <2>3, <3>3, <4>1
      <4>3. PICK l \in partitions :
              ~IsAlreadyProcessed(manifest[l], RangeHash(job[q].silver), job[q].upstream)
        BY <2>2, <4>1, <4>2 DEF Unfinished
      <4>4. job[q].silver = code.silver /\ job[q].upstream = code.upstream
        BY <1>1, <2>1, <2>2, <3>1, <3>3, MatchedIsJobs
      <4> QED
        BY <3>1, <4>3, <4>4 DEF Match
    <3>4. ASSUME NEW n \in Models, WriteSection(q, t, n), k \in PartitionsOf(t, job[q])
          PROVE  Current(m, k)'
      <4>1. job[q].silver = code.silver
        BY <1>1, <2>1, <2>2, <3>1, <3>4, MatchedIsJobs
      <4> DEFINE rows == Parsed(m, k, job[q].silver)
      <4>2. CASE n = m /\ rows # {}
        <5>1. sections'[m][k] = rows
          BY <1>1, <3>4, <4>2 DEF WriteSection, TypeOK
        <5> QED
          BY <2>1, <4>1, <5>1 DEF Current
      <4>3. CASE n # m \/ rows = {}
        <5>1. sections'[m][k] = sections[m][k]
          BY <1>1, <3>4, <4>3 DEF WriteSection, TypeOK
        <5>2. m \in unswept[k] => m \in unswept'[k]
          BY <1>1, <3>4, <4>3 DEF WriteSection, Record
        <5> QED
          BY <3>2, <5>1, <5>2
      <4> QED
        BY <4>2, <4>3
    <3>5. CASE k \notin PartitionsOf(t, job[q])
      BY <1>1, <1>6, <3>2, <3>5, BatchIsLocal DEF RowsKept
    <3>6. CASE ~ \E n \in Models : (\E ok : PredeleteTable(q, t, n, ok)) \/ WriteSection(q, t, n)
      <4>1. sections' = sections /\ (m \in unswept[k] => m \in unswept'[k])
        <5>1. m # Quarantine
          BY <1>1
        <5>2. CASE WriteQuarantine(q, t)
          BY <1>1, <5>1, <5>2 DEF WriteQuarantine, Record
        <5> QED
          BY <1>6, <3>6, <5>2 DEF Batch, SkipType, BeginBatch, ReadBatch, AppendEnvelope,
             WriteRangeManifest, WriteDayManifest, FailBatch, stores
      <4> QED
        BY <3>2, <4>1
    <3> QED
      BY <3>3, <3>4, <3>5, <3>6
  <2>5. ASSUME NEW l \in partitions, manifest'[l] # manifest[l]
        PROVE  Current(m, k)'
    <3>1. /\ l \in PartitionsOf(t, job[q]) /\ sections' = sections
          /\ stage[q][t] = "manifests"
          /\ manifest'[l].script \in {RangeHash(job[q].silver), DayHash(job[q].silver)}
          /\ job[q].kind = "day" => manifest'[l].script.entry = "day"
      BY <1>1, <1>6, <2>5, ManifestWrites
    <3>2. manifest'[l].script = RangeHash(code'.silver)
      BY <2>5 DEF Match, IsAlreadyProcessed
    <3>3. job[q].kind = "range" /\ job[q].silver = code'.silver
      <4>1. job[q].kind \in {"range", "day"}
        BY JobType DEF Job
      <4> QED
        BY <3>1, <3>2, <4>1 DEF RangeHash, DayHash
    <3>4. k \in PartitionsOf(t, job[q])
      BY <1>1, <2>3, <2>5, <3>1, <3>3
    <3> QED
      <4>1. Table(q, t, m, k) /\ WrittenOn(q, t)
        BY <2>2, <3>1, <3>4 DEF Tables, WrittenOn, AppendedOn
      <4>2. UNCHANGED <<sections, unswept>>
        BY <1>1, <3>1, ManifestWrites, <2>5, <1>6
      <4> QED
        BY <2>1, <3>3, <4>1, <4>2 DEF Table, Current
  <2> QED
    BY <2>4, <2>5
<1> QED
  BY <1>3, <1>4, <1>5, <1>6, NextCases

LEMMA ManifestInvInit == Init => ManifestInv
<1> SUFFICES ASSUME Init PROVE ManifestInv
  OBVIOUS
<1>1. IInv
  BY IInvInit
<1>2. \A p \in Jobs : pc[p] = "idle" /\ \A t \in Types : stage[p][t] = "skipped"
  BY DEF Init, NoStages
<1>3. \A k \in Partition : manifest[k] = NoManifest
  BY DEF Init
<1>4. SkippableRangeIsCurrent
  <2> SUFFICES ASSUME NEW t \in Named, NEW r \in Ranges,
                      NEW k \in {t} \X (r[1] .. r[2]), Match(k)
               PROVE  FALSE
    BY DEF SkippableRangeIsCurrent
  <2>1. r[1] \in Days /\ r[2] \in Days
    BY DEF DateRange
  <2>2. k \in Partition
    BY <2>1 DEF Partition
  <2> QED
    BY <1>3, <2>2 DEF Match, IsAlreadyProcessed
<1> QED
  BY <1>1, <1>2, <1>3, <1>4
  DEF ManifestInv, IInv, NotNewer, Arguments, Versioned, Unfinished

\* If operators keep running jobs on different days, use no --force, and give
\* range jobs ranges that are the same or share no day, a range that would be
\* skipped for a type holds in each section table exactly what the deployed code
\* makes of bronze, but for old rows in partitions that should be empty and whose
\* pre-delete was swallowed (pipeline_orchestrator.py:185-191, 269-274, 960-1085).
THEOREM SkippableRangesAreCurrent ==
  ASSUME Overlapping = FALSE, ForceFlags \subseteq {FALSE}, RangesApart
  PROVE  Spec => []SkippableRangeIsCurrent
<1>1. ASSUME ManifestInv, [Next]_vars PROVE ManifestInv'
  <2>1. Isolated'
    BY <1>1, IsolatedNext DEF ManifestInv
  <2>2. \A p \in Jobs : Arguments(p)'
    BY <1>1, ArgumentsNext DEF ManifestInv, Isolated
  <2>3. (\A k \in Partition : NotNewer(manifest[k], code.silver, code.upstream))'
    BY <1>1, NotNewerNext DEF ManifestInv, Isolated
  <2>4. \A p \in Jobs : \A t \in Types : Tables(p, t)'
    BY <1>1, TablesNext DEF ManifestInv, Isolated
  <2>5. \A p \in Jobs : \A t \in Types : Versioned(p, t)'
    BY <1>1, VersionedNext DEF ManifestInv, Isolated
  <2>6. \A p \in Jobs : \A t \in Types : Unfinished(p, t)'
    BY <1>1, UnfinishedNext DEF ManifestInv, Isolated
  <2>7. SkippableRangeIsCurrent'
    BY <1>1, SkippableNext
  <2> QED
    BY <2>1, <2>2, <2>3, <2>4, <2>5, <2>6, <2>7 DEF ManifestInv
<1>2. ManifestInv => SkippableRangeIsCurrent
  BY DEF ManifestInv
<1> QED
  BY <1>1, <1>2, ManifestInvInit, PTL DEF Spec
=============================================================================
