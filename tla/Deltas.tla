------------------------------- MODULE Deltas --------------------------------
(***************************************************************************)
(* The update deltas: scripts/pipeline/build_silver_update_deltas.py and   *)
(* src/procurement/silver/update_deltas/delta_builder.py.  A               *)
(* NoticeUpdateNotice (NUN) names the number of the notice it changes; the *)
(* job looks the number up in the common envelope, restricted to some      *)
(* years, and writes a row to the delta table of the notice's type, in the *)
(* partition of the NUN's day.  A range job works in chunks of days: it    *)
(* deletes their rows from all tables, builds them, writes them table by   *)
(* table, and writes a manifest per day; a day job does so for one day.    *)
(*                                                                         *)
(* One job runs at a time; it may die between any two steps.  Silver may   *)
(* be rebuilt and new code deployed at any time.  Reads of the catalog may *)
(* meet an error, which the code takes for a missing table: the step goes  *)
(* on as if there were nothing to delete or to read.                       *)
(***************************************************************************)
EXTENDS Integers, Sequences, FiniteSets, SequencesExt, Functions, Lists

CONSTANTS
  LastDay,     \* days are the numbers 1 .. LastDay
  YearOf,      \* the year of a day
  Types,       \* the notice types with a section index: the delta tables
  OtherTypes,  \* the types without one
  Nuns,        \* NoticeUpdateNotices
  Numbers,     \* bzpNumbers
  Target,      \* the number in section_3_2 of a NUN, or NoNumber
  NumberYear,  \* the year a number begins with, or NoYear
  NoNumber, NoYear,
  Changes,     \* the section changes of a NUN: the rows of its part_part table
  SectionIndex,\* the columns of a section, by indexed type and section
  Parser,      \* the parser of a column, or NoParser
  Unparsable,  \* the pairs of a parser and a text on which it raises
  UnknownParsers, \* those that COMMON_PARSERS does not have
  NoSection, NoText, NoParser,
  MaxSilver,   \* bound on the rebuilds of silver
  Core,        \* the NUNs in the silver core table, by silver state and day
  Envelope,    \* the rows of the common envelope, by silver state
  MaxVersion,  \* bound on the versions of the code deployed
  ChunkDays,   \* --chunk-days
  ForceFlags,  \* the values of --force that operators use
  Fallible,    \* the reads that may meet an error that is swallowed
  NoManifest

Days == 1 .. LastDay
Versions == 0 .. MaxVersion
SilverStates == 0 .. MaxSilver
Entry == [number : Numbers, type : Types \cup OtherTypes, day : Days]

\* A change says of a section, or of a label that begins with no number, its text
\* after the change, or none.  part and item give its place in the notice.
Sections == UNION {DOMAIN SectionIndex[t] : t \in Types}
Texts == (UNION {{ch.after : ch \in Changes[n]} : n \in Nuns}) \ {NoText}
Parsers == {Parser[c] : c \in DOMAIN Parser} \ {NoParser}
Change == [part : Nat, item : Nat, section : Sections \cup {NoSection}, after : Texts \cup {NoText}]
Columns == DOMAIN Parser
\* What a column holds: a text, or what its parser made of it.
Values == Texts \cup (Parsers \X Texts) \cup {NoText}
Row == [nun : Nuns, day : Days, target : Entry, version : Versions,
        values : [Columns -> Values], errors : SUBSET Columns]

\* Entries of one number on one day would come out of load_bzp_index in the
\* order of Spark's choosing; there are none.
ASSUME ConstantsAssumption ==
  /\ LastDay \in Nat \ {0} /\ MaxSilver \in Nat /\ MaxVersion \in Nat
  /\ ChunkDays \in Nat
  /\ YearOf \in [Days -> Nat]
  /\ Types \cap OtherTypes = {}
  /\ NoNumber \notin Numbers /\ NoYear \notin Nat
  /\ Target \in [Nuns -> Numbers \cup {NoNumber}]
  /\ NumberYear \in [Numbers -> Nat \cup {NoYear}]
  /\ Core \in [SilverStates -> [Days -> SUBSET Nuns]]
  /\ Envelope \in [SilverStates -> SUBSET Entry]
  /\ \A s \in SilverStates : \A x, y \in Envelope[s] :
       x.number = y.number /\ x.day = y.day => x = y
  /\ ForceFlags \subseteq BOOLEAN
  /\ Changes \in [Nuns -> SUBSET Change]
  /\ \A n \in Nuns : IsFiniteSet(Changes[n])
  /\ \A n \in Nuns : \A x, y \in Changes[n] : x.part = y.part /\ x.item = y.item => x = y
  /\ \A t \in Types : \A sec \in DOMAIN SectionIndex[t] : SectionIndex[t][sec] \subseteq Columns
  /\ Unparsable \subseteq Parsers \X Texts
  /\ UnknownParsers \subseteq Parsers
  /\ Fallible \subseteq {"days", "delete", "core", "changes"}

\* A script hash covers the script and the silver package; the dependencies
\* hold the hashes of fetch, bronze and silver, one version number here.
Hashes == Versions
Deps == Versions

ASSUME NoManifestAssumption == NoManifest \notin [script : Hashes, deps : Deps]

INSTANCE Manifests

VARIABLES
  deltas,    \* deltas[t]: the rows of the delta table of type t
  manifest,  \* manifest[d]: the deltas manifest of day d
  code,      \* the deployed versions of the script and the upstream code
  silver     \* the state of silver

\* History: what went unread of a day, its core or its changes, in the last build or in
\* one whose rows were not deleted since, and whether such rows were there to delete.
VARIABLE missed
Misses == {"delete", "core", "changes"}

stores == <<deltas, manifest, code, silver>>

VARIABLES
  pc,        \* where the running job is
  job,       \* its kind, arguments, hashes, and the silver it began with
  index,     \* bzp_index of a range job
  pending,   \* the days of later chunks
  chunk,     \* the days of this chunk
  left,      \* the days of the chunk left to read, then to write manifests of
  todo,      \* the tables left to delete from, then to write
  core,      \* the NUNs a day job has read
  changed,   \* whether it has read their changes
  rows       \* the rows built for the chunk

memory == <<pc, job, index, pending, chunk, left, todo, core, changed, rows>>
vars == <<stores, missed, memory>>

Job == [kind : {"range", "day"}, first : Days, last : Days, force : BOOLEAN,
        script : Versions, upstream : Versions, silver : SilverStates]
NoJob == [kind |-> "range", first |-> 1, last |-> 1, force |-> FALSE,
          script |-> 0, upstream |-> 0, silver |-> 0]

Match(d) == IsAlreadyProcessed(manifest[d], code.script, code.upstream)

-----------------------------------------------------------------------------
(* What is read and built.                                                 *)

DiscoverNunDays(first, last) ==
  {d \in first .. last : Core[silver][d] # {}}

\* Mutant: no lookback.
YearsWithPreviousMutant(days) == {YearOf[d] : d \in days}
YearsWithPrevious(days) ==
  {YearOf[d] : d \in days} \cup {YearOf[d] - 1 : d \in days}

\* The years of a day job: those of the numbers its NUNs name, and the one
\* before the first.  Without any, the job builds nothing.
DayYears(nuns) ==
  LET named == {NumberYear[Target[n]] : n \in {m \in nuns : Target[m] # NoNumber}} \ {NoYear}
  IN  named \cup {y - 1 : y \in {z \in named : \A x \in named : z <= x}}

\* load_bzp_index: the earliest entry of each number within the years.
LoadBzpIndex(s, years) ==
  LET Found(num) == {x \in Envelope[s] : x.number = num /\ YearOf[x.day] \in years}
  IN  [num \in {x \in Numbers : Found(x) # {}} |->
         CHOOSE x \in Found(num) : \A y \in Found(num) : x.day <= y.day]

\* _apply_parser: a text without a parser is taken as it is; a parser that raises
\* gives no value and an error; one that is unknown gives the text and an error.
Fails(c, text) ==
  <<Parser[c], text>> \in Unparsable \/ (text # NoText /\ Parser[c] \in UnknownParsers)
ApplyParser(c, text) ==
  IF text = NoText THEN NoText
  ELSE IF Parser[c] \in UnknownParsers \cup {NoParser} THEN text
  ELSE IF Fails(c, text) THEN NoText ELSE <<Parser[c], text>>

IsEarlier(x, y) == x.part < y.part \/ (x.part = y.part /\ x.item < y.item)
ChangesInOrder(n) ==
  Ranked(Changes[n], {pair \in Changes[n] \X Changes[n] : IsEarlier(pair[1], pair[2])})

\* The columns that a change writes.
Touches(t, ch) == IF ch.section \in DOMAIN SectionIndex[t] THEN SectionIndex[t][ch.section] ELSE {}

\* Mutant: an error stays when a later change of the section can be parsed.
ApplyChangeMutant(t, row, ch) ==
  [values |-> [c \in Columns |-> IF c \in Touches(t, ch) THEN ApplyParser(c, ch.after)
                                                          ELSE row.values[c]],
   errors |-> row.errors \cup {c \in Touches(t, ch) : Fails(c, ch.after)}]
\* The last change of a section wins: its values, and whether it has errors.
ApplyChange(t, row, ch) ==
  [values |-> [c \in Columns |-> IF c \in Touches(t, ch) THEN ApplyParser(c, ch.after)
                                                          ELSE row.values[c]],
   errors |-> (row.errors \ Touches(t, ch)) \cup {c \in Touches(t, ch) : Fails(c, ch.after)}]
NoChange == [values |-> [c \in Columns |-> NoText], errors |-> {}]
\* A delta of a NUN in the table of a type after the first changes, and all of them.
Applied(n, t) ==
  LET changes == ChangesInOrder(n)
      after[i \in 0 .. Len(changes)] ==
        IF i = 0 THEN NoChange ELSE ApplyChange(t, after[i - 1], changes[i])
  IN  after
ColumnsOf == [n \in Nuns |-> [t \in Types |-> Applied(n, t)[Cardinality(Changes[n])]]]

\* build_update_deltas: a row for each NUN that resolves to an indexed type; without
\* changes if these went unread.
BuildUpdateDeltas(d, nuns, read, bzpIndex, version) ==
  {LET entry == bzpIndex[Target[n]]
       columns == IF read THEN ColumnsOf[n][entry.type] ELSE NoChange
   IN  [nun |-> n, day |-> d, target |-> entry, version |-> version,
        values |-> columns.values, errors |-> columns.errors] :
     n \in {m \in nuns : Target[m] \in DOMAIN bzpIndex /\ bzpIndex[Target[m]].type \in Types}}

RowsOf(t, built) == {r \in built : r.target.type = t}
TablesOf(built) == {r.target.type : r \in built}
NoIndex == LoadBzpIndex(0, {})
OfDay(S, d) == {r \in S : r.day = d}
DeltasOf(d) == UNION {OfDay(deltas[t], d) : t \in Types}

-----------------------------------------------------------------------------
Init ==
  /\ deltas = [t \in Types |-> {}]
  /\ manifest = [d \in Days |-> NoManifest]
  /\ code = [script |-> 0, upstream |-> 0]
  /\ silver = 0
  /\ pc = "idle" /\ job = NoJob /\ index = NoIndex
  /\ pending = {} /\ chunk = {} /\ left = {} /\ todo = {} /\ core = {} /\ changed = TRUE
  /\ rows = {} /\ missed = [d \in Days |-> {}]

NoMemory ==
  /\ pc' = "idle" /\ job' = NoJob /\ index' = NoIndex
  /\ pending' = {} /\ chunk' = {} /\ left' = {} /\ todo' = {} /\ core' = {} /\ changed' = TRUE
  /\ rows' = {}

Deploy(s, u) ==
  /\ s >= code.script /\ u >= code.upstream
  /\ code' = [script |-> s, upstream |-> u]
  /\ code' # code
  /\ UNCHANGED <<deltas, manifest, silver, missed, memory>>

\* Silver jobs add days and replace what older code had made.
RebuildSilver ==
  /\ silver < MaxSilver
  /\ silver' = silver + 1
  /\ UNCHANGED <<deltas, manifest, code, missed, memory>>

Crash == pc # "idle" /\ NoMemory /\ UNCHANGED <<stores, missed>>

NewJob(kind, first, last, force) ==
  [kind |-> kind, first |-> first, last |-> last, force |-> force,
   script |-> code.script, upstream |-> code.upstream, silver |-> silver]

\* Whether a read goes through, and what is lost of a day's NUNs: no core rows, or core
\* rows without changes.
Outcomes(what) == {TRUE} \cup (IF what \in Fallible THEN {FALSE} ELSE {})
Losses(d) ==
  {{}} \cup (IF Core[silver][d] = {} THEN {} ELSE {{what} : what \in Fallible \cap {"core", "changes"}})

\* A range job first finds the days that are due; none if that read meets an error.
StartRange(first, last, force, ok) ==
  /\ pc = "idle" /\ first <= last
  /\ job' = NewJob("range", first, last, force)
  /\ pending' = {d \in DiscoverNunDays(first, last) : ok /\ (force \/ ~Match(d))}
  /\ pc' = IF pending' = {} THEN "done" ELSE "index"
  /\ UNCHANGED <<stores, missed, index, chunk, left, todo, core, changed, rows>>

\* The index is loaded once, for the years of all days that are due.
LoadIndex ==
  /\ pc = "index" /\ job.kind = "range"
  /\ index' = LoadBzpIndex(silver, YearsWithPrevious(pending))
  /\ pc' = "chunk"
  /\ UNCHANGED <<stores, missed, job, pending, chunk, left, todo, core, changed, rows>>

\* _chunked: the first ChunkDays of the days, or all of them.
FirstDays(days) ==
  IF ChunkDays = 0 THEN days
  ELSE {d \in days : Cardinality({e \in days : e < d}) < ChunkDays}

\* Mutants: the chunk stays pending; the rows of all days of the range go.
BeginChunkMutant ==
  /\ pc = "chunk"
  /\ chunk' = FirstDays(pending)
  /\ left' = chunk'
  /\ todo' = Types
  /\ pc' = "delete"
  /\ UNCHANGED <<stores, missed, job, index, pending, core, changed, rows>>
BeginChunkOfRange ==
  /\ pc = "chunk"
  /\ chunk' = job.first .. job.last
  /\ left' = chunk'
  /\ pending' = {}
  /\ todo' = Types
  /\ pc' = "delete"
  /\ UNCHANGED <<stores, missed, job, index, core, changed, rows>>

BeginChunk ==
  /\ pc = "chunk"
  /\ chunk' = FirstDays(pending)
  /\ left' = chunk'
  /\ pending' = pending \ chunk'
  /\ todo' = Types
  /\ pc' = "delete"
  /\ UNCHANGED <<stores, missed, job, index, core, changed, rows>>

\* Mutant: overwritePartitions is trusted to replace the day.
StartDayMutant(d, force) ==
  /\ pc = "idle"
  /\ job' = NewJob("day", d, d, force)
  /\ IF Match(d) /\ ~force
       THEN pc' = "done" /\ UNCHANGED <<chunk, left, todo>>
       ELSE pc' = "delete" /\ chunk' = {d} /\ left' = {d} /\ todo' = {}
  /\ UNCHANGED <<stores, missed, index, pending, core, changed, rows>>

\* The day job is a chunk of one day, whether silver has NUNs for it or not.
StartDay(d, force) ==
  /\ pc = "idle"
  /\ job' = NewJob("day", d, d, force)
  /\ IF Match(d) /\ ~force
       THEN pc' = "done" /\ UNCHANGED <<chunk, left, todo>>
       ELSE pc' = "delete" /\ chunk' = {d} /\ left' = {d} /\ todo' = Types
  /\ UNCHANGED <<stores, missed, index, pending, core, changed, rows>>

\* Mutant: nothing is deleted.
DeleteDeltaPartitionsMutant(t) ==
  /\ pc = "delete" /\ t \in todo
  /\ todo' = todo \ {t}
  /\ UNCHANGED <<stores, missed, pc, job, index, pending, chunk, left, core, changed, rows>>

\* delete_delta_partitions: one table after the other.
DeleteDeltaPartitions(t) ==
  /\ pc = "delete" /\ t \in todo
  /\ deltas' = [deltas EXCEPT ![t] = {r \in @ : r.day \notin chunk}]
  /\ todo' = todo \ {t}
  /\ UNCHANGED <<manifest, code, silver, missed, pc, job, index, pending, chunk, left, core, changed, rows>>

EndDelete ==
  /\ pc = "delete" /\ todo = {}
  /\ pc' = "read"
  /\ missed' = [d \in Days |-> IF d \in chunk THEN {} ELSE missed[d]]
  /\ UNCHANGED <<stores, job, index, pending, chunk, left, todo, core, changed, rows>>

\* SHOW TABLES meets an error: there seem to be no tables to delete from.
SkipDelete ==
  /\ pc = "delete" /\ todo = Types /\ "delete" \in Fallible
  /\ pc' = "read"
  /\ todo' = {}
  /\ missed' = [d \in Days |-> IF d \in chunk /\ DeltasOf(d) # {} THEN missed[d] \cup {"delete"}
                                                                  ELSE missed[d]]
  /\ UNCHANGED <<stores, job, index, pending, chunk, left, core, changed, rows>>

IsNext(d) == d \in left /\ \A e \in left : d <= e

\* write_deltas begins with the tables that get rows.
ToWrite(built) == pc' = "write" /\ todo' = TablesOf(built) /\ left' = chunk

\* load_nun_rows: what one read of a day's NUNs gives, and the history of it.
NunRows(d, lost) == IF "core" \in lost THEN {} ELSE Core[silver][d]
LoadNunRows(d, lost) == missed' = [missed EXCEPT ![d] = (@ \ {"core"}) \cup lost]

\* A range job reads the NUNs of the chunk's days in turn.
ReadDay(d, lost) ==
  /\ pc = "read" /\ job.kind = "range" /\ IsNext(d)
  /\ LoadNunRows(d, lost)
  /\ rows' = rows \cup
       BuildUpdateDeltas(d, NunRows(d, lost), "changes" \notin lost, index, job.script)
  /\ IF left = {d} THEN ToWrite(rows')
     ELSE left' = left \ {d} /\ UNCHANGED <<pc, todo>>
  /\ UNCHANGED <<stores, job, index, pending, chunk, core, changed>>

\* A day job reads the NUNs of its day, then the index for their years.
ReadCore(d, lost) ==
  /\ pc = "read" /\ job.kind = "day" /\ IsNext(d)
  /\ LoadNunRows(d, lost)
  /\ core' = NunRows(d, lost)
  /\ changed' = ("changes" \notin lost)
  /\ IF DayYears(core') = {} THEN ToWrite({})
     ELSE pc' = "index" /\ UNCHANGED <<left, todo>>
  /\ UNCHANGED <<stores, job, index, pending, chunk, rows>>

LoadDayIndex ==
  /\ pc = "index" /\ job.kind = "day"
  /\ rows' = BuildUpdateDeltas(job.first, core, changed, LoadBzpIndex(silver, DayYears(core)),
                               job.script)
  /\ ToWrite(rows')
  /\ UNCHANGED <<stores, missed, job, index, pending, chunk, core, changed>>

\* overwritePartitions: the days the table gets rows for.
WriteDeltas(t) ==
  /\ pc = "write" /\ t \in todo
  /\ deltas' = [deltas EXCEPT ![t] =
                  {r \in @ : \A n \in RowsOf(t, rows) : n.day # r.day} \cup RowsOf(t, rows)]
  /\ todo' = todo \ {t}
  /\ UNCHANGED <<manifest, code, silver, missed, pc, job, index, pending, chunk, left, core, changed, rows>>

EndWrite ==
  /\ pc = "write" /\ todo = {}
  /\ pc' = "manifests"
  /\ rows' = {}
  /\ UNCHANGED <<stores, missed, job, index, pending, chunk, left, todo, core, changed>>

WriteManifest(d) ==
  /\ pc = "manifests" /\ IsNext(d)
  /\ manifest' = WriteProcessedManifest(manifest, d, job.script, job.upstream)
  /\ left' = left \ {d}
  /\ pc' = IF left # {d} THEN pc ELSE IF pending = {} THEN "done" ELSE "chunk"
  /\ UNCHANGED <<deltas, code, silver, missed, job, index, pending, chunk, todo, core, changed, rows>>

Exit == pc = "done" /\ NoMemory /\ UNCHANGED <<stores, missed>>

-----------------------------------------------------------------------------
Start ==
  \E force \in ForceFlags :
    \/ \E first, last \in Days, ok \in Outcomes("days") : StartRange(first, last, force, ok)
    \/ \E d \in Days : StartDay(d, force)

Step ==
  \/ LoadIndex
  \/ BeginChunk
  \/ \E t \in Types : DeleteDeltaPartitions(t) \/ WriteDeltas(t)
  \/ EndDelete
  \/ SkipDelete
  \/ \E d \in Days : \/ \E lost \in Losses(d) : ReadDay(d, lost) \/ ReadCore(d, lost)
                    \/ WriteManifest(d)
  \/ LoadDayIndex
  \/ EndWrite
  \/ Exit

Next ==
  \/ \E s, u \in Versions : Deploy(s, u)
  \/ RebuildSilver
  \/ Crash
  \/ Start
  \/ Step

Spec == Init /\ [][Next]_vars

-----------------------------------------------------------------------------
(***************************************************************************)
(* Properties.                                                             *)
(***************************************************************************)
\* The types of the variables, and that a chunk is no longer pending.
TypeOK ==
  /\ deltas \in [Types -> SUBSET Row]
  /\ manifest \in [Days -> Manifest]
  /\ code \in [script : Versions, upstream : Versions]
  /\ silver \in SilverStates
  /\ pc \in {"idle", "index", "chunk", "delete", "read", "write", "manifests", "done"}
  /\ job \in Job
  /\ DOMAIN index \subseteq Numbers /\ \A num \in DOMAIN index : index[num] \in Entry
  /\ pending \subseteq Days /\ chunk \subseteq Days /\ chunk \cap pending = {}
  /\ left \subseteq chunk
  /\ todo \subseteq Types
  /\ core \subseteq Nuns /\ changed \in BOOLEAN
  /\ rows \subseteq Row
  /\ missed \in [Days -> SUBSET Misses]

\* A day that later jobs skip holds what one build by the deployed code made, of the NUNs
\* and the envelope that silver had: the delete, the writes and the manifests of a chunk
\* (build_silver_update_deltas.py:303-341) survive crashes, deployments and rebuilds of
\* silver in between.  The code swallows three errors on the way (delta_builder.py:216-238,
\* :267), and after each exactly this is wrong: rows of an earlier build stay in the
\* tables that get none for the day; the day is built without NUNs; or without changes.
HoldsIn(t, d, built) ==
  \/ OfDay(deltas[t], d) = RowsOf(t, built)
  \/ "delete" \in missed[d] /\ RowsOf(t, built) = {}
NunsRead(d, last, lost) == IF "core" \in lost THEN {{}} ELSE {Core[s][d] : s \in 0 .. last}
ChangesRead(lost) == {TRUE} \cup (IF "changes" \in lost THEN {FALSE} ELSE {})
YearsRead(d, nuns) ==
  {DayYears(nuns)} \cup {YearsWithPrevious(days \cup {d}) : days \in SUBSET Days}
MatchedDayIsOneBuild ==
  \A d \in Days : Match(d) =>
    \E nuns \in NunsRead(d, silver, missed[d]), read \in ChangesRead(missed[d]),
       s \in 0 .. silver :
      \E years \in YearsRead(d, nuns) :
        LET built == BuildUpdateDeltas(d, nuns, read, LoadBzpIndex(s, years), code.script)
        IN  \A t \in Types : HoldsIn(t, d, built)

\* Whichever job builds it, a skippable day has a delta for each of its NUNs that
\* changes a notice published in the NUN's year or the year before, as long as
\* silver had both all along: the lookback of _years_with_previous
\* (build_silver_update_deltas.py:121) and that of the day job (:202) agree on these.
\* Only a day whose core rows went unread (delta_builder.py:267) may be without.
Steady(x) ==
  /\ NumberYear[x.number] = YearOf[x.day]
  /\ \A s \in 0 .. silver : {y \in Envelope[s] : y.number = x.number} = {x}
Resolves(d, years) ==
  \A n \in Nuns : (\A s \in 0 .. silver : n \in Core[s][d]) =>
    \A x \in Envelope[silver] :
      x.number = Target[n] /\ x.type \in Types /\ Steady(x) /\ YearOf[x.day] \in years =>
        \E r \in DeltasOf(d) : r.nun = n /\ r.target = x
RecentTargetIsResolved ==
  \A d \in Days : Match(d) /\ "core" \notin missed[d] => Resolves(d, {YearOf[d] - 1, YearOf[d]})

\* A NUN has one delta at most, although the type of its target, hence its table,
\* may change from build to build: delete_delta_partitions (delta_builder.py:231)
\* takes the day out of all tables, overwritePartitions only out of some.  So it can have
\* more where that delete met an error (:224-228) with rows of the day in the tables.
OneDeltaPerNotice ==
  \A d \in Days : "delete" \notin missed[d] => \A r1, r2 \in DeltasOf(d) : r1.nun = r2.nun => r1 = r2

\* Whatever table a delta is in, a column of it says what the last of the notice's
\* changes to the column's section says, in the order of parts and of items, and
\* is among the parse errors exactly if that text cannot be parsed; the other
\* columns are null (delta_builder.py:409-441).  A delta of a day whose changes went
\* unread (:267) may be null in all columns instead.
LatestOf(changes) ==
  CHOOSE x \in changes : \A y \in changes \ {x} : IsEarlier(y, x)
Text ==
  [n \in Nuns |-> [t \in Types |-> [c \in Columns |->
     LET changes == {ch \in Changes[n] : c \in Touches(t, ch)}
     IN  IF changes = {} THEN NoText ELSE LatestOf(changes).after]]]
LastChangeWins ==
  \A t \in Types : \A r \in deltas[t] :
    \/ LET text == Text[r.nun][t] IN
       /\ \A c \in Columns : r.values[c] = ApplyParser(c, text[c])
       /\ r.errors = {c \in Columns : Fails(c, text[c])}
    \/ "changes" \in missed[r.day] /\ [values |-> r.values, errors |-> r.errors] = NoChange

\* A job without --force takes nothing from and adds nothing to a day whose
\* manifest matches, even one that lies between days of its chunk
\* (build_silver_update_deltas.py:264-283).
SkippedDayUntouched ==
  [][\A d \in Days : Match(d) /\ ~job.force => DeltasOf(d)' = DeltasOf(d)]_vars

\* scripts/ops/run_backfill.py:118, "deltas always overwrite their date
\* partition": when a job has ended and silver is the one it began with, the
\* deltas of the NUN days of its range name the earliest entry of a number that
\* silver has in the years every job looks at.
DeltasFollowSilver ==
  pc = "done" /\ job.silver = silver =>
    \A d \in DiscoverNunDays(job.first, job.last) :
      \A r \in DeltasOf(d), x \in Envelope[silver] :
        x.number = r.target.number /\ YearOf[x.day] \in {YearOf[d] - 1, YearOf[d]} =>
          r.target.day <= x.day
=============================================================================
