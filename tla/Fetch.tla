-------------------------------- MODULE Fetch ---------------------------------
(***************************************************************************)
(* The BZP download: src/procurement/fetch/bzp_api.py and the two scripts  *)
(* that drive it, scripts/pipeline/fetch_bzp_yesterday.py (one day) and    *)
(* fetch_bzp_range.py (the days of a range that have no manifest).  For    *)
(* each notice type of a day a job asks the API for page after page, each  *)
(* from the last objectId of the one before, keeps the notices of the day, *)
(* one per objectId, and writes the raw file, a run record and a manifest. *)
(*                                                                         *)
(* The API is external: it answers with the notices it has at that moment, *)
(* in the order of their objectIds, or fails.  Notices of the current and  *)
(* of later days go on being published while a job runs.  A job may die    *)
(* between any two steps, and in the middle of writing the raw file; its   *)
(* run record may come to nothing without its noticing.                    *)
(***************************************************************************)
EXTENDS Integers, Sequences, FiniteSets, SequencesExt, Lists

CONSTANTS
  LastDay,      \* days are the numbers 1 .. LastDay
  NoticeTypes,  \* NOTICE_TYPES, a sequence
  Notices,      \* all notices there will be
  EarlyNotices, \* those published before anything else
  PageSize,     \* PAGE_SIZE
  MaxRetries,   \* _MAX_RETRIES
  Torn,         \* what is left of a file whose writer died
  NoFile, NoRun, NoManifest, NoDeps

Days == 1 .. LastDay

\* window is the day whose query returns the notice, prefix the day that its
\* publicationDate begins with, key its place in the order of the API and, if it
\* has one, its objectId.  Two notices of different types may share one.
Notice == [type : ToSet(NoticeTypes), key : Nat \ {0}, hasId : BOOLEAN,
           window : Days, prefix : Days]

\* A script hash covers the script that ran, so each has its own.
Hashes == {"range", "day"}
Run == [started : 1 .. LastDay + 1]

ASSUME ConstantsAssumption ==
  /\ LastDay \in Nat \ {0} /\ PageSize \in Nat \ {0} /\ MaxRetries \in Nat \ {0}
  /\ NoticeTypes \in Seq(ToSet(NoticeTypes)) /\ NoticeTypes # <<>>
  /\ \A i, j \in DOMAIN NoticeTypes : NoticeTypes[i] = NoticeTypes[j] => i = j
  /\ Notices \subseteq Notice /\ IsFiniteSet(Notices) /\ EarlyNotices \subseteq Notices
  /\ \A m, n \in Notices : m.type = n.type /\ m.key = n.key => m = n
  /\ {NoFile, Torn} \cap Seq(Notices) = {} /\ Torn # NoFile /\ NoRun \notin Run

INSTANCE Manifests WITH Deps <- {NoDeps}

VARIABLES
  published,  \* the notices the API has
  today,      \* the current day; LastDay + 1 when all days are over
  raw,        \* raw[d]: the file bzp_<d>.json
  runs,       \* runs[d]: the latest pipeline_run stored for day d, if any
  manifest    \* manifest[d]: the fetch manifest

\* History: when the job that last wrote the whole file of a day had begun the day.
VARIABLE begun

stores == <<raw, runs, manifest, begun>>
world == <<published, today>>

VARIABLES
  pc,       \* where the running job is
  job,      \* its script, its last day and --force
  day,      \* the day it is at
  type,     \* the index of the notice type it asks for
  after,    \* search_after, 0 before the first page
  attempt,  \* the failed attempts of the request
  got,      \* all_notices
  started   \* when it began the day

memory == <<pc, job, day, type, after, attempt, got, started>>
vars == <<stores, world, memory>>

NoJob == [script |-> "range", last |-> 1, force |-> FALSE]

-----------------------------------------------------------------------------
\* The reply of the API: the next PageSize notices of the type and the day.
Page(t, d, key) ==
  LET rest == {n \in published : n.type = t /\ n.window = d /\ n.key > key}
      keys == InOrder({n.key : n \in rest})
  IN  [i \in 1 .. (IF Len(keys) < PageSize THEN Len(keys) ELSE PageSize) |->
         CHOOSE n \in rest : n.key = keys[i]]

\* Mutant: no deduplication.
FilterAndDedupMutant(notices, d) == SelectSeq(notices, LAMBDA n : n.prefix = d)

SameId(m, n) == m.hasId /\ n.hasId /\ m.key = n.key
FilterAndDedup(notices, d) ==
  LET filtered == {i \in DOMAIN notices : notices[i].prefix = d}
      first == {i \in filtered : \A j \in filtered : j < i => ~SameId(notices[j], notices[i])}
      order == InOrder(first)
  IN  [k \in DOMAIN order |-> notices[order[k]]]

-----------------------------------------------------------------------------
Init ==
  /\ published = EarlyNotices /\ today = 1
  /\ raw = [d \in Days |-> NoFile] /\ begun = [d \in Days |-> 1]
  /\ runs = [d \in Days |-> NoRun]
  /\ manifest = [d \in Days |-> NoManifest]
  /\ pc = "idle" /\ job = NoJob /\ day = 1 /\ type = 1 /\ after = 0 /\ attempt = 0
  /\ got = <<>> /\ started = 1

NoMemory ==
  /\ pc' = "idle" /\ job' = NoJob /\ day' = 1 /\ type' = 1 /\ after' = 0 /\ attempt' = 0
  /\ got' = <<>> /\ started' = 1

Publish(n) ==
  /\ n \notin published /\ n.window >= today
  /\ published' = published \cup {n}
  /\ UNCHANGED <<today, stores, memory>>

Midnight ==
  /\ today <= LastDay
  /\ today' = today + 1
  /\ UNCHANGED <<published, stores, memory>>

\* The job is killed, or an exception ends it.
Crash == pc # "idle" /\ NoMemory /\ UNCHANGED <<world, stores>>

Start(script, first, last, force) ==
  /\ pc = "idle"
  /\ job' = [script |-> script, last |-> last, force |-> force]
  /\ day' = first
  /\ pc' = "day"
  /\ UNCHANGED <<world, stores, type, after, attempt, got, started>>

StartRange(first, last, force) == first <= last /\ Start("range", first, last, force)

\* The day script has no --force and looks at no manifest.
StartDay(d) == Start("day", d, d, TRUE)

EndOfDays == day > job.last

\* Mutant: the manifest looked up is not that of the loop's day.
SkipMutant(d) == ~job.force /\ IsScriptProcessed(manifest[1], job.script)
Skip(d) == ~job.force /\ IsScriptProcessed(manifest[d], job.script)

SkipDay ==
  /\ pc = "day" /\ ~EndOfDays /\ Skip(day)
  /\ day' = day + 1
  /\ UNCHANGED <<world, stores, pc, job, type, after, attempt, got, started>>

BeginDay ==
  /\ pc = "day" /\ ~EndOfDays /\ ~Skip(day)
  /\ started' = today
  /\ type' = 1 /\ after' = 0 /\ attempt' = 0 /\ got' = <<>>
  /\ pc' = "request"
  /\ UNCHANGED <<world, stores, job, day>>

\* Mutants: one attempt too many; after the last attempt they start afresh.
TransientErrorOnceMore ==
  /\ pc = "request"
  /\ IF attempt = MaxRetries
       THEN NoMemory
       ELSE attempt' = attempt + 1 /\ UNCHANGED <<pc, job, day, type, after, got, started>>
  /\ UNCHANGED <<world, stores>>
TransientErrorMutant ==
  /\ pc = "request"
  /\ attempt' = (attempt + 1) % MaxRetries
  /\ UNCHANGED <<world, stores, pc, job, day, type, after, got, started>>

\* fetch_with_backoff: a connection error, a timeout or a retryable status.
TransientError ==
  /\ pc = "request"
  /\ IF attempt = MaxRetries - 1
       THEN NoMemory
       ELSE attempt' = attempt + 1 /\ UNCHANGED <<pc, job, day, type, after, got, started>>
  /\ UNCHANGED <<world, stores>>

\* Any other status: no retry.
PermanentError == pc = "request" /\ NoMemory /\ UNCHANGED <<world, stores>>

\* Mutant: only one page is asked for.
LastPageMutant(page) == TRUE
LastPage(page) == Len(page) < PageSize \/ ~Last(page).hasId

NextType ==
  /\ after' = 0
  /\ IF type = Len(NoticeTypes) THEN pc' = "write" /\ UNCHANGED type
                                ELSE type' = type + 1 /\ UNCHANGED pc

ReceivePage ==
  /\ pc = "request"
  /\ LET page == Page(NoticeTypes[type], day, after) IN
       /\ got' = got \o page
       /\ IF LastPage(page) THEN NextType
          ELSE after' = Last(page).key /\ UNCHANGED <<pc, type>>
  /\ attempt' = 0
  /\ UNCHANGED <<world, stores, job, day, started>>

WriteOutput ==
  /\ pc = "write"
  /\ raw' = [raw EXCEPT ![day] = FilterAndDedup(got, day)]
  /\ begun' = [begun EXCEPT ![day] = started]
  /\ pc' = "record" /\ type' = 1 /\ got' = <<>>
  /\ UNCHANGED <<world, runs, manifest, job, day, after, attempt, started>>

\* A local file is emptied, then filled: the job dies, or the disk is full, in between.
WriteTorn ==
  /\ pc = "write"
  /\ raw' = [raw EXCEPT ![day] = Torn]
  /\ NoMemory
  /\ UNCHANGED <<world, runs, manifest, begun>>

\* Errors of the insert are logged and passed over; with neither a directory nor
\* BigQuery to write to, there is no record at all.
WritePipelineRun(stored) ==
  /\ pc = "record"
  /\ IF stored THEN runs' = [runs EXCEPT ![day] = [started |-> started]] ELSE UNCHANGED runs
  /\ pc' = "manifest"
  /\ UNCHANGED <<world, raw, begun, manifest, job, day, type, after, attempt, got, started>>

WriteManifest ==
  /\ pc = "manifest"
  /\ manifest' = WriteProcessedManifest(manifest, day, job.script, NoDeps)
  /\ pc' = "day" /\ day' = day + 1 /\ started' = 1
  /\ UNCHANGED <<world, raw, begun, runs, job, type, after, attempt, got>>

Exit == pc = "day" /\ EndOfDays /\ NoMemory /\ UNCHANGED <<world, stores>>

-----------------------------------------------------------------------------
Step ==
  \/ SkipDay \/ BeginDay
  \/ TransientError \/ PermanentError \/ ReceivePage
  \/ WriteOutput
  \/ \E stored \in BOOLEAN : WritePipelineRun(stored)
  \/ WriteManifest
  \/ Exit

Next ==
  \/ \E n \in Notices : Publish(n)
  \/ Midnight
  \/ Crash
  \/ WriteTorn
  \/ \E first, last \in Days, force \in BOOLEAN : StartRange(first, last, force)
  \/ \E d \in Days : StartDay(d)
  \/ Step

\* A running job goes on: requests time out after 60 seconds, delays are finite.
Spec == Init /\ [][Next]_vars /\ WF_vars(Step)

-----------------------------------------------------------------------------
(***************************************************************************)
(* Properties.                                                             *)
(***************************************************************************)
\* The types of the variables; the attempts stay below the limit.
TypeOK ==
  /\ published \subseteq Notices
  /\ today \in 1 .. LastDay + 1
  /\ raw \in [Days -> Seq(Notices) \cup {NoFile, Torn}]
  /\ runs \in [Days -> Run \cup {NoRun}]
  /\ manifest \in [Days -> Manifest]
  /\ pc \in {"idle", "day", "request", "write", "record", "manifest"}
  /\ job \in [script : Hashes, last : Days, force : BOOLEAN]
  /\ day \in 1 .. LastDay + 1
  /\ type \in DOMAIN NoticeTypes
  /\ after \in {0} \cup {n.key : n \in Notices}
  /\ attempt \in 0 .. MaxRetries - 1
  /\ got \in Seq(Notices)
  /\ started \in 1 .. LastDay + 1 /\ begun \in [Days -> 1 .. LastDay + 1]

\* A manifest vouches for its day: there is a file, and if the job that wrote it began
\* when the day was over, it has every notice of the day or another with its objectId,
\* over all types and pages, whatever requests failed, jobs died and notices came in
\* while it was made (fetch_bzp_range.py:114-171, bzp_api.py:83-172).  It is only so if
\* every notice of the day has an objectId, which the pagination needs, and no later
\* job died while it wrote the file anew (bzp_api.py:198-200).  The run record, which
\* may be missing (obs.py:219-245), never says that the file was begun later than it was.
Kept(n, d) == \E m \in ToSet(raw[d]) : m = n \/ SameId(m, n)
AllIds(d) == \A n \in Notices : n.window = d => n.hasId
Complete(d) == \A n \in published : n.window = d /\ n.prefix = d => Kept(n, d)
ManifestVouchesForDay ==
  \A d \in Days :
    /\ manifest[d] # NoManifest =>
         /\ raw[d] # NoFile
         /\ raw[d] # Torn /\ begun[d] > d /\ AllIds(d) => Complete(d)
    /\ runs[d] # NoRun => raw[d] # NoFile /\ runs[d].started <= begun[d]

\* A raw file has notices of its own day only, no two of them with one objectId,
\* even if the API returns them under two types
\* (bzp_api.py:148-172): the bronze layer merges on objectId.
FileHasDistinctNotices ==
  \A d \in Days : raw[d] \notin {NoFile, Torn} =>
    /\ \A i, j \in DOMAIN raw[d] :
         i # j => raw[d][i] # raw[d][j] /\ ~SameId(raw[d][i], raw[d][j])
    /\ \A n \in ToSet(raw[d]) : n.prefix = d /\ n.window = d

\* No file changes without --force when its manifest is of the script that runs:
\* a day once fetched is not asked for again, not even one fetched before its end
\* (fetch_bzp_range.py:196-201).
MatchedDayUntouched ==
  [][\A d \in Days : ~job.force /\ IsScriptProcessed(manifest[d], job.script) =>
       raw'[d] = raw[d]]_vars

\* Every job ends, whatever the API answers and however long notices are being
\* published: at most _MAX_RETRIES attempts per request, and pages that go on from
\* the last objectId (bzp_api.py:54-80, 96-137).
JobEnds == pc # "idle" ~> pc = "idle"
=============================================================================
