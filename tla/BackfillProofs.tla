--------------------------- MODULE BackfillProofs ----------------------------
(***************************************************************************)
(* Proofs about Backfill for any range of days, notice types, workers and  *)
(* number of crashes.                                                      *)
(***************************************************************************)
EXTENDS Backfill, ListProofs, FiniteSetTheorems, SequenceTheorems, TLAPS

USE ConstantsAssumption

-----------------------------------------------------------------------------
(* Days.                                                                   *)

LEMMA DaysAreFinite == IsFiniteSet(Days) /\ Days \subseteq Int
BY FS_Interval DEF Days

LEMMA ListsAreOfDays ==
  ASSUME NEW S \in SUBSET Days
  PROVE  InOrder(S) \in Seq(Days) /\ NoRepeats(InOrder(S)) /\ ToSet(InOrder(S)) = S
<1>1. IsFiniteSet(S) /\ S \in SUBSET Int
  BY DaysAreFinite, FS_Subset
<1>2. InOrder(S) \in Seq(S) /\ NoRepeats(InOrder(S)) /\ ToSet(InOrder(S)) = S
  BY <1>1, InOrderListsEach
<1> QED
  BY <1>2, SeqMonotonic

-----------------------------------------------------------------------------
(* The inductive invariants.                                               *)

\* The job: the state file is there from the list of days on, the list has each
\* day once and none that is completed, and the day being built is its head.
JobInv ==
  /\ jobPc \in {"days", "build"} =>
       /\ ckpt \in [Days -> Status] /\ NoRepeats(todo)
       /\ \A d \in ToSet(todo) : ckpt[d] # "completed"
  /\ jobPc = "build" =>
       todo # <<>> /\ builds[Job].day = Head(todo) /\ ckpt[Head(todo)] = "in_progress"

JobOK == TypeOK /\ JobInv

\* The pool: a day is pending once, or with one child, or has ended; a pid whose
\* result is kept builds nothing unless the pool has given it another day.
ActiveDays == {builds[p].day : p \in active}
EndedDays == {r.day : r \in completed}
PoolInv ==
  /\ poolPc = "idle" => pending = <<>> /\ active = {} /\ completed = {}
  /\ NoRepeats(pending)
  /\ \A p, q \in active : builds[p].day = builds[q].day => p = q
  /\ ToSet(pending) \cap ActiveDays = {}
  /\ EndedDays \cap (ActiveDays \cup ToSet(pending)) = {}
  /\ \A r \in completed : r.pid \in active \/ builds[r.pid].stage = "none"

\* The builds of a day, as long as the builder that deleted its envelope last had
\* it alone: nobody else appends, and each type it has dealt with is there once, on top
\* of the rows that the delete left.
Has(d, S) == \A t \in Types : envelope[d][t] = kept[d][t] + IF t \in S THEN 1 ELSE 0
Full(b, d) == Has(d, Input(b, d))
Builds(b, d, stage) == builds[b].stage = stage /\ builds[b].day = d
Sole(b, d) ==
  built[d] = b =>
    /\ \A c \in Builders \ {b} : ~Builds(c, d, "append")
    /\ Builds(b, d, "append") =>
         /\ builds[b].left \subseteq Input(b, d)
         /\ Has(d, Input(b, d) \ builds[b].left)
    /\ Builds(b, d, "ok") => Full(b, d)
    /\ Claims(b, d) => Full(b, d)
BuildInv == \A b \in Builders, d \in Days : Sole(b, d)

IInv == JobOK /\ PoolInv /\ BuildInv

-----------------------------------------------------------------------------
(* Types and the job.                                                      *)

LEMMA JobIsABuilder ==
  /\ Job \in Builders /\ Pids \subseteq Builders /\ Job \notin Pids /\ Builders \subseteq Nat
  /\ Nobody \notin Builders /\ 1 \in Days
BY DEF Job, Builders, Nobody, Days

LEMMA InputIsOfTypes ==
  ASSUME NEW b \in Builders, NEW d \in Days
  PROVE  Input(b, d) \subseteq Types
BY DEF Input

LEMMA InitJobOK == Init => JobOK
<1> SUFFICES ASSUME Init PROVE JobOK
  OBVIOUS
<1>1. TypeOK
  <2>1. <<>> \in Seq(Days)
    BY EmptySeq
  <2>2. NoBuild \in Build
    BY JobIsABuilder DEF NoBuild, Build
  <2>3. builds \in [Builders -> Build] /\ builds[Job] = NoBuild
    BY <2>2, JobIsABuilder DEF Init
  <2>4. opts \in [continue : BOOLEAN, maxDays : 0 .. LastDay]
    BY DEF Init, NoOpts
  <2>5. /\ ckpt \in [Days -> Status] \cup {NoFile} /\ envelope \in [Days -> [Types -> Nat]]
        /\ kept \in [Days -> [Types -> Nat]]
        /\ built \in [Days -> Builders \cup {Nobody}] /\ trouble \in 0 .. MaxTrouble
    BY DEF Init
  <2>6. /\ jobPc = "idle" /\ builds[Job].stage = "none" /\ todo = <<>>
        /\ poolPc = "idle" /\ skipGold = FALSE /\ pending = <<>> /\ active = {} /\ completed = {}
    BY <2>3 DEF Init, NoBuild
  <2> QED
    BY <2>1, <2>3, <2>4, <2>5, <2>6 DEF TypeOK
<1>2. JobInv
  BY DEF Init, JobInv
<1> QED
  BY <1>1, <1>2 DEF JobOK

\* What every step does to the builders: new builds are builds.
LEMMA NewBuilds ==
  ASSUME builds \in [Builders -> Build], NEW b \in Builders
  PROVE  /\ NoBuild \in Build
         /\ \A d \in Days : BeginBuild(b, d) \in [Builders -> Build]
         /\ \A d \in Days, stage \in {"gold"} :
              [builds EXCEPT ![b] = [stage |-> stage, day |-> d, left |-> {}]] \in [Builders -> Build]
         /\ \A S \in SUBSET Types :
              [builds EXCEPT ![b].stage = "append", ![b].left = S] \in [Builders -> Build]
         /\ \A S \in SUBSET Types : [builds EXCEPT ![b].left = S] \in [Builders -> Build]
         /\ \A stage \in {"ok", "failed"} :
              [builds EXCEPT ![b] = IF b \in active THEN [@ EXCEPT !.stage = stage] ELSE NoBuild]
                 \in [Builders -> Build]
         /\ [builds EXCEPT ![b] = NoBuild] \in [Builders -> Build]
         /\ \A S : [c \in Builders |-> IF c \in S THEN NoBuild ELSE builds[c]] \in [Builders -> Build]
<1>1. NoBuild \in Build
  BY JobIsABuilder DEF NoBuild, Build
<1>2. \A d \in Days : [stage |-> "delete", day |-> d, left |-> {}] \in Build
  BY DEF Build
<1>3. \A d \in Days : [stage |-> "gold", day |-> d, left |-> {}] \in Build
  BY DEF Build
<1>4. \A S \in SUBSET Types, r \in Build : [r EXCEPT !.left = S] \in Build
  BY DEF Build
<1>5. \A stage \in {"ok", "failed"}, r \in Build : [r EXCEPT !.stage = stage] \in Build
  BY DEF Build
<1>6. \A S \in SUBSET Types, r \in Build : [r EXCEPT !.stage = "append", !.left = S] \in Build
  BY DEF Build
<1> QED
  BY <1>1, <1>2, <1>3, <1>4, <1>5, <1>6 DEF BeginBuild

LEMMA StartJobKeepsJobOK ==
  ASSUME JobOK, NEW continue \in BOOLEAN, NEW reset \in BOOLEAN, NEW maxDays \in 0 .. LastDay - 1,
         StartJob(continue, maxDays, reset)
  PROVE  JobOK'
<1>1. opts' \in [continue : BOOLEAN, maxDays : 0 .. LastDay]
  BY DEF StartJob
<1>2. ckpt' \in [Days -> Status] \cup {NoFile} /\ trouble' \in 0 .. MaxTrouble
  BY DEF JobOK, TypeOK, StartJob, Trouble
<1>3. TypeOK'
  BY <1>1, <1>2 DEF JobOK, TypeOK, StartJob, day, pool
<1>4. JobInv'
  BY DEF StartJob, JobInv
<1> QED
  BY <1>3, <1>4 DEF JobOK

LEMMA LoadStateKeepsJobOK ==
  ASSUME JobOK, LoadState
  PROVE  JobOK'
<1> DEFINE days == PendingDays(ckpt')
<1>1. [d \in Days |-> "pending"] \in [Days -> Status]
  BY DEF Status
<1>2. ckpt' \in [Days -> Status]
  BY <1>1 DEF JobOK, TypeOK, LoadState
<1>3. days \in Seq(Days) /\ NoRepeats(days) /\ ToSet(days) = {d \in Days : ckpt'[d] # "completed"}
  BY ListsAreOfDays, Zenon DEF PendingDays
<1> HIDE DEF days
<1>4. todo' = IF opts.maxDays \in 1 .. Len(days) THEN SubSeq(days, 1, opts.maxDays) ELSE days
  BY DEF LoadState, days
<1>5. todo' \in Seq(Days) /\ NoRepeats(todo') /\ ToSet(todo') \subseteq ToSet(days)
  <2>1. CASE opts.maxDays \in 1 .. Len(days)
    BY <1>3, <1>4, <2>1, PrefixIsPart
  <2>2. CASE opts.maxDays \notin 1 .. Len(days)
    BY <1>3, <1>4, <2>2
  <2> QED
    BY <2>1, <2>2
<1>6. opts' \in [continue : BOOLEAN, maxDays : 0 .. LastDay]
  <2>1. opts \in [continue : BOOLEAN, maxDays : 0 .. LastDay] /\ opts' = [opts EXCEPT !.maxDays = 0]
    BY DEF JobOK, TypeOK, LoadState
  <2>2. 0 \in 0 .. LastDay
    OBVIOUS
  <2> QED
    BY <2>1, <2>2
<1>7. TypeOK'
  BY <1>2, <1>5, <1>6 DEF JobOK, TypeOK, LoadState, day, pool
<1>8. JobInv'
  BY <1>2, <1>3, <1>5 DEF JobInv, LoadState, NoRepeats
<1> QED
  BY <1>7, <1>8 DEF JobOK

LEMMA BeginDayKeepsJobOK ==
  ASSUME JobOK, BeginDay
  PROVE  JobOK'
<1>1. /\ jobPc = "days" /\ jobPc' = "build" /\ todo # <<>> /\ todo \in Seq(Days) /\ todo' = todo
      /\ ckpt \in [Days -> Status] /\ ckpt' = [ckpt EXCEPT ![Head(todo)] = "in_progress"]
      /\ builds \in [Builders -> Build] /\ builds' = BeginBuild(Job, Head(todo))
  BY DEF JobOK, TypeOK, JobInv, BeginDay, Save
<1>2. Head(todo) \in Days
  BY <1>1, HeadAndTail
<1>3. ckpt' \in [Days -> Status] /\ ckpt'[Head(todo)] = "in_progress"
  BY <1>1, <1>2 DEF Status
<1>4. builds' \in [Builders -> Build]
  BY <1>1, <1>2, JobIsABuilder, NewBuilds
<1>5. /\ builds'[Job].stage = "delete" /\ builds'[Job].day = Head(todo)
      /\ \A p \in Pids : builds'[p] = builds[p]
  BY <1>1, JobIsABuilder DEF BeginBuild
<1>6. TypeOK'
  BY <1>1, <1>3, <1>4, <1>5 DEF JobOK, TypeOK, BeginDay, pool
<1>7. JobInv'
  BY <1>1, <1>2, <1>3, <1>5 DEF JobOK, JobInv, NoRepeats, ToSet
<1> QED
  BY <1>6, <1>7 DEF JobOK

\* The day of the job ends with a status, and the job goes on with the others.
LEMMA LeaveDayKeepsJobOK ==
  ASSUME JobOK, jobPc = "build", NEW status \in Status \ {"pending"}, Save(Head(todo), status),
         LeaveDay, UNCHANGED <<opts, envelope, built, kept, pool>>, trouble' \in 0 .. MaxTrouble
  PROVE  JobOK'
<1>1. /\ todo # <<>> /\ todo \in Seq(Days) /\ NoRepeats(todo) /\ \A d \in ToSet(todo) : ckpt[d] # "completed"
      /\ ckpt \in [Days -> Status] /\ ckpt' = [ckpt EXCEPT ![Head(todo)] = status]
      /\ builds \in [Builders -> Build] /\ builds' = [builds EXCEPT ![Job] = NoBuild]
      /\ todo' = Tail(todo) /\ jobPc' = "days"
  BY DEF JobOK, TypeOK, JobInv, Save, LeaveDay
<1>2. /\ Head(todo) \in Days /\ todo' \in Seq(Days) /\ NoRepeats(todo')
      /\ ToSet(todo') \subseteq ToSet(todo) \ {Head(todo)}
  BY <1>1, HeadAndTail
<1>3. ckpt' \in [Days -> Status] /\ \A d \in ToSet(todo') : ckpt'[d] # "completed"
  <2>1. ToSet(todo') \subseteq Days
    BY <1>2, LenProperties DEF ToSet
  <2> QED
    BY <1>1, <1>2, <2>1
<1>4. builds' \in [Builders -> Build] /\ builds'[Job].stage = "none" /\ \A p \in Pids : builds'[p] = builds[p]
  BY <1>1, JobIsABuilder, NewBuilds DEF NoBuild
<1>5. TypeOK'
  BY <1>1, <1>2, <1>3, <1>4 DEF JobOK, TypeOK, pool
<1>6. JobInv'
  BY <1>1, <1>2, <1>3 DEF JobInv
<1> QED
  BY <1>5, <1>6 DEF JobOK

LEMMA EndJobKeepsJobOK ==
  ASSUME JobOK, EndJob, UNCHANGED <<envelope, built, kept, pool>>,
         ckpt' \in [Days -> Status] \cup {NoFile}, trouble' \in 0 .. MaxTrouble
  PROVE  JobOK'
<1>1. builds' \in [Builders -> Build] /\ builds'[Job].stage = "none" /\ \A p \in Pids : builds'[p] = builds[p]
  BY JobIsABuilder, NewBuilds DEF JobOK, TypeOK, EndJob, NoBuild
<1>2. todo' \in Seq(Days) /\ opts' \in [continue : BOOLEAN, maxDays : 0 .. LastDay]
  BY EmptySeq DEF EndJob, NoOpts
<1>3. TypeOK'
  BY <1>1, <1>2 DEF JobOK, TypeOK, EndJob, pool
<1> QED
  BY <1>3 DEF JobOK, JobInv, EndJob

\* The other steps leave the job as it is.
PoolOK ==
  /\ poolPc \in {"idle", "silver", "gold"} /\ skipGold \in BOOLEAN
  /\ pending \in Seq(Days) /\ active \subseteq Pids /\ completed \subseteq Result
  /\ \A p \in active : builds[p].stage # "none"

LEMMA OthersKeepJobOK ==
  ASSUME JobOK, UNCHANGED <<ckpt, job>>, PoolOK', trouble' \in 0 .. MaxTrouble,
         builds' \in [Builders -> Build], envelope' \in [Days -> [Types -> Nat]],
         kept' \in [Days -> [Types -> Nat]],
         built' \in [Days -> Builders \cup {Nobody}],
         builds'[Job].day = builds[Job].day, builds'[Job].stage = "none" <=> builds[Job].stage = "none"
  PROVE  JobOK'
<1>1. TypeOK'
  BY DEF JobOK, TypeOK, PoolOK, job
<1>2. JobInv'
  BY DEF JobOK, JobInv, job
<1> QED
  BY <1>1, <1>2 DEF JobOK

LEMMA BuildStepKeepsJobOK ==
  ASSUME JobOK, NEW b \in Builders, BuildStep(b)
  PROVE  JobOK'
<1> DEFINE d == builds[b].day
<1>1. /\ builds \in [Builders -> Build] /\ d \in Days /\ builds[b].left \in SUBSET Types
      /\ Input(b, d) \in SUBSET Types
  BY InputIsOfTypes DEF JobOK, TypeOK, Build
<1>2. ASSUME NEW ok \in BOOLEAN, DeleteEnvelope(b, ok) PROVE JobOK'
  <2>1. builds' \in [Builders -> Build]
    BY <1>1, <1>2, NewBuilds DEF DeleteEnvelope
  <2>2. \A c \in Builders : builds'[c].day = builds[c].day
                            /\ (builds'[c].stage = "none" <=> builds[c].stage = "none")
    BY <1>1, <1>2 DEF DeleteEnvelope
  <2>3. /\ envelope' \in [Days -> [Types -> Nat]] /\ built' \in [Days -> Builders \cup {Nobody}]
        /\ envelope \in [Days -> [Types -> Nat]]
    BY <1>2 DEF JobOK, TypeOK, DeleteEnvelope
  <2>5. kept' \in [Days -> [Types -> Nat]]
    <3>1. kept \in [Days -> [Types -> Nat]] /\ kept' = [kept EXCEPT ![d] = envelope'[d]]
      BY <1>2 DEF JobOK, TypeOK, DeleteEnvelope
    <3>2. envelope'[d] \in [Types -> Nat]
      BY <1>1, <2>3
    <3> QED
      BY <3>1, <3>2
  <2>6. trouble' \in 0 .. MaxTrouble
    BY <1>2 DEF JobOK, TypeOK, DeleteEnvelope, Trouble
  <2>4. PoolOK'
    BY <1>2, <2>2, JobIsABuilder DEF JobOK, TypeOK, PoolOK, DeleteEnvelope, pool
  <2> QED
    BY <1>2, <2>1, <2>2, <2>3, <2>4, <2>5, <2>6, JobIsABuilder, OthersKeepJobOK
       DEF DeleteEnvelope, JobOK, TypeOK
<1>3. ASSUME NEW t \in Types, AppendEnvelope(b, t) PROVE JobOK'
  <2>1. builds' \in [Builders -> Build]
    BY <1>1, <1>3, NewBuilds DEF AppendEnvelope
  <2>2. \A c \in Builders : builds'[c].day = builds[c].day /\ builds'[c].stage = builds[c].stage
    BY <1>1, <1>3 DEF AppendEnvelope
  <2>3. envelope' \in [Days -> [Types -> Nat]] /\ built' \in [Days -> Builders \cup {Nobody}]
    <3>1. envelope' = [envelope EXCEPT ![d] = [envelope[d] EXCEPT ![t] = envelope[d][t] + 1]]
      BY <1>3 DEF AppendEnvelope
    <3>2. [envelope[d] EXCEPT ![t] = envelope[d][t] + 1] \in [Types -> Nat]
      BY <1>1, <1>3 DEF JobOK, TypeOK
    <3> QED
      BY <1>1, <1>3, <3>1, <3>2 DEF JobOK, TypeOK, AppendEnvelope
  <2>4. PoolOK'
    BY <1>3, <2>2, JobIsABuilder DEF JobOK, TypeOK, PoolOK, AppendEnvelope, pool
  <2> QED
    BY <1>3, <2>1, <2>2, <2>3, <2>4, JobIsABuilder, OthersKeepJobOK
       DEF AppendEnvelope, JobOK, TypeOK
<1> QED
  BY <1>2, <1>3 DEF BuildStep

\* A child that ends leaves its return code with the pool that waits for it.
LEMMA ExitKeepsJobOK ==
  ASSUME JobOK, NEW p \in Pids, NEW stage \in {"ok", "failed"}, Exit(p, stage),
         UNCHANGED <<ckpt, envelope, built, kept, job, pool>>, trouble' \in 0 .. MaxTrouble
  PROVE  JobOK'
<1>1. builds' \in [Builders -> Build]
  BY JobIsABuilder, NewBuilds DEF JobOK, TypeOK, Exit
<1>2. builds'[Job] = builds[Job]
  BY JobIsABuilder DEF JobOK, TypeOK, Exit
<1>3. ASSUME NEW q \in active PROVE builds'[q].stage # "none"
  <2>1. q \in Builders /\ builds \in [Builders -> Build] /\ builds[q].stage # "none"
    BY <1>3, JobIsABuilder DEF JobOK, TypeOK
  <2>2. CASE q = p
    BY <1>3, <2>1, <2>2 DEF Exit, Build
  <2>3. CASE q # p
    BY <2>1, <2>3 DEF Exit
  <2> QED
    BY <2>2, <2>3
<1>4. PoolOK'
  BY <1>3 DEF JobOK, TypeOK, PoolOK, pool
<1> QED
  BY <1>1, <1>2, <1>4, OthersKeepJobOK DEF JobOK, TypeOK

LEMMA StartNextKeepsJobOK ==
  ASSUME JobOK, NEW p \in Pids, StartNext(p)
  PROVE  JobOK'
<1>1. pending \in Seq(Days) /\ pending # <<>> /\ Head(pending) \in Days /\ pending' \in Seq(Days)
  BY HeadAndTail DEF JobOK, TypeOK, StartNext, HasRoom
<1>2. builds \in [Builders -> Build] /\ p \in Builders /\ p # Job
  BY JobIsABuilder DEF JobOK, TypeOK
<1>3. /\ builds' \in [Builders -> Build] /\ builds'[p].stage \in {"delete", "gold"}
      /\ \A b \in Builders \ {p} : builds'[b] = builds[b]
  <2>1. CASE poolPc = "silver"
    <3>1. builds' = BeginBuild(p, Head(pending))
      BY <2>1 DEF StartNext
    <3>2. builds' \in [Builders -> Build]
      BY <1>1, <1>2, <3>1, NewBuilds
    <3> QED
      BY <1>2, <3>1, <3>2 DEF BeginBuild
  <2>2. CASE poolPc # "silver"
    <3>1. builds' = [builds EXCEPT ![p] = [stage |-> "gold", day |-> Head(pending), left |-> {}]]
      BY <2>2 DEF StartNext
    <3>2. builds' \in [Builders -> Build]
      BY <1>1, <1>2, <3>1, NewBuilds
    <3> QED
      BY <1>2, <3>1, <3>2
  <2> QED
    BY <2>1, <2>2
<1>4. PoolOK'
  BY <1>1, <1>3, JobIsABuilder DEF JobOK, TypeOK, PoolOK, StartNext
<1> QED
  BY <1>2, <1>3, <1>4, JobIsABuilder, OthersKeepJobOK DEF JobOK, TypeOK, StartNext

\* The pool takes the return codes of the children that ended.
LEMMA PollKeepsJobOK ==
  ASSUME JobOK, Poll \/ KillPool
  PROVE  JobOK'
<1>1. builds \in [Builders -> Build] /\ active \subseteq Pids /\ Finished \subseteq active
  BY DEF JobOK, TypeOK, Finished
<1>2. builds' = [b \in Builders |-> IF b \in Finished THEN NoBuild ELSE builds[b]]
  BY DEF Poll, KillPool
<1>3. builds' \in [Builders -> Build] /\ builds'[Job] = builds[Job]
  BY <1>1, <1>2, JobIsABuilder, NewBuilds
<1>4. \A p \in active \ Finished : builds'[p] = builds[p]
  BY <1>1, <1>2, JobIsABuilder
<1>5. {[day |-> builds[p].day, pid |-> p, ok |-> builds[p].stage = "ok"] : p \in Finished} \subseteq Result
  <2>1. \A p \in Finished : p \in Pids /\ builds[p].day \in Days
    BY <1>1, JobIsABuilder DEF Build
  <2>2. \A p \in Finished : (builds[p].stage = "ok") \in BOOLEAN
    OBVIOUS
  <2>3. \A p \in Finished : [day |-> builds[p].day, pid |-> p, ok |-> builds[p].stage = "ok"] \in Result
    BY <2>1, <2>2, Zenon DEF Result
  <2> QED
    BY <2>3, Zenon
<1>6. PoolOK'
  <2>1. CASE Poll
    BY <1>4, <1>5, <2>1 DEF JobOK, TypeOK, PoolOK, Poll
  <2>2. CASE KillPool
    BY <2>2, EmptySeq DEF PoolOK, KillPool
  <2> QED
    BY <2>1, <2>2
<1>7. trouble' \in 0 .. MaxTrouble
  BY DEF JobOK, TypeOK, Poll, KillPool, Trouble
<1> QED
  BY <1>3, <1>6, <1>7, OthersKeepJobOK DEF JobOK, TypeOK, Poll, KillPool

LEMMA NewStageKeepsJobOK ==
  ASSUME JobOK, (\E skip, onlyGold \in BOOLEAN : StartPool(skip, onlyGold)) \/ EndStage
  PROVE  JobOK'
<1>1. ListDays \in Seq(Days)
  BY ListsAreOfDays DEF ListDays
<1>2. PoolOK'
  <2>1. ASSUME NEW skip \in BOOLEAN, NEW onlyGold \in BOOLEAN, StartPool(skip, onlyGold) PROVE PoolOK'
    <3>1. poolPc' \in {"idle", "silver", "gold"} /\ skipGold' \in BOOLEAN
      BY <2>1, Zenon DEF StartPool
    <3>2. pending' \in Seq(Days) /\ active' = {} /\ completed' = {}
      BY <1>1, <2>1 DEF StartPool
    <3> QED
      BY <3>1, <3>2 DEF PoolOK
  <2>2. CASE EndStage
    BY <1>1, <2>2 DEF EndStage, JobOK, TypeOK, PoolOK, day
  <2> QED
    BY <2>1, <2>2
<1>3. UNCHANGED <<ckpt, trouble, job, day>>
  BY DEF StartPool, EndStage
<1> QED
  BY <1>2, <1>3, OthersKeepJobOK DEF JobOK, TypeOK, day

LEMMA JobOKInductive ==
  ASSUME JobOK, [Next]_vars
  PROVE  JobOK'
<1>1. trouble \in 0 .. MaxTrouble /\ (Trouble => trouble' \in 0 .. MaxTrouble)
  BY DEF JobOK, TypeOK, Trouble
<1>2. ASSUME NEW continue \in BOOLEAN, NEW reset \in BOOLEAN, NEW maxDays \in 0 .. LastDay - 1,
             StartJob(continue, maxDays, reset)
      PROVE  JobOK'
  BY <1>2, StartJobKeepsJobOK
<1>3. CASE LoadState
  BY <1>3, LoadStateKeepsJobOK
<1>4. CASE BeginDay
  BY <1>4, BeginDayKeepsJobOK
<1>5. CASE CompleteDay
  BY <1>1, <1>5, LeaveDayKeepsJobOK DEF CompleteDay, Status, pool
<1>6. CASE FailDay
  <2>1. trouble' \in 0 .. MaxTrouble
    BY <1>1, <1>6 DEF FailDay, BuildFails
  <2>2. CASE opts.continue
    BY <1>6, <2>1, <2>2, LeaveDayKeepsJobOK DEF FailDay, Status, pool
  <2>3. CASE ~opts.continue
    <3>1. ckpt' \in [Days -> Status]
      BY <1>6 DEF FailDay, Save, JobOK, JobInv, Status
    <3> QED
      BY <1>6, <2>1, <2>3, <3>1, EndJobKeepsJobOK DEF FailDay, pool
  <2> QED
    BY <2>2, <2>3
<1>7. CASE FinishJob
  BY <1>7, EndJobKeepsJobOK DEF FinishJob, JobOK, TypeOK, pool
<1>8. CASE KillJob
  BY <1>1, <1>8, EndJobKeepsJobOK DEF KillJob, JobOK, TypeOK, pool
<1>9. ASSUME NEW b \in Builders, BuildStep(b) PROVE JobOK'
  BY <1>9, BuildStepKeepsJobOK
<1>10. CASE (\E skip, onlyGold \in BOOLEAN : StartPool(skip, onlyGold)) \/ EndStage
  BY <1>10, NewStageKeepsJobOK
<1>11. ASSUME NEW p \in Pids, StartNext(p) PROVE JobOK'
  BY <1>11, StartNextKeepsJobOK
<1>12. CASE Poll \/ KillPool
  BY <1>12, PollKeepsJobOK
<1>13. ASSUME NEW p \in Pids, ChildDone(p) \/ ChildFails(p) PROVE JobOK'
  <2>1. trouble' \in 0 .. MaxTrouble
    BY <1>1, <1>13 DEF ChildDone, ChildFails, BuildFails
  <2> QED
    BY <1>13, <2>1, ExitKeepsJobOK DEF ChildDone, ChildFails, pool
<1>14. CASE UNCHANGED vars
  BY <1>14, OthersKeepJobOK DEF vars, job, pool, day, JobOK, TypeOK, PoolOK
<1> QED
  BY <1>2, <1>3, <1>4, <1>5, <1>6, <1>7, <1>8, <1>9, <1>10, <1>11, <1>12, <1>13, <1>14,
     JobIsABuilder, Zenon
     DEF Next, JobStep, PoolStep, ChildStep

LEMMA JobAlwaysOK == Spec => []JobOK
<1> QED
  BY InitJobOK, JobOKInductive, PTL DEF Spec

\* The variables always have their types: the job has a state file and a day left
\* whenever it saves a status (build_silver_backfill.py:208-255), and every child
\* on the pool's list has a process (backfill_parallel.py:122-186).
THEOREM TypesAreCorrect == Spec => []TypeOK
<1>1. JobOK => TypeOK
  BY DEF JobOK
<1> QED
  BY <1>1, JobAlwaysOK, PTL

\* However often the backfill is interrupted and started again, no day that its
\* state file has as completed is begun or changed, until the file is reset.
THEOREM CompletedDaysAreLeft == Spec => CompletedDayIsLeft
<1> DEFINE Left(d) ==
      ckpt # NoFile /\ ckpt' # NoFile /\ ckpt[d] = "completed" =>
        ckpt'[d] = "completed" /\ ~(builds[Job].stage = "none" /\ builds'[Job].stage # "none"
                                     /\ builds'[Job].day = d)
<1>1. ASSUME JobOK, JobOK', [Next]_vars, NEW d \in Days PROVE Left(d)
  <2> SUFFICES ASSUME ckpt # NoFile, ckpt' # NoFile, ckpt[d] = "completed",
                      ckpt' # ckpt \/ builds'[Job].stage # builds[Job].stage
               PROVE  Left(d)
    BY <1>1 DEF JobOK, TypeOK
  <2>1. builds \in [Builders -> Build] /\ Job \in Builders /\ Job \notin Pids /\ ckpt \in [Days -> Status]
    BY <1>1, JobIsABuilder DEF JobOK, TypeOK
  <2>2. ASSUME jobPc \in {"days", "build"}, todo # <<>>
        PROVE  /\ Head(todo) \in Days /\ Head(todo) \in ToSet(todo)
               /\ ckpt[Head(todo)] # "completed"
    BY <1>1, <2>2, HeadAndTail DEF JobOK, TypeOK, JobInv
  <2>3. CASE BeginDay
    <3>1. builds'[Job].day = Head(todo)
      BY <2>1, <2>3 DEF BeginDay, BeginBuild
    <3> QED
      BY <2>1, <2>2, <2>3, <3>1 DEF BeginDay, Save
  <2>4. CASE CompleteDay \/ FailDay
    <3>1. todo # <<>> /\ jobPc = "build"
      BY <1>1, <2>4 DEF JobOK, JobInv, CompleteDay, FailDay
    <3>2. builds'[Job].stage = "none"
      BY <2>1, <2>4 DEF CompleteDay, FailDay, LeaveDay, EndJob, NoBuild
    <3> QED
      BY <2>1, <2>2, <2>4, <3>1, <3>2 DEF CompleteDay, FailDay, Save
  <2>5. CASE FinishJob \/ KillJob
    <3>1. builds'[Job].stage = "none"
      BY <2>1, <2>5 DEF FinishJob, KillJob, EndJob, NoBuild
    <3> QED
      BY <2>5, <3>1 DEF FinishJob, KillJob
  <2>6. CASE LoadState \/ \E continue, reset \in BOOLEAN, maxDays \in 0 .. LastDay - 1 :
                            StartJob(continue, maxDays, reset)
    BY <2>6 DEF LoadState, StartJob, day
  <2>7. CASE BuildStep(Job)
    <3>1. ckpt' = ckpt /\ builds[Job].stage # "none"
      BY <2>7 DEF BuildStep, DeleteEnvelope, AppendEnvelope
    <3> QED
      BY <3>1
  <2>8. CASE PoolStep \/ KillPool \/ \E p \in Pids : ChildStep(p)
    <3>1. ckpt' = ckpt /\ UNCHANGED job
      BY <2>8 DEF PoolStep, KillPool, ChildStep, StartNext, Poll, EndStage, BuildStep,
         DeleteEnvelope, AppendEnvelope, ChildDone, ChildFails
    <3>2. (jobPc = "build") = (builds[Job].stage # "none")
          /\ (jobPc' = "build") = (builds'[Job].stage # "none")
      BY <1>1 DEF JobOK, TypeOK
    <3> QED
      BY <3>1, <3>2 DEF job
  <2>9. CASE UNCHANGED vars \/ \E skip, onlyGold \in BOOLEAN : StartPool(skip, onlyGold)
    BY <2>9 DEF vars, day, StartPool
  <2> QED
    BY <1>1, <2>3, <2>4, <2>5, <2>6, <2>7, <2>8, <2>9 DEF Next, JobStep
<1>2. JobOK /\ JobOK' /\ [Next]_vars => [\A d \in Days : Left(d)]_vars
  BY <1>1
<1> QED
  BY <1>2, JobAlwaysOK, PTL DEF Spec, CompletedDayIsLeft

-----------------------------------------------------------------------------
(* The pool.                                                               *)

LEMMA EmptyList == NoRepeats(<<>>) /\ ToSet(<<>>) = {}
BY DEF NoRepeats, ToSet

\* The job, and the children while they build, leave the pool as it is.
QueueKept == ToSet(pending)' = ToSet(pending) /\ ActiveDays' = ActiveDays /\ EndedDays' = EndedDays

LEMMA OthersKeepPool ==
  ASSUME JobOK, PoolInv, UNCHANGED pool,
         \A p \in active : builds'[p].day = builds[p].day,
         \A p \in Pids : builds[p].stage = "none" => builds'[p].stage = "none"
  PROVE  PoolInv' /\ QueueKept
<1>1. /\ pending' = pending /\ active' = active /\ completed' = completed /\ poolPc' = poolPc
      /\ \A r \in completed : r.pid \in Pids
  BY DEF pool, JobOK, TypeOK, Result
<1>2. QueueKept
  BY <1>1 DEF QueueKept, ToSet, ActiveDays, EndedDays
<1>3. NoRepeats(pending')
  BY <1>1 DEF PoolInv
<1>4. \A p, q \in active' : builds'[p].day = builds'[q].day => p = q
  BY <1>1 DEF PoolInv
<1>5. \A r \in completed' : r.pid \in active' \/ builds'[r.pid].stage = "none"
  BY <1>1 DEF PoolInv
<1>6. ToSet(pending)' = ToSet(pending')
  OBVIOUS
<1>7. /\ poolPc' = "idle" => pending' = <<>> /\ active' = {} /\ completed' = {}
      /\ ToSet(pending') \cap ActiveDays' = {}
      /\ EndedDays' \cap (ActiveDays' \cup ToSet(pending')) = {}
  BY <1>1, <1>2, <1>6 DEF PoolInv, QueueKept
<1> QED
  BY <1>2, <1>3, <1>4, <1>5, <1>7 DEF PoolInv

LEMMA StartPoolKeepsPool ==
  ASSUME JobOK, PoolInv, NEW skip \in BOOLEAN, NEW onlyGold \in BOOLEAN, StartPool(skip, onlyGold)
  PROVE  PoolInv'
<1>1. pending' = ListDays /\ active' = {} /\ completed' = {} /\ poolPc' # "idle"
  BY DEF StartPool
<1>2. NoRepeats(ListDays)
  BY ListsAreOfDays DEF ListDays
<1> QED
  BY <1>1, <1>2 DEF PoolInv, ActiveDays, EndedDays

LEMMA EndStageKeepsPool ==
  ASSUME JobOK, PoolInv, EndStage
  PROVE  PoolInv'
<1>1. pending = <<>> /\ active = {} /\ active' = {} /\ completed' = {}
  BY DEF EndStage
<1>3. NoRepeats(ListDays)
  BY ListsAreOfDays DEF ListDays
<1>4. NoRepeats(pending') /\ (poolPc' = "idle" => pending' = <<>>)
  BY <1>1, <1>3, EmptyList DEF EndStage
<1> QED
  BY <1>1, <1>4 DEF PoolInv, ActiveDays, EndedDays

LEMMA KillPoolKeepsPool ==
  ASSUME KillPool
  PROVE  PoolInv'
BY EmptyList DEF KillPool, PoolInv, ActiveDays, EndedDays

LEMMA StartNextKeepsPool ==
  ASSUME JobOK, PoolInv, NEW p \in Pids, StartNext(p)
  PROVE  /\ PoolInv'
         /\ Head(pending) \in ToSet(pending) /\ ToSet(pending') = ToSet(pending) \ {Head(pending)}
         /\ ActiveDays' = ActiveDays \cup {Head(pending)} /\ EndedDays' = EndedDays
<1>1. /\ pending \in Seq(Days) /\ pending # <<>> /\ pending' = Tail(pending)
      /\ active' = active \cup {p} /\ completed' = completed /\ poolPc' = poolPc /\ poolPc # "idle"
      /\ p \notin active /\ builds \in [Builders -> Build] /\ active \subseteq Pids
      /\ \A r \in completed : r.pid \in Pids
  BY DEF JobOK, TypeOK, StartNext, HasRoom, Result
<1>2. /\ ToSet(pending) = {Head(pending)} \cup ToSet(pending') /\ NoRepeats(pending')
      /\ Head(pending) \notin ToSet(pending')
  BY <1>1, HeadAndTail DEF PoolInv
<1>3. builds'[p].day = Head(pending) /\ \A q \in Pids \ {p} : builds'[q] = builds[q]
  BY <1>1, JobIsABuilder DEF StartNext, BeginBuild
<1>4. ActiveDays' = ActiveDays \cup {Head(pending)}
  BY <1>1, <1>3 DEF ActiveDays
<1>5. EndedDays' = EndedDays
  BY <1>1 DEF EndedDays
<1>6. \A q \in active : builds[q].day # Head(pending)
  BY <1>2 DEF PoolInv, ActiveDays
<1>7. \A q, r \in active' : builds'[q].day = builds'[r].day => q = r
  <2>1. \A q \in active : q \in Pids \ {p} /\ builds'[q] = builds[q]
    BY <1>1, <1>3
  <2>2. \A q, r \in active : builds[q].day = builds[r].day => q = r
    BY DEF PoolInv
  <2>3. \A q \in active' : q = p \/ q \in active
    BY <1>1
  <2> QED
    BY <1>3, <1>6, <2>1, <2>2, <2>3, Zenon
<1>8. \A r \in completed' : r.pid \in active' \/ builds'[r.pid].stage = "none"
  BY <1>1, <1>3 DEF PoolInv
<1> QED
  BY <1>1, <1>2, <1>4, <1>5, <1>7, <1>8 DEF PoolInv

LEMMA PollKeepsPool ==
  ASSUME JobOK, PoolInv, Poll
  PROVE  LET days == {builds[p].day : p \in Finished} IN
           /\ PoolInv' /\ days # {} /\ days \subseteq ActiveDays
           /\ ToSet(pending') = ToSet(pending)
           /\ ActiveDays' = ActiveDays \ days /\ EndedDays' = EndedDays \cup days
<1> DEFINE days == {builds[p].day : p \in Finished}
           new == {[day |-> builds[p].day, pid |-> p, ok |-> builds[p].stage = "ok"] : p \in Finished}
<1>1. /\ pending' = pending /\ poolPc' = poolPc /\ poolPc # "idle"
      /\ active' = active \ Finished /\ completed' = completed \cup new
      /\ Finished # {} /\ Finished \subseteq active /\ active \subseteq Pids
      /\ builds' = [b \in Builders |-> IF b \in Finished THEN NoBuild ELSE builds[b]]
      /\ \A r \in completed : r.pid \in Pids
  BY DEF JobOK, TypeOK, Poll, Finished, Result
<1>2. /\ \A p \in active' : p \in active /\ builds'[p] = builds[p]
      /\ \A p \in Pids : builds'[p] = builds[p] \/ builds'[p].stage = "none"
      /\ \A p \in Finished : builds'[p].stage = "none"
  BY <1>1, JobIsABuilder DEF NoBuild
<1>3. ActiveDays' = ActiveDays \ days
  BY <1>1, <1>2 DEF ActiveDays, PoolInv
<1>4. /\ \A r \in new : \E p \in Finished : r.day = builds[p].day /\ r.pid = p
      /\ \A p \in Finished : \E r \in new : r.day = builds[p].day
  <2> DEFINE result(p) == [day |-> builds[p].day, pid |-> p, ok |-> builds[p].stage = "ok"]
  <2>1. \A p : result(p).day = builds[p].day /\ result(p).pid = p
    OBVIOUS
  <2>2. new = {result(p) : p \in Finished}
    OBVIOUS
  <2> HIDE DEF result, new
  <2> QED
    BY <2>1, <2>2, Zenon
<1>5. EndedDays' = EndedDays \cup days
  BY <1>1, <1>4 DEF EndedDays
<1>6. days # {} /\ days \subseteq ActiveDays
  BY <1>1 DEF ActiveDays
<1>7. ASSUME NEW r \in completed' PROVE r.pid \in active' \/ builds'[r.pid].stage = "none"
  <2>1. CASE r \in new
    BY <1>2, <1>4, <2>1
  <2>2. CASE r \in completed
    BY <1>1, <1>2, <2>2 DEF PoolInv
  <2> QED
    BY <1>1, <1>7, <2>1, <2>2
<1>8. \A p, q \in active' : builds'[p].day = builds'[q].day => p = q
  BY <1>2 DEF PoolInv
<1>9. NoRepeats(pending') /\ ToSet(pending') = ToSet(pending)
  BY <1>1 DEF PoolInv
<1>10. PoolInv'
  BY <1>1, <1>3, <1>5, <1>6, <1>7, <1>8, <1>9 DEF PoolInv
<1> QED
  BY <1>3, <1>5, <1>6, <1>9, <1>10

\* Which steps leave the pool as it is.
OtherStep ==
  \/ \E continue, reset \in BOOLEAN, maxDays \in 0 .. LastDay - 1 :
       StartJob(continue, maxDays, reset)
  \/ JobStep \/ KillJob
  \/ \E b \in Builders : BuildStep(b)
  \/ \E p \in Pids : ChildDone(p) \/ ChildFails(p)

LEMMA StepsOfPool ==
  ASSUME Next
  PROVE  \/ OtherStep
         \/ \E skip, onlyGold \in BOOLEAN : StartPool(skip, onlyGold)
         \/ \E p \in Pids : StartNext(p)
         \/ Poll \/ EndStage \/ KillPool
BY JobIsABuilder, Zenon DEF Next, PoolStep, ChildStep, OtherStep

LEMMA OtherStepKeepsPool ==
  ASSUME JobOK, PoolInv, OtherStep
  PROVE  PoolInv' /\ QueueKept
<1>1. builds \in [Builders -> Build] /\ active \subseteq Pids /\ \A p \in Pids : p \in Builders /\ p # Job
  BY JobIsABuilder DEF JobOK, TypeOK
<1>2. ASSUME NEW continue \in BOOLEAN, NEW reset \in BOOLEAN, NEW maxDays \in 0 .. LastDay - 1,
             StartJob(continue, maxDays, reset)
      PROVE  PoolInv' /\ QueueKept
  BY <1>2, OthersKeepPool DEF StartJob, pool, day
<1>3. CASE JobStep \/ KillJob
  <2>1. UNCHANGED pool /\ \A p \in Pids : builds'[p] = builds[p]
    BY <1>1, <1>3 DEF JobStep, KillJob, LoadState, BeginDay, CompleteDay, FailDay, FinishJob,
       LeaveDay, EndJob, BeginBuild, pool, day
  <2> QED
    BY <1>1, <2>1, OthersKeepPool
<1>4. ASSUME NEW b \in Builders, BuildStep(b) PROVE PoolInv' /\ QueueKept
  <2>1. /\ UNCHANGED pool
        /\ \A p \in Pids : builds'[p].day = builds[p].day
                           /\ (builds[p].stage = "none" => builds'[p].stage = "none")
    <3>1. ASSUME NEW ok \in BOOLEAN, DeleteEnvelope(b, ok)
          PROVE  /\ UNCHANGED pool
                 /\ \A p \in Pids : builds'[p].day = builds[p].day
                                    /\ (builds[p].stage = "none" => builds'[p].stage = "none")
      BY <1>1, <3>1 DEF DeleteEnvelope, pool
    <3>2. ASSUME NEW t \in Types, AppendEnvelope(b, t)
          PROVE  /\ UNCHANGED pool
                 /\ \A p \in Pids : builds'[p].day = builds[p].day /\ builds'[p].stage = builds[p].stage
      BY <1>1, <3>2 DEF AppendEnvelope, pool
    <3> QED
      BY <1>4, <3>1, <3>2 DEF BuildStep
  <2> QED
    BY <1>1, <2>1, OthersKeepPool
<1>5. ASSUME NEW p \in Pids, NEW stage \in {"ok", "failed"}, Exit(p, stage), UNCHANGED pool,
             builds[p].stage # "none"
      PROVE  PoolInv' /\ QueueKept
  <2>1. \A q \in active : builds'[q].day = builds[q].day
    BY <1>1, <1>5 DEF Exit
  <2>2. \A q \in Pids : builds[q].stage = "none" => builds'[q].stage = "none"
    BY <1>1, <1>5 DEF Exit
  <2> QED
    BY <1>5, <2>1, <2>2, OthersKeepPool
<1>6. ASSUME NEW p \in Pids, ChildDone(p) \/ ChildFails(p)
      PROVE  /\ Exit(p, "ok") \/ Exit(p, "failed")
             /\ UNCHANGED pool /\ builds[p].stage # "none"
  BY <1>6 DEF ChildDone, ChildFails, BuildDone, BuildFails, NoBatches, pool
<1> QED
  BY <1>2, <1>3, <1>4, <1>5, <1>6, Zenon DEF OtherStep

LEMMA PoolInvInductive ==
  ASSUME JobOK, PoolInv, [Next]_vars
  PROVE  PoolInv'
<1>1. CASE UNCHANGED vars
  BY <1>1, OthersKeepPool DEF vars, pool, day
<1> QED
  BY <1>1, StepsOfPool, OtherStepKeepsPool, StartPoolKeepsPool, StartNextKeepsPool, PollKeepsPool,
     EndStageKeepsPool, KillPoolKeepsPool, Zenon

LEMMA InitPoolInv == Init => PoolInv
BY EmptyList DEF Init, PoolInv, ActiveDays, EndedDays

LEMMA PoolAlwaysOK == Spec => [](JobOK /\ PoolInv)
<1>1. Init => JobOK /\ PoolInv
  BY InitJobOK, InitPoolInv
<1>2. JobOK /\ PoolInv /\ [Next]_vars => (JobOK /\ PoolInv)'
  BY JobOKInductive, PoolInvInductive
<1> QED
  BY <1>1, <1>2, PTL DEF Spec

\* Days in progress are no more than children.
LEMMA NoMoreDaysThanChildren ==
  ASSUME JobOK
  PROVE  IsFiniteSet(active) /\ Cardinality(ActiveDays) <= Cardinality(active)
<1> DEFINE f == [p \in active |-> builds[p].day]
<1>1. IsFiniteSet(active)
  BY FS_Subset DEF JobOK, TypeOK
<1>2. f \in Surjection(active, ActiveDays)
  BY DEF Surjection, ActiveDays
<1> QED
  BY <1>1, <1>2, FS_Surjection, Zenon

LEMMA CardinalityOfQueue == \A S : Queue!Cardinality(S) = Cardinality(S)
BY Zenon DEF Queue!Cardinality, Cardinality

\* backfill_parallel.py is a pool of day jobs (DayPool): it begins each day once,
\* never has more than --workers children, takes up new days only when every day
\* it began has ended, and forgets its days when it dies.
THEOREM PoolImplementsDayPool == Spec => PoolIsQueue
<1>1. Init => Queue!Init
  BY EmptyList DEF Init, Queue!Init
<1>2. ASSUME JobOK, PoolInv, [Next]_vars PROVE [Queue!Next]_Queue!vars
  <2>1. ASSUME OtherStep \/ UNCHANGED vars PROVE UNCHANGED Queue!vars
    <3>1. QueueKept
      BY <1>2, <2>1, OtherStepKeepsPool, OthersKeepPool DEF vars, pool, day
    <3> QED
      BY <3>1 DEF QueueKept, Queue!vars, ActiveDays, EndedDays
  <2>2. ASSUME (\E skip, onlyGold \in BOOLEAN : StartPool(skip, onlyGold)) \/ (EndStage /\ poolPc' = "gold")
        PROVE  Queue!Next
    <3>1. /\ pending = <<>> /\ active = {} /\ pending' = ListDays /\ active' = {} /\ completed' = {}
      BY <1>2, <2>2 DEF StartPool, EndStage, PoolInv
    <3>2. ToSet(ListDays) \in SUBSET Days
      BY ListsAreOfDays DEF ListDays
    <3>3. Queue!Open(ToSet(ListDays))
      BY <3>1, EmptyList DEF Queue!Open
    <3> QED
      BY <3>2, <3>3, Zenon DEF Queue!Next
  <2>3. ASSUME KillPool \/ (EndStage /\ poolPc' # "gold") PROVE Queue!Next
    <3>1. pending' = <<>> /\ active' = {} /\ completed' = {}
      BY <2>3 DEF KillPool, EndStage
    <3> QED
      BY <3>1, EmptyList DEF Queue!Next, Queue!Abandon
  <2>4. ASSUME NEW p \in Pids, StartNext(p) PROVE Queue!Next
    <3>1. Cardinality(ActiveDays) < Workers
      <4>1. Cardinality(active) < Workers
        BY <2>4 DEF StartNext, HasRoom
      <4>2. /\ Cardinality(active) \in Nat /\ Cardinality(ActiveDays) \in Nat
            /\ Cardinality(ActiveDays) <= Cardinality(active)
        <5>1. ActiveDays \in SUBSET Days
          BY <1>2, JobIsABuilder DEF JobOK, TypeOK, ActiveDays, Build
        <5> QED
          BY <1>2, <5>1, NoMoreDaysThanChildren, DaysAreFinite, FS_Subset, FS_CardinalityType
      <4> QED
        BY <4>1, <4>2
    <3> PICK d : d = Head(pending)
      OBVIOUS
    <3>2. /\ d \in ToSet(pending) /\ ToSet(pending') = ToSet(pending) \ {d}
          /\ ActiveDays' = ActiveDays \cup {d} /\ EndedDays' = EndedDays
      BY <1>2, <2>4, StartNextKeepsPool
    <3>3. Queue!Begin(d)
      BY <3>1, <3>2, CardinalityOfQueue, Zenon DEF Queue!Begin, ActiveDays, EndedDays, ToSet
    <3> QED
      BY <3>2, <3>3, Zenon DEF Queue!Next
  <2>5. ASSUME Poll PROVE Queue!Next
    <3> PICK days : days = {builds[p].day : p \in Finished}
      OBVIOUS
    <3>1. /\ days # {} /\ days \subseteq ActiveDays /\ ToSet(pending') = ToSet(pending)
          /\ ActiveDays' = ActiveDays \ days /\ EndedDays' = EndedDays \cup days
      BY <1>2, <2>5, PollKeepsPool
    <3>2. Queue!End(days)
      BY <3>1, Zenon DEF Queue!End, ActiveDays, EndedDays, ToSet
    <3> QED
      BY <3>1, <3>2, Zenon DEF Queue!Next, ActiveDays
  <2> QED
    BY <1>2, <2>1, <2>2, <2>3, <2>4, <2>5, StepsOfPool, Zenon
<1> QED
  BY <1>1, <1>2, PoolAlwaysOK, PTL DEF Spec, PoolIsQueue, Queue!Spec

-----------------------------------------------------------------------------
(* The builds of a day.                                                    *)

LEMMA BuildersAreTyped ==
  ASSUME JobOK, NEW b \in Builders
  PROVE  /\ builds \in [Builders -> Build] /\ builds[b] \in Build
         /\ builds[b].day \in Days /\ builds[b].left \in SUBSET Types
BY DEF JobOK, TypeOK, Build

\* Who builds a day has not said that it is built.
LEMMA BuildingIsNoClaim ==
  ASSUME JobOK, PoolInv, NEW b \in Builders, builds[b].stage # "none"
  PROVE  ~Claims(b, builds[b].day)
<1>1. CASE b = Job
  <2>1. jobPc = "build"
    BY <1>1 DEF JobOK, TypeOK
  <2> QED
    BY <1>1, <2>1 DEF JobOK, JobInv, Claims
<1>2. CASE b # Job
  <2> SUFFICES ASSUME NEW r \in completed, r.day = builds[b].day, r.pid = b PROVE FALSE
    BY <1>2 DEF Claims
  <2>1. b \in active
    BY DEF PoolInv
  <2>2. r.day \in ActiveDays /\ r.day \in EndedDays
    BY <2>1 DEF ActiveDays, EndedDays
  <2> QED
    BY <2>2 DEF PoolInv
<1> QED
  BY <1>1, <1>2

\* A build that is done has the day in the envelope, if nobody else touched it.
Done(b, d) == Builds(b, d, "ok") \/ (Builds(b, d, "append") /\ builds[b].left = {})

LEMMA DoneIsFull ==
  ASSUME NEW b \in Builders, NEW d \in Days, Sole(b, d), built[d] = b, Done(b, d)
  PROVE  Full(b, d)
BY DEF Sole, Done, Full

\* A step that leaves the envelope of a day alone, and by which nobody begins to
\* append or ends or is said to have ended without being done, keeps Sole.
LEMMA SoleKept ==
  ASSUME NEW b \in Builders, NEW d \in Days, Sole(b, d),
         built' = built, envelope' = envelope, kept' = kept,
         \A c \in Builders : Builds(c, d, "append")' => Builds(c, d, "append"),
         Builds(b, d, "append")' => builds'[b].left = builds[b].left,
         Builds(b, d, "ok")' => Done(b, d),
         Claims(b, d)' => Claims(b, d) \/ Done(b, d)
  PROVE  Sole(b, d)'
<1> SUFFICES ASSUME built[d] = b PROVE Sole(b, d)'
  BY DEF Sole
<1>1. Full(b, d)' <=> Full(b, d)
  BY DEF Full, Has
<1>2. Done(b, d) \/ Claims(b, d) => Full(b, d)
  BY DoneIsFull DEF Sole
<1>3. \A c \in Builders \ {b} : ~Builds(c, d, "append")'
  BY DEF Sole
<1>4. Builds(b, d, "append")' =>
        /\ builds'[b].left \subseteq Input(b, d)
        /\ \A t \in Types : envelope'[d][t] = kept'[d][t] + IF t \in Input(b, d) \ builds'[b].left THEN 1 ELSE 0
  BY DEF Sole, Has
<1> QED
  BY <1>1, <1>2, <1>3, <1>4 DEF Sole, Has

\* The steps that keep it: all but the deletes and appends themselves.
LEMMA JobKeepsBuilds ==
  ASSUME JobOK, BuildInv,
         \/ JobStep \/ KillJob
         \/ \E continue, reset \in BOOLEAN, maxDays \in 0 .. LastDay - 1 :
              StartJob(continue, maxDays, reset)
  PROVE  BuildInv'
<1> SUFFICES ASSUME NEW b \in Builders, NEW d \in Days PROVE Sole(b, d)'
  BY DEF BuildInv
<1>1. /\ Sole(b, d) /\ builds \in [Builders -> Build] /\ Job \in Builders
      /\ built' = built /\ envelope' = envelope /\ kept' = kept
  BY JobIsABuilder DEF BuildInv, JobOK, TypeOK, JobStep, KillJob, LoadState, BeginDay, CompleteDay,
     FailDay, FinishJob, StartJob, day
<1>2. /\ \A c \in Builders \ {Job} : builds'[c] = builds[c]
      /\ builds'[Job] = builds[Job] \/ builds'[Job].stage \in {"none", "delete"}
  BY <1>1 DEF JobStep, KillJob, LoadState, BeginDay, CompleteDay, FailDay, FinishJob, StartJob,
     LeaveDay, EndJob, BeginBuild, NoBuild, day
<1>3. /\ \A c \in Builders : Builds(c, d, "append")' => Builds(c, d, "append")
      /\ Builds(b, d, "append")' => builds'[b].left = builds[b].left
      /\ Builds(b, d, "ok")' => Done(b, d)
  BY <1>2 DEF Builds, Done
<1>4. Claims(b, d)' => Claims(b, d) \/ Done(b, d)
  <2>1. CASE b # Job
    <3>1. UNCHANGED pool
      BY DEF JobStep, KillJob, LoadState, BeginDay, CompleteDay, FailDay, FinishJob, StartJob, pool
    <3> QED
      BY <2>1, <3>1 DEF Claims, pool
  <2>2. CASE b = Job
    <3> SUFFICES ASSUME ckpt' # NoFile, ckpt'[d] = "completed", ckpt = NoFile \/ ckpt[d] # "completed"
                 PROVE  Done(Job, d)
      BY <2>2 DEF Claims
    <3>1. CASE CompleteDay
      <4>1. /\ ckpt \in [Days -> Status] /\ builds[Job].day = Head(todo) /\ BuildDone(Job)
            /\ ckpt' = [ckpt EXCEPT ![Head(todo)] = "completed"]
        BY <3>1 DEF CompleteDay, Save, JobOK, JobInv
      <4>2. ckpt # NoFile
        BY <4>1 DEF ConstantsAssumption
      <4> QED
        BY <4>1, <4>2 DEF Done, Builds, BuildDone
    <3>2. CASE BeginDay \/ FailDay
      <4>1. /\ ckpt \in [Days -> Status] /\ ckpt # NoFile
            /\ \E status \in {"in_progress", "failed"} : ckpt' = [ckpt EXCEPT ![Head(todo)] = status]
        BY <3>2 DEF BeginDay, FailDay, Save, JobOK, JobInv, ConstantsAssumption
      <4> QED
        BY <4>1
    <3>3. CASE LoadState
      BY <3>3 DEF LoadState
    <3>4. CASE FinishJob \/ KillJob \/ \E continue, reset \in BOOLEAN, maxDays \in 0 .. LastDay - 1 :
                                         StartJob(continue, maxDays, reset)
      BY <3>4 DEF FinishJob, KillJob, StartJob
    <3> QED
      BY <3>1, <3>2, <3>3, <3>4 DEF JobStep
  <2> QED
    BY <2>1, <2>2
<1> QED
  BY <1>1, <1>3, <1>4, SoleKept

LEMMA ChildKeepsBuilds ==
  ASSUME JobOK, BuildInv, NEW p \in Pids, ChildDone(p) \/ ChildFails(p)
  PROVE  BuildInv'
<1> SUFFICES ASSUME NEW b \in Builders, NEW d \in Days PROVE Sole(b, d)'
  BY DEF BuildInv
<1>1. /\ Sole(b, d) /\ builds \in [Builders -> Build] /\ p \in Builders
      /\ built' = built /\ envelope' = envelope /\ kept' = kept /\ UNCHANGED <<ckpt, pool>>
  BY JobIsABuilder DEF BuildInv, JobOK, TypeOK, ChildDone, ChildFails
<1>2. /\ \A c \in Builders \ {p} : builds'[c] = builds[c]
      /\ \/ builds'[p].stage \in {"none", "failed"}
         \/ builds'[p].stage = "ok" /\ builds'[p].day = builds[p].day /\ BuildDone(p)
  BY <1>1 DEF ChildDone, ChildFails, Exit, NoBuild, Build
<1>3. \A c \in Builders : Builds(c, d, "append")' => builds'[c] = builds[c] /\ Builds(c, d, "append")
  BY <1>2 DEF Builds
<1>4. Builds(b, d, "ok")' => Done(b, d)
  BY <1>2 DEF Builds, Done, BuildDone
<1>5. Claims(b, d)' => Claims(b, d)
  BY <1>1 DEF Claims, pool
<1> QED
  BY <1>1, <1>3, <1>4, <1>5, SoleKept

LEMMA PoolKeepsBuilds ==
  ASSUME JobOK, BuildInv,
         \/ \E skip, onlyGold \in BOOLEAN : StartPool(skip, onlyGold)
         \/ \E p \in Pids : StartNext(p)
         \/ Poll \/ EndStage \/ KillPool
  PROVE  BuildInv'
<1> SUFFICES ASSUME NEW b \in Builders, NEW d \in Days PROVE Sole(b, d)'
  BY DEF BuildInv
<1>1. /\ Sole(b, d) /\ builds \in [Builders -> Build]
      /\ built' = built /\ envelope' = envelope /\ kept' = kept /\ ckpt' = ckpt
  BY DEF BuildInv, JobOK, TypeOK, StartPool, StartNext, Poll, EndStage, KillPool, day
<1>2. \A c \in Builders : builds'[c] = builds[c] \/ builds'[c].stage \in {"none", "delete", "gold"}
  BY <1>1 DEF StartPool, StartNext, Poll, EndStage, KillPool, BeginBuild, NoBuild, day
<1>3. /\ \A c \in Builders : Builds(c, d, "append")' => Builds(c, d, "append")
      /\ Builds(b, d, "append")' => builds'[b].left = builds[b].left
      /\ Builds(b, d, "ok")' => Done(b, d)
  BY <1>2 DEF Builds, Done
<1>4. Claims(b, d)' => Claims(b, d) \/ Done(b, d)
  <2>1. CASE b = Job
    BY <1>1, <2>1 DEF Claims
  <2>2. CASE b # Job
    <3> SUFFICES ASSUME poolPc' = "silver", NEW r \in completed', r.day = d, r.pid = b, r.ok
                 PROVE  (poolPc = "silver" /\ r \in completed) \/ Done(b, d)
      BY <2>2 DEF Claims
    <3>1. CASE Poll
      <4>1. CASE r \in completed
        BY <3>1, <4>1 DEF Poll
      <4>2. CASE r \notin completed
        <5>1. PICK p \in Finished : r = [day |-> builds[p].day, pid |-> p, ok |-> builds[p].stage = "ok"]
          BY <3>1, <4>2 DEF Poll
        <5> QED
          BY <5>1 DEF Done, Builds
      <4> QED
        BY <4>1, <4>2
    <3>2. CASE \E p \in Pids : StartNext(p)
      BY <3>2 DEF StartNext
    <3>3. CASE (\E skip, onlyGold \in BOOLEAN : StartPool(skip, onlyGold)) \/ EndStage \/ KillPool
      BY <3>3 DEF StartPool, EndStage, KillPool
    <3> QED
      BY <3>1, <3>2, <3>3
  <2> QED
    BY <2>1, <2>2
<1> QED
  BY <1>1, <1>3, <1>4, SoleKept

\* A delete of the envelope: the builder has the day alone, or nobody is noted.
LEMMA DeleteKeepsBuilds ==
  ASSUME JobOK, PoolInv, BuildInv, NEW c \in Builders, NEW ok \in BOOLEAN, DeleteEnvelope(c, ok)
  PROVE  BuildInv'
<1> SUFFICES ASSUME NEW b \in Builders, NEW d \in Days, built'[d] = b PROVE Sole(b, d)'
  BY DEF BuildInv, Sole
<1> DEFINE day_c == builds[c].day
<1>1. /\ builds \in [Builders -> Build] /\ day_c \in Days /\ Input(c, day_c) \subseteq Types
      /\ envelope \in [Days -> [Types -> Nat]] /\ built \in [Days -> Builders \cup {Nobody}]
      /\ kept \in [Days -> [Types -> Nat]]
      /\ UNCHANGED <<ckpt, pool>> /\ builds[c].stage = "delete" /\ Sole(b, d)
  BY BuildersAreTyped, InputIsOfTypes DEF JobOK, TypeOK, DeleteEnvelope, BuildInv
<1>2. /\ \A x \in Builders \ {c} : builds'[x] = builds[x]
      /\ builds'[c].stage = "append" /\ builds'[c].day = day_c /\ builds'[c].left = Input(c, day_c)
  BY <1>1 DEF DeleteEnvelope, Build
<1>3. Claims(b, d)' <=> Claims(b, d)
  BY <1>1 DEF Claims, pool
<1>4. CASE d # day_c
  <2>1. built[d] = b /\ envelope'[d] = envelope[d] /\ kept'[d] = kept[d]
    BY <1>1, <1>4 DEF DeleteEnvelope
  <2>2. \A x \in Builders, stage \in {"append", "ok"} : Builds(x, d, stage)' => builds'[x] = builds[x]
    BY <1>2, <1>4 DEF Builds
  <2>3. \A x \in Builders, stage \in {"append", "ok"} : Builds(x, d, stage)' => Builds(x, d, stage)
    BY <2>2 DEF Builds
  <2> QED
    BY <1>1, <1>3, <2>1, <2>2, <2>3 DEF Sole, Full, Has
<1>5. CASE d = day_c
  <2>1. b = c /\ \A x \in Builders \ {c} : ~Builds(x, d, "append")
    BY <1>1, <1>5, JobIsABuilder DEF DeleteEnvelope, Builds
  <2>2. \A x \in Builders \ {b} : ~Builds(x, d, "append")'
    BY <1>2, <2>1 DEF Builds
  <2>3. ~Claims(b, d)' /\ ~Builds(b, d, "ok")'
    BY <1>1, <1>2, <1>3, <1>5, <2>1, BuildingIsNoClaim DEF Builds
  <2>4. \A t \in Types : envelope'[d][t] = kept'[d][t] /\ kept'[d][t] \in Nat
    <3>1. envelope' \in [Days -> [Types -> Nat]]
      BY <1>1 DEF DeleteEnvelope
    <3>2. kept'[d] = envelope'[d]
      BY <1>1, <1>5 DEF DeleteEnvelope
    <3> QED
      BY <3>1, <3>2
  <2>5. Builds(b, d, "append")' => builds'[b].left = Input(b, d)
    BY <1>2, <1>5, <2>1
  <2>6. Has(d, {})'
    BY <2>4 DEF Has
  <2> QED
    BY <2>1, <2>2, <2>3, <2>5, <2>6 DEF Sole, Has
<1> QED
  BY <1>4, <1>5

LEMMA AppendKeepsBuilds ==
  ASSUME JobOK, PoolInv, BuildInv, NEW c \in Builders, NEW t \in Types, AppendEnvelope(c, t)
  PROVE  BuildInv'
<1> SUFFICES ASSUME NEW b \in Builders, NEW d \in Days, built'[d] = b PROVE Sole(b, d)'
  BY DEF BuildInv, Sole
<1> DEFINE day_c == builds[c].day
<1>1. /\ builds \in [Builders -> Build] /\ day_c \in Days /\ envelope \in [Days -> [Types -> Nat]]
      /\ built' = built /\ kept' = kept /\ kept \in [Days -> [Types -> Nat]] /\ UNCHANGED <<ckpt, pool>>
      /\ builds[c].stage = "append" /\ t \in builds[c].left /\ Sole(b, d)
  BY BuildersAreTyped DEF JobOK, TypeOK, AppendEnvelope, BuildInv
<1>2. /\ \A x \in Builders \ {c} : builds'[x] = builds[x]
      /\ builds'[c].stage = "append" /\ builds'[c].day = day_c /\ builds'[c].left = builds[c].left \ {t}
  BY <1>1 DEF AppendEnvelope, Build
<1>3. Claims(b, d)' <=> Claims(b, d)
  BY <1>1 DEF Claims, pool
<1>4. \A x \in Builders : Builds(x, d, "append")' <=> Builds(x, d, "append")
  BY <1>1, <1>2 DEF Builds
<1>5. Builds(b, d, "ok")' => Builds(b, d, "ok")
  BY <1>2 DEF Builds
<1>6. CASE d # day_c
  <2>1. envelope'[d] = envelope[d]
    BY <1>1, <1>6 DEF AppendEnvelope
  <2>2. Builds(b, d, "append") => builds'[b] = builds[b]
    BY <1>2, <1>6 DEF Builds
  <2> QED
    BY <1>1, <1>3, <1>4, <1>5, <2>1, <2>2 DEF Sole, Full, Has
<1>7. CASE d = day_c
  <2>1. b = c
    BY <1>1, <1>7 DEF Sole, Builds
  <2>2. ~Claims(b, d)' /\ ~Builds(b, d, "ok")'
    BY <1>1, <1>2, <1>3, <1>7, <2>1, BuildingIsNoClaim DEF Builds
  <2>3. /\ builds[c].left \subseteq Input(c, d)
        /\ \A u \in Types : envelope[d][u] = kept[d][u] + IF u \in Input(c, d) \ builds[c].left THEN 1 ELSE 0
    BY <1>1, <1>7, <2>1 DEF Sole, Builds, Has
  <2>4. \A u \in Types : envelope'[d][u] = kept[d][u] + IF u \in Input(c, d) \ builds'[c].left THEN 1 ELSE 0
    <3>1. envelope'[d][t] = envelope[d][t] + 1 /\ \A u \in Types \ {t} : envelope'[d][u] = envelope[d][u]
      BY <1>1, <1>7 DEF AppendEnvelope
    <3> QED
      BY <1>1, <1>2, <1>7, <2>3, <3>1
  <2> QED
    BY <1>1, <1>2, <1>4, <1>7, <2>1, <2>2, <2>3, <2>4 DEF Sole, Has
<1> QED
  BY <1>6, <1>7

LEMMA BuildInvInductive ==
  ASSUME JobOK, PoolInv, BuildInv, [Next]_vars
  PROVE  BuildInv'
<1>1. CASE UNCHANGED vars
  BY <1>1 DEF vars, day, pool, BuildInv, Sole, Full, Has, Builds, Claims
<1>2. CASE \E b \in Builders : BuildStep(b)
  BY <1>2, DeleteKeepsBuilds, AppendKeepsBuilds DEF BuildStep
<1> QED
  BY <1>1, <1>2, StepsOfPool, JobKeepsBuilds, ChildKeepsBuilds, PoolKeepsBuilds, Zenon DEF OtherStep

LEMMA InitBuildInv == Init => BuildInv
BY JobIsABuilder DEF Init, BuildInv, Sole

\* A day that is completed in the state file, or that ended well in a pool, has each
\* type of its input in the envelope once, if the builder that says so deleted the
\* envelope last and had the day alone: whatever failed, crashed, was reset or went
\* on without its pool before.  If that delete met an error, it has them on top of
\* exactly the rows that were there then.
THEOREM ClaimsAreTrue == Spec => []ClaimedDayIsBuilt
<1>1. Spec => []IInv
  <2>1. Init => IInv
    BY InitJobOK, InitPoolInv, InitBuildInv DEF IInv
  <2>2. IInv /\ [Next]_vars => IInv'
    BY JobOKInductive, PoolInvInductive, BuildInvInductive DEF IInv
  <2> QED
    BY <2>1, <2>2, PTL DEF Spec
<1>2. ASSUME JobOK, BuildInv PROVE ClaimedDayIsBuilt
  <2> SUFFICES ASSUME NEW d \in Days, NEW b \in Builders, built[d] = b, Claims(b, d)
               PROVE  envelope[d] = [t \in Types |-> kept[d][t] + IF t \in Input(b, d) THEN 1 ELSE 0]
    BY DEF ClaimedDayIsBuilt
  <2>1. Full(b, d) /\ envelope[d] \in [Types -> Nat]
    BY <1>2 DEF BuildInv, Sole, JobOK, TypeOK
  <2> QED
    BY <2>1 DEF Full, Has
<1>3. IInv => ClaimedDayIsBuilt
  BY <1>2 DEF IInv
<1> QED
  BY <1>1, <1>3, PTL
=============================================================================
