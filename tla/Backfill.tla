------------------------------- MODULE Backfill -------------------------------
(***************************************************************************)
(* The two runners that build silver day by day on one machine:            *)
(* build_silver_backfill.py, one process that keeps a checkpoint of its    *)
(* range in a JSON file, and scripts/ops/backfill_parallel.py, a pool of   *)
(* build_silver_day.py processes.  Operators start one when the other is   *)
(* not running, but the children of a pool that dies go on without it.     *)
(*                                                                         *)
(* A day is built by run_silver_day_core (see Silver): the envelope of the *)
(* day is deleted, then the batch of each notice type appends to it.  An   *)
(* error of that delete is logged and passed over.  The other tables are   *)
(* overwritten by partition and left out here.  Neither runner reads the   *)
(* silver manifests.                                                       *)
(***************************************************************************)
EXTENDS Integers, FiniteSets, SequencesExt, Lists

CONSTANTS
  LastDay,     \* days are the numbers 1 .. LastDay, the range of the backfill
  Types,       \* notice types
  Bronze,      \* the types with a bronze partition, by day
  Raw,         \* the types in the raw file, of the days that have one
  Workers,     \* --workers
  Pids,        \* bound on the day processes that exist at one time
  MaxTrouble,  \* bound on the crashes, failures and resets
  NoFile

Days == 1 .. LastDay
Status == {"pending", "in_progress", "completed", "failed"}

ASSUME ConstantsAssumption ==
  /\ LastDay \in Nat \ {0} /\ Workers \in Nat \ {0} /\ MaxTrouble \in Nat
  /\ Pids \subseteq Nat \ {0} /\ IsFiniteSet(Pids) /\ IsFiniteSet(Types)
  /\ Bronze \in [Days -> SUBSET Types]
  /\ DOMAIN Raw \subseteq Days /\ \A d \in DOMAIN Raw : Raw[d] \subseteq Types
  /\ NoFile \notin [Days -> Status]

\* The processes that build days: the backfill job and the pool's children.
Job == 0
Builders == {Job} \cup Pids
Nobody == -1

VARIABLES
  ckpt,      \* the state file: the status of each day, or NoFile
  envelope,  \* how often the rows of a day and a type are in common_envelope
  builds,    \* what each builder does: stage, day and types left to append
  built,     \* auxiliary: who built a day last, if nobody else did meanwhile
  kept,      \* auxiliary: the rows of a day that its last delete left in the envelope
  trouble    \* auxiliary: the crashes, failures and resets so far

VARIABLES
  jobPc,     \* where build_silver_backfill.py is
  todo,      \* its pending_days
  opts       \* its --continue-on-error, and --max-days until it is used (0: no limit)

VARIABLES
  poolPc,    \* the stage of backfill_parallel.py
  skipGold,  \* its --skip-gold
  pending,   \* the days not begun
  active,    \* the pids of its children
  completed  \* the results of the stage's children that ended

job == <<jobPc, todo, opts>>
pool == <<poolPc, skipGold, pending, active, completed>>
day == <<envelope, builds, built, kept>>
vars == <<ckpt, trouble, job, pool, day>>

NoOpts == [continue |-> FALSE, maxDays |-> 0]
NoBuild == [stage |-> "none", day |-> 1, left |-> {}]

Trouble == trouble < MaxTrouble /\ trouble' = trouble + 1

-----------------------------------------------------------------------------
(* One day: run_silver_day_core, in the job or in a child.                 *)

\* The types a builder finds: of bronze, and with --input-layer auto of the raw
\* file if there is no bronze.
Input(b, d) ==
  IF Bronze[d] # {} \/ b = Job \/ d \notin DOMAIN Raw THEN Bronze[d] ELSE Raw[d]

BeginBuild(b, d) == [builds EXCEPT ![b] = [stage |-> "delete", day |-> d, left |-> {}]]

\* The delete may meet an error: the rows of earlier builds stay, and the build goes on.
DeleteEnvelope(b, ok) ==
  LET d == builds[b].day
      others == {c \in Builders \ {b} : builds[c].stage = "append" /\ builds[c].day = d}
  IN  /\ builds[b].stage = "delete"
      /\ IF ok THEN UNCHANGED trouble ELSE Trouble
      /\ envelope' = IF ok THEN [envelope EXCEPT ![d] = [t \in Types |-> 0]] ELSE envelope
      /\ kept' = [kept EXCEPT ![d] = envelope'[d]]
      /\ builds' = [builds EXCEPT ![b].stage = "append", ![b].left = Input(b, d)]
      /\ built' = [built EXCEPT ![d] = IF others = {} THEN b ELSE Nobody]
      /\ UNCHANGED <<ckpt, job, pool>>

AppendEnvelope(b, t) ==
  /\ builds[b].stage = "append" /\ t \in builds[b].left
  /\ envelope' = [envelope EXCEPT ![builds[b].day][t] = @ + 1]
  /\ builds' = [builds EXCEPT ![b].left = @ \ {t}]
  /\ UNCHANGED <<ckpt, trouble, built, kept, job, pool>>

\* A day without batches is an error: no bronze partition for the job, and for a
\* child a thread pool without workers.
NoBatches(b) == builds[b].stage = "append" /\ Input(b, builds[b].day) = {}
BuildDone(b) == builds[b].stage = "append" /\ builds[b].left = {} /\ ~NoBatches(b)
BuildFails(b) ==
  \/ NoBatches(b) /\ UNCHANGED trouble
  \/ builds[b].stage \in {"delete", "append"} /\ ~NoBatches(b) /\ Trouble

-----------------------------------------------------------------------------
(* build_silver_backfill.py.  Its copy of the state and the file are the   *)
(* same after every save, and it saves after every change.                 *)

Init ==
  /\ ckpt = NoFile
  /\ envelope = [d \in Days |-> [t \in Types |-> 0]]
  /\ builds = [b \in Builders |-> NoBuild]
  /\ built = [d \in Days |-> Nobody]
  /\ kept = [d \in Days |-> [t \in Types |-> 0]]
  /\ trouble = 0
  /\ jobPc = "idle" /\ todo = <<>> /\ opts = NoOpts
  /\ poolPc = "idle" /\ skipGold = FALSE /\ pending = <<>> /\ active = {} /\ completed = {}

StartJob(continue, maxDays, reset) ==
  /\ jobPc = "idle" /\ poolPc = "idle"
  /\ IF reset /\ ckpt # NoFile THEN Trouble /\ ckpt' = NoFile ELSE UNCHANGED <<trouble, ckpt>>
  /\ jobPc' = "load"
  /\ opts' = [continue |-> continue, maxDays |-> maxDays]
  /\ UNCHANGED <<todo, pool, day>>

\* Mutants: every day is pending; only the days never begun are pending.
PendingDaysMutant(state) == InOrder(Days)
PendingDaysFresh(state) == InOrder({d \in Days : state[d] = "pending"})
PendingDays(state) == InOrder({d \in Days : state[d] # "completed"})

\* _load_or_init_state, and the list of pending days.
LoadState ==
  /\ jobPc = "load"
  /\ ckpt' = IF ckpt = NoFile THEN [d \in Days |-> "pending"] ELSE ckpt
  /\ LET days == PendingDays(ckpt') IN
       todo' = IF opts.maxDays \in 1 .. Len(days) THEN SubSeq(days, 1, opts.maxDays) ELSE days
  /\ jobPc' = "days" /\ opts' = [opts EXCEPT !.maxDays = 0]
  /\ UNCHANGED <<trouble, pool, day>>

Save(d, status) == ckpt' = [ckpt EXCEPT ![d] = status]

BeginDay ==
  /\ jobPc = "days" /\ todo # <<>>
  /\ Save(Head(todo), "in_progress")
  /\ builds' = BeginBuild(Job, Head(todo))
  /\ jobPc' = "build"
  /\ UNCHANGED <<trouble, todo, opts, envelope, built, kept, pool>>

LeaveDay ==
  /\ builds' = [builds EXCEPT ![Job] = NoBuild]
  /\ jobPc' = "days" /\ todo' = Tail(todo)

CompleteDay ==
  /\ jobPc = "build" /\ BuildDone(Job)
  /\ Save(Head(todo), "completed")
  /\ LeaveDay
  /\ UNCHANGED <<trouble, opts, envelope, built, kept, pool>>

EndJob ==
  /\ builds' = [builds EXCEPT ![Job] = NoBuild]
  /\ jobPc' = "idle" /\ todo' = <<>> /\ opts' = NoOpts

\* Mutant: a failed day counts as done.
FailDayMutant ==
  /\ jobPc = "build" /\ BuildFails(Job)
  /\ Save(Head(todo), "completed")
  /\ LeaveDay
  /\ UNCHANGED <<opts, envelope, built, kept, pool>>

FailDay ==
  /\ jobPc = "build" /\ BuildFails(Job)
  /\ Save(Head(todo), "failed")
  /\ IF opts.continue THEN LeaveDay /\ UNCHANGED opts ELSE EndJob
  /\ UNCHANGED <<envelope, built, kept, pool>>

FinishJob ==
  /\ jobPc = "days" /\ todo = <<>>
  /\ EndJob
  /\ UNCHANGED <<ckpt, trouble, envelope, built, kept, pool>>

KillJob ==
  /\ jobPc # "idle" /\ Trouble
  /\ EndJob
  /\ UNCHANGED <<ckpt, envelope, built, kept, pool>>

-----------------------------------------------------------------------------
(* The children of the pool.                                               *)

\* A child ends with a return code, which is there to be polled as long as the
\* pool that started it is.
Exit(p, stage) ==
  builds' = [builds EXCEPT ![p] = IF p \in active THEN [@ EXCEPT !.stage = stage] ELSE NoBuild]

ChildDone(p) ==
  /\ BuildDone(p)
  /\ Exit(p, "ok")
  /\ UNCHANGED <<ckpt, trouble, envelope, built, kept, job, pool>>

\* build_gold.py is not in the repository: its interpreter ends at once.
ChildFails(p) ==
  /\ \/ BuildFails(p)
     \/ builds[p].stage = "gold" /\ UNCHANGED trouble
  /\ Exit(p, "failed")
  /\ UNCHANGED <<ckpt, envelope, built, kept, job, pool>>

-----------------------------------------------------------------------------
(* backfill_parallel.py.                                                   *)

ListDays == InOrder(DOMAIN Raw)

StartPool(skip, onlyGold) ==
  /\ jobPc = "idle" /\ poolPc = "idle" /\ ListDays # <<>> /\ ~(skip /\ onlyGold)
  /\ poolPc' = IF onlyGold THEN "gold" ELSE "silver"
  /\ skipGold' = skip
  /\ pending' = ListDays /\ active' = {} /\ completed' = {}
  /\ UNCHANGED <<ckpt, trouble, job, day>>

\* The inner loop: the next day in a new process.
\* Mutant: one process too many.
HasRoomMutant == pending # <<>> /\ Cardinality(active) <= Workers
HasRoom == pending # <<>> /\ Cardinality(active) < Workers

StartNext(p) ==
  /\ poolPc # "idle" /\ HasRoom
  /\ builds[p].stage = "none"
  /\ pending' = Tail(pending)
  /\ active' = active \cup {p}
  /\ builds' = IF poolPc = "silver" THEN BeginBuild(p, Head(pending))
               ELSE [builds EXCEPT ![p] = [stage |-> "gold", day |-> Head(pending), left |-> {}]]
  /\ UNCHANGED <<ckpt, trouble, envelope, built, kept, poolPc, skipGold, completed, job>>

\* Mutant: only children that end well are taken off the list.
FinishedMutant == {p \in active : builds[p].stage = "ok"}
Finished == {p \in active : builds[p].stage \in {"ok", "failed"}}

\* Mutant of the pass below: the children that ended stay on the list.
PollMutant ==
  /\ poolPc # "idle" /\ ~HasRoom /\ Finished # {}
  /\ builds' = [b \in Builders |-> IF b \in Finished THEN NoBuild ELSE builds[b]]
  /\ UNCHANGED <<ckpt, trouble, envelope, built, kept, poolPc, skipGold, pending, active, completed, job>>

\* One pass over the children.
Poll ==
  /\ poolPc # "idle" /\ ~HasRoom /\ Finished # {}
  /\ completed' = completed \cup
       {[day |-> builds[p].day, pid |-> p, ok |-> builds[p].stage = "ok"] : p \in Finished}
  /\ active' = active \ Finished
  /\ builds' = [b \in Builders |-> IF b \in Finished THEN NoBuild ELSE builds[b]]
  /\ UNCHANGED <<ckpt, trouble, envelope, built, kept, poolPc, skipGold, pending, job>>

FailedDays == {r.day : r \in {s \in completed : ~s.ok}}

EndStage ==
  /\ poolPc # "idle" /\ pending = <<>> /\ active = {}
  /\ IF poolPc = "silver" /\ ~skipGold /\ FailedDays = {}
       THEN poolPc' = "gold" /\ pending' = ListDays /\ UNCHANGED skipGold
       ELSE poolPc' = "idle" /\ skipGold' = FALSE /\ UNCHANGED pending
  /\ completed' = {}
  /\ UNCHANGED <<ckpt, trouble, active, job, day>>

\* The runner dies, its children go on.
KillPool ==
  /\ poolPc # "idle" /\ Trouble
  /\ poolPc' = "idle" /\ skipGold' = FALSE
  /\ pending' = <<>> /\ active' = {} /\ completed' = {}
  /\ builds' = [b \in Builders |-> IF b \in Finished THEN NoBuild ELSE builds[b]]
  /\ UNCHANGED <<ckpt, envelope, built, kept, job>>

-----------------------------------------------------------------------------
JobStep == LoadState \/ BeginDay \/ CompleteDay \/ FailDay \/ FinishJob
PoolStep == (\E p \in Pids : StartNext(p)) \/ Poll \/ EndStage
BuildStep(b) == (\E ok \in BOOLEAN : DeleteEnvelope(b, ok)) \/ \E t \in Types : AppendEnvelope(b, t)
ChildStep(p) == BuildStep(p) \/ ChildDone(p) \/ ChildFails(p)

\* A --max-days of LastDay or more is no limit.
Next ==
  \/ \E continue, reset \in BOOLEAN, maxDays \in 0 .. LastDay - 1 :
       StartJob(continue, maxDays, reset)
  \/ JobStep \/ BuildStep(Job) \/ KillJob
  \/ \E skip, onlyGold \in BOOLEAN : StartPool(skip, onlyGold)
  \/ PoolStep \/ KillPool
  \/ \E p \in Pids : ChildStep(p)

\* Running processes go on, Spark statements end, and as long as days are left
\* somebody starts the backfill again with --continue-on-error and no --max-days.
Fairness ==
  /\ WF_vars(JobStep \/ BuildStep(Job))
  /\ WF_vars(PoolStep)
  /\ \A p \in Pids : WF_vars(ChildStep(p))
  /\ SF_vars(StartJob(TRUE, 0, FALSE))

Spec == Init /\ [][Next]_vars /\ Fairness

-----------------------------------------------------------------------------
(***************************************************************************)
(* Properties.                                                             *)
(***************************************************************************)
Build == [stage : {"none", "delete", "append", "gold", "ok", "failed"}, day : Days,
          left : SUBSET Types]
Result == [day : Days, pid : Pids, ok : BOOLEAN]

\* The types of the variables; a builder that builds has a day, no day is pending
\* in a pool twice.
TypeOK ==
  /\ ckpt \in [Days -> Status] \cup {NoFile}
  /\ envelope \in [Days -> [Types -> Nat]] /\ kept \in [Days -> [Types -> Nat]]
  /\ builds \in [Builders -> Build]
  /\ built \in [Days -> Builders \cup {Nobody}]
  /\ trouble \in 0 .. MaxTrouble
  /\ jobPc \in {"idle", "load", "days", "build"}
  /\ todo \in Seq(Days) /\ opts \in [continue : BOOLEAN, maxDays : 0 .. LastDay]
  /\ (jobPc = "build") = (builds[Job].stage # "none")
  /\ poolPc \in {"idle", "silver", "gold"} /\ skipGold \in BOOLEAN
  /\ pending \in Seq(Days) /\ active \subseteq Pids /\ completed \subseteq Result
  /\ \A p \in active : builds[p].stage # "none"

\* Who says that a day was built says the truth: a day completed in the state
\* file, or ended with return code 0 in a pool, has every type of its
\* input in the envelope once, if no other build of the day overlapped with the
\* last one and that was the one that says so.  Failures and crashes of earlier
\* builds, resets and orphans of dead pools leave nothing behind
\* (build_silver_backfill.py:208-253, pipeline_orchestrator.py:638-647), unless the
\* delete of this very build met an error (:645): then the rows come on top of exactly
\* those that it left.
Claims(b, d) ==
  IF b = Job THEN ckpt # NoFile /\ ckpt[d] = "completed"
  ELSE poolPc = "silver" /\ \E r \in completed : r.day = d /\ r.pid = b /\ r.ok
ClaimedDayIsBuilt ==
  \A d \in Days : \A b \in Builders :
    built[d] = b /\ Claims(b, d) =>
      envelope[d] = [t \in Types |-> kept[d][t] + IF t \in Input(b, d) THEN 1 ELSE 0]

\* No backfill begins a day again that its state file has as completed, whatever
\* its list of days, failures and crashes, until the file is reset
\* (build_silver_backfill.py:63-93, 185, 208-255).
CompletedDayIsLeft ==
  [][\A d \in Days : ckpt # NoFile /\ ckpt' # NoFile /\ ckpt[d] = "completed" =>
       ckpt'[d] = "completed" /\ ~(builds[Job].stage = "none" /\ builds'[Job].stage # "none"
                                    /\ builds'[Job].day = d)]_vars

\* A pool begins each of its days once, has no more than --workers children and
\* ends each stage with every day ended (backfill_parallel.py:115-194).
Queue == INSTANCE DayPool WITH
  Width   <- Workers,
  waiting <- ToSet(pending),
  running <- {builds[p].day : p \in active},
  ended   <- {r.day : r \in completed}
PoolIsQueue == Queue!Spec

\* A pool that is not killed ends, even if its children fail
\* (backfill_parallel.py:122-186).
PoolEnds == poolPc # "idle" ~> poolPc = "idle"

\* Interrupted backfills are resumed: in the end every day with bronze is
\* completed, after any crashes and failures, and past days that can never be
\* (build_silver_backfill.py:63-93, 185-259).
RangeCompletes ==
  \A d \in Days : Bronze[d] # {} => <>[](ckpt # NoFile /\ ckpt[d] = "completed")
=============================================================================
