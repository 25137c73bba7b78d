-------------------------------- MODULE Pipeline --------------------------------
(***************************************************************************)
(* The runs that put the stages one after the other, for one day (or one   *)
(* range) of data: on Google Cloud the workflows daily.yaml and            *)
(* backfill.yaml, which submit a Cloud Run job and Dataproc batches and    *)
(* poll them, and the deployment, which refreshes the BigQuery tables; on  *)
(* one machine scripts/ops/run_backfill.py, run_day_pipeline.py and        *)
(* batch_fetch.py, which run the stages as child processes.                *)
(*                                                                         *)
(* What a stage does inside is the matter of Fetch, Bronze, Silver and     *)
(* Deltas.  Here each stage has one output, which says from which versions *)
(* of the raw file it may have rows, and whose manifest it has.            *)
(* The refresh of setup_bq_external_tables.py is modelled by its steps.    *)
(***************************************************************************)
EXTENDS Integers, Sequences, SequencesExt, FiniteSets, Functions

CONSTANTS
  Executions,   \* the runs there may be
  Beside,       \* bound: the kinds of run that are started beside another
  MaxAttempts,  \* max_attempts of submit_dataproc_batch
  Commits,      \* how many versions a build adds to an Iceberg table
  MaxTrouble    \* bound on the failures, passed over or not, cancellations and lost
                \* replies, quota apart

ASSUME ConstantsAssumption ==
  IsFiniteSet(Executions) /\ MaxAttempts \in Nat /\ Commits \in Nat \ {0} /\ MaxTrouble \in Nat

Builds == <<"fetch", "bronze", "silver", "deltas">>
StageNames == ToSet(Builds) \cup {"refresh"}
Upstream == [bronze |-> "fetch", silver |-> "bronze", deltas |-> "silver"]

\* The stages of each kind of run.
Stages == [
  backfill     |-> <<"fetch", "bronze", "silver", "deltas", "refresh">>,
  daily        |-> Builds,
  deploy       |-> <<"refresh">>,
  run_backfill |-> Builds,
  run_day      |-> Builds,
  batch_fetch  |-> <<"fetch", "bronze">>]
Kinds(w) == IF w = "gcp" THEN {"backfill", "daily", "deploy"}
                         ELSE {"run_backfill", "run_day", "batch_fetch"}
Workflows == {"backfill", "daily"}

\* The namespaces of the Iceberg catalog in the order in which the refresh visits
\* them, one table for each, and the stage that commits to it.
Namespaces == <<"notice_type_tables", "common", "notice_update_deltas">>
Writer == [notice_type_tables |-> "silver", common |-> "silver",
           notice_update_deltas |-> "deltas"]
Tables == ToSet(Namespaces)

\* Bound on the versions of a table: Name is right as far as this.
MaxVersion == 99

\* What an output may have rows from: versions of the raw file, numbered from 1 (a
\* torn file is one too), or no file.  Torn: some of the latest rows may be missing.
\* Lost is history, and no guard reads it: the build met an error that its script
\* passed over, so that anything may be missing and anything old may be left.
None == 0
Torn == -1
Lost == -2

VARIABLES
  world,    \* where everything runs: "local" or "gcp"
  exec,     \* exec[e]: the run e
  units,    \* the jobs, batches and processes that live or will be polled
  data,     \* data[s]: the output and the manifest of stage s
  version,  \* version[t]: the number in the latest metadata file of table t
  bq,       \* bq[t]: the version that the BigQuery table reads, 0 if there is none
  alone,    \* auxiliary: nobody else's unit lived since e started
  trouble   \* auxiliary: how many of those there have been

vars == <<world, exec, units, data, version, bq, alone, trouble>>

Ids == [exec : Executions, stage : StageNames, attempt : 0 .. MaxAttempts]
Living == {"PENDING", "RUNNING", "CANCELLING"}
Live == {u \in DOMAIN units : units[u].state \in Living}

NewUnit == [state |-> "PENDING", quota |-> FALSE, batch |-> FALSE, again |-> FALSE,
            script |-> "none", input |-> {}, at |-> 1, listed |-> 0, created |-> 0, skipped |-> 0]
Ended == {"returned", "raised"}
Idle == [kind |-> "deploy", flag |-> FALSE, at |-> 1, attempt |-> 0, pc |-> "idle"]

Stage(x) == Stages[x.kind][x.at]
UnitOf(e, x) == [exec |-> e, stage |-> Stage(x), attempt |-> x.attempt]
Trouble == trouble < MaxTrouble /\ trouble' = trouble + 1

-----------------------------------------------------------------------------
(* The runs.                                                               *)

Init ==
  /\ world \in {"local", "gcp"}
  /\ exec = [e \in Executions |-> Idle]
  /\ units = <<>>
  /\ data = [s \in ToSet(Builds) |-> [of |-> {None}, by |-> "none"]]
  /\ version = [t \in Tables |-> 0]
  /\ bq = [t \in Tables |-> 0]
  /\ alone = [e \in Executions |-> TRUE]
  /\ trouble = 0

\* flag is --force, or --allow-empty of the deployment.
Start(e, kind, flag) ==
  /\ exec[e].pc = "idle" /\ kind \in Kinds(world)
  /\ \A f \in Executions : kind \in Beside \/ exec[f].pc \in {"idle"} \cup Ended
  /\ flag => kind \in {"backfill", "run_backfill", "deploy"}
  /\ exec' = [exec EXCEPT ![e] = [Idle EXCEPT !.kind = kind, !.flag = flag, !.pc = "submit"]]
  /\ UNCHANGED <<world, units, data, version, bq, trouble>>

To(e, pc) ==
  exec' = [exec EXCEPT ![e] =
             IF pc \in Ended THEN [Idle EXCEPT !.pc = pc] ELSE [@ EXCEPT !.pc = pc]]

Advance(e) ==
  IF exec[e].at = Len(Stages[exec[e].kind]) THEN To(e, "returned")
  ELSE exec' = [exec EXCEPT ![e].at = @ + 1, ![e].attempt = 0, ![e].pc = "submit"]

\* batch_fetch.py leaves out a stage that has left any file behind.
HasOutput(x) == x.kind = "batch_fetch" /\ data[Stage(x)].of # {None}

SkipOutput(e) ==
  /\ exec[e].pc = "submit" /\ HasOutput(exec[e])
  /\ Advance(e)
  /\ UNCHANGED <<world, units, data, version, bq, trouble>>

\* Mutant: the workflow does not pass --force to the deltas stage.
RunsAgainMutant(x) ==
  CASE x.kind = "backfill" -> x.flag /\ Stage(x) \notin {"fetch", "deltas"}
    [] x.kind = "run_backfill" -> x.flag /\ Stage(x) # "deltas"
    [] x.kind = "deploy" -> x.flag
    [] OTHER -> Stage(x) # "deltas"
\* Whether a stage repeats what its manifest says is done (the deployment: whether
\* an empty catalog will do).  The downloader does not read FORCE_FETCH,
\* run_backfill.py does not pass --force to the deltas, and of the scripts of a day
\* only that of the deltas looks at its manifest.
RunsAgain(x) ==
  CASE x.kind = "backfill" -> x.flag /\ Stage(x) # "fetch"
    [] x.kind = "run_backfill" -> x.flag /\ Stage(x) # "deltas"
    [] x.kind = "deploy" -> x.flag
    [] OTHER -> Stage(x) # "deltas"

\* The script hash in the manifests tells the scripts of a day from those of a
\* range.  The deltas have one script.
IsRange(x) == x.kind \in {"backfill", "run_backfill"}
Script(x) == IF IsRange(x) \/ Stage(x) = "deltas" THEN "range" ELSE "day"

IsBatch(x) == x.kind \in Workflows /\ Stage(x) # "fetch"

Created(e) ==
  LET new == UnitOf(e, exec[e])
      unit == [NewUnit EXCEPT !.batch = IsBatch(exec[e]), !.again = RunsAgain(exec[e]),
                              !.script = Script(exec[e])]
  IN  units' = [u \in DOMAIN units \cup {new} |-> IF u = new THEN unit ELSE units[u]]

Submit(e) ==
  /\ exec[e].pc = "submit" /\ ~HasOutput(exec[e])
  /\ Created(e) /\ To(e, "poll")
  /\ UNCHANGED <<world, data, version, bq, trouble>>

\* http.post raises; the batch may exist all the same.
SubmitFails(e) ==
  /\ exec[e].pc = "submit" /\ exec[e].kind \in Workflows
  /\ Created(e) \/ UNCHANGED units
  /\ To(e, "raised") /\ Trouble
  /\ UNCHANGED <<world, data, version, bq>>

\* Mutant: a batch that has started is taken for done.
SuccessMutant == {"SUCCEEDED", "RUNNING"}
Success == {"SUCCEEDED"}

\* Mutant: a batch that was cancelled is polled on.
FailureMutant == {"FAILED", "CANCELLING"}
Failure == {"FAILED", "CANCELLED", "CANCELLING"}

\* Mutant: one more attempt.
RetriesMutant(e, unit) == unit.batch /\ unit.quota /\ exec[e].attempt <= MaxAttempts
\* Only Dataproc batches are tried again, if the message speaks of a quota.
Retries(e, unit) == unit.batch /\ unit.quota /\ exec[e].attempt < MaxAttempts

\* What has ended and was polled is forgotten.
Forget(u) == units' = IF u \in Live THEN units ELSE Restrict(units, DOMAIN units \ {u})

Poll(e) ==
  LET u == UnitOf(e, exec[e])
  IN  /\ exec[e].pc = "poll"
      /\ \/ units[u].state \in Success /\ Advance(e)
         \/ /\ units[u].state \in Failure
            /\ To(e, IF Retries(e, units[u]) THEN "wait"
                     ELSE IF exec[e].kind = "batch_fetch" THEN "returned" ELSE "raised")
      /\ Forget(u)
      /\ UNCHANGED <<world, data, version, bq, trouble>>

\* http.get raises, or the local runner is killed: nobody cancels the unit.
PollFails(e) ==
  /\ exec[e].pc = "poll" /\ exec[e].kind # "deploy"
  /\ To(e, "raised") /\ Trouble
  /\ UNCHANGED <<world, units, data, version, bq>>

\* retry_wait and next_attempt.
NextAttempt(e) ==
  /\ exec[e].pc = "wait"
  /\ exec' = [exec EXCEPT ![e].attempt = @ + 1, ![e].pc = "submit"]
  /\ UNCHANGED <<world, units, data, version, bq, trouble>>

-----------------------------------------------------------------------------
(* The units: a script of a stage in its job, batch or process.            *)

\* A unit that nobody will poll is gone when it ends.
IsAwaited(u) == exec[u.exec].pc = "poll" /\ UnitOf(u.exec, exec[u.exec]) = u
Ends(u, state, quota) ==
  units' = IF IsAwaited(u)
           THEN [units EXCEPT ![u] = [NewUnit EXCEPT !.state = state, !.quota = quota,
                                                     !.batch = units[u].batch]]
           ELSE Restrict(units, DOMAIN units \ {u})

IsDone(u) ==
  u.stage # "refresh" /\ data[u.stage].by = units[u].script /\ ~units[u].again

SkipStage(u) ==
  /\ units[u].state = "PENDING" /\ IsDone(u)
  /\ Ends(u, "SUCCEEDED", FALSE)
  /\ UNCHANGED <<world, exec, data, version, bq, trouble>>

Input(u) == IF u.stage \in DOMAIN Upstream THEN data[Upstream[u.stage]].of ELSE {None}

Begin(u) ==
  /\ units[u].state = "PENDING" /\ ~IsDone(u)
  /\ units' = [units EXCEPT ![u].state = "RUNNING", ![u].input = Input(u)]
  /\ UNCHANGED <<world, exec, data, version, bq, trouble>>

\* What a build has read: its input, or a mixture if that changed meanwhile.
Read(u) ==
  units[u].input \cup IF Input(u) = units[u].input THEN {} ELSE Input(u) \cup {Torn}

\* Only the range script of bronze deletes all that was there.  A script of a day
\* overwrites the partitions it has rows for, the range script of silver replaces
\* the types that bronze has, and that of the deltas the days that silver has.
Keeps(u) == units[u].script = "day" \/ u.stage # "bronze"
Old(u) == data[u.stage].of \ {None, Torn, Lost}

Built(u) == Read(u) \cup IF Keeps(u) THEN Old(u) ELSE {}
Part(u) == Read(u) \cup Old(u) \cup {Torn}
Rivals(u) == {v \in Live \ {u} : v.stage = u.stage /\ units[v].state # "PENDING"}

\* A fetch makes a new raw file, another stage what it built, or a mixture if it was
\* not the only one.
Made(u) ==
  IF u.stage = "fetch" THEN {{n + 1 : n \in data["fetch"].of}}
  ELSE {Built(u)} \cup {Part(u) : v \in Rivals(u)}

Store(u, of, by) == data' = [data EXCEPT ![u.stage] = [of |-> of, by |-> by]]
Commit(u, n) ==
  /\ \A t \in Tables : Writer[t] = u.stage => version[t] + n <= MaxVersion
  /\ version' = [t \in Tables |-> version[t] + IF Writer[t] = u.stage THEN n ELSE 0]

\* Some days of silver ask for no deltas: the range job of the deltas then ends well
\* and writes nothing, not even a manifest.
Finish(u) ==
  /\ units[u].state = "RUNNING" /\ u.stage # "refresh"
  /\ \E of \in Made(u) :
       \/ Store(u, of, units[u].script) /\ Commit(u, Commits)
       \/ u.stage = "deltas" /\ Store(u, of, data[u.stage].by) /\ Commit(u, 0)
  /\ Ends(u, "SUCCEEDED", FALSE)
  /\ UNCHANGED <<world, exec, bq, trouble>>

\* Silver goes on when a pre-delete meets an error, and the deltas when their deletes,
\* their reads or the discovery of their days do.  The build ends well all the same.
FinishAfterError(u) ==
  LET out == data[u.stage]
  IN  /\ units[u].state = "RUNNING"
      /\ \/ /\ u.stage \in {"silver", "deltas"}
            /\ Store(u, Part(u) \cup {Lost}, units[u].script) /\ Commit(u, Commits)
         \/ u.stage = "deltas" /\ Store(u, out.of \cup {Lost}, out.by) /\ Commit(u, 0)
      /\ Ends(u, "SUCCEEDED", FALSE) /\ Trouble
      /\ UNCHANGED <<world, exec, bq>>

\* What a build that stops leaves: nothing new, a part, or all but the manifest.
Remains(u) ==
  \/ UNCHANGED <<data, version>>
  \/ /\ u.stage # "refresh" /\ units[u].state # "PENDING"
     /\ \E of \in Made(u) \cup (IF u.stage = "fetch" THEN {} ELSE {Part(u)}) :
          Store(u, of, data[u.stage].by)
     /\ \E n \in 1 .. Commits : Commit(u, n)

\* A batch that there is no quota for never runs.
QuotaExceeded(u) ==
  /\ units[u].batch /\ units[u].state = "PENDING"
  /\ Ends(u, "FAILED", TRUE)
  /\ UNCHANGED <<world, exec, data, version, bq, trouble>>

Fail(u, quota) ==
  /\ units[u].state \in {"PENDING", "RUNNING"}
  /\ Remains(u) /\ Ends(u, "FAILED", quota) /\ Trouble
  /\ UNCHANGED <<world, exec, bq>>

\* An operator cancels a batch, or its ttl is over.  It goes on for a while.
Cancel(u, quota) ==
  /\ units[u].batch /\ units[u].state = "RUNNING"
  /\ units' = [units EXCEPT ![u].state = "CANCELLING", ![u].quota = quota]
  /\ Trouble
  /\ UNCHANGED <<world, exec, data, version, bq>>

Cancelled(u) ==
  /\ units[u].state = "CANCELLING"
  /\ Remains(u) /\ Ends(u, "CANCELLED", units[u].quota)
  /\ UNCHANGED <<world, exec, bq, trouble>>

-----------------------------------------------------------------------------
(* setup_bq_external_tables.py: for each namespace it lists the metadata   *)
(* files, takes the last by name, and points the BigQuery table at it.     *)

\* v<n>.metadata.json as a sequence in the order of its characters: the dot sorts
\* before the digits.
Name(n) == IF n < 10 THEN <<n, -1>> ELSE <<n \div 10, n % 10, -1>>
SortsBefore(a, b) ==
  \E i \in DOMAIN a \cap DOMAIN b : a[i] < b[i] /\ \A j \in 1 .. i - 1 : a[j] = b[j]

\* Mutant: the first of the sorted names.
LatestMetadataMutant(t) ==
  IF version[t] = 0 THEN 0
  ELSE CHOOSE n \in 1 .. version[t] :
         \A m \in (1 .. version[t]) \ {n} : SortsBefore(Name(n), Name(m))
\* A table has the metadata files v1 .. v<version>; one without is not listed.
LatestMetadata(t) ==
  IF version[t] = 0 THEN 0
  ELSE CHOOSE n \in 1 .. version[t] :
         \A m \in (1 .. version[t]) \ {n} : SortsBefore(Name(m), Name(n))

Refreshes(u) == u.stage = "refresh" /\ units[u].state = "RUNNING"
Left(u) == units[u].at <= Len(Namespaces)
Set(u, unit) == units' = [units EXCEPT ![u] = unit]

ListTable(u) ==
  /\ Refreshes(u) /\ Left(u) /\ units[u].listed = 0
  /\ LET latest == LatestMetadata(Namespaces[units[u].at])
     IN  Set(u, IF latest = 0 THEN [units[u] EXCEPT !.at = @ + 1]
                              ELSE [units[u] EXCEPT !.listed = latest])
  /\ UNCHANGED <<world, exec, data, version, bq, trouble>>

CreateTable(u) ==
  /\ Refreshes(u) /\ units[u].listed # 0
  /\ bq' = [bq EXCEPT ![Namespaces[units[u].at]] = units[u].listed]
  /\ Set(u, [units[u] EXCEPT !.at = @ + 1, !.listed = 0, !.created = @ + 1])
  /\ UNCHANGED <<world, exec, data, version, trouble>>

CreateFails(u) ==
  /\ Refreshes(u) /\ units[u].listed # 0
  /\ Set(u, [units[u] EXCEPT !.at = @ + 1, !.listed = 0, !.skipped = @ + 1])
  /\ Trouble
  /\ UNCHANGED <<world, exec, data, version, bq>>

\* Mutant: tables that could not be created are only logged.
IsRefreshedMutant(u) ==
  units[u].created > 0 \/ (units[u].again /\ ~units[u].batch)
IsRefreshed(u) ==
  /\ units[u].skipped = 0
  /\ units[u].created > 0 \/ (units[u].again /\ ~units[u].batch)

ExitRefresh(u) ==
  /\ Refreshes(u) /\ ~Left(u)
  /\ Ends(u, IF IsRefreshed(u) THEN "SUCCEEDED" ELSE "FAILED", FALSE)
  /\ UNCHANGED <<world, exec, data, version, bq, trouble>>

-----------------------------------------------------------------------------
Progress ==
  \/ \E e \in Executions : SkipOutput(e) \/ Submit(e) \/ Poll(e) \/ NextAttempt(e)
  \/ \E u \in Live : \/ SkipStage(u) \/ Begin(u) \/ Finish(u) \/ Cancelled(u)
                     \/ ListTable(u) \/ CreateTable(u) \/ ExitRefresh(u)

Environment ==
  \/ \E e \in Executions, flag \in BOOLEAN :
       \E kind \in DOMAIN Stages : Start(e, kind, flag)
  \/ \E e \in Executions : SubmitFails(e) \/ PollFails(e)
  \/ \E u \in Live : \/ \E quota \in BOOLEAN : Fail(u, quota) \/ Cancel(u, quota)
                     \/ FinishAfterError(u) \/ CreateFails(u) \/ QuotaExceeded(u)

\* A run is alone until a unit that is not its own current one lives.
Witness ==
  alone' = [e \in Executions |->
              CASE exec'[e].pc = "idle" -> TRUE
                [] exec'[e].pc \in Ended -> FALSE
                [] OTHER -> alone[e] /\ Live' \subseteq {UnitOf(e, exec'[e])}]

System == Progress /\ Witness
Next == System \/ (Environment /\ Witness)

\* A batch has a ttl, a process and a job end or fail, and Cloud Workflows goes on
\* with a run it has begun.
Spec == Init /\ [][Next]_vars /\ WF_vars(System)

-----------------------------------------------------------------------------
Execution == [kind : DOMAIN Stages, flag : BOOLEAN, at : Nat, attempt : 0 .. MaxAttempts,
              pc : {"idle", "submit", "poll", "wait"} \cup Ended]
Unit == [state : Living \cup {"SUCCEEDED", "FAILED", "CANCELLED"},
         quota : BOOLEAN, batch : BOOLEAN, again : BOOLEAN, script : {"none", "day", "range"},
         input : SUBSET Int, at : Nat, listed : Nat, created : Nat, skipped : Nat]

TypeOK ==
  /\ world \in {"local", "gcp"}
  /\ exec \in [Executions -> Execution]
  /\ \A e \in Executions : exec[e].at \in DOMAIN Stages[exec[e].kind]
  /\ DOMAIN units \subseteq Ids
  /\ \A u \in DOMAIN units :
       /\ units[u] \in Unit
       /\ units[u].listed # 0 => Refreshes(u) \/ units[u].state = "CANCELLING"
       /\ units[u].created + units[u].skipped < units[u].at
  /\ data \in [ToSet(Builds) -> [of : SUBSET Int, by : {"none", "day", "range"}]]
  /\ data["fetch"].of \subseteq Nat
  /\ version \in [Tables -> 0 .. MaxVersion] /\ bq \in [Tables -> 0 .. MaxVersion]
  /\ \A t \in Tables : bq[t] <= version[t]
  /\ alone \in [Executions -> BOOLEAN] /\ trouble \in 0 .. MaxTrouble

\* Whatever still runs is what its run is waiting for, or a batch that the run has
\* seen being cancelled (and may be trying again), or what a run left that raised.
LiveUnitIsOwned ==
  \A u \in Live : IsAwaited(u) \/ units[u].state = "CANCELLING" \/ exec[u.exec].pc = "raised"

Returns(e) == exec[e].pc # "returned" /\ exec'[e].pc = "returned"

\* A run that was alone from its start to its return leaves every stage it repeats
\* with all that comes of the raw file there is, whatever earlier runs left behind,
\* unless a build of that stage or of one before it passed over an error; and bronze,
\* if its range script made it, with nothing else.  A backfill leaves the BigQuery
\* tables at the latest version, as long as that has one digit.
RunIsEndToEnd ==
  [][\A e \in Executions :
       LET x == exec[e]
           raw == data'["fetch"].of
       IN  Returns(e) /\ alone[e] /\ x.kind # "batch_fetch" =>
             /\ x.kind # "deploy" =>
                  \A s \in DOMAIN Upstream :
                    (x.kind \in {"daily", "run_day"} \/ x.flag) /\ (s = "deltas" => x.kind = "backfill") =>
                      /\ Lost \in data'[s].of \/ (raw \subseteq data'[s].of /\ Torn \notin data'[s].of)
                      /\ s = "bronze" /\ IsRange(x) => data'[s].of = raw
             /\ x.kind = "backfill" =>
                  \A t \in Tables : version'[t] < 10 => bq'[t] = version'[t]]_vars

\* A run that has begun returns or raises, whatever fails meanwhile.
RunEnds ==
  \A e \in Executions : exec[e].pc # "idle" ~> exec[e].pc \in Ended

\* setup_bq_external_tables.py:254, "Return the latest Iceberg metadata JSON URI for
\* one table prefix": after a backfill that was alone, BigQuery reads the latest.
RefreshedTableIsLatest ==
  [][\A e \in Executions :
       Returns(e) /\ alone[e] /\ exec[e].kind = "backfill" => bq' = version']_vars
=============================================================================
