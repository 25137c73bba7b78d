---------------------------- MODULE PipelineProofs ----------------------------
(***************************************************************************)
(* What is proved about Pipeline: no unit is lost sight of, and a run that *)
(* is alone leaves everything made from the raw file there is, for every   *)
(* number of runs, attempts, commits and failures.                         *)
(***************************************************************************)
EXTENDS Pipeline, TLAPS

(***************************************************************************)
(* The stages of the runs and the tables.                                  *)
(***************************************************************************)
LEMMA StageListsAre ==
  /\ DOMAIN Stages = {"backfill", "daily", "deploy", "run_backfill", "run_day", "batch_fetch"}
  /\ Stages["backfill"] = <<"fetch", "bronze", "silver", "deltas", "refresh">>
  /\ Stages["daily"] = <<"fetch", "bronze", "silver", "deltas">>
  /\ Stages["run_backfill"] = <<"fetch", "bronze", "silver", "deltas">>
  /\ Stages["run_day"] = <<"fetch", "bronze", "silver", "deltas">>
  /\ Stages["deploy"] = <<"refresh">>
  /\ Stages["batch_fetch"] = <<"fetch", "bronze">>
  BY DEF Stages, Builds

LEMMA NamesAre ==
  /\ ToSet(Builds) = {"fetch", "bronze", "silver", "deltas"}
  /\ StageNames = {"fetch", "bronze", "silver", "deltas", "refresh"}
  /\ DOMAIN Upstream = {"bronze", "silver", "deltas"}
  /\ Upstream["bronze"] = "fetch" /\ Upstream["silver"] = "bronze" /\ Upstream["deltas"] = "silver"
  BY DEF ToSet, Builds, StageNames, Upstream

LEMMA TablesAre ==
  /\ Tables = {"notice_type_tables", "common", "notice_update_deltas"}
  /\ DOMAIN Namespaces = 1 .. 3 /\ Len(Namespaces) = 3
  /\ \A i \in 1 .. 3 : Namespaces[i] \in Tables
  /\ \A t \in Tables : \E i \in 1 .. 3 : Namespaces[i] = t
  BY DEF ToSet, Tables, Namespaces

\* The stages of a run: each once, and each after the one it reads.
LEMMA StagesFollow ==
  ASSUME NEW kind \in DOMAIN Stages
  PROVE  /\ DOMAIN Stages[kind] = 1 .. Len(Stages[kind]) /\ Len(Stages[kind]) \in Nat
         /\ 1 \in DOMAIN Stages[kind]
         /\ \A k \in DOMAIN Stages[kind] : Stages[kind][k] \in StageNames
         /\ \A j, k \in DOMAIN Stages[kind] : Stages[kind][j] = Stages[kind][k] => j = k
         /\ \A k \in DOMAIN Stages[kind] :
              Stages[kind][k] \in DOMAIN Upstream =>
                k - 1 \in DOMAIN Stages[kind] /\ Stages[kind][k - 1] = Upstream[Stages[kind][k]]
         /\ kind \notin {"deploy", "batch_fetch"} =>
              \A s \in DOMAIN Upstream : \E k \in DOMAIN Stages[kind] : Stages[kind][k] = s
  <1>1. CASE kind = "backfill"
    BY <1>1, StageListsAre, NamesAre
  <1>2. CASE kind \in {"daily", "run_backfill", "run_day"}
    BY <1>2, StageListsAre, NamesAre
  <1>3. CASE kind \in {"deploy", "batch_fetch"}
    BY <1>3, StageListsAre, NamesAre
  <1> QED
    BY <1>1, <1>2, <1>3, StageListsAre

LEMMA StagesOnce ==
  ASSUME NEW kind \in DOMAIN Stages, NEW j \in DOMAIN Stages[kind], NEW k \in DOMAIN Stages[kind],
         Stages[kind][j] = Stages[kind][k]
  PROVE  j = k
  BY StagesFollow

(***************************************************************************)
(* The names of the metadata files.                                        *)
(***************************************************************************)
LEMMA NamesOfVersions ==
  ASSUME NEW n \in 1 .. MaxVersion
  PROVE  /\ DOMAIN Name(n) = IF n < 10 THEN 1 .. 2 ELSE 1 .. 3
         /\ n < 10 => Name(n)[1] = n /\ Name(n)[2] = -1
         /\ n >= 10 => Name(n)[1] \in 1 .. 9 /\ Name(n)[2] \in 0 .. 9
         /\ n >= 10 => n = (10 * Name(n)[1]) + Name(n)[2]
  <1>1. CASE n < 10
    BY <1>1 DEF Name
  <1>2. CASE n >= 10
    <2>1. n \div 10 \in 1 .. 9 /\ n % 10 \in 0 .. 9 /\ n = (10 * (n \div 10)) + (n % 10)
      BY <1>2 DEF MaxVersion
    <2>2. Name(n) = <<n \div 10, n % 10, -1>>
      BY <1>2 DEF Name, MaxVersion
    <2> QED
      BY <1>2, <2>1, <2>2
  <1> QED
    BY <1>1, <1>2 DEF MaxVersion

LEMMA FirstDecides ==
  ASSUME NEW m \in 1 .. MaxVersion, NEW n \in 1 .. MaxVersion, Name(m)[1] < Name(n)[1]
  PROVE  SortsBefore(Name(m), Name(n))
  <1>1. 1 \in DOMAIN Name(m) /\ 1 \in DOMAIN Name(n)
    BY NamesOfVersions
  <1> QED
    BY <1>1 DEF SortsBefore

LEMMA SecondDecides ==
  ASSUME NEW m \in 1 .. MaxVersion, NEW n \in 1 .. MaxVersion,
         Name(m)[1] = Name(n)[1], Name(m)[2] < Name(n)[2]
  PROVE  SortsBefore(Name(m), Name(n))
  <1>1. 2 \in DOMAIN Name(m) /\ 2 \in DOMAIN Name(n)
    BY NamesOfVersions
  <1> QED
    BY <1>1 DEF SortsBefore

\* Up to v9 the last by name is the latest; from v10 to v89 it is v9, and from v90 on the
\* latest again.
LEMMA LatestExists ==
  ASSUME NEW v \in 1 .. MaxVersion
  PROVE  \E n \in 1 .. v :
           /\ \A m \in (1 .. v) \ {n} : SortsBefore(Name(m), Name(n))
           /\ v < 10 => n = v
  <1>v. v \in 1 .. 99 /\ \A n \in 1 .. v : n \in 1 .. MaxVersion
    BY DEF MaxVersion
  <1>1. CASE v < 10
    <2>1. \A m \in (1 .. v) \ {v} : SortsBefore(Name(m), Name(v))
      BY <1>1, <1>v, NamesOfVersions, FirstDecides
    <2> QED BY <2>1
  <1>2. CASE v >= 10 /\ v < 90
    <2>1. \A m \in (1 .. v) \ {9} : SortsBefore(Name(m), Name(9))
      <3> TAKE m \in (1 .. v) \ {9}
      <3>1. m \in 1 .. MaxVersion /\ 9 \in 1 .. MaxVersion
        BY <1>2, <1>v
      <3>2. Name(9)[1] = 9 /\ Name(m)[1] < 9
        BY <3>1, <1>2, <1>v, NamesOfVersions
      <3> QED
        BY <3>1, <3>2, FirstDecides
    <2> QED BY <2>1, <1>2
  <1>3. CASE v >= 90
    <2>1. \A m \in (1 .. v) \ {v} : SortsBefore(Name(m), Name(v))
      <3> TAKE m \in (1 .. v) \ {v}
      <3>m. m \in 1 .. MaxVersion /\ v \in 1 .. MaxVersion /\ m < v
        BY <1>v
      <3>1. Name(v)[1] = 9 /\ Name(v)[2] = v - 90
        BY <1>3, <1>v, NamesOfVersions
      <3>2. CASE m < 9 \/ (m >= 10 /\ m < 90)
        <4>1. Name(m)[1] < 9
          BY <3>m, <3>2, NamesOfVersions
        <4> QED BY <3>m, <3>1, <4>1, FirstDecides
      <3>3. CASE m = 9 \/ m >= 90
        <4>1. Name(m)[1] = 9 /\ Name(m)[2] < v - 90
          BY <3>m, <3>3, <1>3, <1>v, NamesOfVersions
        <4> QED BY <3>m, <3>1, <4>1, SecondDecides
      <3> QED BY <3>2, <3>3, <3>m
    <2> QED BY <2>1
  <1> QED
    BY <1>1, <1>2, <1>3, <1>v

\* What the refresh takes for the latest is a version that is there, and the latest
\* one if that has one digit.
LEMMA LatestIsThere ==
  ASSUME NEW t \in Tables, version[t] \in 0 .. MaxVersion
  PROVE  /\ LatestMetadata(t) \in 0 .. version[t]
         /\ LatestMetadata(t) = 0 => version[t] = 0
         /\ version[t] < 10 => LatestMetadata(t) = version[t]
  <1> DEFINE v == version[t]
             IsLast(n) == \A m \in (1 .. v) \ {n} : SortsBefore(Name(m), Name(n))
  <1>v. v \in 0 .. MaxVersion
    OBVIOUS
  <1>1. CASE v = 0
    BY <1>1 DEF LatestMetadata
  <1>2. CASE v # 0
    <2>1. v \in 1 .. MaxVersion
      BY <1>2 DEF MaxVersion
    <2>2. LatestMetadata(t) = CHOOSE n \in 1 .. v : IsLast(n)
      BY <1>2 DEF LatestMetadata
    <2>3. PICK n \in 1 .. v : IsLast(n) /\ (v < 10 => n = v)
      BY <2>1, LatestExists
    <2>4. LatestMetadata(t) \in 1 .. v /\ IsLast(LatestMetadata(t))
      BY <2>2, <2>3
    <2>5. ASSUME v < 10 PROVE LatestMetadata(t) = v
      <3>1. ASSUME LatestMetadata(t) # v PROVE FALSE
        <4> DEFINE l == LatestMetadata(t)
        <4>l. l \in 1 .. v /\ v \in (1 .. v) \ {l}
          BY <2>1, <2>4, <3>1
        <4>1. SortsBefore(Name(v), Name(l)) /\ l \in 1 .. MaxVersion /\ l < v
          BY <2>1, <2>4, <4>l DEF MaxVersion
        <4>2. /\ DOMAIN Name(v) = 1 .. 2 /\ DOMAIN Name(l) = 1 .. 2
              /\ Name(v)[1] = v /\ Name(l)[1] = l /\ Name(v)[2] = -1 /\ Name(l)[2] = -1
          BY <2>1, <4>1, <2>5, NamesOfVersions
        <4> QED
          BY <4>1, <4>2 DEF SortsBefore
      <3> QED BY <3>1
    <2> QED
      BY <2>1, <2>4, <2>5
  <1> QED
    BY <1>1, <1>2

(***************************************************************************)
(* The parts of the invariant, one run or one unit at a time.              *)
(***************************************************************************)
ExecOK(x) ==
  /\ x \in Execution /\ x.at \in DOMAIN Stages[x.kind]
  /\ x.pc = "wait" => x.attempt < MaxAttempts

\* What a refresh has listed is a version that is still there.
UnitOK(u, unit, latest) ==
  /\ u \in Ids /\ unit \in Unit
  /\ unit.listed # 0 =>
       /\ (u.stage = "refresh" /\ unit.state = "RUNNING") \/ unit.state = "CANCELLING"
       /\ unit.at \in DOMAIN Namespaces /\ unit.listed <= latest[Namespaces[unit.at]]
  /\ unit.created + unit.skipped < unit.at

Outputs == [ToSet(Builds) -> [of : SUBSET Int, by : {"none", "day", "range"}]]

TypeInv ==
  /\ world \in {"local", "gcp"}
  /\ exec \in [Executions -> Execution]
  /\ \A e \in Executions : ExecOK(exec[e])
  /\ \A u \in DOMAIN units : UnitOK(u, units[u], version)
  /\ data \in Outputs /\ data["fetch"].of \subseteq Nat
  /\ version \in [Tables -> 0 .. MaxVersion] /\ bq \in [Tables -> 0 .. MaxVersion]
  /\ \A t \in Tables : bq[t] <= version[t]
  /\ alone \in [Executions -> BOOLEAN] /\ trouble \in 0 .. MaxTrouble

LEMMA TypeInvIsTypeOK == TypeInv => TypeOK
  BY DEF TypeInv, TypeOK, ExecOK, UnitOK, Refreshes, Outputs

LEMMA IdleIs ==
  /\ Idle \in Execution /\ ExecOK(Idle)
  /\ Idle.kind = "deploy" /\ Idle.at = 1 /\ Idle.attempt = 0 /\ Idle.pc = "idle"
  BY StageListsAre, ConstantsAssumption DEF ExecOK, Idle, Execution

LEMMA NewUnitIs ==
  /\ NewUnit \in Unit /\ NewUnit.state = "PENDING" /\ NewUnit.script = "none"
  /\ NewUnit.at = 1 /\ NewUnit.listed = 0 /\ NewUnit.created = 0 /\ NewUnit.skipped = 0
  BY DEF NewUnit, Unit, Living

LEMMA TypeInit == Init => TypeInv
  <1> SUFFICES ASSUME Init PROVE TypeInv
    OBVIOUS
  <1>2. exec \in [Executions -> Execution] /\ \A e \in Executions : ExecOK(exec[e])
    BY IdleIs DEF Init
  <1>3. DOMAIN units = {}
    BY DEF Init
  <1>4. data \in Outputs /\ data["fetch"].of \subseteq Nat
    BY NamesAre DEF Init, None, Outputs
  <1>5. version \in [Tables -> 0 .. MaxVersion] /\ bq \in [Tables -> 0 .. MaxVersion]
        /\ \A t \in Tables : bq[t] <= version[t]
    BY DEF Init, MaxVersion
  <1>6. world \in {"local", "gcp"} /\ alone \in [Executions -> BOOLEAN] /\ trouble \in 0 .. MaxTrouble
    BY ConstantsAssumption DEF Init
  <1> QED
    BY <1>2, <1>3, <1>4, <1>5, <1>6 DEF TypeInv

\* Every action changes one unit at most, and no table loses a version.
OnlyOf(u) == \A v \in (DOMAIN units') \ {u} : v \in DOMAIN units /\ units'[v] = units[v]
Grows == version' \in [Tables -> 0 .. MaxVersion] /\ \A t \in Tables : version[t] <= version'[t]

LEMMA OneUnitChanges ==
  ASSUME TypeInv, Grows, NEW u, OnlyOf(u),
         u \in DOMAIN units' => UnitOK(u, units'[u], version')
  PROVE  \A v \in DOMAIN units' : UnitOK(v, units'[v], version')
  <1> TAKE v \in DOMAIN units'
  <1>1. CASE v = u
    BY <1>1
  <1>2. CASE v # u
    <2>1. UnitOK(v, units[v], version) /\ units'[v] = units[v]
      BY <1>2 DEF OnlyOf, TypeInv
    <2>2. ASSUME units[v].listed # 0
          PROVE  units[v].listed <= version'[Namespaces[units[v].at]]
      <3>1. units[v].at \in 1 .. 3 /\ units[v].listed \in Nat
        BY <2>1, <2>2, TablesAre DEF UnitOK, Unit
      <3> DEFINE t == Namespaces[units[v].at]
      <3>2. t \in Tables /\ version[t] \in Int /\ version'[t] \in Int /\ version[t] <= version'[t]
        BY <3>1, TablesAre DEF Grows, TypeInv, MaxVersion
      <3> QED
        BY <2>1, <2>2, <3>1, <3>2 DEF UnitOK
    <2> QED
      BY <2>1, <2>2 DEF UnitOK
  <1> QED
    BY <1>1, <1>2

LEMMA EndsChanges ==
  ASSUME NEW u \in DOMAIN units, NEW state, NEW quota, Ends(u, state, quota)
  PROVE  /\ OnlyOf(u)
         /\ DOMAIN units' \subseteq DOMAIN units /\ DOMAIN units \ {u} \subseteq DOMAIN units'
         /\ u \in DOMAIN units' <=> IsAwaited(u)
         /\ IsAwaited(u) => units'[u] = [NewUnit EXCEPT !.state = state, !.quota = quota,
                                                        !.batch = units[u].batch]
  <1>1. CASE IsAwaited(u)
    BY <1>1 DEF Ends, OnlyOf
  <1>2. CASE ~IsAwaited(u)
    BY <1>2 DEF Ends, OnlyOf, Restrict
  <1> QED
    BY <1>1, <1>2

LEMMA EndedIsOK ==
  ASSUME TypeInv, Grows, NEW u \in DOMAIN units, NEW state, NEW quota \in BOOLEAN,
         state \in {"SUCCEEDED", "FAILED", "CANCELLED"}, Ends(u, state, quota)
  PROVE  \A v \in DOMAIN units' : UnitOK(v, units'[v], version')
  <1>1. u \in Ids /\ units[u].batch \in BOOLEAN
    BY DEF TypeInv, UnitOK, Unit
  <1> DEFINE unit == [NewUnit EXCEPT !.state = state, !.quota = quota, !.batch = units[u].batch]
  <1>2. unit \in Unit
    BY <1>1, NewUnitIs DEF Unit
  <1>3. unit.listed = 0 /\ unit.at = 1 /\ unit.created = 0 /\ unit.skipped = 0
    BY NewUnitIs DEF Unit
  <1> HIDE DEF unit
  <1>4. UnitOK(u, unit, version')
    BY <1>1, <1>2, <1>3 DEF UnitOK
  <1>5. u \in DOMAIN units' => UnitOK(u, units'[u], version')
    BY <1>4, EndsChanges DEF unit
  <1> QED
    BY <1>5, EndsChanges, OneUnitChanges

LEMMA ToIsOK ==
  ASSUME TypeInv, NEW e \in Executions, NEW pc, To(e, pc),
         pc \in {"poll", "wait"} \cup Ended, pc = "wait" => exec[e].attempt < MaxAttempts
  PROVE  /\ exec' \in [Executions -> Execution] /\ \A f \in Executions : ExecOK(exec'[f])
         /\ \A f \in Executions \ {e} : exec'[f] = exec[f]
         /\ exec'[e].pc = pc
         /\ pc \notin Ended => /\ exec'[e].kind = exec[e].kind /\ exec'[e].flag = exec[e].flag
                               /\ exec'[e].at = exec[e].at /\ exec'[e].attempt = exec[e].attempt
  <1>1. exec \in [Executions -> Execution] /\ ExecOK(exec[e])
    BY DEF TypeInv
  <1>2. CASE pc \in Ended
    <2>1. ExecOK([Idle EXCEPT !.pc = pc])
      BY <1>2, IdleIs DEF ExecOK, Execution, Ended
    <2> QED
      BY <1>1, <1>2, <2>1, IdleIs DEF To, ExecOK, TypeInv, Execution
  <1>3. CASE pc \notin Ended
    <2>1. ExecOK([exec[e] EXCEPT !.pc = pc])
      BY <1>1, <1>3 DEF ExecOK, Execution
    <2> QED
      BY <1>1, <1>3, <2>1 DEF To, ExecOK, TypeInv, Execution
  <1> QED
    BY <1>2, <1>3

(***************************************************************************)
(* The steps of a run and those of a unit.                                 *)
(***************************************************************************)
RunMoves(e) ==
  \/ \E kind \in DOMAIN Stages, flag \in BOOLEAN : Start(e, kind, flag)
  \/ SkipOutput(e) \/ Submit(e) \/ SubmitFails(e) \/ Poll(e) \/ PollFails(e) \/ NextAttempt(e)

UnitMoves(u) ==
  \/ SkipStage(u) \/ Begin(u) \/ Finish(u) \/ Cancelled(u) \/ QuotaExceeded(u)
  \/ \E quota \in BOOLEAN : Fail(u, quota) \/ Cancel(u, quota)
  \/ FinishAfterError(u)
  \/ ListTable(u) \/ CreateTable(u) \/ CreateFails(u) \/ ExitRefresh(u)

LEMMA NextIs ==
  ASSUME Next
  PROVE  Witness /\ ((\E e \in Executions : RunMoves(e)) \/ (\E u \in Live : UnitMoves(u)))
  BY DEF Next, System, Progress, Environment, RunMoves, UnitMoves

LEMMA AreBoolean ==
  ASSUME NEW x, ExecOK(x)
  PROVE  IsBatch(x) \in BOOLEAN /\ RunsAgain(x) \in BOOLEAN /\ Script(x) \in {"day", "range"}
  <1>1. IsBatch(x) \in BOOLEAN
    BY Zenon DEF IsBatch
  <1>2. x.flag \in BOOLEAN
    BY DEF ExecOK, Execution
  <1>3. RunsAgain(x) \in BOOLEAN
    <2>1. CASE x.kind = "backfill"
      BY <1>2, <2>1, Zenon DEF RunsAgain
    <2>2. CASE x.kind = "run_backfill"
      BY <1>2, <2>2, Zenon DEF RunsAgain
    <2>3. CASE x.kind = "deploy"
      BY <1>2, <2>3 DEF RunsAgain
    <2>4. CASE x.kind \notin {"backfill", "run_backfill", "deploy"}
      BY <1>2, <2>4, Zenon DEF RunsAgain
    <2> QED
      BY <2>1, <2>2, <2>3, <2>4
  <1> QED
    BY <1>1, <1>3 DEF Script

LEMMA UnitOfIsId ==
  ASSUME NEW e \in Executions, NEW x, ExecOK(x)
  PROVE  UnitOf(e, x) \in Ids
  BY StagesFollow DEF UnitOf, Ids, ExecOK, Execution, Stage

LEMMA CreatedIs ==
  ASSUME TypeInv, NEW e \in Executions, Created(e), NEW u, u = UnitOf(e, exec[e])
  PROVE  /\ OnlyOf(u) /\ DOMAIN units' = DOMAIN units \cup {u}
         /\ units'[u] \in Unit /\ units'[u].state = "PENDING"
         /\ units'[u].batch = IsBatch(exec[e]) /\ units'[u].again = RunsAgain(exec[e])
         /\ units'[u].script = Script(exec[e])
         /\ units'[u].at = 1 /\ units'[u].listed = 0
         /\ units'[u].created = 0 /\ units'[u].skipped = 0
  <1> DEFINE unit == [NewUnit EXCEPT !.batch = IsBatch(exec[e]), !.again = RunsAgain(exec[e]),
                                     !.script = Script(exec[e])]
  <1>1. units' = [v \in DOMAIN units \cup {u} |-> IF v = u THEN unit ELSE units[v]]
    BY DEF Created
  <1>2. OnlyOf(u) /\ DOMAIN units' = DOMAIN units \cup {u} /\ units'[u] = unit
    <2> HIDE DEF unit
    <2> QED BY <1>1 DEF OnlyOf
  <1>3. /\ IsBatch(exec[e]) \in BOOLEAN /\ RunsAgain(exec[e]) \in BOOLEAN
        /\ Script(exec[e]) \in {"day", "range"}
    BY AreBoolean DEF TypeInv
  <1>4. /\ unit \in Unit /\ unit.state = "PENDING"
        /\ unit.batch = IsBatch(exec[e]) /\ unit.again = RunsAgain(exec[e])
        /\ unit.script = Script(exec[e])
        /\ unit.at = 1 /\ unit.listed = 0 /\ unit.created = 0 /\ unit.skipped = 0
    BY <1>3, NewUnitIs DEF Unit
  <1> QED
    BY <1>2, <1>4

LEMMA AdvanceIs ==
  ASSUME TypeInv, NEW e \in Executions, Advance(e)
  PROVE  /\ exec' \in [Executions -> Execution] /\ \A f \in Executions : ExecOK(exec'[f])
         /\ \A f \in Executions \ {e} : exec'[f] = exec[f]
         /\ \/ exec[e].at = Len(Stages[exec[e].kind]) /\ exec'[e].pc = "returned"
            \/ /\ exec'[e].pc = "submit" /\ exec'[e].at = exec[e].at + 1 /\ exec'[e].attempt = 0
               /\ exec'[e].kind = exec[e].kind /\ exec'[e].flag = exec[e].flag
  <1>1. exec \in [Executions -> Execution] /\ ExecOK(exec[e])
    BY DEF TypeInv
  <1>2. CASE exec[e].at = Len(Stages[exec[e].kind])
    <2>1. To(e, "returned")
      BY <1>2 DEF Advance
    <2> QED
      BY <1>2, <2>1, ToIsOK DEF Ended
  <1>3. CASE exec[e].at # Len(Stages[exec[e].kind])
    <2> DEFINE at == exec[e].at + 1
               x == [exec[e] EXCEPT !.at = at, !.attempt = 0, !.pc = "submit"]
    <2>1. exec' = [exec EXCEPT ![e] = x]
      BY <1>3, <1>1 DEF Advance
    <2>a. at \in Nat /\ 0 \in 0 .. MaxAttempts
      BY <1>1, ConstantsAssumption DEF ExecOK, Execution
    <2> HIDE DEF at
    <2>b. /\ x \in Execution /\ x.at = at /\ x.attempt = 0 /\ x.pc = "submit"
          /\ x.kind = exec[e].kind /\ x.flag = exec[e].flag
      BY <1>1, <2>a DEF ExecOK, Execution
    <2>2. /\ x \in Execution /\ x.at = exec[e].at + 1 /\ x.attempt = 0 /\ x.pc = "submit"
          /\ x.kind = exec[e].kind /\ x.flag = exec[e].flag
      BY <2>b DEF at
    <2>3. x.at \in DOMAIN Stages[x.kind]
      BY <1>1, <1>3, <2>2, StagesFollow DEF ExecOK, Execution
    <2> HIDE DEF x
    <2>4. ExecOK(x)
      BY <2>2, <2>3 DEF ExecOK
    <2> QED
      BY <1>1, <2>1, <2>2, <2>4 DEF TypeInv
  <1> QED
    BY <1>2, <1>3

\* What a step of the run e changes: e, and the unit it submits or polls.
LEMMA RunChanges ==
  ASSUME TypeInv, NEW e \in Executions, RunMoves(e), NEW u, u = UnitOf(e, exec[e])
  PROVE  /\ world' = world /\ data' = data /\ version' = version /\ bq' = bq
         /\ exec' \in [Executions -> Execution] /\ \A f \in Executions : ExecOK(exec'[f])
         /\ \A f \in Executions \ {e} : exec'[f] = exec[f]
         /\ OnlyOf(u) /\ DOMAIN units \ {u} \subseteq DOMAIN units'
         /\ u \in DOMAIN units' => UnitOK(u, units'[u], version')
         /\ trouble' \in 0 .. MaxTrouble
  <1>x. exec \in [Executions -> Execution] /\ \A f \in Executions : ExecOK(exec[f])
    BY DEF TypeInv
  <1>t. trouble \in 0 .. MaxTrouble /\ (Trouble => trouble' \in 0 .. MaxTrouble)
    BY ConstantsAssumption DEF TypeInv, Trouble
  <1>u. units' = units =>
          /\ OnlyOf(u) /\ DOMAIN units \ {u} \subseteq DOMAIN units'
          /\ u \in DOMAIN units' => UnitOK(u, units'[u], version)
    BY DEF OnlyOf, TypeInv
  <1>c. Created(e) => /\ OnlyOf(u) /\ DOMAIN units \ {u} \subseteq DOMAIN units'
                      /\ u \in DOMAIN units' => UnitOK(u, units'[u], version)
    <2> SUFFICES ASSUME Created(e)
                 PROVE  /\ OnlyOf(u) /\ DOMAIN units \ {u} \subseteq DOMAIN units'
                        /\ UnitOK(u, units'[u], version)
      OBVIOUS
    <2>1. u \in Ids
      BY <1>x, UnitOfIsId
    <2>2. /\ OnlyOf(u) /\ DOMAIN units' = DOMAIN units \cup {u} /\ units'[u] \in Unit
          /\ units'[u].at = 1 /\ units'[u].listed = 0
          /\ units'[u].created = 0 /\ units'[u].skipped = 0
      BY CreatedIs
    <2> QED
      BY <2>1, <2>2 DEF UnitOK
  <1>1. ASSUME NEW kind \in DOMAIN Stages, NEW flag \in BOOLEAN, Start(e, kind, flag)
        PROVE  exec' \in [Executions -> Execution] /\ ExecOK(exec'[e])
    <2> DEFINE x == [Idle EXCEPT !.kind = kind, !.flag = flag, !.pc = "submit"]
    <2>1. x \in Execution /\ x.at = 1 /\ x.kind = kind /\ x.pc = "submit"
      BY IdleIs DEF Execution
    <2>2. ExecOK(x)
      <3> HIDE DEF x
      <3> QED BY <2>1, StagesFollow DEF ExecOK
    <2>3. exec' = [exec EXCEPT ![e] = x]
      BY <1>1 DEF Start
    <2> HIDE DEF x
    <2> QED BY <1>x, <2>1, <2>2, <2>3
  <1>2. ASSUME NEW kind \in DOMAIN Stages, NEW flag \in BOOLEAN, Start(e, kind, flag)
        PROVE  /\ UNCHANGED <<world, units, data, version, bq, trouble>>
               /\ \A f \in Executions \ {e} : exec'[f] = exec[f]
    BY <1>2 DEF Start
  <1>3. CASE \E kind \in DOMAIN Stages, flag \in BOOLEAN : Start(e, kind, flag)
    BY <1>x, <1>t, <1>u, <1>1, <1>2, <1>3
  <1>4. CASE SkipOutput(e)
    BY <1>4, <1>t, <1>u, AdvanceIs DEF SkipOutput
  <1>5. CASE Submit(e)
    BY <1>5, <1>t, <1>c, ToIsOK DEF Submit
  <1>6. CASE SubmitFails(e)
    BY <1>6, <1>t, <1>c, <1>u, ToIsOK DEF SubmitFails, Ended
  <1>7. CASE PollFails(e)
    BY <1>7, <1>t, <1>u, ToIsOK DEF PollFails, Ended
  <1>8. CASE NextAttempt(e)
    <2> DEFINE attempt == exec[e].attempt + 1
               x == [exec[e] EXCEPT !.attempt = attempt, !.pc = "submit"]
    <2>1. exec' = [exec EXCEPT ![e] = x] /\ exec[e].pc = "wait"
      BY <1>8 DEF NextAttempt
    <2>a. attempt \in 0 .. MaxAttempts
      BY <1>x, <2>1, ConstantsAssumption DEF ExecOK, Execution
    <2> HIDE DEF attempt
    <2>2. x \in Execution /\ x.at = exec[e].at /\ x.kind = exec[e].kind /\ x.pc = "submit"
      BY <1>x, <2>a DEF ExecOK, Execution
    <2> HIDE DEF x
    <2>3. ExecOK(x)
      BY <1>x, <2>2 DEF ExecOK
    <2> QED
      BY <1>x, <1>t, <1>u, <1>8, <2>1, <2>2, <2>3 DEF NextAttempt
  <1>9. CASE Poll(e)
    <2>1. /\ exec' \in [Executions -> Execution] /\ \A f \in Executions : ExecOK(exec'[f])
          /\ \A f \in Executions \ {e} : exec'[f] = exec[f]
      <3>1. CASE Advance(e)
        BY <3>1, AdvanceIs
      <3>2. CASE To(e, IF Retries(e, units[u]) THEN "wait"
                       ELSE IF exec[e].kind = "batch_fetch" THEN "returned" ELSE "raised")
        <4>1. CASE Retries(e, units[u])
          BY <3>2, <4>1, ToIsOK DEF Retries
        <4>2. CASE ~Retries(e, units[u]) /\ exec[e].kind = "batch_fetch"
          BY <3>2, <4>2, ToIsOK DEF Ended
        <4>3. CASE ~Retries(e, units[u]) /\ exec[e].kind # "batch_fetch"
          BY <3>2, <4>3, ToIsOK DEF Ended
        <4> QED BY <4>1, <4>2, <4>3
      <3> QED BY <1>9, <3>1, <3>2 DEF Poll
    <2>2. Forget(u) /\ UNCHANGED <<world, data, version, bq, trouble>>
      BY <1>9 DEF Poll
    <2>3. /\ OnlyOf(u) /\ DOMAIN units \ {u} \subseteq DOMAIN units'
          /\ u \in DOMAIN units' => UnitOK(u, units'[u], version)
      BY <2>2, <1>u DEF Forget, Restrict, OnlyOf
    <2> QED
      BY <1>t, <2>1, <2>2, <2>3
  <1> QED
    BY <1>3, <1>4, <1>5, <1>6, <1>7, <1>8, <1>9 DEF RunMoves

LEMMA CommitIs ==
  ASSUME TypeInv, NEW u, NEW n \in Nat, Commit(u, n)
  PROVE  Grows /\ \A t \in Tables : Writer[t] # u.stage => version'[t] = version[t]
  <1>1. version \in [Tables -> 0 .. MaxVersion] /\ MaxVersion \in Nat
    BY DEF TypeInv, MaxVersion
  <1>2. ASSUME NEW t \in Tables
        PROVE  /\ version'[t] \in 0 .. MaxVersion /\ version[t] <= version'[t]
               /\ Writer[t] # u.stage => version'[t] = version[t]
    <2>1. CASE Writer[t] = u.stage
      BY <1>1, <2>1 DEF Commit
    <2>2. CASE Writer[t] # u.stage
      BY <1>1, <2>2 DEF Commit
    <2> QED
      BY <2>1, <2>2
  <1> QED
    BY <1>2 DEF Commit, Grows

LEMMA StoreIs ==
  ASSUME TypeInv, NEW u \in Ids, u.stage # "refresh", NEW of \in SUBSET Int,
         u.stage = "fetch" => of \subseteq Nat,
         NEW by \in {"none", "day", "range"}, Store(u, of, by)
  PROVE  /\ data' \in Outputs /\ data'["fetch"].of \subseteq Nat
         /\ \A s \in ToSet(Builds) : s # u.stage => data'[s] = data[s]
         /\ data'[u.stage].of = of /\ data'[u.stage].by = by
  <1>1. u.stage \in ToSet(Builds) /\ "fetch" \in ToSet(Builds)
    BY NamesAre DEF Ids
  <1>2. data \in Outputs /\ data["fetch"].of \subseteq Nat
    BY DEF TypeInv
  <1>3. /\ data' \in Outputs /\ data'[u.stage] = [of |-> of, by |-> by]
        /\ \A s \in ToSet(Builds) : s # u.stage => data'[s] = data[s]
    BY <1>1, <1>2 DEF Store, Outputs
  <1>4. data'[u.stage].of = of /\ data'[u.stage].by = by
    BY <1>3
  <1>5. data'["fetch"].of \subseteq Nat
    <2>1. CASE u.stage = "fetch"
      BY <1>4, <2>1
    <2>2. CASE u.stage # "fetch"
      BY <1>1, <1>2, <1>3, <2>2
    <2> QED
      BY <2>1, <2>2
  <1> QED
    BY <1>3, <1>4, <1>5

\* Whatever a build reads, keeps and makes is versions and marks.
LEMMA PartsAre ==
  ASSUME TypeInv, NEW u \in DOMAIN units, u.stage # "refresh"
  PROVE  /\ Read(u) \subseteq Int /\ Old(u) \subseteq Int
         /\ Part(u) \subseteq Int /\ Built(u) \subseteq Int
  <1>1. units[u].input \subseteq Int /\ u.stage \in ToSet(Builds)
    BY NamesAre DEF TypeInv, UnitOK, Unit, Ids
  <1>2. \A s \in ToSet(Builds) : data[s].of \subseteq Int
    BY DEF TypeInv, Outputs
  <1>3. Input(u) \subseteq Int
    BY <1>2, NamesAre DEF Input, None
  <1>4. Read(u) \subseteq Int /\ Old(u) \subseteq Int
    BY <1>1, <1>2, <1>3 DEF Read, Old, Torn
  <1> QED
    BY <1>4 DEF Part, Built, Torn

LEMMA MadeIs ==
  ASSUME TypeInv, NEW u \in DOMAIN units, u.stage # "refresh", NEW of \in Made(u)
  PROVE  of \in SUBSET Int /\ (u.stage = "fetch" => of \subseteq Nat)
  <1>1. CASE u.stage = "fetch"
    <2>1. of = {n + 1 : n \in data["fetch"].of} /\ data["fetch"].of \subseteq Nat
      BY <1>1 DEF Made, TypeInv
    <2> QED
      BY <2>1
  <1>2. CASE u.stage # "fetch"
    BY <1>2, PartsAre DEF Made
  <1> QED
    BY <1>1, <1>2

\* A build writes its own output and its own tables.
OnlyOfStage(u) ==
  /\ data' \in Outputs /\ data'["fetch"].of \subseteq Nat /\ Grows
  /\ \A s \in ToSet(Builds) : s # u.stage => data'[s] = data[s]
  /\ u.stage = "refresh" => version' = version

LEMMA NothingBuilt ==
  ASSUME TypeInv, NEW u, UNCHANGED <<data, version>>
  PROVE  OnlyOfStage(u)
  <1>1. \A t \in Tables : version[t] \in Int /\ version[t] <= version[t]
    BY DEF TypeInv, MaxVersion
  <1> QED
    BY <1>1 DEF OnlyOfStage, Grows, TypeInv

LEMMA BuildIs ==
  ASSUME TypeInv, NEW u \in DOMAIN units, u.stage # "refresh", NEW of \in SUBSET Int,
         u.stage = "fetch" => of \subseteq Nat, NEW by, by \in {data[u.stage].by, units[u].script},
         NEW n \in Nat, Store(u, of, by), Commit(u, n)
  PROVE  OnlyOfStage(u) /\ data'[u.stage].of = of
  <1>1. u \in Ids /\ by \in {"none", "day", "range"}
    BY NamesAre DEF TypeInv, UnitOK, Unit, Ids, Outputs
  <1> QED
    BY <1>1, StoreIs, CommitIs DEF OnlyOfStage

LEMMA RemainsIs ==
  ASSUME TypeInv, NEW u \in DOMAIN units, Remains(u)
  PROVE  OnlyOfStage(u)
  <1>1. CASE UNCHANGED <<data, version>>
    BY <1>1, NothingBuilt
  <1>2. CASE /\ u.stage # "refresh" /\ units[u].state # "PENDING"
             /\ \E of \in Made(u) \cup (IF u.stage = "fetch" THEN {} ELSE {Part(u)}) :
                  Store(u, of, data[u.stage].by)
             /\ \E n \in 1 .. Commits : Commit(u, n)
    <2>1. PICK of \in Made(u) \cup (IF u.stage = "fetch" THEN {} ELSE {Part(u)}) :
            Store(u, of, data[u.stage].by)
      BY <1>2
    <2>2. of \in SUBSET Int /\ (u.stage = "fetch" => of \subseteq Nat)
      BY <1>2, <2>1, MadeIs, PartsAre
    <2>3. PICK n \in Nat : Commit(u, n)
      BY <1>2, ConstantsAssumption
    <2> QED
      BY <1>2, <2>1, <2>2, <2>3, BuildIs
  <1> QED
    BY <1>1, <1>2 DEF Remains

LEMMA FinishIs ==
  ASSUME TypeInv, NEW u \in DOMAIN units, Finish(u)
  PROVE  OnlyOfStage(u) /\ u.stage # "refresh" /\ data'[u.stage].of \in Made(u)
  <1>1. PICK of \in Made(u) :
          \/ Store(u, of, units[u].script) /\ Commit(u, Commits)
          \/ Store(u, of, data[u.stage].by) /\ Commit(u, 0)
    BY DEF Finish
  <1>2. u.stage # "refresh" /\ Commits \in Nat /\ 0 \in Nat
    BY ConstantsAssumption DEF Finish
  <1>3. of \in SUBSET Int /\ (u.stage = "fetch" => of \subseteq Nat)
    BY <1>2, MadeIs
  <1> QED
    BY <1>1, <1>2, <1>3, BuildIs

LEMMA FinishAfterErrorIs ==
  ASSUME TypeInv, NEW u \in DOMAIN units, FinishAfterError(u)
  PROVE  OnlyOfStage(u) /\ u.stage \in {"silver", "deltas"} /\ Lost \in data'[u.stage].of
  <1>1. u.stage \in {"silver", "deltas"} /\ u.stage # "refresh" /\ u.stage # "fetch"
    BY DEF FinishAfterError
  <1>2. Commits \in Nat /\ 0 \in Nat /\ u.stage \in ToSet(Builds)
    BY <1>1, NamesAre, ConstantsAssumption
  <1> DEFINE part == Part(u) \cup {Lost}
             same == data[u.stage].of \cup {Lost}
  <1>3. part \in SUBSET Int /\ same \in SUBSET Int
    BY <1>1, <1>2, PartsAre DEF TypeInv, Outputs, Lost
  <1>4. \/ Store(u, part, units[u].script) /\ Commit(u, Commits)
        \/ Store(u, same, data[u.stage].by) /\ Commit(u, 0)
    BY DEF FinishAfterError
  <1>5. Lost \in part /\ Lost \in same
    OBVIOUS
  <1> HIDE DEF part, same
  <1> QED
    BY <1>1, <1>2, <1>3, <1>4, <1>5, BuildIs

LEMMA SetIs ==
  ASSUME NEW u \in DOMAIN units, NEW unit, Set(u, unit)
  PROVE  OnlyOf(u) /\ DOMAIN units' = DOMAIN units /\ units'[u] = unit
  BY DEF Set, OnlyOf

\* What a step of the unit u changes.
LEMMA UnitChanges ==
  ASSUME TypeInv, NEW u \in Live, UnitMoves(u)
  PROVE  /\ world' = world /\ exec' = exec /\ u \in DOMAIN units
         /\ OnlyOf(u) /\ DOMAIN units' \subseteq DOMAIN units
         /\ DOMAIN units \ {u} \subseteq DOMAIN units'
         /\ IsAwaited(u) => u \in DOMAIN units'
         /\ u \in DOMAIN units' => UnitOK(u, units'[u], version')
         /\ OnlyOfStage(u)
         /\ bq' \in [Tables -> 0 .. MaxVersion] /\ \A t \in Tables : bq'[t] <= version'[t]
         /\ trouble' \in 0 .. MaxTrouble
  <1>u. u \in DOMAIN units /\ UnitOK(u, units[u], version)
    BY DEF Live, TypeInv
  <1>t. trouble \in 0 .. MaxTrouble /\ (Trouble => trouble' \in 0 .. MaxTrouble)
    BY ConstantsAssumption DEF TypeInv, Trouble
  <1>b. ASSUME bq' = bq, Grows
        PROVE  bq' \in [Tables -> 0 .. MaxVersion] /\ \A t \in Tables : bq'[t] <= version'[t]
    BY <1>b DEF TypeInv, Grows, MaxVersion
  <1>s. ASSUME NEW unit, Set(u, unit), UnitOK(u, unit, version), UNCHANGED <<data, version>>
        PROVE  /\ OnlyOf(u) /\ DOMAIN units' = DOMAIN units
               /\ UnitOK(u, units'[u], version') /\ OnlyOfStage(u) /\ Grows
    BY <1>u, <1>s, SetIs, NothingBuilt DEF OnlyOfStage
  <1>e. ASSUME NEW state \in {"SUCCEEDED", "FAILED", "CANCELLED"}, NEW quota \in BOOLEAN,
               Ends(u, state, quota), Grows
        PROVE  /\ OnlyOf(u) /\ DOMAIN units' \subseteq DOMAIN units
               /\ DOMAIN units \ {u} \subseteq DOMAIN units'
               /\ IsAwaited(u) => u \in DOMAIN units'
               /\ u \in DOMAIN units' => UnitOK(u, units'[u], version')
    BY <1>u, <1>e, EndsChanges, EndedIsOK
  <1>n. OnlyOfStage(u) => Grows
    BY DEF OnlyOfStage
  <1>1. CASE SkipStage(u)
    BY <1>1, <1>u, <1>t, <1>b, <1>e, <1>n, NothingBuilt DEF SkipStage
  <1>2. CASE Begin(u)
    <2> DEFINE input == Input(u)
               unit == [units[u] EXCEPT !.state = "RUNNING", !.input = input]
    <2>1. input \in SUBSET Int
      BY NamesAre DEF TypeInv, Outputs, Input, None
    <2>2. Set(u, unit)
      BY <1>2, <1>u DEF Begin, Set
    <2> HIDE DEF input
    <2>3. /\ unit \in Unit /\ unit.listed = units[u].listed /\ unit.at = units[u].at
          /\ unit.created = units[u].created /\ unit.skipped = units[u].skipped
      BY <1>u, <2>1 DEF UnitOK, Unit, Living
    <2>4. units[u].listed = 0
      BY <1>2, <1>u DEF Begin, UnitOK
    <2> HIDE DEF unit
    <2>5. UnitOK(u, unit, version)
      BY <1>u, <2>3, <2>4 DEF UnitOK
    <2> QED
      BY <1>2, <1>u, <1>t, <1>b, <1>s, <2>2, <2>5 DEF Begin
  <1>3. CASE Finish(u)
    BY <1>3, <1>u, <1>t, <1>b, <1>e, <1>n, FinishIs DEF Finish
  <1>14. CASE FinishAfterError(u)
    BY <1>14, <1>u, <1>t, <1>b, <1>e, <1>n, FinishAfterErrorIs DEF FinishAfterError
  <1>4. CASE Cancelled(u)
    <2>1. units[u].quota \in BOOLEAN
      BY <1>u DEF UnitOK, Unit
    <2> QED
      BY <1>4, <2>1, <1>u, <1>t, <1>b, <1>e, <1>n, RemainsIs DEF Cancelled
  <1>5. CASE QuotaExceeded(u)
    BY <1>5, <1>u, <1>t, <1>b, <1>e, <1>n, NothingBuilt DEF QuotaExceeded
  <1>6. ASSUME NEW quota \in BOOLEAN, Fail(u, quota)
        PROVE  Remains(u) /\ Ends(u, "FAILED", quota) /\ Trouble /\ UNCHANGED <<world, exec, bq>>
    BY <1>6 DEF Fail
  <1>7. CASE \E quota \in BOOLEAN : Fail(u, quota)
    BY <1>6, <1>7, <1>u, <1>t, <1>b, <1>e, <1>n, RemainsIs
  <1>8. ASSUME NEW quota \in BOOLEAN, Cancel(u, quota)
        PROVE  \E unit : /\ Set(u, unit) /\ UnitOK(u, unit, version)
                         /\ Trouble /\ UNCHANGED <<world, exec, data, version, bq>>
    <2> DEFINE unit == [units[u] EXCEPT !.state = "CANCELLING", !.quota = quota]
    <2>1. Set(u, unit)
      BY <1>8, <1>u DEF Cancel, Set
    <2>2. /\ unit \in Unit /\ unit.listed = units[u].listed /\ unit.at = units[u].at
          /\ unit.created = units[u].created /\ unit.skipped = units[u].skipped
          /\ unit.state = "CANCELLING"
      BY <1>u DEF UnitOK, Unit, Living
    <2> HIDE DEF unit
    <2>3. UnitOK(u, unit, version)
      BY <1>u, <2>2 DEF UnitOK
    <2> QED
      BY <1>8, <2>1, <2>3 DEF Cancel
  <1>9. CASE \E quota \in BOOLEAN : Cancel(u, quota)
    <2>1. PICK unit : /\ Set(u, unit) /\ UnitOK(u, unit, version)
                      /\ Trouble /\ UNCHANGED <<world, exec, data, version, bq>>
      BY <1>8, <1>9
    <2> QED
      BY <2>1, <1>u, <1>t, <1>b, <1>s
  <1>10. CASE ListTable(u)
    <2> DEFINE at == units[u].at + 1
               latest == LatestMetadata(Namespaces[units[u].at])
               next == [units[u] EXCEPT !.at = at]
               listed == [units[u] EXCEPT !.listed = latest]
    <2>1. Set(u, IF latest = 0 THEN next ELSE listed) /\ units[u].at <= 3
      BY <1>10, <1>u, TablesAre DEF ListTable, UnitOK, Unit, Left
    <2>2. units[u].at \in 1 .. 3 /\ at \in Nat /\ units[u].listed = 0
      BY <1>10, <1>u, <2>1 DEF ListTable, UnitOK, Unit
    <2>3. latest \in Nat /\ latest <= version[Namespaces[units[u].at]]
      BY <2>2, TablesAre, LatestIsThere DEF TypeInv, MaxVersion
    <2>4. at > units[u].at
      BY <2>2
    <2> HIDE DEF at, latest
    <2>5. /\ next \in Unit /\ next.listed = 0 /\ next.at = at
          /\ next.created = units[u].created /\ next.skipped = units[u].skipped
      BY <1>u, <2>2 DEF UnitOK, Unit
    <2>6. /\ listed \in Unit /\ listed.listed = latest /\ listed.at = units[u].at
          /\ listed.created = units[u].created /\ listed.skipped = units[u].skipped
          /\ listed.state = units[u].state
      BY <1>u, <2>3 DEF UnitOK, Unit
    <2> HIDE DEF next, listed
    <2>7. UnitOK(u, next, version)
      BY <1>u, <2>2, <2>4, <2>5 DEF UnitOK, Unit
    <2>8. UnitOK(u, listed, version)
      BY <1>10, <1>u, <2>2, <2>3, <2>6, TablesAre DEF UnitOK, Unit, ListTable, Refreshes
    <2> QED
      BY <1>10, <1>u, <1>t, <1>b, <1>s, <2>1, <2>7, <2>8 DEF ListTable
  <1>11. CASE CreateTable(u)
    <2> DEFINE at == units[u].at + 1
               created == units[u].created + 1
               unit == [units[u] EXCEPT !.at = at, !.listed = 0, !.created = created]
               t == Namespaces[units[u].at]
    <2>1. Set(u, unit) /\ bq' = [bq EXCEPT ![t] = units[u].listed]
      BY <1>11, <1>u DEF CreateTable, UnitOK, Unit
    <2>2. /\ at \in Nat /\ created \in Nat /\ created + units[u].skipped < at
          /\ t \in Tables /\ units[u].listed \in 0 .. version[t]
      BY <1>11, <1>u, TablesAre DEF CreateTable, UnitOK, Unit
    <2>3. bq' \in [Tables -> 0 .. MaxVersion] /\ \A i \in Tables : bq'[i] <= version[i]
      <3> DEFINE l == units[u].listed
      <3> HIDE DEF t, l
      <3>1. version[t] \in 0 .. 99 /\ l \in 0 .. 99 /\ l <= version[t] /\ t \in Tables
        <4>1. version[t] \in 0 .. 99 /\ t \in Tables
          BY <2>2 DEF TypeInv, MaxVersion
        <4>2. l \in 0 .. version[t]
          BY <2>2 DEF l
        <4> QED BY <4>1, <4>2
      <3>2. bq \in [Tables -> 0 .. 99] /\ \A i \in Tables : bq[i] <= version[i]
        BY DEF TypeInv, MaxVersion
      <3>3. bq' = [bq EXCEPT ![t] = l]
        BY <2>1 DEF l
      <3> QED
        BY <3>1, <3>2, <3>3 DEF MaxVersion
    <2> HIDE DEF at, created, t
    <2>4. /\ unit \in Unit /\ unit.listed = 0 /\ unit.at = at
          /\ unit.created = created /\ unit.skipped = units[u].skipped
      BY <1>u, <2>2 DEF UnitOK, Unit
    <2> HIDE DEF unit
    <2>5. UnitOK(u, unit, version)
      BY <1>u, <2>2, <2>4 DEF UnitOK
    <2>6. UNCHANGED <<world, exec, data, version, trouble>>
      BY <1>11 DEF CreateTable
    <2> QED
      BY <1>u, <1>t, <1>s, <2>1, <2>3, <2>5, <2>6
  <1>12. CASE CreateFails(u)
    <2> DEFINE at == units[u].at + 1
               skipped == units[u].skipped + 1
               unit == [units[u] EXCEPT !.at = at, !.listed = 0, !.skipped = skipped]
    <2>1. Set(u, unit)
      BY <1>12, <1>u DEF CreateFails, UnitOK, Unit
    <2>2. at \in Nat /\ skipped \in Nat /\ units[u].created + skipped < at
      BY <1>u DEF UnitOK, Unit
    <2> HIDE DEF at, skipped
    <2>3. /\ unit \in Unit /\ unit.listed = 0 /\ unit.at = at
          /\ unit.created = units[u].created /\ unit.skipped = skipped
      BY <1>u, <2>2 DEF UnitOK, Unit
    <2> HIDE DEF unit
    <2>4. UnitOK(u, unit, version)
      BY <1>u, <2>2, <2>3 DEF UnitOK
    <2> QED
      BY <1>12, <1>u, <1>t, <1>b, <1>s, <2>1, <2>4 DEF CreateFails
  <1>13. CASE ExitRefresh(u)
    <2>1. PICK state \in {"SUCCEEDED", "FAILED"} : Ends(u, state, FALSE)
      BY <1>13 DEF ExitRefresh
    <2> QED
      BY <1>13, <2>1, <1>u, <1>t, <1>b, <1>e, <1>n, NothingBuilt DEF ExitRefresh
  <1> QED
    BY <1>1, <1>2, <1>3, <1>4, <1>5, <1>7, <1>9, <1>10, <1>11, <1>12, <1>13, <1>14 DEF UnitMoves

\* The type invariant is inductive.
LEMMA TypeNext ==
  ASSUME TypeInv, [Next]_vars
  PROVE  TypeInv'
  <1>1. CASE UNCHANGED vars
    BY <1>1 DEF vars, TypeInv
  <1>2. CASE Next
    <2>1. alone' \in [Executions -> BOOLEAN]
      <3> DEFINE a(e) == CASE exec'[e].pc = "idle" -> TRUE
                           [] exec'[e].pc \in Ended -> FALSE
                           [] OTHER -> alone[e] /\ Live' \subseteq {UnitOf(e, exec'[e])}
      <3>1. alone' = [e \in Executions |-> a(e)]
        BY <1>2, NextIs DEF Witness
      <3>2. \A e \in Executions : a(e) \in BOOLEAN
        BY DEF Ended
      <3> HIDE DEF a
      <3> QED BY <3>1, <3>2
    <2>2. ASSUME NEW e \in Executions, RunMoves(e) PROVE TypeInv'
      <3> DEFINE u == UnitOf(e, exec[e])
      <3>1. Grows /\ version' = version
        BY <2>2, RunChanges, NothingBuilt DEF OnlyOfStage
      <3>2. \A v \in DOMAIN units' : UnitOK(v, units'[v], version')
        <4> HIDE DEF u
        <4> QED BY <2>2, <3>1, RunChanges, OneUnitChanges DEF u
      <3> QED
        BY <2>1, <2>2, <3>1, <3>2, RunChanges DEF TypeInv
    <2>3. ASSUME NEW u \in Live, UnitMoves(u) PROVE TypeInv'
      <3>1. Grows /\ data' \in Outputs /\ data'["fetch"].of \subseteq Nat
        BY <2>3, UnitChanges DEF OnlyOfStage
      <3>2. \A v \in DOMAIN units' : UnitOK(v, units'[v], version')
        BY <2>3, <3>1, UnitChanges, OneUnitChanges
      <3> QED
        BY <2>1, <2>3, <3>1, <3>2, UnitChanges DEF TypeInv, Grows
    <2> QED
      BY <1>2, <2>2, <2>3, NextIs
  <1> QED
    BY <1>1, <1>2

\* The runs, the units and the outputs are well typed: no run waits for an attempt
\* beyond the last (workflows' max_attempts), and BigQuery never reads a version that
\* its table does not have (setup_bq_external_tables.py).
THEOREM TypesAreCorrect == Spec => []TypeOK
  <1>1. Init => TypeInv
    BY TypeInit
  <1>2. TypeInv /\ [Next]_vars => TypeInv'
    BY TypeNext
  <1>3. TypeInv => TypeOK
    BY TypeInvIsTypeOK
  <1> QED
    BY <1>1, <1>2, <1>3, PTL DEF Spec

(***************************************************************************)
(* Where units are.                                                        *)
(***************************************************************************)
Active(x) == x.pc \in {"submit", "poll", "wait"}
Awaited(u, x) == x.pc = "poll" /\ UnitOf(u.exec, x) = u

\* u is of a stage, or of an attempt, that its run x has seen the end of.
Past(u, x) ==
  /\ Active(x)
  /\ \E k \in 1 .. x.at :
       /\ u.stage = Stages[x.kind][k]
       /\ k = x.at => u.attempt < x.attempt \/ (x.pc = "wait" /\ u.attempt = x.attempt)

\* A unit is awaited by its run x, left by a run that raised, or is being cancelled
\* when its run has gone on.
Placed(u, unit, x) ==
  \/ Awaited(u, x)
  \/ x.pc = "raised"
  \/ unit.state = "CANCELLING" /\ (x.pc = "returned" \/ Past(u, x))

\* A unit that is awaited has the arguments for what its run does now.
Fits(u, unit, x) ==
  Awaited(u, x) /\ unit.state \in {"PENDING", "RUNNING"} =>
    unit.again = RunsAgain(x) /\ unit.script = Script(x)

PlaceInv ==
  /\ \A e \in Executions : exec[e].pc = "poll" => UnitOf(e, exec[e]) \in DOMAIN units
  /\ \A u \in DOMAIN units : Placed(u, units[u], exec[u.exec]) /\ Fits(u, units[u], exec[u.exec])

LEMMA PlaceInit == Init => PlaceInv
  <1> SUFFICES ASSUME Init PROVE PlaceInv
    OBVIOUS
  <1>1. DOMAIN units = {} /\ \A e \in Executions : exec[e].pc = "idle"
    BY IdleIs DEF Init
  <1> QED
    BY <1>1 DEF PlaceInv

LEMMA PastStays ==
  ASSUME NEW u, NEW x, NEW y, ExecOK(x), ExecOK(y), Past(u, x), u \in Ids,
         y.kind = x.kind, Active(y),
         \/ y.at = x.at + 1
         \/ y.at = x.at /\ y.attempt = x.attempt /\ x.pc # "wait"
         \/ y.at = x.at /\ y.attempt = x.attempt + 1
  PROVE  Past(u, y)
  <1>1. PICK k \in 1 .. x.at :
          /\ u.stage = Stages[x.kind][k]
          /\ k = x.at => u.attempt < x.attempt \/ (x.pc = "wait" /\ u.attempt = x.attempt)
    BY DEF Past
  <1>2. /\ x.at \in Nat /\ y.at \in Nat /\ k \in 1 .. y.at
        /\ x.attempt \in Int /\ y.attempt \in Int /\ u.attempt \in Int
    BY ConstantsAssumption DEF ExecOK, Execution, Ids
  <1>3. k = y.at => u.attempt < y.attempt
    BY <1>1, <1>2
  <1> QED
    BY <1>1, <1>2, <1>3 DEF Past

\* What its run is about to submit is not there yet.
LEMMA NotThereYet ==
  ASSUME TypeInv, PlaceInv, NEW u \in DOMAIN units,
         exec[u.exec].pc \in {"idle", "submit"}
  PROVE  exec[u.exec].pc = "submit" /\ u # UnitOf(u.exec, exec[u.exec])
  <1> DEFINE x == exec[u.exec]
  <1>1. Past(u, x)
    BY DEF PlaceInv, Placed, Awaited
  <1>2. x.pc = "submit" /\ u \in Ids /\ ExecOK(x)
    BY <1>1 DEF Past, Active, TypeInv, UnitOK, Ids
  <1>3. ASSUME u = UnitOf(u.exec, x) PROVE FALSE
    <2>1. u.stage = Stages[x.kind][x.at] /\ u.attempt = x.attempt
      BY <1>3 DEF UnitOf, Stage
    <2>2. PICK k \in 1 .. x.at : u.stage = Stages[x.kind][k] /\ (k = x.at => u.attempt < x.attempt)
      BY <1>1, <1>2 DEF Past
    <2>k. x.kind \in DOMAIN Stages /\ x.at \in DOMAIN Stages[x.kind]
      BY <1>2 DEF ExecOK, Execution
    <2>3. k = x.at
      <3>1. k \in DOMAIN Stages[x.kind]
        BY <2>k, StagesFollow
      <3> QED
        BY <2>k, <2>1, <2>2, <3>1, StagesOnce
    <2>4. x.attempt \in Int
      BY <1>2 DEF ExecOK, Execution
    <2> QED
      BY <2>1, <2>2, <2>3, <2>4
  <1> QED
    BY <1>2, <1>3

\* How a run goes on that has begun.
GoesOn(x, y) ==
  \/ y.pc \in Ended
  \/ /\ Active(y) /\ y.kind = x.kind /\ y.flag = x.flag
     /\ \/ y.pc = "submit" /\ y.at = x.at + 1
        \/ y.at = x.at /\ y.attempt = x.attempt /\ x.pc # "wait"
        \/ y.pc = "submit" /\ y.at = x.at /\ y.attempt = x.attempt + 1

LEMMA RunGoesOn ==
  ASSUME TypeInv, NEW e \in Executions, RunMoves(e), exec[e].pc # "idle"
  PROVE  Active(exec[e]) /\ GoesOn(exec[e], exec'[e])
  <1>x. exec \in [Executions -> Execution] /\ ExecOK(exec[e])
    BY DEF TypeInv
  <1>1. CASE SkipOutput(e)
    BY <1>1, AdvanceIs DEF SkipOutput, GoesOn, Active, Ended
  <1>2. CASE Submit(e)
    BY <1>2, ToIsOK DEF Submit, GoesOn, Active, Ended
  <1>3. CASE SubmitFails(e)
    BY <1>3, ToIsOK DEF SubmitFails, GoesOn, Active, Ended
  <1>4. CASE PollFails(e)
    BY <1>4, ToIsOK DEF PollFails, GoesOn, Active, Ended
  <1>5. CASE NextAttempt(e)
    <2> DEFINE y == [exec[e] EXCEPT !.attempt = @ + 1, !.pc = "submit"]
    <2>1. /\ y.pc = "submit" /\ y.at = exec[e].at /\ y.attempt = exec[e].attempt + 1
          /\ y.kind = exec[e].kind /\ y.flag = exec[e].flag
      BY <1>x DEF ExecOK, Execution
    <2>2. exec'[e] = y /\ exec[e].pc = "wait"
      BY <1>x, <1>5 DEF NextAttempt
    <2> HIDE DEF y
    <2> QED
      BY <2>1, <2>2 DEF GoesOn, Active
  <1>6. CASE Poll(e)
    <2>1. exec[e].pc = "poll"
      BY <1>6 DEF Poll
    <2>2. CASE Advance(e)
      BY <2>1, <2>2, AdvanceIs DEF GoesOn, Active, Ended
    <2>3. CASE /\ To(e, "wait") /\ Retries(e, units[UnitOf(e, exec[e])])
      BY <2>1, <2>3, ToIsOK DEF GoesOn, Active, Ended, Retries
    <2>4. CASE To(e, "returned") \/ To(e, "raised")
      BY <2>1, <2>4, ToIsOK DEF GoesOn, Active, Ended
    <2> QED
      BY <1>6, <2>2, <2>3, <2>4 DEF Poll
  <1>7. CASE \E kind \in DOMAIN Stages, flag \in BOOLEAN : Start(e, kind, flag)
    BY <1>7 DEF Start
  <1> QED
    BY <1>1, <1>2, <1>3, <1>4, <1>5, <1>6, <1>7 DEF RunMoves

LEMMA PollsNoMore ==
  ASSUME TypeInv, NEW e \in Executions, RunMoves(e), ~Submit(e)
  PROVE  exec'[e].pc # "poll"
  <1>x. exec \in [Executions -> Execution] /\ ExecOK(exec[e])
    BY DEF TypeInv
  <1>1. CASE SkipOutput(e)
    BY <1>1, AdvanceIs DEF SkipOutput
  <1>2. CASE SubmitFails(e) \/ PollFails(e)
    BY <1>2, ToIsOK DEF SubmitFails, PollFails, Ended
  <1>3. CASE NextAttempt(e)
    BY <1>x, <1>3 DEF NextAttempt, Execution
  <1>4. CASE Poll(e)
    <2>1. CASE Advance(e)
      BY <2>1, AdvanceIs
    <2>2. CASE To(e, "wait") /\ Retries(e, units[UnitOf(e, exec[e])])
      BY <2>2, ToIsOK DEF Retries
    <2>3. CASE To(e, "returned") \/ To(e, "raised")
      BY <2>3, ToIsOK DEF Ended
    <2> QED
      BY <1>4, <2>1, <2>2, <2>3 DEF Poll
  <1>5. CASE \E kind \in DOMAIN Stages, flag \in BOOLEAN : Start(e, kind, flag)
    <2>1. PICK kind \in DOMAIN Stages, flag \in BOOLEAN : Start(e, kind, flag)
      BY <1>5
    <2>2. exec'[e] = [Idle EXCEPT !.kind = kind, !.flag = flag, !.pc = "submit"]
      BY <1>x, <2>1 DEF Start
    <2> QED
      BY <2>2, IdleIs DEF Execution
  <1> QED
    BY <1>1, <1>2, <1>3, <1>4, <1>5 DEF RunMoves

LEMMA UnitGoesOn ==
  ASSUME TypeInv, NEW u \in Live, UnitMoves(u), u \in DOMAIN units',
         units'[u].state \in {"PENDING", "RUNNING"}
  PROVE  /\ units[u].state \in {"PENDING", "RUNNING"}
         /\ units'[u].again = units[u].again /\ units'[u].script = units[u].script
  <1>u. u \in DOMAIN units /\ units[u] \in Unit
    BY DEF Live, TypeInv, UnitOK
  <1>e. ASSUME NEW state \in {"SUCCEEDED", "FAILED", "CANCELLED"}, NEW quota, Ends(u, state, quota)
        PROVE  FALSE
    <2>1. IsAwaited(u) /\ units'[u] = [NewUnit EXCEPT !.state = state, !.quota = quota,
                                                      !.batch = units[u].batch]
      BY <1>u, <1>e, EndsChanges
    <2>2. units'[u].state = state
      BY <2>1, NewUnitIs DEF Unit
    <2> QED
      BY <2>2
  <1>1. CASE \/ SkipStage(u) \/ Finish(u) \/ FinishAfterError(u)
           \/ Cancelled(u) \/ QuotaExceeded(u) \/ ExitRefresh(u)
    <2>1. \E state \in {"SUCCEEDED", "FAILED", "CANCELLED"}, quota \in BOOLEAN \cup {units[u].quota} :
            Ends(u, state, quota)
      BY <1>1 DEF SkipStage, Finish, FinishAfterError, Cancelled, QuotaExceeded, ExitRefresh
    <2> QED
      BY <1>e, <2>1
  <1>2. ASSUME NEW quota \in BOOLEAN, Fail(u, quota)
        PROVE  FALSE
    BY <1>e, <1>2 DEF Fail
  <1>3. ASSUME NEW quota \in BOOLEAN, Cancel(u, quota)
        PROVE  FALSE
    <2>1. units'[u].state = "CANCELLING"
      BY <1>u, <1>3 DEF Cancel, Unit
    <2> QED BY <2>1
  <1>4. CASE Begin(u)
    BY <1>u, <1>4 DEF Begin, Unit
  <1>5. CASE ListTable(u)
    BY <1>u, <1>5 DEF ListTable, Refreshes, Set, Unit
  <1>6. CASE CreateTable(u)
    BY <1>u, <1>6 DEF CreateTable, Refreshes, Set, Unit
  <1>7. CASE CreateFails(u)
    BY <1>u, <1>7 DEF CreateFails, Refreshes, Set, Unit
  <1> QED
    BY <1>1, <1>2, <1>3, <1>4, <1>5, <1>6, <1>7 DEF UnitMoves

LEMMA PlaceOfRun ==
  ASSUME TypeInv, PlaceInv, NEW e \in Executions, RunMoves(e)
  PROVE  PlaceInv'
  <1> DEFINE u == UnitOf(e, exec[e])
             x == exec[e]
             y == exec'[e]
  <1>e. u.exec = e
    BY DEF UnitOf
  <1>x. ExecOK(x) /\ ExecOK(y)
    BY RunChanges DEF TypeInv
  <1>c. /\ \A f \in Executions \ {e} : exec'[f] = exec[f]
        /\ \A v \in (DOMAIN units') \ {u} : v \in DOMAIN units /\ units'[v] = units[v]
        /\ DOMAIN units \ {u} \subseteq DOMAIN units'
        /\ \A v \in DOMAIN units' : v \in Ids
    <2>1. \A v \in DOMAIN units : v \in Ids
      BY DEF TypeInv, UnitOK
    <2>2. OnlyOf(u) /\ (u \in DOMAIN units' => u \in Ids)
      BY RunChanges DEF UnitOK
    <2> HIDE DEF u
    <2> QED
      BY <2>1, <2>2, RunChanges DEF OnlyOf, u
  <1>1. ASSUME NEW f \in Executions, exec'[f].pc = "poll"
        PROVE  UnitOf(f, exec'[f]) \in DOMAIN units'
    <2>1. CASE f # e
      <3>1. UnitOf(f, exec[f]) \in DOMAIN units /\ UnitOf(f, exec[f]).exec = f
        BY <1>1, <1>c, <2>1 DEF PlaceInv, UnitOf
      <3> QED
        BY <1>c, <1>e, <2>1, <3>1
    <2>2. CASE f = e
      <3>1. CASE Submit(e)
        <4>1. Created(e) /\ To(e, "poll")
          BY <3>1 DEF Submit
        <4>2. UnitOf(e, exec'[e]) = u
          BY <4>1, ToIsOK DEF UnitOf, Stage, Ended
        <4> QED
          BY <2>2, <4>1, <4>2, CreatedIs
      <3>2. CASE ~Submit(e)
        BY <1>1, <2>2, <3>2, PollsNoMore
      <3> QED BY <3>1, <3>2
    <2> QED BY <2>1, <2>2
  <1>2. ASSUME NEW v \in DOMAIN units', v.exec # e
        PROVE  Placed(v, units'[v], exec'[v.exec]) /\ Fits(v, units'[v], exec'[v.exec])
    BY <1>2, <1>c, <1>e DEF PlaceInv, Ids
  <1>3. ASSUME NEW v \in DOMAIN units', v.exec = e, v # u
        PROVE  Placed(v, units'[v], y) /\ Fits(v, units'[v], y)
    <2>1. v \in DOMAIN units /\ units'[v] = units[v] /\ v \in Ids
      BY <1>3, <1>c
    <2>2. x.pc # "idle"
      BY <1>3, <2>1, NotThereYet
    <2>3. Active(x) /\ GoesOn(x, y)
      BY <2>2, RunGoesOn
    <2>4. units[v].state = "CANCELLING" /\ Past(v, x)
      BY <1>3, <2>1, <2>3 DEF PlaceInv, Placed, Awaited, Active
    <2>5. y.pc \in Ended \/ Past(v, y)
      BY <1>x, <2>1, <2>3, <2>4, PastStays DEF GoesOn
    <2> QED
      BY <2>1, <2>4, <2>5 DEF Placed, Fits, Ended
  <1>4. ASSUME u \in DOMAIN units'
        PROVE  Placed(u, units'[u], y) /\ Fits(u, units'[u], y)
    <2>1. CASE Submit(e)
      <3>1. Created(e) /\ To(e, "poll")
        BY <2>1 DEF Submit
      <3>2. /\ y.pc = "poll" /\ y.kind = x.kind /\ y.flag = x.flag /\ y.at = x.at
            /\ UnitOf(e, y) = u
        BY <3>1, ToIsOK DEF UnitOf, Stage, Ended
      <3>3. RunsAgain(y) = RunsAgain(x) /\ Script(y) = Script(x)
        BY <3>2, Zenon DEF RunsAgain, Script, IsRange, Stage
      <3>4. units'[u].again = RunsAgain(x) /\ units'[u].script = Script(x)
        BY <3>1, CreatedIs
      <3> QED
        BY <1>e, <3>2, <3>3, <3>4 DEF Placed, Fits, Awaited
    <2>2. CASE y.pc = "raised"
      BY <2>2 DEF Placed, Fits, Awaited
    <2>3. CASE Poll(e)
      <3>1. u \in DOMAIN units /\ units'[u] = units[u] /\ u \in Live
        BY <1>4, <2>3 DEF Poll, Forget, Restrict
      <3>2. units[u].state = "CANCELLING" /\ x.pc = "poll"
        BY <2>3, <3>1 DEF Poll, Success, Failure, Live, Living
      <3>3. CASE y.pc = "returned"
        BY <3>1, <3>2, <3>3 DEF Placed, Fits, Awaited
      <3>4. CASE To(e, "wait") /\ Retries(e, units[u])
        <4>1. /\ y.pc = "wait" /\ y.kind = x.kind /\ y.at = x.at /\ y.attempt = x.attempt
          BY <3>4, ToIsOK DEF Ended, Retries
        <4>2. u.stage = Stages[y.kind][y.at] /\ u.attempt = y.attempt
          BY <4>1 DEF UnitOf, Stage
        <4>3. y.at \in 1 .. y.at /\ u.attempt \in Int
          BY <1>x, <4>2, StagesFollow DEF ExecOK, Execution
        <4>4. Past(u, y)
          BY <4>1, <4>2, <4>3 DEF Past, Active
        <4> QED
          BY <3>1, <3>2, <4>1, <4>4 DEF Placed, Fits, Awaited
      <3>5. CASE To(e, "returned")
        BY <3>3, <3>5, ToIsOK DEF Ended
      <3>6. CASE To(e, "raised")
        BY <2>2, <3>6, ToIsOK DEF Ended
      <3> QED
        BY <2>3, <3>2, <3>4, <3>5, <3>6 DEF Poll, Success
    <2>4. CASE NextAttempt(e)
      <3>1. u \in DOMAIN units /\ units'[u] = units[u] /\ x.pc = "wait"
        BY <1>4, <2>4 DEF NextAttempt
      <3>2. units[u].state = "CANCELLING" /\ Past(u, x)
        BY <1>e, <3>1 DEF PlaceInv, Placed, Awaited
      <3>3. Active(x) /\ GoesOn(x, y) /\ u \in Ids
        BY <1>4, <1>c, <3>1, RunGoesOn
      <3>4. y.pc \in Ended \/ Past(u, y)
        BY <1>x, <3>2, <3>3, PastStays DEF GoesOn
      <3>5. y.pc # "poll"
        BY <2>4, PollsNoMore, <3>1 DEF Submit
      <3> QED
        BY <3>1, <3>2, <3>4, <3>5 DEF Placed, Fits, Awaited, Ended
    <2>5. CASE SkipOutput(e) \/ \E kind \in DOMAIN Stages, flag \in BOOLEAN : Start(e, kind, flag)
      <3>1. u \in DOMAIN units /\ x.pc \in {"idle", "submit"}
        BY <1>4, <2>5 DEF SkipOutput, Start
      <3> QED
        BY <1>e, <3>1, NotThereYet
    <2>6. CASE SubmitFails(e) \/ PollFails(e)
      BY <2>2, <2>6, ToIsOK DEF SubmitFails, PollFails, Ended
    <2> QED
      BY <2>1, <2>3, <2>4, <2>5, <2>6 DEF RunMoves
  <1> QED
    BY <1>1, <1>2, <1>3, <1>4, <1>e DEF PlaceInv

LEMMA PlaceOfUnit ==
  ASSUME TypeInv, PlaceInv, NEW u \in Live, UnitMoves(u)
  PROVE  PlaceInv'
  <1>c. /\ u \in DOMAIN units /\ exec' = exec
        /\ \A v \in (DOMAIN units') \ {u} : v \in DOMAIN units /\ units'[v] = units[v]
        /\ DOMAIN units \ {u} \subseteq DOMAIN units'
        /\ IsAwaited(u) => u \in DOMAIN units'
    BY UnitChanges DEF OnlyOf
  <1>1. ASSUME NEW f \in Executions, exec[f].pc = "poll"
        PROVE  UnitOf(f, exec[f]) \in DOMAIN units'
    <2>1. UnitOf(f, exec[f]) \in DOMAIN units /\ UnitOf(f, exec[f]).exec = f
      BY <1>1 DEF PlaceInv, UnitOf
    <2> QED
      BY <1>1, <1>c, <2>1 DEF IsAwaited
  <1>2. ASSUME NEW v \in DOMAIN units', v # u
        PROVE  Placed(v, units'[v], exec[v.exec]) /\ Fits(v, units'[v], exec[v.exec])
    BY <1>2, <1>c DEF PlaceInv
  <1>3. ASSUME u \in DOMAIN units'
        PROVE  Placed(u, units'[u], exec[u.exec]) /\ Fits(u, units'[u], exec[u.exec])
    <2>1. Fits(u, units'[u], exec[u.exec])
      BY <1>c, <1>3, UnitGoesOn DEF Fits, PlaceInv
    <2>2. CASE units[u].state = "CANCELLING"
      <3>1. Cancelled(u)
        BY <2>2 DEF UnitMoves, SkipStage, Begin, Finish, FinishAfterError, QuotaExceeded, Fail, Cancel,
                    ListTable, CreateTable, CreateFails, ExitRefresh, Refreshes
      <3>2. IsAwaited(u)
        BY <1>c, <1>3, <3>1, EndsChanges DEF Cancelled
      <3> QED
        BY <2>1, <3>2 DEF IsAwaited, Awaited, Placed
    <2>3. CASE units[u].state # "CANCELLING"
      BY <1>c, <2>1, <2>3 DEF PlaceInv, Placed
    <2> QED
      BY <2>2, <2>3
  <1> QED
    BY <1>c, <1>1, <1>2, <1>3 DEF PlaceInv

LEMMA PlaceNext ==
  ASSUME TypeInv, PlaceInv, [Next]_vars
  PROVE  PlaceInv'
  <1>1. CASE UNCHANGED vars
    BY <1>1 DEF vars, PlaceInv
  <1>2. CASE Next
    BY <1>2, NextIs, PlaceOfRun, PlaceOfUnit
  <1> QED
    BY <1>1, <1>2

LEMMA PlacedIsOwned ==
  ASSUME PlaceInv
  PROVE  LiveUnitIsOwned
  BY DEF PlaceInv, Placed, Awaited, LiveUnitIsOwned, IsAwaited, Live

\* No job or batch goes on that nobody waits for, unless its run raised or it is being
\* cancelled (workflows/daily.yaml submit_dataproc_batch).
THEOREM LiveUnitsAreOwned == Spec => []LiveUnitIsOwned
  <1>1. Init => TypeInv /\ PlaceInv
    BY TypeInit, PlaceInit
  <1>2. TypeInv /\ PlaceInv /\ [Next]_vars => (TypeInv /\ PlaceInv)'
    BY TypeNext, PlaceNext
  <1>3. PlaceInv => LiveUnitIsOwned
    BY PlacedIsOwned
  <1> QED
    BY <1>1, <1>2, <1>3, PTL DEF Spec

(***************************************************************************)
(* What a run that is alone has done.                                      *)
(***************************************************************************)
IsAlone(e) == alone[e] /\ Active(exec[e])

\* The stages whose output a run makes anew, whatever is there.
Repeated(x) ==
  {s \in DOMAIN Upstream :
     /\ x.kind \notin {"deploy", "batch_fetch"}
     /\ x.kind \in {"daily", "run_day"} \/ x.flag
     /\ s = "deltas" => x.kind = "backfill"}

\* All that comes of the raw file, unless an error was passed over.
IsWhole(of, raw) == Lost \in of \/ (raw \subseteq of /\ Torn \notin of)
IsFresh(x, s, outputs) ==
  /\ IsWhole(outputs[s].of, outputs["fetch"].of)
  /\ s = "bronze" /\ IsRange(x) => outputs[s].of = outputs["fetch"].of
IsRead(t, latest, read) == latest[t] < 10 => read[t] = latest[t]

\* The stages that x is done with.
DoneFresh(x, outputs) ==
  \A k \in 1 .. x.at - 1 :
    Stages[x.kind][k] \in Repeated(x) => IsFresh(x, Stages[x.kind][k], outputs)

\* The unit of the stage that x is at: what it builds from, and what it has built.
UnitFresh(x, unit, outputs) ==
  Stage(x) \in Repeated(x) =>
    /\ unit.state = "RUNNING" => unit.input = outputs[Upstream[Stage(x)]].of
    /\ unit.state = "SUCCEEDED" => IsFresh(x, Stage(x), outputs)

\* If that is a refresh: the tables that it is done with, and the one it is at.
UnitReads(x, unit, latest, read) ==
  Stage(x) = "refresh" =>
    /\ unit.state = "PENDING" => unit.at = 1
    /\ unit.state = "RUNNING" /\ unit.skipped = 0 =>
         /\ \A j \in 1 .. 3 : j < unit.at => IsRead(Namespaces[j], latest, read)
         /\ unit.listed # 0 /\ latest[Namespaces[unit.at]] < 10 =>
              unit.listed = latest[Namespaces[unit.at]]
    /\ unit.state = "SUCCEEDED" => \A t \in Tables : IsRead(t, latest, read)

AloneInv ==
  \A e \in Executions : IsAlone(e) =>
    \A u \in DOMAIN units : units[u].state \in Living => u = UnitOf(e, exec[e])

FreshInv ==
  \A e \in Executions : IsAlone(e) =>
    /\ DoneFresh(exec[e], data)
    /\ exec[e].pc = "poll" =>
         /\ UnitFresh(exec[e], units[UnitOf(e, exec[e])], data)
         /\ UnitReads(exec[e], units[UnitOf(e, exec[e])], version, bq)

LEMMA AloneIs ==
  ASSUME TypeInv, Witness, NEW e \in Executions, IsAlone(e)'
  PROVE  /\ exec[e].pc = "idle" \/ IsAlone(e) \/ exec[e].pc \in Ended
         /\ alone[e]
         /\ \A u \in DOMAIN units' : units'[u].state \in Living => u = UnitOf(e, exec'[e])
  <1>1. exec'[e].pc \in {"submit", "poll", "wait"} /\ alone'[e]
    BY DEF IsAlone, Active
  <1>2. alone[e] /\ Live' \subseteq {UnitOf(e, exec'[e])}
    BY <1>1 DEF Witness, Ended
  <1>3. exec[e].pc \in {"idle", "submit", "poll", "wait"} \cup Ended
    BY DEF TypeInv, ExecOK, Execution
  <1> QED
    BY <1>2, <1>3 DEF IsAlone, Active, Live

LEMMA RepeatedAre ==
  ASSUME NEW x, ExecOK(x), NEW s \in Repeated(x)
  PROVE  /\ s \in DOMAIN Upstream /\ s \in {"bronze", "silver", "deltas"}
         /\ Stage(x) = s => RunsAgain(x) = TRUE
         /\ s # "bronze" => Upstream[s] \in Repeated(x)
         /\ x.kind \in {"daily", "run_day", "backfill", "run_backfill"}
  <1>1. s \in {"bronze", "silver", "deltas"} /\ x.kind \in DOMAIN Stages /\ x.flag \in BOOLEAN
    BY NamesAre DEF Repeated, ExecOK, Execution
  <1>2. x.kind \in {"daily", "run_day", "backfill", "run_backfill"}
    BY <1>1, StageListsAre DEF Repeated
  <1>3. ASSUME Stage(x) = s PROVE RunsAgain(x) = TRUE
    <2>1. CASE x.kind \in {"daily", "run_day"}
      BY <1>1, <1>3, <2>1 DEF Repeated, RunsAgain
    <2>2. CASE x.kind = "backfill"
      BY <1>1, <1>3, <2>2 DEF Repeated, RunsAgain
    <2>3. CASE x.kind = "run_backfill"
      BY <1>1, <1>3, <2>3 DEF Repeated, RunsAgain
    <2> QED
      BY <1>2, <2>1, <2>2, <2>3
  <1>4. ASSUME s # "bronze" PROVE Upstream[s] \in Repeated(x)
    BY <1>1, <1>4, NamesAre DEF Repeated
  <1> QED
    BY <1>1, <1>2, <1>3, <1>4, NamesAre

LEMMA FetchIsFirst ==
  ASSUME NEW x, ExecOK(x)
  PROVE  /\ Stage(x) = "fetch" => x.at = 1
         /\ \A k \in 1 .. x.at - 1 : Stages[x.kind][k] # Stage(x)
         /\ Stage(x) = "refresh" => x.at = Len(Stages[x.kind])
         /\ Stage(x) \in {"silver", "deltas"} =>
              x.at - 1 \in 1 .. x.at - 1 /\ Stages[x.kind][x.at - 1] = Upstream[Stage(x)]
  <1> DEFINE kind == x.kind
             at == x.at
  <1>1. kind \in DOMAIN Stages /\ at \in DOMAIN Stages[kind]
    BY DEF ExecOK, Execution
  <1> SUFFICES /\ Stages[kind][at] = "fetch" => at = 1
               /\ \A k \in 1 .. at - 1 : Stages[kind][k] # Stages[kind][at]
               /\ Stages[kind][at] = "refresh" => at = Len(Stages[kind])
               /\ Stages[kind][at] \in {"silver", "deltas"} =>
                    at - 1 \in 1 .. at - 1 /\ Stages[kind][at - 1] = Upstream[Stages[kind][at]]
    BY DEF Stage
  <1> HIDE DEF kind, at
  <1>2. CASE kind = "backfill"
    BY <1>1, <1>2, StageListsAre, NamesAre
  <1>3. CASE kind \in {"daily", "run_backfill", "run_day"}
    BY <1>1, <1>3, StageListsAre, NamesAre
  <1>4. CASE kind = "deploy"
    BY <1>1, <1>4, StageListsAre, NamesAre
  <1>5. CASE kind = "batch_fetch"
    BY <1>1, <1>5, StageListsAre, NamesAre
  <1> QED
    BY <1>1, <1>2, <1>3, <1>4, <1>5, StageListsAre

\* A run goes on to the next stage, or returns, when its unit has succeeded.
LEMMA LeavesStage ==
  ASSUME TypeInv, NEW e \in Executions, RunMoves(e), exec[e].kind # "batch_fetch",
         exec'[e].pc = "returned" \/ (Active(exec'[e]) /\ exec'[e].at = exec[e].at + 1),
         exec[e].pc # "idle"
  PROVE  /\ exec[e].pc = "poll" /\ units[UnitOf(e, exec[e])].state = "SUCCEEDED"
         /\ exec'[e].pc = "returned" => exec[e].at = Len(Stages[exec[e].kind])
  <1>x. exec \in [Executions -> Execution] /\ ExecOK(exec[e]) /\ exec[e].at \in Int
    BY DEF TypeInv, ExecOK, Execution
  <1>1. CASE SkipOutput(e)
    BY <1>1 DEF SkipOutput, HasOutput
  <1>2. CASE Submit(e)
    BY <1>x, <1>2, ToIsOK DEF Submit, Ended
  <1>3. CASE SubmitFails(e) \/ PollFails(e)
    BY <1>3, ToIsOK DEF SubmitFails, PollFails, Ended, Active
  <1>4. CASE NextAttempt(e)
    <2>1. exec'[e].at = exec[e].at /\ exec'[e].pc = "submit"
      BY <1>x, <1>4 DEF NextAttempt, Execution
    <2> QED
      BY <1>x, <2>1
  <1>5. CASE Poll(e)
    <2>1. exec[e].pc = "poll"
      BY <1>5 DEF Poll
    <2>2. CASE Advance(e) /\ units[UnitOf(e, exec[e])].state \in Success
      BY <2>1, <2>2, AdvanceIs DEF Success
    <2>3. CASE To(e, "wait") /\ Retries(e, units[UnitOf(e, exec[e])])
      BY <1>x, <2>3, ToIsOK DEF Ended, Retries
    <2>4. CASE To(e, "raised")
      BY <2>4, ToIsOK DEF Ended, Active
    <2> QED
      BY <1>5, <2>2, <2>3, <2>4 DEF Poll
  <1>6. CASE \E kind \in DOMAIN Stages, flag \in BOOLEAN : Start(e, kind, flag)
    BY <1>6 DEF Start
  <1> QED
    BY <1>1, <1>2, <1>3, <1>4, <1>5, <1>6 DEF RunMoves

LEMMA StartIs ==
  ASSUME TypeInv, NEW e \in Executions, RunMoves(e), exec[e].pc = "idle"
  PROVE  exec'[e].at = 1 /\ exec'[e].pc = "submit"
  <1>1. PICK kind \in DOMAIN Stages, flag \in BOOLEAN : Start(e, kind, flag)
    BY DEF RunMoves, SkipOutput, Submit, SubmitFails, Poll, PollFails, NextAttempt
  <1>2. exec'[e] = [Idle EXCEPT !.kind = kind, !.flag = flag, !.pc = "submit"]
    BY <1>1 DEF Start, TypeInv
  <1> QED
    BY <1>2, IdleIs DEF Execution

LEMMA FreshOfRun ==
  ASSUME TypeInv, PlaceInv, FreshInv, Witness, NEW f \in Executions, RunMoves(f),
         NEW e \in Executions, IsAlone(e)'
  PROVE  /\ DoneFresh(exec'[e], data')
         /\ exec'[e].pc = "poll" =>
              /\ UnitFresh(exec'[e], units'[UnitOf(e, exec'[e])], data')
              /\ UnitReads(exec'[e], units'[UnitOf(e, exec'[e])], version', bq')
  <1> DEFINE x == exec[e]
             y == exec'[e]
             u == UnitOf(e, x)
  <1>c. /\ data' = data /\ version' = version /\ bq' = bq
        /\ \A g \in Executions \ {f} : exec'[g] = exec[g]
        /\ OnlyOf(UnitOf(f, exec[f])) /\ DOMAIN units \ {UnitOf(f, exec[f])} \subseteq DOMAIN units'
    BY RunChanges
  <1>x. ExecOK(x)
    BY DEF TypeInv
  <1>y. ExecOK(y)
    BY RunChanges
  <1>a. /\ x.pc = "idle" \/ IsAlone(e) \/ x.pc \in Ended
        /\ y.pc \in {"submit", "poll", "wait"}
    BY AloneIs DEF IsAlone, Active
  <1>1. CASE e # f
    <2>1. y = x /\ IsAlone(e)
      BY <1>1, <1>a, <1>c DEF Ended
    <2>2. ASSUME x.pc = "poll" PROVE units'[u] = units[u]
      <3>1. u \in DOMAIN units /\ u # UnitOf(f, exec[f])
        BY <1>1, <2>2 DEF PlaceInv, UnitOf
      <3> QED
        BY <1>c, <3>1 DEF OnlyOf
    <2> QED
      BY <1>c, <2>1, <2>2 DEF FreshInv
  <1>2. CASE e = f /\ x.pc = "idle"
    <2>1. y.at = 1 /\ y.pc = "submit"
      BY <1>2, StartIs
    <2> QED
      BY <2>1 DEF DoneFresh
  <1>3. CASE e = f /\ x.pc # "idle"
    <2>1. Active(x) /\ GoesOn(x, y)
      BY <1>3, RunGoesOn
    <2>2. /\ DoneFresh(x, data)
          /\ x.pc = "poll" => UnitFresh(x, units[u], data)
      BY <1>a, <2>1 DEF FreshInv, Active, Ended
    <2>3. /\ y.kind = x.kind /\ y.flag = x.flag /\ Repeated(y) = Repeated(x)
          /\ y.at = x.at \/ y.at = x.at + 1
          /\ IsRange(y) = IsRange(x)
      BY <1>a, <2>1 DEF GoesOn, Ended, Repeated, IsRange
    <2>4. DoneFresh(y, data)
      <3>1. CASE y.at = x.at
        BY <2>2, <2>3, <3>1 DEF DoneFresh, IsFresh
      <3>2. CASE y.at = x.at + 1
        <4> SUFFICES ASSUME NEW k \in 1 .. x.at, Stages[x.kind][k] \in Repeated(x)
                     PROVE  IsFresh(x, Stages[x.kind][k], data)
          BY <1>x, <2>3, <3>2 DEF DoneFresh, IsFresh, ExecOK, Execution
        <4>1. CASE k = x.at
          <5>1. x.kind # "batch_fetch"
            BY <1>x, RepeatedAre
          <5>2. x.pc = "poll" /\ units[u].state = "SUCCEEDED"
            BY <1>3, <1>a, <3>2, <5>1, LeavesStage DEF Active
          <5> QED
            BY <2>2, <4>1, <5>2 DEF UnitFresh, Stage
        <4>2. CASE k # x.at
          <5>1. k \in 1 .. x.at - 1
            BY <1>x, <4>2 DEF ExecOK, Execution
          <5> QED
            BY <2>2, <5>1 DEF DoneFresh
        <4> QED BY <4>1, <4>2
      <3> QED BY <2>3, <3>1, <3>2
    <2>5. ASSUME y.pc = "poll"
          PROVE  units'[UnitOf(e, y)].state = "PENDING" /\ units'[UnitOf(e, y)].at = 1
      <3>1. Submit(e)
        BY <1>3, <2>5, PollsNoMore
      <3>2. Created(e) /\ UnitOf(e, y) = u
        BY <3>1, ToIsOK DEF Submit, UnitOf, Stage, Ended
      <3> QED
        BY <3>2, CreatedIs
    <2> QED
      BY <1>c, <2>4, <2>5 DEF UnitFresh, UnitReads
  <1> QED
    BY <1>1, <1>2, <1>3

LEMMA EndsInState ==
  ASSUME TypeInv, NEW u \in DOMAIN units, IsAwaited(u), NEW state, NEW quota, Ends(u, state, quota)
  PROVE  units'[u].state = state
  <1>1. units' = [units EXCEPT ![u] = [NewUnit EXCEPT !.state = state, !.quota = quota,
                                                     !.batch = units[u].batch]]
    BY DEF Ends
  <1> QED
    BY <1>1, NewUnitIs DEF Unit

\* A unit that is the only one to live builds from its input alone.
LEMMA FreshBuild ==
  ASSUME TypeInv, PlaceInv, AloneInv, NEW e \in Executions, IsAlone(e), NEW u \in Live,
         u = UnitOf(e, exec[e]), exec[e].pc = "poll", u.stage \in Repeated(exec[e]), Finish(u)
  PROVE  data'[u.stage].of = Built(u) /\ (u.stage = "bronze" /\ IsRange(exec[e]) => ~Keeps(u))
  <1>1. /\ u \in DOMAIN units /\ units[u].state = "RUNNING" /\ u.exec = e
        /\ ExecOK(exec[e])
    BY DEF Live, Finish, UnitOf, TypeInv
  <1>2. units[u].script = Script(exec[e])
    BY <1>1 DEF PlaceInv, Fits, Awaited
  <1>3. u.stage # "fetch"
    BY <1>1, RepeatedAre
  <1>4. \A v \in Live : v = u
    BY DEF AloneInv, Live
  <1>5. Made(u) = {Built(u)}
    <2>1. Rivals(u) = {}
      BY <1>4 DEF Rivals
    <2> QED
      BY <1>3, <2>1 DEF Made
  <1>6. IsRange(exec[e]) => units[u].script = "range"
    BY <1>2 DEF Script
  <1> QED
    BY <1>1, <1>5, <1>6, FinishIs DEF Keeps

LEMMA FreshOfUnit ==
  ASSUME TypeInv, PlaceInv, AloneInv, FreshInv, Witness, NEW u \in Live, UnitMoves(u),
         NEW e \in Executions, IsAlone(e)'
  PROVE  /\ DoneFresh(exec'[e], data')
         /\ exec'[e].pc = "poll" =>
              /\ UnitFresh(exec'[e], units'[UnitOf(e, exec'[e])], data')
              /\ UnitReads(exec'[e], units'[UnitOf(e, exec'[e])], version', bq')
  <1> DEFINE x == exec[e]
             s == Stage(x)
  <1>c. exec' = exec /\ OnlyOfStage(u) /\ u \in DOMAIN units
    BY UnitChanges
  <1>x. ExecOK(x) /\ x.at \in DOMAIN Stages[x.kind] /\ x.at \in 1 .. x.at
    BY StagesFollow DEF TypeInv, ExecOK, Execution
  <1>a. IsAlone(e)
    BY <1>c, AloneIs DEF IsAlone, Active, Ended
  <1>u. u = UnitOf(e, x) /\ u.exec = e /\ u.stage = s /\ units[u].state \in Living
    BY <1>a, <1>c DEF AloneInv, Live, UnitOf
  <1>f. /\ DoneFresh(x, data)
        /\ x.pc = "poll" => UnitFresh(x, units[u], data) /\ UnitReads(x, units[u], version, bq)
    BY <1>a, <1>u DEF FreshInv
  <1>1. DoneFresh(x, data')
    <2> SUFFICES ASSUME NEW k \in 1 .. x.at - 1, Stages[x.kind][k] \in Repeated(x)
                 PROVE  IsFresh(x, Stages[x.kind][k], data')
      BY DEF DoneFresh
    <2>1. Stages[x.kind][k] \in ToSet(Builds) /\ "fetch" \in ToSet(Builds)
      BY <1>x, NamesAre, RepeatedAre
    <2>2. Stages[x.kind][k] # s /\ s # "fetch"
      BY <1>x, FetchIsFirst
    <2> QED
      BY <1>c, <1>u, <1>f, <2>1, <2>2 DEF OnlyOfStage, DoneFresh, IsFresh
  <1>2. ASSUME x.pc = "poll"
        PROVE  UnitFresh(x, units'[u], data') /\ UnitReads(x, units'[u], version', bq')
    <2>a. IsAwaited(u)
      BY <1>u, <1>2 DEF IsAwaited
    <2>e. ASSUME NEW state, NEW quota, Ends(u, state, quota) PROVE units'[u].state = state
      BY <1>c, <2>a, <2>e, EndsInState
    <2>u. units[u] \in Unit /\ UnitOK(u, units[u], version)
      BY <1>c DEF TypeInv, UnitOK
    <2>1. CASE units'[u].state \in {"FAILED", "CANCELLED", "CANCELLING"}
      BY <2>1 DEF UnitFresh, UnitReads
    <2>2. CASE SkipStage(u)
      <3>1. units'[u].state = "SUCCEEDED" /\ s # "refresh"
        BY <1>u, <2>2, <2>e DEF SkipStage, IsDone
      <3>2. units[u].again = RunsAgain(x) /\ units[u].again # TRUE
        BY <1>c, <1>u, <1>2, <2>2, <2>u DEF SkipStage, IsDone, PlaceInv, Fits, Awaited, Unit
      <3>3. s \notin Repeated(x)
        BY <1>x, <3>2, RepeatedAre
      <3> QED
        BY <3>1, <3>3 DEF UnitFresh, UnitReads
    <2>3. CASE Begin(u)
      <3>1. /\ units'[u].state = "RUNNING" /\ units'[u].at = units[u].at
            /\ units'[u].listed = units[u].listed /\ data' = data
            /\ units'[u].input = Input(u)
        BY <1>c, <2>3, <2>u DEF Begin, Unit
      <3>2. units[u].state = "PENDING" /\ units[u].listed = 0
        BY <2>3, <2>u DEF Begin, UnitOK
      <3>3. ASSUME s \in Repeated(x)
            PROVE  units'[u].input = data[Upstream[s]].of
        BY <1>u, <1>x, <3>1, <3>3, RepeatedAre DEF Input
      <3>4. UnitFresh(x, units'[u], data')
        BY <1>u, <1>x, <3>1, <3>3, RepeatedAre DEF UnitFresh
      <3>5. s = "refresh" => units'[u].at = 1
        BY <1>f, <1>2, <3>1, <3>2 DEF UnitReads
      <3> QED
        BY <3>1, <3>2, <3>4, <3>5 DEF UnitReads
    <2>4. CASE Finish(u)
      <3>1. units[u].state = "RUNNING" /\ units'[u].state = "SUCCEEDED" /\ s # "refresh"
        BY <1>u, <2>4, <2>e DEF Finish
      <3>2. ASSUME s \in Repeated(x)
            PROVE  IsFresh(x, s, data')
        <4> DEFINE raw == data["fetch"].of
                   input == data[Upstream[s]].of
        <4>1. data'[s].of = Built(u) /\ (s = "bronze" /\ IsRange(x) => ~Keeps(u))
          BY <1>a, <1>u, <1>2, <2>4, <3>2, FreshBuild
        <4>2. Read(u) = input
          BY <1>f, <1>u, <1>x, <1>2, <3>1, <3>2, RepeatedAre DEF UnitFresh, Read, Input
        <4>3. data'["fetch"].of = raw /\ raw \subseteq Nat
          BY <1>c, <1>u, <1>x, <3>2, NamesAre, RepeatedAre DEF OnlyOfStage, TypeInv
        <4>4. s = "bronze" => input = raw
          BY NamesAre
        <4>5. IsWhole(input, raw)
          <5>1. CASE s = "bronze"
            BY <4>3, <4>4, <5>1 DEF IsWhole, Torn
          <5>2. CASE s # "bronze"
            <6>1. s \in {"silver", "deltas"} /\ Upstream[s] \in Repeated(x)
              BY <1>x, <3>2, <5>2, RepeatedAre
            <6>2. x.at - 1 \in 1 .. x.at - 1 /\ Stages[x.kind][x.at - 1] = Upstream[s]
              BY <1>x, <6>1, FetchIsFirst
            <6> QED
              BY <1>f, <6>1, <6>2 DEF DoneFresh, IsFresh
          <5> QED
            BY <5>1, <5>2
        <4>6. IsWhole(Built(u), raw)
          BY <4>2, <4>5 DEF Built, Old, IsWhole
        <4>7. s = "bronze" /\ IsRange(x) => Built(u) = raw
          BY <4>1, <4>2, <4>4 DEF Built
        <4> QED
          BY <4>1, <4>3, <4>6, <4>7 DEF IsFresh
      <3> QED
        BY <3>1, <3>2 DEF UnitFresh, UnitReads
    <2>10. CASE FinishAfterError(u)
      <3>1. units'[u].state = "SUCCEEDED" /\ s \in {"silver", "deltas"} /\ Lost \in data'[s].of
        BY <1>c, <1>u, <2>10, <2>e, FinishAfterErrorIs DEF FinishAfterError
      <3> QED
        BY <3>1 DEF UnitFresh, UnitReads, IsFresh, IsWhole
    <2>5. CASE Cancelled(u)
      BY <2>1, <2>5, <2>e DEF Cancelled
    <2>6. CASE QuotaExceeded(u)
      BY <2>1, <2>6, <2>e DEF QuotaExceeded
    <2>7. ASSUME NEW quota \in BOOLEAN, Fail(u, quota) PROVE units'[u].state = "FAILED"
      BY <2>7, <2>e DEF Fail
    <2>8. ASSUME NEW quota \in BOOLEAN, Cancel(u, quota) PROVE units'[u].state = "CANCELLING"
      BY <1>c, <2>8, <2>u DEF Cancel, Unit
    <2>9. CASE ListTable(u) \/ CreateTable(u) \/ CreateFails(u) \/ ExitRefresh(u)
      <3>1. s = "refresh" /\ units[u].state = "RUNNING" /\ data' = data /\ version' = version
        BY <1>u, <2>9 DEF ListTable, CreateTable, CreateFails, ExitRefresh, Refreshes
      <3>2. UnitFresh(x, units'[u], data')
        BY <1>x, <3>1, RepeatedAre DEF UnitFresh
      <3> DEFINE at == units[u].at
                 t == Namespaces[at]
      <3>r. /\ at \in Nat \ {0} /\ units[u].listed \in Nat /\ units[u].skipped \in Nat
            /\ at \in 1 .. 3 => t \in Tables /\ version[t] \in 0 .. MaxVersion /\ bq[t] \in 0 .. version[t]
        BY <2>u, TablesAre DEF UnitOK, Unit, TypeInv, MaxVersion
      <3>o. units[u].skipped = 0 =>
              /\ \A j \in 1 .. 3 : j < at => IsRead(Namespaces[j], version, bq)
              /\ units[u].listed # 0 /\ version[t] < 10 => units[u].listed = version[t]
        BY <1>f, <1>2, <3>1 DEF UnitReads
      <3>3. CASE ListTable(u)
        <4>1. at \in 1 .. 3 /\ units[u].listed = 0 /\ bq' = bq
          BY <3>3, <3>r, TablesAre DEF ListTable, Left
        <4>2. CASE LatestMetadata(t) = 0
          <5>1. /\ units'[u].state = "RUNNING" /\ units'[u].at = at + 1
                /\ units'[u].listed = 0 /\ units'[u].skipped = units[u].skipped
            BY <1>c, <2>u, <3>1, <3>3, <4>1, <4>2 DEF ListTable, Set, Unit
          <5>2. IsRead(t, version, bq)
            BY <3>r, <4>1, <4>2, LatestIsThere DEF IsRead
          <5>3. units[u].skipped = 0 =>
                  \A j \in 1 .. 3 : j < at + 1 => IsRead(Namespaces[j], version, bq)
            BY <3>r, <3>o, <5>2
          <5> QED
            BY <3>1, <3>2, <4>1, <5>1, <5>3 DEF UnitReads
        <4>3. CASE LatestMetadata(t) # 0
          <5>1. /\ units'[u].state = "RUNNING" /\ units'[u].at = at
                /\ units'[u].listed = LatestMetadata(t) /\ units'[u].skipped = units[u].skipped
            BY <1>c, <2>u, <3>1, <3>3, <4>1, <4>3 DEF ListTable, Set, Unit
          <5>2. version[t] < 10 => LatestMetadata(t) = version[t]
            BY <3>r, <4>1, LatestIsThere
          <5> QED
            BY <3>1, <3>2, <3>o, <4>1, <5>1, <5>2 DEF UnitReads
        <4> QED
          BY <4>2, <4>3
      <3>4. CASE CreateTable(u)
        <4>1. /\ units'[u].state = "RUNNING" /\ units'[u].at = at + 1
              /\ units'[u].listed = 0 /\ units'[u].skipped = units[u].skipped
          BY <1>c, <2>u, <3>1, <3>4 DEF CreateTable, Set, Unit
        <4>2. bq' = [bq EXCEPT ![t] = units[u].listed] /\ units[u].listed # 0
          BY <3>4 DEF CreateTable
        <4>3. ASSUME units[u].skipped = 0, NEW j \in 1 .. 3, j < at + 1
              PROVE  IsRead(Namespaces[j], version, bq')
          <5>1. Namespaces[j] \in Tables /\ bq \in [Tables -> 0 .. MaxVersion]
            BY TablesAre DEF TypeInv
          <5>2. CASE Namespaces[j] = t
            BY <3>o, <4>2, <4>3, <5>1, <5>2 DEF IsRead
          <5>3. CASE Namespaces[j] # t
            <6>1. j < at
              BY <3>r, <4>3, <5>3
            <6>2. bq'[Namespaces[j]] = bq[Namespaces[j]]
              BY <4>2, <5>1, <5>3
            <6> QED
              BY <3>o, <4>3, <6>1, <6>2 DEF IsRead
          <5> QED
            BY <5>2, <5>3
        <4> QED
          BY <3>1, <3>2, <4>1, <4>3 DEF UnitReads
      <3>5. CASE CreateFails(u)
        <4>1. units'[u].state = "RUNNING" /\ units'[u].skipped = units[u].skipped + 1
          BY <1>c, <2>u, <3>1, <3>5 DEF CreateFails, Set, Unit
        <4> QED
          BY <3>2, <3>r, <4>1 DEF UnitReads
      <3>6. CASE ExitRefresh(u)
        <4>1. bq' = bq /\ at > 3
          BY <3>6, <3>r, TablesAre DEF ExitRefresh, Left
        <4>2. CASE IsRefreshed(u)
          <5>1. units'[u].state = "SUCCEEDED" /\ units[u].skipped = 0
            BY <2>e, <3>6, <4>2 DEF ExitRefresh, IsRefreshed
          <5>2. \A i \in Tables : IsRead(i, version, bq)
            BY <3>r, <3>o, <4>1, <5>1, TablesAre
          <5> QED
            BY <3>1, <3>2, <4>1, <5>1, <5>2 DEF UnitReads
        <4>3. CASE ~IsRefreshed(u)
          BY <2>1, <2>e, <3>6, <4>3 DEF ExitRefresh
        <4> QED
          BY <4>2, <4>3
      <3> QED
        BY <2>9, <3>3, <3>4, <3>5, <3>6
    <2> QED
      BY <2>1, <2>2, <2>3, <2>4, <2>5, <2>6, <2>7, <2>8, <2>9, <2>10 DEF UnitMoves
  <1> QED
    BY <1>c, <1>u, <1>1, <1>2

IInv == TypeInv /\ PlaceInv /\ AloneInv /\ FreshInv

LEMMA InvInit == Init => IInv
  <1> SUFFICES ASSUME Init PROVE IInv
    OBVIOUS
  <1>1. \A e \in Executions : ~IsAlone(e)
    BY IdleIs DEF Init, IsAlone, Active
  <1> QED
    BY <1>1, TypeInit, PlaceInit DEF IInv, AloneInv, FreshInv

LEMMA InvNext ==
  ASSUME IInv, [Next]_vars
  PROVE  IInv'
  <1> USE DEF IInv
  <1>1. TypeInv' /\ PlaceInv'
    BY TypeNext, PlaceNext
  <1>2. CASE UNCHANGED vars
    BY <1>2 DEF vars, TypeInv, PlaceInv, AloneInv, FreshInv, IsAlone
  <1>3. CASE Next
    <2>1. Witness
      BY <1>3, NextIs
    <2>2. AloneInv'
      BY <2>1, AloneIs DEF AloneInv
    <2>3. FreshInv'
      BY <1>3, <2>1, NextIs, FreshOfRun, FreshOfUnit DEF FreshInv
    <2> QED
      BY <1>1, <2>2, <2>3
  <1> QED
    BY <1>2, <1>3

\* A run that was alone leaves every stage it repeats with all that comes of the raw
\* file there is, unless a build of the stage or of one before it passed over an error,
\* and bronze, if the range script made it, with nothing else; and a backfill leaves
\* BigQuery reading the latest version of every table that has fewer than ten: however
\* its attempts and units ended and whatever earlier runs left (workflows/daily.yaml,
\* workflows/backfill.yaml, run_backfill.py, run_day_pipeline.py,
\* setup_bq_external_tables.py).
THEOREM RunsAreEndToEnd == Spec => RunIsEndToEnd
  <1> DEFINE EndToEnd(e) ==
        LET x == exec[e]
            raw == data'["fetch"].of
        IN  Returns(e) /\ alone[e] /\ x.kind # "batch_fetch" =>
              /\ x.kind # "deploy" =>
                   \A s \in DOMAIN Upstream :
                     (x.kind \in {"daily", "run_day"} \/ x.flag) /\ (s = "deltas" => x.kind = "backfill") =>
                       /\ Lost \in data'[s].of \/ (raw \subseteq data'[s].of /\ Torn \notin data'[s].of)
                       /\ s = "bronze" /\ IsRange(x) => data'[s].of = raw
              /\ x.kind = "backfill" =>
                   \A t \in Tables : version'[t] < 10 => bq'[t] = version'[t]
  <1>1. ASSUME IInv, Next, NEW e \in Executions
        PROVE  EndToEnd(e)
    <2> DEFINE x == exec[e]
               u == UnitOf(e, x)
    <2> SUFFICES ASSUME Returns(e), alone[e], x.kind # "batch_fetch"
                 PROVE  /\ x.kind # "deploy" =>
                             \A s \in DOMAIN Upstream :
                               (x.kind \in {"daily", "run_day"} \/ x.flag)
                                 /\ (s = "deltas" => x.kind = "backfill") => IsFresh(x, s, data')
                        /\ x.kind = "backfill" => \A t \in Tables : IsRead(t, version', bq')
      BY DEF IsFresh, IsWhole, IsRead
    <2>1. RunMoves(e)
      <3>1. ASSUME NEW f \in Executions, RunMoves(f), f # e PROVE FALSE
        BY <1>1, <3>1, RunChanges DEF IInv, Returns
      <3>2. ASSUME NEW v \in Live, UnitMoves(v) PROVE FALSE
        BY <1>1, <3>2, UnitChanges DEF IInv, Returns
      <3> QED
        BY <1>1, <3>1, <3>2, NextIs
    <2>x. ExecOK(x) /\ TypeInv
      BY <1>1 DEF IInv, TypeInv
    <2>2. x.pc # "idle"
      BY <2>1, <2>x, StartIs DEF Returns
    <2>3. /\ x.pc = "poll" /\ units[u].state = "SUCCEEDED"
          /\ x.at = Len(Stages[x.kind])
      BY <2>1, <2>2, <2>x, LeavesStage DEF Returns
    <2>4. IsAlone(e)
      BY <2>3 DEF IsAlone, Active
    <2>5. /\ DoneFresh(x, data) /\ UnitFresh(x, units[u], data)
          /\ UnitReads(x, units[u], version, bq)
      BY <1>1, <2>3, <2>4 DEF IInv, FreshInv
    <2>6. data' = data /\ version' = version /\ bq' = bq
      BY <2>1, <2>x, RunChanges
    <2>7. ASSUME x.kind # "deploy", NEW s \in DOMAIN Upstream,
                 x.kind \in {"daily", "run_day"} \/ x.flag, s = "deltas" => x.kind = "backfill"
          PROVE  IsFresh(x, s, data)
      <3>1. s \in Repeated(x)
        BY <2>7 DEF Repeated
      <3>2. PICK k \in DOMAIN Stages[x.kind] : Stages[x.kind][k] = s
        BY <2>7, <2>x, StagesFollow DEF ExecOK, Execution
      <3>3. k = x.at \/ k \in 1 .. x.at - 1
        BY <2>3, <2>x, StagesFollow DEF ExecOK, Execution
      <3> QED
        BY <2>3, <2>5, <3>1, <3>2, <3>3 DEF DoneFresh, UnitFresh, Stage
    <2>8. ASSUME x.kind = "backfill" PROVE \A t \in Tables : IsRead(t, version, bq)
      <3>1. Stage(x) = "refresh"
        BY <2>3, <2>8, StageListsAre DEF Stage
      <3> QED
        BY <2>3, <2>5, <3>1 DEF UnitReads
    <2> QED
      BY <2>6, <2>7, <2>8
  <1>2. ASSUME IInv, [Next]_vars
        PROVE  [\A e \in Executions : EndToEnd(e)]_vars
    BY <1>1, <1>2
  <1>3. Init => IInv
    BY InvInit
  <1>4. IInv /\ [Next]_vars => IInv'
    BY InvNext
  <1> QED
    BY <1>2, <1>3, <1>4, PTL DEF Spec, RunIsEndToEnd

===============================================================================
