------------------------------ MODULE MCSilver -------------------------------
(* Instances of Silver for TLC: type 1 has a profile, type 2 has none, type 3 *)
(* is noticeType null.  Version 0 of the code accepts a and quarantines b,    *)
(* version 1 the other way round, and it finds no parts.                      *)
EXTENDS Silver, TLC
CONSTANTS a, b, c, n, p1, p2

MCModels == {"core", "part"}
MCStored(d1, d2) ==
  [k \in Partition |->
     IF k[2] = 1 /\ k[1] \in DOMAIN d1 THEN d1[k[1]]
     ELSE IF k[2] = 2 /\ k[1] \in DOMAIN d2 THEN d2[k[1]] ELSE {}]
MCStoredTwoDays == MCStored(<<{a}, {c}, {n}>>, <<{b}, {}, {}>>)
MCRows ==
  [v \in Versions |->
     [m \in MCModels |-> IF v = 0 THEN {a, c, n} ELSE IF m = "core" THEN {b, c, n} ELSE {}]]
MCFlagged == [v \in Versions |-> IF v = 0 THEN {b} ELSE {a}]
MCOneRange == {<<1, 2>>}
MCTwoRanges == {<<1, 1>>, <<2, 2>>}
Symmetry == Permutations(Jobs)
=============================================================================
