------------------------------ MODULE MCBronze -------------------------------
(* Instances of Bronze for TLC: three days, three notices of two types, one   *)
(* of them published on two days, one rejected by the newer code.             *)
EXTENDS Bronze, TLC
CONSTANTS a, b, c, t1, t2

MCTypeOf == a :> t1 @@ b :> t2 @@ c :> t1
MCPublished == <<{a, b}, {a, c}, {c}>>
MCValid == [v \in Versions |-> IF v = 0 THEN {a, b, c} ELSE {a, c}]
=============================================================================
