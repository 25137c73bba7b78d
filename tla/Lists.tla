------------------------------- MODULE Lists ---------------------------------
(***************************************************************************)
(* The lists that the scripts make of a set by sorting it: of dates and of *)
(* objectIds, the smallest first, and of the changes of a notice.          *)
(***************************************************************************)
EXTENDS Integers, FiniteSets

\* The members of a set, each at its rank in the order that a set of pairs is.
Ranked(S, Earlier) ==
  [i \in 1 .. Cardinality(S) |->
     CHOOSE x \in S : Cardinality({y \in S : <<y, x>> \in Earlier}) = i - 1]

\* The numbers of a set, the smallest first.
InOrder(S) == Ranked(S, {pair \in S \X S : pair[1] < pair[2]})
=============================================================================
