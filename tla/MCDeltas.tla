------------------------------ MODULE MCDeltas -------------------------------
(* An instance of Deltas for TLC.  Days 1, 2 and 3 are in three years.  The   *)
(* NUNs u of day 3 and v of day 2 change notice A of day 1, w of day 2 changes *)
(* B of day 2.  Then silver is rebuilt: a backfill brings B of day 1, in       *)
(* another type, NUN x of day 1, which names no notice, and NUN y of day 3,    *)
(* which changes C of day 2, a type without section index.                     *)
(* Both indexed types have section s1 with two columns, only t1 has s2, with a *)
(* column whose parser is unknown.  v changes s1 three times, the second time  *)
(* to a text that cannot be parsed; w changes it once to that text, and s2; u  *)
(* takes a value out.                                                          *)
EXTENDS Deltas, TLC
CONSTANTS A, B, C, u, v, w, x, y, t1, t2, o, s1, s2, good, bad

MCYearOf == <<1, 2, 3>>
MCTarget == u :> A @@ v :> A @@ w :> B @@ x :> NoNumber @@ y :> C
MCNumberYear == A :> 1 @@ B :> 2 @@ C :> NoYear
E(num, type, day) == [number |-> num, type |-> type, day |-> day]
MCCore == [s \in SilverStates |-> IF s = 0 THEN <<{}, {v, w}, {u}>> ELSE <<{x}, {v, w}, {u, y}>>]
Ch(part, item, section, after) == [part |-> part, item |-> item, section |-> section, after |-> after]
MCChanges ==
  u :> {Ch(1, 1, s1, good), Ch(1, 2, s1, NoText), Ch(2, 1, NoSection, good)}
  @@ v :> {Ch(2, 1, s1, good), Ch(1, 2, s1, bad), Ch(1, 1, s1, good), Ch(2, 2, s2, good)}
  @@ w :> {Ch(1, 1, s2, bad), Ch(2, 1, s1, good), Ch(3, 1, s1, bad)}
  @@ x :> {} @@ y :> {Ch(1, 1, s1, good)}
MCSectionIndex == t1 :> (s1 :> {"value", "currency"} @@ s2 :> {"title", "buyer"}) @@ t2 :> (s1 :> {"value"})
MCParser == "value" :> "parse_pln_value" @@ "currency" :> "parse_currency_code" @@ "title" :> NoParser @@ "buyer" :> "parse_buyer"
MCUnparsable == {<<"parse_pln_value", bad>>}
MCUnknownParsers == {"parse_buyer"}
First == {E(A, t1, 1), E(B, t2, 2), E(C, o, 2)}
MCEnvelope == [s \in SilverStates |-> IF s = 0 THEN First ELSE First \cup {E(B, t1, 1)}]
\* One deployment, of the script or of code upstream; reads of day 2 meet errors.
Bounded == code.script + code.upstream <= 1 /\ \A d \in Days \ {2} : missed[d] = {}
=============================================================================
