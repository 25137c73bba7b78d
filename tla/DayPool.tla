------------------------------- MODULE DayPool --------------------------------
(***************************************************************************)
(* What a pool of day jobs promises, whatever its processes do: of the     *)
(* days it is given it begins each once, never more than Width at a time,  *)
(* and each that it began ends before the pool takes new days.  A pool     *)
(* that dies forgets its days.                                             *)
(***************************************************************************)
EXTENDS Integers, FiniteSets

CONSTANTS Days, Width

VARIABLES waiting, running, ended
vars == <<waiting, running, ended>>

Init == waiting = {} /\ running = {} /\ ended = {}

Open(days) ==
  /\ waiting = {} /\ running = {}
  /\ waiting' = days /\ running' = {} /\ ended' = {}

Begin(d) ==
  /\ d \in waiting /\ Cardinality(running) < Width
  /\ waiting' = waiting \ {d} /\ running' = running \cup {d}
  /\ UNCHANGED ended

End(days) ==
  /\ days # {}
  /\ running' = running \ days /\ ended' = ended \cup days
  /\ UNCHANGED waiting

Abandon == waiting' = {} /\ running' = {} /\ ended' = {}

Next ==
  \/ \E days \in SUBSET Days : Open(days)
  \/ \E d \in waiting : Begin(d)
  \/ \E days \in SUBSET running : End(days)
  \/ Abandon

Spec == Init /\ [][Next]_vars
=============================================================================
