------------------------------ MODULE MCBackfill ------------------------------
(* An instance of Backfill for TLC: day 1 has a raw file but no bronze, day 2 *)
(* has both.                                                                   *)
EXTENDS Backfill, TLC
CONSTANT t

MCBronze == <<{}, {t}>>
MCRaw == <<{t}, {t}>>
=============================================================================
