------------------------------ MODULE MCPipeline ------------------------------
(* An instance of Pipeline for TLC.  Its constants are plain values; the       *)
(* configurations give them.                                                   *)
EXTENDS Pipeline, TLC
=============================================================================
