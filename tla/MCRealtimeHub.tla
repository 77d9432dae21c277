----------------------------- MODULE MCRealtimeHub -----------------------------
(* Instances of RealtimeHub for TLC.  Temporal properties are checked with    *)
(* the rest, hence no symmetry.                                               *)
EXTENDS RealtimeHub, TLC
===============================================================================
