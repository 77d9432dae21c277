--------------------------- MODULE MCLoadGenerator ---------------------------
(* LoadGenerator for TLC. *)
EXTENDS LoadGenerator

MCFailing == {<<"a", 4>>}
===============================================================================
