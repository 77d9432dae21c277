--------------------------- MODULE MCHubStatistics ---------------------------
(* HubStatistics for TLC: three requests that no two windows have in common. *)
EXTENDS HubStatistics

MCLoad == <<[rtt |-> 2, error |-> FALSE], [rtt |-> 1, error |-> TRUE], [rtt |-> 4, error |-> FALSE]>>
===============================================================================
