--------------------------- MODULE MCSidecarStorage ---------------------------
(* Instances of SidecarStorage for TLC. *)
EXTENDS SidecarStorage, TLC

\* Flushers other than the ticker differ in nothing but their identity.
Symmetry == Permutations(Flushers \ {Ticker})
===============================================================================
