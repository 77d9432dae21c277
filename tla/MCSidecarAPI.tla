----------------------------- MODULE MCSidecarAPI -----------------------------
(* Instances of SidecarAPI for TLC. *)
EXTENDS SidecarAPI, TLC

\* Handlers differ in nothing but their identity.
Symmetry == Permutations(Callers)
===============================================================================
