----------------------------- MODULE MCController -----------------------------
(* Instances of Controller for TLC. *)
EXTENDS Controller, TLC

\* Callers differ in nothing but their identity, and so do names.
Symmetry == Permutations(Names) \cup Permutations(Callers)
===============================================================================
