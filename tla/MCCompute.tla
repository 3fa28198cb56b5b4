----------------------------- MODULE MCCompute -----------------------------
(***************************************************************************)
(* Compute with its processes interchangeable.                             *)
(***************************************************************************)
EXTENDS Compute, TLC

Symmetry == Permutations(Procs)
=============================================================================
