------------------------------ MODULE MCMemory ------------------------------
(***************************************************************************)
(* Memory with the directories, ids, texts and requests interchangeable:   *)
(* nothing in the module tells two of them apart.                          *)
(***************************************************************************)
EXTENDS Memory, TLC

Symmetry == Permutations(Dirs) \cup Permutations(Ids) \cup Permutations(Texts)
              \cup Permutations(Ops)
=============================================================================
