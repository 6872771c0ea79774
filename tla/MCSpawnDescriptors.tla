--------------------------- MODULE MCSpawnDescriptors ---------------------------
(* Symmetry for the TLC runs of SpawnDescriptors. *)
EXTENDS SpawnDescriptors, TLC

Symmetry == Permutations(Callers)
================================================================================
