----------------------------- MODULE MCGppCompiler -----------------------------
(* Values and symmetry for the TLC runs of GppCompiler. *)
EXTENDS GppCompiler, TLC

Symmetry == Permutations(Pids) \cup Permutations(Workspaces)
================================================================================
