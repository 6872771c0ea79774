--------------------------- MODULE MCCommandLine ---------------------------
(* Values for the constants of CommandLine. *)
EXTENDS CommandLine

Symmetry == Permutations(Files) \cup Permutations(Addresses)
============================================================================
