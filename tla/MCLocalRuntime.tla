--------------------------- MODULE MCLocalRuntime ---------------------------
(* Small instances of the local runtime for TLC.                             *)
EXTENDS LocalRuntime, TLC

Symmetry == Permutations(Processes)
=============================================================================
