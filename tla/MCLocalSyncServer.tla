------------------------- MODULE MCLocalSyncServer -------------------------
(* Small instances of the local-sync server for TLC.                         *)
EXTENDS LocalSyncServer, TLC

Symmetry == Permutations(Assets) \cup Permutations(Devices) \cup Permutations(Requests)
=============================================================================
