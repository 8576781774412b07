------------------------- MODULE MCOptimisticReads -------------------------
(* Two assets, read one row at a time onto pages of one asset: each asset is  *)
(* published for the package, for another surface or not at all.             *)
EXTENDS OptimisticReads

CONSTANTS web, agent, text

Draft(lifecycle, status, surface) ==
  [lifecycle |-> lifecycle, status |-> status, surfaces |-> {surface}, content |-> text]

FewInputs == {Draft("active", "approved", web), Draft("active", "approved", agent)}
=============================================================================
