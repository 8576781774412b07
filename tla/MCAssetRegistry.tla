-------------------------- MODULE MCAssetRegistry --------------------------
(***************************************************************************)
(* One asset with every snapshot over two surfaces; four versions are      *)
(* enough to publish, narrow, restore the wide version and publish again,  *)
(* or to withdraw in between.                                              *)
(***************************************************************************)
EXTENDS AssetRegistry, TLC

AllSnapshots == Snapshot

Symmetry == Permutations(Surfaces)
=============================================================================
