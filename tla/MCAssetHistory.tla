-------------------------- MODULE MCAssetHistory --------------------------
(* Model-checking instance of AssetHistory. *)
EXTENDS AssetHistory, TLC

\* Assets are only compared with each other.
Symmetry == Permutations(Assets)
============================================================================
