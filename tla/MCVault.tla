------------------------------ MODULE MCVault ------------------------------
(* Model-checking instance of Vault. *)
EXTENDS Vault, TLC

\* Accounts are only compared with each other, and so are windows.
CONSTANTS a1, a2, w1, w2
Symmetry == Permutations(Accounts) \cup Permutations(Windows)
============================================================================
