------------------------ MODULE MCWsSubscriptions ------------------------
(* Model-checking instances of WsSubscriptions. *)
EXTENDS WsSubscriptions, TLC

CONSTANTS c1, c2, s1, m1

\* Clients are only compared with each other.
Symmetry == Permutations(Clients)
============================================================================
