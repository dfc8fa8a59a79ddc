-------------------------- MODULE MCBpsConsumer --------------------------
(* Model-checking instance of BpsConsumer. *)
EXTENDS BpsConsumer
============================================================================
