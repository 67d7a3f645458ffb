------------------------------- MODULE MCWAL -------------------------------
(* Instances of WAL for TLC: the constants are given in the configurations. *)
EXTENDS WAL
=============================================================================
