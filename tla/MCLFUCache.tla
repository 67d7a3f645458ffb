----------------------------- MODULE MCLFUCache -----------------------------
(* Instances of LFUCache for TLC: the constants are given in the configurations. *)
EXTENDS LFUCache, TLC
=============================================================================
