---------------------------- MODULE MCCheckpoint ----------------------------
(* Instances of Checkpoint for TLC: the constants are given in the configurations. *)
EXTENDS Checkpoint
=============================================================================
