------------------------------ MODULE MCRouter ------------------------------
(* Instances of Router for TLC: the constants are given in the configurations. *)
EXTENDS Router, TLC

\* Keys only differ by name; used in the runs that check safety only.
KeySymmetry == Permutations(Keys)
=============================================================================
