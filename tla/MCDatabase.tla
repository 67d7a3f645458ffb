----------------------------- MODULE MCDatabase -----------------------------
(* Instances of Database for TLC: the constants are given in the configurations. *)
EXTENDS Database, TLC

\* Keys only differ by name; used in the runs that check safety only.
DbKeySymmetry == Permutations(Keys)
=============================================================================
