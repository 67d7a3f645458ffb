----------------------------- MODULE MCTableFile -----------------------------
(* Instances of TableFile for TLC. *)
EXTENDS TableFile, TLC

CONSTANTS short, long

\* A short and a long record: a page takes two or three, not four.
MCSizeOf == (short :> 1) @@ (long :> 2)
=============================================================================
