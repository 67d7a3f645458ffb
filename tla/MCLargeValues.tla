--------------------------- MODULE MCLargeValues ---------------------------
(* Instances of LargeValues for TLC: one value of two chunks, one of one. *)
EXTENDS LargeValues

CONSTANTS big, middle, small

MCValues == {big, middle, small}
MCLarge  == {big, middle}
MCParts  == [v \in MCLarge |-> IF v = big THEN 2 ELSE 1]
=============================================================================
