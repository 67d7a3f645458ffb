------------------------------ MODULE MCStorage ------------------------------
(* Instances of Storage for TLC. *)
EXTENDS Storage

CONSTANT MaxKey

MCKeys     == 1 .. MaxKey
MCPayloads == MCKeys \X (0 .. 2)
\* Value 2 makes a longer record.
MCSizeOf   == [r \in MCPayloads |-> IF r[2] = 2 THEN 2 ELSE 1]

\* Small calls: one record, or two.
Small == {<<r>> : r \in {1, 2} \X (0 .. 2)} 
         \cup {<< <<2, 1>>, <<1, 2>> >>, << <<3, 1>>, <<4, 0>> >>}
\* Large calls: all keys, up, across and down.
Large == {[i \in 1 .. MaxKey |-> <<(a * i) % (MaxKey + 1), 1>>] : a \in {1, 7, MaxKey}}

MCBatches == Small \cup Large
=============================================================================
