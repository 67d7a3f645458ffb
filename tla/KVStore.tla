------------------------------- MODULE KVStore -------------------------------
(***************************************************************************)
(* What a cachyDB database promises its callers, without WAL, memtables,   *)
(* pages or cache: the writes form one sequence, an open database shows    *)
(* the map that sequence makes, a crash takes away at most a suffix of     *)
(* what is not safe yet, and a close that returns takes away nothing.      *)
(*                                                                         *)
(* A write is named by a number, a later one by a greater number, and the  *)
(* numbers of writes that were lost stay unused: a sequence of writes is a *)
(* function from numbers.  A call that writes several records may be       *)
(* caught by a crash half way: then a part of it, from its start, may have *)
(* taken effect.                                                           *)
(***************************************************************************)
EXTENDS Integers

CONSTANTS
    Keys,
    Values,             \* values, None (deleted, never written) included
    None,
    Hidden              \* what a database that is not open shows

VARIABLES
    mode,               \* "starting", "open", "stopping", "closed", "down"
    history,            \* the writes that took effect, by their numbers
    call,               \* the writes of a call under way
    safe,               \* the numbers of the writes no crash can take away
    shown               \* what get returns for each key

kvvars == <<mode, history, call, safe, shown>>

Writes  == [key : Keys, val : Values]
Nothing == [i \in {} |-> None]

\* The writes of s with numbers in S; s and then t; t can come after s; the
\* numbers in S are the first ones of T.
Part(s, S) == [i \in S |-> s[i]]
Joined(s, t) == [i \in DOMAIN s \cup DOMAIN t |-> IF i \in DOMAIN s THEN s[i] ELSE t[i]]
Follows(t, s) == \A i \in DOMAIN t : i \in Nat /\ t[i] \in Writes /\ \A j \in DOMAIN s : j < i
StartOf(S, T) == S \subseteq T /\ \A i \in S : \A j \in T : j < i => j \in S

\* Put the writes of s, in order, over the map m.
Over(m, s) ==
    [k \in Keys |->
        LET I == {i \in DOMAIN s : s[i].key = k} IN
        IF I = {} THEN m[k] ELSE s[CHOOSE i \in I : \A j \in I : j <= i].val]
Content(s) == Over([k \in Keys |-> None], s)

Init ==
    /\ mode = "starting"
    /\ history = Nothing /\ call = Nothing /\ safe = {}
    /\ shown = Hidden

Up == mode \notin {"closed", "down"}

\* Safety of a write only grows, and reaches the writes in order.
Grows == safe \subseteq safe' /\ StartOf(safe', DOMAIN history')

\* One record, or several, in one step.
Write ==
    LET new == Part(history', DOMAIN history' \ DOMAIN history) IN
    /\ mode = "open" /\ call = Nothing
    /\ new # Nothing /\ Follows(new, history) /\ history' = Joined(history, new)
    /\ shown' = Over(shown, new)
    /\ Grows
    /\ UNCHANGED <<mode, call>>

Begin ==
    /\ mode = "open" /\ call = Nothing
    /\ Follows(call', history)
    /\ UNCHANGED <<mode, history, safe, shown>>

Finish ==
    /\ mode = "open" /\ call # Nothing
    /\ history' = Joined(history, call)
    /\ shown' = Over(shown, call)
    /\ call' = Nothing
    /\ Grows
    /\ UNCHANGED mode

Save ==
    /\ Up
    /\ UNCHANGED <<mode, history, call, shown>>
    /\ Grows

Stop ==
    /\ mode = "open" /\ call = Nothing
    /\ mode' = "stopping" /\ shown' = Hidden
    /\ UNCHANGED <<history, call, safe>>

Stopped ==
    /\ mode = "stopping"
    /\ mode' = "closed" /\ safe' = DOMAIN history
    /\ UNCHANGED <<history, call, shown>>

Crash ==
    /\ Up
    /\ \E S \in SUBSET (DOMAIN history \cup DOMAIN call) :
          /\ safe \subseteq S /\ StartOf(S, DOMAIN history \cup DOMAIN call)
          /\ history' = Part(Joined(history, call), S)
          /\ safe' = S
    /\ mode' = "down" /\ call' = Nothing /\ shown' = Hidden

Start ==
    /\ ~Up
    /\ mode' = "starting"
    /\ UNCHANGED <<history, call, safe, shown>>

Opened ==
    /\ mode = "starting"
    /\ mode' = "open" /\ shown' = Content(history)
    /\ UNCHANGED <<history, call, safe>>

Next ==
    \/ Save \/ Write \/ Begin \/ Finish
    \/ Stop \/ Stopped \/ Crash \/ Start \/ Opened

Spec == Init /\ [][Next]_kvvars
=============================================================================
