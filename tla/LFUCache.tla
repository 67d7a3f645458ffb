------------------------------ MODULE LFUCache ------------------------------
(***************************************************************************)
(* The cache of the router (cache/cache.py): least frequently used, ties   *)
(* broken by least recent use.  Every operation runs under the lock of the *)
(* cache, so each is one action.  The values are left out: Router models   *)
(* what the cache serves, this module which keys it keeps.                 *)
(***************************************************************************)
EXTENDS Integers, Sequences, FiniteSets, SequencesExt

CONSTANTS
    Keys,               \* pairs of a table and a key
    Capacity,           \* capacity
    MaxFreq             \* bound: accesses of a key while it is cached

ASSUME CacheAssumption == Capacity \in Nat /\ MaxFreq \in Nat \ {0}

VARIABLES
    cache,              \* the keys cached
    frequencies,        \* key -> accesses, 0 when not cached
    freq_groups,        \* accesses -> keys, in the order they joined the group
    min_freq,           \* the group evictions are taken from
    recency             \* history: the cached keys, least recently used first

vars == <<cache, frequencies, freq_groups, min_freq, recency>>

\* A group or the history without one of its keys, and the order of two keys in it.
Without(s, k)   == RemoveAt(s, CHOOSE i \in DOMAIN s : s[i] = k)
Before(s, a, b) == \E i, j \in DOMAIN s : i < j /\ s[i] = a /\ s[j] = b

NoGroups == [n \in 0 .. MaxFreq |-> <<>>]
NoFrequencies == [k \in Keys |-> 0]

Init ==
    /\ cache = {} /\ frequencies = NoFrequencies
    /\ freq_groups = NoGroups /\ min_freq = 0
    /\ recency = <<>>

\* Mutation: min_freq stays behind when its group is emptied.
TouchKeepsMin(k) ==
    LET freq == frequencies[k] IN
    /\ k \in cache /\ freq < MaxFreq
    /\ frequencies' = [frequencies EXCEPT ![k] = freq + 1]
    /\ freq_groups' = [freq_groups EXCEPT ![freq] = Without(@, k),
                                          ![freq + 1] = Append(@, k)]
    /\ recency' = Append(Without(recency, k), k)
    /\ UNCHANGED <<cache, min_freq>>

\* A hit of get, or a put of a key that is cached: the key moves to the next
\* group, and min_freq with it if it leaves an empty group behind.
Touch(k) ==
    LET freq == frequencies[k]
        left == Without(freq_groups[freq], k)
    IN
    /\ k \in cache /\ freq < MaxFreq
    /\ frequencies' = [frequencies EXCEPT ![k] = freq + 1]
    /\ freq_groups' = [freq_groups EXCEPT ![freq] = left, ![freq + 1] = Append(@, k)]
    /\ min_freq' = IF left = <<>> /\ min_freq = freq THEN freq + 1 ELSE min_freq
    /\ recency' = Append(Without(recency, k), k)
    /\ UNCHANGED cache

\* A new key that joins the cache with the keys of kept, whose groups and order
\* of use are given.
Insert(k, kept, groups, order) ==
    /\ cache' = kept \cup {k}
    /\ frequencies' = [x \in Keys |-> IF x = k THEN 1 ELSE IF x \in kept THEN frequencies[x] ELSE 0]
    /\ freq_groups' = [groups EXCEPT ![1] = Append(@, k)]
    /\ min_freq' = 1
    /\ recency' = Append(order, k)

\* Mutation: one key too many.
PutLate(k) ==
    /\ Capacity > 0 /\ k \notin cache /\ Cardinality(cache) <= Capacity
    /\ Insert(k, cache, freq_groups, recency)

Put(k) ==
    /\ Capacity > 0 /\ k \notin cache /\ Cardinality(cache) < Capacity
    /\ Insert(k, cache, freq_groups, recency)

\* Mutation: popitem takes the last key of the group.
PutEvictingLast(k) ==
    LET group == freq_groups[min_freq] IN
    /\ Capacity > 0 /\ k \notin cache /\ Cardinality(cache) >= Capacity
    /\ group # <<>>
    /\ Insert(k, cache \ {Last(group)}, [freq_groups EXCEPT ![min_freq] = Front(@)],
              Without(recency, Last(group)))

\* popitem(last=False) on the group of min_freq; it raises if that is empty.
PutEvicting(k) ==
    LET group == freq_groups[min_freq] IN
    /\ Capacity > 0 /\ k \notin cache /\ Cardinality(cache) >= Capacity
    /\ group # <<>>
    /\ Insert(k, cache \ {Head(group)}, [freq_groups EXCEPT ![min_freq] = Tail(@)],
              Without(recency, Head(group)))

\* Mutation: the key stays in its group.
InvalidateKeepsGroup(k) ==
    /\ k \in cache
    /\ cache' = cache \ {k}
    /\ frequencies' = [frequencies EXCEPT ![k] = 0]
    /\ recency' = Without(recency, k)
    /\ UNCHANGED <<freq_groups, min_freq>>

\* min_freq is left alone, although its group may be empty now.
Invalidate(k) ==
    /\ k \in cache
    /\ freq_groups' = [freq_groups EXCEPT ![frequencies[k]] = Without(@, k)]
    /\ cache' = cache \ {k}
    /\ frequencies' = [frequencies EXCEPT ![k] = 0]
    /\ recency' = Without(recency, k)
    /\ UNCHANGED min_freq

Clear ==
    /\ cache' = {} /\ frequencies' = NoFrequencies
    /\ freq_groups' = NoGroups /\ min_freq' = 0
    /\ recency' = <<>>

Next ==
    \/ \E k \in Keys : Touch(k) \/ Put(k) \/ PutEvicting(k) \/ Invalidate(k)
    \/ Clear

Spec == Init /\ [][Next]_vars

----------------------------------------------------------------------------
(* Properties.                                                             *)

\* Types, with never more keys than the capacity.
TypeOK ==
    /\ cache \subseteq Keys /\ Cardinality(cache) <= Capacity
    /\ frequencies \in [Keys -> 0 .. MaxFreq]
    /\ freq_groups \in [0 .. MaxFreq -> Seq(Keys)]
    /\ min_freq \in 0 .. MaxFreq
    /\ recency \in Seq(Keys)

\* The three structures that get, put and invalidate update by hand agree: a key
\* is in the group of its frequency and no other, once, and a group is in the
\* order of last use.
GroupsAgree ==
    /\ \A k \in Keys : k \in cache <=> frequencies[k] > 0
    /\ \A n \in 0 .. MaxFreq :
          /\ IsInjective(freq_groups[n])
          /\ Range(freq_groups[n]) = {k \in cache : frequencies[k] = n}
          /\ \A a, b \in Keys : Before(freq_groups[n], a, b) => Before(recency, a, b)

\* A full cache has a key to evict: popitem never meets an empty group, whatever
\* invalidate did to the group of min_freq before.
VictimExists ==
    Capacity > 0 /\ Cardinality(cache) >= Capacity => freq_groups[min_freq] # <<>>

\* What an insertion evicts was used least often and, of the keys used as often,
\* has gone unused for longest.
EvictsLeastUsed ==
    [][\A k \in cache \ cache', other \in cache :
          cache' \ cache # {} /\ other # k =>
             \/ frequencies[k] < frequencies[other]
             \/ /\ frequencies[k] = frequencies[other]
                /\ Before(recency, k, other)]_vars
=============================================================================
