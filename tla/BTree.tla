-------------------------------- MODULE BTree --------------------------------
(***************************************************************************)
(* The B-tree that serves as memtable (index/btree.py): insertion with     *)
(* splits on the way down, search, in-order traversal.  A node is its      *)
(* keys, values and children; a leaf has no children.                      *)
(***************************************************************************)
EXTENDS Integers, Sequences, FiniteSets

LOCAL INSTANCE SequencesExt

CONSTANT T              \* minimum degree

ASSUME BTreeAssumption == T \in Nat /\ T >= 2

NewNode   == [keys |-> <<>>, values |-> <<>>, children |-> <<>>]
EmptyTree == [root |-> NewNode, size |-> 0]

IsLeaf(n) == n.children = <<>>
IsFull(n) == Len(n.keys) = 2 * T - 1

\* bisect_left: the first place whose key is not smaller.
Bisect(keys, k) == 1 + Cardinality({i \in DOMAIN keys : keys[i] < k})
Holds(n, k) == LET i == Bisect(n.keys, k) IN i <= Len(n.keys) /\ n.keys[i] = k

\* search and contains: the values found for k, one or none.
RECURSIVE Find(_, _)
Find(n, k) ==
    LET i == Bisect(n.keys, k) IN
    CASE Holds(n, k) -> {n.values[i]}
      [] ~Holds(n, k) /\ IsLeaf(n) -> {}
      [] OTHER -> Find(n.children[i], k)

\* A key that is there gets its new value in place.
RECURSIVE Update(_, _, _)
Update(n, k, v) ==
    LET i == Bisect(n.keys, k) IN
    IF Holds(n, k) THEN [n EXCEPT !.values[i] = v]
    ELSE [n EXCEPT !.children[i] = Update(@, k, v)]

\* Child i, which is full, becomes two around its median, which moves up.
SplitChild(parent, i) ==
    LET full  == parent.children[i]
        part(a, b) == [keys |-> SubSeq(full.keys, a, b), values |-> SubSeq(full.values, a, b),
                       children |-> IF IsLeaf(full) THEN <<>> ELSE SubSeq(full.children, a, b + 1)]
        halves == [parent.children EXCEPT ![i] = part(1, T - 1)]
    IN  [keys     |-> InsertAt(parent.keys, i, full.keys[T]),
         values   |-> InsertAt(parent.values, i, full.values[T]),
         children |-> InsertAt(halves, i + 1, part(T + 1, 2 * T - 1))]

\* Mutation: after a split the search goes on to the left half.
RECURSIVE InsertNonFullLeft(_, _, _)
InsertNonFullLeft(n, k, v) ==
    LET i == Bisect(n.keys, k) IN
    IF IsLeaf(n)
    THEN [n EXCEPT !.keys = InsertAt(@, i, k), !.values = InsertAt(@, i, v)]
    ELSE LET m == IF IsFull(n.children[i]) THEN SplitChild(n, i) ELSE n
         IN  [m EXCEPT !.children[i] = InsertNonFullLeft(@, k, v)]

RECURSIVE InsertNonFull(_, _, _)
InsertNonFull(n, k, v) ==
    LET i == Bisect(n.keys, k) IN
    IF IsLeaf(n)
    THEN [n EXCEPT !.keys = InsertAt(@, i, k), !.values = InsertAt(@, i, v)]
    ELSE LET m == IF IsFull(n.children[i]) THEN SplitChild(n, i) ELSE n
             j == IF IsFull(n.children[i]) /\ k > m.keys[i] THEN i + 1 ELSE i
         IN  [m EXCEPT !.children[j] = InsertNonFull(@, k, v)]

TreeInsert(tree, k, v) ==
    IF Find(tree.root, k) # {}
    THEN [tree EXCEPT !.root = Update(@, k, v)]
    ELSE LET above == [NewNode EXCEPT !.children = <<tree.root>>]
             root  == IF IsFull(tree.root) THEN SplitChild(above, 1) ELSE tree.root
         IN  [root |-> InsertNonFull(root, k, v), size |-> tree.size + 1]

\* in_order_traversal, as a sequence of <<key, value>>.
RECURSIVE InOrder(_)
InOrder(n) ==
    LET pair(i) == << <<n.keys[i], n.values[i]>> >> IN
    IF IsLeaf(n) THEN [i \in DOMAIN n.keys |-> pair(i)[1]]
    ELSE FlattenSeq([i \in DOMAIN n.children |->
            InOrder(n.children[i]) \o (IF i \in DOMAIN n.keys THEN pair(i) ELSE <<>>)])

----------------------------------------------------------------------------
(* The reference: a tree is a map.                                         *)

RECURSIVE Depths(_)
Depths(n) == IF IsLeaf(n) THEN {0}
             ELSE {d + 1 : d \in UNION {Depths(n.children[i]) : i \in DOMAIN n.children}}

RECURSIVE WellFormed(_)
WellFormed(n) ==
    /\ Len(n.values) = Len(n.keys) /\ Len(n.keys) <= 2 * T - 1
    /\ ~IsLeaf(n) => Len(n.children) = Len(n.keys) + 1
    /\ \A i \in DOMAIN n.children :
          Len(n.children[i].keys) >= T - 1 /\ WellFormed(n.children[i])

\* The tree finds exactly the keys of the map m with their values, traverses them in
\* order, counts them, and has its nodes filled and its leaves level.
IsMap(tree, m) ==
    LET pairs == InOrder(tree.root) IN
    /\ \A k \in DOMAIN m : Find(tree.root, k) = {m[k]}
    /\ {pairs[i] : i \in DOMAIN pairs} = {<<k, m[k]>> : k \in DOMAIN m}
    /\ \A i, j \in DOMAIN pairs : i < j => pairs[i][1] < pairs[j][1]
    /\ tree.size = Len(pairs)
    /\ WellFormed(tree.root) /\ Cardinality(Depths(tree.root)) = 1
=============================================================================
