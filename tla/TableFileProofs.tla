--------------------------- MODULE TableFileProofs ---------------------------
(***************************************************************************)
(* Pages stay sound, a slot id keeps its record, and a record that was     *)
(* synced survives, for every size of pages, headers and slot entries,     *)
(* every set of records, number of pages, writes and crashes.              *)
(***************************************************************************)
EXTENDS TableFile, Extremes, TLAPS

Byte     == {Zero} \cup {<<e>> : e \in Int} \cup (Payloads \X Int)
PageType == [lower : Int, upper : Int, slots : Seq(Slots), data : [Offsets -> Byte]]

\* The records fit between upper and the end of the page when they are moved together,
\* so that repacking gives room and takes none.
Room(p) == Repacked(p)[Len(p.slots)] >= p.upper

Good(p) == p \in PageType /\ Sound(p) /\ Room(p)

\* A page object has every slot its page in the file has, and the records that both
\* have are the same.
Current(p, raw) ==
    /\ Len(raw.slots) <= Len(p.slots)
    /\ \A s \in Live(raw) \cap Live(p) : GetRecord(p, s) = GetRecord(raw, s)

\* The page has the record t was synced as.
Holds(p, t) == t[2] \in Live(p) /\ GetRecord(p, t[2]) = Bytes(t[3])

Typed ==
    /\ file \in Seq(PageType) /\ disk \in Seq(PageType)
    /\ Len(disk) <= Len(file) /\ Len(file) <= MaxPages
    /\ page_cache \in [DOMAIN page_cache -> PageType] /\ DOMAIN page_cache \subseteq DOMAIN file
    /\ unsynced \in [Pages -> SUBSET PageType]

\* Only a crash leaves pages that are not good, and these are recognized.
AllGood ==
    /\ \A i \in DOMAIN page_cache : Good(page_cache[i])
    /\ \A i \in DOMAIN file : file[i] = Damaged \/ Good(file[i])
    /\ \A i \in DOMAIN disk : disk[i] = Damaged \/ Good(disk[i])
    /\ \A i \in Pages : \A raw \in unsynced[i] : Good(raw)

CacheCurrent == \A i \in DOMAIN page_cache : Current(page_cache[i], file[i])

\* What a crash may leave of a page has its synced records.
SafeOK ==
    \A t \in safe :
        /\ t[1] \in DOMAIN disk
        /\ disk[t[1]] = Damaged \/ Holds(disk[t[1]], t)
        /\ file[t[1]] = Damaged \/ Holds(file[t[1]], t)
        /\ \A raw \in unsynced[t[1]] : Holds(raw, t)
        /\ t[1] \in DOMAIN page_cache => Holds(page_cache[t[1]], t)

TInv == Typed /\ AllGood /\ CacheCurrent /\ SafeOK

----------------------------------------------------------------------------
(* Moving the records together. *)

\* The fields of a slot.
LEMMA SlotFields ==
    ASSUME NEW p, p.slots \in Seq(Slots)
    PROVE  /\ Len(p.slots) \in Nat /\ DOMAIN p.slots = 1 .. Len(p.slots) /\ PageSize \in Nat
           /\ \A s \in 1 .. Len(p.slots) :
                 /\ p.slots[s] \in Slots
                 /\ p.slots[s].off \in 0 .. PageSize /\ p.slots[s].len \in 0 .. PageSize
<1>1. Len(p.slots) \in Nat /\ DOMAIN p.slots = 1 .. Len(p.slots) /\ PageSize \in Nat
  BY PagerAssumption
<1>2. \A s \in 1 .. Len(p.slots) : p.slots[s] \in Slots
  OBVIOUS
<1>3. \A e \in Slots : e.off \in 0 .. PageSize /\ e.len \in 0 .. PageSize
  BY DEF Slots
<1> QED
  BY <1>1, <1>2, <1>3

\* The recursive function Repacked exists and satisfies its equations.
LEMMA RepackedIs ==
    ASSUME NEW p, p.slots \in Seq(Slots)
    PROVE  /\ Repacked(p) \in [0 .. Len(p.slots) -> Int]
           /\ Repacked(p)[0] = PageSize
           /\ \A s \in 1 .. Len(p.slots) : Repacked(p)[s] = Repacked(p)[s - 1] - p.slots[s].len
<1> DEFINE n == Len(p.slots)
           len(s) == p.slots[s].len
           Is(g, m) == g = [s \in 0 .. m |-> IF s = 0 THEN PageSize ELSE g[s - 1] - p.slots[s].len]
           u == Repacked(p)
<1>1. n \in Nat /\ PageSize \in Int /\ \A s \in 1 .. n : len(s) \in Int
  BY SlotFields
<1>2. \A m \in 0 .. n : \E g : Is(g, m)
  <2> DEFINE Bad == {m \in 0 .. n : ~\E g : Is(g, m)}
  <2>1. SUFFICES ASSUME Bad # {} PROVE FALSE
    OBVIOUS
  <2>2. PICK m \in Bad : \A k \in Bad : m <= k
    <3>1. Bad \subseteq Nat
      BY <1>1
    <3> HIDE DEF Bad
    <3> QED
      BY <2>1, <3>1, Least
  <2>3. CASE m = 0
    <3> DEFINE g == [s \in 0 .. 0 |-> PageSize]
    <3>1. Is(g, 0)
      OBVIOUS
    <3> QED
      BY <3>1, <2>2, <2>3
  <2>4. CASE m # 0
    <3>1. m - 1 \in 0 .. n /\ m - 1 \notin Bad
      BY <2>2, <2>4, <1>1
    <3>2. PICK g : Is(g, m - 1)
      BY <3>1
    <3> DEFINE h == [s \in 0 .. m |-> IF s = m THEN g[m - 1] - p.slots[m].len ELSE g[s]]
    <3>3. \A s \in 0 .. m - 1 : g[s] = IF s = 0 THEN PageSize ELSE g[s - 1] - p.slots[s].len
      BY <3>2
    <3>4. ASSUME NEW s \in 0 .. m
          PROVE  h[s] = IF s = 0 THEN PageSize ELSE h[s - 1] - p.slots[s].len
      <4>1. CASE s = m
        <5>1. s - 1 \in 0 .. m /\ s - 1 # m
          BY <4>1, <2>4, <3>1
        <5> QED
          BY <4>1, <5>1, <2>4
      <4>2. CASE s # m
        <5>1. h[s] = g[s] /\ s \in 0 .. m - 1
          BY <4>2, <3>1
        <5>2. s # 0 => s - 1 \in 0 .. m /\ s - 1 # m /\ h[s - 1] = g[s - 1]
          BY <4>2, <3>1
        <5> HIDE DEF h
        <5> QED
          BY <5>1, <5>2, <3>3
      <4> QED
        BY <4>1, <4>2
    <3>5. Is(h, m)
      <4> DEFINE k == [s \in 0 .. m |-> IF s = 0 THEN PageSize ELSE h[s - 1] - p.slots[s].len]
      <4>1. DOMAIN h = 0 .. m /\ DOMAIN k = 0 .. m /\ h = [s \in 0 .. m |-> h[s]] /\ \A s \in 0 .. m : k[s] = h[s]
        BY <3>4
      <4>2. k = [s \in 0 .. m |-> k[s]]
        OBVIOUS
      <4> HIDE DEF h, k
      <4>3. h = k
        BY <4>1, <4>2
      <4> QED
        BY <4>3 DEF k
    <3> HIDE DEF h, Is
    <3>6. m \notin Bad
      BY <3>5
    <3> QED
      BY <3>6, <2>2
  <2> QED
    BY <2>3, <2>4
<1>3. Is(u, n)
  <2>1. \E g : Is(g, n)
    BY <1>1, <1>2
  <2> QED
    BY <2>1 DEF Repacked
<1>4. \A s \in 0 .. n : u[s] = IF s = 0 THEN PageSize ELSE u[s - 1] - len(s)
  BY <1>3
<1>5. u = [s \in 0 .. n |-> u[s]]
  BY <1>3
<1> HIDE DEF u, n, len
<1>6. \A s \in 0 .. n : u[s] \in Int
  <2> DEFINE Bad == {m \in 0 .. n : u[m] \notin Int}
  <2>1. SUFFICES ASSUME Bad # {} PROVE FALSE
    OBVIOUS
  <2>2. PICK m \in Bad : \A k \in Bad : m <= k
    <3>1. Bad \subseteq Nat
      BY <1>1
    <3> HIDE DEF Bad
    <3> QED
      BY <2>1, <3>1, Least
  <2>3. m # 0
    BY <2>2, <1>1, <1>4
  <2>4. m - 1 \in 0 .. n /\ m - 1 \notin Bad
    BY <2>2, <2>3, <1>1
  <2>5. u[m - 1] \in Int /\ m \in 1 .. n
    BY <2>2, <2>3, <2>4, <1>1
  <2> QED
    BY <2>2, <2>5, <1>1, <1>4
<1>7. u[0] = PageSize /\ \A s \in 1 .. n : u[s] = u[s - 1] - len(s)
  BY <1>1, <1>4
<1>8. u \in [0 .. n -> Int]
  BY <1>5, <1>6
<1> QED
  BY <1>7, <1>8 DEF u, n, len

\* Records are laid out downwards, one below the other.
LEMMA RepackedDown ==
    ASSUME NEW p, p.slots \in Seq(Slots),
           NEW a \in 0 .. Len(p.slots), NEW b \in a .. Len(p.slots)
    PROVE  Repacked(p)[b] <= Repacked(p)[a]
<1> DEFINE n == Len(p.slots)
           u == Repacked(p)
           len(s) == p.slots[s].len
           Bad == {c \in a .. n : u[c] > u[a]}
<1>1. u \in [0 .. n -> Int] /\ \A s \in 1 .. n : u[s] = u[s - 1] - len(s)
  BY RepackedIs
<1>2. n \in Nat /\ \A s \in 1 .. n : len(s) \in Nat
  BY SlotFields
<1> HIDE DEF n, u, len
<1>3. SUFFICES ASSUME Bad # {} PROVE FALSE
  <2>1. a \in 0 .. n /\ b \in a .. n
    BY DEF n
  <2> QED
    BY <2>1, <1>1, <1>2 DEF n, u
<1>4. PICK c \in Bad : \A k \in Bad : c <= k
  <2>1. Bad \subseteq Nat
    BY <1>2 DEF n
  <2> HIDE DEF Bad
  <2> QED
    BY <1>3, <2>1, Least
<1>5. a \in 0 .. n
  BY DEF n
<1>6. c # a
  BY <1>1, <1>4, <1>5
<1>7. c - 1 \in a .. n /\ c - 1 \notin Bad /\ c \in 1 .. n
  BY <1>2, <1>4, <1>5, <1>6
<1> QED
  BY <1>1, <1>2, <1>4, <1>5, <1>7

\* Shorter records leave more room.
LEMMA RepackedShorter ==
    ASSUME NEW p, p.slots \in Seq(Slots), NEW q, q.slots \in Seq(Slots),
           NEW m \in 0 .. Len(p.slots), m <= Len(q.slots),
           \A s \in 1 .. m : q.slots[s].len <= p.slots[s].len
    PROVE  \A s \in 0 .. m : Repacked(p)[s] <= Repacked(q)[s]
<1> DEFINE n == Len(p.slots)
           k == Len(q.slots)
           u == Repacked(p)
           v == Repacked(q)
           lp(s) == p.slots[s].len
           lq(s) == q.slots[s].len
           Bad == {s \in 0 .. m : u[s] > v[s]}
<1>1. u \in [0 .. n -> Int] /\ u[0] = PageSize /\ \A s \in 1 .. n : u[s] = u[s - 1] - lp(s)
  BY RepackedIs
<1>2. v \in [0 .. k -> Int] /\ v[0] = PageSize /\ \A s \in 1 .. k : v[s] = v[s - 1] - lq(s)
  BY RepackedIs
<1>3. n \in Nat /\ k \in Nat /\ m \in 0 .. n /\ m <= k /\ PageSize \in Int
  BY PagerAssumption
<1>4. \A s \in 1 .. m : lp(s) \in Int /\ lq(s) \in Int /\ lq(s) <= lp(s)
  BY SlotFields
<1> HIDE DEF n, k, u, v, lp, lq
<1>5. SUFFICES ASSUME Bad # {} PROVE FALSE
  <2>1. \A s \in 0 .. m : u[s] \in Int /\ v[s] \in Int
    BY <1>1, <1>2, <1>3
  <2> QED
    BY <2>1 DEF u, v
<1>6. PICK c \in Bad : \A i \in Bad : c <= i
  <2>1. Bad \subseteq Nat
    BY <1>3
  <2> HIDE DEF Bad
  <2> QED
    BY <1>5, <2>1, Least
<1>7. c # 0
  BY <1>1, <1>2, <1>3, <1>6
<1>8. c - 1 \in 0 .. m /\ c - 1 \notin Bad /\ c \in 1 .. m /\ c \in 1 .. n /\ c \in 1 .. k
  BY <1>3, <1>6, <1>7
<1>9. u[c - 1] \in Int /\ v[c - 1] \in Int /\ u[c - 1] <= v[c - 1]
  BY <1>1, <1>2, <1>3, <1>8
<1> QED
  BY <1>1, <1>2, <1>4, <1>6, <1>8, <1>9

----------------------------------------------------------------------------
(* What the operations of a page keep. *)

\* q has the slots of p and more, and reads the same in each that it has not deleted.
Keeps(q, p) ==
    /\ Len(p.slots) <= Len(q.slots)
    /\ \A s \in DOMAIN p.slots : s \in Live(q) => s \in Live(p) /\ GetRecord(q, s) = GetRecord(p, s)

\* The fields of a good page.
LEMMA GoodFields ==
    ASSUME NEW p, Good(p)
    PROVE  /\ p \in PageType /\ p.slots \in Seq(Slots) /\ Len(p.slots) \in Nat
           /\ DOMAIN p.slots = 1 .. Len(p.slots) /\ p.data \in [Offsets -> Byte]
           /\ PageSize \in Nat /\ HeaderSize \in Nat \ {0} /\ SlotSize \in Nat \ {0}
           /\ p.lower \in Nat /\ p.lower > 0 /\ p.upper \in Nat
           /\ p.lower <= p.upper /\ p.upper <= PageSize
           /\ \A s \in Live(p) : /\ s \in 1 .. Len(p.slots)
                                 /\ p.slots[s].off \in Nat /\ p.slots[s].len \in Nat
                                 /\ p.upper <= p.slots[s].off
                                 /\ p.slots[s].off + p.slots[s].len <= PageSize
<1>1. p \in PageType /\ Sound(p) /\ p.slots \in Seq(Slots)
  BY DEF Good, Sound
<1>2. /\ Len(p.slots) \in Nat /\ DOMAIN p.slots = 1 .. Len(p.slots) /\ PageSize \in Nat
      /\ \A s \in 1 .. Len(p.slots) :
            p.slots[s].off \in 0 .. PageSize /\ p.slots[s].len \in 0 .. PageSize
  BY <1>1, SlotFields
<1>3. p.data \in [Offsets -> Byte]
  BY <1>1 DEF PageType
<1>4. HeaderSize \in Nat \ {0} /\ SlotSize \in Nat \ {0}
  BY PagerAssumption
<1>5. p.lower = HeaderSize + SlotSize * Len(p.slots) /\ p.upper \in p.lower .. PageSize
  BY <1>1 DEF Sound
<1>6. SlotSize * Len(p.slots) \in Nat
  BY <1>2, <1>4, SMT
<1>7. p.lower \in Nat /\ p.lower > 0
  BY <1>4, <1>5, <1>6
<1>10. p.upper \in Nat /\ p.lower <= p.upper /\ p.upper <= PageSize
  <2> DEFINE a == p.lower
  <2>1. a \in Nat /\ p.upper \in a .. PageSize
    BY <1>5, <1>7
  <2> HIDE DEF a
  <2>2. p.upper \in Nat /\ a <= p.upper /\ p.upper <= PageSize
    BY <1>2, <2>1
  <2> QED
    BY <2>2 DEF a
<1>8. \A s \in Live(p) : /\ s \in 1 .. Len(p.slots)
                         /\ p.upper <= p.slots[s].off
                         /\ p.slots[s].off + p.slots[s].len <= PageSize
  BY <1>1, <1>2 DEF Sound, Live
<1>9. \A s \in Live(p) : p.slots[s].off \in Nat /\ p.slots[s].len \in Nat
  BY <1>2, <1>8
<1> QED
  BY <1>1, <1>2, <1>3, <1>4, <1>7, <1>8, <1>9, <1>10

\* An empty page is good, as written too.
LEMMA NewGood == Good(ToBytes(NewPage))
<1> DEFINE q == ToBytes(NewPage)
<1>1. PageSize \in Nat /\ HeaderSize \in Nat \ {0} /\ HeaderSize <= PageSize /\ SlotSize \in Nat
  BY PagerAssumption
<1>2. NewPage.slots = <<>> /\ Len(NewPage.slots) = 0 /\ NewPage.data = [x \in Offsets |-> Zero]
  BY DEF NewPage
<1>3. q = [lower |-> HeaderSize, upper |-> PageSize, slots |-> <<>>, data |-> q.data]
  BY DEF ToBytes, NewPage
<1>4. q.data = [x \in Offsets |-> Zero]
  <2>1. SlotSize * 0 = 0
    BY <1>1, SMT
  <2>2. ~(HeaderSize <= 0 /\ FALSE) /\ \A x \in Int : ~(HeaderSize <= x /\ x < HeaderSize + 0)
    BY <1>1
  <2>3. q.data = [x \in Offsets |->
            IF HeaderSize <= x /\ x < HeaderSize + SlotSize * Len(NewPage.slots)
            THEN <<(x - HeaderSize) \div SlotSize + 1>> ELSE NewPage.data[x]]
    BY DEF ToBytes, NewPage
  <2>4. \A x \in Offsets : x \in Int
    BY DEF Offsets
  <2>5. \A x \in Offsets : q.data[x] = Zero
    BY <1>1, <1>2, <2>1, <2>2, <2>3, <2>4
  <2> QED
    BY <2>3, <2>5
<1>12. q.slots = <<>> /\ q.lower = HeaderSize /\ q.upper = PageSize
  BY DEF ToBytes, NewPage
<1>5. q.slots = <<>> /\ q.slots \in Seq(Slots) /\ Len(q.slots) = 0 /\ q.lower = HeaderSize /\ q.upper = PageSize
  BY <1>12
<1>6. q \in PageType
  <2> DEFINE d == q.data
  <2>1. d \in [Offsets -> Byte]
    BY <1>4 DEF Byte
  <2>2. <<>> \in Seq(Slots)
    OBVIOUS
  <2> HIDE DEF d
  <2>3. [lower |-> HeaderSize, upper |-> PageSize, slots |-> <<>>, data |-> d] \in PageType
    BY <1>1, <2>1, <2>2 DEF PageType
  <2> QED
    BY <1>3, <2>3 DEF d
<1>7. SlotSize * 0 = 0
  BY <1>1, SMT
<1>8. DOMAIN q.slots = {}
  BY <1>5
<1> HIDE DEF q
<1>9. Live(q) = {}
  BY <1>8 DEF Live
<1>10. Sound(q)
  BY <1>1, <1>4, <1>5, <1>7, <1>9 DEF Sound
<1>11. Room(q)
  <2>1. Repacked(q)[0] = PageSize
    BY <1>5, RepackedIs
  <2> QED
    BY <1>1, <1>5, <2>1 DEF Room
<1> QED
  BY <1>6, <1>10, <1>11 DEF Good, q

\* Insertion takes bytes no record has.
LEMMA InsertKeeps ==
    ASSUME NEW p, Good(p), NEW r \in Payloads, HasSpaceFor(p, SizeOf[r])
    PROVE  LET q == InsertRecord(p, r)
           IN  Good(q) /\ Keeps(q, p) /\ Live(p) \subseteq Live(q)
<1> DEFINE n    == Len(p.slots)
           size == SizeOf[r]
           slot == [off |-> p.upper - size, len |-> size]
           q    == InsertRecord(p, r)
<1>1. /\ p \in PageType /\ p.slots \in Seq(Slots) /\ n \in Nat /\ DOMAIN p.slots = 1 .. n
      /\ p.data \in [Offsets -> Byte] /\ PageSize \in Nat
      /\ HeaderSize \in Nat /\ SlotSize \in Nat \ {0}
      /\ p.lower \in Nat /\ p.lower > 0 /\ p.upper \in Nat
      /\ p.lower <= p.upper /\ p.upper <= PageSize
      /\ \A s \in Live(p) : /\ s \in 1 .. n
                            /\ p.slots[s].off \in Nat /\ p.slots[s].len \in Nat
                            /\ p.upper <= p.slots[s].off
                            /\ p.slots[s].off + p.slots[s].len <= PageSize
  BY GoodFields
<1>2. size \in Nat \ {0} /\ p.upper - p.lower >= SlotSize + size
  BY PagerAssumption DEF HasSpaceFor
<1>3. /\ q.lower = p.lower + SlotSize /\ q.upper = p.upper - size /\ q.slots = Append(p.slots, slot)
      /\ q.data = [x \in Offsets |-> IF Within(x, slot) THEN <<r, x - slot.off>> ELSE p.data[x]]
      /\ q = [lower |-> q.lower, upper |-> q.upper, slots |-> q.slots, data |-> q.data]
  BY DEF InsertRecord
<1> HIDE DEF q, n, size
<1>4. slot \in Slots /\ slot # Tombstone /\ slot.off = p.upper - size /\ slot.len = size
  <2>1. p.upper - size \in 0 .. PageSize /\ size \in 0 .. PageSize /\ size # 0
    BY <1>1, <1>2
  <2> QED
    BY <2>1 DEF Slots, Tombstone
<1>5. /\ q.slots \in Seq(Slots) /\ Len(q.slots) = n + 1 /\ DOMAIN q.slots = 1 .. n + 1
      /\ q.slots[n + 1] = slot /\ \A s \in 1 .. n : q.slots[s] = p.slots[s]
  BY <1>1, <1>3, <1>4 DEF n
<1> HIDE DEF slot
<1>6. Live(q) = Live(p) \cup {n + 1}
  BY <1>1, <1>4, <1>5 DEF Live
<1>7. q.data \in [Offsets -> Byte]
  <2>1. \A x \in Offsets : x \in Int
    BY DEF Offsets
  <2>2. \A x \in Offsets : <<r, x - slot.off>> \in Byte
    BY <1>1, <1>2, <1>4, <2>1 DEF Byte
  <2> QED
    BY <1>1, <1>3, <2>2
<1>8. q.lower \in Int /\ q.upper \in Int
  BY <1>1, <1>2, <1>3
<1>9. q \in PageType
  BY <1>3, <1>5, <1>7, <1>8 DEF PageType
<1>10. Sound(q)
  <2>1. q.lower = HeaderSize + SlotSize * Len(q.slots)
    <3>1. SlotSize * (n + 1) = SlotSize * n + SlotSize
      BY <1>1, SMT
    <3> DEFINE a == SlotSize * n
    <3>2. a \in Int
      BY <1>1, SMT
    <3> HIDE DEF a
    <3>5. p.lower = HeaderSize + a
      BY DEF Good, Sound, a, n
    <3>3. p.lower = HeaderSize + a /\ SlotSize * (n + 1) = a + SlotSize
      BY <3>1, <3>5 DEF a
    <3>4. q.lower = HeaderSize + (a + SlotSize)
      BY <1>1, <1>3, <3>2, <3>3
    <3> QED
      BY <1>5, <3>3, <3>4
  <2>2. q.upper \in q.lower .. PageSize
    BY <1>1, <1>2, <1>3
  <2>3. \A s \in Live(p) : q.slots[s] = p.slots[s] /\ s # n + 1
    BY <1>1, <1>5
  <2>4. \A s \in Live(q) : q.upper <= q.slots[s].off /\ q.slots[s].off + q.slots[s].len <= PageSize
    <3> TAKE s \in Live(q)
    <3>1. CASE s \in Live(p)
      BY SMTT(30), <3>1, <2>3, <1>1, <1>2, <1>3
    <3>2. CASE s = n + 1
      BY <3>2, <1>1, <1>2, <1>3, <1>4, <1>5
    <3> QED
      BY <1>6, <3>1, <3>2
  <2>5. \A s, t \in Live(q) :
           s # t => \/ q.slots[s].off + q.slots[s].len <= q.slots[t].off
                    \/ q.slots[t].off + q.slots[t].len <= q.slots[s].off
    <3> TAKE s, t \in Live(q)
    <3>1. CASE s \in Live(p) /\ t \in Live(p)
      BY <3>1, <2>3 DEF Good, Sound
    <3>2. CASE s = n + 1 /\ t \in Live(p)
      <4>1. q.slots[s].off + q.slots[s].len = p.upper
        BY <3>2, <1>1, <1>2, <1>4, <1>5
      <4> QED
        BY <3>2, <4>1, <2>3, <1>1
    <3>3. CASE t = n + 1 /\ s \in Live(p)
      <4>1. q.slots[t].off + q.slots[t].len = p.upper
        BY <3>3, <1>1, <1>2, <1>4, <1>5
      <4> QED
        BY <3>3, <4>1, <2>3, <1>1
    <3> QED
      BY <1>6, <3>1, <3>2, <3>3
  <2> QED
    BY <1>5, <1>7, <2>1, <2>2, <2>4, <2>5 DEF Sound
<1>11. Room(q)
  <2> DEFINE u == Repacked(p)
             v == Repacked(q)
  <2>1. \A s \in 1 .. n : q.slots[s].len <= p.slots[s].len
    BY <1>1, <1>5, SlotFields DEF n
  <2>2. n \in 0 .. Len(p.slots) /\ n <= Len(q.slots)
    BY <1>1, <1>5 DEF n
  <2>3. u[n] <= v[n]
    BY SMTT(30), <1>1, <1>5, <2>1, <2>2, RepackedShorter
  <2>4. v[n + 1] = v[n] - size /\ u[n] \in Int /\ v[n] \in Int
    <3>1. n + 1 \in 1 .. n + 1 /\ n + 1 - 1 = n /\ n \in 0 .. n + 1 /\ n \in 0 .. n
      BY <1>1
    <3>2. v \in [0 .. n + 1 -> Int] /\ \A s \in 1 .. n + 1 : v[s] = v[s - 1] - q.slots[s].len
      BY <1>5, RepackedIs
    <3>3. u \in [0 .. n -> Int]
      BY <1>1, RepackedIs DEF n
    <3> QED
      BY <3>1, <3>2, <3>3, <1>4, <1>5
  <2>5. u[n] >= p.upper
    BY DEF Good, Room, n
  <2> HIDE DEF u, v
  <2>6. v[n + 1] >= q.upper
    BY <1>1, <1>2, <1>3, <2>3, <2>4, <2>5
  <2> QED
    BY <2>6, <1>5 DEF Room, v
<1>12. Keeps(q, p)
  <2> SUFFICES ASSUME NEW s \in 1 .. n, s \in Live(q)
               PROVE  s \in Live(p) /\ GetRecord(q, s) = GetRecord(p, s)
    BY <1>1, <1>5 DEF Keeps, n
  <2>1. s \in Live(p) /\ q.slots[s] = p.slots[s]
    BY <1>1, <1>5, <1>6
  <2>2. \A i \in 0 .. p.slots[s].len - 1 : q.data[p.slots[s].off + i] = p.data[p.slots[s].off + i]
    <3> TAKE i \in 0 .. p.slots[s].len - 1
    <3>1. p.slots[s].off + i \in Offsets /\ p.slots[s].off + i >= p.upper
      BY SMTT(30), <1>1, <2>1 DEF Offsets
    <3>2. ~Within(p.slots[s].off + i, slot)
      BY <1>1, <1>2, <1>4, <3>1 DEF Within, Offsets
    <3> QED
      BY <1>3, <3>1, <3>2
  <2> QED
    BY <2>1, <2>2 DEF GetRecord
<1> QED
  BY <1>6, <1>9, <1>10, <1>11, <1>12 DEF Good, q

\* Deletion zeroes bytes no other record has.
LEMMA DeleteKeeps ==
    ASSUME NEW p, Good(p), NEW d \in Live(p)
    PROVE  LET q == DeleteRecord(p, d)
           IN  Good(q) /\ Keeps(q, p) /\ Live(p) \ {d} \subseteq Live(q)
<1> DEFINE n == Len(p.slots)
           q == DeleteRecord(p, d)
<1>1. /\ p \in PageType /\ p.slots \in Seq(Slots) /\ n \in Nat /\ DOMAIN p.slots = 1 .. n
      /\ p.data \in [Offsets -> Byte] /\ PageSize \in Nat
      /\ p.lower \in Nat /\ p.lower > 0 /\ p.upper \in Nat
      /\ p.lower <= p.upper /\ p.upper <= PageSize
      /\ \A s \in Live(p) : /\ s \in 1 .. n
                            /\ p.slots[s].off \in Nat /\ p.slots[s].len \in Nat
                            /\ p.upper <= p.slots[s].off
                            /\ p.slots[s].off + p.slots[s].len <= PageSize
  BY GoodFields
<1> DEFINE data == [x \in Offsets |-> IF Within(x, p.slots[d]) THEN Zero ELSE p.data[x]]
           slots == [p.slots EXCEPT ![d] = Tombstone]
<1>2. q = [lower |-> p.lower, upper |-> p.upper, slots |-> slots, data |-> data]
  <2>1. p \in [lower : Int, upper : Int, slots : Seq(Slots), data : [Offsets -> Byte]]
    BY <1>1 DEF PageType
  <2>2. q = [p EXCEPT !.slots[d] = Tombstone, !.data = data]
    BY DEF DeleteRecord
  <2> HIDE DEF q, data
  <2>3. q = [p EXCEPT !.slots = [p.slots EXCEPT ![d] = Tombstone], !.data = data]
    BY <2>1, <2>2
  <2>4. q = [p EXCEPT !.slots = slots, !.data = data]
    BY <2>3
  <2> HIDE DEF slots
  <2> QED
    BY <2>1, <2>4
<1>3. data \in [Offsets -> Byte] /\ Tombstone \in Slots
  <2>1. data \in [Offsets -> Byte]
    BY <1>1 DEF Byte
  <2>2. Tombstone \in Slots
    BY <1>1 DEF Slots, Tombstone
  <2> QED
    BY <2>1, <2>2
<1>4. /\ slots \in Seq(Slots) /\ Len(slots) = n /\ DOMAIN slots = 1 .. n /\ slots[d] = Tombstone
      /\ \A s \in 1 .. n : s # d => slots[s] = p.slots[s]
  BY <1>1, <1>3
<1>5. q \in PageType
  <2> HIDE DEF data, slots, n, q
  <2>1. p.lower \in Int /\ p.upper \in Int
    BY <1>1
  <2> QED
    BY <1>2, <1>3, <1>4, <2>1 DEF PageType
<1>6. q.lower = p.lower /\ q.upper = p.upper /\ q.slots = slots /\ q.data = data
  BY <1>2
<1> HIDE DEF q, slots, n
<1>7. Live(q) = Live(p) \ {d}
  BY <1>1, <1>4, <1>6 DEF Live
<1>8. \A s \in Live(q) : s \in Live(p) /\ s # d /\ q.slots[s] = p.slots[s]
  BY <1>1, <1>4, <1>6, <1>7
<1>9. Sound(q)
  <2>1. /\ p.lower = HeaderSize + SlotSize * Len(p.slots) /\ p.upper \in p.lower .. PageSize
        /\ \A s, t \in Live(p) :
              s # t => \/ p.slots[s].off + p.slots[s].len <= p.slots[t].off
                       \/ p.slots[t].off + p.slots[t].len <= p.slots[s].off
    BY DEF Good, Sound
  <2>2. q.lower = HeaderSize + SlotSize * Len(q.slots) /\ q.upper \in q.lower .. PageSize
    BY <1>4, <1>6, <2>1 DEF n
  <2>3. \A s, t \in Live(q) :
           s # t => \/ q.slots[s].off + q.slots[s].len <= q.slots[t].off
                    \/ q.slots[t].off + q.slots[t].len <= q.slots[s].off
    BY <1>8, <2>1
  <2>4. \A s \in Live(q) : q.upper <= q.slots[s].off /\ q.slots[s].off + q.slots[s].len <= PageSize
    BY <1>1, <1>6, <1>8
  <2>5. q.slots \in Seq(Slots) /\ DOMAIN q.data = Offsets
    BY <1>3, <1>4, <1>6
  <2> QED
    BY <2>2, <2>3, <2>4, <2>5 DEF Sound
<1>10. Room(q)
  <2> DEFINE u == Repacked(p)
             v == Repacked(q)
  <2>1. \A s \in 1 .. n : q.slots[s].len <= p.slots[s].len
    <3> TAKE s \in 1 .. n
    <3>1. p.slots[s].len \in Nat
      BY <1>1, SlotFields DEF n
    <3>2. s # d => q.slots[s].len = p.slots[s].len
      BY <1>4, <1>6
    <3>3. s = d => q.slots[s].len = 0
      BY <1>4, <1>6 DEF Tombstone
    <3> QED
      BY <3>1, <3>2, <3>3
  <2>2. n \in 0 .. Len(p.slots) /\ n <= Len(q.slots)
    BY <1>1, <1>4, <1>6 DEF n
  <2>7. p.slots \in Seq(Slots) /\ q.slots \in Seq(Slots) /\ n \in 0 .. n
    BY <1>1, <1>4, <1>6
  <2>3. u[n] <= v[n]
    <3> HIDE DEF data
    <3>1. \A s \in 0 .. n : u[s] <= v[s]
      BY <2>1, <2>2, <2>7, RepackedShorter
    <3> QED
      BY <2>7, <3>1
  <2>4. u[n] \in Int /\ v[n] \in Int
    <3>1. n \in 0 .. n
      BY <1>1
    <3>2. u \in [0 .. n -> Int]
      BY <1>1, RepackedIs DEF n
    <3>3. v \in [0 .. n -> Int]
      BY <1>4, <1>6, RepackedIs DEF n
    <3> QED
      BY <3>1, <3>2, <3>3
  <2>5. u[n] >= p.upper
    BY DEF Good, Room, n
  <2> HIDE DEF u, v
  <2>6. v[n] >= q.upper
    BY <1>1, <1>6, <2>3, <2>4, <2>5
  <2> QED
    BY <2>6, <1>4, <1>6 DEF Room, v
<1>11. Keeps(q, p)
  <2> SUFFICES ASSUME NEW s \in 1 .. n, s \in Live(q)
               PROVE  s \in Live(p) /\ GetRecord(q, s) = GetRecord(p, s)
    <3>1. Len(p.slots) <= Len(q.slots)
      BY <1>1, <1>4, <1>6 DEF n
    <3> QED
      BY <1>1, <3>1 DEF Keeps
  <2>1. s \in Live(p) /\ q.slots[s] = p.slots[s] /\ s # d
    BY <1>8
  <2>2. \A i \in 0 .. p.slots[s].len - 1 : q.data[p.slots[s].off + i] = p.data[p.slots[s].off + i]
    <3> TAKE i \in 0 .. p.slots[s].len - 1
    <3>1. p.slots[s].off + i \in Offsets
      BY SMTT(30), <1>1, <2>1 DEF Offsets
    <3>2. \/ p.slots[s].off + p.slots[s].len <= p.slots[d].off
          \/ p.slots[d].off + p.slots[d].len <= p.slots[s].off
      BY <2>1 DEF Good, Sound
    <3>3. ~Within(p.slots[s].off + i, p.slots[d])
      <4> DEFINE a == p.slots[s].off
                 l == p.slots[s].len
                 b == p.slots[d].off
                 m == p.slots[d].len
      <4>1. a \in Nat /\ l \in Nat /\ b \in Nat /\ m \in Nat /\ i \in 0 .. l - 1
        BY <1>1, <2>1
      <4>2. a + l <= b \/ b + m <= a
        BY <3>2
      <4> HIDE DEF a, l, b, m
      <4>3. ~(b <= a + i /\ a + i < b + m)
        BY <4>1, <4>2
      <4> QED
        BY <4>3 DEF Within, a, b, m
    <3> QED
      BY <1>6, <3>1, <3>3
  <2> QED
    BY <2>1, <2>2 DEF GetRecord
<1> QED
  BY <1>5, <1>7, <1>9, <1>10, <1>11 DEF Good, q

\* The directory is written where no record is.
LEMMA ToBytesKeeps ==
    ASSUME NEW p, Good(p)
    PROVE  LET q == ToBytes(p)
           IN  Good(q) /\ Keeps(q, p) /\ q.slots = p.slots /\ Live(q) = Live(p)
<1> DEFINE n == Len(p.slots)
           q == ToBytes(p)
<1>1. /\ p \in PageType /\ p.slots \in Seq(Slots) /\ n \in Nat /\ DOMAIN p.slots = 1 .. n
      /\ p.data \in [Offsets -> Byte] /\ PageSize \in Nat
      /\ HeaderSize \in Nat /\ SlotSize \in Nat \ {0}
      /\ p.lower \in Nat /\ p.lower > 0 /\ p.upper \in Nat
      /\ p.lower <= p.upper /\ p.upper <= PageSize
      /\ \A s \in Live(p) : /\ s \in 1 .. n
                            /\ p.slots[s].off \in Nat /\ p.slots[s].len \in Nat
                            /\ p.upper <= p.slots[s].off
                            /\ p.slots[s].off + p.slots[s].len <= PageSize
  BY GoodFields
<1> DEFINE data == [x \in Offsets |->
                       IF HeaderSize <= x /\ x < HeaderSize + SlotSize * n
                       THEN <<(x - HeaderSize) \div SlotSize + 1>> ELSE p.data[x]]
<1>2. q = [lower |-> p.lower, upper |-> p.upper, slots |-> p.slots, data |-> data]
  BY SMTT(30), <1>1 DEF ToBytes, PageType
<1>3. data \in [Offsets -> Byte]
  <2>1. \A x \in Offsets : (x - HeaderSize) \div SlotSize + 1 \in Int
    <3> TAKE x \in Offsets
    <3>1. x - HeaderSize \in Int
      BY <1>1 DEF Offsets
    <3>2. \A y \in Int : y \div SlotSize + 1 \in Int
      BY <1>1, SMT
    <3> QED
      BY <3>1, <3>2
  <2>2. \A x \in Offsets : <<(x - HeaderSize) \div SlotSize + 1>> \in Byte
    BY <2>1 DEF Byte
  <2>3. \A x \in Offsets : p.data[x] \in Byte
    BY <1>1
  <2> QED
    BY <2>2, <2>3
<1>4. q.lower = p.lower /\ q.upper = p.upper /\ q.slots = p.slots /\ q.data = data
  BY <1>2
<1>5. \A x \in Offsets : x >= p.lower => q.data[x] = p.data[x]
  <2> DEFINE top == HeaderSize + SlotSize * n
  <2>1. p.lower = top
    BY DEF Good, Sound, n
  <2>2. data = [x \in Offsets |->
                   IF HeaderSize <= x /\ x < p.lower
                   THEN <<(x - HeaderSize) \div SlotSize + 1>> ELSE p.data[x]]
    BY <2>1
  <2> HIDE DEF data
  <2>3. \A x \in Offsets : x >= p.lower => ~(x < p.lower)
    BY <1>1 DEF Offsets
  <2> QED
    BY <1>4, <2>2, <2>3
<1> HIDE DEF data, q
<1>6. q \in PageType
  <2>1. p.lower \in Int /\ p.upper \in Int
    BY <1>1
  <2> QED
    BY <1>1, <1>2, <1>3, <2>1 DEF PageType
<1>7. Live(q) = Live(p)
  BY <1>4 DEF Live
<1>8. Sound(q)
  BY <1>3, <1>4, <1>7 DEF Good, Sound
<1>9. Room(q)
  BY <1>4 DEF Good, Room, Repacked
<1>10. Keeps(q, p)
  <2> SUFFICES ASSUME NEW s \in Live(p)
               PROVE  GetRecord(q, s) = GetRecord(p, s)
    BY <1>1, <1>4, <1>7 DEF Keeps
  <2>1. \A i \in 0 .. p.slots[s].len - 1 : q.data[p.slots[s].off + i] = p.data[p.slots[s].off + i]
    <3> TAKE i \in 0 .. p.slots[s].len - 1
    <3>1. p.slots[s].off + i \in Offsets /\ p.slots[s].off + i >= p.lower
      BY SMTT(30), <1>1 DEF Offsets
    <3> QED
      BY <1>5, <3>1
  <2> QED
    BY <1>4, <2>1 DEF GetRecord
<1> QED
  BY <1>4, <1>6, <1>7, <1>8, <1>9, <1>10 DEF Good, q

\* Repacking moves every record whole to a place of its own.
LEMMA CompactKeeps ==
    ASSUME NEW p, Good(p)
    PROVE  LET q == Compact(p)
           IN  Good(q) /\ Keeps(q, p) /\ Live(q) = Live(p)
<1> DEFINE n == Len(p.slots)
           u == Repacked(p)
           top == u[n]
           q == Compact(p)
           moved == [s \in DOMAIN p.slots |-> IF s \in Live(p)
                        THEN [off |-> u[s], len |-> p.slots[s].len] ELSE Tombstone]
           Owner(x) == CHOOSE s \in Live(p) : Within(x, moved[s])
           data == [x \in Offsets |->
                      CASE x >= top -> p.data[p.slots[Owner(x)].off + (x - moved[Owner(x)].off)]
                        [] x < top /\ x >= p.lower -> Zero
                        [] OTHER -> p.data[x]]
<1>1. /\ p \in PageType /\ p.slots \in Seq(Slots) /\ n \in Nat /\ DOMAIN p.slots = 1 .. n
      /\ p.data \in [Offsets -> Byte] /\ PageSize \in Nat
      /\ p.lower \in Nat /\ p.lower > 0 /\ p.upper \in Nat
      /\ p.lower <= p.upper /\ p.upper <= PageSize
      /\ \A s \in Live(p) : /\ s \in 1 .. n
                            /\ p.slots[s].off \in Nat /\ p.slots[s].len \in Nat
                            /\ p.upper <= p.slots[s].off
                            /\ p.slots[s].off + p.slots[s].len <= PageSize
  BY GoodFields
<1>2. /\ u \in [0 .. n -> Int] /\ u[0] = PageSize
      /\ \A s \in 1 .. n : u[s] = u[s - 1] - p.slots[s].len
  BY <1>1, RepackedIs
<1>3. \A a \in 0 .. n : \A b \in a .. n : u[b] <= u[a]
  BY <1>1, RepackedDown
<1>4. q = [p EXCEPT !.upper = top, !.slots = moved, !.data = data]
  BY DEF Compact
<1>5. top \in Int /\ top >= p.upper
  <2>1. top >= p.upper
    BY DEF Good, Room
  <2> QED
    BY <1>1, <1>2, <2>1
<1> HIDE DEF n, u, q
\* Where the records go.
<1>6. /\ DOMAIN moved = 1 .. n
      /\ \A s \in Live(p) : moved[s].off = u[s] /\ moved[s].len = p.slots[s].len
      /\ \A s \in 1 .. n : s \notin Live(p) => moved[s] = Tombstone /\ p.slots[s] = Tombstone
  BY <1>1 DEF Live
<1>7. \A s \in Live(p) : /\ u[s] \in Int /\ u[s - 1] \in Int /\ u[s] + p.slots[s].len = u[s - 1]
                         /\ top <= u[s] /\ u[s - 1] <= PageSize
  <2> TAKE s \in Live(p)
  <2>1. s \in 1 .. n /\ s \in 0 .. n /\ s - 1 \in 0 .. n /\ 0 \in 0 .. n /\ n \in s .. n /\ s - 1 \in 0 .. n
    BY <1>1
  <2>2. u[s] \in Int /\ u[s - 1] \in Int /\ u[s] = u[s - 1] - p.slots[s].len /\ p.slots[s].len \in Nat
    BY <1>1, <1>2, <2>1
  <2>3. top <= u[s] /\ u[s - 1] <= PageSize
    BY <1>2, <1>3, <2>1
  <2> QED
    BY <2>2, <2>3
<1> HIDE DEF top
<1>8. \A s \in Live(p) : moved[s] \in Slots /\ moved[s] # Tombstone
  <2> TAKE s \in Live(p)
  <2>1. u[s] \in 0 .. PageSize /\ u[s] # 0 /\ p.slots[s].len \in 0 .. PageSize
    BY SMTT(30), <1>1, <1>5, <1>7
  <2>2. moved[s] = [off |-> u[s], len |-> p.slots[s].len]
    BY <1>1
  <2> QED
    BY <2>1, <2>2 DEF Slots, Tombstone
<1>9. moved \in Seq(Slots) /\ Len(moved) = n
  <2>1. Tombstone \in Slots
    BY <1>1 DEF Slots, Tombstone
  <2>2. \A s \in 1 .. n : moved[s] \in Slots
    BY <1>6, <1>8, <2>1
  <2>3. moved = [s \in 1 .. n |-> moved[s]]
    BY <1>1
  <2> HIDE DEF moved
  <2> QED
    BY <1>1, <1>6, <2>2, <2>3
<1>10. \A s, t \in Live(p) : s < t => u[t] + p.slots[t].len <= u[s]
  <2> TAKE s, t \in Live(p)
  <2>1. s < t => s \in 0 .. n /\ t - 1 \in s .. n
    BY <1>1
  <2> QED
    BY <1>3, <1>7, <2>1
<1>11. \A s, t \in Live(p) :
          s # t => u[t] + p.slots[t].len <= u[s] \/ u[s] + p.slots[s].len <= u[t]
  <2> TAKE s, t \in Live(p)
  <2>1. s # t => s < t \/ t < s
    BY <1>1
  <2> QED
    BY <1>10, <2>1
<1> HIDE DEF moved
<1>12. \A s \in Live(p) : \A x \in Int : Within(x, moved[s]) <=> u[s] <= x /\ x < u[s] + p.slots[s].len
  BY <1>6 DEF Within
\* Every byte from top on belongs to one record.
<1>13. \A x \in Offsets : x >= top => \E s \in Live(p) : Within(x, moved[s])
  <2> SUFFICES ASSUME NEW x \in Offsets, x >= top PROVE \E s \in Live(p) : Within(x, moved[s])
    OBVIOUS
  <2> DEFINE Under == {s \in 0 .. n : u[s] <= x}
  <2>1. x \in Int /\ x < PageSize
    BY <1>1 DEF Offsets
  <2>2. n \in Under
    <3>1. u[n] = top /\ n \in 0 .. n /\ top <= x
      BY <1>1, <1>5, <2>1 DEF top
    <3> QED
      BY <3>1
  <2>3. Under \in SUBSET Nat
    BY <1>1
  <2> HIDE DEF Under
  <2>4. PICK s \in Under : \A k \in Under : s <= k
    BY <2>2, <2>3, Least
  <2>5. s \in 0 .. n /\ u[s] <= x
    BY <2>4 DEF Under
  <2>6. s # 0
    BY <1>1, <1>2, <2>1, <2>5
  <2>7. s \in 1 .. n /\ s - 1 \in 0 .. n /\ s - 1 \notin Under
    BY <1>1, <2>4, <2>5, <2>6
  <2>8. u[s - 1] \in Int /\ u[s] \in Int /\ x < u[s - 1]
    BY <1>2, <2>1, <2>5, <2>7 DEF Under
  <2>9. u[s] = u[s - 1] - p.slots[s].len /\ p.slots[s].len \in Nat
    <3>1. p.slots[s].len \in 0 .. PageSize
      BY <1>1, <2>7, SlotFields DEF n
    <3> QED
      BY <1>1, <1>2, <2>7, <3>1
  <2>10. p.slots[s].len # 0
    BY <2>1, <2>5, <2>8, <2>9
  <2>11. s \in Live(p)
    BY <1>1, <2>7, <2>10 DEF Live, Tombstone
  <2>12. x < u[s] + p.slots[s].len
    BY <2>1, <2>8, <2>9
  <2> HIDE DEF data, Owner
  <2>13. Within(x, moved[s])
    BY <1>12, <2>1, <2>5, <2>11, <2>12
  <2> QED
    BY <2>11, <2>13
<1>14. \A x \in Offsets : \A s \in Live(p) : Within(x, moved[s]) => Owner(x) = s
  <2> TAKE x \in Offsets
  <2> TAKE s \in Live(p)
  <2> HAVE Within(x, moved[s])
  <2> DEFINE t == Owner(x)
  <2>1. t \in Live(p) /\ Within(x, moved[t])
    OBVIOUS
  <2> HIDE DEF t
  <2>2. x \in Int
    BY DEF Offsets
  <2>3. u[s] <= x /\ x < u[s] + p.slots[s].len /\ u[t] <= x /\ x < u[t] + p.slots[t].len
    BY <1>12, <2>1, <2>2
  <2>4. /\ u[s] \in Int /\ u[t] \in Int /\ p.slots[s].len \in Int /\ p.slots[t].len \in Int
        /\ s # t => u[t] + p.slots[t].len <= u[s] \/ u[s] + p.slots[s].len <= u[t]
    BY <1>1, <1>7, <1>11, <2>1
  <2>5. s = t
    BY <2>2, <2>3, <2>4
  <2> QED
    BY <2>5 DEF t
<1> HIDE DEF Owner
<1>15. \A s \in Live(p) : \A i \in 0 .. p.slots[s].len - 1 :
          u[s] + i \in Offsets /\ data[u[s] + i] = p.data[p.slots[s].off + i]
  <2> TAKE s \in Live(p)
  <2> TAKE i \in 0 .. p.slots[s].len - 1
  <2> DEFINE x == u[s] + i
  <2>1. x \in Offsets /\ x >= top /\ x - u[s] = i /\ u[s] <= x /\ x < u[s] + p.slots[s].len /\ x \in Int
    <3> DEFINE a == u[s]
               l == p.slots[s].len
    <3>1. /\ a \in Int /\ l \in Nat /\ i \in 0 .. l - 1 /\ top <= a /\ a + l <= PageSize
          /\ top \in Nat /\ PageSize \in Nat
      BY <1>1, <1>5, <1>7
    <3>2. x = a + i
      OBVIOUS
    <3> HIDE DEF a, l, data, x
    <3>3. /\ x \in 0 .. PageSize - 1 /\ x >= top /\ x - a = i /\ a <= x
          /\ x < a + l /\ x \in Int
      BY <3>1, <3>2
    <3> QED
      BY <3>3 DEF Offsets, a, l
  <2> HIDE DEF x
  <2>2. Owner(x) = s
    BY <1>12, <1>14, <2>1
  <2>3. data[x] = p.data[p.slots[s].off + (x - moved[s].off)]
    <3>1. \A y \in Offsets : y \in Int
      BY DEF Offsets
    <3>2. \A y \in Offsets :
             y >= top => data[y] = p.data[p.slots[Owner(y)].off + (y - moved[Owner(y)].off)]
      BY <1>5, <3>1
    <3> HIDE DEF data
    <3> QED
      BY <2>1, <2>2, <3>2
  <2> QED
    BY <1>6, <2>1, <2>3 DEF x
<1>16. data \in [Offsets -> Byte]
  <2> SUFFICES ASSUME NEW x \in Offsets PROVE data[x] \in Byte
    OBVIOUS
  <2>1. x \in Int /\ p.data[x] \in Byte /\ Zero \in Byte
    BY <1>1 DEF Offsets, Byte
  <2>2. ASSUME x >= top PROVE data[x] \in Byte
    <3>1. PICK s \in Live(p) : Within(x, moved[s])
      BY <1>13, <2>2
    <3>2. u[s] <= x /\ x < u[s] + p.slots[s].len
      BY <1>12, <2>1, <3>1
    <3>3. x - u[s] \in 0 .. p.slots[s].len - 1 /\ u[s] + (x - u[s]) = x
      BY <1>1, <1>7, <2>1, <3>2
    <3>4. data[x] = p.data[p.slots[s].off + (x - u[s])]
      <4> HIDE DEF data
      <4> QED
        BY <1>15, <3>3
    <3>5. p.slots[s].off + (x - u[s]) \in Offsets
      BY SMTT(30), <1>1, <3>3 DEF Offsets
    <3> HIDE DEF data
    <3> QED
      BY <1>1, <3>4, <3>5
  <2>3. ASSUME ~(x >= top) PROVE data[x] \in Byte
    <3>1. data[x] = Zero \/ data[x] = p.data[x]
      BY <2>3
    <3> QED
      BY <2>1, <3>1
  <2> QED
    BY <2>2, <2>3
<1> HIDE DEF data
<1>17. q = [lower |-> p.lower, upper |-> top, slots |-> moved, data |-> data]
  BY <1>1, <1>4 DEF PageType
<1>18. q.lower = p.lower /\ q.upper = top /\ q.slots = moved /\ q.data = data
  BY <1>17
<1>19. q \in PageType
  <2>1. p.lower \in Int
    BY <1>1
  <2> QED
    BY <1>5, <1>9, <1>16, <1>17, <2>1 DEF PageType
<1>20. Live(q) = Live(p)
  <2>1. DOMAIN q.slots = 1 .. n /\ DOMAIN p.slots = 1 .. n
    BY <1>1, <1>6, <1>18
  <2>2. \A s \in 1 .. n : q.slots[s] # Tombstone <=> s \in Live(p)
    BY <1>6, <1>8, <1>18
  <2> QED
    BY <1>1, <2>1, <2>2 DEF Live
<1>21. top <= PageSize
  BY <1>2, <1>3, <1>1 DEF top
<1>22. Sound(q)
  <2>1. p.lower = HeaderSize + SlotSize * Len(p.slots)
    BY DEF Good, Sound
  <2>2. q.lower = HeaderSize + SlotSize * Len(q.slots)
    BY <1>9, <1>18, <2>1 DEF n
  <2>3. q.upper \in q.lower .. PageSize
    BY <1>1, <1>5, <1>18, <1>21
  <2>4. \A s \in Live(q) : q.upper <= q.slots[s].off /\ q.slots[s].off + q.slots[s].len <= PageSize
    BY <1>6, <1>7, <1>18, <1>20
  <2>5. \A s, t \in Live(q) :
           s # t => \/ q.slots[s].off + q.slots[s].len <= q.slots[t].off
                    \/ q.slots[t].off + q.slots[t].len <= q.slots[s].off
    BY <1>6, <1>11, <1>18, <1>20
  <2>6. q.slots \in Seq(Slots) /\ DOMAIN q.data = Offsets
    BY <1>9, <1>16, <1>18
  <2> QED
    BY <2>2, <2>3, <2>4, <2>5, <2>6 DEF Sound
<1>23. Room(q)
  <2> DEFINE v == Repacked(q)
  <2>1. p.slots \in Seq(Slots) /\ q.slots \in Seq(Slots) /\ n \in 0 .. Len(p.slots) /\ n <= Len(q.slots)
    BY <1>1, <1>9, <1>18 DEF n
  <2>2. \A s \in 1 .. n : q.slots[s].len <= p.slots[s].len
    <3> TAKE s \in 1 .. n
    <3>1. p.slots[s].len \in Nat
      BY <1>1, SlotFields DEF n
    <3>2. q.slots[s].len = p.slots[s].len
      BY <1>6, <1>18
    <3> QED
      BY <3>1, <3>2
  <2>3. \A s \in 0 .. n : u[s] <= v[s]
    BY <2>1, <2>2, RepackedShorter DEF u
  <2> HIDE DEF v
  <2>4. top <= v[n]
    BY <1>1, <2>3 DEF top
  <2>5. v[n] \in Int
    <3>1. v \in [0 .. n -> Int]
      BY <1>9, <1>18, <2>1, RepackedIs DEF v
    <3> QED
      BY <1>1, <3>1
  <2>6. v[n] >= top
    BY <1>5, <2>4, <2>5
  <2> QED
    BY <1>9, <1>18, <2>6 DEF Room, v
<1>24. Keeps(q, p)
  <2> SUFFICES ASSUME NEW s \in Live(p) PROVE GetRecord(q, s) = GetRecord(p, s)
    <3>1. Len(p.slots) <= Len(q.slots)
      BY <1>1, <1>9, <1>18 DEF n
    <3> QED
      BY <1>20, <3>1 DEF Keeps
  <2>1. q.slots[s].off = u[s] /\ q.slots[s].len = p.slots[s].len /\ q.data = data
    BY <1>6, <1>18
  <2> QED
    BY <1>15, <2>1 DEF GetRecord
<1> QED
  BY <1>19, <1>20, <1>22, <1>23, <1>24 DEF Good, q

----------------------------------------------------------------------------
(* Page objects, the pages in the file, and what was synced of them. *)

\* A damaged page has no slots and is not good.
LEMMA DamagedPage ==
    Damaged \in PageType /\ Damaged.slots = <<>> /\ Live(Damaged) = {} /\ ~Good(Damaged)
<1>1. Damaged = [lower |-> 0, upper |-> 0, slots |-> <<>>, data |-> [x \in Offsets |-> Zero]]
  <2> DEFINE d == [x \in Offsets |-> Zero]
  <2>1. NewPage = [lower |-> HeaderSize, upper |-> PageSize, slots |-> <<>>, data |-> d]
    BY DEF NewPage
  <2> HIDE DEF d
  <2> QED
    <3>1. Damaged = [lower |-> 0, upper |-> 0, slots |-> <<>>, data |-> d]
      <4> DEFINE np == NewPage
      <4>1. /\ np = [lower |-> HeaderSize, upper |-> PageSize, slots |-> <<>>, data |-> d]
            /\ Damaged = [np EXCEPT !.lower = 0, !.upper = 0]
        BY <2>1 DEF Damaged
      <4> HIDE DEF np
      <4> QED
        BY <4>1
    <3> QED
      BY <3>1 DEF d
<1>2. Damaged.slots = <<>> /\ Damaged.lower = 0
  BY <1>1
<1>3. Damaged \in PageType
  <2>1. [x \in Offsets |-> Zero] \in [Offsets -> Byte] /\ <<>> \in Seq(Slots) /\ 0 \in Int
    BY DEF Byte
  <2> QED
    BY <1>1, <2>1 DEF PageType
<1> HIDE DEF Damaged
<1>4. ~Good(Damaged)
  <2>1. ~(Damaged.lower > 0)
    BY <1>2
  <2> QED
    BY <2>1, GoodFields
<1>5. Live(Damaged) = {}
  BY <1>2 DEF Live
<1> QED
  BY <1>2, <1>3, <1>4, <1>5

\* What read_page accepts is not damaged, and what is good it accepts.
LEMMA GoodIsReadable == ASSUME NEW p, Good(p) PROVE Readable(p) /\ p # Damaged
<1>1. p # Damaged
  BY DamagedPage
<1>2. /\ p.lower \in Nat /\ p.lower > 0 /\ p.upper \in Nat /\ PageSize \in Nat
      /\ p.lower <= p.upper /\ p.upper <= PageSize /\ DOMAIN p.slots = 1 .. Len(p.slots)
      /\ \A s \in Live(p) : /\ p.slots[s].off \in Nat
                            /\ p.upper <= p.slots[s].off
                            /\ p.slots[s].off + p.slots[s].len <= PageSize
  BY GoodFields
<1>3. p.lower = HeaderSize + SlotSize * Len(p.slots)
  BY DEF Good, Sound
<1>4. \A s \in Live(p) : p.slots[s].off # 0
  BY <1>2
<1>5. \A s \in DOMAIN p.slots : p.slots[s] = Tombstone \/ s \in Live(p)
  BY DEF Live
<1>6. Readable(p)
  BY <1>1, <1>2, <1>3, <1>4, <1>5 DEF Readable
<1> QED
  BY <1>1, <1>6

\* A page has its own records.
LEMMA CurrentSelf == ASSUME NEW p, Good(p) PROVE Current(p, p)
BY GoodFields DEF Current

\* An operation that keeps the records keeps those of the file and the synced ones.
LEMMA StaysCurrent ==
    ASSUME NEW p, Good(p), NEW q, Good(q), Keeps(q, p), NEW raw \in PageType, Current(p, raw)
    PROVE  Current(q, raw)
<1>1. /\ Len(raw.slots) \in Nat /\ DOMAIN raw.slots = 1 .. Len(raw.slots)
      /\ Len(p.slots) \in Nat /\ DOMAIN p.slots = 1 .. Len(p.slots) /\ Len(q.slots) \in Nat
  <2>1. raw.slots \in Seq(Slots)
    BY DEF PageType
  <2> QED
    BY <2>1, SlotFields, GoodFields
<1>2. Len(raw.slots) <= Len(p.slots) /\ Len(p.slots) <= Len(q.slots)
  BY DEF Current, Keeps
<1>3. \A s \in Live(raw) : s \in DOMAIN p.slots
  BY <1>1, <1>2 DEF Live
<1>4. \A s \in Live(raw) \cap Live(q) : GetRecord(q, s) = GetRecord(raw, s)
  BY <1>3 DEF Current, Keeps
<1>5. Len(raw.slots) <= Len(q.slots)
  BY <1>1, <1>2
<1> QED
  BY <1>4, <1>5 DEF Current

LEMMA StillHolds ==
    ASSUME NEW p, NEW q, Keeps(q, p), NEW t, Holds(p, t), t[2] \in Live(q)
    PROVE  Holds(q, t)
BY DEF Holds, Keeps, Live

\* The records sync writes down as safe are in the file and in the page objects.
LEMMA StoredIsHeld ==
    ASSUME TInv, NEW t \in Stored
    PROVE  /\ t[1] \in DOMAIN file /\ Holds(file[t[1]], t)
           /\ t[1] \in DOMAIN page_cache => Holds(page_cache[t[1]], t)
<1> DEFINE kept(i) == {s \in Live(file[i]) :
                          /\ Whole(file[i], s)
                          /\ i \in DOMAIN page_cache => s \in Live(page_cache[i])}
<1>1. PICK i \in DOMAIN file : \E s \in kept(i) : t = <<i, s, PayloadAt(file[i], s)>>
  BY DEF Stored
<1>2. PICK s \in kept(i) : t = <<i, s, PayloadAt(file[i], s)>>
  BY <1>1
<1>3. t[1] = i /\ t[2] = s /\ t[3] = PayloadAt(file[i], s)
  BY <1>2
<1>4. s \in Live(file[i]) /\ GetRecord(file[i], s) = Bytes(t[3])
  BY <1>2, <1>3 DEF Whole, PayloadAt
<1>5. i \in DOMAIN page_cache => s \in Live(page_cache[i]) /\ GetRecord(page_cache[i], s) = Bytes(t[3])
  BY <1>2, <1>4 DEF TInv, CacheCurrent, Current
<1> HIDE DEF kept
<1> QED
  BY <1>3, <1>4, <1>5 DEF Holds

\* A page is written: it holds every safe record of its number.
LEMMA PutStep ==
    ASSUME TInv, NEW i \in Pages, i \in DOMAIN file \/ i = Len(file) + 1,
           NEW raw, Good(raw), \A t \in safe : t[1] = i => Holds(raw, t),
           Put(i, raw), UNCHANGED <<disk, safe>>
    PROVE  TInv'
<1>1. /\ raw \in PageType /\ file \in Seq(PageType) /\ DOMAIN file = 1 .. Len(file)
      /\ Len(file) \in Nat /\ MaxPages \in Nat /\ Len(file) <= MaxPages
      /\ Len(disk) \in Nat /\ Len(disk) <= Len(file) /\ DOMAIN disk = 1 .. Len(disk)
  BY TableFileAssumption DEF TInv, Typed, Good
<1>2. /\ file' \in Seq(PageType) /\ Len(file') \in Nat /\ Len(file) <= Len(file')
      /\ Len(file') <= MaxPages /\ DOMAIN file' = 1 .. Len(file') /\ i \in DOMAIN file'
      /\ file'[i] = raw /\ \A j \in DOMAIN file' : j # i => j \in DOMAIN file /\ file'[j] = file[j]
  <2>1. CASE i \in DOMAIN file
    <3>1. file' = [file EXCEPT ![i] = raw]
      BY <2>1 DEF Put
    <3> QED
      BY <1>1, <2>1, <3>1
  <2>2. CASE i \notin DOMAIN file
    <3>5. file' = Append(file, raw) /\ i = Len(file) + 1
      BY <2>2 DEF Put
    <3>6. i <= MaxPages
      BY <1>1 DEF Pages
    <3>1. file' = Append(file, raw) /\ i = Len(file) + 1 /\ i <= MaxPages
      BY <3>5, <3>6
    <3>2. Len(file') = Len(file) + 1 /\ file' \in Seq(PageType) /\ DOMAIN file' = 1 .. Len(file) + 1
      BY <1>1, <3>1
    <3>3. file'[i] = raw /\ \A j \in DOMAIN file : file'[j] = file[j]
      BY <1>1, <3>1
    <3>4. \A j \in DOMAIN file' : j # i => j \in DOMAIN file
      BY <1>1, <3>1, <3>2
    <3> QED
      BY <1>1, <3>1, <3>2, <3>3, <3>4
  <2> QED
    BY <2>1, <2>2
<1>3. /\ DOMAIN page_cache' = DOMAIN page_cache \cup {i} /\ page_cache'[i] = raw
      /\ \A j \in DOMAIN page_cache : j # i => page_cache'[j] = page_cache[j]
      /\ page_cache' \in [DOMAIN page_cache' -> PageType]
  <2>1. page_cache' = [j \in DOMAIN page_cache \cup {i} |-> IF j = i THEN raw ELSE page_cache[j]]
    BY DEF Put
  <2>2. \A j \in DOMAIN page_cache : page_cache[j] \in PageType
    BY DEF TInv, Typed
  <2> QED
    BY <1>1, <2>1, <2>2
<1>4. /\ unsynced' \in [Pages -> SUBSET PageType]
      /\ unsynced'[i] = unsynced[i] \cup {raw} /\ \A j \in Pages : j # i => unsynced'[j] = unsynced[j]
  BY <1>1 DEF Put, TInv, Typed
<1>5. disk' = disk /\ safe' = safe
  OBVIOUS
<1>6. DOMAIN page_cache' \subseteq DOMAIN file'
  <2>1. DOMAIN page_cache \subseteq DOMAIN file
    BY DEF TInv, Typed
  <2> QED
    BY <1>1, <1>2, <1>3, <2>1
<1>7. Typed'
  <2>1. disk \in Seq(PageType)
    BY DEF TInv, Typed
  <2>2. Len(disk) <= Len(file')
    BY <1>1, <1>2
  <2> QED
    BY <1>2, <1>3, <1>4, <1>5, <1>6, <2>1, <2>2 DEF Typed
<1>8. AllGood'
  <2>1. \A j \in DOMAIN page_cache' : Good(page_cache'[j])
    BY <1>3 DEF TInv, AllGood
  <2>2. \A j \in DOMAIN file' : file'[j] = Damaged \/ Good(file'[j])
    BY <1>2 DEF TInv, AllGood
  <2>3. \A j \in Pages : \A v \in unsynced'[j] : Good(v)
    BY <1>4 DEF TInv, AllGood
  <2>4. \A j \in DOMAIN disk : disk[j] = Damaged \/ Good(disk[j])
    BY DEF TInv, AllGood
  <2> QED
    BY <1>5, <2>1, <2>2, <2>3, <2>4 DEF AllGood
<1>9. CacheCurrent'
  <2> SUFFICES ASSUME NEW j \in DOMAIN page_cache' PROVE Current(page_cache'[j], file'[j])
    BY DEF CacheCurrent
  <2>1. CASE j = i
    BY <2>1, <1>2, <1>3, CurrentSelf
  <2>2. CASE j # i
    BY <2>2, <1>2, <1>3, <1>6 DEF TInv, CacheCurrent
  <2> QED
    BY <2>1, <2>2
<1>10. SafeOK'
  <2> SUFFICES ASSUME NEW t \in safe
               PROVE  /\ t[1] \in DOMAIN disk
                      /\ disk[t[1]] = Damaged \/ Holds(disk[t[1]], t)
                      /\ file'[t[1]] = Damaged \/ Holds(file'[t[1]], t)
                      /\ \A v \in unsynced'[t[1]] : Holds(v, t)
                      /\ t[1] \in DOMAIN page_cache' => Holds(page_cache'[t[1]], t)
    BY <1>5 DEF SafeOK
  <2>1. /\ t[1] \in DOMAIN disk
        /\ disk[t[1]] = Damaged \/ Holds(disk[t[1]], t)
        /\ file[t[1]] = Damaged \/ Holds(file[t[1]], t)
        /\ \A v \in unsynced[t[1]] : Holds(v, t)
        /\ t[1] \in DOMAIN page_cache => Holds(page_cache[t[1]], t)
    BY DEF TInv, SafeOK
  <2>2. t[1] \in DOMAIN file' /\ t[1] \in Pages
    BY <1>1, <1>2, <2>1 DEF Pages
  <2>3. CASE t[1] = i
    BY <2>1, <2>3, <1>2, <1>3, <1>4
  <2>4. CASE t[1] # i
    BY <2>1, <2>2, <2>4, <1>2, <1>3, <1>4
  <2> QED
    BY <2>3, <2>4
<1> QED
  BY <1>7, <1>8, <1>9, <1>10 DEF TInv

\* A page object is changed.
LEMMA ChangeStep ==
    ASSUME TInv, NEW i \in DOMAIN page_cache, NEW q, Good(q), Keeps(q, page_cache[i]),
           Change(i, q), UNCHANGED <<file, disk, unsynced>>,
           safe' \subseteq safe, \A t \in safe' : t[1] = i => t[2] \in Live(q)
    PROVE  TInv'
<1>1. /\ q \in PageType /\ file[i] \in PageType /\ Good(page_cache[i])
      /\ page_cache \in [DOMAIN page_cache -> PageType] /\ DOMAIN page_cache \subseteq DOMAIN file
  BY DEF TInv, Typed, AllGood, Good
<1>2. /\ DOMAIN page_cache' = DOMAIN page_cache /\ page_cache'[i] = q
      /\ \A j \in DOMAIN page_cache : j # i => page_cache'[j] = page_cache[j]
      /\ page_cache' \in [DOMAIN page_cache' -> PageType]
  BY <1>1 DEF Change
<1>3. Typed'
  BY <1>1, <1>2 DEF TInv, Typed
<1>4. AllGood'
  BY <1>2 DEF TInv, AllGood
<1>5. CacheCurrent'
  <2> SUFFICES ASSUME NEW j \in DOMAIN page_cache PROVE Current(page_cache'[j], file[j])
    BY <1>2 DEF CacheCurrent
  <2>1. Current(page_cache[j], file[j])
    BY DEF TInv, CacheCurrent
  <2>2. CASE j = i
    BY <2>1, <2>2, <1>1, <1>2, StaysCurrent
  <2>3. CASE j # i
    BY <2>1, <2>3, <1>2
  <2> QED
    BY <2>2, <2>3
<1>6. SafeOK'
  <2> SUFFICES ASSUME NEW t \in safe', t[1] \in DOMAIN page_cache
               PROVE  Holds(page_cache'[t[1]], t)
    BY <1>2 DEF TInv, SafeOK
  <2>1. Holds(page_cache[t[1]], t)
    BY DEF TInv, SafeOK
  <2>2. CASE t[1] = i
    BY <2>1, <2>2, <1>2, StillHolds
  <2>3. CASE t[1] # i
    BY <2>1, <2>3, <1>2
  <2> QED
    BY <2>2, <2>3
<1> QED
  BY <1>3, <1>4, <1>5, <1>6 DEF TInv

----------------------------------------------------------------------------
(* The steps. *)

\* What a step does to page p when it becomes q: no slot reads differently.
SlotsKept(q, p) ==
    \A s \in DOMAIN p.slots :
       /\ s \in DOMAIN q.slots
       /\ \/ GetRecord(q, s) = GetRecord(p, s)
          \/ q.slots[s] = Tombstone

\* An operation on a page object keeps every slot id and its record, or deletes it.
LEMMA KeepsSlots ==
    ASSUME NEW p, Good(p), NEW q, Good(q), Keeps(q, p)
    PROVE  SlotsKept(q, p)
<1>1. /\ Len(p.slots) \in Nat /\ DOMAIN p.slots = 1 .. Len(p.slots)
      /\ Len(q.slots) \in Nat /\ DOMAIN q.slots = 1 .. Len(q.slots)
      /\ Len(p.slots) <= Len(q.slots)
  BY GoodFields DEF Keeps
<1>2. \A s \in DOMAIN p.slots : s \in DOMAIN q.slots
  BY <1>1
<1>3. \A s \in DOMAIN q.slots : s \in Live(q) \/ q.slots[s] = Tombstone
  BY DEF Live
<1> QED
  BY <1>2, <1>3 DEF SlotsKept, Keeps

AllSlotsKept ==
    \A i \in DOMAIN page_cache \cap DOMAIN page_cache' : SlotsKept(page_cache'[i], page_cache[i])

\* Page objects no step touches.
LEMMA UntouchedSlots ==
    ASSUME \A i \in DOMAIN page_cache \cap DOMAIN page_cache' : page_cache'[i] = page_cache[i]
    PROVE  AllSlotsKept
BY DEF AllSlotsKept, SlotsKept

LEMMA AllocateStep == ASSUME TInv, AllocatePage PROVE TInv' /\ AllSlotsKept
<1> DEFINE n == Len(file) + 1
<1>1. /\ Len(file) \in Nat /\ DOMAIN file = 1 .. Len(file) /\ Len(disk) \in Nat
      /\ Len(disk) <= Len(file) /\ DOMAIN disk = 1 .. Len(disk) /\ DOMAIN page_cache \subseteq DOMAIN file
  BY DEF TInv, Typed
<1>2. n \in Pages /\ n \notin DOMAIN disk /\ n \notin DOMAIN page_cache
  <2>1. Len(file) < MaxPages /\ MaxPages \in Nat
    BY TableFileAssumption DEF AllocatePage
  <2> QED
    BY <1>1, <2>1 DEF Pages
<1>3. Put(n, ToBytes(NewPage)) /\ UNCHANGED <<disk, safe>>
  BY DEF AllocatePage
<1>4. \A t \in safe : t[1] # n
  BY <1>2 DEF TInv, SafeOK
<1> HIDE DEF n
<1>5. TInv'
  <2>1. n = Len(file) + 1
    BY DEF n
  <2> QED
    BY <1>2, <1>3, <1>4, <2>1, NewGood, PutStep
<1>6. AllSlotsKept
  <2>1. \A i \in DOMAIN page_cache : page_cache'[i] = page_cache[i]
    BY <1>2, <1>3 DEF Put
  <2> QED
    BY <2>1, UntouchedSlots
<1> QED
  BY <1>5, <1>6

LEMMA WriteStep == ASSUME TInv, NEW i \in Pages, WritePage(i) PROVE TInv' /\ AllSlotsKept
<1> DEFINE p == page_cache[i]
           q == ToBytes(p)
<1>1. i \in DOMAIN page_cache /\ i \in DOMAIN file /\ Put(i, q) /\ UNCHANGED <<disk, safe>>
  BY DEF WritePage, TInv, Typed
<1>2. Good(p)
  BY <1>1 DEF TInv, AllGood
<1>3. Good(q) /\ Keeps(q, p) /\ Live(q) = Live(p)
  BY <1>2, ToBytesKeeps
<1> HIDE DEF q
<1>4. \A t \in safe : t[1] = i => Holds(q, t)
  <2> SUFFICES ASSUME NEW t \in safe, t[1] = i PROVE Holds(q, t)
    OBVIOUS
  <2>1. Holds(p, t)
    BY <1>1 DEF TInv, SafeOK
  <2>2. t[2] \in Live(q)
    BY <1>3, <2>1 DEF Holds
  <2> QED
    BY <1>3, <2>1, <2>2, StillHolds
<1>5. TInv'
  BY <1>1, <1>3, <1>4, PutStep
<1>6. AllSlotsKept
  <2>1. /\ page_cache'[i] = q
        /\ \A j \in DOMAIN page_cache : j # i => page_cache'[j] = page_cache[j]
    BY <1>1 DEF Put
  <2>2. SlotsKept(q, p)
    BY <1>2, <1>3, KeepsSlots
  <2> QED
    BY <2>1, <2>2 DEF AllSlotsKept, SlotsKept
<1> QED
  BY <1>5, <1>6

LEMMA ReadStep == ASSUME TInv, NEW i \in Pages, ReadPage(i) PROVE TInv' /\ AllSlotsKept
<1>1. /\ i \in DOMAIN file \ DOMAIN page_cache /\ Readable(file[i])
      /\ page_cache' = [j \in DOMAIN page_cache \cup {i} |->
                           IF j = i THEN file[i] ELSE page_cache[j]]
      /\ UNCHANGED <<file, disk, unsynced, isopen, crashes, safe>>
  BY DEF ReadPage
<1>2. file[i] # Damaged /\ Good(file[i]) /\ file[i] \in PageType
  BY <1>1 DEF Readable, TInv, AllGood, Good
<1>3. /\ DOMAIN page_cache' = DOMAIN page_cache \cup {i} /\ page_cache'[i] = file[i]
      /\ \A j \in DOMAIN page_cache : page_cache'[j] = page_cache[j]
  BY <1>1
<1>4. Typed'
  <2>1. page_cache' \in [DOMAIN page_cache' -> PageType]
    <3>1. \A j \in DOMAIN page_cache : page_cache[j] \in PageType
      BY DEF TInv, Typed
    <3> QED
      BY <1>1, <1>2, <3>1
  <2> QED
    BY <1>1, <1>3, <2>1 DEF TInv, Typed
<1>5. AllGood'
  BY <1>1, <1>2, <1>3 DEF TInv, AllGood
<1>6. CacheCurrent'
  BY <1>1, <1>2, <1>3, CurrentSelf DEF TInv, CacheCurrent
<1>7. SafeOK'
  BY <1>1, <1>2, <1>3 DEF TInv, SafeOK
<1>8. AllSlotsKept
  BY <1>3, UntouchedSlots
<1> QED
  BY <1>4, <1>5, <1>6, <1>7, <1>8 DEF TInv

\* All that was written is on disk; what is stored is safe.
LEMMA FlushStep ==
    ASSUME TInv, disk' = file, unsynced' = [i \in Pages |-> {}], safe' = Stored, file' = file,
           page_cache' \in {page_cache, NoPages}
    PROVE  TInv' /\ AllSlotsKept
<1>1. CASE page_cache' = page_cache
  <2>1. Typed'
    BY <1>1 DEF TInv, Typed
  <2>2. AllGood'
    BY <1>1 DEF TInv, AllGood
  <2>3. CacheCurrent'
    BY <1>1 DEF TInv, CacheCurrent
  <2>4. SafeOK'
    <3> SUFFICES ASSUME NEW t \in Stored
                 PROVE  /\ t[1] \in DOMAIN file /\ Holds(file[t[1]], t)
                        /\ unsynced'[t[1]] = {}
                        /\ t[1] \in DOMAIN page_cache => Holds(page_cache[t[1]], t)
      BY <1>1 DEF SafeOK
    <3>1. /\ t[1] \in DOMAIN file /\ Holds(file[t[1]], t)
          /\ t[1] \in DOMAIN page_cache => Holds(page_cache[t[1]], t)
      BY StoredIsHeld
    <3>2. t[1] \in Pages
      BY <3>1, TableFileAssumption DEF TInv, Typed, Pages
    <3> QED
      BY <3>1, <3>2
  <2>5. AllSlotsKept
    BY <1>1, UntouchedSlots
  <2> QED
    BY <2>1, <2>2, <2>3, <2>4, <2>5 DEF TInv
<1>2. CASE page_cache' = NoPages
  <2>1. DOMAIN page_cache' = {} /\ page_cache' \in [{} -> PageType]
    BY <1>2 DEF NoPages
  <2>2. Typed'
    BY <2>1 DEF TInv, Typed
  <2>3. AllGood'
    BY <2>1 DEF TInv, AllGood
  <2>4. CacheCurrent'
    BY <2>1 DEF TInv, CacheCurrent
  <2>5. SafeOK'
    <3> SUFFICES ASSUME NEW t \in Stored
                 PROVE  /\ t[1] \in DOMAIN file /\ Holds(file[t[1]], t)
                        /\ unsynced'[t[1]] = {}
      BY <2>1 DEF SafeOK
    <3>1. t[1] \in DOMAIN file /\ Holds(file[t[1]], t)
      BY StoredIsHeld
    <3>2. t[1] \in Pages
      BY <3>1, TableFileAssumption DEF TInv, Typed, Pages
    <3> QED
      BY <3>1, <3>2
  <2>6. AllSlotsKept
    BY <2>1, UntouchedSlots
  <2> QED
    BY <2>2, <2>3, <2>4, <2>5, <2>6 DEF TInv
<1> QED
  BY <1>1, <1>2

\* The machine stops: each page is one of those written since the last sync, the one
\* synced then, or damaged.
LEMMA PowerLossStep ==
    ASSUME TInv, PowerLoss, page_cache' = NoPages, safe' = safe
    PROVE  TInv' /\ AllSlotsKept
<1>1. /\ file \in Seq(PageType) /\ disk \in Seq(PageType)
      /\ Len(file) \in Nat /\ Len(disk) \in Nat /\ MaxPages \in Nat
      /\ DOMAIN disk = 1 .. Len(disk) /\ Len(disk) <= Len(file) /\ Len(file) <= MaxPages
  BY TableFileAssumption DEF TInv, Typed
<1>14. PICK n \in Len(disk) .. Len(file) :
           \E f \in [1 .. n -> UNION {Survivors(i) : i \in 1 .. n}] :
              (\A i \in 1 .. n : f[i] \in Survivors(i)) /\ file' = f /\ disk' = f
  BY DEF PowerLoss
<1>2. PICK f \in [1 .. n -> UNION {Survivors(i) : i \in 1 .. n}] :
          (\A i \in 1 .. n : f[i] \in Survivors(i)) /\ file' = f /\ disk' = f
  BY <1>14
<1>3. page_cache' = NoPages /\ unsynced' = [i \in Pages |-> {}] /\ safe' = safe
  BY DEF PowerLoss
<1>4. DOMAIN page_cache' = {} /\ page_cache' \in [{} -> PageType]
  BY <1>3 DEF NoPages
<1>5. n \in Nat /\ Len(disk) <= n /\ n <= MaxPages /\ 1 .. n \subseteq Pages
  BY <1>1, <1>2 DEF Pages
<1>6. \A i \in 1 .. n : /\ i \in Pages
                        /\ f[i] = Damaged \/ f[i] \in unsynced[i] \/ (i \in DOMAIN disk /\ f[i] = disk[i])
  BY <1>2, <1>5 DEF Survivors
<1>7. \A i \in 1 .. n : f[i] \in PageType
  <2> TAKE i \in 1 .. n
  <2>1. i \in Pages => unsynced[i] \subseteq PageType
    BY DEF TInv, Typed
  <2>2. i \in DOMAIN disk => disk[i] \in PageType
    BY <1>1
  <2> QED
    BY <1>6, <2>1, <2>2, DamagedPage
<1>8. f \in Seq(PageType) /\ Len(f) = n /\ DOMAIN f = 1 .. n
  <2>1. f \in [1 .. n -> PageType]
    BY <1>2, <1>7
  <2> QED
    BY <1>5, <2>1
<1>9. Typed'
  <2>1. unsynced' \in [Pages -> SUBSET PageType]
    BY <1>3
  <2>2. file' \in Seq(PageType) /\ disk' \in Seq(PageType) /\ Len(file') = n /\ Len(disk') = n
    BY <1>2, <1>8
  <2> QED
    BY <1>4, <1>5, <2>1, <2>2 DEF Typed
<1>10. AllGood'
  <2>1. \A i \in 1 .. n : f[i] = Damaged \/ Good(f[i])
    BY <1>6 DEF TInv, AllGood
  <2>2. \A i \in Pages : unsynced'[i] = {}
    BY <1>3
  <2>3. DOMAIN file' = 1 .. n /\ DOMAIN disk' = 1 .. n
    BY <1>2, <1>8
  <2> QED
    BY <1>2, <1>4, <2>1, <2>2, <2>3 DEF AllGood
<1>11. CacheCurrent'
  BY <1>4 DEF CacheCurrent
<1>12. SafeOK'
  <2> SUFFICES ASSUME NEW t \in safe
               PROVE  /\ t[1] \in 1 .. n /\ (f[t[1]] = Damaged \/ Holds(f[t[1]], t))
                      /\ unsynced'[t[1]] = {}
    BY <1>2, <1>3, <1>4, <1>8 DEF SafeOK
  <2>1. /\ t[1] \in DOMAIN disk
        /\ disk[t[1]] = Damaged \/ Holds(disk[t[1]], t)
        /\ \A raw \in unsynced[t[1]] : Holds(raw, t)
    BY DEF TInv, SafeOK
  <2>3. \A i \in DOMAIN disk : i \in 1 .. n
    BY <1>1, <1>5
  <2>2. t[1] \in 1 .. n /\ t[1] \in Pages
    BY <1>5, <2>1, <2>3
  <2> QED
    BY <1>3, <1>6, <2>1, <2>2
<1>13. AllSlotsKept
  BY <1>4, UntouchedSlots
<1> QED
  BY <1>9, <1>10, <1>11, <1>12, <1>13 DEF TInv

\* The process dies, or the machine stops.
LEMMA CrashStep == ASSUME TInv, Crash PROVE TInv' /\ AllSlotsKept
<1>1. CASE UNCHANGED <<file, disk, unsynced>>
  <2>1. page_cache' = NoPages /\ UNCHANGED <<file, disk, unsynced, safe>>
    BY <1>1 DEF Crash
  <2>2. DOMAIN page_cache' = {} /\ page_cache' \in [{} -> PageType]
    BY <2>1 DEF NoPages
  <2>3. Typed'
    BY <2>1, <2>2 DEF TInv, Typed
  <2>4. AllGood' /\ CacheCurrent'
    BY <2>1, <2>2 DEF TInv, AllGood, CacheCurrent
  <2>5. SafeOK'
    BY <2>1, <2>2 DEF TInv, SafeOK
  <2>6. AllSlotsKept
    BY <2>2, UntouchedSlots
  <2> QED
    BY <2>3, <2>4, <2>5, <2>6 DEF TInv
<1>2. CASE PowerLoss
  BY <1>2, PowerLossStep DEF Crash
<1> QED
  BY <1>1, <1>2 DEF Crash

\* The object of page i becomes q.
LEMMA ObjectStep ==
    ASSUME TInv, NEW i \in DOMAIN page_cache, NEW q, Good(q), Keeps(q, page_cache[i]),
           Change(i, q), UNCHANGED <<file, disk, unsynced>>,
           safe' \subseteq safe,
           \A t \in safe' : t[1] = i /\ t[2] \in Live(page_cache[i]) => t[2] \in Live(q)
    PROVE  TInv' /\ AllSlotsKept
<1>1. \A t \in safe' : t[1] = i => t[2] \in Live(page_cache[i])
  BY DEF TInv, SafeOK, Holds
<1>2. \A t \in safe' : t[1] = i => t[2] \in Live(q)
  BY <1>1
<1>3. TInv'
  BY <1>2, ChangeStep
<1>4. Good(page_cache[i])
  BY DEF TInv, AllGood
<1>5. /\ page_cache'[i] = q
      /\ \A j \in DOMAIN page_cache : j # i => page_cache'[j] = page_cache[j]
  BY DEF Change, TInv, Typed
<1>6. SlotsKept(q, page_cache[i])
  BY <1>4, KeepsSlots
<1>7. AllSlotsKept
  BY <1>5, <1>6 DEF AllSlotsKept, SlotsKept
<1> QED
  BY <1>3, <1>7

LEMMA InsertStep == ASSUME TInv, NEW i \in Pages, NEW r \in Payloads, Insert(i, r)
                    PROVE  TInv' /\ AllSlotsKept
<1> DEFINE q == InsertRecord(page_cache[i], r)
<1>1. /\ i \in DOMAIN page_cache /\ HasSpaceFor(page_cache[i], SizeOf[r])
      /\ Change(i, q) /\ UNCHANGED <<file, disk, unsynced>> /\ safe' = safe
  BY DEF Insert
<1>2. Good(page_cache[i])
  BY <1>1 DEF TInv, AllGood
<1>3. Good(q) /\ Keeps(q, page_cache[i]) /\ Live(page_cache[i]) \subseteq Live(q)
  BY <1>1, <1>2, InsertKeeps
<1> HIDE DEF q
<1> QED
  BY <1>1, <1>3, ObjectStep

LEMMA DeleteStep == ASSUME TInv, NEW i \in Pages, NEW s, Delete(i, s)
                    PROVE  TInv' /\ AllSlotsKept
<1> DEFINE q == DeleteRecord(page_cache[i], s)
<1>1. /\ i \in DOMAIN page_cache /\ s \in Live(page_cache[i])
      /\ Change(i, q) /\ UNCHANGED <<file, disk, unsynced>>
      /\ safe' = {t \in safe : t[1] # i \/ t[2] # s}
  BY DEF Delete
<1>2. Good(page_cache[i])
  BY <1>1 DEF TInv, AllGood
<1>3. Good(q) /\ Keeps(q, page_cache[i]) /\ Live(page_cache[i]) \ {s} \subseteq Live(q)
  BY <1>1, <1>2, DeleteKeeps
<1> HIDE DEF q
<1>4. \A t \in safe' : t[1] = i /\ t[2] \in Live(page_cache[i]) => t[2] \in Live(q)
  BY <1>1, <1>3
<1>5. safe' \subseteq safe
  BY <1>1
<1> QED
  BY <1>1, <1>3, <1>4, <1>5, ObjectStep

LEMMA CompactStep == ASSUME TInv, NEW i \in Pages, CompactPage(i) PROVE TInv' /\ AllSlotsKept
<1> DEFINE q == Compact(page_cache[i])
<1>1. /\ i \in DOMAIN page_cache
      /\ Change(i, q) /\ UNCHANGED <<file, disk, unsynced>> /\ safe' = safe
  BY DEF CompactPage
<1>2. Good(page_cache[i])
  BY <1>1 DEF TInv, AllGood
<1>3. Good(q) /\ Keeps(q, page_cache[i]) /\ Live(q) = Live(page_cache[i])
  BY <1>2, CompactKeeps
<1> HIDE DEF q
<1> QED
  BY <1>1, <1>3, ObjectStep

\* Every step of the table file.
LEMMA FileStep == ASSUME TInv, [FileNext]_filevars PROVE TInv' /\ AllSlotsKept
<1>1. CASE AllocatePage
  BY <1>1, AllocateStep
<1>2. CASE Sync
  BY <1>2, FlushStep DEF Sync
<1>3. CASE Close
  BY <1>3, FlushStep DEF Close
<1>4. CASE Open \/ UNCHANGED filevars
  <2>1. UNCHANGED <<page_cache, file, disk, unsynced, safe>>
    BY <1>4 DEF Open, filevars
  <2>2. AllSlotsKept
    BY <2>1, UntouchedSlots
  <2>3. Typed' /\ AllGood' /\ CacheCurrent' /\ SafeOK'
    BY <2>1 DEF TInv, Typed, AllGood, CacheCurrent, SafeOK
  <2> QED
    BY <2>2, <2>3 DEF TInv
<1>5. CASE Crash
  BY <1>5, CrashStep
<1>6. ASSUME NEW i \in Pages, ReadPage(i) PROVE TInv' /\ AllSlotsKept
  BY <1>6, ReadStep
<1>7. ASSUME NEW i \in Pages, WritePage(i) PROVE TInv' /\ AllSlotsKept
  BY <1>7, WriteStep
<1>8. ASSUME NEW i \in Pages, CompactPage(i) PROVE TInv' /\ AllSlotsKept
  BY <1>8, CompactStep
<1>9. ASSUME NEW i \in Pages, NEW r \in Payloads, Insert(i, r) PROVE TInv' /\ AllSlotsKept
  BY <1>9, InsertStep
<1>10. ASSUME NEW i \in Pages, NEW s \in 1 .. PageSize, Delete(i, s) PROVE TInv' /\ AllSlotsKept
  BY <1>10, DeleteStep
<1> QED
  BY <1>1, <1>2, <1>3, <1>4, <1>5, <1>6, <1>7, <1>8, <1>9, <1>10 DEF FileNext

LEMMA EmptyFile == FileInit => TInv
<1> SUFFICES ASSUME FileInit PROVE TInv
  OBVIOUS
<1>1. /\ DOMAIN page_cache = {} /\ page_cache \in [{} -> PageType]
      /\ file = <<>> /\ disk = <<>> /\ safe = {} /\ unsynced = [i \in Pages |-> {}]
  BY DEF FileInit, NoPages
<1>2. file \in Seq(PageType) /\ disk \in Seq(PageType) /\ Len(file) = 0 /\ Len(disk) = 0
  BY <1>1
<1>3. Typed
  <2>1. unsynced \in [Pages -> SUBSET PageType]
    BY <1>1
  <2> QED
    BY <1>1, <1>2, <2>1, TableFileAssumption DEF Typed
<1>4. AllGood /\ CacheCurrent /\ SafeOK
  BY <1>1 DEF AllGood, CacheCurrent, SafeOK
<1> QED
  BY <1>3, <1>4 DEF TInv

----------------------------------------------------------------------------
(* The theorems. *)

\* The invariant of the pages holds whatever is inserted, deleted, repacked, written,
\* synced, reloaded or lost in a crash.
THEOREM FileInductive == FileSpec => []TInv
<1>1. TInv /\ [FileNext]_filevars => TInv'
  BY FileStep
<1> QED
  BY EmptyFile, <1>1, PTL DEF FileSpec

\* PageObject keeps directory and records apart and every record in its own bytes, and
\* read_page accepts every page write_page wrote.
THEOREM PagesAlwaysSound == FileSpec => []PagesSound
<1>1. TInv => PagesSound
  BY GoodIsReadable DEF TInv, AllGood, PagesSound, Good
<1> QED
  BY <1>1, FileInductive, PTL

\* A record_id returned by insert_record reads the same until it is deleted, also after
\* compact has moved the records.
THEOREM SlotIdsStable == FileSpec => RecordsKept
<1>1. TInv /\ [FileNext]_filevars =>
          [\A i \in DOMAIN page_cache \cap DOMAIN page_cache' :
              \A s \in DOMAIN page_cache[i].slots :
                 /\ s \in DOMAIN page_cache'[i].slots
                 /\ \/ GetRecord(page_cache'[i], s) = GetRecord(page_cache[i], s)
                    \/ page_cache'[i].slots[s] = Tombstone]_filevars
  BY FileStep DEF AllSlotsKept, SlotsKept
<1> QED
  BY <1>1, FileInductive, PTL DEF FileSpec, RecordsKept

\* A record that sync or close wrote to disk is read back after every crash that leaves
\* its page readable.
THEOREM SyncedIsKept == FileSpec => []SyncedSurvives
<1>1. TInv => SyncedSurvives
  <2> SUFFICES ASSUME TInv, NEW t \in safe
               PROVE  /\ t[1] \in DOMAIN file
                      /\ file[t[1]] # Damaged => t[2] \in Live(file[t[1]])
                                              /\ GetRecord(file[t[1]], t[2]) = Bytes(t[3])
    BY DEF SyncedSurvives
  <2>1. t[1] \in DOMAIN disk /\ (file[t[1]] = Damaged \/ Holds(file[t[1]], t))
    BY DEF TInv, SafeOK
  <2>2. DOMAIN disk \subseteq DOMAIN file
    BY DEF TInv, Typed
  <2> QED
    BY <2>1, <2>2 DEF Holds
<1> QED
  BY <1>1, FileInductive, PTL
=============================================================================
