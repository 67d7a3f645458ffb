---------------------------- MODULE LFUCacheProofs ----------------------------
(***************************************************************************)
(* The structures of the cache agree and an eviction takes the key used    *)
(* least, longest ago, for every set of keys, capacity and bound of the    *)
(* accesses.                                                               *)
(***************************************************************************)
EXTENDS LFUCache, FiniteSetTheorems, TLAPS

\* The history holds every cached key, once.
RecencyOK == IsInjective(recency) /\ Range(recency) = cache

\* No key has been used less often than min_freq says.
MinIsLeast == \A k \in cache : min_freq <= frequencies[k]

LInv ==
    /\ IsFiniteSet(cache) /\ TypeOK
    /\ RecencyOK /\ GroupsAgree /\ MinIsLeast /\ VictimExists

----------------------------------------------------------------------------
(* Sequences without repetitions. *)

\* Without takes one element out and keeps the others in their order.
LEMMA WithoutElement ==
    ASSUME NEW S, NEW s \in Seq(S), IsInjective(s), NEW k \in Range(s)
    PROVE  LET t == Without(s, k)
           IN  /\ t \in Seq(S) /\ IsInjective(t) /\ Range(t) = Range(s) \ {k}
               /\ t = <<>> <=> Range(t) = {}
               /\ \A a, b : Before(t, a, b) <=> a # k /\ b # k /\ Before(s, a, b)
<1> DEFINE p == CHOOSE i \in DOMAIN s : s[i] = k
           n == Len(s)
           t == Without(s, k)
           Up(j) == IF j < p THEN j ELSE j + 1
<1>1. DOMAIN s = 1 .. n /\ n \in Nat
  OBVIOUS
<1>2. p \in 1 .. n /\ s[p] = k
  BY <1>1 DEF Range
<1>3. t = SubSeq(s, 1, p - 1) \o SubSeq(s, p + 1, n)
  BY DEF Without, RemoveAt
<1> HIDE DEF p, n
<1>4. /\ SubSeq(s, 1, p - 1) \in Seq(S) /\ Len(SubSeq(s, 1, p - 1)) = p - 1
      /\ \A j \in 1 .. p - 1 : SubSeq(s, 1, p - 1)[j] = s[j]
  BY <1>1, <1>2 DEF n
<1>5. /\ SubSeq(s, p + 1, n) \in Seq(S) /\ Len(SubSeq(s, p + 1, n)) = n - p
      /\ \A j \in 1 .. n - p : SubSeq(s, p + 1, n)[j] = s[p + j]
  <2> DEFINE q == p + 1
             v == SubSeq(s, q, n)
  <2>1. q \in 1 .. n + 1 /\ n - q + 1 = n - p /\ \A j \in 1 .. n - p : q + j - 1 = p + j
    BY <1>1, <1>2
  <2> HIDE DEF q
  <2>2. v \in Seq(S)
    BY <1>1, <2>1 DEF n
  <2>3. Len(v) = n - q + 1
    <3>1. CASE q <= n
      BY <1>1, <2>1, <3>1 DEF n
    <3>2. CASE q = n + 1
      BY <1>1, <2>1, <3>2 DEF n
    <3> QED
      BY <1>1, <2>1, <3>1, <3>2
  <2>4. ASSUME NEW j \in 1 .. n - p PROVE v[j] = s[q + j - 1]
    <3>1. q <= n /\ j \in 1 .. n - q + 1
      BY <1>1, <1>2, <2>1 
    <3> QED
      BY <1>1, <2>1, <3>1 DEF n
  <2> QED
    BY <2>1, <2>2, <2>3, <2>4 DEF q
<1> HIDE DEF t
<1>6. /\ t \in Seq(S) /\ Len(t) = n - 1 /\ DOMAIN t = 1 .. n - 1
      /\ \A j \in 1 .. n - 1 : t[j] = s[Up(j)]
  <2> DEFINE u == SubSeq(s, 1, p - 1)
             v == SubSeq(s, p + 1, n)
  <2>1. /\ u \in Seq(S) /\ Len(u) = p - 1 /\ v \in Seq(S) /\ Len(v) = n - p /\ t = u \o v
    BY <1>3, <1>4, <1>5
  <2>2. /\ \A j \in 1 .. p - 1 : u[j] = s[j]
        /\ \A j \in 1 .. n - p : v[j] = s[p + j]
    BY <1>4, <1>5
  <2> HIDE DEF u, v
  <2>3. t \in Seq(S) /\ Len(t) = n - 1 /\ DOMAIN t = 1 .. n - 1
    BY <1>1, <1>2, <2>1
  <2>4. \A j \in 1 .. n - 1 : t[j] = IF j < p THEN u[j] ELSE v[j - (p - 1)]
    BY <1>1, <1>2, <2>1
  <2>5. ASSUME NEW j \in 1 .. n - 1 PROVE t[j] = s[Up(j)]
    <3>1. CASE j < p
      BY <1>1, <1>2, <2>2, <2>4, <3>1
    <3>2. CASE ~(j < p)
      <4>1. j - (p - 1) \in 1 .. n - p /\ p + (j - (p - 1)) = j + 1
        BY <1>1, <1>2, <3>2
      <4> QED
        BY <2>2, <2>4, <3>2, <4>1
    <3> QED
      BY <3>1, <3>2
  <2> QED
    BY <2>3, <2>5
<1>7. /\ \A j \in 1 .. n - 1 : Up(j) \in 1 .. n /\ Up(j) # p
      /\ \A i, j \in 1 .. n - 1 : i < j <=> Up(i) < Up(j)
      /\ \A i, j \in 1 .. n - 1 : Up(i) = Up(j) => i = j
      /\ \A i \in 1 .. n : i # p => \E j \in 1 .. n - 1 : Up(j) = i
  <2>1. \A i \in 1 .. n : i # p =>
          LET j == IF i < p THEN i ELSE i - 1 IN j \in 1 .. n - 1 /\ Up(j) = i
    BY <1>1, <1>2
  <2>2. \A i \in 1 .. n : i # p => \E j \in 1 .. n - 1 : Up(j) = i
    BY <2>1
  <2> QED
    BY <1>1, <1>2, <2>2
<1>8. \A i \in 1 .. n : s[i] = k => i = p
  BY <1>1, <1>2 DEF IsInjective
<1> HIDE DEF Up
<1>9. IsInjective(t)
  BY <1>1, <1>6, <1>7 DEF IsInjective
<1>10. Range(t) = Range(s) \ {k}
  <2>1. \A x \in Range(t) : x \in Range(s) /\ x # k
    BY <1>1, <1>6, <1>7, <1>8 DEF Range
  <2>2. ASSUME NEW x \in Range(s), x # k PROVE x \in Range(t)
    <3>1. PICK i \in 1 .. n : s[i] = x
      BY <1>1 DEF Range
    <3>2. PICK j \in 1 .. n - 1 : Up(j) = i
      BY <1>2, <1>7, <2>2, <3>1
    <3> QED
      BY <1>6, <3>1, <3>2 DEF Range
  <2> QED
    BY <2>1, <2>2
<1>11. ASSUME NEW a, NEW b
       PROVE  Before(t, a, b) <=> a # k /\ b # k /\ Before(s, a, b)
  <2>1. ASSUME NEW i \in 1 .. n - 1, NEW j \in 1 .. n - 1, i < j, t[i] = a, t[j] = b
        PROVE  a # k /\ b # k /\ Before(s, a, b)
    BY <1>1, <1>6, <1>7, <1>8, <2>1 DEF Before
  <2>2. ASSUME NEW i \in 1 .. n, NEW j \in 1 .. n, i < j, s[i] = a, s[j] = b, a # k, b # k
        PROVE  Before(t, a, b)
    <3>1. PICK x \in 1 .. n - 1 : Up(x) = i
      BY <1>2, <1>7, <2>2
    <3>2. PICK y \in 1 .. n - 1 : Up(y) = j
      BY <1>2, <1>7, <2>2
    <3>3. x < y
      BY <1>7, <2>2, <3>1, <3>2
    <3> QED
      BY <1>6, <2>2, <3>1, <3>2, <3>3 DEF Before
  <2> QED
    BY <1>1, <1>6, <2>1, <2>2 DEF Before
<1>12. t = <<>> <=> Range(t) = {}
  <2>1. n - 1 \in Nat
    BY <1>1, <1>2
  <2>2. t = <<>> <=> n - 1 = 0
    <3>1. t \in Seq(S) /\ Len(t) = n - 1
      BY <1>6
    <3>2. \A u \in Seq(S) : u = <<>> <=> Len(u) = 0
      OBVIOUS
    <3> QED
      BY <3>1, <3>2
  <2>3. Range(t) = {} <=> n - 1 = 0
    <3>1. CASE n - 1 = 0
      BY <1>6, <3>1 DEF Range
    <3>2. CASE n - 1 # 0
      <4>1. 1 \in 1 .. n - 1
        BY <1>1, <2>1, <3>2
      <4> QED
        BY <1>6, <3>2, <4>1 DEF Range
    <3> QED
      BY <3>1, <3>2
  <2> QED
    BY <2>2, <2>3
<1> QED
  BY <1>6, <1>9, <1>10, <1>11, <1>12 DEF t

\* Append puts a new element behind all others.
LEMMA AppendElement ==
    ASSUME NEW S, NEW s \in Seq(S), IsInjective(s), NEW k \in S, k \notin Range(s)
    PROVE  LET t == Append(s, k)
           IN  /\ t \in Seq(S) /\ IsInjective(t) /\ Range(t) = Range(s) \cup {k}
               /\ t # <<>>
               /\ \A a, b : Before(t, a, b) <=> Before(s, a, b) \/ (a \in Range(s) /\ b = k)
<1> DEFINE n == Len(s)
           t == Append(s, k)
<1>1. /\ n \in Nat /\ DOMAIN s = 1 .. n
      /\ t \in Seq(S) /\ Len(t) = n + 1 /\ DOMAIN t = 1 .. n + 1 /\ t # <<>>
      /\ t[n + 1] = k /\ \A i \in 1 .. n : t[i] = s[i]
  OBVIOUS
<1> HIDE DEF n, t
<1>2. 1 .. n + 1 = (1 .. n) \cup {n + 1} /\ n + 1 \notin 1 .. n
  BY <1>1
<1>3. \A i \in 1 .. n : s[i] # k
  BY <1>1 DEF Range
<1>4. IsInjective(t)
  BY <1>1, <1>2, <1>3 DEF IsInjective
<1>5. Range(t) = Range(s) \cup {k}
  <2>1. Range(t) = {t[i] : i \in 1 .. n} \cup {t[n + 1]}
    BY <1>1, <1>2 DEF Range
  <2>2. {t[i] : i \in 1 .. n} = {s[i] : i \in 1 .. n}
    BY <1>1
  <2> QED
    BY <1>1, <2>1, <2>2 DEF Range
<1>6. ASSUME NEW a, NEW b
      PROVE  Before(t, a, b) <=> Before(s, a, b) \/ (a \in Range(s) /\ b = k)
  <2>1. ASSUME NEW i \in 1 .. n + 1, NEW j \in 1 .. n + 1, i < j, t[i] = a, t[j] = b
        PROVE  Before(s, a, b) \/ (a \in Range(s) /\ b = k)
    <3>1. i \in 1 .. n
      BY <1>1, <2>1
    <3> QED
      BY <1>1, <1>2, <2>1, <3>1 DEF Before, Range
  <2>2. Before(s, a, b) => Before(t, a, b)
    BY <1>1, <1>2 DEF Before
  <2>3. ASSUME NEW i \in 1 .. n, s[i] = a, b = k PROVE Before(t, a, b)
    <3>1. i \in 1 .. n + 1 /\ n + 1 \in 1 .. n + 1 /\ i < n + 1
      BY <1>1
    <3> QED
      BY <1>1, <2>3, <3>1 DEF Before
  <2> QED
    BY <1>1, <2>1, <2>2, <2>3 DEF Before, Range
<1> QED
  BY <1>1, <1>4, <1>5, <1>6 DEF t

\* The head of a sequence is before all of its tail.
LEMMA HeadAndTail ==
    ASSUME NEW S, NEW s \in Seq(S), IsInjective(s), s # <<>>
    PROVE  LET h == Head(s)
               t == Tail(s)
           IN  /\ h \in Range(s) /\ h \in S
               /\ t \in Seq(S) /\ IsInjective(t) /\ Range(t) = Range(s) \ {h}
               /\ \A a, b : Before(t, a, b) => Before(s, a, b)
               /\ \A b \in Range(s) \ {h} : Before(s, h, b)
<1> DEFINE n == Len(s)
           h == Head(s)
           t == Tail(s)
<1>1. /\ n \in Nat /\ n > 0 /\ DOMAIN s = 1 .. n /\ h = s[1] /\ h \in S
      /\ t \in Seq(S) /\ Len(t) = n - 1 /\ DOMAIN t = 1 .. n - 1
      /\ \A i \in 1 .. n - 1 : t[i] = s[i + 1]
  OBVIOUS
<1> HIDE DEF n, h, t
<1>2. /\ 1 \in 1 .. n
      /\ \A i \in 1 .. n - 1 : i + 1 \in 1 .. n /\ i + 1 # 1
      /\ \A i \in 1 .. n : i # 1 => i - 1 \in 1 .. n - 1 /\ (i - 1) + 1 = i /\ 1 < i
      /\ \A i, j \in 1 .. n - 1 : i < j <=> i + 1 < j + 1
      /\ \A i, j \in 1 .. n - 1 : i + 1 = j + 1 => i = j
  BY <1>1
<1>3. IsInjective(t)
  <2>1. ASSUME NEW i \in 1 .. n - 1, NEW j \in 1 .. n - 1, t[i] = t[j]
        PROVE  i = j
    <3>1. s[i + 1] = s[j + 1] /\ i + 1 \in 1 .. n /\ j + 1 \in 1 .. n
      BY <1>1, <1>2, <2>1
    <3>2. i + 1 = j + 1
      BY <1>1, <3>1 DEF IsInjective
    <3> QED
      BY <1>2, <3>2
  <2> QED
    BY <1>1, <2>1 DEF IsInjective
<1>4. Range(t) = Range(s) \ {h}
  <2>1. \A i \in 1 .. n : s[i] = h => i = 1
    BY <1>1, <1>2 DEF IsInjective
  <2>2. \A x \in Range(t) : x \in Range(s) /\ x # h
    BY SMTT(30), <1>1, <1>2, <2>1 DEF Range
  <2>3. \A i \in 1 .. n : s[i] # h => s[i] \in Range(t)
    <3>1. ASSUME NEW i \in 1 .. n, s[i] # h PROVE i - 1 \in 1 .. n - 1 /\ t[i - 1] = s[i]
      BY <1>1, <1>2, <3>1
    <3> QED
      BY <1>1, <3>1 DEF Range
  <2>4. ASSUME NEW x \in Range(s), x # h PROVE x \in Range(t)
    <3>1. PICK i \in 1 .. n : s[i] = x
      BY <1>1 DEF Range
    <3> QED
      BY <2>3, <2>4, <3>1
  <2> QED
    BY <2>2, <2>4
<1>5. \A a, b : Before(t, a, b) => Before(s, a, b)
  BY SMTT(30), <1>1, <1>2 DEF Before
<1>6. \A b \in Range(s) \ {h} : Before(s, h, b)
  BY <1>1, <1>2 DEF Before, Range
<1>7. h \in Range(s)
  BY <1>1, <1>2 DEF Range
<1> QED
  BY <1>1, <1>3, <1>4, <1>5, <1>6, <1>7 DEF h, t

----------------------------------------------------------------------------
(* The operations. *)

\* The order of use once k is the last key used.
LEMMA MoveToEnd ==
    ASSUME LInv, NEW order \in Seq(Keys), IsInjective(order), NEW k \in Keys,
           k \notin Range(order), recency' = Append(order, k), cache' = Range(order) \cup {k},
           \A a, b : a \in Range(order) /\ b \in Range(order) /\ Before(recency, a, b)
                        => Before(order, a, b)
    PROVE  /\ recency' \in Seq(Keys) /\ RecencyOK'
           /\ \A a, b \in Range(order) : Before(recency, a, b) => Before(recency', a, b)
           /\ \A a \in Range(order) : Before(recency', a, k)
<1> DEFINE t == Append(order, k)
<1>1. /\ t \in Seq(Keys) /\ IsInjective(t) /\ Range(t) = Range(order) \cup {k}
      /\ \A a, b : Before(t, a, b) <=> Before(order, a, b) \/ (a \in Range(order) /\ b = k)
  BY AppendElement
<1>2. recency' = t
  OBVIOUS
<1> HIDE DEF t
<1> QED
  BY <1>1, <1>2 DEF RecencyOK

\* A key that is used again.
LEMMA TouchStep ==
    ASSUME LInv, NEW k \in Keys, Touch(k)
    PROVE  LInv'
<1> DEFINE f == frequencies[k]
           left == Without(freq_groups[f], k)
           right == Append(freq_groups[f + 1], k)
           order == Without(recency, k)
<1>1. /\ IsFiniteSet(cache) /\ TypeOK /\ RecencyOK /\ GroupsAgree /\ MinIsLeast /\ VictimExists
      /\ k \in cache /\ cache' = cache /\ f < MaxFreq
  BY DEF LInv, Touch
<1>2. /\ f \in 1 .. MaxFreq /\ f + 1 \in 1 .. MaxFreq /\ f \in Nat
      /\ 1 .. MaxFreq \subseteq 0 .. MaxFreq /\ f # f + 1
  <2>1. f \in 0 .. MaxFreq /\ f > 0 /\ MaxFreq \in Nat
    BY <1>1, CacheAssumption DEF TypeOK, GroupsAgree
  <2> HIDE DEF f
  <2> QED
    BY <1>1, <2>1
<1>3. \A n \in 0 .. MaxFreq :
         /\ freq_groups[n] \in Seq(Keys) /\ IsInjective(freq_groups[n])
         /\ Range(freq_groups[n]) = {x \in cache : frequencies[x] = n}
         /\ \A a, b \in Keys : Before(freq_groups[n], a, b) => Before(recency, a, b)
  BY <1>1 DEF TypeOK, GroupsAgree
<1>4. k \in Range(freq_groups[f]) /\ k \notin Range(freq_groups[f + 1])
  BY <1>1, <1>2, <1>3
<1>5. /\ left \in Seq(Keys) /\ IsInjective(left) /\ Range(left) = Range(freq_groups[f]) \ {k}
      /\ left = <<>> <=> Range(left) = {}
      /\ \A a, b : Before(left, a, b) => Before(freq_groups[f], a, b)
  BY <1>2, <1>3, <1>4, WithoutElement
<1>6. /\ right \in Seq(Keys) /\ IsInjective(right) /\ right # <<>>
      /\ Range(right) = Range(freq_groups[f + 1]) \cup {k}
      /\ \A a, b : Before(right, a, b) <=>
            Before(freq_groups[f + 1], a, b) \/ (a \in Range(freq_groups[f + 1]) /\ b = k)
  BY <1>2, <1>3, <1>4, AppendElement
<1>7. /\ order \in Seq(Keys) /\ IsInjective(order) /\ Range(order) = cache \ {k}
      /\ \A a, b : Before(order, a, b) <=> a # k /\ b # k /\ Before(recency, a, b)
  <2>1. recency \in Seq(Keys) /\ IsInjective(recency) /\ Range(recency) = cache
    BY <1>1 DEF TypeOK, RecencyOK
  <2> QED
    BY <1>1, <2>1, WithoutElement
<1>8. /\ frequencies' = [frequencies EXCEPT ![k] = f + 1]
      /\ freq_groups' = [freq_groups EXCEPT ![f] = left, ![f + 1] = right]
      /\ min_freq' = IF left = <<>> /\ min_freq = f THEN f + 1 ELSE min_freq
      /\ recency' = Append(order, k)
  BY <1>2 DEF Touch
<1> HIDE DEF left, right, order
<1>9. /\ recency' \in Seq(Keys) /\ RecencyOK'
      /\ \A a, b \in cache \ {k} : Before(recency, a, b) => Before(recency', a, b)
      /\ \A a \in cache \ {k} : Before(recency', a, k)
  <2>1. cache' = Range(order) \cup {k} /\ k \notin Range(order)
    BY <1>1, <1>7
  <2> QED
    BY <1>7, <1>8, <2>1, MoveToEnd
<1> HIDE DEF f
<1>10. /\ frequencies' \in [Keys -> 0 .. MaxFreq]
       /\ \A x \in Keys : frequencies'[x] = IF x = k THEN f + 1 ELSE frequencies[x]
  BY <1>1, <1>2, <1>8 DEF TypeOK
<1>11. /\ freq_groups' \in [0 .. MaxFreq -> Seq(Keys)]
       /\ \A n \in 0 .. MaxFreq :
             freq_groups'[n] = IF n = f THEN left ELSE IF n = f + 1 THEN right ELSE freq_groups[n]
  BY <1>1, <1>2, <1>5, <1>6, <1>8 DEF TypeOK
<1>12. cache \subseteq Keys /\ min_freq \in 0 .. MaxFreq /\ frequencies[k] = f
  BY <1>1 DEF TypeOK, f
<1>13. TypeOK' /\ IsFiniteSet(cache')
  BY <1>1, <1>2, <1>8, <1>9, <1>10, <1>11 DEF TypeOK
<1>14. GroupsAgree'
  <2>1. \A x \in Keys : x \in cache' <=> frequencies'[x] > 0
    BY <1>1, <1>2, <1>10 DEF GroupsAgree
  <2>2. ASSUME NEW n \in 0 .. MaxFreq
        PROVE  /\ IsInjective(freq_groups'[n])
               /\ Range(freq_groups'[n]) = {x \in cache' : frequencies'[x] = n}
               /\ \A a, b \in Keys : Before(freq_groups'[n], a, b) => Before(recency', a, b)
    <3>1. IsInjective(freq_groups'[n])
      BY <1>2, <1>3, <1>5, <1>6, <1>11
    <3>2. Range(freq_groups'[n]) = {x \in cache' : frequencies'[x] = n}
      <4>1. {x \in cache' : frequencies'[x] = n} =
              {x \in cache : IF x = k THEN n = f + 1 ELSE frequencies[x] = n}
        BY <1>1, <1>10, <1>12
      <4>2. CASE n = f
        BY <1>2, <1>3, <1>5, <1>11, <4>1, <4>2
      <4>3. CASE n = f + 1
        BY <1>1, <1>2, <1>3, <1>6, <1>11, <4>1, <4>3
      <4>4. CASE n # f /\ n # f + 1
        BY <1>3, <1>11, <1>12, <4>1, <4>4
      <4> QED
        BY <4>2, <4>3, <4>4
    <3>3. ASSUME NEW a \in Keys, NEW b \in Keys, Before(freq_groups'[n], a, b)
          PROVE  Before(recency', a, b)
      <4>1. a \in Range(freq_groups'[n]) /\ b \in Range(freq_groups'[n])
        BY <3>3 DEF Before, Range
      <4>2. CASE n = f + 1 /\ b = k /\ a \in Range(freq_groups[f + 1])
        <5>1. a \in cache \ {k}
          BY <1>2, <1>3, <1>4, <4>2
        <5> QED
          BY <1>9, <4>2, <5>1
      <4>3. CASE Before(freq_groups[n], a, b) /\ a # k /\ b # k
        <5>1. Before(recency, a, b)
          BY <1>3, <4>3
        <5>2. a \in cache /\ b \in cache
          BY <1>1, <3>2, <4>1
        <5> QED
          BY <1>9, <4>3, <5>1, <5>2
      <4>4. CASE n = f
        BY <1>2, <1>5, <1>11, <3>3, <4>1, <4>3, <4>4
      <4>5. CASE n = f + 1
        <5>1. freq_groups'[n] = right
          BY <1>2, <1>11, <4>5
        <5>2. Before(freq_groups[f + 1], a, b) => a # k /\ b # k
          BY <1>4 DEF Before, Range
        <5> QED
          BY <1>6, <3>3, <4>2, <4>3, <4>5, <5>1, <5>2
      <4>6. CASE n # f /\ n # f + 1
        <5>1. freq_groups'[n] = freq_groups[n]
          BY <1>11, <4>6
        <5>2. a # k /\ b # k
          BY <1>3, <1>12, <4>1, <4>6, <5>1
        <5> QED
          BY <3>3, <4>3, <5>1, <5>2
      <4> QED
        BY <4>4, <4>5, <4>6
    <3> QED
      BY <3>1, <3>2, <3>3
  <2> QED
    BY <2>1, <2>2 DEF GroupsAgree
<1>15. MinIsLeast'
  <2>1. ASSUME NEW x \in cache PROVE min_freq' <= frequencies'[x]
    <3>1. min_freq <= frequencies[x] /\ frequencies[x] \in Nat /\ x \in Keys /\ min_freq \in Nat
      BY <1>1, <1>12 DEF MinIsLeast, TypeOK
    <3>2. CASE left = <<>> /\ min_freq = f
      <4>1. x # k => frequencies[x] # f
        BY <1>2, <1>3, <1>5, <3>2
      <4> QED
        BY <1>2, <1>8, <1>10, <3>1, <3>2, <4>1
    <3>3. CASE ~(left = <<>> /\ min_freq = f)
      BY <1>2, <1>8, <1>10, <1>12, <3>1, <3>3
    <3> QED
      BY <3>2, <3>3
  <2> QED
    BY <1>1, <2>1 DEF MinIsLeast
<1>16. VictimExists'
  <2>1. CASE Capacity > 0 /\ Cardinality(cache) >= Capacity
    <3>1. freq_groups[min_freq] # <<>>
      BY <1>1, <2>1 DEF VictimExists
    <3>2. freq_groups'[min_freq'] # <<>>
      BY <1>2, <1>6, <1>8, <1>11, <1>12, <3>1
    <3> QED
      BY <3>2 DEF VictimExists
  <2>2. CASE ~(Capacity > 0 /\ Cardinality(cache) >= Capacity)
    BY <1>1, <2>2 DEF VictimExists
  <2> QED
    BY <2>1, <2>2
<1> QED
  BY <1>9, <1>13, <1>14, <1>15, <1>16 DEF LInv

\* A new key that joins what is kept.
LEMMA InsertStep ==
    ASSUME LInv, NEW k \in Keys, k \notin cache,
           NEW kept \in SUBSET cache, Cardinality(kept) < Capacity,
           NEW groups \in [0 .. MaxFreq -> Seq(Keys)],
           \A n \in 0 .. MaxFreq :
              /\ IsInjective(groups[n])
              /\ Range(groups[n]) = {x \in kept : frequencies[x] = n}
              /\ \A a, b \in Keys : Before(groups[n], a, b) => Before(recency, a, b),
           NEW order \in Seq(Keys), IsInjective(order), Range(order) = kept,
           \A a, b \in kept : Before(recency, a, b) => Before(order, a, b),
           Insert(k, kept, groups, order)
    PROVE  LInv'
<1> DEFINE first == Append(groups[1], k)
<1>1. /\ IsFiniteSet(cache) /\ TypeOK /\ RecencyOK /\ GroupsAgree /\ cache \subseteq Keys
      /\ cache' = kept \cup {k} /\ min_freq' = 1 /\ recency' = Append(order, k)
      /\ freq_groups' = [groups EXCEPT ![1] = first]
      /\ frequencies' =
            [x \in Keys |-> IF x = k THEN 1 ELSE IF x \in kept THEN frequencies[x] ELSE 0]
  BY DEF LInv, Insert, TypeOK
<1>2. 1 \in 0 .. MaxFreq /\ 0 \in 0 .. MaxFreq /\ Capacity \in Nat /\ MaxFreq \in Nat
  BY CacheAssumption
<1>3. k \notin Range(groups[1]) /\ k \notin kept
  BY <1>2
<1>4. /\ first \in Seq(Keys) /\ IsInjective(first) /\ first # <<>>
      /\ Range(first) = Range(groups[1]) \cup {k}
      /\ \A a, b : Before(first, a, b) <=>
            Before(groups[1], a, b) \/ (a \in Range(groups[1]) /\ b = k)
  BY <1>2, <1>3, AppendElement
<1>5. /\ recency' \in Seq(Keys) /\ RecencyOK'
      /\ \A a, b \in kept : Before(recency, a, b) => Before(recency', a, b)
      /\ \A a \in kept : Before(recency', a, k)
  BY <1>1, <1>3, MoveToEnd
<1> HIDE DEF first
<1>6. /\ freq_groups' \in [0 .. MaxFreq -> Seq(Keys)]
      /\ \A n \in 0 .. MaxFreq : freq_groups'[n] = IF n = 1 THEN first ELSE groups[n]
  BY <1>1, <1>2, <1>4
<1>7. /\ frequencies' \in [Keys -> 0 .. MaxFreq]
      /\ \A x \in Keys :
            frequencies'[x] = IF x = k THEN 1 ELSE IF x \in kept THEN frequencies[x] ELSE 0
  BY <1>1, <1>2 DEF TypeOK
<1>8. IsFiniteSet(cache') /\ Cardinality(cache') <= Capacity
  <2>1. IsFiniteSet(kept) /\ Cardinality(kept) \in Nat
    BY <1>1, FS_Subset, FS_CardinalityType
  <2>2. IsFiniteSet(kept \cup {k}) /\ Cardinality(kept \cup {k}) = Cardinality(kept) + 1
    BY <1>3, <2>1, FS_AddElement
  <2> QED
    BY <1>1, <1>2, <2>1, <2>2
<1>9. TypeOK'
  BY <1>1, <1>2, <1>5, <1>6, <1>7, <1>8 DEF TypeOK
<1>10. GroupsAgree'
  <2>1. \A x \in Keys : x \in cache' <=> frequencies'[x] > 0
    <3>1. \A x \in kept : frequencies[x] > 0
      BY <1>1 DEF GroupsAgree
    <3> QED
      BY <1>1, <1>7, <3>1
  <2>2. ASSUME NEW n \in 0 .. MaxFreq
        PROVE  /\ IsInjective(freq_groups'[n])
               /\ Range(freq_groups'[n]) = {x \in cache' : frequencies'[x] = n}
               /\ \A a, b \in Keys : Before(freq_groups'[n], a, b) => Before(recency', a, b)
    <3>1. \A a, b \in Keys : Before(groups[n], a, b) => Before(recency', a, b)
      <4>1. ASSUME NEW a \in Keys, NEW b \in Keys, Before(groups[n], a, b)
            PROVE  Before(recency', a, b)
        <5>1. a \in Range(groups[n]) /\ b \in Range(groups[n])
          BY <4>1 DEF Before, Range
        <5>2. a \in kept /\ b \in kept /\ Before(recency, a, b)
          BY <4>1, <5>1
        <5> QED
          BY <1>5, <5>2
      <4> QED
        BY <4>1
    <3>2. \A x \in kept : x \in Keys /\ x # k /\ frequencies'[x] = frequencies[x]
      BY <1>1, <1>7
    <3>3. frequencies'[k] = 1
      BY <1>7
    <3>4. CASE n = 1
      <4>1. freq_groups'[n] = first
        BY <1>6, <3>4
      <4>2. {x \in cache' : frequencies'[x] = n} = {x \in kept : frequencies[x] = n} \cup {k}
        BY <1>1, <3>2, <3>3, <3>4
      <4>3. ASSUME NEW a \in Keys, NEW b \in Keys, Before(first, a, b)
            PROVE  Before(recency', a, b)
        <5>1. CASE Before(groups[1], a, b)
          BY <3>1, <3>4, <5>1
        <5>2. CASE a \in Range(groups[1]) /\ b = k
          BY <1>2, <1>5, <5>2
        <5> QED
          BY <1>4, <4>3, <5>1, <5>2
      <4> QED
        BY <1>4, <3>4, <4>1, <4>2, <4>3
    <3>5. CASE n # 1
      <4>1. freq_groups'[n] = groups[n]
        BY <1>6, <3>5
      <4>2. {x \in cache' : frequencies'[x] = n} = {x \in kept : frequencies[x] = n}
        BY <1>1, <3>2, <3>3, <3>5
      <4> QED
        BY <3>1, <4>1, <4>2
    <3> QED
      BY <3>4, <3>5
  <2> QED
    BY <2>1, <2>2 DEF GroupsAgree
<1>11. MinIsLeast'
  <2>1. ASSUME NEW x \in cache' PROVE 1 <= frequencies'[x]
    <3>1. x \in Keys
      BY <1>1
    <3> QED
      BY <1>2, <1>7, <1>10, <3>1 DEF GroupsAgree
  <2> QED
    BY <1>1, <2>1 DEF MinIsLeast
<1>12. VictimExists'
  BY <1>1, <1>2, <1>4, <1>6 DEF VictimExists
<1> QED
  BY <1>5, <1>8, <1>9, <1>10, <1>11, <1>12 DEF LInv

\* There is room for the key.
LEMMA PutStep ==
    ASSUME LInv, NEW k \in Keys, Put(k)
    PROVE  LInv'
<1>1. /\ k \notin cache /\ Cardinality(cache) < Capacity /\ cache \in SUBSET cache
      /\ Insert(k, cache, freq_groups, recency)
  BY DEF Put
<1>2. /\ freq_groups \in [0 .. MaxFreq -> Seq(Keys)] /\ recency \in Seq(Keys)
      /\ IsInjective(recency) /\ Range(recency) = cache
  BY DEF LInv, TypeOK, RecencyOK
<1>3. \A n \in 0 .. MaxFreq :
         /\ IsInjective(freq_groups[n])
         /\ Range(freq_groups[n]) = {x \in cache : frequencies[x] = n}
         /\ \A a, b \in Keys : Before(freq_groups[n], a, b) => Before(recency, a, b)
  BY DEF LInv, GroupsAgree
<1> QED
  BY <1>1, <1>2, <1>3, InsertStep

\* The key of the cache used least, longest ago.
Victim == Head(freq_groups[min_freq])

\* What there is to know of the victim.
LEMMA VictimIs ==
    ASSUME LInv, freq_groups[min_freq] # <<>>
    PROVE  /\ Victim \in cache /\ frequencies[Victim] = min_freq
           /\ \A x \in cache : x # Victim =>
                 \/ frequencies[Victim] < frequencies[x]
                 \/ /\ frequencies[Victim] = frequencies[x]
                    /\ Before(recency, Victim, x)
<1> DEFINE g == freq_groups[min_freq]
<1>1. /\ min_freq \in 0 .. MaxFreq /\ cache \subseteq Keys /\ g \in Seq(Keys)
      /\ frequencies \in [Keys -> 0 .. MaxFreq]
  BY DEF LInv, TypeOK
<1>2. /\ IsInjective(g) /\ Range(g) = {x \in cache : frequencies[x] = min_freq}
      /\ \A a, b \in Keys : Before(g, a, b) => Before(recency, a, b)
  BY <1>1 DEF LInv, GroupsAgree
<1>3. Victim \in Range(g) /\ \A b \in Range(g) \ {Victim} : Before(g, Victim, b)
  BY <1>1, <1>2, HeadAndTail DEF Victim
<1>4. Victim \in cache /\ frequencies[Victim] = min_freq
  BY <1>2, <1>3
<1> HIDE DEF g
<1>5. ASSUME NEW x \in cache, x # Victim
      PROVE  \/ frequencies[Victim] < frequencies[x]
             \/ frequencies[Victim] = frequencies[x] /\ Before(recency, Victim, x)
  <2>1. min_freq <= frequencies[x] /\ frequencies[x] \in Int /\ min_freq \in Int
    BY <1>1 DEF LInv, MinIsLeast
  <2>2. CASE min_freq < frequencies[x]
    BY <1>4, <2>2
  <2>3. CASE min_freq = frequencies[x]
    <3>1. x \in Range(g) \ {Victim}
      BY <1>2, <1>5, <2>3
    <3> QED
      BY <1>1, <1>2, <1>3, <1>4, <2>3, <3>1
  <2> QED
    BY <2>1, <2>2, <2>3
<1> QED
  BY <1>4, <1>5

\* A key has to go first.
LEMMA PutEvictingStep ==
    ASSUME LInv, NEW k \in Keys, PutEvicting(k)
    PROVE  LInv' /\ cache' = (cache \ {Victim}) \cup {k}
<1> DEFINE v == Victim
           kept == cache \ {v}
           order == Without(recency, v)
           groups == [freq_groups EXCEPT ![min_freq] = Tail(freq_groups[min_freq])]
<1>1. /\ Capacity > 0 /\ k \notin cache /\ freq_groups[min_freq] # <<>>
      /\ Insert(k, kept, groups, order)
  BY DEF PutEvicting, Victim
<1>2. /\ min_freq \in 0 .. MaxFreq /\ cache \subseteq Keys
      /\ IsFiniteSet(cache) /\ Cardinality(cache) <= Capacity
      /\ freq_groups \in [0 .. MaxFreq -> Seq(Keys)]
      /\ recency \in Seq(Keys) /\ IsInjective(recency) /\ Range(recency) = cache
  BY DEF LInv, TypeOK, RecencyOK
<1>3. v \in cache /\ frequencies[v] = min_freq
  BY <1>1, VictimIs
<1>4. \A n \in 0 .. MaxFreq :
         /\ freq_groups[n] \in Seq(Keys) /\ IsInjective(freq_groups[n])
         /\ Range(freq_groups[n]) = {x \in cache : frequencies[x] = n}
         /\ \A a, b \in Keys : Before(freq_groups[n], a, b) => Before(recency, a, b)
  BY <1>2 DEF LInv, GroupsAgree
<1>5. LET t == Tail(freq_groups[min_freq])
      IN  /\ t \in Seq(Keys) /\ IsInjective(t) /\ Range(t) = Range(freq_groups[min_freq]) \ {v}
          /\ \A a, b : Before(t, a, b) => Before(freq_groups[min_freq], a, b)
  BY <1>1, <1>2, <1>4, HeadAndTail DEF Victim
<1>6. /\ order \in Seq(Keys) /\ IsInjective(order) /\ Range(order) = kept
      /\ \A a, b \in kept : Before(recency, a, b) => Before(order, a, b)
  <2>1. /\ order \in Seq(Keys) /\ IsInjective(order) /\ Range(order) = cache \ {v}
        /\ \A a, b : Before(order, a, b) <=> a # v /\ b # v /\ Before(recency, a, b)
    BY <1>2, <1>3, WithoutElement
  <2> HIDE DEF order
  <2> QED
    BY <2>1
<1>7. /\ groups \in [0 .. MaxFreq -> Seq(Keys)]
      /\ \A n \in 0 .. MaxFreq :
            groups[n] = IF n = min_freq THEN Tail(freq_groups[min_freq]) ELSE freq_groups[n]
  BY <1>2, <1>5
<1>8. Cardinality(kept) < Capacity
  <2>1. Cardinality(kept) = Cardinality(cache) - 1 /\ Cardinality(cache) \in Nat
    BY <1>2, <1>3, FS_RemoveElement, FS_CardinalityType
  <2> QED
    BY <1>2, <2>1, CacheAssumption
<1> HIDE DEF groups, order, v
<1>9. ASSUME NEW n \in 0 .. MaxFreq
      PROVE  /\ IsInjective(groups[n])
             /\ Range(groups[n]) = {x \in kept : frequencies[x] = n}
             /\ \A a, b \in Keys : Before(groups[n], a, b) => Before(recency, a, b)
  <2>1. CASE n = min_freq
    BY <1>4, <1>5, <1>7, <2>1
  <2>2. CASE n # min_freq
    BY <1>3, <1>4, <1>7, <2>2
  <2> QED
    BY <2>1, <2>2
<1>10. kept \in SUBSET cache
  OBVIOUS
<1> HIDE DEF kept
<1>11. LInv'
  BY <1>1, <1>6, <1>7, <1>8, <1>9, <1>10, InsertStep
<1>12. cache' = kept \cup {k}
  BY <1>1 DEF Insert
<1> QED
  BY <1>11, <1>12 DEF kept, v

\* A key that is taken out.
LEMMA InvalidateStep ==
    ASSUME LInv, NEW k \in Keys, Invalidate(k)
    PROVE  LInv'
<1> DEFINE f == frequencies[k]
           left == Without(freq_groups[f], k)
<1>1. /\ IsFiniteSet(cache) /\ TypeOK /\ RecencyOK /\ GroupsAgree /\ MinIsLeast
      /\ k \in cache /\ cache' = cache \ {k} /\ min_freq' = min_freq
      /\ frequencies' = [frequencies EXCEPT ![k] = 0]
      /\ freq_groups' = [freq_groups EXCEPT ![f] = left]
      /\ recency' = Without(recency, k)
  BY DEF LInv, Invalidate
<1>2. f \in 0 .. MaxFreq /\ f # 0 /\ 0 \in 0 .. MaxFreq /\ cache \subseteq Keys
  BY <1>1, CacheAssumption DEF TypeOK, GroupsAgree
<1>3. \A n \in 0 .. MaxFreq :
         /\ freq_groups[n] \in Seq(Keys) /\ IsInjective(freq_groups[n])
         /\ Range(freq_groups[n]) = {x \in cache : frequencies[x] = n}
         /\ \A a, b \in Keys : Before(freq_groups[n], a, b) => Before(recency, a, b)
  BY <1>1 DEF TypeOK, GroupsAgree
<1>4. k \in Range(freq_groups[f])
  BY <1>1, <1>2, <1>3
<1>5. /\ left \in Seq(Keys) /\ IsInjective(left) /\ Range(left) = Range(freq_groups[f]) \ {k}
      /\ \A a, b : Before(left, a, b) => Before(freq_groups[f], a, b)
  BY <1>2, <1>3, <1>4, WithoutElement
<1>6. /\ recency' \in Seq(Keys) /\ RecencyOK'
      /\ \A a, b : Before(recency', a, b) <=> a # k /\ b # k /\ Before(recency, a, b)
  <2> DEFINE order == Without(recency, k)
  <2>1. recency \in Seq(Keys) /\ IsInjective(recency) /\ Range(recency) = cache
    BY <1>1 DEF TypeOK, RecencyOK
  <2>2. /\ order \in Seq(Keys) /\ IsInjective(order) /\ Range(order) = cache \ {k}
        /\ \A a, b : Before(order, a, b) <=> a # k /\ b # k /\ Before(recency, a, b)
    BY <1>1, <2>1, WithoutElement
  <2>3. recency' = order
    BY <1>1
  <2> HIDE DEF order
  <2> QED
    BY <1>1, <2>2, <2>3 DEF RecencyOK
<1> HIDE DEF left
<1>7. /\ freq_groups' \in [0 .. MaxFreq -> Seq(Keys)]
      /\ \A n \in 0 .. MaxFreq : freq_groups'[n] = IF n = f THEN left ELSE freq_groups[n]
  <2> HIDE DEF f
  <2> QED
    BY <1>1, <1>2, <1>5 DEF TypeOK
<1>8. /\ frequencies' \in [Keys -> 0 .. MaxFreq]
      /\ \A x \in Keys : frequencies'[x] = IF x = k THEN 0 ELSE frequencies[x]
  BY <1>1, <1>2 DEF TypeOK
<1>9. IsFiniteSet(cache') /\ Cardinality(cache') < Capacity
  <2>1. /\ IsFiniteSet(cache \ {k}) /\ Cardinality(cache \ {k}) = Cardinality(cache) - 1
        /\ Cardinality(cache) \in Nat /\ Cardinality(cache) <= Capacity
    BY <1>1, FS_RemoveElement, FS_CardinalityType DEF TypeOK
  <2> QED
    BY <1>1, <2>1, CacheAssumption
<1>10. TypeOK'
  <2>1. Cardinality(cache') <= Capacity
    <3>1. Cardinality(cache') \in Nat
      BY <1>9, FS_CardinalityType
    <3> QED
      BY <1>9, <3>1, CacheAssumption
  <2> QED
    BY <1>1, <1>6, <1>7, <1>8, <2>1 DEF TypeOK
<1>11. GroupsAgree'
  <2>1. \A x \in Keys : x \in cache' <=> frequencies'[x] > 0
    BY <1>1, <1>8 DEF GroupsAgree
  <2>2. ASSUME NEW n \in 0 .. MaxFreq
        PROVE  /\ IsInjective(freq_groups'[n])
               /\ Range(freq_groups'[n]) = {x \in cache' : frequencies'[x] = n}
               /\ \A a, b \in Keys : Before(freq_groups'[n], a, b) => Before(recency', a, b)
    <3>1. {x \in cache' : frequencies'[x] = n} = {x \in cache : frequencies[x] = n} \ {k}
      BY <1>1, <1>2, <1>8
    <3>2. IsInjective(freq_groups'[n])
      BY <1>3, <1>5, <1>7
    <3>3. Range(freq_groups'[n]) = Range(freq_groups[n]) \ {k}
      <4>1. n # f => k \notin Range(freq_groups[n])
        BY <1>3
      <4> QED
        BY <1>5, <1>7, <4>1
    <3>4. \A a, b : Before(freq_groups'[n], a, b) => Before(freq_groups[n], a, b)
      BY <1>5, <1>7
    <3>5. ASSUME NEW a \in Keys, NEW b \in Keys, Before(freq_groups'[n], a, b)
          PROVE  Before(recency', a, b)
      <4>1. a \in Range(freq_groups'[n]) /\ b \in Range(freq_groups'[n])
        BY <3>5 DEF Before, Range
      <4> QED
        BY <1>3, <1>6, <3>3, <3>4, <3>5, <4>1
    <3> QED
      BY <1>3, <3>1, <3>2, <3>3, <3>5
  <2> QED
    BY <2>1, <2>2 DEF GroupsAgree
<1>12. MinIsLeast'
  BY <1>1, <1>2, <1>8 DEF MinIsLeast
<1>13. VictimExists'
  <2>1. Cardinality(cache') \in Nat /\ Capacity \in Nat
    BY <1>9, FS_CardinalityType, CacheAssumption
  <2> QED
    BY <1>9, <2>1 DEF VictimExists
<1> QED
  BY <1>6, <1>9, <1>10, <1>11, <1>12, <1>13 DEF LInv

\* The cache without any key.
Empty ==
    /\ cache = {} /\ frequencies = NoFrequencies
    /\ freq_groups = NoGroups /\ min_freq = 0
    /\ recency = <<>>

\* It is in order.
LEMMA EmptyCache == Empty => LInv
<1> SUFFICES ASSUME Empty PROVE LInv
  OBVIOUS
<1> USE DEF Empty
<1>1. Capacity \in Nat /\ 0 \in 0 .. MaxFreq
  BY CacheAssumption
<1>2. IsFiniteSet({}) /\ Cardinality({}) = 0
  BY FS_EmptySet
<1>3. /\ IsInjective(<<>>) /\ Range(<<>>) = {} /\ <<>> \in Seq(Keys)
      /\ \A a, b : ~Before(<<>>, a, b)
  BY DEF IsInjective, Range, Before
<1>4. TypeOK
  BY <1>1, <1>2, <1>3 DEF TypeOK, NoFrequencies, NoGroups
<1>5. GroupsAgree
  BY <1>3 DEF GroupsAgree, NoFrequencies, NoGroups
<1>6. RecencyOK /\ MinIsLeast
  BY <1>3 DEF RecencyOK, MinIsLeast
<1>7. VictimExists
  BY <1>1, <1>2 DEF VictimExists
<1> QED
  BY <1>2, <1>4, <1>5, <1>6, <1>7 DEF LInv

----------------------------------------------------------------------------
(* The theorems. *)

\* Every operation keeps the invariant.
LEMMA CacheStep == LInv /\ [Next]_vars => LInv'
<1> SUFFICES ASSUME LInv, [Next]_vars PROVE LInv'
  OBVIOUS
<1>1. ASSUME NEW k \in Keys, Touch(k) \/ Put(k) \/ PutEvicting(k) \/ Invalidate(k)
      PROVE  LInv'
  BY <1>1, TouchStep, PutStep, PutEvictingStep, InvalidateStep
<1>2. CASE Clear
  <2>1. Empty'
    BY <1>2 DEF Clear, Empty, NoFrequencies, NoGroups
  <2> QED
    BY <2>1, EmptyCache, PTL
<1>3. CASE UNCHANGED vars
  <2>1. UNCHANGED <<cache, frequencies, freq_groups, min_freq, recency>>
    BY <1>3 DEF vars
  <2>2. TypeOK' /\ RecencyOK' /\ MinIsLeast' /\ VictimExists'
    BY <2>1 DEF LInv, TypeOK, RecencyOK, MinIsLeast, VictimExists
  <2>3. GroupsAgree'
    BY <2>1 DEF LInv, GroupsAgree
  <2> QED
    BY <2>1, <2>2, <2>3 DEF LInv
<1> QED
  BY <1>1, <1>2, <1>3 DEF Next

\* The invariant holds in every state the cache reaches.
THEOREM CacheInductive == Spec => []LInv
<1>1. Init => LInv
  BY EmptyCache DEF Init, Empty
<1> QED
  BY <1>1, CacheStep, PTL DEF Spec

\* Cache.put never leaves more keys in the cache than its capacity.
THEOREM TypeCorrect == Spec => []TypeOK
<1>1. LInv => TypeOK
  BY DEF LInv
<1> QED
  BY CacheInductive, <1>1, PTL

\* Cache.get, put and invalidate keep map, frequencies and groups in step, and every
\* group in the order of last use.
THEOREM StructuresAgree == Spec => []GroupsAgree
<1>1. LInv => GroupsAgree
  BY DEF LInv
<1> QED
  BY CacheInductive, <1>1, PTL

\* popitem in Cache.put never meets an empty group.
THEOREM VictimAlwaysExists == Spec => []VictimExists
<1>1. LInv => VictimExists
  BY DEF LInv
<1> QED
  BY CacheInductive, <1>1, PTL

\* What Cache.put evicts was used least often and, among those, longest ago.
THEOREM LeastUsedEvicted == Spec => EvictsLeastUsed
<1> DEFINE Fair == \A k \in cache \ cache', other \in cache :
               cache' \ cache # {} /\ other # k =>
                  \/ frequencies[k] < frequencies[other]
                  \/ /\ frequencies[k] = frequencies[other]
                     /\ Before(recency, k, other)
<1>1. LInv /\ [Next]_vars => [Fair]_vars
  <2> SUFFICES ASSUME LInv, Next, NEW k \in cache \ cache', NEW other \in cache,
                      cache' \ cache # {}, other # k
               PROVE  \/ frequencies[k] < frequencies[other]
                      \/ frequencies[k] = frequencies[other] /\ Before(recency, k, other)
    OBVIOUS
  <2>1. PICK x \in Keys : PutEvicting(x)
    BY DEF Next, Touch, Put, Insert, Invalidate, Clear
  <2>2. freq_groups[min_freq] # <<>> /\ cache' = (cache \ {Victim}) \cup {x}
    BY <2>1, PutEvictingStep DEF PutEvicting
  <2>3. k = Victim
    BY <2>2
  <2> QED
    BY <2>2, <2>3, VictimIs
<1> QED
  BY CacheInductive, <1>1, PTL DEF Spec, EvictsLeastUsed
=============================================================================
