-------------------------- MODULE LargeValuesProofs --------------------------
(***************************************************************************)
(* With one writer, the records make up the value last written, the chunks *)
(* are those of the manifest, a get sees one value, and a restart keeps    *)
(* what is flushed, or small and in the WAL: for every number of readers   *)
(* and values, every number of chunks, of failures to create the table, of *)
(* failing flushes and of crashes.                                         *)
(***************************************************************************)
EXTENDS LargeValues, TLAPS

\* At most one thread in set or set_many: what LargeValues_chunks checks.
SingleWriter == \A v, w \in Writers : v = w

Manifests == {Parts[v] : v \in Large}
Pieces    == Large \X Nat
Anything  == Values \cup {Null}
Records   == [entry : Anything \cup Manifests, chunk : [Numbers -> Pieces \cup {Null}]]
WriterPCs == {"idle", "lookup", "clean", "part", "entry", "raw", "cache"}
ReaderPCs == {"idle", "get", "parts", "keep", "returned"}
Calls     == [pc : WriterPCs \cup ReaderPCs, v : Anything, n : Manifests \cup {0}, i : Nat,
              parts : Seq(Pieces), cached : BOOLEAN]

Typed ==
    /\ table \in {"absent", "entered", "locked", "opened", "ready"}
    /\ store \in Records /\ disk \in Records /\ cache \in Records
    /\ call \in [Threads -> Calls]
    /\ \A w \in Writers : call[w].pc \in WriterPCs
    /\ \A r \in Readers : call[r].pc \in ReaderPCs
    /\ latest \in Anything /\ seen \in [Readers -> SUBSET Anything]
    /\ bypassed \in BOOLEAN /\ parted \in BOOLEAN

\* The lock and the handler of the table are there.
Usable == table \in {"opened", "ready"}

\* Before the table is created, nothing is written; the cache is never ahead of the
\* records, except by a value put together from them.
AbsentIsDisk == table = "absent" => store = disk
CacheOK ==
    /\ cache.entry \in Nat => cache.entry = store.entry
    /\ \A i \in Numbers : cache.chunk[i] # Null => cache.chunk[i] = store.chunk[i]

\* Between two calls, and as long as no thread can have changed a record.
Settled ==
    (\A w \in Writers : call[w].pc \in {"idle", "cache"}) \/ ~Usable => Shown(store) = latest

\* What the entry says of the value last written.
EntryOK ==
    /\ store.entry \notin Nat => store.entry = latest
    /\ ~parted /\ store.entry \in Nat =>
          /\ latest \in Large
          /\ store.chunk[0] \in {Null, <<latest, 0>>} \cup {<<call[w].v, 0>> : w \in Busy}

\* The chunks the writer has written.
WriterOK(w) ==
    LET v == call[w].v IN
    /\ At(w, "lookup") => call[w].n = 0 /\ call[w].i = 0
    /\ At(w, "part") => /\ v \in Large /\ call[w].i < Parts[v]
                        /\ \A j \in Numbers : j < call[w].i => store.chunk[j] = <<v, j>>
    /\ At(w, "entry") /\ v \in Large =>
          \A j \in Numbers : j < Parts[v] => store.chunk[j] = <<v, j>>
    /\ At(w, "cache") => v = latest

\* The chunks of st are those of its manifest.
Exact(st) == \A j \in Numbers : st.chunk[j] # Null <=> st.entry \in Nat /\ j < st.entry

\* The chunks there are, at each step of a call that found the manifest.
ChunksOK ==
    ~bypassed =>
        /\ (\A w \in Writers : call[w].pc \in {"idle", "lookup", "raw", "cache"}) \/ ~Usable
              => Exact(store)
        /\ \A w \in Writers : \A j \in Numbers :
              /\ At(w, "clean") => (store.chunk[j] # Null <=> call[w].i <= j /\ j < call[w].n)
              /\ At(w, "part")  => (store.chunk[j] # Null <=> j < call[w].i)
              /\ At(w, "entry") => (store.chunk[j] # Null <=> call[w].v \in Large /\ j < Parts[call[w].v])

\* What a reader may see, and what it has read.
SeenOK(r) ==
    /\ latest \in seen[r]
    /\ \A w \in Busy : call[w].v \in seen[r] /\ Null \in seen[r]

FromSeen(r, p) == \E v \in seen[r] : p = <<v, 0>>

PartsOK(r) ==
    LET parts == call[r].parts IN
    /\ call[r].n \in Manifests /\ Len(parts) < call[r].n
    /\ IF parts = <<>> THEN store.chunk[0] = Null \/ FromSeen(r, store.chunk[0])
       ELSE FromSeen(r, parts[1])
    /\ Null \notin seen[r] =>
          /\ store.entry = call[r].n
          /\ \A k \in DOMAIN parts : parts[k] = store.chunk[k - 1]

ReaderOK(r) ==
    /\ ~At(r, "idle") => SeenOK(r)
    /\ At(r, "parts") /\ ~parted => PartsOK(r)
    /\ At(r, "parts") => call[r].v = Null /\ call[r].n \in Manifests /\ Len(call[r].parts) < call[r].n
    /\ At(r, "get") => call[r].v = Null /\ call[r].parts = <<>>
    /\ call[r].pc \in {"keep", "returned"} /\ ~call[r].cached /\ ~parted => call[r].v \in seen[r]

VInv ==
    /\ Typed /\ AbsentIsDisk /\ CacheOK /\ Settled /\ EntryOK /\ ChunksOK
    /\ \A w \in Writers : WriterOK(w)
    /\ \A r \in Readers : ReaderOK(r)

\* The last of the entries recovery would find is the one that is there.
LogOK ==
    /\ logged \in Seq(Anything \cup Manifests)
    /\ logged # <<>> => logged[Len(logged)] = store.entry

----------------------------------------------------------------------------
(* Values, records and what they show. *)

\* Numbers, values and deletions are told apart.
LEMMA Kinds ==
    /\ Large \subseteq Values /\ Null \notin Values /\ Null \notin Nat /\ Null \notin Pieces
    /\ \A v \in Anything : v \notin Nat
    /\ \A v \in Large : Parts[v] \in Nat /\ Parts[v] > 0 /\ Parts[v] \in Manifests /\ v # Null
    /\ \A n \in Manifests : n \in Nat /\ n > 0
    /\ \A n \in Manifests : \A i \in Nat : i < n => i \in Numbers
    /\ \A i \in Numbers : i \in Nat /\ 0 \in Numbers
    /\ \A c \in Threads : (c \in Writers => c \notin Readers) /\ (c \in Readers => c \notin Writers)
<1>1. /\ Large \subseteq Values /\ Null \notin Values /\ Null \notin Nat /\ Null \notin Pieces
      /\ Values \cap Nat = {} /\ Parts \in [Large -> Nat \ {0}] /\ Writers \cap Readers = {}
  BY LargeValuesAssumption DEF Pieces
<1>2. \A v \in Large : Parts[v] \in Nat /\ Parts[v] > 0 /\ Parts[v] \in Manifests /\ v # Null
  BY <1>1 DEF Manifests
<1>3. \A n \in Manifests : n \in Nat /\ n > 0
  BY <1>2 DEF Manifests
<1>4. \A n \in Manifests : \A i \in Nat : i < n => i \in Numbers
  <2> TAKE n \in Manifests
  <2> TAKE i \in Nat
  <2>1. PICK v \in Large : n = Parts[v]
    BY DEF Manifests
  <2>2. i < n => i \in 0 .. Parts[v] - 1
    BY <1>2, <2>1
  <2> QED
    BY <2>2 DEF Numbers
<1>5. \A i \in Numbers : i \in Nat /\ 0 \in Numbers
  <2> TAKE i \in Numbers
  <2>1. PICK v \in Large : i \in 0 .. Parts[v] - 1
    BY DEF Numbers
  <2>2. i \in Nat /\ 0 \in 0 .. Parts[v] - 1
    BY <1>2, <2>1
  <2> QED
    BY <2>2 DEF Numbers
<1>6. \A v \in Anything : v \notin Nat
  BY <1>1 DEF Anything
<1> QED
  BY <1>1, <1>2, <1>3, <1>4, <1>5, <1>6

\* Chunks put together give a value only if they begin with its first one.
LEMMA AssembledFirst ==
    ASSUME NEW parts \in Seq(Pieces)
    PROVE  \/ Assembled(parts) = Null
           \/ Assembled(parts) \in Large /\ parts # <<>> /\ parts[1] = <<Assembled(parts), 0>>
<1> DEFINE V == {v \in Large : IsPrefix(Chunks(v), parts)}
           a == Assembled(parts)
<1>1. a = IF V = {} THEN Null ELSE CHOOSE v \in V : TRUE
  BY DEF Assembled
<1>2. CASE V = {}
  BY <1>1, <1>2
<1>3. CASE V # {}
  <2>1. a \in V
    BY <1>1, <1>3
  <2> HIDE DEF a
  <2>2. a \in Large /\ IsPrefix(Chunks(a), parts)
    BY <2>1
  <2> DEFINE n == Parts[a]
             c == Chunks(a)
  <2>3. n \in Nat /\ n > 0
    BY <2>2, Kinds
  <2>4. c = [i \in 1 .. n |-> <<a, i - 1>>]
    BY DEF Chunks
  <2> HIDE DEF n, c
  <2>5. c \in Seq(Large \X Int) /\ Len(c) = n /\ c[1] = <<a, 0>>
    <3>1. \A i \in 1 .. n : <<a, i - 1>> \in Large \X Int
      BY <2>2, <2>3
    <3>2. c \in [1 .. n -> Large \X Int]
      BY <2>4, <3>1
    <3>3. c \in Seq(Large \X Int)
      BY <2>3, <3>2
    <3>4. 1 \in 1 .. n /\ 1 - 1 = 0
      BY <2>3
    <3> QED
      BY <2>3, <2>4, <3>2, <3>3, <3>4
  <2>6. Len(c) <= Len(parts) /\ SubSeq(c, 1, Len(c)) = SubSeq(parts, 1, Len(c))
    BY <2>2 DEF IsPrefix, c
  <2>7. SubSeq(c, 1, n)[1] = c[1] /\ SubSeq(parts, 1, n)[1] = parts[1]
    BY <2>3, <2>5, <2>6
  <2>8. parts[1] = <<a, 0>> /\ Len(parts) >= 1
    BY <2>3, <2>5, <2>6, <2>7
  <2> QED
    BY <2>2, <2>8 DEF a
<1> QED
  BY <1>2, <1>3

\* All chunks of a value, put together, give the value.
LEMMA AssembledWhole == ASSUME NEW v \in Large PROVE Assembled(Chunks(v)) = v
<1> DEFINE n == Parts[v]
           c == Chunks(v)
           V == {u \in Large : IsPrefix(Chunks(u), c)}
<1>1. n \in Nat /\ n > 0
  BY Kinds
<1>2. c = [i \in 1 .. n |-> <<v, i - 1>>]
  BY DEF Chunks
<1>3. c \in Seq(Pieces) /\ Len(c) = n /\ c[1] = <<v, 0>>
  <2> HIDE DEF n, c
  <2>1. \A i \in 1 .. n : <<v, i - 1>> \in Pieces
    BY <1>1 DEF Pieces
  <2>2. c \in [1 .. n -> Pieces]
    BY <1>2, <2>1
  <2>3. c \in Seq(Pieces)
    BY <1>1, <2>2
  <2>4. 1 \in 1 .. n /\ 1 - 1 = 0
    BY <1>1
  <2> QED
    BY <1>1, <1>2, <2>2, <2>3, <2>4
<1>4. v \in V
  BY <1>1, <1>3 DEF IsPrefix
<1>5. Assembled(c) \in V
  BY <1>4 DEF Assembled
<1>6. Assembled(c) # Null
  BY <1>5, Kinds
<1>7. c[1] = <<Assembled(c), 0>>
  BY <1>3, <1>6, AssembledFirst
<1> QED
  BY <1>3, <1>7

\* What records show.
LEMMA ShownSmall == ASSUME NEW st, st.entry \notin Nat PROVE Shown(st) = st.entry
BY DEF Shown

\* Of a manifest, the value of its chunks, or nothing if one is missing.
LEMMA ShownLarge ==
    ASSUME NEW st \in Records, st.entry \in Nat
    PROVE  /\ (\E i \in Numbers : i < st.entry /\ st.chunk[i] = Null) => Shown(st) = Null
           /\ Shown(st) # Null =>
                 /\ Shown(st) \in Large /\ st.chunk[0] = <<Shown(st), 0>>
                 /\ \A i \in Numbers : i < st.entry => st.chunk[i] # Null
                 /\ Shown(st) = Assembled([i \in 1 .. st.entry |-> st.chunk[i - 1]])
<1> DEFINE n == st.entry
           parts == [i \in 1 .. n |-> st.chunk[i - 1]]
<1>1. n \in Manifests /\ n \in Nat /\ n > 0 /\ st.chunk \in [Numbers -> Pieces \cup {Null}]
  BY Kinds DEF Records
<1>2. Shown(st) = IF \E i \in 1 .. n : st.chunk[i - 1] = Null THEN Null ELSE Assembled(parts)
  BY DEF Shown
<1> HIDE DEF n
<1>4. (\E i \in Numbers : i < n /\ st.chunk[i] = Null) => Shown(st) = Null
  <2> SUFFICES ASSUME NEW i \in Numbers, i < n, st.chunk[i] = Null PROVE Shown(st) = Null
    OBVIOUS
  <2> DEFINE k == i + 1
  <2>3. i \in Nat
    BY Kinds
  <2>1. k \in 1 .. n /\ k - 1 = i
    BY <1>1, <2>3
  <2> HIDE DEF k, parts
  <2>2. k \in 1 .. n /\ st.chunk[k - 1] = Null
    BY <2>1
  <2> QED
    BY <1>2, <2>2
<1>5. ASSUME Shown(st) # Null
      PROVE  Shown(st) = Assembled(parts) /\ Shown(st) \in Large /\ st.chunk[0] = <<Shown(st), 0>>
  <2>1. Shown(st) = Assembled(parts) /\ \A i \in 1 .. n : st.chunk[i - 1] # Null
    BY <1>2, <1>5
  <2>2. \A i \in 1 .. n : i - 1 \in Numbers
    BY <1>1, Kinds
  <2>3. \A i \in 1 .. n : st.chunk[i - 1] \in Pieces
    BY <1>1, <2>1, <2>2
  <2>4. parts \in Seq(Pieces)
    <3>1. parts \in [1 .. n -> Pieces]
      BY <2>3
    <3> HIDE DEF parts
    <3> QED
      BY <1>1, <3>1
  <2>5. parts[1] = st.chunk[0]
    <3>1. 1 \in 1 .. n /\ 1 - 1 = 0
      BY <1>1
    <3> QED
      BY <3>1
  <2> HIDE DEF parts
  <2> QED
    BY <1>5, <2>1, <2>4, <2>5, AssembledFirst
<1> QED
  BY <1>4, <1>5 DEF n

\* A manifest with all its chunks shows the value.
LEMMA ShownWhole ==
    ASSUME NEW st, NEW v \in Large, st.entry = Parts[v],
           \A j \in Numbers : j < Parts[v] => st.chunk[j] = <<v, j>>
    PROVE  Shown(st) = v
<1> DEFINE n == Parts[v]
<1>1. n \in Nat /\ n > 0 /\ n \in Manifests
  BY Kinds
<1> HIDE DEF n
<1>2. \A i \in 1 .. n : i - 1 \in Numbers /\ i - 1 < n
  BY <1>1, Kinds
<1>3. \A i \in 1 .. n : st.chunk[i - 1] = <<v, i - 1>>
  BY <1>2 DEF n
<1>4. ~\E i \in 1 .. n : st.chunk[i - 1] = Null
  <2> SUFFICES ASSUME NEW i \in 1 .. n PROVE <<v, i - 1>> # Null
    BY <1>3
  <2>1. <<v, i - 1>> \in Pieces
    BY <1>1 DEF Pieces
  <2> QED
    BY <2>1, Kinds
<1>5. [i \in 1 .. n |-> st.chunk[i - 1]] = Chunks(v)
  BY <1>3 DEF Chunks, n
<1>6. Shown(st) = Assembled([i \in 1 .. n |-> st.chunk[i - 1]])
  BY <1>1, <1>4 DEF Shown, n
<1> QED
  BY <1>5, <1>6, AssembledWhole

\* A chunk is replaced.
With(st, i, p) == [st EXCEPT !.chunk[i] = p]

LEMMA NewChunk ==
    ASSUME NEW st \in Records, NEW i \in Numbers, NEW p \in Pieces \cup {Null}
    PROVE  /\ With(st, i, p) \in Records
           /\ With(st, i, p).entry = st.entry /\ With(st, i, p).chunk[i] = p
           /\ \A j \in Numbers : j # i => With(st, i, p).chunk[j] = st.chunk[j]
<1> DEFINE ch == [st.chunk EXCEPT ![i] = p]
           new == With(st, i, p)
<1>1. st.chunk \in [Numbers -> Pieces \cup {Null}]
  BY DEF Records
<1>2. ch \in [Numbers -> Pieces \cup {Null}] /\ ch[i] = p /\ \A j \in Numbers : j # i => ch[j] = st.chunk[j]
  BY <1>1
<1>3. new = [st EXCEPT !.chunk = ch]
  BY DEF Records, With
<1> HIDE DEF ch
<1>4. new = [entry |-> st.entry, chunk |-> ch]
  BY <1>3 DEF Records
<1> QED
  BY <1>2, <1>4 DEF Records

\* The entry is replaced.
LEMMA NewEntry ==
    ASSUME NEW st \in Records, NEW e \in Anything \cup Manifests,
           NEW new, new = [st EXCEPT !.entry = e]
    PROVE  new \in Records /\ new.entry = e /\ new.chunk = st.chunk
BY DEF Records

\* A thread takes a step.
LEMMA NewCall ==
    ASSUME Typed, NEW c \in Threads, NEW new \in Calls, Step(c, new),
           c \in Writers => new.pc \in WriterPCs, c \in Readers => new.pc \in ReaderPCs
    PROVE  /\ call' \in [Threads -> Calls] /\ call'[c] = new
           /\ \A d \in Threads : d # c => call'[d] = call[d]
           /\ \A w \in Writers : call'[w].pc \in WriterPCs
           /\ \A r \in Readers : call'[r].pc \in ReaderPCs
<1>1. call \in [Threads -> Calls] /\ call' = [call EXCEPT ![c] = new]
  BY DEF Typed, Step
<1>2. /\ call' \in [Threads -> Calls] /\ call'[c] = new
      /\ \A d \in Threads : d # c => call'[d] = call[d]
  BY <1>1
<1>3. (\A w \in Writers : call[w].pc \in WriterPCs) /\ \A r \in Readers : call[r].pc \in ReaderPCs
  BY DEF Typed
<1>4. \A w \in Writers : call'[w].pc \in WriterPCs
  BY <1>2, <1>3 DEF Threads
<1>5. \A r \in Readers : call'[r].pc \in ReaderPCs
  BY <1>2, <1>3 DEF Threads
<1> QED
  BY <1>2, <1>4, <1>5

----------------------------------------------------------------------------
(* Steps that change no record a reader or writer relies on. *)

\* No record, no call and no history changes.
LEMMA QuietStep ==
    ASSUME VInv, UNCHANGED <<store, call, latest, bypassed, parted, seen>>,
           disk' \in Records, cache' \in Records,
           table' \in {"absent", "entered", "locked", "opened", "ready"},
           CacheOK', AbsentIsDisk', Usable => Usable'
    PROVE  VInv'
<1>1. Typed'
  BY DEF VInv, Typed
<1>2. Settled'
  BY DEF VInv, Settled
<1>3. EntryOK'
  BY DEF VInv, EntryOK, Busy, At
<1>4. ChunksOK'
  BY DEF VInv, ChunksOK, Exact, At
<1>5. \A w \in Writers : WriterOK(w)'
  BY DEF VInv, WriterOK, At
<1>6. \A r \in Readers : ReaderOK(r)'
  <2> TAKE r \in Readers
  <2>1. ReaderOK(r)
    BY DEF VInv
  <2>2. Busy' = Busy
    BY DEF Busy, At
  <2> QED
    BY <2>1, <2>2 DEF ReaderOK, SeenOK, PartsOK, FromSeen, At
<1> QED
  BY <1>1, <1>2, <1>3, <1>4, <1>5, <1>6 DEF VInv

\* A table is created, step by step.
LEMMA CreationStep == ASSUME VInv, NEW c \in Threads, Creation(c) PROVE VInv'
<1>1. /\ store \in Records /\ disk \in Records /\ cache \in Records
      /\ table \in {"absent", "entered", "locked", "opened", "ready"}
  BY DEF VInv, Typed
<1>2. CASE FindNoTable(c) \/ MakeTableFails(c)
  <2>1. UNCHANGED <<table, store, disk, cache, call, latest, bypassed, parted, seen>>
    BY <1>2 DEF FindNoTable, MakeTableFails, Else, hist
  <2>2. CacheOK' /\ AbsentIsDisk' /\ Usable' = Usable
    BY <2>1 DEF VInv, CacheOK, AbsentIsDisk, Usable
  <2> QED
    BY <1>1, <2>1, <2>2, QuietStep
<1>3. CASE TakeGlobalLock(c)
  <2>1. UNCHANGED <<disk, cache, call, latest, bypassed, parted, seen>>
    BY <1>3 DEF TakeGlobalLock, hist
  <2>2. \/ table = "absent" /\ table' = "entered" /\ store' = disk
        \/ table' = table /\ store' = store
    BY <1>3 DEF TakeGlobalLock
  <2>3. store' = store
    BY <2>2 DEF VInv, AbsentIsDisk
  <2>4. CacheOK' /\ AbsentIsDisk' /\ (Usable => Usable')
    BY <2>1, <2>2, <2>3 DEF VInv, CacheOK, AbsentIsDisk, Usable
  <2> QED
    BY <1>1, <2>1, <2>2, <2>3, <2>4, QuietStep
<1>4. CASE MakeTable(c)
  <2>1. UNCHANGED <<store, disk, cache, call, latest, bypassed, parted, seen>>
    BY <1>4 DEF MakeTable, Else, hist
  <2>2. \/ table = "entered" /\ table' = "locked"
        \/ table = "locked" /\ table' = "opened"
        \/ table = "opened" /\ table' = "ready"
    BY <1>4 DEF MakeTable
  <2>3. CacheOK' /\ AbsentIsDisk' /\ (Usable => Usable')
    BY <2>1, <2>2 DEF VInv, CacheOK, AbsentIsDisk, Usable
  <2> QED
    BY <1>1, <2>1, <2>2, <2>3, QuietStep
<1> QED
  BY <1>2, <1>3, <1>4 DEF Creation

\* The LFU cache evicts.
LEMMA EvictStep == ASSUME VInv, Evict PROVE VInv'
<1>1. /\ store \in Records /\ disk \in Records /\ cache \in Records
      /\ table \in {"absent", "entered", "locked", "opened", "ready"}
      /\ UNCHANGED <<table, store, disk, call, latest, bypassed, parted, seen>>
  BY DEF VInv, Typed, Evict, tablevars, hist
<1>2. CASE cache' = [cache EXCEPT !.entry = Null]
  <2>1. Null \in Anything \cup Manifests
    BY DEF Anything
  <2>2. cache' \in Records /\ cache'.entry = Null /\ cache'.chunk = cache.chunk
    BY <1>1, <1>2, <2>1, NewEntry
  <2>3. CacheOK' /\ AbsentIsDisk' /\ Usable' = Usable
    BY <1>1, <2>2, Kinds DEF VInv, CacheOK, AbsentIsDisk, Usable
  <2> QED
    BY <1>1, <2>2, <2>3, QuietStep
<1>3. ASSUME NEW i \in Numbers, cache' = [cache EXCEPT !.chunk[i] = Null] PROVE VInv'
  <2>1. /\ cache' \in Records /\ cache'.entry = cache.entry /\ cache'.chunk[i] = Null
        /\ \A j \in Numbers : j # i => cache'.chunk[j] = cache.chunk[j]
    <3>1. Null \in Pieces \cup {Null} /\ cache' = With(cache, i, Null)
      BY <1>3 DEF With
    <3> QED
      BY <1>1, <3>1, NewChunk
  <2>2. CacheOK' /\ AbsentIsDisk' /\ Usable' = Usable
    BY <1>1, <2>1 DEF VInv, CacheOK, AbsentIsDisk, Usable
  <2> QED
    BY <1>1, <2>1, <2>2, QuietStep
<1> QED
  BY <1>2, <1>3 DEF Evict

\* The table file gets the records.
LEMMA FlushStep == ASSUME VInv, Flush PROVE VInv'
<1>1. /\ store \in Records /\ cache \in Records /\ table = "ready" /\ disk' = store
      /\ UNCHANGED <<table, store, cache, call, latest, bypassed, parted, seen>>
  BY DEF VInv, Typed, Flush, tablevars, hist
<1>2. CacheOK' /\ AbsentIsDisk' /\ Usable' = Usable
  BY <1>1 DEF VInv, CacheOK, AbsentIsDisk, Usable
<1> QED
  BY <1>1, <1>2, QuietStep

\* A thread is idle when no call is under way.
LEMMA IdleCall == Idle \in Calls /\ Idle.pc = "idle" /\ "idle" \in WriterPCs /\ "idle" \in ReaderPCs
<1>1. <<>> \in Seq(Pieces)
  OBVIOUS
<1> QED
  BY <1>1 DEF Idle, Calls, Anything, WriterPCs, ReaderPCs

\* The entry that recovery brings back.
LEMMA RecoveredEntry ==
    ASSUME LogOK, disk \in Records, NEW n \in 0 .. Len(logged)
    PROVE  /\ Recovered(n) \in Records
           /\ Recovered(n).entry = Replayed(n) /\ Recovered(n).chunk = disk.chunk
           /\ n = 0 => Recovered(n) = disk
<1>1. logged \in Seq(Anything \cup Manifests) /\ n \in Nat /\ Len(logged) \in Nat
  BY DEF LogOK
<1>2. n # 0 => logged[n] \in Anything \cup Manifests
  BY <1>1
<1>3. /\ disk = [entry |-> disk.entry, chunk |-> disk.chunk]
      /\ disk.entry \in Anything \cup Manifests /\ disk.chunk \in [Numbers -> Pieces \cup {Null}]
  BY DEF Records
<1>4. Replayed(n) \in Anything \cup Manifests /\ (n = 0 => Replayed(n) = disk.entry)
  BY <1>2, <1>3 DEF Replayed
<1>5. Recovered(n) = [entry |-> Replayed(n), chunk |-> disk.chunk]
  BY DEF Recovered
<1> QED
  BY <1>3, <1>4, <1>5 DEF Records

\* After a crash the database shows what is left.
LEMMA CrashStep == ASSUME VInv, LogOK, Crash PROVE VInv'
<1>0. PICK n \in 0 .. Len(logged) : (table' = "absent" => n = 0) /\ store' = Recovered(n)
  BY DEF Crash
<1>1. /\ store \in Records /\ disk \in Records /\ bypassed \in BOOLEAN /\ parted \in BOOLEAN
      /\ table' \in {"absent", "ready"} /\ cache' = Nothing /\ disk' = disk
      /\ call' = [c \in Threads |-> Idle] /\ latest' = Shown(store')
      /\ bypassed' = (bypassed \/ store # disk \/ store' # disk \/ Busy # {})
      /\ parted' = (parted \/ (store'.entry \in Nat /\ latest' = Null))
      /\ seen' = [r \in Readers |-> {}]
  BY DEF VInv, Typed, Crash
<1>2. store' \in Records /\ (table' = "absent" => store' = disk)
  BY <1>0, <1>1, RecoveredEntry
<1>3. /\ \A c \in Threads : call'[c] = Idle /\ call'[c].pc = "idle"
      /\ call' \in [Threads -> Calls] /\ Busy' = {}
      /\ \A w \in Writers : w \in Threads
      /\ \A r \in Readers : r \in Threads
  <2>1. /\ \A c \in Threads : call'[c] = Idle /\ call'[c].pc = "idle"
        /\ call' \in [Threads -> Calls]
    BY <1>1, IdleCall
  <2> QED
    BY <2>1 DEF Busy, At, Threads
<1>4. store'.entry \in Nat /\ latest' # Null => latest' \in Large /\ store'.chunk[0] = <<latest', 0>>
  BY <1>1, <1>2, ShownLarge
<1>5. store'.entry \notin Nat => latest' = store'.entry
  BY <1>1, ShownSmall
<1>6. /\ Nothing \in Records /\ Nothing.entry = Null /\ \A i \in Numbers : Nothing.chunk[i] = Null
  BY DEF Nothing, Records, Anything
<1>7. Typed'
  <2>1. latest' \in Anything
    <3>1. store'.entry \in Anything \cup Manifests
      BY <1>2 DEF Records
    <3> QED
      BY <1>4, <1>5, <3>1, Kinds DEF Anything
  <2>2. bypassed' \in BOOLEAN /\ parted' \in BOOLEAN /\ seen' \in [Readers -> SUBSET Anything]
    BY <1>1
  <2>3. /\ \A w \in Writers : call'[w].pc \in WriterPCs
        /\ \A r \in Readers : call'[r].pc \in ReaderPCs
    BY <1>3, IdleCall
  <2> QED
    BY <1>1, <1>2, <1>3, <1>6, <2>1, <2>2, <2>3 DEF Typed
<1>8. AbsentIsDisk' /\ Settled'
  BY <1>1, <1>2 DEF AbsentIsDisk, Settled
<1>9. CacheOK'
  BY <1>1, <1>6, Kinds DEF CacheOK
<1>10. EntryOK'
  BY <1>1, <1>4, <1>5 DEF EntryOK
<1>11. ChunksOK'
  <2>1. ~bypassed' => Exact(store)
    <3>1. ~bypassed' => ~bypassed /\ Busy = {}
      BY <1>1
    <3>2. Busy = {} => \A w \in Writers : call[w].pc = "idle"
      BY DEF Busy, At
    <3> QED
      BY <3>1, <3>2 DEF VInv, ChunksOK
  <2>2. ~bypassed' => store' = store
    BY <1>1
  <2>3. \A w \in Writers : call'[w].pc = "idle"
    BY <1>3
  <2> QED
    BY <2>1, <2>2, <2>3 DEF ChunksOK, Exact, At
<1>12. \A w \in Writers : WriterOK(w)'
  <2>1. \A w \in Writers : call'[w].pc = "idle"
    BY <1>3
  <2> QED
    BY <2>1 DEF WriterOK, At
<1>13. \A r \in Readers : ReaderOK(r)'
  <2>1. \A r \in Readers : call'[r].pc = "idle"
    BY <1>3
  <2> QED
    BY <2>1 DEF ReaderOK, At
<1> QED
  BY <1>7, <1>8, <1>9, <1>10, <1>11, <1>12, <1>13 DEF VInv

\* Before the first call everything is as the disk has it.
LEMMA Opened == Init => VInv
<1> SUFFICES ASSUME Init PROVE VInv
  OBVIOUS
<1>1. PICK v \in Values \cup {Null} : disk = Written(v) /\ latest = v
  BY DEF Init
<1>2. /\ table = "absent" /\ store = disk /\ cache = Nothing /\ call = [c \in Threads |-> Idle]
      /\ bypassed = FALSE /\ parted = FALSE /\ seen = [r \in Readers |-> {}]
  BY DEF Init
<1>3. /\ \A c \in Threads : call[c] = Idle /\ call[c].pc = "idle"
      /\ call \in [Threads -> Calls] /\ Busy = {}
      /\ \A w \in Writers : call[w].pc = "idle"
      /\ \A r \in Readers : call[r].pc = "idle"
  <2>1. /\ \A c \in Threads : call[c] = Idle /\ call[c].pc = "idle"
        /\ call \in [Threads -> Calls]
    BY <1>2, IdleCall
  <2> QED
    BY <2>1 DEF Busy, At, Threads
<1>4. /\ Nothing \in Records /\ Nothing.entry = Null /\ \A i \in Numbers : Nothing.chunk[i] = Null
  BY DEF Nothing, Records, Anything
<1>5. store \in Records /\ Exact(store) /\ Shown(store) = latest
  <2>1. CASE v \in Large
    <3>1. /\ store.entry = Parts[v] /\ Parts[v] \in Manifests /\ Parts[v] \in Nat
          /\ store.chunk = [i \in Numbers |-> IF i < Parts[v] THEN <<v, i>> ELSE Null]
          /\ store = [entry |-> store.entry, chunk |-> store.chunk]
      BY <1>1, <1>2, <2>1, Kinds DEF Written
    <3>2. \A i \in Numbers : <<v, i>> \in Pieces /\ <<v, i>> # Null
      BY <2>1, Kinds DEF Pieces
    <3>3. store.chunk \in [Numbers -> Pieces \cup {Null}]
      BY <3>1, <3>2
    <3>4. store \in Records
      BY <3>1, <3>3 DEF Records
    <3>5. Exact(store)
      BY <3>1, <3>2 DEF Exact
    <3> QED
      BY <1>1, <2>1, <3>1, <3>4, <3>5, ShownWhole
  <2>2. CASE v \notin Large
    <3>1. store = [Nothing EXCEPT !.entry = v] /\ v \in Anything \cup Manifests
      BY <1>1, <1>2, <2>2 DEF Written, Anything
    <3>2. store \in Records /\ store.entry = v /\ store.chunk = Nothing.chunk
      BY <1>4, <3>1, NewEntry
    <3>3. v \notin Nat
      BY Kinds DEF Anything
    <3> QED
      BY <1>1, <1>4, <3>2, <3>3, ShownSmall DEF Exact
  <2> QED
    BY <2>1, <2>2
<1>6. Typed
  <2>1. latest \in Anything /\ seen \in [Readers -> SUBSET Anything]
    BY <1>1, <1>2 DEF Anything
  <2>2. "idle" \in WriterPCs /\ "idle" \in ReaderPCs
    BY IdleCall
  <2> QED
    BY <1>2, <1>3, <1>4, <1>5, <2>1, <2>2 DEF Typed
<1>7. AbsentIsDisk /\ Settled
  BY <1>2, <1>5 DEF AbsentIsDisk, Settled
<1>8. CacheOK
  BY <1>2, <1>4, Kinds DEF CacheOK
<1>9. EntryOK
  <2>1. store.entry \notin Nat => store.entry = latest
    BY <1>5, ShownSmall
  <2>2. store.entry \in Nat => latest \in Large /\ store.chunk[0] = <<latest, 0>>
    <3>1. store.entry \in Nat => latest # Null
      <4> SUFFICES ASSUME store.entry \in Nat, v = Null PROVE FALSE
        BY <1>1
      <4>1. store = [Nothing EXCEPT !.entry = v] /\ v \in Anything \cup Manifests
        BY <1>1, <1>2, Kinds DEF Written, Anything
      <4>2. store.entry = v
        BY <1>4, <4>1, NewEntry
      <4> QED
        BY <4>2, Kinds
    <3> QED
      BY <1>5, <3>1, ShownLarge
  <2> QED
    BY <2>1, <2>2 DEF EntryOK
<1>10. ChunksOK
  BY <1>3, <1>5 DEF ChunksOK, At
<1>11. (\A w \in Writers : WriterOK(w)) /\ \A r \in Readers : ReaderOK(r)
  BY <1>3 DEF WriterOK, ReaderOK, At
<1> QED
  BY <1>6, <1>7, <1>8, <1>9, <1>10, <1>11 DEF VInv

----------------------------------------------------------------------------
(* The writer. *)

\* What a step within a call of the writer has to keep.
LEMMA WriterFrame ==
    ASSUME VInv, SingleWriter, NEW w \in Writers, w \in Busy,
           NEW new \in Calls, Step(w, new), new.pc \in WriterPCs,
           new.v = call[w].v \/ new.pc = "idle",
           UNCHANGED <<table, disk, parted, seen>>,
           store' \in Records, cache' \in Records, bypassed' \in BOOLEAN, CacheOK',
           store' # store => Usable,
           latest' \in {latest, call[w].v},
           0 \in Numbers => store'.chunk[0] \in {store.chunk[0], Null, <<call[w].v, 0>>},
           new.pc \in {"idle", "cache"} \/ ~Usable => Shown(store') = latest',
           EntryOK', ChunksOK', WriterOK(w)'
    PROVE  VInv'
<1>1. /\ w \in Threads /\ call[w] \in Calls /\ latest \in Anything /\ Usable' = Usable
      /\ \A r \in Readers : r \in Threads /\ r # w
      /\ \A u \in Writers : u = w
  BY Kinds DEF VInv, Typed, Threads, SingleWriter, Usable
<1>2. /\ call' \in [Threads -> Calls] /\ call'[w] = new
      /\ \A d \in Threads : d # w => call'[d] = call[d]
      /\ \A u \in Writers : call'[u].pc \in WriterPCs
      /\ \A r \in Readers : call'[r].pc \in ReaderPCs
  <2>1. w \notin Readers
    BY <1>1
  <2>2. Typed
    BY DEF VInv
  <2> QED
    BY <1>1, <2>1, <2>2, NewCall
<1>3. Typed'
  <2>1. call[w].v \in Anything
    BY <1>1 DEF Calls
  <2> QED
    BY <1>1, <1>2, <2>1 DEF VInv, Typed
<1>4. AbsentIsDisk'
  BY DEF VInv, AbsentIsDisk, Usable
<1>5. Settled'
  BY <1>1, <1>2 DEF Settled
<1>6. \A u \in Writers : WriterOK(u)'
  BY <1>1
<1>7. ASSUME NEW r \in Readers PROVE ReaderOK(r)'
  <2>1. call'[r] = call[r] /\ seen'[r] = seen[r] /\ ReaderOK(r)
    BY <1>1, <1>2 DEF VInv
  <2>2. CASE At(r, "idle")
    BY <2>1, <2>2 DEF ReaderOK, At
  <2>3. CASE ~At(r, "idle")
    <3>1. latest \in seen[r] /\ call[w].v \in seen[r] /\ Null \in seen[r]
      BY <2>1, <2>3 DEF ReaderOK, SeenOK
    <3>2. SeenOK(r)'
      <4>1. \A u \in Busy' : u = w /\ call'[u].v = call[w].v
        BY <1>1, <1>2 DEF Busy, At
      <4>2. latest' \in seen'[r]
        BY <2>1, <3>1
      <4>3. Null \in seen'[r] /\ call[w].v \in seen'[r]
        BY <2>1, <3>1
      <4> QED
        BY <4>1, <4>2, <4>3 DEF SeenOK
    <3>3. ASSUME At(r, "parts"), ~parted PROVE PartsOK(r)'
      <4>1. PartsOK(r) /\ call[r].n \in Manifests
        BY <2>1, <3>3 DEF ReaderOK, PartsOK
      <4>2. store'.chunk[0] \in {store.chunk[0], Null, <<call[w].v, 0>>}
        BY <4>1, Kinds
      <4>3. CASE call[r].parts = <<>>
        <5>1. store.chunk[0] = Null \/ \E v \in seen[r] : store.chunk[0] = <<v, 0>>
          BY <4>1, <4>3 DEF PartsOK, FromSeen
        <5>2. store'.chunk[0] = Null \/ \E v \in seen[r] : store'.chunk[0] = <<v, 0>>
          BY <3>1, <4>2, <5>1
        <5> QED
          BY <2>1, <3>1, <4>1, <4>3, <5>2 DEF PartsOK, FromSeen
      <4>4. CASE call[r].parts # <<>>
        BY <2>1, <3>1, <4>1, <4>4 DEF PartsOK, FromSeen
      <4> QED
        BY <4>3, <4>4
    <3> QED
      BY <2>1, <3>2, <3>3 DEF ReaderOK, At
  <2> QED
    BY <2>2, <2>3
<1> QED
  BY <1>3, <1>4, <1>5, <1>6, <1>7 DEF VInv

\* A call begins.
LEMMA SetCallStep ==
    ASSUME VInv, SingleWriter, NEW w \in Writers, NEW v \in Anything, SetCall(w, v)
    PROVE  VInv'
<1>1. /\ At(w, "idle") /\ Noted(v)
      /\ UNCHANGED <<table, store, disk, cache, latest, bypassed, parted>>
  BY DEF SetCall, tablevars
<1>2. PICK pc \in {"lookup", "raw"} : Step(w, [Idle EXCEPT !.pc = pc, !.v = v])
  BY DEF SetCall
<1> DEFINE new == [Idle EXCEPT !.pc = pc, !.v = v]
<1>3. /\ new \in Calls /\ new.pc = pc /\ new.v = v /\ new.n = 0 /\ new.i = 0 /\ pc \in WriterPCs
  <2>1. pc \in WriterPCs /\ <<>> \in Seq(Pieces)
    BY DEF WriterPCs
  <2> QED
    BY <2>1 DEF Idle, Calls
<1>4. Step(w, new)
  BY <1>2
<1> HIDE DEF new
<1>5. /\ w \in Threads /\ Typed /\ w \notin Readers
      /\ \A r \in Readers : r \in Threads /\ r # w
      /\ \A u \in Writers : u = w
  BY Kinds DEF VInv, Threads, SingleWriter
<1>6. /\ call' \in [Threads -> Calls] /\ call'[w] = new
      /\ \A d \in Threads : d # w => call'[d] = call[d]
      /\ \A u \in Writers : call'[u].pc \in WriterPCs
      /\ \A r \in Readers : call'[r].pc \in ReaderPCs
  BY <1>3, <1>4, <1>5, NewCall
<1>7. Busy = {} /\ Busy' = {w}
  BY <1>1, <1>3, <1>5, <1>6 DEF Busy, At
<1>8. \A r \in Readers : seen'[r] = seen[r] \cup IF At(r, "idle") THEN {} ELSE {v, Null}
  BY <1>1 DEF Noted
<1>9. Typed'
  <2>1. seen' \in [Readers -> SUBSET Anything]
    <3>1. Null \in Anything
      BY DEF Anything
    <3> QED
      BY <1>1, <3>1, <1>5 DEF Noted, Typed
  <2> QED
    BY <1>1, <1>5, <1>6, <2>1 DEF Typed
<1>10. AbsentIsDisk' /\ CacheOK'
  BY <1>1 DEF VInv, AbsentIsDisk, CacheOK
<1>11. Settled'
  <2>1. Settled
    BY DEF VInv
  <2>2. call'[w].pc \notin {"idle", "cache"}
    BY <1>3, <1>6
  <2> QED
    BY <1>1, <2>1, <2>2 DEF Settled, Usable
<1>12. EntryOK'
  BY <1>1, <1>7 DEF VInv, EntryOK
<1>13. ChunksOK'
  <2>1. ~bypassed => Exact(store)
    BY <1>1, <1>5 DEF VInv, ChunksOK, At
  <2>2. \A u \in Writers : call'[u].pc \in {"lookup", "raw"}
    BY <1>3, <1>5, <1>6
  <2> QED
    BY <1>1, <2>1, <2>2 DEF ChunksOK, Exact, At
<1>14. \A u \in Writers : WriterOK(u)'
  BY <1>3, <1>5, <1>6 DEF WriterOK, At
<1>15. ASSUME NEW r \in Readers PROVE ReaderOK(r)'
  <2>1. call'[r] = call[r] /\ ReaderOK(r)
    BY <1>5, <1>6 DEF VInv
  <2>2. CASE At(r, "idle")
    BY <2>1, <2>2 DEF ReaderOK, At
  <2>3. CASE ~At(r, "idle")
    <3>1. seen'[r] = seen[r] \cup {v, Null} /\ latest \in seen[r]
      BY <1>8, <2>1, <2>3 DEF ReaderOK, SeenOK
    <3>2. SeenOK(r)'
      BY <1>1, <1>3, <1>6, <1>7, <3>1 DEF SeenOK
    <3>3. ASSUME At(r, "parts"), ~parted PROVE PartsOK(r)'
      <4>1. PartsOK(r)
        BY <2>1, <3>3 DEF ReaderOK
      <4> QED
        BY <1>1, <2>1, <3>1, <4>1 DEF PartsOK, FromSeen
    <3> QED
      BY <1>1, <2>1, <3>1, <3>2, <3>3 DEF ReaderOK, At
  <2> QED
    BY <2>2, <2>3
<1> QED
  BY <1>9, <1>10, <1>11, <1>12, <1>13, <1>14, <1>15 DEF VInv

\* What is known before any other step of the writer.
Writing(w) ==
    /\ w \in Busy /\ w \in Threads /\ call[w] \in Calls /\ Typed
    /\ store \in Records /\ cache \in Records /\ bypassed \in BOOLEAN
    /\ \A u \in Writers : u = w
    /\ call[w].v \in Anything /\ call[w].n \in Manifests \cup {0} /\ call[w].i \in Nat
    /\ UNCHANGED <<table, disk, parted>>

\* Before a step of a writer within its call.
LEMMA InCall ==
    ASSUME VInv, SingleWriter, NEW w \in Writers, ~At(w, "idle"), Most
    PROVE  Writing(w)
BY DEF VInv, Typed, SingleWriter, Writing, Busy, Threads, Calls, Most

\* The number of chunks to delete is read.
LEMMA LookupStep ==
    ASSUME VInv, SingleWriter, NEW w \in Writers, Lookup(w) PROVE VInv'
<1>1. /\ At(w, "lookup") /\ Most
      /\ UNCHANGED <<store, cache, latest, seen>>
  BY DEF Lookup, Rest
<1>2. /\ Writing(w) /\ call[w].n = 0 /\ call[w].i = 0
  BY <1>1, InCall DEF At, VInv, WriterOK
<1>3. PICK n \in Manifests \cup {0} :
         /\ Step(w, [call[w] EXCEPT !.pc = "clean", !.n = n])
         /\ \/ n = (IF store.entry \in Nat THEN store.entry ELSE 0) /\ bypassed' = bypassed
            \/ n = 0 /\ bypassed' = (bypassed \/ store.entry \in Nat)
  <2>1. CASE Fails(w)
    <3>1. ASSUME Step(w, [call[w] EXCEPT !.pc = "clean"])
          PROVE  Step(w, [call[w] EXCEPT !.pc = "clean", !.n = 0])
      <4>1. [call[w] EXCEPT !.pc = "clean"] = [call[w] EXCEPT !.pc = "clean", !.n = 0]
        BY <1>2 DEF Writing, Calls
      <4> QED
        BY <3>1, <4>1
    <3> QED
      BY <2>1, <3>1 DEF Lookup, Has, Fails
  <2>2. CASE ~Fails(w)
    <3>1. store.entry \in Nat => store.entry \in Manifests
      BY <1>2, Kinds DEF Writing, Records
    <3> QED
      BY <2>2, <3>1 DEF Lookup
  <2> QED
    BY <2>1, <2>2
<1> DEFINE new == [call[w] EXCEPT !.pc = "clean", !.n = n]
<1>4. new \in Calls /\ new.pc = "clean" /\ new.n = n /\ new.i = 0 /\ new.v = call[w].v
  BY <1>2 DEF Writing, Calls, WriterPCs
<1>5. Step(w, new)
  BY <1>3
<1> HIDE DEF new
<1>6. /\ call'[w] = new /\ new.pc \in WriterPCs
  BY <1>2, <1>4, <1>5 DEF Step, Writing, Typed, WriterPCs
<1>7. CacheOK'
  BY <1>1 DEF VInv, CacheOK
<1>8. ~Usable => Shown(store') = latest'
  BY <1>1 DEF VInv, Settled
<1>9. EntryOK'
  <2>1. Busy' = Busy /\ \A u \in Busy : call'[u].v = call[u].v
    BY <1>2, <1>4, <1>6 DEF Busy, At, Writing
  <2> QED
    BY <1>1, <1>2, <2>1 DEF VInv, EntryOK, Writing
<1>10. ChunksOK'
  <2> SUFFICES ASSUME ~bypassed' PROVE ChunksOK'
    BY DEF ChunksOK
  <2>1. ~bypassed /\ Exact(store)
    BY <1>1, <1>2, <1>3 DEF VInv, ChunksOK, At, Writing
  <2>2. n = IF store.entry \in Nat THEN store.entry ELSE 0
    BY <1>3
  <2>3. \A j \in Numbers : j \in Nat /\ (store.chunk[j] # Null <=> 0 <= j /\ j < n)
    BY <2>1, <2>2, Kinds DEF Exact
  <2>4. Exact(store')
    BY <1>1, <2>1
  <2>5. \A u \in Writers : call'[u] = new
    BY <1>2, <1>6 DEF Writing
  <2> QED
    BY <1>1, <1>4, <2>3, <2>4, <2>5 DEF ChunksOK, Exact, At
<1>11. WriterOK(w)'
  BY <1>4, <1>6 DEF WriterOK, At
<1>12. bypassed' \in BOOLEAN
  BY <1>2, <1>3 DEF Writing
<1> QED
  BY <1>1, <1>2, <1>4, <1>5, <1>6, <1>7, <1>8, <1>9, <1>10, <1>11, <1>12, WriterFrame DEF Writing

\* A chunk is written or deleted, in the records and in the cache.
LEMMA PutChunkDoes ==
    ASSUME CacheOK, store \in Records, cache \in Records,
           NEW i \in Numbers, NEW p \in Pieces \cup {Null}, PutChunk(i, p)
    PROVE  /\ store' \in Records /\ cache' \in Records /\ CacheOK'
           /\ store'.entry = store.entry /\ store'.chunk[i] = p
           /\ \A j \in Numbers : j # i => store'.chunk[j] = store.chunk[j]
<1>1. store' = With(store, i, p) /\ cache' = With(cache, i, p)
  BY DEF PutChunk, With
<1>2. /\ store' \in Records /\ store'.entry = store.entry /\ store'.chunk[i] = p
      /\ \A j \in Numbers : j # i => store'.chunk[j] = store.chunk[j]
  BY <1>1, NewChunk
<1>3. /\ cache' \in Records /\ cache'.entry = cache.entry /\ cache'.chunk[i] = p
      /\ \A j \in Numbers : j # i => cache'.chunk[j] = cache.chunk[j]
  BY <1>1, NewChunk
<1> QED
  BY <1>2, <1>3 DEF CacheOK

\* The entry is written, in the records and in the cache.
LEMMA PutEntryDoes ==
    ASSUME CacheOK, store \in Records, cache \in Records,
           NEW w, NEW e \in Anything \cup Manifests, PutEntry(w, e)
    PROVE  /\ store' \in Records /\ cache' \in Records /\ CacheOK'
           /\ store'.entry = e /\ store'.chunk = store.chunk /\ latest' = call[w].v
<1>1. store' \in Records /\ store'.entry = e /\ store'.chunk = store.chunk
  BY NewEntry DEF PutEntry
<1>2. cache' \in Records /\ cache'.entry = e /\ cache'.chunk = cache.chunk
  BY NewEntry DEF PutEntry
<1> QED
  BY <1>1, <1>2 DEF CacheOK, PutEntry

\* The call ends, and the records show the value last written.
LEMMA EndStep ==
    ASSUME VInv, SingleWriter, NEW w \in Writers, Writing(w), Step(w, Idle),
           UNCHANGED <<store, latest, bypassed, seen>>, cache' \in Records, CacheOK',
           Shown(store) = latest, ~bypassed => Exact(store)
    PROVE  VInv'
<1>1. Idle \in Calls /\ Idle.pc = "idle" /\ "idle" \in WriterPCs /\ call'[w] = Idle
  BY IdleCall DEF Writing, Typed, Step
<1>2. \A u \in Writers : u = w /\ call'[u].pc = "idle"
  BY <1>1 DEF Writing
<1>3. EntryOK'
  <2>1. store.entry \notin Nat => store.entry = latest
    BY DEF VInv, EntryOK
  <2>2. store.entry \in Nat /\ ~parted => latest \in Large
    BY DEF VInv, EntryOK
  <2>3. store.entry \in Nat /\ ~parted => store.chunk[0] = <<latest, 0>>
    <3>1. latest \in Large => latest # Null
      BY Kinds
    <3>2. store \in Records
      BY DEF Writing
    <3> QED
      BY <2>2, <3>1, <3>2, ShownLarge
  <2> QED
    BY <2>1, <2>2, <2>3 DEF EntryOK, Writing
<1>4. ChunksOK'
  BY <1>2 DEF ChunksOK, Exact, At
<1>5. WriterOK(w)'
  BY <1>1 DEF WriterOK, At
<1> QED
  BY <1>1, <1>3, <1>4, <1>5, WriterFrame DEF Writing

\* A chunk of the old value is deleted, or none is left.
LEMMA CleanStep ==
    ASSUME VInv, SingleWriter, NEW w \in Writers, Clean(w) PROVE VInv'
<1>1. At(w, "clean") /\ Most /\ UNCHANGED <<latest, seen>>
  BY DEF Clean
<1>2. Writing(w)
  BY <1>1, InCall DEF At
<1>3. CASE /\ Has(w) /\ call[w].i < call[w].n /\ PutChunk(call[w].i, Null)
           /\ Step(w, [call[w] EXCEPT !.i = @ + 1]) /\ UNCHANGED bypassed
  <2> DEFINE i == call[w].i
             n == call[w].n
             new == [call[w] EXCEPT !.i = @ + 1]
  <2>1. i \in Numbers /\ i \in Nat /\ n \in Nat
    BY <1>2, <1>3, Kinds DEF Writing
  <2>2. new \in Calls /\ new.pc = "clean" /\ new.n = n /\ new.i = i + 1 /\ new.v = call[w].v
    BY <1>1, <1>2 DEF Writing, Calls, At
  <2>3. Step(w, new) /\ PutChunk(i, Null) /\ Usable
    BY <1>3 DEF Has, Usable
  <2> HIDE DEF new
  <2>4. call'[w] = new /\ new.pc \in WriterPCs
    BY <1>2, <2>2, <2>3 DEF Step, Writing, Typed, WriterPCs
  <2>5. /\ store' \in Records /\ cache' \in Records /\ CacheOK'
        /\ store'.entry = store.entry /\ store'.chunk[i] = Null
        /\ \A j \in Numbers : j # i => store'.chunk[j] = store.chunk[j]
    <3>1. CacheOK /\ Null \in Pieces \cup {Null}
      BY DEF VInv
    <3> QED
      BY <1>2, <2>1, <2>3, <3>1, PutChunkDoes DEF Writing
  <2>6. 0 \in Numbers => store'.chunk[0] \in {store.chunk[0], Null}
    BY <2>5
  <2>7. EntryOK'
    <3>1. Busy' = Busy /\ \A u \in Busy : call'[u].v = call[u].v
      BY <1>1, <1>2, <2>2, <2>4 DEF Busy, At, Writing
    <3> QED
      BY <1>1, <1>2, <2>1, <2>5, <2>6, <3>1, Kinds DEF VInv, EntryOK, Writing
  <2>8. ChunksOK'
    <3> SUFFICES ASSUME ~bypassed' PROVE ChunksOK'
      BY DEF ChunksOK
    <3>1. \A j \in Numbers : j \in Nat /\ (store.chunk[j] # Null <=> i <= j /\ j < n)
      BY <1>1, <1>3, Kinds DEF VInv, ChunksOK
    <3>2. \A j \in Numbers : store'.chunk[j] # Null <=> i + 1 <= j /\ j < n
      <4> TAKE j \in Numbers
      <4>1. CASE j = i
        BY <2>1, <2>5, <4>1
      <4>2. CASE j # i
        BY <2>1, <2>5, <3>1, <4>2
      <4> QED
        BY <4>1, <4>2
    <3>3. \A u \in Writers : call'[u] = new
      BY <1>2, <2>4 DEF Writing
    <3>4. Usable'
      BY <1>2, <2>3 DEF Usable, Writing
    <3>5. ~ \A u \in Writers : call'[u].pc \in {"idle", "lookup", "raw", "cache"}
      BY <2>2, <3>3
    <3> HIDE DEF i, n
    <3> QED
      BY <2>2, <3>2, <3>3, <3>4, <3>5 DEF ChunksOK, At
  <2>9. WriterOK(w)'
    BY <2>2, <2>4 DEF WriterOK, At
  <2> QED
    BY <1>1, <1>2, <1>3, <2>2, <2>3, <2>4, <2>5, <2>6, <2>7, <2>8, <2>9, WriterFrame DEF Writing
<1>4. CASE call[w].i = call[w].n /\ UNCHANGED <<store, cache, bypassed>> /\ Step(w, Cleaned(w))
  <2> DEFINE pc == IF call[w].v \in Large THEN "part" ELSE "entry"
             new == [call[w] EXCEPT !.pc = pc, !.i = 0]
  <2>1. new \in Calls /\ new.pc = pc /\ new.i = 0 /\ new.v = call[w].v /\ pc \in WriterPCs
    BY <1>2 DEF Writing, Calls, WriterPCs
  <2>2. Step(w, new)
    BY <1>4 DEF Cleaned
  <2> HIDE DEF new
  <2>3. call'[w] = new
    BY <1>2, <2>2 DEF Step, Writing, Typed
  <2>4. CacheOK'
    BY <1>4 DEF VInv, CacheOK
  <2>5. ~Usable => Shown(store') = latest'
    BY <1>1, <1>4 DEF VInv, Settled
  <2>6. EntryOK'
    <3>1. Busy' = Busy /\ \A u \in Busy : call'[u].v = call[u].v
      BY <1>2, <2>1, <2>3 DEF Busy, At, Writing
    <3> QED
      BY <1>1, <1>2, <1>4, <3>1 DEF VInv, EntryOK, Writing
  <2>7. ChunksOK'
    <3> SUFFICES ASSUME ~bypassed' PROVE ChunksOK'
      BY DEF ChunksOK
    <3>1. /\ \A j \in Numbers : store.chunk[j] # Null <=> call[w].i <= j /\ j < call[w].n
          /\ ~Usable => Exact(store)
      BY <1>1, <1>4 DEF VInv, ChunksOK
    <3>2. \A j \in Numbers : j \in Nat /\ ~(call[w].i <= j /\ j < call[w].n)
      <4>1. call[w].n \in Nat
        BY <1>2, Kinds DEF Writing
      <4> QED
        BY <1>2, <1>4, <4>1, Kinds DEF Writing
    <3>3. \A j \in Numbers : store'.chunk[j] = Null /\ ~(j < 0)
      BY <1>4, <3>1, <3>2
    <3>4. ~Usable' => Exact(store')
      BY <1>2, <1>4, <3>1 DEF Writing, Usable, Exact
    <3>5. \A u \in Writers : call'[u] = new
      BY <1>2, <2>3 DEF Writing
    <3>6. ~ \A u \in Writers : call'[u].pc \in {"idle", "lookup", "raw", "cache"}
      BY <2>1, <3>5
    <3> QED
      BY <2>1, <3>3, <3>4, <3>5, <3>6 DEF ChunksOK, Exact, At
  <2>8. WriterOK(w)'
    <3>1. \A j \in Numbers : ~(j < 0)
      BY Kinds
    <3> QED
      BY <2>1, <2>3, <3>1, Kinds DEF WriterOK, At
  <2> QED
    BY <1>1, <1>2, <1>4, <2>1, <2>2, <2>3, <2>4, <2>5, <2>6, <2>7, <2>8, WriterFrame DEF Writing
<1>5. CASE /\ Has(w) /\ call[w].i < call[w].n /\ PutChunk(call[w].i, Null) /\ Step(w, Cleaned(w))
           /\ bypassed' = (bypassed \/ call[w].i + 1 < call[w].n)
  <2> DEFINE i == call[w].i
             n == call[w].n
             pc == IF call[w].v \in Large THEN "part" ELSE "entry"
             new == [call[w] EXCEPT !.pc = pc, !.i = 0]
  <2>1. i \in Numbers /\ i \in Nat /\ n \in Nat
    BY <1>2, <1>5, Kinds DEF Writing
  <2>2. new \in Calls /\ new.pc = pc /\ new.i = 0 /\ new.v = call[w].v /\ pc \in WriterPCs
    BY <1>2 DEF Writing, Calls, WriterPCs
  <2>3. Step(w, new) /\ PutChunk(i, Null) /\ Usable
    BY <1>5 DEF Has, Usable, Cleaned
  <2> HIDE DEF new
  <2>4. call'[w] = new
    BY <1>2, <2>3 DEF Step, Writing, Typed
  <2>5. /\ store' \in Records /\ cache' \in Records /\ CacheOK'
        /\ store'.entry = store.entry /\ store'.chunk[i] = Null
        /\ \A j \in Numbers : j # i => store'.chunk[j] = store.chunk[j]
    <3>1. CacheOK /\ Null \in Pieces \cup {Null}
      BY DEF VInv
    <3> QED
      BY <1>2, <2>1, <2>3, <3>1, PutChunkDoes DEF Writing
  <2>6. 0 \in Numbers => store'.chunk[0] \in {store.chunk[0], Null}
    BY <2>5
  <2>7. EntryOK'
    <3>1. Busy' = Busy /\ \A u \in Busy : call'[u].v = call[u].v
      BY <1>2, <2>2, <2>4 DEF Busy, At, Writing
    <3> QED
      BY <1>1, <1>2, <2>1, <2>5, <2>6, <3>1, Kinds DEF VInv, EntryOK, Writing
  <2>8. ChunksOK'
    <3> SUFFICES ASSUME ~bypassed' PROVE ChunksOK'
      BY DEF ChunksOK
    <3>0. ~(i + 1 < n)
      BY <1>5
    <3>1. \A j \in Numbers : j \in Nat /\ (store.chunk[j] # Null <=> i <= j /\ j < n)
      BY <1>1, <1>5, Kinds DEF VInv, ChunksOK
    <3>2. \A j \in Numbers : store'.chunk[j] = Null /\ ~(j < 0)
      <4> TAKE j \in Numbers
      <4>1. CASE j = i
        BY <2>1, <2>5, <4>1
      <4>2. CASE j # i
        <5>1. ~(i <= j /\ j < n)
          BY <2>1, <3>0, <3>1, <4>2
        <5> QED
          BY <2>5, <3>1, <4>2, <5>1
      <4> QED
        BY <4>1, <4>2
    <3>3. \A u \in Writers : call'[u] = new
      BY <1>2, <2>4 DEF Writing
    <3>4. Usable'
      BY <1>2, <2>3 DEF Usable, Writing
    <3>5. ~ \A u \in Writers : call'[u].pc \in {"idle", "lookup", "raw", "cache"}
      BY <2>2, <3>3
    <3> HIDE DEF i, n
    <3> QED
      BY <2>2, <3>2, <3>3, <3>4, <3>5 DEF ChunksOK, At
  <2>9. WriterOK(w)'
    <3>1. \A j \in Numbers : ~(j < 0)
      BY Kinds
    <3> QED
      BY <2>2, <2>4, <3>1, Kinds DEF WriterOK, At
  <2>10. bypassed' \in BOOLEAN
    BY <1>2, <1>5 DEF Writing
  <2> QED
    BY <1>1, <1>2, <2>2, <2>3, <2>4, <2>5, <2>6, <2>7, <2>8, <2>9, <2>10, WriterFrame DEF Writing
<1> QED
  BY <1>3, <1>4, <1>5 DEF Clean

\* The table is not to be had: no record has changed, and the value is written as it is.
LEMMA RawNext ==
    ASSUME VInv, SingleWriter, NEW w \in Writers, Writing(w), ToRaw(w), ~Usable,
           UNCHANGED <<store, cache, latest, bypassed, seen>>
    PROVE  VInv'
<1> DEFINE new == [call[w] EXCEPT !.pc = "raw"]
<1>1. new \in Calls /\ new.pc = "raw" /\ new.v = call[w].v /\ "raw" \in WriterPCs
  BY DEF Writing, Calls, WriterPCs
<1>2. Step(w, new)
  BY DEF ToRaw
<1> HIDE DEF new
<1>3. call'[w] = new
  BY <1>2 DEF Step, Writing, Typed
<1>4. CacheOK'
  BY DEF VInv, CacheOK
<1>5. Shown(store') = latest'
  BY DEF VInv, Settled
<1>6. EntryOK'
  <2>1. Busy' = Busy /\ \A u \in Busy : call'[u].v = call[u].v
    BY <1>1, <1>3 DEF Busy, At, Writing
  <2> QED
    BY <2>1 DEF VInv, EntryOK, Writing
<1>7. ChunksOK'
  <2>1. ~bypassed' => Exact(store')
    BY DEF VInv, ChunksOK, Exact
  <2>2. \A u \in Writers : call'[u].pc = "raw"
    BY <1>1, <1>3 DEF Writing
  <2> QED
    BY <2>1, <2>2 DEF ChunksOK, Exact, At
<1>8. WriterOK(w)'
  BY <1>1, <1>3 DEF WriterOK, At
<1> QED
  BY <1>1, <1>2, <1>3, <1>4, <1>5, <1>6, <1>7, <1>8, WriterFrame DEF Writing

\* A chunk is written, or the table is not to be had and no record has changed.
LEMMA PartStep ==
    ASSUME VInv, SingleWriter, NEW w \in Writers, Part(w) PROVE VInv'
<1>1. At(w, "part") /\ Most /\ UNCHANGED <<latest, seen>>
  BY DEF Part
<1>2. Writing(w)
  BY <1>1, InCall DEF At
<1> DEFINE v == call[w].v
           i == call[w].i
<1>3. /\ v \in Large /\ i < Parts[v] /\ i \in Nat /\ Parts[v] \in Nat /\ i \in Numbers
      /\ \A j \in Numbers : j < i => store.chunk[j] = <<v, j>>
  <2>1. v \in Large /\ i < Parts[v] /\ \A j \in Numbers : j < i => store.chunk[j] = <<v, j>>
    BY <1>1 DEF VInv, WriterOK
  <2> QED
    BY <1>2, <2>1, Kinds DEF Writing
<1>4. CASE /\ Has(w) /\ PutChunk(i, <<v, i>>)
           /\ Step(w, IF i + 1 = Parts[v] THEN [call[w] EXCEPT !.pc = "entry"]
                      ELSE [call[w] EXCEPT !.i = @ + 1])
           /\ UNCHANGED bypassed
  <2> DEFINE last == i + 1 = Parts[v]
             new == IF last THEN [call[w] EXCEPT !.pc = "entry"] ELSE [call[w] EXCEPT !.i = @ + 1]
  <2>1. /\ new \in Calls /\ new.v = v /\ new.pc = (IF last THEN "entry" ELSE "part")
        /\ ~last => new.i = i + 1
    <3>1. CASE last
      BY <1>2, <3>1 DEF Writing, Calls, WriterPCs
    <3>2. CASE ~last
      BY <1>1, <1>2, <3>2 DEF Writing, Calls, At
    <3> QED
      BY <3>1, <3>2
  <2>2. Step(w, new) /\ PutChunk(i, <<v, i>>) /\ Usable
    BY <1>4 DEF Has, Usable
  <2> HIDE DEF new
  <2>3. call'[w] = new /\ new.pc \in WriterPCs /\ new.pc \in {"part", "entry"}
    BY <1>2, <2>1, <2>2 DEF Step, Writing, Typed, WriterPCs
  <2>4. <<v, i>> \in Pieces /\ <<v, i>> # Null
    BY <1>3, Kinds DEF Pieces
  <2>5. /\ store' \in Records /\ cache' \in Records /\ CacheOK'
        /\ store'.entry = store.entry /\ store'.chunk[i] = <<v, i>>
        /\ \A j \in Numbers : j # i => store'.chunk[j] = store.chunk[j]
    <3>1. CacheOK /\ <<v, i>> \in Pieces \cup {Null}
      BY <2>4 DEF VInv
    <3> QED
      BY <1>2, <1>3, <2>2, <3>1, PutChunkDoes DEF Writing
  <2>6. 0 \in Numbers => store'.chunk[0] \in {store.chunk[0], Null, <<v, 0>>}
    BY <2>5
  <2>7. EntryOK'
    <3>1. Busy' = Busy /\ \A u \in Busy : call'[u].v = call[u].v
      BY <1>1, <1>2, <2>1, <2>3 DEF Busy, At, Writing
    <3>2. w \in Busy'
      BY <1>2, <3>1 DEF Writing
    <3>3. EntryOK /\ latest' = latest /\ parted' = parted /\ 0 \in Numbers
      BY <1>1, <1>2, <1>3, Kinds DEF VInv, Writing
    <3>4. store.chunk[0] \in {Null, <<latest, 0>>} \cup {<<call[u].v, 0>> : u \in Busy}
          => store'.chunk[0] \in {Null, <<latest, 0>>} \cup {<<call'[u].v, 0>> : u \in Busy'}
      BY <2>6, <3>1, <3>2, <3>3
    <3> QED
      BY <2>5, <3>3, <3>4 DEF EntryOK
  <2>8. \A j \in Numbers : j \in Nat /\ (j < i + 1 => store'.chunk[j] = <<v, j>>)
    <3> TAKE j \in Numbers
    <3>1. j \in Nat
      BY Kinds
    <3>2. CASE j = i
      BY <2>5, <3>1, <3>2
    <3>3. CASE j # i
      BY <1>3, <2>5, <3>1, <3>3
    <3> QED
      BY <3>1, <3>2, <3>3
  <2>9. ChunksOK'
    <3> SUFFICES ASSUME ~bypassed' PROVE ChunksOK'
      BY DEF ChunksOK
    <3>1. \A j \in Numbers : store.chunk[j] # Null <=> j < i
      BY <1>1, <1>4 DEF VInv, ChunksOK
    <3>2. \A j \in Numbers : store'.chunk[j] # Null <=> j < i + 1
      <4> TAKE j \in Numbers
      <4>0. j \in Nat
        BY Kinds
      <4>1. CASE j = i
        BY <1>3, <2>4, <2>5, <4>0, <4>1
      <4>2. CASE j # i
        BY <1>3, <2>5, <3>1, <4>0, <4>2
      <4> QED
        BY <4>1, <4>2
    <3>3. \A u \in Writers : call'[u] = new
      BY <1>2, <2>3 DEF Writing
    <3>4. Usable'
      BY <1>2, <2>2 DEF Usable, Writing
    <3>5. ~ \A u \in Writers : call'[u].pc \in {"idle", "lookup", "raw", "cache"}
      BY <2>3, <3>3
    <3>6. \A j \in Numbers : /\ new.pc = "part" => (store'.chunk[j] # Null <=> j < new.i)
                             /\ new.pc = "entry" => (store'.chunk[j] # Null <=> new.v \in Large /\ j < Parts[new.v])
      <4>1. CASE last
        BY <1>3, <2>1, <3>2, <4>1
      <4>2. CASE ~last
        BY <2>1, <3>2, <4>2
      <4> QED
        BY <4>1, <4>2
    <3> QED
      BY <2>3, <3>3, <3>4, <3>5, <3>6 DEF ChunksOK, At
  <2>10. WriterOK(w)'
    <3>1. CASE last
      <4>1. \A j \in Numbers : j < Parts[v] => store'.chunk[j] = <<v, j>>
        BY <2>8, <3>1
      <4> QED
        BY <2>1, <2>3, <3>1, <4>1 DEF WriterOK, At
    <3>2. CASE ~last
      <4>1. i + 1 < Parts[v]
        BY <1>3, <3>2
      <4> QED
        BY <1>3, <2>1, <2>3, <2>8, <3>2, <4>1 DEF WriterOK, At
    <3> QED
      BY <3>1, <3>2
  <2>11. new.pc \notin {"idle", "cache"}
    BY <2>3
  <2> QED
    BY <1>1, <1>2, <1>4, <2>1, <2>2, <2>3, <2>5, <2>6, <2>7, <2>9, <2>10, <2>11, WriterFrame DEF Writing
<1>5. CASE Fails(w) /\ UNCHANGED <<store, cache, bypassed>> /\ ToRaw(w)
  <2>1. ~Usable
    BY <1>5 DEF Fails, Usable
  <2> QED
    BY <1>1, <1>2, <1>5, <2>1, RawNext
<1>6. CASE /\ Has(w) /\ PutChunk(i, <<v, i>>) /\ Step(w, [call[w] EXCEPT !.pc = "raw"])
           /\ bypassed' = TRUE
  <2> DEFINE new == [call[w] EXCEPT !.pc = "raw"]
  <2>1. new \in Calls /\ new.pc = "raw" /\ new.v = v /\ "raw" \in WriterPCs
    BY <1>2 DEF Writing, Calls, WriterPCs
  <2>2. Step(w, new) /\ PutChunk(i, <<v, i>>) /\ Usable
    BY <1>6 DEF Has, Usable
  <2> HIDE DEF new
  <2>3. call'[w] = new
    BY <1>2, <2>2 DEF Step, Writing, Typed
  <2>4. /\ store' \in Records /\ cache' \in Records /\ CacheOK'
        /\ store'.entry = store.entry /\ store'.chunk[i] = <<v, i>>
        /\ \A j \in Numbers : j # i => store'.chunk[j] = store.chunk[j]
    <3>1. CacheOK /\ <<v, i>> \in Pieces \cup {Null}
      BY <1>3 DEF VInv, Pieces
    <3> QED
      BY <1>2, <1>3, <2>2, <3>1, PutChunkDoes DEF Writing
  <2>5. 0 \in Numbers => store'.chunk[0] \in {store.chunk[0], Null, <<v, 0>>}
    BY <2>4
  <2>6. EntryOK'
    <3>1. Busy' = Busy /\ \A u \in Busy : call'[u].v = call[u].v
      BY <1>2, <2>1, <2>3 DEF Busy, At, Writing
    <3>2. w \in Busy'
      BY <1>2, <3>1 DEF Writing
    <3>3. EntryOK /\ latest' = latest /\ parted' = parted /\ 0 \in Numbers
      BY <1>1, <1>2, <1>3, Kinds DEF VInv, Writing
    <3>4. store.chunk[0] \in {Null, <<latest, 0>>} \cup {<<call[u].v, 0>> : u \in Busy}
          => store'.chunk[0] \in {Null, <<latest, 0>>} \cup {<<call'[u].v, 0>> : u \in Busy'}
      BY <2>5, <3>1, <3>2, <3>3
    <3> QED
      BY <2>4, <3>3, <3>4 DEF EntryOK
  <2>7. ChunksOK' /\ WriterOK(w)'
    BY <1>6, <2>1, <2>3 DEF ChunksOK, WriterOK, At
  <2>8. new.pc \notin {"idle", "cache"} /\ Usable
    BY <2>1, <2>2
  <2>9. bypassed' \in BOOLEAN
    BY <1>6
  <2> QED
    BY <1>1, <1>2, <2>1, <2>2, <2>3, <2>4, <2>5, <2>6, <2>7, <2>8, <2>9, WriterFrame DEF Writing
<1> QED
  BY <1>4, <1>5, <1>6 DEF Part, ToRaw

\* An entry is written: the manifest of the chunks that are there, or a value as it is.
LEMMA EntryWritten ==
    ASSUME VInv, SingleWriter, NEW w \in Writers, Writing(w),
           NEW new \in Calls, Step(w, new), new.pc \in WriterPCs, new.pc \in {"idle", "cache", "raw"},
           new.v = call[w].v \/ new.pc = "idle",
           NEW e \in Anything \cup Manifests, PutEntry(w, e), Usable,
           UNCHANGED seen, bypassed' \in BOOLEAN,
           \/ e = call[w].v
           \/ /\ call[w].v \in Large /\ e = Parts[call[w].v]
              /\ \A j \in Numbers : j < e => store.chunk[j] = <<call[w].v, j>>,
           ~bypassed' => \A j \in Numbers : store.chunk[j] # Null <=> e \in Nat /\ j < e
    PROVE  VInv'
<1> DEFINE v == call[w].v
<1>1. v \in Anything /\ v \notin Nat /\ call'[w] = new
  BY Kinds DEF Writing, Typed, Step
<1>2. /\ store' \in Records /\ cache' \in Records /\ CacheOK'
      /\ store'.entry = e /\ store'.chunk = store.chunk /\ latest' = v
  <2>1. CacheOK /\ store \in Records /\ cache \in Records
    BY DEF VInv, Writing
  <2> QED
    BY <2>1, PutEntryDoes
<1>3. Shown(store') = latest'
  <2>1. CASE e = v
    BY <1>1, <1>2, <2>1, ShownSmall
  <2>2. CASE v \in Large /\ e = Parts[v] /\ \A j \in Numbers : j < e => store.chunk[j] = <<v, j>>
    BY <1>2, <2>2, ShownWhole
  <2> QED
    BY <2>1, <2>2
<1>4. EntryOK'
  <2>1. CASE e = v
    BY <1>1, <1>2, <2>1 DEF EntryOK
  <2>2. CASE v \in Large /\ e = Parts[v] /\ \A j \in Numbers : j < e => store.chunk[j] = <<v, j>>
    <3>1. e \in Nat /\ 0 < e /\ 0 \in Numbers
      BY <2>2, Kinds
    <3> QED
      BY <1>2, <2>2, <3>1 DEF EntryOK
  <2> QED
    BY <2>1, <2>2
<1>5. \A u \in Writers : call'[u].pc \in {"idle", "cache", "raw"}
  BY <1>1 DEF Writing
<1>6. ChunksOK'
  BY <1>2, <1>5 DEF ChunksOK, Exact, At
<1>7. WriterOK(w)'
  <2>1. new.pc = "cache" => new.v = v
    OBVIOUS
  <2> QED
    BY <1>1, <1>2, <2>1 DEF WriterOK, At
<1> QED
  BY <1>2, <1>3, <1>4, <1>6, <1>7, WriterFrame DEF Writing

\* The manifest or a small value is written.
LEMMA EntryStep ==
    ASSUME VInv, SingleWriter, NEW w \in Writers, Entry(w) PROVE VInv'
<1>1. At(w, "entry") /\ Most /\ UNCHANGED <<bypassed, seen>>
  BY DEF Entry
<1>2. Writing(w)
  BY <1>1, InCall DEF At
<1> DEFINE v == call[w].v
           e == Written(v).entry
<1>3. /\ v \in Large => e = Parts[v]
      /\ v \notin Large => e = v
      /\ e \in Anything \cup Manifests
      /\ v \notin Nat
      /\ v \in Large => \A j \in Numbers : j < Parts[v] => store.chunk[j] = <<v, j>>
  <2>1. /\ v \in Large => e = Parts[v]
        /\ v \notin Large => e = v
    BY DEF Written, Nothing
  <2>2. v \in Large => \A j \in Numbers : j < Parts[v] => store.chunk[j] = <<v, j>>
    BY <1>1 DEF VInv, WriterOK
  <2> QED
    BY <1>2, <2>1, <2>2, Kinds DEF Writing
<1>4. ASSUME Has(w), PutEntry(w, e),
             NEW new, Step(w, new),
             \/ v \in Large /\ new = [call[w] EXCEPT !.pc = "cache"]
             \/ v \in Large /\ new = [call[w] EXCEPT !.pc = "raw"]
             \/ new = Idle
      PROVE  VInv'
  <2>1. /\ new \in Calls /\ new.pc \in WriterPCs /\ new.pc \in {"idle", "cache", "raw"}
        /\ new.v = v \/ new.pc = "idle"
    <3>1. CASE new = Idle
      BY <3>1, IdleCall
    <3>2. CASE new # Idle
      BY <1>2, <1>4, <3>2 DEF Writing, Calls, WriterPCs
    <3> QED
      BY <3>1, <3>2
  <2>2. Step(w, new) /\ Usable /\ PutEntry(w, e)
    BY <1>4 DEF Has, Usable
  <2>3. ~bypassed' => \A j \in Numbers : store.chunk[j] # Null <=> e \in Nat /\ j < e
    <3>1. ~bypassed => \A j \in Numbers : store.chunk[j] # Null <=> v \in Large /\ j < Parts[v]
      BY <1>1 DEF VInv, ChunksOK
    <3>2. v \in Large => e \in Nat
      BY <1>3, Kinds
    <3> QED
      BY <1>1, <1>3, <3>1, <3>2
  <2>4. bypassed' \in BOOLEAN
    BY <1>1, <1>2 DEF Writing
  <2> HIDE DEF e
  <2> QED
    BY <1>1, <1>2, <1>3, <2>1, <2>2, <2>3, <2>4, EntryWritten
<1>5. CASE /\ Fails(w) /\ UNCHANGED <<store, cache, latest>>
           /\ Step(w, Idle) \/ ToRaw(w)
  <2>1. ~Usable
    BY <1>5 DEF Fails, Usable
  <2>2. Shown(store) = latest /\ (~bypassed => Exact(store)) /\ CacheOK'
    BY <1>5, <2>1 DEF VInv, Settled, ChunksOK, CacheOK
  <2>3. CASE Step(w, Idle)
    BY <1>1, <1>2, <1>5, <2>2, <2>3, EndStep DEF Writing
  <2>4. CASE ToRaw(w)
    BY <1>1, <1>2, <1>5, <2>1, <2>2, <2>4, RawNext
  <2> QED
    BY <1>5, <2>3, <2>4
<1> QED
  <2>1. CASE Has(w) /\ PutEntry(w, e) /\ ToRaw(w) /\ v \in Large
    BY <1>4, <2>1 DEF ToRaw
  <2>2. CASE /\ Has(w) /\ PutEntry(w, e)
             /\ Step(w, IF v \in Large THEN [call[w] EXCEPT !.pc = "cache"] ELSE Idle)
    <3>1. CASE v \in Large
      BY <1>4, <2>2, <3>1
    <3>2. CASE v \notin Large
      BY <1>4, <2>2, <3>2
    <3> QED
      BY <3>1, <3>2
  <2> HIDE DEF e
  <2>3. CASE Fails(w) /\ UNCHANGED <<store, cache, latest>>
             /\ IF v \in Large THEN ToRaw(w) ELSE Step(w, Idle)
    BY <1>5, <2>3
  <2> QED
    BY <2>1, <2>2, <2>3 DEF Entry, e

\* The value is written as it is.
LEMMA RawStep ==
    ASSUME VInv, SingleWriter, NEW w \in Writers, Raw(w) PROVE VInv'
<1>1. At(w, "raw") /\ Most /\ UNCHANGED seen /\ Step(w, Idle)
  BY DEF Raw
<1>2. Writing(w)
  BY <1>1, InCall DEF At
<1> DEFINE v == call[w].v
<1>3. ~bypassed => Exact(store)
  BY <1>1, <1>2 DEF VInv, ChunksOK, Writing, At
<1>4. CASE Has(w) /\ PutEntry(w, v) /\ bypassed' = (bypassed \/ store.entry \in Nat)
  <2>1. v \in Anything \cup Manifests /\ v \notin Nat /\ bypassed' \in BOOLEAN /\ Usable
    BY <1>2, <1>4, Kinds DEF Writing, Has, Usable
  <2>2. ~bypassed' => \A j \in Numbers : store.chunk[j] # Null <=> v \in Nat /\ j < v
    BY <1>3, <1>4, <2>1 DEF Exact
  <2>3. Idle \in Calls /\ Idle.pc \in WriterPCs /\ Idle.pc = "idle" /\ Idle.pc \in {"idle", "cache", "raw"}
    BY IdleCall
  <2> QED
    BY <1>1, <1>2, <1>4, <2>1, <2>2, <2>3, EntryWritten
<1>5. CASE Fails(w) /\ UNCHANGED <<store, cache, latest, bypassed>>
  <2>1. ~Usable
    BY <1>5 DEF Fails, Usable
  <2>2. Shown(store) = latest /\ CacheOK'
    BY <1>5, <2>1 DEF VInv, Settled, CacheOK
  <2> QED
    BY <1>1, <1>2, <1>3, <1>5, <2>2, EndStep DEF Writing
<1> QED
  BY <1>4, <1>5 DEF Raw

\* The value is cached.
LEMMA CachePutStep ==
    ASSUME VInv, SingleWriter, NEW w \in Writers, CachePut(w) PROVE VInv'
<1>1. /\ At(w, "cache") /\ Most /\ UNCHANGED <<store, latest, bypassed, seen>> /\ Step(w, Idle)
      /\ cache' = [cache EXCEPT !.entry = call[w].v]
  BY DEF CachePut, Rest
<1>2. Writing(w)
  BY <1>1, InCall DEF At
<1>3. Shown(store) = latest /\ (~bypassed => Exact(store))
  BY <1>1, <1>2 DEF VInv, Settled, ChunksOK, Writing, At
<1>4. cache' \in Records /\ cache'.entry = call[w].v /\ cache'.chunk = cache.chunk
  <2>1. call[w].v \in Anything \cup Manifests /\ cache \in Records
    BY <1>2 DEF Writing
  <2> QED
    BY <1>1, <2>1, NewEntry
<1>5. CacheOK'
  BY <1>1, <1>2, <1>4, Kinds DEF VInv, CacheOK, Writing
<1> QED
  BY <1>1, <1>2, <1>3, <1>4, <1>5, EndStep DEF Writing

----------------------------------------------------------------------------
(* A reader. *)

\* What a step of a reader has to keep.
LEMMA ReaderFrame ==
    ASSUME VInv, NEW r \in Readers, NEW new \in Calls, Step(r, new), new.pc \in ReaderPCs,
           UNCHANGED <<store, latest, bypassed>>, Rest, cache' \in Records, CacheOK',
           seen' \in [Readers -> SUBSET Anything], \A s \in Readers : s # r => seen'[s] = seen[s],
           ReaderOK(r)'
    PROVE  VInv'
<1>1. UNCHANGED <<table, disk, parted>>
  BY DEF Rest, Most
<1>2. /\ Typed /\ r \in Threads /\ r \notin Writers
      /\ \A s \in Readers : s \in Threads
      /\ \A w \in Writers : w \in Threads /\ w # r
  BY Kinds DEF VInv, Threads
<1>3. /\ call' \in [Threads -> Calls] /\ call'[r] = new
      /\ \A d \in Threads : d # r => call'[d] = call[d]
      /\ \A w \in Writers : call'[w].pc \in WriterPCs
      /\ \A s \in Readers : call'[s].pc \in ReaderPCs
  BY <1>2, NewCall
<1>4. /\ \A w \in Writers : call'[w] = call[w]
      /\ Busy' = Busy
  BY <1>2, <1>3 DEF Busy, At
<1>5. Typed'
  BY <1>1, <1>2, <1>3 DEF Typed
<1>6. AbsentIsDisk' /\ Settled'
  BY <1>1, <1>4 DEF VInv, AbsentIsDisk, Settled, Usable
<1>7. EntryOK'
  <2>1. \A w \in Busy : call'[w].v = call[w].v
    BY <1>4 DEF Busy
  <2> QED
    BY <1>1, <1>4, <2>1 DEF VInv, EntryOK
<1>8. ChunksOK'
  BY <1>1, <1>4 DEF VInv, ChunksOK, Exact, Usable, At
<1>9. \A w \in Writers : WriterOK(w)'
  BY <1>4 DEF VInv, WriterOK, At
<1>10. ASSUME NEW s \in Readers, s # r PROVE ReaderOK(s)'
  <2>1. call'[s] = call[s] /\ seen'[s] = seen[s] /\ ReaderOK(s)
    BY <1>2, <1>3, <1>10 DEF VInv
  <2>2. \A w \in Busy : call'[w] = call[w]
    BY <1>4 DEF Busy
  <2> QED
    BY <1>1, <1>4, <2>1, <2>2 DEF ReaderOK, SeenOK, PartsOK, FromSeen, At
<1> QED
  BY <1>5, <1>6, <1>7, <1>8, <1>9, <1>10 DEF VInv

\* What is known before a step of a reader within its call.
Reading(r) ==
    /\ r \in Threads /\ call[r] \in Calls /\ Typed
    /\ store \in Records /\ cache \in Records
    /\ call[r].v \in Anything /\ call[r].n \in Manifests \cup {0}
    /\ call[r].parts \in Seq(Pieces) /\ call[r].cached \in BOOLEAN
    /\ SeenOK(r) /\ UNCHANGED <<table, disk, parted>>

\* Before a step of a reader within its call.
LEMMA InGet ==
    ASSUME VInv, NEW r \in Readers, ~At(r, "idle"), Rest PROVE Reading(r)
BY DEF VInv, Typed, Reading, Threads, Calls, Rest, Most, ReaderOK

\* The call of a reader changes, and nothing else that its facts are about.
LEMMA StillSeen ==
    ASSUME VInv, NEW r \in Readers, NEW new \in Calls, Step(r, new),
           Reading(r), UNCHANGED <<store, latest, seen>>
    PROVE  call'[r] = new /\ SeenOK(r)'
<1>1. call \in [Threads -> Calls] /\ r \in Threads /\ r \notin Writers
  BY Kinds DEF VInv, Typed, Reading
<1>2. call'[r] = new /\ \A w \in Writers : call'[w] = call[w]
  BY <1>1, Kinds DEF Step, Threads
<1>3. Busy' = Busy /\ \A w \in Busy : call'[w] = call[w]
  BY <1>2 DEF Busy, At
<1> QED
  BY <1>2, <1>3 DEF Reading, SeenOK

\* A get begins.
LEMMA GetCallStep == ASSUME VInv, NEW r \in Readers, GetCall(r) PROVE VInv'
<1> DEFINE new == [Idle EXCEPT !.pc = "get"]
           sees == {latest} \cup {call[w].v : w \in Busy} \cup IF Busy = {} THEN {} ELSE {Null}
<1>1. /\ Step(r, new) /\ Rest /\ UNCHANGED <<store, cache, latest, bypassed>>
      /\ seen' = [seen EXCEPT ![r] = sees]
  BY DEF GetCall
<1>2. new \in Calls /\ new.pc = "get" /\ new.pc \in ReaderPCs /\ new.v = Null /\ new.parts = <<>>
  <2>1. "get" \in ReaderPCs /\ <<>> \in Seq(Pieces)
    BY DEF ReaderPCs
  <2> QED
    BY <2>1 DEF Idle, Calls, Anything
<1> HIDE DEF new
<1>3. /\ call \in [Threads -> Calls] /\ seen \in [Readers -> SUBSET Anything] /\ latest \in Anything
      /\ \A w \in Writers : w \in Threads
      /\ r \in Threads /\ r \notin Writers
  BY Kinds DEF VInv, Typed, Threads
<1>4. sees \in SUBSET Anything
  <2>1. \A w \in Busy : call[w].v \in Anything
    BY <1>3 DEF Busy, Calls
  <2> QED
    BY <1>3, <2>1 DEF Anything
<1>5. /\ latest \in sees
      /\ \A w \in Busy : call[w].v \in sees /\ Null \in sees
  OBVIOUS
<1> HIDE DEF sees
<1>6. /\ seen' \in [Readers -> SUBSET Anything] /\ seen'[r] = sees
      /\ \A s \in Readers : s # r => seen'[s] = seen[s]
  BY <1>1, <1>3, <1>4
<1>7. CacheOK' /\ cache' \in Records
  BY <1>1 DEF VInv, CacheOK, Typed
<1>8. call'[r] = new /\ \A w \in Writers : call'[w] = call[w]
  BY <1>1, <1>3 DEF Step
<1>9. Busy' = Busy /\ \A w \in Busy : call'[w] = call[w]
  BY <1>8 DEF Busy, At
<1>10. ReaderOK(r)'
  BY <1>1, <1>2, <1>5, <1>6, <1>8, <1>9 DEF ReaderOK, SeenOK, At
<1> QED
  BY <1>1, <1>2, <1>6, <1>7, <1>10, ReaderFrame

\* A manifest is found: what the reader will read was there since its call.
LEMMA EntryFound ==
    ASSUME VInv, NEW r \in Readers, Reading(r), At(r, "get"),
           NEW e, e = store.entry \/ e = cache.entry, NEW cached \in BOOLEAN,
           e = store.entry \/ cached, Found(r, e, cached),
           UNCHANGED <<store, latest, bypassed, seen>>, Rest, cache' \in Records, CacheOK'
    PROVE  VInv'
<1> DEFINE new == IF e \in Nat THEN [call[r] EXCEPT !.pc = "parts", !.n = e]
                  ELSE [call[r] EXCEPT !.pc = "returned", !.v = e, !.cached = cached]
<1>1. Step(r, new)
  BY DEF Found
<1>2. call[r].v = Null /\ call[r].parts = <<>>
  BY DEF VInv, ReaderOK
<1>3. e \in Anything \cup Manifests /\ (e \in Nat => e = store.entry)
  BY DEF Reading, Records, VInv, CacheOK
<1>4. seen \in [Readers -> SUBSET Anything]
  BY DEF Reading, Typed
<1>5. CASE e \in Nat
  <2>1. e \in Manifests /\ e = store.entry /\ e > 0 /\ 0 \in Numbers
    BY <1>3, <1>5, Kinds
  <2>2. /\ new \in Calls /\ new.pc = "parts" /\ new.pc \in ReaderPCs /\ new.n = e
        /\ new.v = Null /\ new.parts = <<>>
    BY <1>2, <1>5, <2>1 DEF Reading, Calls, ReaderPCs
  <2> HIDE DEF new
  <2>3. call'[r] = new /\ SeenOK(r)'
    BY <1>1, <2>2, StillSeen
  <2>4. ~parted => store.chunk[0] = Null \/ \E v \in seen[r] : store.chunk[0] = <<v, 0>>
    <3>1. ~parted => store.chunk[0] \in {Null, <<latest, 0>>} \cup {<<call[w].v, 0>> : w \in Busy}
      BY <1>5, <2>1 DEF VInv, EntryOK
    <3>2. latest \in seen[r] /\ \A w \in Busy : call[w].v \in seen[r]
      BY DEF Reading, SeenOK
    <3> QED
      BY <3>1, <3>2
  <2>5. ~parted' => PartsOK(r)'
    <3>1. parted' = parted
      BY DEF Reading
    <3>2. DOMAIN new.parts = {} /\ Len(new.parts) = 0
      BY <2>2
    <3> QED
      BY <2>1, <2>2, <2>3, <2>4, <3>1, <3>2 DEF PartsOK, FromSeen
  <2>6. ReaderOK(r)'
    <3>1. Len(new.parts) = 0
      BY <2>2
    <3> QED
      BY <2>1, <2>2, <2>3, <2>5, <3>1 DEF ReaderOK, At
  <2> QED
    BY <1>1, <1>4, <2>2, <2>6, ReaderFrame
<1>6. CASE e \notin Nat
  <2>1. e \in Anything
    BY <1>3, <1>6, Kinds
  <2>2. /\ new \in Calls /\ new.pc = "returned" /\ new.pc \in ReaderPCs
        /\ new.v = e /\ new.cached = cached
    BY <1>2, <1>6, <2>1 DEF Reading, Calls, ReaderPCs
  <2> HIDE DEF new
  <2>3. call'[r] = new /\ SeenOK(r)'
    BY <1>1, <2>2, StillSeen
  <2>4. ~cached => e \in seen[r]
    <3>1. ~cached => e = latest
      BY <1>6 DEF VInv, EntryOK
    <3> QED
      BY <3>1 DEF Reading, SeenOK
  <2>5. ReaderOK(r)'
    BY <2>2, <2>3, <2>4 DEF ReaderOK, At
  <2> QED
    BY <1>1, <1>4, <2>2, <2>5, ReaderFrame
<1> QED
  BY <1>5, <1>6

\* The call of a reader ends.
LEMMA GetIsOver ==
    ASSUME VInv, NEW r \in Readers, Step(r, Idle), Rest,
           UNCHANGED <<store, cache, latest, bypassed>>,
           seen' \in [Readers -> SUBSET Anything], \A s \in Readers : s # r => seen'[s] = seen[s]
    PROVE  VInv'
<1>1. Idle \in Calls /\ Idle.pc = "idle" /\ Idle.pc \in ReaderPCs
  BY IdleCall
<1>2. CacheOK' /\ cache' \in Records
  BY DEF VInv, CacheOK, Typed
<1>3. call'[r] = Idle
  BY DEF VInv, Typed, Step, Threads
<1>4. ReaderOK(r)'
  BY <1>1, <1>3 DEF ReaderOK, At
<1> QED
  BY <1>1, <1>2, <1>4, ReaderFrame

\* The entry is read.
LEMMA GetEntryStep == ASSUME VInv, NEW r \in Readers, GetEntry(r) PROVE VInv'
<1>1. At(r, "get") /\ Rest /\ UNCHANGED <<store, latest, bypassed, seen>>
  BY DEF GetEntry
<1>2. Reading(r)
  BY <1>1, InGet DEF At
<1>3. CASE Found(r, cache.entry, TRUE) /\ UNCHANGED cache
  <2>1. CacheOK' /\ cache' \in Records
    BY <1>1, <1>3 DEF VInv, CacheOK, Typed
  <2> QED
    BY <1>1, <1>2, <1>3, <2>1, EntryFound
<1>4. CASE /\ Found(r, store.entry, FALSE)
           /\ \/ cache' = [cache EXCEPT !.entry = store.entry]
              \/ UNCHANGED cache
  <2>1. CacheOK' /\ cache' \in Records
    <3>1. CASE UNCHANGED cache
      BY <1>1, <3>1 DEF VInv, CacheOK, Typed
    <3>2. CASE cache' = [cache EXCEPT !.entry = store.entry]
      <4>1. store.entry \in Anything \cup Manifests /\ cache \in Records
        BY <1>2 DEF Reading, Records
      <4>2. cache' \in Records /\ cache'.entry = store.entry /\ cache'.chunk = cache.chunk
        BY <3>2, <4>1, NewEntry
      <4> QED
        BY <1>1, <4>2 DEF VInv, CacheOK
    <3> QED
      BY <1>4, <3>1, <3>2
  <2> QED
    BY <1>1, <1>2, <1>4, <2>1, EntryFound
<1>5. CASE Step(r, Idle) /\ UNCHANGED cache
  <2>1. seen' \in [Readers -> SUBSET Anything]
    BY <1>1 DEF VInv, Typed
  <2> QED
    BY <1>1, <1>5, <2>1, GetIsOver
<1> QED
  BY <1>3, <1>4, <1>5 DEF GetEntry

\* A get that no writer came beside reads the value that is there.
LEMMA Undisturbed ==
    ASSUME VInv, NEW r \in Readers, Reading(r), ~parted, PartsOK(r), Null \notin seen[r]
    PROVE  /\ store.entry = call[r].n /\ call[r].n \in Nat
           /\ \A j \in Numbers : j < call[r].n => store.chunk[j] # Null
           /\ Assembled([k \in 1 .. call[r].n |-> store.chunk[k - 1]]) # Null
<1>1. store.entry = call[r].n /\ call[r].n \in Nat
  BY Kinds DEF PartsOK
<1>2. \A w \in Writers : call[w].pc = "idle"
  BY DEF Reading, SeenOK, Busy, At
<1>3. Shown(store) = latest
  BY <1>2 DEF VInv, Settled
<1>4. latest # Null
  BY DEF Reading, SeenOK
<1> QED
  BY <1>1, <1>3, <1>4, ShownLarge DEF Reading

\* What Append appends.
LEMMA Appended ==
    ASSUME NEW S, NEW s \in Seq(S), NEW e \in S
    PROVE  /\ Append(s, e) \in Seq(S) /\ Len(Append(s, e)) = Len(s) + 1 /\ Append(s, e) # <<>>
           /\ \A k \in DOMAIN Append(s, e) : Append(s, e)[k] = IF k = Len(s) + 1 THEN e ELSE s[k]
           /\ DOMAIN Append(s, e) = 1 .. (Len(s) + 1) /\ DOMAIN s = 1 .. Len(s)
OBVIOUS

\* A chunk is found.
LEMMA PartFound ==
    ASSUME VInv, NEW r \in Readers, Reading(r), At(r, "parts"),
           Fetched(r, store.chunk[Len(call[r].parts)]),
           UNCHANGED <<store, latest, bypassed, seen>>, Rest, cache' \in Records, CacheOK'
    PROVE  VInv'
<1> DEFINE old == call[r].parts
           n == call[r].n
           p == store.chunk[Len(old)]
           parts == Append(old, p)
           a == Assembled(parts)
           new == IF p = Null THEN [call[r] EXCEPT !.pc = "returned"]
                  ELSE IF Len(parts) < n THEN [call[r] EXCEPT !.parts = parts]
                  ELSE [call[r] EXCEPT !.v = a, !.pc = IF a = Null THEN "returned" ELSE "keep"]
<1>1. Step(r, new)
  BY DEF Fetched
<1>2. /\ call[r].v = Null /\ n \in Manifests /\ n \in Nat /\ n > 0 /\ Len(old) < n
      /\ old \in Seq(Pieces) /\ Len(old) \in Nat /\ seen \in [Readers -> SUBSET Anything]
      /\ ~parted => PartsOK(r)
  <2>1. call[r].v = Null /\ n \in Manifests /\ Len(old) < n /\ (~parted => PartsOK(r))
    BY DEF VInv, ReaderOK
  <2>2. old \in Seq(Pieces)
    BY DEF Reading
  <2>3. Len(old) \in Nat
    BY <2>2
  <2> QED
    BY <2>1, <2>2, <2>3, Kinds DEF Reading, Typed
<1>3. Len(old) \in Numbers /\ p \in Pieces \cup {Null}
  BY <1>2, Kinds DEF Reading, Records
<1>4. parted' = parted
  BY DEF Reading
<1> HIDE DEF n, p, a, new
<1>5. CASE p = Null
  <2>1. /\ new \in Calls /\ new.pc = "returned" /\ new.pc \in ReaderPCs /\ new.v = Null
        /\ new = [call[r] EXCEPT !.pc = "returned"]
    BY <1>2, <1>5 DEF Reading, Calls, ReaderPCs, new
  <2>2. call'[r] = new /\ SeenOK(r)'
    BY <1>1, <2>1, StillSeen
  <2>3. ~parted => Null \in seen[r]
    BY <1>2, <1>3, <1>5, Undisturbed DEF n, p
  <2>4. ReaderOK(r)'
    BY <1>4, <2>1, <2>2, <2>3 DEF ReaderOK, At
  <2> QED
    BY <1>1, <1>2, <2>1, <2>4, ReaderFrame
<1>6. CASE p # Null
  <2>1. /\ parts \in Seq(Pieces) /\ Len(parts) = Len(old) + 1 /\ parts # <<>>
        /\ \A k \in DOMAIN parts : parts[k] = IF k = Len(old) + 1 THEN p ELSE old[k]
        /\ DOMAIN parts = 1 .. (Len(old) + 1) /\ DOMAIN old = 1 .. Len(old)
    <3>1. p \in Pieces
      BY <1>3, <1>6
    <3> QED
      BY <1>2, <3>1, Appended
  <2>2. ~parted => FromSeen(r, parts[1])
    <3>1. CASE old = <<>>
      <4>1. Len(old) = 0 /\ parts[1] = store.chunk[0]
        BY <1>2, <2>1, <3>1 DEF p
      <4> QED
        BY <1>2, <1>6, <3>1, <4>1 DEF PartsOK, p
    <3>2. CASE old # <<>>
      <4>1. Len(old) > 0
        BY <1>2, <3>2
      <4>2. parts[1] = old[1]
        BY <1>2, <2>1, <4>1
      <4> QED
        BY <1>2, <3>2, <4>2 DEF PartsOK
    <3> QED
      BY <3>1, <3>2
  <2>3. ~parted /\ Null \notin seen[r] =>
            store.entry = n /\ \A k \in DOMAIN parts : parts[k] = store.chunk[k - 1]
    <3> SUFFICES ASSUME ~parted, Null \notin seen[r]
                 PROVE  store.entry = n /\ \A k \in DOMAIN parts : parts[k] = store.chunk[k - 1]
      OBVIOUS
    <3>1. store.entry = n /\ \A k \in 1 .. Len(old) : old[k] = store.chunk[k - 1]
      BY <1>2, <2>1 DEF PartsOK, n
    <3>2. \A k \in DOMAIN parts : parts[k] = store.chunk[k - 1]
      <4> TAKE k \in DOMAIN parts
      <4>1. CASE k = Len(old) + 1
        <5>1. k - 1 = Len(old)
          BY <1>2, <4>1
        <5> QED
          BY <2>1, <4>1, <5>1 DEF p
      <4>2. CASE k # Len(old) + 1
        <5>1. k \in 1 .. Len(old)
          BY <1>2, <2>1, <4>2
        <5> QED
          BY <2>1, <3>1, <4>2, <5>1
      <4> QED
        BY <4>1, <4>2
    <3> QED
      BY <3>1, <3>2
  <2>4. CASE Len(parts) < n
    <3>1. /\ new \in Calls /\ new.pc = "parts" /\ new.pc \in ReaderPCs /\ new.v = Null
          /\ new.n = n /\ new.parts = parts
      <4>1. new = [call[r] EXCEPT !.parts = parts]
        BY <1>6, <2>4 DEF new
      <4> HIDE DEF parts
      <4> QED
        BY <1>2, <2>1, <4>1 DEF Reading, Calls, ReaderPCs, At, n
    <3> HIDE DEF parts
    <3>2. call'[r] = new /\ SeenOK(r)'
      BY <1>1, <3>1, StillSeen
    <3>3. ~parted' => PartsOK(r)'
      BY <1>2, <1>4, <2>1, <2>2, <2>3, <2>4, <3>1, <3>2 DEF PartsOK, FromSeen
    <3>4. ReaderOK(r)'
      BY <1>2, <2>4, <3>1, <3>2, <3>3 DEF ReaderOK, At
    <3> QED
      BY <1>1, <1>2, <3>1, <3>4, ReaderFrame
  <2>5. CASE ~(Len(parts) < n)
    <3>1. Len(parts) = n
      BY <1>2, <2>1, <2>5
    <3>2. a = Null \/ (a \in Large /\ parts[1] = <<a, 0>>)
      BY <2>1, AssembledFirst DEF a
    <3>3. a \in Anything
      BY <3>2, Kinds DEF Anything
    <3>4. ~parted => a \in seen[r]
      <4> SUFFICES ASSUME ~parted PROVE a \in seen[r]
        OBVIOUS
      <4>1. CASE a # Null
        <5>1. PICK v \in seen[r] : parts[1] = <<v, 0>>
          BY <2>2 DEF FromSeen
        <5> QED
          BY <3>2, <4>1, <5>1
      <4>2. CASE a = Null
        <5> SUFFICES ASSUME Null \notin seen[r] PROVE FALSE
          BY <4>2
        <5>1. \A k \in 1 .. n : parts[k] = store.chunk[k - 1]
          BY <2>1, <2>3, <3>1
        <5>2. parts = [k \in 1 .. n |-> store.chunk[k - 1]]
          <6> HIDE DEF parts
          <6>1. parts = [k \in DOMAIN parts |-> parts[k]]
            BY <2>1
          <6> QED
            BY <2>1, <3>1, <5>1, <6>1
        <5> QED
          BY <1>2, <4>2, <5>2, Undisturbed DEF n, a
      <4> QED
        BY <4>1, <4>2
    <3>5. /\ new \in Calls /\ new.pc \in {"keep", "returned"} /\ new.pc \in ReaderPCs /\ new.v = a
      <4>1. new = [call[r] EXCEPT !.v = a, !.pc = IF a = Null THEN "returned" ELSE "keep"]
        BY <1>6, <2>5 DEF new
      <4> QED
        BY <3>3, <4>1 DEF Reading, Calls, ReaderPCs
    <3>6. call'[r] = new /\ SeenOK(r)'
      BY <1>1, <3>5, StillSeen
    <3>7. ReaderOK(r)'
      BY <1>4, <3>4, <3>5, <3>6 DEF ReaderOK, At
    <3> QED
      BY <1>1, <1>2, <3>5, <3>7, ReaderFrame
  <2> QED
    BY <2>4, <2>5
<1> QED
  BY <1>5, <1>6

\* A chunk is read.
LEMMA GetPartStep == ASSUME VInv, NEW r \in Readers, GetPart(r) PROVE VInv'
<1> DEFINE i == Len(call[r].parts)
<1>1. At(r, "parts") /\ Rest /\ UNCHANGED <<store, latest, bypassed, seen>>
  BY DEF GetPart
<1>2. Reading(r)
  BY <1>1, InGet DEF At
<1>3. i \in Numbers
  <2>1. call[r].n \in Manifests /\ i < call[r].n /\ call[r].parts \in Seq(Pieces)
    BY <1>1, <1>2 DEF VInv, ReaderOK, Reading
  <2>2. i \in Nat
    BY <2>1
  <2> QED
    BY <2>1, <2>2, Kinds
<1>4. CASE cache.chunk[i] # Null /\ Fetched(r, cache.chunk[i]) /\ UNCHANGED cache
  <2>1. cache.chunk[i] = store.chunk[i]
    BY <1>3, <1>4 DEF VInv, CacheOK
  <2>2. CacheOK' /\ cache' \in Records
    BY <1>1, <1>4 DEF VInv, CacheOK, Typed
  <2> QED
    BY <1>1, <1>2, <1>4, <2>1, <2>2, PartFound
<1>5. CASE Fetched(r, store.chunk[i]) /\ cache' = [cache EXCEPT !.chunk[i] = store.chunk[i]]
  <2> DEFINE p == store.chunk[i]
  <2>1. p \in Pieces \cup {Null} /\ cache' = With(cache, i, p) /\ cache \in Records
    BY <1>2, <1>3, <1>5 DEF Reading, Records, With
  <2> HIDE DEF p
  <2>2. /\ cache' \in Records /\ cache'.entry = cache.entry /\ cache'.chunk[i] = p
        /\ \A j \in Numbers : j # i => cache'.chunk[j] = cache.chunk[j]
    BY <1>3, <2>1, NewChunk
  <2>3. CacheOK'
    BY <1>1, <2>2 DEF VInv, CacheOK, p
  <2> QED
    BY <1>1, <1>2, <1>5, <2>2, <2>3, PartFound
<1> QED
  BY <1>4, <1>5 DEF GetPart

\* The value put together is cached.
LEMMA KeepStep == ASSUME VInv, NEW r \in Readers, Keep(r) PROVE VInv'
<1> DEFINE new == [call[r] EXCEPT !.pc = "returned"]
<1>1. /\ At(r, "keep") /\ Rest /\ UNCHANGED <<store, latest, bypassed, seen>> /\ Step(r, new)
      /\ cache' = [cache EXCEPT !.entry = call[r].v]
  BY DEF Keep
<1>2. Reading(r)
  BY <1>1, InGet DEF At
<1>3. cache' \in Records /\ CacheOK'
  <2>1. call[r].v \in Anything \cup Manifests /\ call[r].v \notin Nat /\ cache \in Records
    BY <1>2, Kinds DEF Reading
  <2>2. cache' \in Records /\ cache'.entry = call[r].v /\ cache'.chunk = cache.chunk
    BY <1>1, <2>1, NewEntry
  <2> QED
    BY <1>1, <2>1, <2>2 DEF VInv, CacheOK
<1>4. /\ new \in Calls /\ new.pc = "returned" /\ new.pc \in ReaderPCs
      /\ new.v = call[r].v /\ new.cached = call[r].cached
  BY <1>2 DEF Reading, Calls, ReaderPCs
<1> HIDE DEF new
<1>5. call'[r] = new /\ SeenOK(r)'
  BY <1>1, <1>2, <1>4, StillSeen
<1>6. ~parted /\ ~call[r].cached => call[r].v \in seen[r]
  BY <1>1 DEF VInv, ReaderOK, At
<1>7. ReaderOK(r)'
  BY <1>1, <1>2, <1>4, <1>5, <1>6 DEF ReaderOK, At, Reading
<1>8. seen' \in [Readers -> SUBSET Anything]
  BY <1>1 DEF VInv, Typed
<1> QED
  BY <1>1, <1>3, <1>4, <1>7, <1>8, ReaderFrame

\* A get returns.
LEMMA GetEndStep == ASSUME VInv, NEW r \in Readers, GetEnd(r) PROVE VInv'
<1>1. /\ Step(r, Idle) /\ Rest /\ UNCHANGED <<store, cache, latest, bypassed>>
      /\ seen' = [seen EXCEPT ![r] = {}]
  BY DEF GetEnd
<1>2. /\ seen' \in [Readers -> SUBSET Anything]
      /\ \A s \in Readers : s # r => seen'[s] = seen[s]
  BY <1>1 DEF VInv, Typed
<1> QED
  BY <1>1, <1>2, GetIsOver

----------------------------------------------------------------------------
(* The theorems. *)

\* Every step.
LEMMA LargeValuesStep == ASSUME VInv, LogOK, SingleWriter, [Next]_vars PROVE VInv'
<1>1. ASSUME NEW c \in Threads, Creation(c) PROVE VInv'
  BY <1>1, CreationStep
<1>2. ASSUME NEW w \in Writers, Writer(w) PROVE VInv'
  <2>1. ASSUME NEW v \in Values \cup {Null}, SetCall(w, v) PROVE VInv'
    BY <2>1, SetCallStep DEF Anything
  <2> QED
    BY <1>2, <2>1, LookupStep, CleanStep, PartStep, EntryStep, RawStep, CachePutStep DEF Writer
<1>3. ASSUME NEW r \in Readers, Reader(r) PROVE VInv'
  BY <1>3, GetCallStep, GetEntryStep, GetPartStep, KeepStep, GetEndStep DEF Reader
<1>4. CASE UNCHANGED vars
  <2>1. /\ UNCHANGED <<table, store, disk, cache, call, latest, bypassed, parted, seen>>
        /\ store \in Records /\ disk \in Records /\ cache \in Records
        /\ table \in {"absent", "entered", "locked", "opened", "ready"}
    BY <1>4 DEF vars, tablevars, hist, VInv, Typed
  <2>2. CacheOK' /\ AbsentIsDisk' /\ Usable' = Usable
    BY <2>1 DEF VInv, CacheOK, AbsentIsDisk, Usable
  <2> QED
    BY <2>1, <2>2, QuietStep
<1> QED
  BY <1>1, <1>2, <1>3, <1>4, EvictStep, FlushStep, CrashStep DEF Next

\* Every step keeps the last entry logged the one that is there.
LEMMA LogStep == ASSUME VInv, LogOK, [Next]_vars PROVE LogOK'
<1>1. CASE UNCHANGED <<logged, store>>
  BY <1>1 DEF LogOK
<1>2. CASE logged' = <<>>
  BY <1>2 DEF LogOK
<1>3. ASSUME NEW w \in Writers, NEW e \in Anything \cup Manifests, PutEntry(w, e) PROVE LogOK'
  <2>1. logged' = Append(logged, e) /\ logged \in Seq(Anything \cup Manifests)
    BY <1>3 DEF PutEntry, LogOK
  <2>2. /\ logged' \in Seq(Anything \cup Manifests) /\ Len(logged') = Len(logged) + 1
        /\ logged'[Len(logged')] = e
    BY <2>1
  <2>3. store'.entry = e
    BY <1>3, NewEntry DEF PutEntry, VInv, Typed
  <2> QED
    BY <2>2, <2>3 DEF LogOK
<1>4. ASSUME NEW i, NEW p, PutChunk(i, p) PROVE LogOK'
  <2>1. logged' = logged /\ store'.entry = store.entry
    BY <1>4 DEF PutChunk, VInv, Typed, Records
  <2> QED
    BY <2>1 DEF LogOK
<1>5. ASSUME NEW c \in Threads, Creation(c) PROVE LogOK'
  BY <1>1, <1>5 DEF Creation, FindNoTable, TakeGlobalLock, MakeTable, MakeTableFails, Else, VInv, AbsentIsDisk
<1>6. ASSUME NEW w \in Writers, Writer(w) PROVE LogOK'
  <2>1. /\ call[w].v \in Anything
        /\ Written(call[w].v).entry \in Anything \cup Manifests
    <3>1. call[w].v \in Anything
      BY DEF VInv, Typed, Threads, Calls
    <3> QED
      BY <3>1, Kinds DEF Written, Nothing
  <2>2. CASE Clean(w) \/ Part(w)
    BY <1>1, <1>4, <2>2 DEF Clean, Part
  <2>3. CASE Entry(w) \/ Raw(w)
    BY <1>1, <1>3, <2>1, <2>3 DEF Entry, Raw
  <2>4. CASE (\E v \in Values \cup {Null} : SetCall(w, v)) \/ Lookup(w) \/ CachePut(w)
    BY <1>1, <2>4 DEF SetCall, Lookup, CachePut, Rest
  <2> QED
    BY <1>6, <2>2, <2>3, <2>4 DEF Writer
<1>7. ASSUME NEW r \in Readers, Reader(r) PROVE LogOK'
  BY <1>1, <1>7 DEF Reader, GetCall, GetEntry, GetPart, Keep, GetEnd, Rest
<1>8. CASE Evict \/ Flush \/ Crash \/ UNCHANGED vars
  BY <1>1, <1>2, <1>8 DEF Evict, Flush, Crash, vars
<1> QED
  BY <1>5, <1>6, <1>7, <1>8 DEF Next

\* With one writer, everything said above holds always: of set, get, the creation of the
\* table, flushes and crashes, in every order of their steps.
THEOREM LargeValuesInductive == ASSUME SingleWriter PROVE Spec => [](VInv /\ LogOK)
<1>1. Init => VInv /\ LogOK
  BY Opened DEF Init, LogOK
<1>2. VInv /\ LogOK /\ [Next]_vars => (VInv /\ LogOK)'
  BY LargeValuesStep, LogStep
<1> QED
  BY <1>1, <1>2, PTL DEF Spec

\* Whenever set is not under way, the records make up the value last written: the entry
\* is written last, and only by a thread that has the lock and the handler of the table.
THEOREM RecordsShowTheValue == ASSUME SingleWriter PROVE Spec => []StoredIsLatest
<1>1. VInv => StoredIsLatest
  <2> SUFFICES ASSUME VInv, Busy = {} PROVE Shown(store) = latest
    BY DEF StoredIsLatest
  <2>1. \A w \in Writers : call[w].pc = "idle"
    BY DEF Busy, At
  <2> QED
    BY <2>1 DEF VInv, Settled
<1> QED
  BY <1>1, LargeValuesInductive, PTL

\* After set the chunks are those of the manifest, and a small value has none, unless a
\* crash, a value written as it is, a lookup that failed or a failing flush left chunks.
THEOREM ChunksAreTheManifests == ASSUME SingleWriter PROVE Spec => []NoChunkLeft
<1>1. VInv => NoChunkLeft
  <2> SUFFICES ASSUME VInv, Busy = {}, ~bypassed PROVE Exact(store)
    BY DEF NoChunkLeft, Exact
  <2>1. \A w \in Writers : call[w].pc = "idle"
    BY DEF Busy, At
  <2> QED
    BY <2>1 DEF VInv, ChunksOK
<1> QED
  BY <1>1, LargeValuesInductive, PTL

\* A get that reads records returns a value of its own time, however many chunks it reads
\* under as many locks.
THEOREM ReadsOfTheirTime == ASSUME SingleWriter PROVE Spec => []ReadsRegular
<1>1. VInv => ReadsRegular
  BY DEF VInv, ReaderOK, ReadsRegular, At
<1> QED
  BY <1>1, LargeValuesInductive, PTL

\* A restart after everything appended to the WAL was written shows what the database
\* showed, if the value is small and recovery would find it, or all of it was flushed.
THEOREM RestartKeepsTheValue ==
    ASSUME SingleWriter PROVE Spec => RestartKeeps
<1> DEFINE Kept == store = disk \/ (store.entry \notin Nat /\ Durable)
<1>1. ASSUME VInv, LogOK, Next, crashes' # crashes, Busy = {}, ~lost', Kept PROVE latest' = latest
  <2>1. Crash
    BY <1>1 DEF Next, Creation, Writer, Reader, FindNoTable, TakeGlobalLock, MakeTable, MakeTableFails,
                Else, SetCall, Lookup, Clean, Part, Entry, Raw, CachePut, Rest, Most,
                GetCall, GetEntry, GetPart, Keep, GetEnd, Evict, Flush
  <2>2. PICK n \in 0 .. Len(logged) : store' = Recovered(n) /\ lost' = (n < Len(logged))
    BY <2>1 DEF Crash
  <2>3. n = Len(logged) /\ n \in Nat
    <3>1. Len(logged) \in Nat
      BY <1>1 DEF LogOK
    <3>2. ~(n < Len(logged))
      BY <1>1, <2>2
    <3> QED
      BY <3>1, <3>2
  <2>4. latest' = Shown(store') /\ store \in Records /\ disk \in Records
    BY <1>1, <2>1 DEF Crash, VInv, Typed
  <2>5. store'.entry = Replayed(n) /\ store'.chunk = disk.chunk /\ store' \in Records
    BY <1>1, <2>2, <2>4, RecoveredEntry
  <2>6. Shown(store) = latest
    <3>1. \A w \in Writers : call[w].pc = "idle"
      BY <1>1 DEF Busy, At
    <3> QED
      BY <1>1, <3>1 DEF VInv, Settled
  <2>7. store'.entry = store.entry
    <3>1. CASE logged = <<>>
      <4>1. n = 0 /\ store.entry = disk.entry
        BY <1>1, <2>3, <3>1 DEF Durable
      <4> QED
        BY <2>5, <4>1 DEF Replayed
    <3>2. CASE logged # <<>>
      <4>1. n # 0 /\ logged[n] = store.entry
        BY <1>1, <2>3, <3>2 DEF LogOK
      <4> QED
        BY <2>5, <4>1 DEF Replayed
    <3> QED
      BY <3>1, <3>2
  <2>8. CASE store.entry \notin Nat
    BY <2>4, <2>6, <2>7, <2>8, ShownSmall
  <2>9. CASE store = disk
    <3>1. store' = store
      BY <2>4, <2>5, <2>7, <2>9 DEF Records
    <3> QED
      BY <2>4, <2>6, <3>1
  <2> QED
    BY <1>1, <2>8, <2>9
<1>2. VInv /\ LogOK /\ [Next]_vars =>
         [crashes' # crashes /\ Busy = {} /\ ~lost' /\ Kept => latest' = latest]_vars
  BY <1>1
<1> QED
  BY <1>2, LargeValuesInductive, PTL DEF Spec, RestartKeeps
=============================================================================
