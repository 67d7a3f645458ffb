---------------------------- MODULE LargeValues ----------------------------
(***************************************************************************)
(* A value too large for a record (storage/router.py: set, get,            *)
(* _get_raw_manifest) and the table it goes to (_get_table_state).         *)
(*                                                                         *)
(* set cuts the value in chunks, which are records of their own, and       *)
(* writes under the key a manifest with their number.  Each record is      *)
(* written and read under the table lock, the call as a whole is not.  The *)
(* first access creates the state of the table under the global lock, in   *)
(* several steps that threads that skip this lock can see.                 *)
(*                                                                         *)
(* One key.  An entry (the record of the key) is a value, or a number: the *)
(* manifest of that many chunks.  A chunk is the value it belongs to with  *)
(* its number.  That memtables and table file together hold the record     *)
(* last written is shown in the modules Router and Storage; a flush that   *)
(* fails is taken to hold no record of this key (Router shows that its     *)
(* records can be dropped), but a call that waits for it raises.           *)
(*                                                                         *)
(* A crash loses the entries the WAL writer has not written yet.  Recovery *)
(* brings back the last of the others that is not marked complete, puts it *)
(* in the memtable only, and marks it.  No mark is lost (see Router).      *)
(***************************************************************************)
EXTENDS Naturals, Sequences, SequencesExt, FiniteSets

CONSTANTS
    Writers, Readers,   \* threads in set or set_many, and in get
    Values,             \* the values
    Large,              \* those that are chunked
    Parts,              \* how many chunks a large value has
    Null, NoOne,        \* the value of a deletion, and no thread
    MaxCalls,           \* bound: calls that write
    MaxFaults,          \* bound: table files that cannot be opened, flushes that fail
    MaxCrashes

ASSUME LargeValuesAssumption ==
    /\ Large \subseteq Values /\ Values \cap Nat = {}
    /\ Null \notin Values \cup Nat \cup (Large \X Nat)
    /\ Parts \in [Large -> Nat \ {0}]
    /\ Writers \cap Readers = {} /\ NoOne \notin Writers \cup Readers
    /\ MaxCalls \in Nat /\ MaxFaults \in Nat /\ MaxCrashes \in Nat

VARIABLES
    table,              \* how far the state of the table has been created
    maker,              \* the thread that is creating it
    waiting,            \* threads that found no table and wait for the global lock
    store,              \* the entry and the chunks, as a read under the table lock finds them
    disk,               \* those of the table file
    cache,              \* those in the LFU cache
    logged,             \* the entries appended to the WAL and not marked complete
    call,               \* the step and the local variables of each thread
    calls, faults, crashes,
    latest,             \* history: the value of the last entry written
    bypassed,           \* history: chunks have been left without a manifest
    parted,             \* history: a crash has left a manifest without its chunks
    lost,               \* history: the last crash came before all of logged was written
    seen                \* history: what a get may return

tablevars == <<table, maker, waiting, faults>>
hist      == <<latest, bypassed, parted, lost, seen>>
vars == <<tablevars, logged, store, disk, cache, call, calls, crashes, hist>>

Threads  == Writers \cup Readers
Numbers  == UNION {0 .. Parts[v] - 1 : v \in Large}
Nothing  == [entry |-> Null, chunk |-> [i \in Numbers |-> Null]]
Idle     == [pc |-> "idle", v |-> Null, n |-> 0, i |-> 0, parts |-> <<>>, cached |-> FALSE]

\* The chunks of v, and the records of v when it was written.
Chunks(v)   == [i \in 1 .. Parts[v] |-> <<v, i - 1>>]
Written(v)  == IF v \in Large
               THEN [entry |-> Parts[v],
                     chunk |-> [i \in Numbers |-> IF i < Parts[v] THEN <<v, i>> ELSE Null]]
               ELSE [Nothing EXCEPT !.entry = v]

\* Decompression checks a checksum, and ignores what comes after the end.
Assembled(parts) ==
    LET V == {v \in Large : IsPrefix(Chunks(v), parts)} IN
    IF V = {} THEN Null ELSE CHOOSE v \in V : TRUE

\* What a get that meets no other call and no cached value would return.
Shown(st) ==
    IF st.entry \notin Nat THEN st.entry
    ELSE IF \E i \in 1 .. st.entry : st.chunk[i - 1] = Null THEN Null
    ELSE Assembled([i \in 1 .. st.entry |-> st.chunk[i - 1]])

\* The database is opened on a table file of an earlier life.
Init ==
    /\ table = "absent" /\ maker = NoOne /\ waiting = {}
    /\ \E v \in Values \cup {Null} : disk = Written(v) /\ latest = v
    /\ store = disk /\ cache = Nothing
    /\ logged = <<>>
    /\ call = [c \in Threads |-> Idle]
    /\ calls = 0 /\ faults = 0 /\ crashes = 0
    /\ bypassed = FALSE /\ parted = FALSE /\ lost = FALSE /\ seen = [r \in Readers |-> {}]

Step(c, new) == call' = [call EXCEPT ![c] = new]
At(c, pc)    == call[c].pc = pc
Busy         == {w \in Writers : ~At(w, "idle")}

----------------------------------------------------------------------------
(* _get_table_state.  A table is entered in active_memtables first, then   *)
(* get its lock, its handler and its index.                                *)

NeedsTable(c) ==
    call[c].pc \in {"lookup", "clean", "part", "entry", "raw", "get", "parts"}

Else == UNCHANGED <<logged, store, disk, cache, call, calls, crashes, hist>>

FindNoTable(c) ==
    /\ NeedsTable(c) /\ c \notin waiting /\ maker # c /\ table = "absent"
    /\ waiting' = waiting \cup {c}
    /\ UNCHANGED <<table, maker, faults>> /\ Else

\* Mutation: without the second test.
TakeGlobalLockAnyway(c) ==
    /\ c \in waiting /\ maker = NoOne
    /\ waiting' = waiting \ {c}
    /\ table' = "entered" /\ maker' = c /\ store' = disk
    /\ UNCHANGED <<faults, logged, disk, cache, call, calls, crashes, hist>>

\* The second test, and a first, empty, memtable.
TakeGlobalLock(c) ==
    /\ c \in waiting /\ maker = NoOne
    /\ waiting' = waiting \ {c}
    /\ \/ table = "absent" /\ table' = "entered" /\ maker' = c /\ store' = disk
       \/ table # "absent" /\ UNCHANGED <<table, maker, store>>
    /\ UNCHANGED <<faults, logged, disk, cache, call, calls, crashes, hist>>

MakeTable(c) ==
    /\ maker = c
    /\ \/ table = "entered" /\ table' = "locked"  /\ UNCHANGED maker
       \/ table = "locked"  /\ table' = "opened" /\ UNCHANGED maker
       \/ table = "opened"  /\ table' = "ready"   /\ maker' = NoOne
    /\ UNCHANGED <<waiting, faults>> /\ Else

\* The file cannot be opened: the global lock is released, the table stays entered.
MakeTableFails(c) ==
    /\ maker = c /\ table = "locked" /\ faults < MaxFaults
    /\ maker' = NoOne /\ faults' = faults + 1
    /\ UNCHANGED <<table, waiting>> /\ Else

\* A thread gets lock and handler, or a KeyError.
Has(c)   == c \notin waiting /\ maker # c /\ table \in {"opened", "ready"}
Fails(c) == c \notin waiting /\ maker # c /\ table \in {"entered", "locked"}

----------------------------------------------------------------------------
(* set.                                                                    *)

Most == UNCHANGED <<table, maker, waiting, disk, calls, crashes, parted, lost>>
Rest == Most /\ UNCHANGED <<faults, logged>>
Noted(v) == seen' = [r \in Readers |-> seen[r] \cup IF At(r, "idle") THEN {} ELSE {v, Null}]

\* A call of set, or of set_many, which does not look for large values.
SetCall(w, v) ==
    /\ At(w, "idle") /\ calls < MaxCalls
    /\ calls' = calls + 1
    /\ \E pc \in {"lookup", "raw"} : Step(w, [Idle EXCEPT !.pc = pc, !.v = v])
    /\ Noted(v)
    /\ UNCHANGED <<tablevars, logged, store, disk, cache, crashes, latest, bypassed, parted, lost>>

\* _get_raw_manifest: the number of chunks to delete.  An exception is swallowed.
Lookup(w) ==
    /\ At(w, "lookup")
    /\ \/ /\ Has(w)
          /\ Step(w, [call[w] EXCEPT !.pc = "clean",
                                     !.n = IF store.entry \in Nat THEN store.entry ELSE 0])
          /\ UNCHANGED bypassed
       \/ /\ Fails(w)
          /\ Step(w, [call[w] EXCEPT !.pc = "clean"])
          /\ bypassed' = (bypassed \/ store.entry \in Nat)
    /\ UNCHANGED <<store, cache, latest, seen>> /\ Rest

PutChunk(i, p) ==
    /\ store' = [store EXCEPT !.chunk[i] = p]
    /\ cache' = [cache EXCEPT !.chunk[i] = p]
    /\ UNCHANGED logged

PutEntry(w, e) ==
    /\ store' = [store EXCEPT !.entry = e]
    /\ cache' = [cache EXCEPT !.entry = e]
    /\ logged' = Append(logged, e)
    /\ latest' = call[w].v

\* A call that has written its record waits for a flush and raises what that raised.
FlushFails == faults < MaxFaults /\ faults' = faults + 1

Cleaned(w) == [call[w] EXCEPT !.pc = IF call[w].v \in Large THEN "part" ELSE "entry", !.i = 0]

\* Mutation: the last chunk is left.
CleanButLast(w) ==
    /\ At(w, "clean")
    /\ \/ /\ Has(w) /\ call[w].i + 1 < call[w].n
          /\ PutChunk(call[w].i, Null)
          /\ Step(w, [call[w] EXCEPT !.i = @ + 1])
       \/ /\ call[w].i + 1 >= call[w].n
          /\ Step(w, Cleaned(w))
          /\ UNCHANGED <<store, cache, logged>>
    /\ UNCHANGED <<faults, latest, bypassed, seen>> /\ Most

\* Delete a chunk of the old value.  An exception is swallowed, and ends the deletions.
Clean(w) ==
    /\ At(w, "clean")
    /\ \/ /\ Has(w) /\ call[w].i < call[w].n
          /\ PutChunk(call[w].i, Null)
          /\ \/ /\ Step(w, [call[w] EXCEPT !.i = @ + 1])
                /\ UNCHANGED <<faults, bypassed>>
             \/ /\ FlushFails /\ Step(w, Cleaned(w))
                /\ bypassed' = (bypassed \/ call[w].i + 1 < call[w].n)
       \/ /\ call[w].i = call[w].n
          /\ Step(w, Cleaned(w))
          /\ UNCHANGED <<store, cache, logged, faults, bypassed>>
    /\ UNCHANGED <<latest, seen>> /\ Most

ToRaw(w) == Step(w, [call[w] EXCEPT !.pc = "raw"])

\* Write a chunk.  If that fails, the whole value is written as it is.
Part(w) ==
    /\ At(w, "part")
    /\ \/ /\ Has(w)
          /\ PutChunk(call[w].i, <<call[w].v, call[w].i>>)
          /\ \/ /\ Step(w, IF call[w].i + 1 = Parts[call[w].v] THEN [call[w] EXCEPT !.pc = "entry"]
                           ELSE [call[w] EXCEPT !.i = @ + 1])
                /\ UNCHANGED <<faults, bypassed>>
             \/ FlushFails /\ ToRaw(w) /\ bypassed' = TRUE
       \/ /\ Fails(w)
          /\ ToRaw(w)
          /\ UNCHANGED <<store, cache, logged, faults, bypassed>>
    /\ UNCHANGED <<latest, seen>> /\ Most

\* Mutation: a small value is not put in the cache.
EntryUncached(w) ==
    /\ At(w, "entry") /\ Has(w)
    /\ store' = [store EXCEPT !.entry = Written(call[w].v).entry]
    /\ logged' = Append(logged, store'.entry)
    /\ latest' = call[w].v
    /\ Step(w, IF call[w].v \in Large THEN [call[w] EXCEPT !.pc = "cache"] ELSE Idle)
    /\ UNCHANGED <<cache, faults, bypassed, seen>> /\ Most

\* The manifest, or the small value.  If writing the manifest fails, the whole value is
\* written as it is; an exception for a small value is the caller's.
Entry(w) ==
    /\ At(w, "entry")
    /\ \/ /\ Has(w)
          /\ PutEntry(w, Written(call[w].v).entry)
          /\ \/ /\ Step(w, IF call[w].v \in Large THEN [call[w] EXCEPT !.pc = "cache"] ELSE Idle)
                /\ UNCHANGED faults
             \/ call[w].v \in Large /\ FlushFails /\ ToRaw(w)
       \/ /\ Fails(w)
          /\ IF call[w].v \in Large THEN ToRaw(w) ELSE Step(w, Idle)
          /\ UNCHANGED <<store, cache, logged, faults, latest>>
    /\ UNCHANGED <<bypassed, seen>> /\ Most

\* The value as it is.
Raw(w) ==
    /\ At(w, "raw")
    /\ \/ /\ Has(w)
          /\ PutEntry(w, call[w].v)
          /\ bypassed' = (bypassed \/ store.entry \in Nat)
       \/ /\ Fails(w)
          /\ UNCHANGED <<store, cache, logged, latest, bypassed>>
    /\ Step(w, Idle)
    /\ UNCHANGED <<faults, seen>> /\ Most

\* "Force original value into cache", without a lock.
CachePut(w) ==
    /\ At(w, "cache")
    /\ cache' = [cache EXCEPT !.entry = call[w].v]
    /\ Step(w, Idle)
    /\ UNCHANGED <<store, latest, bypassed, seen>> /\ Rest

----------------------------------------------------------------------------
(* get.  A lookup in the cache may miss at any time.                       *)

GetCall(r) ==
    /\ At(r, "idle")
    /\ Step(r, [Idle EXCEPT !.pc = "get"])
    /\ seen' = [seen EXCEPT ![r] = {latest} \cup {call[w].v : w \in Busy}
                                            \cup IF Busy = {} THEN {} ELSE {Null}]
    /\ UNCHANGED <<store, cache, latest, bypassed>> /\ Rest

Found(r, e, cached) ==
    Step(r, IF e \in Nat THEN [call[r] EXCEPT !.pc = "parts", !.n = e]
            ELSE [call[r] EXCEPT !.pc = "returned", !.v = e, !.cached = cached])

\* The entry from the cache, or under the table lock; then it is cached.
GetEntry(r) ==
    /\ At(r, "get")
    /\ \/ /\ cache.entry # Null /\ r \notin waiting /\ maker # r
          /\ Found(r, cache.entry, TRUE)
          /\ UNCHANGED cache
       \/ /\ Has(r)
          /\ Found(r, store.entry, FALSE)
          /\ \/ cache' = [cache EXCEPT !.entry = store.entry]
             \/ store.entry = Null /\ UNCHANGED cache
       \/ /\ Fails(r)
          /\ Step(r, Idle)
          /\ UNCHANGED cache
    /\ UNCHANGED <<store, latest, bypassed, seen>> /\ Rest

Fetched(r, p) ==
    LET parts == Append(call[r].parts, p) IN
    Step(r, IF p = Null THEN [call[r] EXCEPT !.pc = "returned"]
            ELSE IF Len(parts) < call[r].n THEN [call[r] EXCEPT !.parts = parts]
            ELSE [call[r] EXCEPT !.v = Assembled(parts),
                                 !.pc = IF Assembled(parts) = Null THEN "returned" ELSE "keep"])

\* The next chunk, from the cache or under the table lock.
GetPart(r) ==
    LET i == Len(call[r].parts) IN
    /\ At(r, "parts")
    /\ \/ /\ cache.chunk[i] # Null /\ r \notin waiting /\ maker # r
          /\ Fetched(r, cache.chunk[i])
          /\ UNCHANGED cache
       \/ /\ Has(r)
          /\ Fetched(r, store.chunk[i])
          /\ cache' = [cache EXCEPT !.chunk[i] = store.chunk[i]]
    /\ UNCHANGED <<store, latest, bypassed, seen>> /\ Rest

\* The value put together is cached, without a lock.
Keep(r) ==
    /\ At(r, "keep")
    /\ cache' = [cache EXCEPT !.entry = call[r].v]
    /\ Step(r, [call[r] EXCEPT !.pc = "returned"])
    /\ UNCHANGED <<store, latest, bypassed, seen>> /\ Rest

GetEnd(r) ==
    /\ At(r, "returned")
    /\ Step(r, Idle)
    /\ seen' = [seen EXCEPT ![r] = {}]
    /\ UNCHANGED <<store, cache, latest, bypassed>> /\ Rest

----------------------------------------------------------------------------
(* Eviction, flush, the writer of the WAL, crash.                          *)

Evict ==
    /\ cache' \in {[cache EXCEPT !.entry = Null]} \cup
                  {[cache EXCEPT !.chunk[i] = Null] : i \in Numbers}
    /\ UNCHANGED <<tablevars, logged, store, disk, call, calls, crashes, hist>>

\* What is flushed is marked complete, and so not brought back by recovery.  A value
\* written as it is exceeds a page, and no flush succeeds.
Flush ==
    /\ table = "ready" /\ store.entry \notin Large
    /\ disk' = store /\ logged' = <<>>
    /\ UNCHANGED <<tablevars, store, cache, call, calls, crashes, hist>>

\* The entry after recovery, when the WAL writer had written n of those logged.
Replayed(n) == IF n = 0 THEN disk.entry ELSE logged[n]

\* Mutation: deletions are not replayed.
RecoveredUndeleting(n) ==
    [entry |-> IF Replayed(n) = Null THEN disk.entry ELSE Replayed(n), chunk |-> disk.chunk]

\* Recovery takes the table from the key up to its first colon.  The entry comes back;
\* the key of a chunk begins with "__chunk__:", and the chunk goes to another table.
Recovered(n) == [entry |-> Replayed(n), chunk |-> disk.chunk]

\* A crash, and recovery, which marks complete what it puts in the memtable.  The append
\* returned before the WAL writer wrote the entry: it may have written any number of them.
Crash ==
    /\ crashes < MaxCrashes
    /\ crashes' = crashes + 1
    /\ table' \in {"absent", "ready"} /\ maker' = NoOne /\ waiting' = {}
    /\ \E n \in 0 .. Len(logged) :
          /\ table' = "absent" => n = 0
          /\ store' = Recovered(n)
          /\ lost' = (n < Len(logged))
    /\ cache' = Nothing /\ logged' = <<>>
    /\ call' = [c \in Threads |-> Idle]
    /\ latest' = Shown(store')
    /\ bypassed' = (bypassed \/ store # disk \/ store' # disk \/ Busy # {})
    /\ parted' = (parted \/ (store'.entry \in Nat /\ latest' = Null))
    /\ seen' = [r \in Readers |-> {}]
    /\ UNCHANGED <<disk, calls, faults>>

----------------------------------------------------------------------------
Creation(c) == FindNoTable(c) \/ TakeGlobalLock(c) \/ MakeTable(c) \/ MakeTableFails(c)
Writer(w) ==
    \/ \E v \in Values \cup {Null} : SetCall(w, v)
    \/ Lookup(w) \/ Clean(w) \/ Part(w) \/ Entry(w) \/ Raw(w) \/ CachePut(w)
Reader(r) == GetCall(r) \/ GetEntry(r) \/ GetPart(r) \/ Keep(r) \/ GetEnd(r)

Next ==
    \/ \E c \in Threads : Creation(c)
    \/ \E w \in Writers : Writer(w)
    \/ \E r \in Readers : Reader(r)
    \/ Evict \/ Flush \/ Crash

Spec == Init /\ [][Next]_vars

----------------------------------------------------------------------------
(* Properties, for one writer.                                             *)

\* Whenever set is not under way, the records make up the value last written, however
\* the creation of the table, its failure, and other threads came in between.
StoredIsLatest == Busy = {} => Shown(store) = latest

\* set deletes the chunks of the old value, so that the only chunks are those of the
\* manifest.  Chunks are left behind only by a value written as it is over a manifest
\* (set_many), by a crash, when the lookup of the old manifest met a table half created,
\* or when a chunk was deleted or written, not as the last one, and the flush failed
\* that the call then waited for.
NoChunkLeft ==
    Busy = {} /\ ~bypassed =>
        \A i \in Numbers : store.chunk[i] # Null <=> store.entry \in Nat /\ i < store.entry

\* A get that reads records returns a value that was there or being written since its
\* call, and misses a value only beside a set, although it locks the table anew for each
\* chunk: until a crash takes the chunks of a value and leaves its manifest.
ReadsRegular ==
    \A r \in Readers :
        At(r, "returned") /\ ~call[r].cached /\ ~parted => call[r].v \in seen[r]

\* Recovery would find the entry.
Durable == logged # <<>> \/ store.entry = disk.entry

\* A crash after the WAL has written everything shows a small value or a deletion again,
\* unless it was the last restart that brought it back, and marked it complete, and no
\* flush came between; and it shows a large value again if all of that had been flushed.
\* (Chunks are not recovered from the WAL: other large values are lost.)
RestartKeeps ==
    [][crashes' # crashes /\ Busy = {} /\ ~lost'
          /\ (store = disk \/ (store.entry \notin Nat /\ Durable)) => latest' = latest]_vars
=============================================================================
