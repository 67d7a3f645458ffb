------------------------------- MODULE Router -------------------------------
(***************************************************************************)
(* The write, read and flush paths of the storage router for one table     *)
(* (storage/router.py).                                                    *)
(*                                                                         *)
(* Client threads log a record, insert it in the active memtable and, when *)
(* that is full, make it the immutable memtable and submit a flush job to  *)
(* the executor.  A flush job writes the immutable memtable to the table   *)
(* file, updates the disk index, syncs the file, marks the transactions    *)
(* complete in the WAL and drops the immutable memtable.  The table lock   *)
(* protects single steps only, so clients and jobs interleave.  The WAL    *)
(* may lose a mark: then recovery replays the record although it is in the *)
(* table file.                                                             *)
(*                                                                         *)
(* A record is named by its transaction id; the WAL is the sequence log    *)
(* (the module WAL models how it reaches the disk).  The table file is a   *)
(* sequence of batches, one per flush; a batch and a memtable map each key *)
(* to a transaction, or to None.                                           *)
(***************************************************************************)
EXTENDS Integers, Sequences, FiniteSets

CONSTANTS
    Keys,               \* keys of the table
    Clients,            \* threads that call set, set_many, delete
    MaxMemtable,        \* max_memtable_size
    Oversize,           \* subset of BOOLEAN: may a record exceed a page
    MaxTx,              \* bound: transactions logged
    MaxJobs,            \* bound: flush jobs submitted
    MaxForgotten        \* bound: marks the WAL has lost

ASSUME RouterAssumption ==
    /\ MaxMemtable \in Nat \ {0}
    /\ Oversize \subseteq BOOLEAN
    /\ MaxTx \in Nat /\ MaxJobs \in Nat /\ MaxForgotten \in Nat

VARIABLES
    log,                \* records appended to the WAL: key, deletion, oversize
    completed,          \* transactions whose completion the WAL was told of
    active,             \* active_memtables[table]
    active_tx,          \* active_tx_ids[table]
    immutable,          \* immutable_memtables[table]
    immutable_tx,       \* immutable_tx_ids[table]
    table,              \* what the table handler holds, one batch per flush
    synced,             \* batches that fsync has put on disk
    disk_index,         \* key -> batch, or 0
    cache,              \* the LFU cache, as the transaction it holds for a key
    future,             \* flush_futures[table]: the last job submitted, or 0
    jobs,               \* the flush jobs, in the order of submission
    active_flushes,     \* wal.active_flushes
    client,             \* pc and local variables of each client
    forgotten,          \* those of completed that have no flag in the WAL
    stamp,              \* history: when each transaction entered a memtable
    clock,              \* history: number of memtable insertions
    latest              \* history: last transaction inserted for each key

mem   == <<active, active_tx, immutable, immutable_tx>>
store == <<table, synced, disk_index>>
sched == <<future, jobs, active_flushes>>
hist  == <<forgotten, stamp, clock, latest>>
vars  == <<log, completed, mem, store, cache, sched, client, hist>>

Tx    == 1 .. MaxTx
None  == 0
Empty == [k \in Keys |-> None]
Size(m) == Cardinality({k \in Keys : m[k] # None})

Idle == [pc |-> "idle", txs |-> {}, wait |-> 0]

Init ==
    /\ log = <<>> /\ completed = {}
    /\ active = Empty /\ active_tx = {}
    /\ immutable = Empty /\ immutable_tx = {}
    /\ table = <<>> /\ synced = 0 /\ disk_index = [k \in Keys |-> 0]
    /\ cache = Empty
    /\ future = 0 /\ jobs = <<>> /\ active_flushes = 0
    /\ client = [c \in Clients |-> Idle]
    /\ forgotten = {}
    /\ stamp = [t \in Tx |-> 0] /\ clock = 0 /\ latest = Empty

----------------------------------------------------------------------------
(* Writing.                                                                *)

Entries == [key : Keys, del : BOOLEAN, big : Oversize]
Deleted(t) == t = None \/ log[t].del

\* Put transactions of different keys in the active memtable, as one critical
\* section: memtable, transaction list, cache, test of the size.
Insert(c, T, entry) ==
    LET put(m) == [k \in Keys |-> IF \E t \in T : entry[t].key = k
                                  THEN CHOOSE t \in T : entry[t].key = k ELSE m[k]]
        dead(t) == entry[t].del
    IN
    /\ active' = put(active)
    /\ active_tx' = active_tx \cup T
    /\ cache' = [k \in Keys |-> IF \E t \in T : entry[t].key = k /\ dead(t)
                                THEN None ELSE put(cache)[k]]
    /\ client' = [client EXCEPT ![c] =
                     [Idle EXCEPT !.pc = IF Size(put(active)) >= MaxMemtable
                                         THEN "full" ELSE "idle"]]
    /\ stamp' = [t \in Tx |-> IF t \in T THEN clock + 1 ELSE stamp[t]]
    /\ clock' = clock + 1
    /\ latest' = put(latest)
    /\ UNCHANGED forgotten

\* set and delete: the WAL append is inside the table lock.
Set(c) ==
    /\ client[c].pc = "idle" /\ Len(log) < MaxTx
    /\ \E e \in Entries :
          /\ log' = Append(log, e)
          /\ Insert(c, {Len(log) + 1}, log')
    /\ UNCHANGED <<completed, immutable, immutable_tx, store, sched>>

\* set_many logs the whole batch before it takes the table lock.
SetManyLog(c) ==
    /\ client[c].pc = "idle"
    /\ \E n \in 1 .. Cardinality(Keys) : \E s \in [1 .. n -> Entries] :
          /\ Len(log) + n <= MaxTx
          /\ \A i, j \in 1 .. n : s[i].key = s[j].key => i = j
          /\ log' = log \o s
          /\ client' = [client EXCEPT ![c] =
                 [Idle EXCEPT !.pc = "logged", !.txs = Len(log) + 1 .. Len(log) + n]]
    /\ UNCHANGED <<completed, mem, store, cache, sched, hist>>

SetManyInsert(c) ==
    /\ client[c].pc = "logged"
    /\ Insert(c, client[c].txs, log)
    /\ UNCHANGED <<log, completed, immutable, immutable_tx, store, sched>>

\* Outside the lock: look the future of the last flush up.
CheckFuture(c) ==
    /\ client[c].pc = "full"
    /\ client' = [client EXCEPT ![c] =
          IF future = 0 \/ jobs[future].pc \in {"done", "failed"}
          THEN [@ EXCEPT !.pc = "swap"]
          ELSE [@ EXCEPT !.pc = "waiting", !.wait = future]]
    /\ UNCHANGED <<log, completed, mem, store, cache, sched, hist>>

\* future.result() returns, or raises what the flush raised.
AwaitFlush(c) ==
    /\ client[c].pc = "waiting"
    /\ \/ jobs[client[c].wait].pc = "done"
          /\ client' = [client EXCEPT ![c].pc = "swap"]
       \/ jobs[client[c].wait].pc = "failed"
          /\ client' = [client EXCEPT ![c] = Idle]
    /\ UNCHANGED <<log, completed, mem, store, cache, sched, hist>>

NewJob == [pc |-> "queued", recs |-> Empty, txs |-> {}, batch |-> 0]

\* Back under the table lock: swap the memtables if the active one is still full.
Swap(c) ==
    /\ client[c].pc = "swap"
    /\ client' = [client EXCEPT ![c] = Idle]
    /\ \/ /\ Size(active) >= MaxMemtable /\ Len(jobs) < MaxJobs
          /\ immutable' = active /\ immutable_tx' = active_tx
          /\ active' = Empty /\ active_tx' = {}
          /\ jobs' = Append(jobs, NewJob)
          /\ future' = Len(jobs) + 1
       \/ /\ Size(active) < MaxMemtable
          /\ UNCHANGED <<mem, jobs, future>>
    /\ UNCHANGED <<log, completed, store, cache, active_flushes, hist>>

----------------------------------------------------------------------------
(* Reading.                                                                *)

OnDisk(k) == IF disk_index[k] = 0 THEN None ELSE table[disk_index[k]][k]
\* Mutation: the immutable memtable is looked at first.
InMemoryOldFirst(k) == IF immutable[k] # None THEN immutable[k] ELSE active[k]

InMemory(k) == IF active[k] # None THEN active[k] ELSE immutable[k]
Lookup(k) == IF InMemory(k) # None THEN InMemory(k) ELSE OnDisk(k)

\* Mutation: the immutable memtable is not looked at.
GetMissStale(k) ==
    LET found == IF active[k] # None THEN active[k] ELSE OnDisk(k) IN
    /\ ~Deleted(found)
    /\ cache' = [cache EXCEPT ![k] = found]
    /\ UNCHANGED <<log, completed, mem, store, sched, client, hist>>

\* get after a cache miss: under the table lock, and it fills the cache.
GetMiss(k) ==
    /\ \/ /\ ~Deleted(Lookup(k))
          /\ cache' = [cache EXCEPT ![k] = Lookup(k)]
       \/ /\ active[k] # None /\ Deleted(active[k])
          /\ cache' = [cache EXCEPT ![k] = None]
    /\ UNCHANGED <<log, completed, mem, store, sched, client, hist>>

\* An eviction by the LFU cache (cache/cache.py).
CacheEvict(k) ==
    /\ cache[k] # None
    /\ cache' = [cache EXCEPT ![k] = None]
    /\ UNCHANGED <<log, completed, mem, store, sched, client, hist>>

----------------------------------------------------------------------------
(* The flush jobs.                                                         *)

Move(j, pc) == jobs' = [jobs EXCEPT ![j].pc = pc]

\* Mutation: a job waits for itself.
JobStartLate(j) ==
    /\ jobs[j].pc = "queued"
    /\ \A i \in 1 .. j : jobs[i].pc # "queued"
    /\ jobs' = [jobs EXCEPT ![j] = [@ EXCEPT !.pc = "count", !.recs = immutable,
                                             !.txs = immutable_tx]]
    /\ UNCHANGED <<log, completed, mem, store, cache, future, active_flushes, client, hist>>

\* Under the table lock: take the immutable memtable and its transactions, or
\* return early.  The workers of the executor may take the lock in any order.
JobStart(j) ==
    /\ jobs[j].pc = "queued"
    /\ \/ immutable = Empty /\ Move(j, "uncount")
       \/ /\ immutable # Empty
          /\ jobs' = [jobs EXCEPT ![j] = [@ EXCEPT !.pc = "count", !.recs = immutable,
                                                    !.txs = immutable_tx]]
    /\ UNCHANGED <<log, completed, mem, store, cache, future, active_flushes, client, hist>>

JobCount(j) ==
    /\ jobs[j].pc = "count"
    /\ active_flushes' = active_flushes + 1
    /\ Move(j, "write")
    /\ UNCHANGED <<log, completed, mem, store, cache, future, client, hist>>

\* Pages are filled and written without the table lock.  A record that does not
\* fit an empty page raises, with some of the records before it already there.
JobWrite(j) ==
    LET recs == jobs[j].recs
        big(k) == recs[k] # None /\ log[recs[k]].big
    IN
    /\ jobs[j].pc = "write"
    /\ \/ /\ \A k \in Keys : ~big(k)
          /\ table' = Append(table, recs)
          /\ jobs' = [jobs EXCEPT ![j] = [@ EXCEPT !.pc = "index", !.batch = Len(table) + 1]]
       \/ /\ \E k \in Keys : big(k)
          /\ \E S \in SUBSET {k \in Keys : ~big(k)} :
                table' = Append(table, [k \in Keys |-> IF k \in S THEN recs[k] ELSE None])
          /\ Move(j, "uncount_failed")
    /\ UNCHANGED <<log, completed, mem, synced, disk_index, cache, future,
                   active_flushes, client, hist>>

\* Mutation: the index names the page after the one written.
JobIndexNextPage(j) ==
    LET recs == jobs[j].recs IN
    /\ jobs[j].pc = "index"
    /\ disk_index' = [k \in Keys |-> IF recs[k] = None THEN disk_index[k]
                                     ELSE IF log[recs[k]].del THEN 0 ELSE jobs[j].batch + 1]
    /\ Move(j, "sync")
    /\ UNCHANGED <<log, completed, mem, table, synced, cache, future, active_flushes,
                   client, hist>>

JobIndex(j) ==
    LET recs == jobs[j].recs IN
    /\ jobs[j].pc = "index"
    /\ disk_index' = [k \in Keys |-> IF recs[k] = None THEN disk_index[k]
                                     ELSE IF log[recs[k]].del THEN 0 ELSE jobs[j].batch]
    /\ Move(j, "sync")
    /\ UNCHANGED <<log, completed, mem, table, synced, cache, future, active_flushes,
                   client, hist>>

\* Mutation: no fsync.
JobSyncSkipped(j) ==
    /\ jobs[j].pc = "sync" /\ Move(j, "mark")
    /\ UNCHANGED <<log, completed, mem, store, cache, future, active_flushes, client, hist>>

JobSync(j) ==
    /\ jobs[j].pc = "sync"
    /\ synced' = Len(table)
    /\ Move(j, "mark")
    /\ UNCHANGED <<log, completed, mem, table, disk_index, cache, future,
                   active_flushes, client, hist>>

\* Mutation: nothing is marked.
JobMarkNothing(j) ==
    /\ jobs[j].pc = "mark" /\ Move(j, "release")
    /\ UNCHANGED <<log, completed, mem, store, cache, future, active_flushes, client, hist>>

\* What recovery finds marked complete.
Flagged == completed \ forgotten

\* mark_many_jobs_complete.  The WAL writer that has copied the completions and not
\* yet written the records does not see the mark: it is made in RAM, dropped with the
\* next copy, and its flag is not there yet or is overwritten.
JobMark(j) ==
    /\ jobs[j].pc = "mark"
    /\ completed' = completed \cup jobs[j].txs
    /\ \E F \in SUBSET (jobs[j].txs \ Flagged) :
          /\ Cardinality(forgotten \cup F) <= MaxForgotten
          /\ forgotten' = (forgotten \ jobs[j].txs) \cup F
    /\ Move(j, "release")
    /\ UNCHANGED <<log, mem, store, cache, future, active_flushes, client,
                   stamp, clock, latest>>

JobRelease(j) ==
    /\ jobs[j].pc = "release"
    /\ immutable' = Empty /\ immutable_tx' = {}
    /\ Move(j, "uncount")
    /\ UNCHANGED <<log, completed, active, active_tx, store, cache, future,
                   active_flushes, client, hist>>

\* Mutation: the count is never taken back.
JobUncountNever(j) ==
    /\ jobs[j].pc \in {"uncount", "uncount_failed"}
    /\ Move(j, IF jobs[j].pc = "uncount" THEN "done" ELSE "failed")
    /\ UNCHANGED <<log, completed, mem, store, cache, future, active_flushes, client, hist>>

\* The finally clause, also after the early return.
JobUncount(j) ==
    /\ jobs[j].pc \in {"uncount", "uncount_failed"}
    /\ active_flushes' = active_flushes - 1
    /\ Move(j, IF jobs[j].pc = "uncount" THEN "done" ELSE "failed")
    /\ UNCHANGED <<log, completed, mem, store, cache, future, client, hist>>

----------------------------------------------------------------------------
Client(c) ==
    Set(c) \/ SetManyLog(c) \/ SetManyInsert(c) \/ CheckFuture(c) \/ AwaitFlush(c) \/ Swap(c)
Reader(k) == GetMiss(k) \/ CacheEvict(k)
Job(j) ==
    \/ JobStart(j) \/ JobCount(j) \/ JobWrite(j) \/ JobIndex(j) \/ JobSync(j)
    \/ JobMark(j) \/ JobRelease(j) \/ JobUncount(j)

Next ==
    \/ \E c \in Clients : Client(c)
    \/ \E k \in Keys : Reader(k)
    \/ \E j \in DOMAIN jobs : Job(j)

Spec == Init /\ [][Next]_vars

\* The executor runs its jobs, and a client in a call goes on.
FairSpec ==
    /\ Spec
    /\ \A j \in 1 .. MaxJobs : WF_vars(j \in DOMAIN jobs /\ Job(j))
    /\ \A c \in Clients :
          WF_vars(SetManyInsert(c) \/ CheckFuture(c) \/ AwaitFlush(c) \/ Swap(c))

----------------------------------------------------------------------------
(* Properties.                                                             *)

Memtables == [Keys -> Tx \cup {None}]
JobPCs == {"queued", "count", "write", "index", "sync", "mark", "release",
           "uncount", "uncount_failed", "done", "failed"}
ClientPCs == {"idle", "logged", "full", "waiting", "swap"}

TypeOK ==
    /\ log \in Seq(Entries) /\ Len(log) <= MaxTx
    /\ completed \subseteq Tx /\ forgotten \subseteq completed
    /\ active \in Memtables /\ immutable \in Memtables
    /\ active_tx \subseteq Tx /\ immutable_tx \subseteq Tx
    /\ table \in Seq(Memtables) /\ synced \in 0 .. Len(table)
    /\ disk_index \in [Keys -> 0 .. Len(table)]
    /\ cache \in Memtables
    /\ future \in 0 .. Len(jobs)
    /\ jobs \in Seq([pc : JobPCs, recs : Memtables, txs : SUBSET Tx, batch : Nat])
    /\ active_flushes \in Int
    /\ client \in [Clients -> [pc : ClientPCs, txs : SUBSET Tx, wait : Nat]]
    /\ stamp \in [Tx -> Nat] /\ clock \in Nat /\ latest \in Memtables

\* The WAL is told that a transaction is complete only when its record, or one that
\* replaced it, is in the synced part of the table file: recovery may skip it.
MarkedIsDurable ==
    \A t \in completed :
        \E b \in 1 .. synced :
            LET u == table[b][log[t].key] IN u # None /\ stamp[u] >= stamp[t]

Value(t) == IF Deleted(t) THEN None ELSE t

\* Memtables, disk index and table file together show the last value inserted,
\* whatever step of a flush is under way.
ReadsLatest == \A k \in Keys : Value(Lookup(k)) = Value(latest[k])

\* The cache never serves an older value than a read past it would.
CacheCoherent == \A k \in Keys : cache[k] # None => cache[k] = Value(latest[k])

Running(j) == jobs[j].pc \notin {"queued", "done", "failed"}
Counted(j) == Running(j) /\ jobs[j].pc # "count"

\* The count that keeps the checkpoint away is the number of running flushes.
FlushCountExact ==
    active_flushes = Cardinality({j \in DOMAIN jobs : Counted(j)})

\* Mutation: the first batch wins.
ScanFirst(k, n) ==
    LET B == {b \in 1 .. n : table[b][k] # None} IN
    IF B = {} THEN None ELSE table[CHOOSE b \in B : \A a \in B : b <= a][k]

\* What a scan of the first n batches finds for a key (_init_disk_index).
Scan(k, n) ==
    LET B == {b \in 1 .. n : table[b][k] # None} IN
    IF B = {} THEN None ELSE table[CHOOSE b \in B : \A a \in B : a <= b][k]

\* Rebuilding the index from the table file gives the index in memory.
RebuildAgrees ==
    (\A j \in DOMAIN jobs : jobs[j].pc \notin {"write", "index"}) =>
        \A k \in Keys : Value(Scan(k, Len(table))) = Value(OnDisk(k))

\* A crash now, with any unsynced batches kept or gone, and a replay in order of
\* id of what is not flagged complete, would bring back the last value inserted: of
\* every key but those with a record whose mark the WAL has lost, and that it then
\* replays over later ones.
Replay(k, n) ==
    LET R == {t \in 1 .. Len(log) : log[t].key = k /\ t \notin Flagged} IN
    IF R = {} THEN Scan(k, n) ELSE CHOOSE t \in R : \A u \in R : u <= t
ReplayCorrect ==
    (\A c \in Clients : client[c].pc # "logged") =>
        \A k \in Keys, n \in synced .. Len(table) :
            (\A t \in forgotten : log[t].key # k) => Value(Replay(k, n)) = Value(latest[k])

\* A client that has to wait for a flush gets through.
WaitersProceed == \A c \in Clients : client[c].pc = "waiting" ~> client[c].pc # "waiting"

\* What was handed to a flush job leaves the list of the immutable memtable in the end,
\* and only after the WAL was told that it is complete.
FlushedIsMarked ==
    /\ immutable_tx # {} ~> immutable_tx = {}
    /\ [][\A t \in immutable_tx \ immutable_tx' : t \in completed]_vars
=============================================================================
