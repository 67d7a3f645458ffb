---------------------------- MODULE RouterProofs ----------------------------
(***************************************************************************)
(* A transaction marked complete in the WAL is durable in the table file,  *)
(* for every number of clients, keys and flush jobs, with overlapping and  *)
(* failing flushes.                                                        *)
(*                                                                         *)
(* With one client and records that fit a page (from Single on), reads     *)
(* return the latest write at every step of a flush, the cache agrees with *)
(* them, the count of flushes is exact, the index can be rebuilt from the  *)
(* table file, and a crash can be recovered from at any time: for every    *)
(* number of keys, transactions, flushes and every size of the memtable.   *)
(***************************************************************************)
EXTENDS Router, Extremes, FiniteSetTheorems, TLAPS

JobType == [pc : JobPCs, recs : Memtables, txs : SUBSET Tx, batch : Nat]
ClientType == [pc : ClientPCs, txs : SUBSET Tx, wait : Nat]

\* Memtable (or batch) m holds, for each transaction of T, its record or one
\* inserted no earlier.  lg and st stand for log and stamp.
CoversIn(m, T, lg, st) ==
    \A t \in T :
        /\ t \in 1 .. Len(lg) /\ st[t] > 0
        /\ LET u == m[lg[t].key] IN u # None /\ st[u] >= st[t]
Covers(m, T) == CoversIn(m, T, log, stamp)

\* Stamps are at most the clock; a transaction not logged, or logged and not
\* inserted yet, has none; two clients wait with different transactions.
StampsOK ==
    /\ \A t \in Tx : stamp[t] <= clock /\ (t > Len(log) => stamp[t] = 0)
    /\ \A c \in Clients : \A t \in client[c].txs : t \in 1 .. Len(log) /\ stamp[t] = 0
    /\ \A c, d \in Clients : c # d => client[c].txs \cap client[d].txs = {}

\* What each flush job has established when it is at its pc.
JobOK(job) ==
    /\ job.pc \in {"count", "write", "index", "sync", "mark"} => Covers(job.recs, job.txs)
    /\ job.pc \in {"index", "sync", "mark"} =>
          job.batch \in 1 .. Len(table) /\ table[job.batch] = job.recs
    /\ job.pc = "mark" => job.batch <= synced

MarkedLogged == \A t \in completed : t \in 1 .. Len(log) /\ stamp[t] > 0

IInv ==
    /\ TypeOK /\ StampsOK /\ MarkedLogged
    /\ Covers(active, active_tx) /\ Covers(immutable, immutable_tx)
    /\ \A j \in DOMAIN jobs : JobOK(jobs[j])
    /\ MarkedIsDurable

----------------------------------------------------------------------------
\* What no step does: change a logged record or a stamp once given.
HistoryStays ==
    /\ Len(log) <= Len(log')
    /\ \A t \in 1 .. Len(log) : log'[t] = log[t]
    /\ \A t \in Tx : stamp[t] > 0 => stamp'[t] = stamp[t]

\* No transaction is None.
LEMMA TxIsSome == \A t \in Tx : t # None
BY DEF Tx, None

\* Memtables map keys to transactions, and the empty one is one of them.
LEMMA EmptyType == Empty \in Memtables /\ \A k \in Keys : Empty[k] = None
BY DEF Empty, Memtables

\* The records of a log are entries.
LEMMA LoggedEntry ==
    ASSUME NEW lg \in Seq(Entries), NEW t \in 1 .. Len(lg)
    PROVE  lg[t] \in Entries /\ lg[t].key \in Keys
<1>1. lg[t] \in Entries
  OBVIOUS
<1> QED
  BY <1>1 DEF Entries

\* A function on 1 .. n is a sequence.
LEMMA FunctionIsSequence ==
    ASSUME NEW n \in Nat, NEW S, NEW s \in [1 .. n -> S]
    PROVE  s \in Seq(S) /\ Len(s) = n
OBVIOUS

\* Replacing the element of a sequence of jobs.
LEMMA JobsExcept ==
    ASSUME NEW s \in Seq(JobType), NEW j \in DOMAIN s, NEW r \in JobType
    PROVE  LET n == [s EXCEPT ![j] = r] IN
           /\ n \in Seq(JobType) /\ Len(n) = Len(s) /\ DOMAIN n = DOMAIN s
           /\ n[j] = r /\ \A i \in DOMAIN s : i # j => n[i] = s[i]
OBVIOUS

\* Appending to the table file keeps the batches that are there.
LEMMA AppendBatch ==
    ASSUME table \in Seq(Memtables), NEW m \in Memtables, table' = Append(table, m)
    PROVE  /\ table' \in Seq(Memtables) /\ Len(table') = Len(table) + 1
           /\ Len(table) <= Len(table') /\ table'[Len(table) + 1] = m
           /\ \A b \in DOMAIN table : table'[b] = table[b]
OBVIOUS

\* Covering survives a step that leaves the history alone.
LEMMA CoversStays ==
    ASSUME TypeOK, HistoryStays, NEW m \in Memtables, NEW T \in SUBSET Tx,
           CoversIn(m, T, log, stamp), Len(log') <= MaxTx
    PROVE  CoversIn(m, T, log', stamp')
<1> SUFFICES ASSUME NEW t \in T
             PROVE  /\ t \in 1 .. Len(log') /\ stamp'[t] > 0
                    /\ m[log'[t].key] # None /\ stamp'[m[log'[t].key]] >= stamp'[t]
  BY DEF CoversIn
<1>1. /\ t \in 1 .. Len(log) /\ stamp[t] > 0 /\ t \in Tx
      /\ m[log[t].key] # None /\ stamp[m[log[t].key]] >= stamp[t]
  BY DEF CoversIn
<1>2. log[t].key \in Keys
  BY <1>1, LoggedEntry DEF TypeOK
<1>3. m[log[t].key] \in Tx /\ stamp[m[log[t].key]] \in Nat /\ stamp[t] \in Nat
  BY <1>1, <1>2 DEF Memtables, TypeOK
<1>4. stamp[m[log[t].key]] > 0
  BY <1>1, <1>3
<1>5. stamp'[m[log[t].key]] = stamp[m[log[t].key]] /\ stamp'[t] = stamp[t]
  BY <1>1, <1>3, <1>4 DEF HistoryStays
<1>6. log'[t] = log[t] /\ t \in 1 .. Len(log')
  BY <1>1 DEF HistoryStays, TypeOK
<1> QED
  BY <1>1, <1>5, <1>6

\* A durable transaction stays durable when the history is kept and the synced
\* batches are.
LEMMA DurableStays ==
    ASSUME TypeOK, HistoryStays, MarkedLogged, MarkedIsDurable, completed' = completed,
           synced' \in Nat, synced <= synced',
           \A b \in 1 .. synced : table'[b] = table[b]
    PROVE  MarkedIsDurable'
<1> SUFFICES ASSUME NEW t \in completed
             PROVE  \E b \in 1 .. synced' :
                       /\ table'[b][log'[t].key] # None
                       /\ stamp'[table'[b][log'[t].key]] >= stamp'[t]
  BY DEF MarkedIsDurable
<1>1. t \in Tx /\ t \in 1 .. Len(log) /\ stamp[t] > 0
  BY DEF TypeOK, MarkedLogged
<1>2. PICK b \in 1 .. synced : /\ table[b][log[t].key] # None
                               /\ stamp[table[b][log[t].key]] >= stamp[t]
  BY DEF MarkedIsDurable
<1>3. log[t].key \in Keys /\ log'[t] = log[t]
  BY <1>1, LoggedEntry DEF TypeOK, HistoryStays
<1>4. table[b] \in Memtables /\ b \in 1 .. synced'
  BY <1>2 DEF TypeOK
<1>5. table[b][log[t].key] \in Tx
  BY <1>2, <1>3, <1>4 DEF Memtables
<1>6. stamp[t] \in Nat /\ stamp[table[b][log[t].key]] \in Nat
  BY <1>1, <1>5 DEF TypeOK
<1>7. stamp'[t] = stamp[t]
      /\ stamp'[table[b][log[t].key]] = stamp[table[b][log[t].key]]
  BY <1>1, <1>2, <1>5, <1>6 DEF HistoryStays
<1> QED
  BY <1>2, <1>3, <1>4, <1>7

----------------------------------------------------------------------------
\* What one critical section that inserts T does.
LEMMA InsertStep ==
    ASSUME TypeOK, NEW c \in Clients, NEW T \in SUBSET Tx, log' \in Seq(Entries),
           Insert(c, T, log')
    PROVE  /\ active' \in Memtables /\ active_tx' = active_tx \cup T /\ cache' \in Memtables
           /\ client' \in [Clients -> ClientType]
           /\ client'[c].txs = {} /\ \A d \in Clients : d # c => client'[d] = client[d]
           /\ stamp' \in [Tx -> Nat] /\ clock' = clock + 1 /\ latest' \in Memtables
           /\ \A t \in Tx : stamp'[t] = IF t \in T THEN clock + 1 ELSE stamp[t]
           /\ \A k \in Keys : \/ active'[k] = active[k] /\ \A t \in T : log'[t].key # k
                              \/ active'[k] \in T
           /\ forgotten' = forgotten
<1> DEFINE put(m) == [k \in Keys |-> IF \E t \in T : log'[t].key = k
                                  THEN CHOOSE t \in T : log'[t].key = k ELSE m[k]]
<1>1. ASSUME NEW m \in Memtables
      PROVE  /\ put(m) \in Memtables
             /\ \A k \in Keys : \/ put(m)[k] = m[k] /\ \A t \in T : log'[t].key # k
                                \/ put(m)[k] \in T
  <2>1. ASSUME NEW k \in Keys, \E t \in T : log'[t].key = k
        PROVE  (CHOOSE t \in T : log'[t].key = k) \in T
    BY <2>1
  <2> QED
    BY <2>1 DEF Memtables
<1>2. active' = put(active) /\ latest' = put(latest)
  BY DEF Insert
<1>3. active \in Memtables /\ latest \in Memtables /\ cache \in Memtables
  BY DEF TypeOK
<1>4. cache' \in Memtables
  <2>1. cache' = [k \in Keys |-> IF \E t \in T : log'[t].key = k /\ log'[t].del
                                 THEN None ELSE put(cache)[k]]
    BY DEF Insert
  <2>2. put(cache) \in Memtables
    BY <1>1, <1>3
  <2> HIDE DEF put
  <2> QED
    BY <2>1, <2>2 DEF Memtables
<1>5. /\ client' \in [Clients -> ClientType]
      /\ client'[c].txs = {} /\ \A d \in Clients : d # c => client'[d] = client[d]
  <2>1. \E pc \in {"full", "idle"} :
           client' = [client EXCEPT ![c] = [Idle EXCEPT !.pc = pc]]
    BY DEF Insert
  <2>2. \A pc \in {"full", "idle"} :
           [Idle EXCEPT !.pc = pc] \in ClientType /\ [Idle EXCEPT !.pc = pc].txs = {}
    BY DEF Idle, ClientType, ClientPCs
  <2>3. client \in [Clients -> ClientType]
    BY DEF TypeOK, ClientType
  <2> QED
    BY <2>1, <2>2, <2>3
<1>6. /\ stamp' \in [Tx -> Nat] /\ clock' = clock + 1
      /\ \A t \in Tx : stamp'[t] = IF t \in T THEN clock + 1 ELSE stamp[t]
  BY DEF Insert, TypeOK
<1>7. active_tx' = active_tx \cup T
  BY DEF Insert
<1>8. /\ active' \in Memtables /\ latest' \in Memtables
      /\ \A k \in Keys : \/ active'[k] = active[k] /\ \A t \in T : log'[t].key # k
                         \/ active'[k] \in T
  <2> HIDE DEF put
  <2> QED
    BY <1>1, <1>2, <1>3
<1>9. forgotten' = forgotten
  BY DEF Insert
<1> HIDE DEF put
<1> QED
  BY <1>4, <1>5, <1>6, <1>7, <1>8, <1>9

----------------------------------------------------------------------------
(* The types. *)

\* What a flush job has to know of its batch for the index to name one.
BatchesOK == \A j \in DOMAIN jobs : jobs[j].pc = "index" => jobs[j].batch \in 0 .. Len(table)

\* A step of a job keeps the types.
LEMMA JobTypes == ASSUME TypeOK, BatchesOK, NEW j \in DOMAIN jobs, Job(j) PROVE TypeOK'
<1>1. /\ jobs \in Seq(JobType) /\ table \in Seq(Memtables) /\ immutable \in Memtables
      /\ immutable_tx \in SUBSET Tx /\ active_flushes \in Int /\ Len(table) \in Nat
      /\ disk_index \in [Keys -> 0 .. Len(table)] /\ synced \in 0 .. Len(table)
  BY DEF TypeOK, JobType
<1>2. jobs[j] \in JobType
  BY <1>1
<1>3. ASSUME NEW r \in JobType, jobs' = [jobs EXCEPT ![j] = r],
             active_flushes' \in Int, completed' \in SUBSET Tx,
             forgotten' \subseteq completed',
             immutable' \in Memtables, immutable_tx' \in SUBSET Tx,
             table' \in Seq(Memtables), synced' \in 0 .. Len(table'),
             disk_index' \in [Keys -> 0 .. Len(table')],
             UNCHANGED <<log, active, active_tx, cache, future, client, stamp, clock, latest>>
      PROVE  TypeOK'
  <2>1. jobs' \in Seq(JobType) /\ Len(jobs') = Len(jobs)
    BY <1>1, <1>3, JobsExcept
  <2> QED
    BY <1>3, <2>1 DEF TypeOK, JobType, hist
<1>4. ASSUME NEW pc \in JobPCs, Move(j, pc),
             active_flushes' \in Int, completed' \in SUBSET Tx,
             forgotten' \subseteq completed',
             immutable' \in Memtables, immutable_tx' \in SUBSET Tx,
             table' \in Seq(Memtables), synced' \in 0 .. Len(table'),
             disk_index' \in [Keys -> 0 .. Len(table')],
             UNCHANGED <<log, active, active_tx, cache, future, client, stamp, clock, latest>>
      PROVE  TypeOK'
  <2> DEFINE r == [jobs[j] EXCEPT !.pc = pc]
  <2>1. r \in JobType
    BY <1>2 DEF JobType
  <2>2. jobs' = [jobs EXCEPT ![j] = r]
    BY <1>4 DEF Move
  <2> HIDE DEF r
  <2> QED
    BY <1>3, <1>4, <2>1, <2>2
<1>5. CASE JobStart(j)
  <2>1. /\ UNCHANGED <<log, completed, active, active_tx, immutable, immutable_tx, table, synced,
                       disk_index, cache, future, active_flushes, client, hist>>
    BY <1>5 DEF JobStart, mem, store
  <2>2. CASE Move(j, "uncount")
    BY <1>1, <1>4, <2>1, <2>2 DEF TypeOK, JobPCs, hist
  <2>3. CASE jobs' = [jobs EXCEPT ![j] = [@ EXCEPT !.pc = "count", !.recs = immutable,
                                                   !.txs = immutable_tx]]
    <3> DEFINE r == [jobs[j] EXCEPT !.pc = "count", !.recs = immutable, !.txs = immutable_tx]
    <3>1. r \in JobType
      BY <1>1, <1>2 DEF JobType, JobPCs
    <3>2. jobs' = [jobs EXCEPT ![j] = r]
      BY <2>3
    <3> HIDE DEF r
    <3> QED
      BY <1>1, <1>3, <2>1, <3>1, <3>2 DEF TypeOK, hist
  <2> QED
    BY <1>5, <2>2, <2>3 DEF JobStart
<1>6. CASE JobCount(j) \/ JobUncount(j)
  <2>1. PICK pc \in {"write", "done", "failed"} : Move(j, pc)
    BY <1>6 DEF JobCount, JobUncount
  <2>2. /\ UNCHANGED <<log, completed, active, active_tx, immutable, immutable_tx, table, synced,
                       disk_index, cache, future, client, hist>>
        /\ active_flushes' \in Int
    BY <1>1, <1>6 DEF JobCount, JobUncount, mem, store
  <2> QED
    BY <1>1, <1>4, <2>1, <2>2 DEF TypeOK, JobPCs, hist
<1>7. CASE JobWrite(j)
  <2>1. UNCHANGED <<log, completed, active, active_tx, immutable, immutable_tx, synced,
                    disk_index, cache, future, active_flushes, client, hist>>
    BY <1>7 DEF JobWrite, mem
  <2>2. ASSUME NEW m \in Memtables, table' = Append(table, m)
        PROVE  /\ table' \in Seq(Memtables) /\ synced' \in 0 .. Len(table')
               /\ disk_index' \in [Keys -> 0 .. Len(table')]
    <3>1. table' \in Seq(Memtables) /\ Len(table') = Len(table) + 1
      BY <1>1, <2>2, AppendBatch
    <3> QED
      BY <1>1, <2>1, <3>1
  <2>3. CASE /\ table' = Append(table, jobs[j].recs)
             /\ jobs' = [jobs EXCEPT ![j] = [@ EXCEPT !.pc = "index", !.batch = Len(table) + 1]]
    <3> DEFINE r == [jobs[j] EXCEPT !.pc = "index", !.batch = Len(table) + 1]
    <3>1. r \in JobType
      <4>1. Len(table) + 1 \in Nat
        BY <1>1
      <4> QED
        BY <1>2, <4>1 DEF JobType, JobPCs
    <3>2. jobs' = [jobs EXCEPT ![j] = r]
      BY <2>3
    <3>3. jobs[j].recs \in Memtables
      BY <1>2 DEF JobType
    <3> HIDE DEF r
    <3> QED
      BY <1>1, <1>3, <2>1, <2>2, <2>3, <3>1, <3>2, <3>3 DEF TypeOK, hist
  <2>4. ASSUME NEW S \in SUBSET Keys, Move(j, "uncount_failed"),
               table' = Append(table, [k \in Keys |-> IF k \in S THEN jobs[j].recs[k] ELSE None])
        PROVE  TypeOK'
    <3>1. [k \in Keys |-> IF k \in S THEN jobs[j].recs[k] ELSE None] \in Memtables
      BY <1>2 DEF JobType, Memtables
    <3> QED
      BY <1>1, <1>4, <2>1, <2>2, <2>4, <3>1 DEF TypeOK, JobPCs, hist
  <2> QED
    BY <1>7, <2>3, <2>4 DEF JobWrite
<1>8. CASE JobIndex(j)
  <2>1. /\ UNCHANGED <<log, completed, active, active_tx, immutable, immutable_tx, table, synced,
                       cache, future, active_flushes, client, hist>>
        /\ Move(j, "sync")
    BY <1>8 DEF JobIndex, mem
  <2>2. disk_index' \in [Keys -> 0 .. Len(table)]
    <3>1. jobs[j].batch \in 0 .. Len(table) /\ 0 \in 0 .. Len(table)
      BY <1>1, <1>8 DEF JobIndex, BatchesOK
    <3>2. disk_index' = [k \in Keys |-> IF jobs[j].recs[k] = None THEN disk_index[k]
                           ELSE IF log[jobs[j].recs[k]].del THEN 0 ELSE jobs[j].batch]
      BY <1>8 DEF JobIndex
    <3> QED
      BY <1>1, <3>1, <3>2
  <2> QED
    BY <1>1, <1>4, <2>1, <2>2 DEF TypeOK, JobPCs, hist
<1>9. CASE JobSync(j) \/ JobMark(j)
  <2>1. /\ UNCHANGED <<log, active, active_tx, immutable, immutable_tx, table,
                       disk_index, cache, future, active_flushes, client, stamp, clock, latest>>
        /\ synced' \in {synced, Len(table)}
    BY <1>9 DEF JobSync, JobMark, mem, store, hist
  <2>2. completed' \in SUBSET Tx /\ forgotten' \subseteq completed'
    <3>1. jobs[j].txs \subseteq Tx /\ completed \subseteq Tx /\ forgotten \subseteq completed
      BY <1>2 DEF TypeOK, JobType
    <3> QED
      BY <1>9, <3>1 DEF JobSync, JobMark, hist
  <2>3. PICK pc \in {"mark", "release"} : Move(j, pc)
    BY <1>9 DEF JobSync, JobMark
  <2>4. synced' \in 0 .. Len(table)
    BY <1>1, <2>1
  <2> QED
    BY <1>1, <1>4, <2>1, <2>2, <2>3, <2>4 DEF TypeOK, JobPCs, hist
<1>10. CASE JobRelease(j)
  <2>1. /\ UNCHANGED <<log, completed, active, active_tx, table, synced,
                       disk_index, cache, future, active_flushes, client, hist>>
        /\ immutable' = Empty /\ immutable_tx' = {} /\ Move(j, "uncount")
    BY <1>10 DEF JobRelease, store
  <2> QED
    BY <1>1, <1>4, <2>1, EmptyType DEF TypeOK, JobPCs, hist
<1> QED
  BY <1>5, <1>6, <1>7, <1>8, <1>9, <1>10 DEF Job

\* A step of a client keeps the types.
LEMMA ClientTypes == ASSUME TypeOK, NEW c \in Clients, Client(c) PROVE TypeOK'
<1>1. /\ log \in Seq(Entries) /\ Len(log) \in Nat /\ Len(log) <= MaxTx
      /\ client \in [Clients -> ClientType] /\ jobs \in Seq(JobType)
      /\ client[c] \in ClientType /\ future \in Nat
  BY DEF TypeOK, ClientType, JobType
<1>2. ASSUME NEW T \in SUBSET Tx, Insert(c, T, log'), log' \in Seq(Entries), Len(log') <= MaxTx,
             UNCHANGED <<completed, immutable, immutable_tx, store, sched>>
      PROVE  TypeOK'
  <2>1. /\ active' \in Memtables /\ active_tx' = active_tx \cup T /\ cache' \in Memtables
        /\ client' \in [Clients -> ClientType]
        /\ stamp' \in [Tx -> Nat] /\ clock' = clock + 1 /\ latest' \in Memtables
        /\ forgotten' = forgotten
    BY <1>2, InsertStep
  <2> QED
    BY <1>2, <2>1 DEF TypeOK, store, sched, ClientType
<1>3. CASE Set(c)
  <2>1. PICK n \in Tx : n = Len(log) + 1
    BY <1>1, <1>3, RouterAssumption DEF Set, Tx
  <2>2. PICK e \in Entries : log' = Append(log, e) /\ Insert(c, {n}, log')
    BY <1>3, <2>1 DEF Set
  <2>3. log' \in Seq(Entries) /\ Len(log') <= MaxTx
    BY <1>1, <1>3, <2>2, RouterAssumption DEF Set
  <2> QED
    BY <1>2, <1>3, <2>2, <2>3 DEF Set
<1>4. CASE SetManyLog(c)
  <2>1. PICK n \in 1 .. Cardinality(Keys) :
           \E s \in [1 .. n -> Entries] :
              /\ Len(log) + n <= MaxTx /\ log' = log \o s
              /\ client' = [client EXCEPT ![c] =
                    [Idle EXCEPT !.pc = "logged", !.txs = Len(log) + 1 .. Len(log) + n]]
    BY <1>4 DEF SetManyLog
  <2>2. PICK s \in [1 .. n -> Entries] :
           /\ Len(log) + n <= MaxTx /\ log' = log \o s
           /\ client' = [client EXCEPT ![c] =
                 [Idle EXCEPT !.pc = "logged", !.txs = Len(log) + 1 .. Len(log) + n]]
    BY <2>1
  <2>3. n \in Nat
    BY <2>1
  <2>4. s \in Seq(Entries) /\ Len(s) = n
    BY <2>2, <2>3, FunctionIsSequence
  <2>5. log' \in Seq(Entries) /\ Len(log') <= MaxTx
    BY <1>1, <2>2, <2>3, <2>4
  <2>6. Len(log) + 1 .. Len(log) + n \in SUBSET Tx
    BY <1>1, <2>2, <2>3, RouterAssumption DEF Tx
  <2>7. client' \in [Clients -> ClientType]
    <3> DEFINE r == [Idle EXCEPT !.pc = "logged", !.txs = Len(log) + 1 .. Len(log) + n]
    <3>1. r \in ClientType
      BY <2>6 DEF ClientType, ClientPCs, Idle
    <3> HIDE DEF r
    <3>2. client' = [client EXCEPT ![c] = r]
      BY <2>2 DEF r
    <3> QED
      BY <1>1, <3>1, <3>2
  <2>8. UNCHANGED <<completed, mem, store, cache, sched, hist>>
    BY <1>4 DEF SetManyLog
  <2> QED
    BY <2>5, <2>7, <2>8 DEF TypeOK, ClientType, mem, store, sched, hist
<1>5. CASE SetManyInsert(c)
  <2>1. client[c].txs \in SUBSET Tx
    BY <1>1 DEF ClientType
  <2> QED
    BY <1>1, <1>2, <1>5, <2>1 DEF SetManyInsert
<1>6. CASE CheckFuture(c) \/ AwaitFlush(c)
  <2>1. UNCHANGED <<log, completed, mem, store, cache, sched, hist>>
    BY <1>6 DEF CheckFuture, AwaitFlush
  <2>2. \/ client' = [client EXCEPT ![c].pc = "swap"]
        \/ client' = [client EXCEPT ![c].pc = "waiting", ![c].wait = future]
        \/ client' = [client EXCEPT ![c] = Idle]
    BY <1>6 DEF CheckFuture, AwaitFlush
  <2>3. client' \in [Clients -> ClientType]
    <3>1. Idle \in ClientType
      BY DEF Idle, ClientType, ClientPCs
    <3>2. /\ [client[c] EXCEPT !.pc = "swap"] \in ClientType
          /\ [client[c] EXCEPT !.pc = "waiting", !.wait = future] \in ClientType
      BY <1>1 DEF ClientType, ClientPCs
    <3>3. \E r \in ClientType : client' = [client EXCEPT ![c] = r]
      BY ZenonT(20), <2>2, <3>1, <3>2
    <3> QED
      BY <1>1, <3>3
  <2> QED
    BY <2>1, <2>3 DEF TypeOK, ClientType, mem, store, sched, hist
<1>7. CASE Swap(c)
  <2>1. client' \in [Clients -> ClientType]
    <3>1. Idle \in ClientType /\ client' = [client EXCEPT ![c] = Idle]
      BY <1>7 DEF Idle, ClientType, ClientPCs, Swap
    <3> QED
      BY <1>1, <3>1
  <2>2. UNCHANGED <<log, completed, store, cache, active_flushes, hist>>
    BY <1>7 DEF Swap
  <2>3. CASE UNCHANGED <<mem, jobs, future>>
    BY <2>1, <2>2, <2>3 DEF TypeOK, ClientType, mem, store, hist
  <2>4. CASE /\ immutable' = active /\ immutable_tx' = active_tx
             /\ active' = Empty /\ active_tx' = {}
             /\ jobs' = Append(jobs, NewJob) /\ future' = Len(jobs) + 1
    <3>1. NewJob \in JobType
      BY EmptyType DEF NewJob, JobType, JobPCs
    <3>2. jobs' \in Seq(JobType) /\ future' \in 0 .. Len(jobs')
      <4> HIDE DEF NewJob
      <4> QED
        BY <1>1, <2>4, <3>1
    <3> QED
      BY <2>1, <2>2, <2>4, <3>2, EmptyType DEF TypeOK, JobType, ClientType, store, hist
  <2> QED
    BY <1>7, <2>3, <2>4 DEF Swap
<1> QED
  BY <1>3, <1>4, <1>5, <1>6, <1>7 DEF Client

\* A read or an eviction keeps the types.
LEMMA ReaderTypes == ASSUME TypeOK, NEW k \in Keys, Reader(k) PROVE TypeOK'
<1>1. UNCHANGED <<log, completed, mem, store, sched, client, hist>>
  BY DEF Reader, GetMiss, CacheEvict
<1>2. Lookup(k) \in Tx \cup {None}
  <2>1. active[k] \in Tx \cup {None} /\ immutable[k] \in Tx \cup {None}
    BY DEF TypeOK, Memtables
  <2>2. disk_index[k] \in 0 .. Len(table) /\ table \in Seq(Memtables)
    BY DEF TypeOK
  <2>3. disk_index[k] # 0 => table[disk_index[k]] \in Memtables
    BY <2>2
  <2>4. OnDisk(k) \in Tx \cup {None}
    BY <2>3 DEF OnDisk, Memtables, None
  <2> QED
    BY <2>1, <2>4 DEF Lookup, InMemory
<1>3. cache' \in Memtables
  <2>1. cache \in Memtables
    BY DEF TypeOK
  <2>2. cache' = [cache EXCEPT ![k] = Lookup(k)] \/ cache' = [cache EXCEPT ![k] = None]
    BY DEF Reader, GetMiss, CacheEvict
  <2> QED
    BY <1>2, <2>1, <2>2 DEF Memtables
<1> QED
  BY <1>1, <1>3 DEF TypeOK, mem, store, sched, hist

----------------------------------------------------------------------------
(* The steps of clients and readers. *)

\* Inserting keeps the invariant.
LEMMA InsertInv ==
    ASSUME IInv, NEW c \in Clients, NEW T \in SUBSET Tx, Insert(c, T, log'),
           log' \in Seq(Entries), Len(log') <= MaxTx, Len(log) <= Len(log'),
           \A t \in 1 .. Len(log) : log'[t] = log[t],
           \A t \in T : t \in 1 .. Len(log') /\ stamp[t] = 0,
           \A d \in Clients : d # c => client[d].txs \cap T = {},
           UNCHANGED <<completed, immutable, immutable_tx, store, sched>>
    PROVE  IInv'
<1>0. TypeOK /\ StampsOK /\ MarkedLogged /\ MarkedIsDurable
  BY DEF IInv
<1>1. /\ active' \in Memtables /\ active_tx' = active_tx \cup T /\ cache' \in Memtables
      /\ client' \in [Clients -> ClientType]
      /\ client'[c].txs = {} /\ \A d \in Clients : d # c => client'[d] = client[d]
      /\ stamp' \in [Tx -> Nat] /\ clock' = clock + 1 /\ latest' \in Memtables
      /\ \A t \in Tx : stamp'[t] = IF t \in T THEN clock + 1 ELSE stamp[t]
      /\ \A k \in Keys : \/ active'[k] = active[k] /\ \A t \in T : log'[t].key # k
                         \/ active'[k] \in T
      /\ forgotten' = forgotten
  BY <1>0, InsertStep
<1>2. HistoryStays
  BY <1>0, <1>1 DEF HistoryStays, TypeOK
<1>3. TypeOK'
  BY <1>0, <1>1 DEF TypeOK, store, sched, ClientType
<1>4. StampsOK'
  <2>1. clock \in Nat /\ Len(log) \in Nat /\ Len(log') \in Nat
    BY <1>0 DEF TypeOK
  <2>2. ASSUME NEW t \in Tx
        PROVE  stamp'[t] <= clock' /\ (t > Len(log') => stamp'[t] = 0)
    <3>1. /\ stamp[t] \in Nat /\ stamp[t] <= clock /\ t \in Nat
          /\ t > Len(log) => stamp[t] = 0
      BY <1>0 DEF StampsOK, TypeOK, Tx
    <3>2. t \in T => ~(t > Len(log'))
      BY <2>1, <3>1
    <3> QED
      BY <1>1, <2>1, <3>1, <3>2
  <2>3. ASSUME NEW d \in Clients, NEW t \in client'[d].txs
        PROVE  t \in 1 .. Len(log') /\ stamp'[t] = 0
    <3>1. d # c /\ t \in client[d].txs /\ t \notin T
      BY <1>1, <2>3
    <3>2. t \in Tx
      BY <1>1, <2>3 DEF ClientType
    <3> QED
      BY <1>0, <1>1, <2>1, <3>1, <3>2 DEF StampsOK
  <2>4. \A a, b \in Clients : a # b => client'[a].txs \cap client'[b].txs = {}
    BY <1>0, <1>1 DEF StampsOK
  <2> QED
    BY <2>2, <2>3, <2>4 DEF StampsOK
<1>5. \A t \in 1 .. Len(log) : stamp[t] > 0 => t \in 1 .. Len(log') /\ stamp'[t] > 0
  <2>1. Len(log) \in Nat /\ Len(log') \in Nat /\ Len(log) <= MaxTx /\ MaxTx \in Nat
    BY <1>0, RouterAssumption DEF TypeOK
  <2> QED
    BY <1>2, <2>1 DEF HistoryStays, Tx
<1>6. MarkedLogged'
  BY <1>0, <1>5 DEF MarkedLogged
<1>7. Covers(active, active_tx)'
  <2> SUFFICES ASSUME NEW t \in active_tx'
               PROVE  /\ t \in 1 .. Len(log') /\ stamp'[t] > 0
                      /\ active'[log'[t].key] # None
                      /\ stamp'[active'[log'[t].key]] >= stamp'[t]
    BY DEF Covers, CoversIn
  <2> DEFINE k == log'[t].key
  <2>1. clock \in Nat /\ \A u \in Tx : stamp[u] \in Nat /\ stamp[u] <= clock
    BY <1>0 DEF TypeOK, StampsOK
  <2>2. t \in 1 .. Len(log') /\ stamp'[t] > 0 /\ t \in Tx /\ stamp'[t] <= clock + 1
        /\ stamp'[t] \in Nat
    <3>1. CASE t \in T
      BY <1>1, <2>1, <3>1
    <3>2. CASE t \notin T
      <4>1. t \in active_tx /\ t \in Tx /\ t \in 1 .. Len(log) /\ stamp[t] > 0
        BY <1>0, <1>1, <3>2 DEF IInv, Covers, CoversIn, TypeOK
      <4> QED
        BY <1>1, <1>5, <2>1, <3>2, <4>1
    <3> QED
      BY <3>1, <3>2
  <2>3. k \in Keys
    BY <2>2, LoggedEntry
  <2>4. CASE active'[k] \in T
    <3>1. active'[k] \in Tx /\ active'[k] # None
      <4> HIDE DEF k
      <4> QED
        BY <2>4, TxIsSome
    <3>2. stamp'[active'[k]] = clock + 1
      BY <1>1, <2>4, <3>1
    <3>3. clock + 1 >= stamp'[t]
      BY <2>1, <2>2
    <3> HIDE DEF k
    <3> QED
      BY <2>2, <3>1, <3>2, <3>3 DEF k
  <2>5. CASE active'[k] = active[k] /\ \A u \in T : log'[u].key # k
    <3>1. t \notin T /\ t \in active_tx
      BY <1>1, <2>5
    <3>2. /\ t \in 1 .. Len(log) /\ stamp[t] > 0
          /\ active[log[t].key] # None /\ stamp[active[log[t].key]] >= stamp[t]
      BY <3>1 DEF IInv, Covers, CoversIn
    <3>3. log'[t] = log[t] /\ active[k] \in Tx /\ stamp[active[k]] > 0
      BY <1>0, <2>1, <2>2, <2>3, <3>2 DEF TypeOK, Memtables
    <3>4. stamp'[active[k]] = stamp[active[k]] /\ stamp'[t] = stamp[t]
      BY <1>2, <2>2, <3>2, <3>3 DEF HistoryStays
    <3> QED
      BY <2>2, <2>5, <3>2, <3>3, <3>4
  <2> QED
    BY <1>1, <2>3, <2>4, <2>5
<1>8. Covers(immutable, immutable_tx)'
  BY <1>0, <1>2, CoversStays DEF IInv, Covers, TypeOK
<1>9. ASSUME NEW j \in DOMAIN jobs' PROVE JobOK(jobs[j])'
  <2>1. jobs' = jobs /\ table' = table /\ synced' = synced
    BY DEF sched, store
  <2>0. jobs \in Seq(JobType) /\ j \in DOMAIN jobs /\ jobs[j] \in JobType
    <3>1. jobs \in Seq(JobType)
      BY <1>0 DEF TypeOK, JobType
    <3>2. j \in DOMAIN jobs
      BY <1>9, <2>1
    <3> QED
      BY <3>1, <3>2
  <2>2. JobOK(jobs[j])
    BY <2>0 DEF IInv
  <2>3. jobs[j].recs \in Memtables /\ jobs[j].txs \in SUBSET Tx
    BY <2>0 DEF JobType
  <2>4. CoversIn(jobs[j].recs, jobs[j].txs, log, stamp)
           => CoversIn(jobs[j].recs, jobs[j].txs, log', stamp')
    BY <1>0, <1>2, <2>3, CoversStays
  <2> QED
    BY <2>1, <2>2, <2>4 DEF JobOK, Covers
<1>10. MarkedIsDurable'
  <2>1. synced' = synced /\ table' = table /\ synced \in Nat
    BY <1>0 DEF store, TypeOK
  <2> QED
    BY <1>0, <1>2, <2>1, DurableStays
<1> QED
  BY <1>3, <1>4, <1>6, <1>7, <1>8, <1>9, <1>10 DEF IInv

\* set and delete.
LEMMA SetInv == ASSUME IInv, NEW c \in Clients, Set(c) PROVE IInv'
<1>1. TypeOK /\ StampsOK /\ log \in Seq(Entries) /\ Len(log) \in Nat /\ Len(log) < MaxTx
  BY DEF IInv, TypeOK, Set
<1>2. PICK n \in Tx : n = Len(log) + 1
  BY <1>1, RouterAssumption DEF Tx
<1>3. PICK e \in Entries : log' = Append(log, e) /\ Insert(c, {n}, log')
  BY <1>2 DEF Set
<1>4. /\ log' \in Seq(Entries) /\ Len(log') = n /\ \A t \in 1 .. Len(log) : log'[t] = log[t]
      /\ Len(log') <= MaxTx /\ Len(log) <= Len(log') /\ n \in 1 .. Len(log')
  BY <1>1, <1>2, <1>3, RouterAssumption
<1>5. stamp[n] = 0 /\ \A d \in Clients : n \notin client[d].txs
  BY <1>1, <1>2 DEF StampsOK
<1>6. UNCHANGED <<completed, immutable, immutable_tx, store, sched>>
  BY DEF Set
<1> QED
  BY <1>3, <1>4, <1>5, <1>6, InsertInv

\* The second half of set_many.
LEMMA SetManyInsertInv == ASSUME IInv, NEW c \in Clients, SetManyInsert(c) PROVE IInv'
<1>1. TypeOK /\ StampsOK /\ log \in Seq(Entries) /\ Len(log) <= MaxTx /\ Len(log) \in Nat
  BY DEF IInv, TypeOK
<1>2. PICK T \in SUBSET Tx : T = client[c].txs
  BY <1>1 DEF TypeOK
<1>3. Insert(c, T, log') /\ log' = log
  BY <1>2 DEF SetManyInsert
<1>4. /\ \A t \in T : t \in 1 .. Len(log') /\ stamp[t] = 0
      /\ \A d \in Clients : d # c => client[d].txs \cap T = {}
  BY <1>1, <1>2, <1>3 DEF StampsOK
<1>5. UNCHANGED <<completed, immutable, immutable_tx, store, sched>>
  BY DEF SetManyInsert
<1> QED
  BY <1>1, <1>3, <1>4, <1>5, InsertInv

----------------------------------------------------------------------------
\* What a flush job has established survives the steps of the other threads.
LEMMA JobsStay ==
    ASSUME IInv, HistoryStays, Len(log') <= MaxTx, NEW i \in DOMAIN jobs, jobs'[i] = jobs[i],
           Len(table') \in Nat, Len(table) <= Len(table'),
           \A b \in DOMAIN table : table'[b] = table[b],
           synced' \in Nat, synced <= synced'
    PROVE  JobOK(jobs[i])'
<1>1. TypeOK /\ JobOK(jobs[i])
  BY DEF IInv
<1>2. jobs \in Seq(JobType) /\ table \in Seq(Memtables) /\ synced \in Nat
  BY <1>1 DEF TypeOK, JobType
<1>3. jobs[i] \in JobType /\ Len(table) \in Nat /\ DOMAIN table = 1 .. Len(table)
  BY <1>2
<1>4. jobs[i].recs \in Memtables /\ jobs[i].txs \in SUBSET Tx /\ jobs[i].batch \in Nat
  BY <1>3 DEF JobType
<1>5. CoversIn(jobs[i].recs, jobs[i].txs, log, stamp)
         => CoversIn(jobs[i].recs, jobs[i].txs, log', stamp')
  BY <1>1, <1>4, CoversStays
<1>6. jobs[i].batch \in 1 .. Len(table) /\ table[jobs[i].batch] = jobs[i].recs
         => jobs[i].batch \in 1 .. Len(table') /\ table'[jobs[i].batch] = jobs[i].recs
  BY <1>3, <1>4
<1>7. jobs[i].batch <= synced => jobs[i].batch <= synced'
  BY <1>2, <1>4
<1> QED
  BY <1>1, <1>5, <1>6, <1>7 DEF JobOK, Covers

\* Steps that leave memtables, store and jobs alone keep the invariant if they
\* keep the types, the history and StampsOK.
LEMMA FrameInv ==
    ASSUME IInv, TypeOK', StampsOK', HistoryStays,
           UNCHANGED <<completed, mem, store, sched>>
    PROVE  IInv'
<1>1. TypeOK /\ MarkedLogged /\ MarkedIsDurable
  BY DEF IInv
<1>2. /\ completed' = completed /\ active' = active /\ active_tx' = active_tx
      /\ immutable' = immutable /\ immutable_tx' = immutable_tx
      /\ table' = table /\ synced' = synced /\ jobs' = jobs
  BY DEF mem, store, sched
<1>3. /\ Len(log') <= MaxTx /\ Len(log) \in Nat /\ Len(log') \in Nat
      /\ synced \in Nat /\ Len(table) \in Nat
  BY <1>1 DEF TypeOK
<1>4. MarkedLogged'
  BY <1>1, <1>2, <1>3 DEF MarkedLogged, HistoryStays, TypeOK
<1>5. Covers(active, active_tx)' /\ Covers(immutable, immutable_tx)'
  <2>1. /\ active \in Memtables /\ immutable \in Memtables
        /\ active_tx \in SUBSET Tx /\ immutable_tx \in SUBSET Tx
    BY <1>1 DEF TypeOK
  <2> QED
    BY <1>1, <1>2, <1>3, <2>1, CoversStays DEF IInv, Covers
<1>6. \A i \in DOMAIN jobs : JobOK(jobs[i])'
  BY <1>2, <1>3, JobsStay
<1>7. MarkedIsDurable'
  BY <1>1, <1>2, <1>3, DurableStays
<1> QED
  BY <1>2, <1>4, <1>5, <1>6, <1>7 DEF IInv

\* The first half of set_many.
LEMMA SetManyLogInv == ASSUME IInv, NEW c \in Clients, SetManyLog(c) PROVE IInv'
<1>1. TypeOK /\ StampsOK /\ log \in Seq(Entries) /\ Len(log) <= MaxTx /\ Len(log) \in Nat
  BY DEF IInv, TypeOK
<1>0. PICK n \in 1 .. Cardinality(Keys) :
         \E s \in [1 .. n -> Entries] :
            /\ Len(log) + n <= MaxTx
            /\ log' = log \o s
            /\ client' = [client EXCEPT ![c] =
                  [Idle EXCEPT !.pc = "logged", !.txs = Len(log) + 1 .. Len(log) + n]]
  BY DEF SetManyLog
<1>2. PICK s \in [1 .. n -> Entries] :
         /\ Len(log) + n <= MaxTx
         /\ log' = log \o s
         /\ client' = [client EXCEPT ![c] =
               [Idle EXCEPT !.pc = "logged", !.txs = Len(log) + 1 .. Len(log) + n]]
  BY <1>0
<1> DEFINE T == Len(log) + 1 .. Len(log) + n
<1>3. /\ UNCHANGED <<completed, mem, store, cache, sched, hist>>
      /\ stamp' = stamp /\ clock' = clock
  BY DEF SetManyLog, hist
<1>4. n \in Nat /\ s \in Seq(Entries) /\ Len(s) = n
  <2>1. n \in Nat
    BY <1>2
  <2>2. s \in Seq(Entries)
    BY <1>2, <2>1, FunctionIsSequence
  <2> QED
    BY <1>2, <2>1, <2>2, FunctionIsSequence
<1>5. /\ log' \in Seq(Entries) /\ Len(log') = Len(log) + n
      /\ \A t \in 1 .. Len(log) : log'[t] = log[t]
  BY <1>1, <1>2, <1>4
<1>6. /\ T \in SUBSET Tx /\ \A t \in T : t \in 1 .. Len(log') /\ t > Len(log)
  BY <1>1, <1>2, <1>4, <1>5, RouterAssumption DEF Tx
<1>7. client \in [Clients -> ClientType]
  BY <1>1 DEF TypeOK, ClientType
<1>8. /\ client' \in [Clients -> ClientType] /\ client'[c].txs = T
      /\ \A d \in Clients : d # c => client'[d] = client[d]
  <2> DEFINE r == [Idle EXCEPT !.pc = "logged", !.txs = T]
  <2>1. r \in ClientType /\ r.txs = T
    BY <1>6 DEF ClientType, ClientPCs, Idle
  <2> HIDE DEF r
  <2>2. client' = [client EXCEPT ![c] = r]
    BY <1>2 DEF r
  <2> QED
    BY <1>7, <2>1, <2>2
<1> HIDE DEF T
<1>9. TypeOK'
  BY <1>1, ClientTypes DEF Client
<1>10. HistoryStays
  BY <1>1, <1>3, <1>4, <1>5 DEF HistoryStays
<1>11. StampsOK'
  <2>1. ASSUME NEW t \in Tx PROVE stamp'[t] <= clock' /\ (t > Len(log') => stamp'[t] = 0)
    <3>1. t \in Nat /\ stamp[t] <= clock /\ (t > Len(log) => stamp[t] = 0)
      BY <1>1 DEF StampsOK, Tx
    <3> QED
      BY <1>1, <1>3, <1>4, <1>5, <3>1
  <2>2. ASSUME NEW d \in Clients, NEW t \in client'[d].txs
        PROVE  t \in 1 .. Len(log') /\ stamp'[t] = 0
    <3>1. CASE d = c
      BY <1>1, <1>3, <1>6, <1>8, <2>2, <3>1 DEF StampsOK
    <3>2. CASE d # c
      <4>1. t \in 1 .. Len(log) /\ stamp[t] = 0
        BY <1>1, <1>8, <2>2, <3>2 DEF StampsOK
      <4> QED
        BY <1>1, <1>3, <1>4, <1>5, <4>1
    <3> QED
      BY <3>1, <3>2
  <2>3. ASSUME NEW a \in Clients, NEW b \in Clients, a # b
        PROVE  client'[a].txs \cap client'[b].txs = {}
    <3>1. \A d \in Clients : d # c => client'[d].txs \cap T = {}
      BY <1>1, <1>6, <1>8 DEF StampsOK
    <3>2. client[a].txs \cap client[b].txs = {}
      BY <1>1, <2>3 DEF StampsOK
    <3> QED
      BY <1>8, <2>3, <3>1, <3>2
  <2> QED
    BY <2>1, <2>2, <2>3 DEF StampsOK
<1> QED
  BY <1>3, <1>9, <1>10, <1>11, FrameInv

\* Steps that change where clients are, and drop transactions they remember.
LEMMA ClientMoves ==
    ASSUME StampsOK, \A d \in Clients : client'[d].txs \subseteq client[d].txs,
           UNCHANGED <<log, hist>>
    PROVE  StampsOK'
<1>1. log' = log /\ stamp' = stamp /\ clock' = clock
  BY DEF hist
<1>2. \A a, b \in Clients : a # b => client'[a].txs \cap client'[b].txs = {}
  BY DEF StampsOK
<1> QED
  BY <1>1, <1>2 DEF StampsOK

\* Looking the future up, and waiting for it.
LEMMA WaitInv ==
    ASSUME IInv, NEW c \in Clients, CheckFuture(c) \/ AwaitFlush(c) PROVE IInv'
<1>1. TypeOK /\ StampsOK /\ client \in [Clients -> ClientType] /\ future \in Nat
  BY DEF IInv, TypeOK, ClientType
<1>2. UNCHANGED <<log, completed, mem, store, cache, sched, hist>>
  BY DEF CheckFuture, AwaitFlush
<1>3. \/ client' = [client EXCEPT ![c].pc = "swap"]
      \/ client' = [client EXCEPT ![c].pc = "waiting", ![c].wait = future]
      \/ client' = [client EXCEPT ![c] = Idle]
  BY DEF CheckFuture, AwaitFlush
<1>4. \A d \in Clients : client'[d].txs \subseteq client[d].txs
  <2>1. Idle.txs = {}
    BY DEF Idle
  <2> QED
    BY <1>1, <1>3, <2>1 DEF ClientType, ClientPCs
<1>5. TypeOK'
  BY <1>1, ClientTypes DEF Client
<1>6. StampsOK' /\ HistoryStays
  BY <1>1, <1>2, <1>4, ClientMoves DEF HistoryStays, hist, TypeOK
<1> QED
  BY <1>2, <1>5, <1>6, FrameInv

\* Reads and evictions change the cache only.
LEMMA ReaderInv == ASSUME IInv, NEW k \in Keys, Reader(k) PROVE IInv'
<1>1. TypeOK /\ StampsOK
  BY DEF IInv
<1>2. UNCHANGED <<log, completed, mem, store, sched, client, hist>>
  BY DEF Reader, GetMiss, CacheEvict
<1>3. TypeOK'
  BY <1>1, ReaderTypes
<1>4. StampsOK' /\ HistoryStays
  BY <1>1, <1>2 DEF StampsOK, HistoryStays, hist, TypeOK
<1> QED
  BY <1>2, <1>3, <1>4, FrameInv

\* The swap of the memtables.
LEMMA SwapInv == ASSUME IInv, NEW c \in Clients, Swap(c) PROVE IInv'
<1>1. /\ TypeOK /\ StampsOK /\ MarkedLogged /\ MarkedIsDurable
      /\ client \in [Clients -> ClientType] /\ jobs \in Seq(JobType)
      /\ Covers(active, active_tx) /\ Covers(immutable, immutable_tx)
  BY DEF IInv, TypeOK, ClientType, JobType
<1>2. /\ UNCHANGED <<log, completed, store, cache, active_flushes, hist>>
      /\ log' = log /\ stamp' = stamp /\ clock' = clock /\ completed' = completed
      /\ table' = table /\ synced' = synced
  BY DEF Swap, hist, store
<1>3. /\ client' \in [Clients -> ClientType]
      /\ \A d \in Clients : client'[d].txs \subseteq client[d].txs
  <2>1. Idle \in ClientType /\ Idle.txs = {} /\ client' = [client EXCEPT ![c] = Idle]
    BY DEF Idle, ClientType, ClientPCs, Swap
  <2> QED
    BY <1>1, <2>1
<1>4. StampsOK' /\ HistoryStays
  BY <1>1, <1>2, <1>3, ClientMoves DEF HistoryStays, TypeOK
<1>5. CASE UNCHANGED <<mem, jobs, future>>
  <2>1. TypeOK'
    BY <1>1, <1>2, <1>3, <1>5 DEF TypeOK, ClientType, mem, store, hist
  <2>2. UNCHANGED <<completed, mem, store, sched>>
    BY <1>2, <1>5 DEF sched
  <2> QED
    BY <1>4, <2>1, <2>2, FrameInv
<1>6. CASE /\ immutable' = active /\ immutable_tx' = active_tx
           /\ active' = Empty /\ active_tx' = {}
           /\ jobs' = Append(jobs, NewJob) /\ future' = Len(jobs) + 1
  <2>1. NewJob \in JobType /\ NewJob.pc = "queued"
    BY EmptyType DEF NewJob, JobType, JobPCs
  <2>2. /\ jobs' \in Seq(JobType) /\ Len(jobs') = Len(jobs) + 1
        /\ \A i \in DOMAIN jobs : jobs'[i] = jobs[i]
        /\ jobs'[Len(jobs) + 1] = NewJob /\ DOMAIN jobs' = DOMAIN jobs \cup {Len(jobs) + 1}
    <3> HIDE DEF NewJob
    <3> QED
      BY <1>1, <1>6, <2>1
  <2>3. future' \in 0 .. Len(jobs')
    BY <1>1, <1>6, <2>2
  <2>4. TypeOK'
    BY <1>1, <1>2, <1>3, <1>6, <2>2, <2>3, EmptyType DEF TypeOK, JobType, ClientType, store, hist
  <2>5. \A i \in DOMAIN jobs' : JobOK(jobs[i])'
    <3>1. /\ Len(log') <= MaxTx /\ synced \in Nat /\ Len(table) \in Nat
      BY <1>1, <1>2 DEF TypeOK
    <3>2. \A i \in DOMAIN jobs : JobOK(jobs[i])'
      BY <1>2, <1>4, <2>2, <3>1, JobsStay
    <3>3. ASSUME NEW i \in DOMAIN jobs', jobs'[i] = NewJob PROVE JobOK(jobs[i])'
      BY <2>1, <3>3 DEF JobOK
    <3>4. ASSUME NEW i \in DOMAIN jobs' PROVE i \in DOMAIN jobs \/ jobs'[i] = NewJob
      BY <2>2, <3>4
    <3> QED
      BY <3>2, <3>3, <3>4
  <2>6. Covers(active, active_tx)' /\ Covers(immutable, immutable_tx)'
    BY <1>1, <1>2, <1>6 DEF Covers, CoversIn
  <2>7. MarkedLogged' /\ MarkedIsDurable'
    BY <1>1, <1>2 DEF MarkedLogged, MarkedIsDurable
  <2> QED
    BY <1>4, <2>4, <2>5, <2>6, <2>7 DEF IInv
<1> QED
  BY <1>5, <1>6 DEF Swap

----------------------------------------------------------------------------
\* What is said of completed holds after a step that leaves it, the log and the
\* stamps alone and only appends to the table file.
LEMMA MarkedStays ==
    ASSUME IInv, UNCHANGED <<completed, log, hist>>,
           Len(table) <= Len(table'), \A b \in DOMAIN table : table'[b] = table[b],
           synced' \in Nat, synced <= synced'
    PROVE  MarkedLogged' /\ MarkedIsDurable'
<1>1. TypeOK /\ MarkedLogged /\ MarkedIsDurable
  BY DEF IInv
<1>2. log' = log /\ stamp' = stamp /\ completed' = completed
  BY DEF hist
<1>3. HistoryStays
  BY <1>1, <1>2 DEF HistoryStays, TypeOK
<1>4. \A b \in 1 .. synced : table'[b] = table[b]
  BY <1>1 DEF TypeOK
<1>5. MarkedIsDurable'
  BY <1>1, <1>2, <1>3, <1>4, DurableStays
<1> QED
  BY <1>1, <1>2, <1>5 DEF MarkedLogged

\* A step of job j keeps the invariant if it keeps the types, only appends to
\* the table file, and establishes JobOK of j and what it says of completed.
LEMMA JobStepInv ==
    ASSUME IInv, NEW j \in DOMAIN jobs, TypeOK',
           DOMAIN jobs' = DOMAIN jobs, \A i \in DOMAIN jobs : i # j => jobs'[i] = jobs[i],
           JobOK(jobs[j])',
           UNCHANGED <<log, client, stamp, clock, active, active_tx>>,
           Covers(immutable, immutable_tx)',
           Len(table) <= Len(table'), \A b \in DOMAIN table : table'[b] = table[b],
           synced <= synced', MarkedLogged', MarkedIsDurable'
    PROVE  IInv'
<1>1. TypeOK /\ StampsOK /\ MarkedLogged /\ MarkedIsDurable /\ Covers(active, active_tx)
  BY DEF IInv
<1>2. log' = log /\ stamp' = stamp /\ clock' = clock /\ client' = client
  BY DEF hist
<1>3. HistoryStays /\ StampsOK'
  BY SMTT(30), <1>1, <1>2 DEF HistoryStays, StampsOK, TypeOK
<1>4. /\ Len(log') <= MaxTx /\ synced' \in Nat /\ Len(table') \in Nat
      /\ synced \in 0 .. Len(table) /\ Len(table) \in Nat
      /\ DOMAIN table = 1 .. Len(table)
  BY SMTT(30), <1>1 DEF TypeOK
<1>5. \A i \in DOMAIN jobs' : JobOK(jobs[i])'
  <2>1. \A i \in DOMAIN jobs : i # j => JobOK(jobs[i])'
    BY <1>3, <1>4, JobsStay
  <2> QED
    BY <2>1
<1>6. Covers(active, active_tx)'
  BY <1>1, <1>2 DEF Covers, CoversIn
<1> QED
  BY <1>3, <1>5, <1>6 DEF IInv

\* Steps that only move job j on, from one pc to another that asks for nothing
\* more, with the count of running flushes or the disk index changed.
LEMMA MoveInv ==
    ASSUME IInv, NEW j \in DOMAIN jobs, NEW pc \in JobPCs, Move(j, pc),
           pc \in {"index", "sync", "mark"} => pc = "sync" /\ jobs[j].pc = "index",
           pc \in {"count", "write"} => jobs[j].pc = "count",
           active_flushes' \in Int,
           disk_index' \in [Keys -> 0 .. Len(table)],
           UNCHANGED <<log, completed, mem, table, synced, cache, future, client, hist>>
    PROVE  IInv'
<1>1. TypeOK /\ jobs \in Seq(JobType) /\ JobOK(jobs[j])
  BY DEF IInv, TypeOK, JobType
<1>2. jobs[j] \in JobType
  BY <1>1
<1> DEFINE r == [jobs[j] EXCEPT !.pc = pc]
<1>3. r \in JobType /\ r.pc = pc /\ r.recs = jobs[j].recs /\ r.txs = jobs[j].txs
      /\ r.batch = jobs[j].batch
  BY <1>2 DEF JobType
<1>4. jobs' = [jobs EXCEPT ![j] = r]
  BY DEF Move
<1> HIDE DEF r
<1>5. /\ jobs' \in Seq(JobType) /\ DOMAIN jobs' = DOMAIN jobs /\ jobs'[j] = r
      /\ Len(jobs') = Len(jobs) /\ \A i \in DOMAIN jobs : i # j => jobs'[i] = jobs[i]
  BY <1>1, <1>3, <1>4, JobsExcept
<1>6. TypeOK'
  BY <1>1, <1>5 DEF TypeOK, JobType, mem, hist
<1>7. log' = log /\ stamp' = stamp /\ table' = table /\ synced' = synced
  BY DEF hist
<1>8. JobOK(jobs[j])'
  BY <1>1, <1>3, <1>5, <1>7 DEF JobOK, Covers
<1>9. Covers(immutable, immutable_tx)'
  BY <1>7 DEF IInv, Covers, CoversIn, mem
<1>10. UNCHANGED <<log, client, stamp, clock, active, active_tx>>
  BY DEF mem, hist
<1>11. /\ Len(table) <= Len(table') /\ \A b \in DOMAIN table : table'[b] = table[b]
       /\ synced <= synced' /\ completed' = completed
  BY <1>1, <1>7 DEF TypeOK
<1>12. MarkedLogged' /\ MarkedIsDurable'
  BY <1>1, <1>7, <1>11, MarkedStays DEF TypeOK
<1> QED
  BY <1>5, <1>6, <1>8, <1>9, <1>10, <1>11, <1>12, JobStepInv

\* The steps of a flush job that move it on.
LEMMA SimpleJobInv ==
    ASSUME IInv, NEW j \in DOMAIN jobs, JobCount(j) \/ JobIndex(j) \/ JobUncount(j)
    PROVE  IInv'
<1>1. TypeOK /\ jobs \in Seq(JobType) /\ JobOK(jobs[j])
  BY DEF IInv, TypeOK, JobType
<1>2. jobs[j] \in JobType /\ active_flushes \in Int
      /\ disk_index \in [Keys -> 0 .. Len(table)]
  BY <1>1 DEF TypeOK
<1>3. CASE JobCount(j)
  <2>1. Move(j, "write") /\ jobs[j].pc = "count" /\ active_flushes' \in Int
        /\ UNCHANGED <<log, completed, mem, table, synced, cache, future, client, hist>>
        /\ disk_index' = disk_index
    BY <1>2, <1>3 DEF JobCount, store
  <2> QED
    BY <1>2, <2>1, MoveInv DEF JobPCs
<1>4. CASE JobIndex(j)
  <2>1. Move(j, "sync") /\ jobs[j].pc = "index" /\ active_flushes' = active_flushes
        /\ UNCHANGED <<log, completed, mem, table, synced, cache, future, client, hist>>
    BY <1>4 DEF JobIndex
  <2>2. jobs[j].batch \in 0 .. Len(table)
    BY <1>1, <2>1 DEF JobOK, TypeOK
  <2>3. disk_index' \in [Keys -> 0 .. Len(table)]
    <3>1. disk_index' = [k \in Keys |-> IF jobs[j].recs[k] = None THEN disk_index[k]
                           ELSE IF log[jobs[j].recs[k]].del THEN 0 ELSE jobs[j].batch]
      BY <1>4 DEF JobIndex
    <3>2. 0 \in 0 .. Len(table)
      BY <2>2
    <3> QED
      BY <1>2, <2>2, <3>1, <3>2
  <2> QED
    BY <1>2, <2>1, <2>3, MoveInv DEF JobPCs
<1>5. CASE JobUncount(j)
  <2>1. PICK pc \in {"done", "failed"} : Move(j, pc)
    BY <1>5 DEF JobUncount
  <2>2. active_flushes' \in Int /\ disk_index' = disk_index
        /\ UNCHANGED <<log, completed, mem, table, synced, cache, future, client, hist>>
    BY <1>2, <1>5 DEF JobUncount, store
  <2> QED
    BY <1>2, <2>1, <2>2, MoveInv DEF JobPCs
<1> QED
  BY <1>3, <1>4, <1>5

\* The start of a flush job.
LEMMA JobStartInv == ASSUME IInv, NEW j \in DOMAIN jobs, JobStart(j) PROVE IInv'
<1>1. /\ TypeOK /\ jobs \in Seq(JobType) /\ JobOK(jobs[j]) /\ Covers(immutable, immutable_tx)
      /\ immutable \in Memtables /\ immutable_tx \subseteq Tx
  BY DEF IInv, TypeOK, JobType
<1>2. jobs[j] \in JobType
  BY <1>1
<1>3. UNCHANGED <<log, completed, mem, store, cache, future, active_flushes, client, hist>>
  BY DEF JobStart
<1>4. CASE Move(j, "uncount")
  <2>1. active_flushes' = active_flushes /\ disk_index' = disk_index
        /\ UNCHANGED <<log, completed, mem, table, synced, cache, future, client, hist>>
    BY <1>3 DEF store
  <2> QED
    BY <1>1, <1>4, <2>1, MoveInv DEF JobPCs, TypeOK
<1>5. CASE jobs' = [jobs EXCEPT ![j] = [@ EXCEPT !.pc = "count", !.recs = immutable,
                                                 !.txs = immutable_tx]]
  <2> DEFINE r == [jobs[j] EXCEPT !.pc = "count", !.recs = immutable, !.txs = immutable_tx]
  <2>1. /\ r \in JobType /\ r.pc = "count" /\ r.recs = immutable /\ r.txs = immutable_tx
        /\ jobs' = [jobs EXCEPT ![j] = r]
    BY <1>1, <1>2, <1>5 DEF JobType, JobPCs
  <2> HIDE DEF r
  <2>2. /\ jobs' \in Seq(JobType) /\ DOMAIN jobs' = DOMAIN jobs /\ jobs'[j] = r
        /\ Len(jobs') = Len(jobs) /\ \A i \in DOMAIN jobs : i # j => jobs'[i] = jobs[i]
    BY <1>1, <2>1, JobsExcept
  <2>3. TypeOK'
    BY <1>1, <1>3, <2>2 DEF TypeOK, JobType, mem, store, hist
  <2>4. log' = log /\ stamp' = stamp /\ immutable' = immutable /\ immutable_tx' = immutable_tx
    BY <1>3 DEF hist, mem
  <2>5. JobOK(jobs[j])' /\ Covers(immutable, immutable_tx)'
    BY <1>1, <2>1, <2>2, <2>4 DEF JobOK, Covers, CoversIn
  <2>6. UNCHANGED <<log, client, stamp, clock, active, active_tx>>
    BY <1>3 DEF mem, hist
  <2>7. /\ Len(table) <= Len(table') /\ \A b \in DOMAIN table : table'[b] = table[b]
        /\ synced <= synced' /\ completed' = completed
    BY <1>1, <1>3 DEF TypeOK, store
  <2>8. synced' \in Nat
    BY <2>3 DEF TypeOK
  <2>9. MarkedLogged' /\ MarkedIsDurable'
    BY <1>3, <2>7, <2>8, MarkedStays
  <2> QED
    BY <2>2, <2>3, <2>5, <2>6, <2>7, <2>9, JobStepInv
<1> QED
  BY <1>4, <1>5 DEF JobStart

\* Writing the pages, all of them or up to a record that does not fit.
LEMMA JobWriteInv == ASSUME IInv, NEW j \in DOMAIN jobs, JobWrite(j) PROVE IInv'
<1>1. /\ TypeOK /\ jobs \in Seq(JobType) /\ table \in Seq(Memtables)
      /\ Covers(immutable, immutable_tx)
  BY DEF IInv, TypeOK, JobType
<1>2. jobs[j] \in JobType /\ jobs[j].recs \in Memtables /\ JobOK(jobs[j])
  <2>1. jobs[j] \in JobType /\ JobOK(jobs[j])
    BY <1>1 DEF IInv
  <2> QED
    BY <2>1 DEF JobType
<1>3. jobs[j].pc = "write"
      /\ UNCHANGED <<log, completed, mem, synced, disk_index, cache, future,
                     active_flushes, client, hist>>
  BY DEF JobWrite
<1>4. \E m \in Memtables, r \in JobType :
         /\ table' = Append(table, m) /\ jobs' = [jobs EXCEPT ![j] = r]
         /\ r.recs = jobs[j].recs /\ r.txs = jobs[j].txs
         /\ \/ r.pc = "uncount_failed"
            \/ r.pc = "index" /\ r.batch = Len(table) + 1 /\ m = jobs[j].recs
  <2>1. CASE /\ table' = Append(table, jobs[j].recs)
             /\ jobs' = [jobs EXCEPT ![j] = [@ EXCEPT !.pc = "index", !.batch = Len(table) + 1]]
    <3> DEFINE r == [jobs[j] EXCEPT !.pc = "index", !.batch = Len(table) + 1]
    <3>1. /\ r \in JobType /\ r.pc = "index" /\ r.batch = Len(table) + 1
          /\ r.recs = jobs[j].recs /\ r.txs = jobs[j].txs
      <4>1. Len(table) + 1 \in Nat
        BY <1>1
      <4> QED
        BY <1>2, <4>1 DEF JobType, JobPCs
    <3>2. jobs' = [jobs EXCEPT ![j] = r]
      BY <2>1
    <3> HIDE DEF r
    <3> QED
      BY <1>2, <2>1, <3>1, <3>2
  <2>2. ASSUME NEW S \in SUBSET Keys, Move(j, "uncount_failed"),
               table' = Append(table, [k \in Keys |-> IF k \in S THEN jobs[j].recs[k] ELSE None])
        PROVE  \E m \in Memtables, r \in JobType :
                  /\ table' = Append(table, m) /\ jobs' = [jobs EXCEPT ![j] = r]
                  /\ r.recs = jobs[j].recs /\ r.txs = jobs[j].txs
                  /\ r.pc = "uncount_failed"
    <3> DEFINE r == [jobs[j] EXCEPT !.pc = "uncount_failed"]
               m == [k \in Keys |-> IF k \in S THEN jobs[j].recs[k] ELSE None]
    <3>1. /\ r \in JobType /\ r.pc = "uncount_failed"
          /\ r.recs = jobs[j].recs /\ r.txs = jobs[j].txs
      BY <1>2 DEF JobType, JobPCs
    <3>2. jobs' = [jobs EXCEPT ![j] = r]
      BY <2>2 DEF Move
    <3>3. m \in Memtables /\ table' = Append(table, m)
      BY <1>2, <2>2 DEF Memtables
    <3> HIDE DEF r, m
    <3> QED
      BY <3>1, <3>2, <3>3
  <2> QED
    BY <2>1, <2>2 DEF JobWrite
<1>5. PICK m \in Memtables, r \in JobType :
         /\ table' = Append(table, m) /\ jobs' = [jobs EXCEPT ![j] = r]
         /\ r.recs = jobs[j].recs /\ r.txs = jobs[j].txs
         /\ \/ r.pc = "uncount_failed"
            \/ r.pc = "index" /\ r.batch = Len(table) + 1 /\ m = jobs[j].recs
  BY <1>4
<1>6. /\ jobs' \in Seq(JobType) /\ DOMAIN jobs' = DOMAIN jobs /\ jobs'[j] = r
      /\ Len(jobs') = Len(jobs) /\ \A i \in DOMAIN jobs : i # j => jobs'[i] = jobs[i]
  BY <1>1, <1>5, JobsExcept
<1>7. /\ table' \in Seq(Memtables) /\ Len(table') = Len(table) + 1
      /\ Len(table) <= Len(table') /\ table'[Len(table) + 1] = m
      /\ \A b \in DOMAIN table : table'[b] = table[b]
      /\ Len(table) \in Nat
  BY <1>1, <1>5, AppendBatch
<1>8. synced' = synced /\ synced \in 0 .. Len(table) /\ synced' \in 0 .. Len(table')
      /\ synced' \in Nat /\ synced <= synced'
  BY <1>1, <1>3, <1>7 DEF TypeOK
<1>9. disk_index' \in [Keys -> 0 .. Len(table')]
  BY <1>1, <1>3, <1>7 DEF TypeOK
<1>10. TypeOK'
  BY <1>1, <1>3, <1>6, <1>7, <1>8, <1>9 DEF TypeOK, JobType, mem, hist
<1>11. /\ log' = log /\ stamp' = stamp /\ immutable' = immutable
       /\ immutable_tx' = immutable_tx
  BY <1>3 DEF hist, mem
<1>12. Covers(immutable, immutable_tx)'
  BY <1>1, <1>11 DEF Covers, CoversIn
<1>13. JobOK(jobs[j])'
  <2>1. Covers(jobs[j].recs, jobs[j].txs)
    BY <1>2, <1>3 DEF JobOK
  <2>2. CoversIn(r.recs, r.txs, log', stamp')
    BY <1>5, <1>11, <2>1 DEF Covers
  <2>3. r.pc = "index" => r.batch \in 1 .. Len(table') /\ table'[r.batch] = r.recs
    BY <1>5, <1>7
  <2> QED
    BY <1>5, <1>6, <2>2, <2>3 DEF JobOK, Covers
<1>14. MarkedLogged' /\ MarkedIsDurable'
  BY <1>3, <1>7, <1>8, MarkedStays
<1>15. UNCHANGED <<log, client, stamp, clock, active, active_tx>>
  BY <1>3 DEF mem, hist
<1> QED
  BY <1>6, <1>7, <1>8, <1>10, <1>12, <1>13, <1>14, <1>15, JobStepInv

\* Syncing the table file.
LEMMA JobSyncInv == ASSUME IInv, NEW j \in DOMAIN jobs, JobSync(j) PROVE IInv'
<1>1. /\ TypeOK /\ jobs \in Seq(JobType) /\ JobOK(jobs[j])
      /\ Covers(immutable, immutable_tx)
      /\ Len(table) \in Nat /\ synced \in 0 .. Len(table)
  BY DEF IInv, TypeOK, JobType
<1>2. jobs[j] \in JobType
  BY <1>1
<1>3. /\ jobs[j].pc = "sync" /\ synced' = Len(table) /\ Move(j, "mark")
      /\ UNCHANGED <<log, completed, mem, table, disk_index, cache, future,
                     active_flushes, client, hist>>
  BY DEF JobSync
<1> DEFINE r == [jobs[j] EXCEPT !.pc = "mark"]
<1>4. /\ r \in JobType /\ r.pc = "mark" /\ r.recs = jobs[j].recs /\ r.txs = jobs[j].txs
      /\ r.batch = jobs[j].batch
  BY <1>2 DEF JobType, JobPCs
<1>5. jobs' = [jobs EXCEPT ![j] = r]
  BY <1>3 DEF Move
<1> HIDE DEF r
<1>6. /\ jobs' \in Seq(JobType) /\ DOMAIN jobs' = DOMAIN jobs /\ jobs'[j] = r
      /\ Len(jobs') = Len(jobs) /\ \A i \in DOMAIN jobs : i # j => jobs'[i] = jobs[i]
  BY <1>1, <1>4, <1>5, JobsExcept
<1>7. /\ table' = table /\ synced' \in 0 .. Len(table') /\ synced' \in Nat
      /\ Len(table) <= Len(table') /\ \A b \in DOMAIN table : table'[b] = table[b]
      /\ synced <= synced'
  BY <1>1, <1>3
<1>8. TypeOK'
  BY <1>1, <1>3, <1>6, <1>7 DEF TypeOK, JobType, mem, hist
<1>9. log' = log /\ stamp' = stamp /\ immutable' = immutable /\ immutable_tx' = immutable_tx
  BY <1>3 DEF hist, mem
<1>10. Covers(immutable, immutable_tx)'
  BY <1>1, <1>9 DEF Covers, CoversIn
<1>11. JobOK(jobs[j])'
  <2>1. r.batch <= synced' /\ r.batch \in 1 .. Len(table') /\ table'[r.batch] = r.recs
    BY <1>1, <1>3, <1>4, <1>7 DEF JobOK
  <2>2. CoversIn(r.recs, r.txs, log', stamp')
    BY <1>1, <1>3, <1>4, <1>9 DEF JobOK, Covers
  <2> QED
    BY <1>6, <2>1, <2>2 DEF JobOK, Covers
<1>12. MarkedLogged' /\ MarkedIsDurable'
  BY <1>3, <1>7, MarkedStays
<1>13. UNCHANGED <<log, client, stamp, clock, active, active_tx>>
  BY <1>3 DEF mem, hist
<1> QED
  BY <1>6, <1>7, <1>8, <1>10, <1>11, <1>12, <1>13, JobStepInv

\* Marking: the batch of the job is synced and covers its transactions.
LEMMA JobMarkInv == ASSUME IInv, NEW j \in DOMAIN jobs, JobMark(j) PROVE IInv'
<1>1. /\ TypeOK /\ jobs \in Seq(JobType) /\ JobOK(jobs[j])
      /\ MarkedLogged /\ MarkedIsDurable /\ Covers(immutable, immutable_tx)
      /\ Len(table) \in Nat /\ synced \in 0 .. Len(table)
  BY DEF IInv, TypeOK, JobType
<1>2. jobs[j] \in JobType
  BY <1>1
<1>3. /\ jobs[j].pc = "mark" /\ completed' = completed \cup jobs[j].txs
      /\ Move(j, "release") /\ log' = log /\ stamp' = stamp /\ table' = table
      /\ synced' = synced /\ immutable' = immutable /\ immutable_tx' = immutable_tx
      /\ UNCHANGED <<log, mem, store, cache, future, active_flushes, client>>
      /\ UNCHANGED <<log, client, stamp, clock, active, active_tx>>
      /\ forgotten' \subseteq forgotten \cup jobs[j].txs /\ latest' = latest
  BY DEF JobMark, mem, store
<1> DEFINE r == [jobs[j] EXCEPT !.pc = "release"]
<1>4. /\ r \in JobType /\ r.pc = "release" /\ jobs[j].txs \subseteq Tx
      /\ jobs[j].batch \in Nat
  BY <1>2 DEF JobType, JobPCs
<1>5. jobs' = [jobs EXCEPT ![j] = r]
  BY <1>3 DEF Move
<1> HIDE DEF r
<1>6. /\ jobs' \in Seq(JobType) /\ DOMAIN jobs' = DOMAIN jobs /\ jobs'[j] = r
      /\ Len(jobs') = Len(jobs) /\ \A i \in DOMAIN jobs : i # j => jobs'[i] = jobs[i]
  BY <1>1, <1>4, <1>5, JobsExcept
<1>7. TypeOK'
  <2>1. completed' \subseteq Tx /\ forgotten' \subseteq completed'
    BY <1>1, <1>3, <1>4 DEF TypeOK
  <2> QED
    BY <1>1, <1>3, <1>6, <2>1 DEF TypeOK, JobType, mem, store
<1>8. Covers(immutable, immutable_tx)' /\ JobOK(jobs[j])'
  BY <1>1, <1>3, <1>4, <1>6 DEF Covers, CoversIn, JobOK
<1>9. ASSUME NEW t \in jobs[j].txs
      PROVE  /\ t \in 1 .. Len(log) /\ stamp[t] > 0
             /\ LET u == table[jobs[j].batch][log[t].key]
                IN  u # None /\ stamp[u] >= stamp[t]
  BY <1>1, <1>3, <1>9 DEF JobOK, Covers, CoversIn
<1>10. jobs[j].batch \in 1 .. synced
  BY <1>1, <1>3, <1>4 DEF JobOK
<1>11. MarkedLogged'
  BY <1>1, <1>3, <1>9 DEF MarkedLogged
<1>12. MarkedIsDurable'
  BY <1>1, <1>3, <1>9, <1>10 DEF MarkedIsDurable
<1>13. /\ Len(table) <= Len(table') /\ \A b \in DOMAIN table : table'[b] = table[b]
       /\ synced <= synced'
  BY <1>1, <1>3
<1> QED
  BY <1>3, <1>6, <1>7, <1>8, <1>11, <1>12, <1>13, JobStepInv

\* Dropping the immutable memtable.
LEMMA JobReleaseInv == ASSUME IInv, NEW j \in DOMAIN jobs, JobRelease(j) PROVE IInv'
<1>1. /\ TypeOK /\ jobs \in Seq(JobType) /\ Len(table) \in Nat /\ synced \in Nat
  BY DEF IInv, TypeOK, JobType
<1>2. jobs[j] \in JobType
  BY <1>1
<1>3. /\ immutable' = Empty /\ immutable_tx' = {} /\ Move(j, "uncount")
      /\ table' = table /\ synced' = synced
      /\ UNCHANGED <<log, completed, active, active_tx, store, cache, future,
                     active_flushes, client, hist>>
  BY DEF JobRelease, store
<1> DEFINE r == [jobs[j] EXCEPT !.pc = "uncount"]
<1>4. r \in JobType /\ r.pc = "uncount"
  BY <1>2 DEF JobType, JobPCs
<1>5. jobs' = [jobs EXCEPT ![j] = r]
  BY <1>3 DEF Move
<1> HIDE DEF r
<1>6. /\ jobs' \in Seq(JobType) /\ DOMAIN jobs' = DOMAIN jobs /\ jobs'[j] = r
      /\ Len(jobs') = Len(jobs) /\ \A i \in DOMAIN jobs : i # j => jobs'[i] = jobs[i]
  BY <1>1, <1>4, <1>5, JobsExcept
<1>7. TypeOK'
  BY <1>1, <1>3, <1>6, EmptyType DEF TypeOK, JobType, store, hist
<1>8. Covers(immutable, immutable_tx)' /\ JobOK(jobs[j])'
  BY <1>3, <1>4, <1>6 DEF Covers, CoversIn, JobOK
<1>9. /\ Len(table) <= Len(table') /\ \A b \in DOMAIN table : table'[b] = table[b]
      /\ synced <= synced' /\ synced' \in Nat
  BY <1>1, <1>3
<1>10. MarkedLogged' /\ MarkedIsDurable'
  BY <1>3, <1>9, MarkedStays
<1>11. UNCHANGED <<log, client, stamp, clock, active, active_tx>>
  BY <1>3 DEF hist
<1> QED
  BY <1>6, <1>7, <1>8, <1>9, <1>10, <1>11, JobStepInv

----------------------------------------------------------------------------
\* The initial state: nothing logged, stored or submitted.
LEMMA InitInv == Init => IInv
<1> SUFFICES ASSUME Init PROVE IInv
  OBVIOUS
<1>1. /\ log = <<>> /\ Len(log) = 0 /\ log \in Seq(Entries)
      /\ table = <<>> /\ Len(table) = 0 /\ table \in Seq(Memtables)
      /\ jobs = <<>> /\ Len(jobs) = 0 /\ jobs \in Seq(JobType) /\ DOMAIN jobs = {}
  BY DEF Init
<1>2. client \in [Clients -> ClientType] /\ \A c \in Clients : client[c].txs = {}
  BY DEF Init, Idle, ClientType, ClientPCs
<1>3. stamp \in [Tx -> Nat] /\ \A t \in Tx : stamp[t] = 0
  BY DEF Init
<1>4. TypeOK
  BY <1>1, <1>2, <1>3, EmptyType, RouterAssumption DEF Init, TypeOK, ClientType, JobType
<1>5. StampsOK
  BY <1>1, <1>2, <1>3 DEF Init, StampsOK
<1> QED
  BY <1>1, <1>4, <1>5 DEF Init, IInv, MarkedLogged, MarkedIsDurable, Covers, CoversIn

\* IInv is kept by every step.
LEMMA NextInv == IInv /\ [Next]_vars => IInv'
<1> SUFFICES ASSUME IInv, [Next]_vars PROVE IInv'
  OBVIOUS
<1>1. CASE UNCHANGED vars
  <2>1. UNCHANGED <<completed, mem, store, sched>> /\ UNCHANGED <<log, cache, client, hist>>
    BY <1>1 DEF vars
  <2>2. TypeOK /\ StampsOK
    BY DEF IInv
  <2>3. TypeOK'
    BY <2>1, <2>2 DEF TypeOK, mem, store, sched, hist
  <2>4. StampsOK' /\ HistoryStays
    BY <2>1, <2>2 DEF StampsOK, HistoryStays, hist, TypeOK
  <2> QED
    BY <2>1, <2>3, <2>4, FrameInv
<1>2. ASSUME NEW c \in Clients, Client(c) PROVE IInv'
  BY <1>2, SetInv, SetManyLogInv, SetManyInsertInv, WaitInv, SwapInv DEF Client
<1>3. ASSUME NEW k \in Keys, Reader(k) PROVE IInv'
  BY <1>3, ReaderInv
<1>4. ASSUME NEW j \in DOMAIN jobs, Job(j) PROVE IInv'
  BY <1>4, JobStartInv, JobWriteInv, JobSyncInv, JobMarkInv, JobReleaseInv, SimpleJobInv
     DEF Job
<1> QED
  BY <1>1, <1>2, <1>3, <1>4 DEF Next

\* IInv is an invariant of the router.
THEOREM Inductive == Spec => []IInv
  BY InitInv, NextInv, PTL DEF Spec

\* The variables of the router keep their types, with any number of clients.
THEOREM TypeCorrect == Spec => []TypeOK
<1>1. IInv => TypeOK
  BY DEF IInv
<1> QED
  BY Inductive, <1>1, PTL

\* mark_many_jobs_complete is called after the fsync of the table file with
\* transactions the batch written covers, so a transaction marked complete is
\* durable, also when flushes of two clients overlap or fail.
THEOREM MarkedDurable == Spec => []MarkedIsDurable
<1>1. IInv => MarkedIsDurable
  BY DEF IInv
<1> QED
  BY Inductive, <1>1, PTL

----------------------------------------------------------------------------
(* One client, and records that fit a page. *)

\* At most one client, and no record that exceeds a page: what Router_single checks.
Single ==
    /\ \A c, d \in Clients : c = d
    /\ TRUE \notin Oversize

\* The last job submitted, and where it is; before the first, nothing is to be done.
LastJob == jobs[Len(jobs)]
Stage == IF jobs = <<>> THEN "done" ELSE LastJob.pc

Wrote   == {"index", "sync", "mark", "release"}
Took    == {"count", "write"} \cup Wrote
Counts  == {"write", "uncount"} \cup Wrote

\* The client waits for the last job before it submits the next.
OneJob ==
    /\ future = Len(jobs)
    /\ \A j \in DOMAIN jobs : j # Len(jobs) => jobs[j].pc = "done"
    /\ Stage \in {"queued", "uncount", "done"} \cup Took
    /\ \A c \in Clients :
          /\ client[c].pc = "swap" => Stage = "done"
          /\ client[c].pc = "waiting" => Len(jobs) > 0 /\ client[c].wait = Len(jobs)

\* What the last job has done at each stage.
StageOK ==
    /\ Stage \in {"uncount", "done"} => immutable = Empty
    /\ Stage = "queued" => immutable # Empty
    /\ Stage \in Took => LastJob.recs = immutable
    /\ Stage \in Wrote =>
          LastJob.batch = Len(table) /\ Len(table) > 0 /\ table[Len(table)] = immutable
    /\ synced = IF Stage \in {"index", "sync"} THEN Len(table) - 1 ELSE Len(table)
    /\ active_flushes = IF Stage \in Counts THEN 1 ELSE 0

\* Transactions logged by a set_many and not inserted yet, and the others.
Pending == UNION {client[c].txs : c \in Clients}
Inserted == 1 .. Len(log) \ Pending

Down(S) == \A t \in S : \A u \in 1 .. t : u \in S

PendingOK ==
    /\ Pending \subseteq 1 .. Len(log) /\ Down(Inserted)
    /\ \A c \in Clients : client[c].pc # "logged" => client[c].txs = {}
    /\ \A t, u \in Pending : log[t].key = log[u].key => t = u

\* Where the latest transaction of a key is found.
MemoryOK ==
    \A k \in Keys :
        /\ latest[k] \in 0 .. Len(log) /\ immutable[k] \in 0 .. Len(log)
        /\ active[k] # None => active[k] = latest[k]
        /\ active[k] = None /\ immutable[k] # None => immutable[k] = latest[k]
        /\ active[k] = None /\ immutable[k] = None => Scan(k, synced) = latest[k]

\* The index agrees with a scan of the batches it was told of.
Indexed == IF Stage = "index" THEN synced ELSE Len(table)
IndexOK ==
    /\ \A b \in DOMAIN table : \A k \in Keys : table[b][k] \in 0 .. Len(log)
    /\ \A k \in Keys : Value(Scan(k, Indexed)) = Value(OnDisk(k))

\* What reads depend on.
ReadInv == OneJob /\ StageOK /\ PendingOK /\ MemoryOK /\ IndexOK /\ CacheCoherent

\* The transactions a job has taken are those of the immutable memtable.
TxStage ==
    /\ Stage \in {"uncount", "done"} => immutable_tx = {}
    /\ Stage \in Took => LastJob.txs = immutable_tx

\* Transactions go through the active memtable, the immutable one and the marks in
\* the order of their ids.
InOrder ==
    /\ completed \cup immutable_tx \cup active_tx = Inserted
    /\ Down(completed) /\ Down(completed \cup immutable_tx)
    /\ (completed \cup immutable_tx) \cap active_tx = {}
    /\ Stage # "release" => completed \cap immutable_tx = {}
    /\ Stage = "release" => immutable_tx \subseteq completed

\* A memtable has, for each of its transactions, that one or a later one of the
\* key; the synced part of the table file has it for those marked complete.
Placed ==
    /\ \A k \in Keys :
          /\ active[k] # None => active[k] \in active_tx /\ log[active[k]].key = k
          /\ immutable[k] # None => immutable[k] \in immutable_tx /\ log[immutable[k]].key = k
          /\ \A b \in DOMAIN table : table[b][k] # None => log[table[b][k]].key = k
    /\ \A t \in active_tx : t <= active[log[t].key]
    /\ \A t \in immutable_tx : t <= immutable[log[t].key]
    /\ \A t \in completed : t <= Scan(log[t].key, synced)

\* What recovery depends on.
OrderInv == TxStage /\ InOrder /\ Placed

\* latest is the last one for each key among the transactions in S.
LatestIn(S) ==
    /\ \A t \in S : t <= latest[log[t].key]
    /\ \A k \in Keys : latest[k] # None => latest[k] \in S /\ log[latest[k]].key = k

\* The same for all that is inserted, but for what a crash has taken.
LatestBut(G) == G \subseteq Inserted /\ LatestIn(Inserted \ G)

SInv == ReadInv /\ OrderInv /\ LatestBut({})

\* What every step does to them.
Carries ==
    /\ ReadInv'
    /\ OrderInv => OrderInv'
    /\ \A G : LatestBut(G) => LatestBut(G)'

----------------------------------------------------------------------------
(* What a scan finds. *)

\* The batches of tb up to n that have key k.
Having(tb, k, n) == {b \in 1 .. n : tb[b][k] # None}
LastEntry(tb, k, B) == IF B = {} THEN None ELSE tb[CHOOSE b \in B : \A a \in B : a <= b][k]
ScanOf(tb, k, n) == LastEntry(tb, k, Having(tb, k, n))

\* Scan is ScanOf the table.
LEMMA ScanIsScanOf == ASSUME NEW k, NEW n PROVE Scan(k, n) = ScanOf(table, k, n)
BY DEF Scan, ScanOf, LastEntry, Having

\* One more batch: its entry, or what the batches before it have.
LEMMA ScanNext ==
    ASSUME NEW tb, NEW k, NEW n \in Nat
    PROVE  ScanOf(tb, k, n + 1) =
               IF tb[n + 1][k] # None THEN tb[n + 1][k] ELSE ScanOf(tb, k, n)
<1>1. CASE tb[n + 1][k] = None
  <2>1. Having(tb, k, n + 1) = Having(tb, k, n)
    <3>1. 1 .. n + 1 = (1 .. n) \cup {n + 1}
      OBVIOUS
    <3> QED
      BY <1>1, <3>1 DEF Having
  <2> QED
    BY <1>1, <2>1 DEF ScanOf
<1>2. CASE tb[n + 1][k] # None
  <2> DEFINE B == Having(tb, k, n + 1)
  <2>1. n + 1 \in B /\ \A a \in B : a \in Int /\ a <= n + 1
    BY <1>2 DEF Having
  <2> HIDE DEF B
  <2>2. \A b \in B : (\A a \in B : a <= b) => b = n + 1
    BY <2>1
  <2>3. (CHOOSE b \in B : \A a \in B : a <= b) = n + 1
    BY <2>1, <2>2
  <2> QED
    BY <1>2, <2>1, <2>3 DEF ScanOf, LastEntry, B
<1> QED
  BY <1>1, <1>2

\* A scan depends on the batches it looks at only.
LEMMA ScanSame ==
    ASSUME NEW tb, NEW tc, NEW k, NEW n \in Nat, \A b \in 1 .. n : tb[b] = tc[b]
    PROVE  ScanOf(tb, k, n) = ScanOf(tc, k, n)
<1>1. Having(tb, k, n) = Having(tc, k, n)
  BY DEF Having
<1>2. CASE Having(tb, k, n) = {}
  BY <1>1, <1>2 DEF ScanOf, LastEntry
<1>3. CASE Having(tb, k, n) # {}
  <2> DEFINE B == Having(tb, k, n)
             g == CHOOSE b \in B : \A a \in B : a <= b
  <2>1. B \in SUBSET (0 .. n) /\ B \subseteq 1 .. n
    BY DEF Having
  <2>2. \E b \in B : \A a \in B : a <= b
    <3> HIDE DEF B
    <3> QED
      BY <1>3, <2>1, Greatest DEF B
  <2>3. g \in B
    <3> HIDE DEF B
    <3> QED
      BY <2>2
  <2>4. tb[g] = tc[g]
    BY <2>1, <2>3
  <2> QED
    BY <1>1, <1>3, <2>4 DEF ScanOf, LastEntry
<1> QED
  BY <1>2, <1>3

\* A scan finds None or an entry of one of the batches.
LEMMA ScanFinds ==
    ASSUME NEW tb, NEW k, NEW n \in Nat, NEW S, None \in S, \A b \in 1 .. n : tb[b][k] \in S
    PROVE  ScanOf(tb, k, n) \in S
<1> DEFINE B == Having(tb, k, n)
           g == CHOOSE b \in B : \A a \in B : a <= b
<1>1. CASE B = {}
  BY <1>1 DEF ScanOf, LastEntry
<1>2. CASE B # {}
  <2>1. B \in SUBSET (0 .. n) /\ B \subseteq 1 .. n
    BY DEF Having
  <2>2. \E b \in B : \A a \in B : a <= b
    <3> HIDE DEF B
    <3> QED
      BY <1>2, <2>1, Greatest DEF B
  <2>3. g \in B
    <3> HIDE DEF B
    <3> QED
      BY <2>2
  <2>4. ScanOf(tb, k, n) = tb[g][k]
    BY <1>2 DEF ScanOf, LastEntry
  <2> QED
    BY <2>1, <2>3, <2>4
<1> QED
  BY <1>1, <1>2

----------------------------------------------------------------------------
(* The steps of the flush jobs. *)

\* The only job that is not done is the last.
LEMMA OnlyLast ==
    ASSUME TypeOK, OneJob, NEW j \in DOMAIN jobs, jobs[j].pc # "done"
    PROVE  /\ jobs \in Seq(JobType) /\ jobs[j] \in JobType /\ j = Len(jobs)
           /\ jobs # <<>> /\ Len(jobs) > 0 /\ Stage = jobs[j].pc /\ LastJob = jobs[j]
<1>1. jobs \in Seq(JobType) /\ Len(jobs) \in Nat /\ DOMAIN jobs = 1 .. Len(jobs)
  BY DEF TypeOK, JobType
<1>2. j = Len(jobs) /\ jobs # <<>> /\ Len(jobs) > 0 /\ jobs[j] \in JobType
  BY <1>1 DEF OneJob
<1> QED
  BY <1>1, <1>2 DEF Stage, LastJob

\* What a step of the last job does to OneJob.
LEMMA LastJobMoves ==
    ASSUME TypeOK, OneJob, NEW j \in DOMAIN jobs, jobs[j].pc # "done",
           NEW r \in JobType, jobs' = [jobs EXCEPT ![j] = r],
           r.pc \in {"queued", "uncount", "done"} \cup Took, UNCHANGED <<future, client>>
    PROVE  /\ OneJob' /\ Stage = jobs[j].pc /\ LastJob = jobs[j]
           /\ Stage' = r.pc /\ LastJob' = r
<1>1. jobs \in Seq(JobType) /\ Len(jobs) \in Nat
  BY OnlyLast
<1>2. j = Len(jobs) /\ jobs # <<>> /\ Len(jobs) > 0 /\ Stage = jobs[j].pc /\ LastJob = jobs[j]
  BY OnlyLast
<1>3. /\ jobs' \in Seq(JobType) /\ Len(jobs') = Len(jobs) /\ DOMAIN jobs' = DOMAIN jobs
      /\ jobs'[j] = r /\ \A i \in DOMAIN jobs : i # j => jobs'[i] = jobs[i]
  BY <1>1, JobsExcept
<1>4. jobs' # <<>>
  BY <1>1, <1>2, <1>3
<1>5. Stage = jobs[j].pc /\ LastJob = jobs[j] /\ Stage' = r.pc /\ LastJob' = r
  BY <1>2, <1>3, <1>4 DEF Stage, LastJob
<1>6. OneJob'
  BY <1>2, <1>3, <1>5 DEF OneJob
<1> QED
  BY <1>5, <1>6

\* What no job changes keeps its meaning.
LEMMA JobFrame ==
    ASSUME PendingOK, CacheCoherent, UNCHANGED <<log, client, latest, cache>>
    PROVE  /\ Pending' = Pending /\ Inserted' = Inserted /\ PendingOK' /\ CacheCoherent'
           /\ \A G : LatestBut(G) => LatestBut(G)'
           /\ \A t : Value(t)' = Value(t)
<1>1. Pending' = Pending
  BY DEF Pending
<1>2. Inserted' = Inserted
  BY <1>1 DEF Inserted
<1>3. \A t : Value(t)' = Value(t)
  BY DEF Value, Deleted
<1>4. PendingOK'
  BY <1>1, <1>2 DEF PendingOK, Down
<1>5. \A G : LatestBut(G) => LatestBut(G)'
  BY <1>2 DEF LatestBut, LatestIn
<1>6. CacheCoherent'
  BY DEF CacheCoherent, Value, Deleted
<1> QED
  BY <1>1, <1>2, <1>3, <1>4, <1>5, <1>6

\* Steps of a job that leave memtables, marks and table file alone.
LEMMA QuietJob ==
    ASSUME TypeOK, ReadInv, UNCHANGED <<log, completed, mem, table, synced, cache, client, latest>>,
           OneJob', StageOK', TxStage => TxStage', Stage = "release" <=> Stage' = "release",
           \A k \in Keys : Value(Scan(k, Indexed))' = Value(OnDisk(k))'
    PROVE  Carries
<1>1. /\ active' = active /\ active_tx' = active_tx /\ immutable' = immutable
      /\ immutable_tx' = immutable_tx
  BY DEF mem
<1>2. /\ Pending' = Pending /\ Inserted' = Inserted /\ PendingOK' /\ CacheCoherent'
      /\ \A G : LatestBut(G) => LatestBut(G)'
  BY JobFrame DEF ReadInv
<1>3. \A k, n : Scan(k, n)' = Scan(k, n)
  BY DEF Scan
<1>4. ASSUME OrderInv PROVE OrderInv'
  <2>1. InOrder'
    BY <1>1, <1>2, <1>4 DEF OrderInv, InOrder, Down
  <2>2. Placed'
    BY <1>1, <1>3, <1>4 DEF OrderInv, Placed
  <2> QED
    BY <1>4, <2>1, <2>2 DEF OrderInv
<1>5. MemoryOK'
  BY <1>1, <1>3 DEF ReadInv, MemoryOK
<1>6. IndexOK'
  BY DEF ReadInv, IndexOK
<1> QED
  BY <1>2, <1>4, <1>5, <1>6 DEF ReadInv, Carries

\* The same, with the index as it was.
LEMMA QuietIndex ==
    ASSUME ReadInv, UNCHANGED <<log, store>>, Stage = "index" <=> Stage' = "index"
    PROVE  \A k \in Keys : Value(Scan(k, Indexed))' = Value(OnDisk(k))'
<1>1. UNCHANGED <<table, synced, disk_index>>
  BY DEF store
<1>2. /\ Indexed' = Indexed
      /\ \A k : OnDisk(k)' = OnDisk(k)
      /\ \A k, n : Scan(k, n)' = Scan(k, n)
  BY <1>1 DEF Indexed, OnDisk, Scan
<1>3. \A t : Value(t)' = Value(t)
  BY DEF Value, Deleted
<1> QED
  BY <1>2, <1>3 DEF ReadInv, IndexOK

\* Starting, counting and taking the count back.
LEMMA QuietJobStep ==
    ASSUME TypeOK, ReadInv, NEW j \in DOMAIN jobs, JobStart(j) \/ JobCount(j) \/ JobUncount(j)
    PROVE  Carries
<1>1. OneJob /\ StageOK /\ immutable \in Memtables /\ immutable_tx \in SUBSET Tx
  BY DEF TypeOK, ReadInv
<1>2. /\ UNCHANGED <<log, completed, mem, store, cache, client, latest, future>>
      /\ jobs[j].pc \in {"queued", "count", "uncount", "uncount_failed"}
  BY DEF JobStart, JobCount, JobUncount, hist
<1>3. /\ immutable' = immutable /\ immutable_tx' = immutable_tx
      /\ table' = table /\ synced' = synced
  BY <1>2 DEF mem, store
<1>4. /\ jobs[j] \in JobType /\ Stage = jobs[j].pc /\ LastJob = jobs[j]
      /\ Stage \in {"queued", "count", "uncount"}
  BY <1>1, <1>2, OnlyLast DEF OneJob, Took, Wrote
<1>5. CASE JobStart(j)
  <2> DEFINE r == [jobs[j] EXCEPT !.pc = "count", !.recs = immutable, !.txs = immutable_tx]
  <2>1. Stage = "queued" /\ immutable # Empty
    BY <1>1, <1>4, <1>5 DEF JobStart, StageOK
  <2>2. jobs' = [jobs EXCEPT ![j] = r] /\ active_flushes' = active_flushes
    BY <1>5, <2>1 DEF JobStart
  <2>3. r \in JobType /\ r.pc = "count" /\ r.recs = immutable /\ r.txs = immutable_tx
    BY <1>1, <1>4 DEF JobType, JobPCs
  <2> HIDE DEF r
  <2>4. OneJob' /\ Stage' = "count" /\ LastJob' = r
    BY <1>1, <1>2, <1>4, <2>1, <2>2, <2>3, LastJobMoves DEF Took
  <2>5. StageOK'
    BY <1>1, <1>3, <2>1, <2>2, <2>3, <2>4 DEF StageOK, Took, Wrote, Counts
  <2>6. TxStage => TxStage'
    BY <1>3, <2>1, <2>3, <2>4 DEF TxStage, Took, Wrote
  <2>7. \A k \in Keys : Value(Scan(k, Indexed))' = Value(OnDisk(k))'
    BY <1>2, <2>1, <2>4, QuietIndex
  <2> QED
    BY <1>2, <1>3, <2>1, <2>4, <2>5, <2>6, <2>7, QuietJob
<1>6. CASE JobCount(j)
  <2> DEFINE r == [jobs[j] EXCEPT !.pc = "write"]
  <2>1. Stage = "count" /\ active_flushes' = active_flushes + 1
    BY <1>4, <1>6 DEF JobCount
  <2>2. jobs' = [jobs EXCEPT ![j] = r]
    BY <1>6 DEF JobCount, Move
  <2>3. r \in JobType /\ r.pc = "write" /\ r.recs = jobs[j].recs /\ r.txs = jobs[j].txs
    BY <1>4 DEF JobType, JobPCs
  <2> HIDE DEF r
  <2>4. OneJob' /\ Stage' = "write" /\ LastJob' = r
    BY <1>1, <1>2, <1>4, <2>1, <2>2, <2>3, LastJobMoves DEF Took
  <2>5. StageOK'
    BY <1>1, <1>3, <1>4, <2>1, <2>3, <2>4 DEF StageOK, Took, Wrote, Counts
  <2>6. TxStage => TxStage'
    BY <1>3, <1>4, <2>1, <2>3, <2>4 DEF TxStage, Took, Wrote
  <2>7. \A k \in Keys : Value(Scan(k, Indexed))' = Value(OnDisk(k))'
    BY <1>2, <2>1, <2>4, QuietIndex
  <2> QED
    BY <1>2, <1>3, <2>1, <2>4, <2>5, <2>6, <2>7, QuietJob
<1>7. CASE JobUncount(j)
  <2> DEFINE r == [jobs[j] EXCEPT !.pc = "done"]
  <2>1. Stage = "uncount" /\ active_flushes' = active_flushes - 1
    BY <1>4, <1>7 DEF JobUncount
  <2>2. jobs' = [jobs EXCEPT ![j] = r]
    BY <1>4, <1>7, <2>1 DEF JobUncount, Move
  <2>3. r \in JobType /\ r.pc = "done"
    BY <1>4 DEF JobType, JobPCs
  <2> HIDE DEF r
  <2>4. OneJob' /\ Stage' = "done" /\ LastJob' = r
    BY <1>1, <1>2, <1>4, <2>1, <2>2, <2>3, LastJobMoves
  <2>5. StageOK'
    BY <1>1, <1>3, <2>1, <2>4 DEF StageOK, Took, Wrote, Counts
  <2>6. TxStage => TxStage'
    BY <1>3, <2>1, <2>4 DEF TxStage, Took, Wrote
  <2>7. \A k \in Keys : Value(Scan(k, Indexed))' = Value(OnDisk(k))'
    BY <1>2, <2>1, <2>4, QuietIndex
  <2> QED
    BY <1>2, <1>3, <2>1, <2>4, <2>5, <2>6, <2>7, QuietJob
<1> QED
  BY <1>5, <1>6, <1>7

\* No record is too large for a page.
LEMMA NotBig == ASSUME TypeOK, Single, NEW t \in 1 .. Len(log) PROVE ~log[t].big
<1>1. log[t] \in Entries
  BY LoggedEntry DEF TypeOK
<1> QED
  BY <1>1, RouterAssumption DEF Entries, Single

\* The immutable memtable holds logged transactions.
LEMMA ImmutableLogged ==
    ASSUME ReadInv, NEW k \in Keys, immutable[k] # None PROVE immutable[k] \in 1 .. Len(log)
BY DEF ReadInv, MemoryOK, None

\* Writing the pages.
LEMMA JobWriteStep ==
    ASSUME TypeOK, ReadInv, Single, NEW j \in DOMAIN jobs, JobWrite(j) PROVE Carries
<1>1. /\ OneJob /\ StageOK /\ immutable \in Memtables /\ jobs[j].pc = "write"
      /\ table \in Seq(Memtables) /\ Len(table) \in Nat
  BY DEF TypeOK, ReadInv, JobWrite
<1>2. /\ UNCHANGED <<log, completed, mem, synced, disk_index, cache, client, latest>>
      /\ active' = active /\ active_tx' = active_tx /\ immutable' = immutable
      /\ immutable_tx' = immutable_tx /\ UNCHANGED <<future, active_flushes>>
  BY DEF JobWrite, hist, mem
<1>3. jobs[j] \in JobType /\ Stage = "write" /\ LastJob = jobs[j] /\ jobs[j].recs = immutable
  BY <1>1, OnlyLast DEF StageOK, Took
<1>4. synced = Len(table)
  BY <1>1, <1>3 DEF StageOK
<1> DEFINE r == [jobs[j] EXCEPT !.pc = "index", !.batch = Len(table) + 1]
<1>5. table' = Append(table, immutable) /\ jobs' = [jobs EXCEPT ![j] = r]
  <2>1. \A k \in Keys : immutable[k] # None => ~log[immutable[k]].big
    BY ImmutableLogged, NotBig
  <2> QED
    BY <1>3, <2>1 DEF JobWrite
<1>6. /\ r \in JobType /\ r.pc = "index" /\ r.recs = jobs[j].recs /\ r.txs = jobs[j].txs
      /\ r.batch = Len(table) + 1
  <2>1. Len(table) + 1 \in Nat
    BY <1>1
  <2> QED
    BY <1>3, <2>1 DEF JobType, JobPCs
<1> HIDE DEF r
<1>7. OneJob' /\ Stage' = "index" /\ LastJob' = r
  BY <1>1, <1>2, <1>5, <1>6, LastJobMoves DEF Took, Wrote
<1>8. /\ table' \in Seq(Memtables) /\ Len(table') = Len(table) + 1
      /\ table'[Len(table) + 1] = immutable
      /\ \A b \in 1 .. Len(table) : table'[b] = table[b]
      /\ DOMAIN table' = DOMAIN table \cup {Len(table) + 1}
  <2>1. DOMAIN table' = 1 .. Len(table) + 1 /\ DOMAIN table = 1 .. Len(table)
    BY <1>1, <1>5
  <2> QED
    BY <1>1, <1>5, <2>1
<1>9. StageOK'
  BY <1>1, <1>2, <1>3, <1>4, <1>6, <1>7, <1>8 DEF StageOK, Took, Wrote, Counts
<1>10. /\ Pending' = Pending /\ Inserted' = Inserted /\ PendingOK' /\ CacheCoherent'
       /\ \A G : LatestBut(G) => LatestBut(G)'
       /\ \A t : Value(t)' = Value(t)
  BY <1>2, JobFrame DEF ReadInv
<1>12. \A k : Scan(k, synced)' = Scan(k, synced)
  <2>1. \A k : Scan(k, synced)' = ScanOf(table', k, synced')
    BY DEF Scan, ScanOf, LastEntry, Having
  <2>2. \A k : ScanOf(table', k, synced) = ScanOf(table, k, synced)
    BY <1>1, <1>4, <1>8, ScanSame
  <2> QED
    BY <1>2, <2>1, <2>2, ScanIsScanOf
<1>13. MemoryOK'
  BY <1>2, <1>12 DEF ReadInv, MemoryOK
<1>11. ASSUME OrderInv PROVE OrderInv'
  <2>1. TxStage'
    BY <1>2, <1>3, <1>6, <1>7, <1>11 DEF OrderInv, TxStage, Took, Wrote
  <2>2. InOrder'
    BY <1>2, <1>3, <1>7, <1>10, <1>11 DEF OrderInv, InOrder, Down
  <2>3. Placed'
    <3>1. ASSUME NEW k \in Keys, NEW b \in DOMAIN table', table'[b][k] # None
          PROVE  log[table'[b][k]].key = k
      BY <1>1, <1>8, <1>11, <3>1 DEF OrderInv, Placed
    <3> QED
      BY <1>2, <1>11, <1>12, <3>1 DEF OrderInv, Placed
  <2> QED
    BY <2>1, <2>2, <2>3 DEF OrderInv
<1>14. IndexOK'
  <2>1. ASSUME NEW b \in DOMAIN table', NEW k \in Keys PROVE table'[b][k] \in 0 .. Len(log')
    <3>1. CASE b = Len(table) + 1
      <4>1. immutable[k] \in 0 .. Len(log)
        <5>1. Len(log) \in Nat
          BY DEF TypeOK
        <5> QED
          BY <5>1, ImmutableLogged DEF None
      <4> QED
        BY <1>2, <1>8, <3>1, <4>1
    <3>2. CASE b \in DOMAIN table
      BY <1>1, <1>2, <1>8, <3>2 DEF ReadInv, IndexOK
    <3> QED
      BY <1>8, <3>1, <3>2
  <2>2. ASSUME NEW k \in Keys PROVE OnDisk(k)' = OnDisk(k)
    <3>1. disk_index[k] \in 0 .. Len(table)
      BY DEF TypeOK
    <3> QED
      BY <1>1, <1>2, <1>8, <3>1 DEF OnDisk
  <2>3. Indexed' = synced' /\ Indexed = synced
    BY <1>3, <1>4, <1>7 DEF Indexed
  <2>4. \A k \in Keys : Scan(k, Indexed)' = Scan(k, Indexed)
    <3>1. \A k : Scan(k, Indexed)' = Scan(k, synced)'
      BY <2>3 DEF Scan
    <3> QED
      BY <1>12, <2>3, <3>1
  <2> QED
    BY <1>10, <2>1, <2>2, <2>4 DEF ReadInv, IndexOK
<1> QED
  BY <1>7, <1>9, <1>10, <1>11, <1>13, <1>14 DEF ReadInv, Carries

\* A scan of the last batch as well.
LEMMA ScanLast ==
    ASSUME TypeOK, ReadInv, Stage \in Wrote, NEW k \in Keys
    PROVE  Scan(k, Len(table)) =
               IF immutable[k] # None THEN immutable[k] ELSE Scan(k, Len(table) - 1)
<1>1. Len(table) \in Nat /\ Len(table) > 0 /\ table[Len(table)] = immutable
  BY DEF TypeOK, ReadInv, StageOK
<1>2. PICK n \in Nat : Len(table) = n + 1
  <2>1. Len(table) - 1 \in Nat /\ Len(table) = (Len(table) - 1) + 1
    BY <1>1
  <2> QED
    BY <2>1
<1>3. ScanOf(table, k, n + 1) =
          IF table[n + 1][k] # None THEN table[n + 1][k] ELSE ScanOf(table, k, n)
  BY ScanNext
<1>4. Len(table) - 1 = n
  BY <1>2
<1> QED
  BY <1>1, <1>2, <1>3, <1>4, ScanIsScanOf

\* Updating the index.
LEMMA JobIndexStep ==
    ASSUME TypeOK, ReadInv, NEW j \in DOMAIN jobs, JobIndex(j) PROVE Carries
<1>1. /\ OneJob /\ StageOK /\ immutable \in Memtables /\ jobs[j].pc = "index"
      /\ table \in Seq(Memtables) /\ Len(table) \in Nat
  BY DEF TypeOK, ReadInv, JobIndex
<1>2. /\ UNCHANGED <<log, completed, mem, table, synced, cache, client, latest>>
      /\ active' = active /\ active_tx' = active_tx /\ immutable' = immutable
      /\ immutable_tx' = immutable_tx /\ UNCHANGED <<future, active_flushes>>
  BY DEF JobIndex, hist, mem
<1>3. /\ jobs[j] \in JobType /\ Stage = "index" /\ LastJob = jobs[j]
      /\ jobs[j].recs = immutable /\ jobs[j].batch = Len(table) /\ Len(table) > 0
      /\ table[Len(table)] = immutable
  BY <1>1, OnlyLast DEF StageOK, Took, Wrote
<1> DEFINE r == [jobs[j] EXCEPT !.pc = "sync"]
<1>4. /\ r \in JobType /\ r.pc = "sync" /\ r.recs = jobs[j].recs /\ r.txs = jobs[j].txs
      /\ r.batch = jobs[j].batch
  BY <1>3 DEF JobType, JobPCs
<1>5. jobs' = [jobs EXCEPT ![j] = r]
  BY DEF JobIndex, Move
<1> HIDE DEF r
<1>6. OneJob' /\ Stage' = "sync" /\ LastJob' = r
  BY <1>1, <1>2, <1>4, <1>5, LastJobMoves DEF Took, Wrote
<1>7. StageOK'
  BY <1>1, <1>2, <1>3, <1>4, <1>6 DEF StageOK, Took, Wrote, Counts
<1>8. TxStage => TxStage'
  BY <1>2, <1>3, <1>4, <1>6 DEF TxStage, Took, Wrote
<1>9. Indexed' = Len(table) /\ Indexed = Len(table) - 1
  BY <1>1, <1>2, <1>3, <1>6 DEF Indexed, StageOK
<1>10. ASSUME NEW k \in Keys
       PROVE  Value(Scan(k, Len(table))) = Value(IF disk_index'[k] = 0 THEN None
                                                 ELSE table[disk_index'[k]][k])
  <2>1. disk_index'[k] = IF immutable[k] = None THEN disk_index[k]
                         ELSE IF log[immutable[k]].del THEN 0 ELSE Len(table)
    BY <1>3 DEF JobIndex
  <2>2. Scan(k, Len(table)) =
            IF immutable[k] # None THEN immutable[k] ELSE Scan(k, Len(table) - 1)
    BY <1>3, ScanLast DEF Wrote
  <2>3. CASE immutable[k] = None
    <3>1. Value(Scan(k, Len(table) - 1)) = Value(OnDisk(k))
      BY <1>9 DEF ReadInv, IndexOK
    <3> QED
      BY <2>1, <2>2, <2>3, <3>1 DEF OnDisk
  <2>4. CASE immutable[k] # None /\ log[immutable[k]].del
    BY <2>1, <2>2, <2>4 DEF Value, Deleted
  <2>5. CASE immutable[k] # None /\ ~log[immutable[k]].del
    <3>1. disk_index'[k] = Len(table) /\ Len(table) # 0
      BY <1>3, <2>1, <2>5
    <3> QED
      BY <1>3, <2>2, <2>5, <3>1
  <2> QED
    BY <2>3, <2>4, <2>5
<1>11. \A k \in Keys : Value(Scan(k, Indexed))' = Value(OnDisk(k))'
  <2>1. \A k \in Keys : Value(Scan(k, Len(table)))' = Value(OnDisk(k))'
    BY ZenonT(60), <1>2, <1>10 DEF Value, Deleted, Scan, OnDisk
  <2> QED
    BY <1>2, <1>9, <2>1
<1> QED
  BY <1>2, <1>3, <1>6, <1>7, <1>8, <1>11, QuietJob

\* Syncing the table file.
LEMMA JobSyncStep == ASSUME TypeOK, ReadInv, NEW j \in DOMAIN jobs, JobSync(j) PROVE Carries
<1>1. /\ OneJob /\ StageOK /\ jobs[j].pc = "sync" /\ Len(table) \in Nat
      /\ synced' = Len(table) /\ Move(j, "mark")
  BY DEF TypeOK, ReadInv, JobSync
<1>2. /\ UNCHANGED <<log, completed, table, disk_index, cache, client, latest>>
      /\ active' = active /\ active_tx' = active_tx /\ immutable' = immutable
      /\ immutable_tx' = immutable_tx /\ UNCHANGED <<future, active_flushes>>
  BY DEF JobSync, hist, mem
<1>3. /\ jobs[j] \in JobType /\ Stage = "sync" /\ LastJob = jobs[j]
      /\ synced = Len(table) - 1
  BY <1>1, OnlyLast DEF StageOK
<1> DEFINE r == [jobs[j] EXCEPT !.pc = "mark"]
<1>4. /\ r \in JobType /\ r.pc = "mark" /\ r.recs = jobs[j].recs /\ r.txs = jobs[j].txs
      /\ r.batch = jobs[j].batch
  BY <1>3 DEF JobType, JobPCs
<1>5. jobs' = [jobs EXCEPT ![j] = r]
  BY <1>1 DEF Move
<1> HIDE DEF r
<1>6. OneJob' /\ Stage' = "mark" /\ LastJob' = r
  BY <1>1, <1>2, <1>3, <1>4, <1>5, LastJobMoves DEF Took, Wrote
<1>7. StageOK'
  BY <1>1, <1>2, <1>3, <1>4, <1>6 DEF StageOK, Took, Wrote, Counts
<1>8. /\ Pending' = Pending /\ Inserted' = Inserted /\ PendingOK' /\ CacheCoherent'
      /\ \A G : LatestBut(G) => LatestBut(G)'
      /\ \A t : Value(t)' = Value(t)
  BY <1>2, JobFrame DEF ReadInv
<1>9. \A k \in Keys : Scan(k, synced)' =
                    IF immutable[k] # None THEN immutable[k] ELSE Scan(k, synced)
  <2>1. \A k : Scan(k, synced)' = Scan(k, Len(table))
    BY <1>1, <1>2 DEF Scan
  <2> QED
    BY <1>3, <2>1, ScanLast DEF Wrote
<1>10. MemoryOK'
  BY <1>2, <1>9 DEF ReadInv, MemoryOK
<1>11. IndexOK'
  <2>1. Indexed' = Indexed
    BY <1>2, <1>3, <1>6 DEF Indexed
  <2>2. \A k, n : Scan(k, n)' = Scan(k, n)
    BY <1>2 DEF Scan
  <2>3. \A k : OnDisk(k)' = OnDisk(k)
    BY <1>2 DEF OnDisk
  <2> QED
    BY <1>2, <1>8, <2>1, <2>2, <2>3 DEF ReadInv, IndexOK
<1>12. ASSUME OrderInv PROVE OrderInv'
  <2>1. TxStage'
    BY <1>2, <1>3, <1>4, <1>6, <1>12 DEF OrderInv, TxStage, Took, Wrote
  <2>2. InOrder'
    BY <1>2, <1>3, <1>6, <1>8, <1>12 DEF OrderInv, InOrder, Down
  <2>3. ASSUME NEW t \in completed PROVE t <= Scan(log[t].key, synced)'
    <3>1. PICK k \in Keys : /\ k = log[t].key /\ t \in 1 .. Len(log)
                            /\ t <= Scan(k, synced)
      <4>1. t \in 1 .. Len(log)
        BY <1>12 DEF OrderInv, InOrder, Inserted
      <4> QED
        BY <1>12, <4>1, LoggedEntry DEF OrderInv, Placed, TypeOK
    <3>2. ASSUME immutable[k] = None PROVE t <= Scan(k, synced)'
      BY <1>9, <3>1, <3>2
    <3>3. ASSUME immutable[k] # None PROVE t <= Scan(k, synced)'
      <4>1. immutable[k] \in 1 .. Len(log) /\ immutable[k] \in immutable_tx
        BY <1>12, <3>1, <3>3, ImmutableLogged DEF OrderInv, Placed
      <4>2. immutable[k] \notin 1 .. t
        BY <1>3, <1>12, <4>1 DEF OrderInv, InOrder, Down
      <4> QED
        BY <1>9, <3>1, <3>3, <4>1, <4>2
    <3>4. log' = log /\ t <= Scan(k, synced)'
      BY <1>2, <3>2, <3>3
    <3> QED
      BY <3>1, <3>4 DEF Scan
  <2>4. Placed'
    BY <1>2, <1>12, <2>3 DEF OrderInv, Placed
  <2> QED
    BY <2>1, <2>2, <2>4 DEF OrderInv
<1> QED
  BY <1>6, <1>7, <1>8, <1>10, <1>11, <1>12 DEF ReadInv, Carries

\* Marking what the job took.
LEMMA JobMarkStep == ASSUME TypeOK, ReadInv, NEW j \in DOMAIN jobs, JobMark(j) PROVE Carries
<1>1. /\ OneJob /\ StageOK /\ jobs[j].pc = "mark"
      /\ completed' = completed \cup jobs[j].txs /\ Move(j, "release")
  BY DEF TypeOK, ReadInv, JobMark
<1>2. /\ UNCHANGED <<log, store, table, synced, disk_index, cache, client, latest>>
      /\ active' = active /\ active_tx' = active_tx /\ immutable' = immutable
      /\ immutable_tx' = immutable_tx /\ UNCHANGED <<future, active_flushes>>
  BY DEF JobMark, hist, mem, store
<1>3. jobs[j] \in JobType /\ Stage = "mark" /\ LastJob = jobs[j]
  BY <1>1, OnlyLast DEF StageOK, Took, Wrote
<1> DEFINE r == [jobs[j] EXCEPT !.pc = "release"]
<1>4. /\ r \in JobType /\ r.pc = "release" /\ r.recs = jobs[j].recs /\ r.txs = jobs[j].txs
      /\ r.batch = jobs[j].batch
  BY <1>3 DEF JobType, JobPCs
<1>5. jobs' = [jobs EXCEPT ![j] = r]
  BY <1>1 DEF Move
<1> HIDE DEF r
<1>6. OneJob' /\ Stage' = "release" /\ LastJob' = r
  BY <1>1, <1>2, <1>3, <1>4, <1>5, LastJobMoves DEF Took, Wrote
<1>7. StageOK'
  BY <1>1, <1>2, <1>3, <1>4, <1>6 DEF StageOK, Took, Wrote, Counts
<1>8. /\ Pending' = Pending /\ Inserted' = Inserted /\ PendingOK' /\ CacheCoherent'
      /\ \A G : LatestBut(G) => LatestBut(G)'
      /\ \A t : Value(t)' = Value(t)
  BY <1>2, JobFrame DEF ReadInv
<1>10. \A k, n : Scan(k, n)' = Scan(k, n)
  BY <1>2 DEF Scan
<1>11. MemoryOK'
  BY <1>2, <1>10 DEF ReadInv, MemoryOK
<1>12. IndexOK'
  <2>1. Indexed' = Indexed
    BY <1>2, <1>3, <1>6 DEF Indexed
  <2>2. \A k : OnDisk(k)' = OnDisk(k)
    BY <1>2 DEF OnDisk
  <2> QED
    BY <1>2, <1>8, <1>10, <2>1, <2>2 DEF ReadInv, IndexOK
<1>13. ASSUME OrderInv PROVE OrderInv'
  <2>1. completed' = completed \cup immutable_tx /\ synced = Len(table)
    BY <1>1, <1>3, <1>13 DEF OrderInv, TxStage, StageOK, Took, Wrote
  <2>2. TxStage'
    BY <1>2, <1>3, <1>4, <1>6, <1>13 DEF OrderInv, TxStage, Took, Wrote
  <2>3. InOrder'
    BY <1>2, <1>3, <1>6, <1>8, <1>13, <2>1 DEF OrderInv, InOrder, Down
  <2>4. ASSUME NEW t \in immutable_tx PROVE t <= Scan(log[t].key, synced)
    <3> DEFINE k == log[t].key
    <3>1. t \in 1 .. Len(log) /\ k \in Keys /\ t <= immutable[k]
      <4>1. t \in 1 .. Len(log)
        BY <1>13 DEF OrderInv, InOrder, Inserted
      <4> QED
        BY <1>13, <4>1, LoggedEntry DEF OrderInv, Placed, TypeOK
    <3>2. immutable[k] # None
      BY <3>1 DEF None
    <3> QED
      BY <1>3, <2>1, <3>1, <3>2, ScanLast DEF Wrote
  <2>5. Placed'
    BY <1>2, <1>10, <1>13, <2>1, <2>4 DEF OrderInv, Placed
  <2> QED
    BY <2>2, <2>3, <2>5 DEF OrderInv
<1> QED
  BY <1>6, <1>7, <1>8, <1>11, <1>12, <1>13 DEF ReadInv, Carries

\* Dropping the immutable memtable: the last batch has what it had.
LEMMA JobReleaseStep ==
    ASSUME TypeOK, ReadInv, NEW j \in DOMAIN jobs, JobRelease(j) PROVE Carries
<1>1. /\ OneJob /\ StageOK /\ jobs[j].pc = "release"
      /\ immutable' = Empty /\ immutable_tx' = {} /\ Move(j, "uncount")
  BY DEF TypeOK, ReadInv, JobRelease
<1>2. /\ UNCHANGED <<log, completed, table, synced, disk_index, cache, client, latest>>
      /\ active' = active /\ active_tx' = active_tx /\ UNCHANGED <<future, active_flushes>>
  BY DEF JobRelease, hist, store
<1>3. /\ jobs[j] \in JobType /\ Stage = "release" /\ LastJob = jobs[j]
      /\ synced = Len(table)
  BY <1>1, OnlyLast DEF StageOK
<1> DEFINE r == [jobs[j] EXCEPT !.pc = "uncount"]
<1>4. r \in JobType /\ r.pc = "uncount"
  BY <1>3 DEF JobType, JobPCs
<1>5. jobs' = [jobs EXCEPT ![j] = r]
  BY <1>1 DEF Move
<1> HIDE DEF r
<1>6. OneJob' /\ Stage' = "uncount" /\ LastJob' = r
  BY <1>1, <1>2, <1>3, <1>4, <1>5, LastJobMoves
<1>7. StageOK'
  BY <1>1, <1>2, <1>3, <1>6 DEF StageOK, Took, Wrote, Counts
<1>8. /\ Pending' = Pending /\ Inserted' = Inserted /\ PendingOK' /\ CacheCoherent'
      /\ \A G : LatestBut(G) => LatestBut(G)'
      /\ \A t : Value(t)' = Value(t)
  BY <1>2, JobFrame DEF ReadInv
<1>10. \A k, n : Scan(k, n)' = Scan(k, n)
  BY <1>2 DEF Scan
<1>11. MemoryOK'
  <2>1. ASSUME NEW k \in Keys, active[k] = None PROVE Scan(k, synced)' = latest[k]
    <3>1. Scan(k, synced)' = Scan(k, Len(table))
      BY <1>2, <1>3 DEF Scan
    <3>2. CASE immutable[k] # None
      BY <1>3, <2>1, <3>1, <3>2, ScanLast DEF Wrote, ReadInv, MemoryOK
    <3>3. CASE immutable[k] = None
      BY <1>3, <2>1, <3>1, <3>3 DEF ReadInv, MemoryOK
    <3> QED
      BY <3>2, <3>3
  <2>2. \A k \in Keys : immutable'[k] = None
    BY <1>1, EmptyType
  <2>3. \A k \in Keys :
            /\ active[k] # None => active[k] = latest[k]
            /\ latest[k] \in 0 .. Len(log) /\ None \in 0 .. Len(log)
    BY DEF ReadInv, MemoryOK, TypeOK, None
  <2>4. ASSUME NEW k \in Keys
        PROVE  /\ latest'[k] \in 0 .. Len(log') /\ immutable'[k] \in 0 .. Len(log')
               /\ active'[k] # None => active'[k] = latest'[k]
               /\ active'[k] = None => Scan(k, synced)' = latest'[k]
    BY <1>2, <2>1, <2>2, <2>3
  <2> QED
    BY <2>2, <2>4 DEF MemoryOK
<1>12. IndexOK'
  <2>1. Indexed' = Indexed
    BY <1>2, <1>3, <1>6 DEF Indexed
  <2>2. \A k : OnDisk(k)' = OnDisk(k)
    BY <1>2 DEF OnDisk
  <2> QED
    BY <1>2, <1>8, <1>10, <2>1, <2>2 DEF ReadInv, IndexOK
<1>13. ASSUME OrderInv PROVE OrderInv'
  <2>1. TxStage'
    BY <1>1, <1>6 DEF TxStage, Took, Wrote
  <2>2. InOrder'
    BY <1>1, <1>2, <1>3, <1>6, <1>8, <1>13 DEF OrderInv, InOrder, Down
  <2>3. \A k \in Keys : immutable'[k] = None
    BY <1>1, EmptyType
  <2>4. Placed'
    BY <1>1, <1>2, <1>10, <1>13, <2>3 DEF OrderInv, Placed
  <2> QED
    BY <2>1, <2>2, <2>4 DEF OrderInv
<1> QED
  BY <1>6, <1>7, <1>8, <1>11, <1>12, <1>13 DEF ReadInv, Carries

\* Every step of a job.
LEMMA JobStep == ASSUME TypeOK, ReadInv, Single, NEW j \in DOMAIN jobs, Job(j) PROVE Carries
BY QuietJobStep, JobWriteStep, JobIndexStep, JobSyncStep, JobMarkStep, JobReleaseStep DEF Job

----------------------------------------------------------------------------
(* The steps of the client and of readers. *)

\* What is pending is what the client waits with.
LEMMA PendingIs ==
    ASSUME Single, NEW c \in Clients
    PROVE  Pending = client[c].txs /\ Pending' = client'[c].txs
<1>1. Clients = {c}
  BY DEF Single
<1> QED
  BY <1>1 DEF Pending

\* An entry keeps its value when the log grows.
LEMMA ValueStays ==
    ASSUME TypeOK, NEW t \in 0 .. Len(log), \A u \in 1 .. Len(log) : log'[u] = log[u]
    PROVE  (IF t = None \/ log'[t].del THEN None ELSE t) = Value(t)
BY DEF Value, Deleted, None, TypeOK

\* What is stored, on disk or in memory, was logged.
LEMMA StoredLogged ==
    ASSUME TypeOK, ReadInv, NEW k \in Keys
    PROVE  /\ latest[k] \in 0 .. Len(log) /\ OnDisk(k) \in 0 .. Len(log)
           /\ Scan(k, Indexed) \in 0 .. Len(log) /\ Indexed \in 0 .. Len(table)
<1>1. /\ Len(log) \in Nat /\ latest \in Memtables /\ table \in Seq(Memtables)
      /\ Len(table) \in Nat /\ disk_index[k] \in 0 .. Len(table) /\ synced \in 0 .. Len(table)
      /\ DOMAIN table = 1 .. Len(table) /\ 0 \in 0 .. Len(log)
  BY DEF TypeOK
<1>2. latest[k] \in 0 .. Len(log)
  BY DEF ReadInv, MemoryOK
<1>3. \A b \in 1 .. Len(table) : table[b][k] \in 0 .. Len(log)
  BY <1>1 DEF ReadInv, IndexOK
<1>4. OnDisk(k) \in 0 .. Len(log)
  BY <1>1, <1>3 DEF OnDisk, None
<1>5. Indexed \in 0 .. Len(table)
  BY <1>1 DEF Indexed
<1>6. Scan(k, Indexed) \in 0 .. Len(log)
  <2>1. PICK n \in Nat : n = Indexed /\ n <= Len(table)
    BY <1>1, <1>5
  <2>2. \A b \in 1 .. n : table[b][k] \in 0 .. Len(log)
    BY <1>1, <1>3, <2>1
  <2>3. ScanOf(table, k, n) \in 0 .. Len(log)
    BY <1>1, <2>2, ScanFinds DEF None
  <2> QED
    BY <2>1, <2>3, ScanIsScanOf
<1> QED
  BY <1>2, <1>4, <1>5, <1>6

\* The log grows, and nothing else that the index or the scan depends on changes.
LEMMA IndexStays ==
    ASSUME TypeOK, ReadInv, UNCHANGED <<store, jobs>>, Len(log') \in Nat, Len(log) <= Len(log'),
           \A u \in 1 .. Len(log) : log'[u] = log[u]
    PROVE  IndexOK'
<1>1. table' = table /\ synced' = synced /\ disk_index' = disk_index /\ Len(log) \in Nat
  BY DEF store, TypeOK
<1>2. Indexed' = Indexed
  BY <1>1 DEF Indexed, Stage, LastJob
<1>3. \A b \in DOMAIN table : \A k \in Keys : table[b][k] \in 0 .. Len(log')
  BY <1>1 DEF ReadInv, IndexOK
<1>4. ASSUME NEW k \in Keys PROVE Value(Scan(k, Indexed))' = Value(OnDisk(k))'
  <2>1. Scan(k, Indexed)' = Scan(k, Indexed) /\ OnDisk(k)' = OnDisk(k)
    BY <1>1, <1>2 DEF Scan, OnDisk
  <2>2. /\ Value(Scan(k, Indexed))' = Value(Scan(k, Indexed))
        /\ Value(OnDisk(k))' = Value(OnDisk(k))
    <3> DEFINE s == Scan(k, Indexed)
               o == OnDisk(k)
    <3>1. s \in 0 .. Len(log) /\ o \in 0 .. Len(log) /\ s' = s /\ o' = o
      BY <2>1, StoredLogged
    <3> HIDE DEF s, o
    <3>2. Value(s)' = Value(s) /\ Value(o)' = Value(o)
      BY <3>1, ValueStays DEF Value, Deleted
    <3> QED
      BY <3>2 DEF s, o
  <2> QED
    BY <2>2 DEF ReadInv, IndexOK
<1> QED
  BY <1>1, <1>3, <1>4 DEF IndexOK

\* Where memory, marks and the table file stay, a longer log changes no order.
LEMMA OrderStays ==
    ASSUME TypeOK, ReadInv, UNCHANGED <<completed, mem, table, synced, jobs, latest>>,
           Inserted' = Inserted, \A t \in 1 .. Len(log) : log'[t] = log[t]
    PROVE  /\ OrderInv => OrderInv'
           /\ \A G : LatestBut(G) => LatestBut(G)'
<1>1. /\ UNCHANGED <<active, active_tx, immutable, immutable_tx>>
      /\ Stage' = Stage /\ LastJob' = LastJob /\ \A k, n : Scan(k, n)' = Scan(k, n)
  BY DEF mem, Stage, LastJob, Scan
<1>2. \A t \in Inserted : log'[t] = log[t]
  BY DEF Inserted
<1>3. ASSUME OrderInv PROVE OrderInv'
  <2>1. TxStage' /\ InOrder'
    BY <1>1, <1>3 DEF OrderInv, TxStage, InOrder, Down
  <2>2. active_tx \subseteq Inserted /\ immutable_tx \subseteq Inserted /\ completed \subseteq Inserted
    BY <1>3 DEF OrderInv, InOrder
  <2>3. ASSUME NEW k \in Keys, NEW b \in DOMAIN table, table[b][k] # None
        PROVE  log'[table[b][k]].key = k
    <3>1. table[b][k] \in 1 .. Len(log)
      BY <2>3 DEF ReadInv, IndexOK, None
    <3> QED
      BY <1>3, <2>3, <3>1 DEF OrderInv, Placed
  <2>4. Placed'
    BY <1>1, <1>2, <1>3, <2>2, <2>3 DEF OrderInv, Placed
  <2> QED
    BY <2>1, <2>4 DEF OrderInv
<1>4. ASSUME NEW G, LatestBut(G) PROVE LatestBut(G)'
  BY <1>2, <1>4 DEF LatestBut, LatestIn
<1> QED
  BY <1>3, <1>4

\* Looking the future up, and waiting for it.
LEMMA WaitStep ==
    ASSUME TypeOK, ReadInv, Single, NEW c \in Clients, CheckFuture(c) \/ AwaitFlush(c)
    PROVE  Carries
<1>1. /\ OneJob /\ StageOK /\ PendingOK /\ jobs \in Seq(JobType) /\ Len(jobs) \in Nat
      /\ client \in [Clients -> ClientType]
  BY DEF TypeOK, ReadInv, JobType, ClientType
<1>2. /\ UNCHANGED <<log, completed, mem, store, cache, sched, hist>>
      /\ UNCHANGED <<active, active_tx, immutable, immutable_tx, table, synced, disk_index,
                     future, jobs, active_flushes, latest>>
  BY DEF CheckFuture, AwaitFlush, mem, store, sched, hist
<1>3. client[c].pc \in {"full", "waiting"} /\ client[c].txs = {} /\ client[c] \in ClientType
  BY <1>1 DEF CheckFuture, AwaitFlush, PendingOK
<1>4. \/ /\ client'[c].pc = "swap" /\ Stage = "done"
      \/ /\ client'[c].pc = "waiting" /\ Len(jobs) > 0 /\ client'[c].wait = Len(jobs)
      \/ client'[c].pc = "idle"
  <2>1. Len(jobs) > 0 => Stage = jobs[Len(jobs)].pc
    BY <1>1 DEF Stage, LastJob
  <2>2. Len(jobs) = 0 => Stage = "done"
    BY <1>1 DEF Stage
  <2>3. CASE CheckFuture(c)
    <3>1. CASE future = 0 \/ jobs[future].pc \in {"done", "failed"}
      BY <1>1, <2>1, <2>2, <2>3, <3>1 DEF CheckFuture, OneJob, Took, Wrote
    <3>2. CASE ~(future = 0 \/ jobs[future].pc \in {"done", "failed"})
      BY <1>1, <2>3, <3>2 DEF CheckFuture, OneJob, ClientType
    <3> QED
      BY <3>1, <3>2
  <2>4. CASE AwaitFlush(c)
    <3>1. Len(jobs) > 0 /\ client[c].wait = Len(jobs) /\ client[c].pc = "waiting"
      BY <1>1, <2>4 DEF AwaitFlush, OneJob
    <3>2. CASE jobs[client[c].wait].pc = "done" /\ client' = [client EXCEPT ![c].pc = "swap"]
      <4>1. client'[c] = [client[c] EXCEPT !.pc = "swap"]
        BY <1>1, <3>2
      <4>2. client'[c].pc = "swap"
        BY <1>3, <4>1 DEF ClientType
      <4> QED
        BY <2>1, <3>1, <3>2, <4>2
    <3>3. CASE client' = [client EXCEPT ![c] = Idle]
      BY <1>1, <3>3 DEF Idle
    <3> QED
      BY <2>4, <3>2, <3>3 DEF AwaitFlush
  <2> QED
    BY <2>3, <2>4
<1>5. client'[c].txs = {} /\ \A d \in Clients : d = c
  <2>1. client'[c].txs = {}
    <3>1. \/ client'[c] = [client[c] EXCEPT !.pc = "swap"]
          \/ client'[c] = [client[c] EXCEPT !.pc = "waiting", !.wait = future]
          \/ client'[c] = Idle
      BY <1>1 DEF CheckFuture, AwaitFlush
    <3>2. ASSUME NEW r \in ClientType
          PROVE  /\ [r EXCEPT !.pc = "swap"].txs = r.txs
                 /\ [r EXCEPT !.pc = "waiting", !.wait = future].txs = r.txs
      BY DEF ClientType
    <3>3. Idle.txs = {}
      BY DEF Idle
    <3> QED
      BY <1>3, <3>1, <3>2, <3>3
  <2> QED
    BY <2>1 DEF Single
<1>6. Pending' = Pending /\ Inserted' = Inserted
  BY <1>2, <1>3, <1>5, PendingIs DEF Inserted
<1>7. Stage' = Stage /\ LastJob' = LastJob
  BY <1>2 DEF Stage, LastJob
<1>8. OneJob'
  <2>1. \A d \in Clients : /\ client'[d].pc = "swap" => Stage = "done"
                           /\ client'[d].pc = "waiting" =>
                                 Len(jobs) > 0 /\ client'[d].wait = Len(jobs)
    BY <1>4, <1>5
  <2> QED
    BY <1>1, <1>2, <1>7, <2>1 DEF OneJob
<1>9. StageOK'
  BY <1>1, <1>2, <1>7 DEF StageOK
<1>10. PendingOK'
  BY <1>1, <1>2, <1>5, <1>6 DEF PendingOK, Down
<1>11. CacheCoherent'
  BY <1>2 DEF ReadInv, CacheCoherent, Value, Deleted
<1>12. MemoryOK'
  BY <1>2 DEF ReadInv, MemoryOK, Scan
<1>13. IndexOK'
  BY <1>2, IndexStays DEF TypeOK
<1>14. /\ OrderInv => OrderInv'
       /\ \A G : LatestBut(G) => LatestBut(G)'
  BY <1>2, <1>6, OrderStays
<1> QED
  BY <1>8, <1>9, <1>10, <1>11, <1>12, <1>13, <1>14 DEF ReadInv, Carries

\* Memory, then the index: together they show the last value inserted.
LEMMA LookupLatest ==
    ASSUME TypeOK, ReadInv, NEW k \in Keys PROVE Value(Lookup(k)) = Value(latest[k])
<1>1. CASE active[k] # None
  BY <1>1 DEF Lookup, InMemory, ReadInv, MemoryOK
<1>2. CASE active[k] = None /\ immutable[k] # None
  BY <1>2 DEF Lookup, InMemory, ReadInv, MemoryOK
<1>3. CASE active[k] = None /\ immutable[k] = None
  <2>1. Scan(k, synced) = latest[k] /\ Value(Scan(k, Indexed)) = Value(OnDisk(k))
    BY <1>3 DEF ReadInv, MemoryOK, IndexOK
  <2>2. Scan(k, Indexed) = Scan(k, synced)
    <3>1. CASE Stage = "sync"
      <4>1. Indexed = Len(table) /\ synced = Len(table) - 1
        BY <3>1 DEF Indexed, ReadInv, StageOK
      <4>2. Scan(k, Len(table)) = Scan(k, Len(table) - 1)
        BY <1>3, <3>1, ScanLast DEF Wrote
      <4> QED
        BY <4>1, <4>2
    <3>2. CASE Stage # "sync"
      BY <3>2 DEF Indexed, ReadInv, StageOK
    <3> QED
      BY <3>1, <3>2
  <2> QED
    BY <1>3, <2>1, <2>2 DEF Lookup, InMemory
<1> QED
  BY <1>1, <1>2, <1>3

\* Reads and evictions change the cache only, and fill it with what is current.
LEMMA ReaderStep == ASSUME TypeOK, ReadInv, NEW k \in Keys, Reader(k) PROVE Carries
<1>1. /\ UNCHANGED <<log, completed, mem, store, sched, client, hist>>
      /\ UNCHANGED <<active, active_tx, immutable, immutable_tx, table, synced, disk_index,
                     future, jobs, active_flushes, latest>>
  BY DEF Reader, GetMiss, CacheEvict, mem, store, sched, hist
<1>2. /\ cache \in [Keys -> Tx \cup {None}]
      /\ \/ cache' = [cache EXCEPT ![k] = None]
         \/ cache' = [cache EXCEPT ![k] = Lookup(k)] /\ ~Deleted(Lookup(k))
  BY DEF TypeOK, Memtables, Reader, GetMiss, CacheEvict
<1>3. CacheCoherent'
  <2>1. ASSUME NEW i \in Keys, cache'[i] # None PROVE cache'[i] = Value(latest[i])
    <3>1. CASE i # k
      BY <1>2, <2>1, <3>1 DEF ReadInv, CacheCoherent
    <3>2. CASE i = k
      <4>1. cache'[k] = Lookup(k) /\ ~Deleted(Lookup(k))
        BY <1>2, <2>1, <3>2
      <4>2. Value(Lookup(k)) = Lookup(k)
        BY <4>1 DEF Value
      <4> QED
        BY <3>2, <4>1, <4>2, LookupLatest
    <3> QED
      BY <3>1, <3>2
  <2> QED
    BY <1>1, <2>1 DEF CacheCoherent, Value, Deleted
<1>4. Pending' = Pending /\ Inserted' = Inserted /\ Stage' = Stage /\ LastJob' = LastJob
  BY <1>1 DEF Pending, Inserted, Stage, LastJob
<1>5. OneJob' /\ StageOK'
  BY <1>1, <1>4 DEF ReadInv, OneJob, StageOK
<1>6. PendingOK'
  BY <1>1, <1>4 DEF ReadInv, PendingOK, Down
<1>7. MemoryOK'
  BY <1>1 DEF ReadInv, MemoryOK, Scan
<1>8. IndexOK'
  BY <1>1, IndexStays DEF TypeOK
<1>9. /\ OrderInv => OrderInv'
      /\ \A G : LatestBut(G) => LatestBut(G)'
  BY <1>1, <1>4, OrderStays
<1> QED
  BY <1>3, <1>5, <1>6, <1>7, <1>8, <1>9 DEF ReadInv, Carries

\* The first half of set_many.
LEMMA SetManyLogStep ==
    ASSUME TypeOK, ReadInv, Single, NEW c \in Clients, SetManyLog(c) PROVE Carries
<1>1. /\ log \in Seq(Entries) /\ Len(log) \in Nat /\ client \in [Clients -> ClientType]
      /\ OneJob /\ StageOK /\ PendingOK
  BY DEF TypeOK, ClientType, ReadInv
<1>2. PICK n \in 1 .. Cardinality(Keys) :
         \E s \in [1 .. n -> Entries] :
            /\ \A i, j \in 1 .. n : s[i].key = s[j].key => i = j
            /\ log' = log \o s
            /\ client' = [client EXCEPT ![c] =
                  [Idle EXCEPT !.pc = "logged", !.txs = Len(log) + 1 .. Len(log) + n]]
  BY DEF SetManyLog
<1>3. PICK s \in [1 .. n -> Entries] :
         /\ \A i, j \in 1 .. n : s[i].key = s[j].key => i = j
         /\ log' = log \o s
         /\ client' = [client EXCEPT ![c] =
               [Idle EXCEPT !.pc = "logged", !.txs = Len(log) + 1 .. Len(log) + n]]
  BY <1>2
<1>4. /\ n \in Nat /\ n >= 1 /\ s \in Seq(Entries) /\ Len(s) = n
  <2>1. n \in Nat /\ n >= 1
    BY <1>2
  <2> QED
    BY <2>1, FunctionIsSequence
<1>5. /\ Len(log') = Len(log) + n /\ \A t \in 1 .. Len(log) : log'[t] = log[t]
      /\ \A i \in 1 .. n : log'[Len(log) + i] = s[i]
  BY <1>1, <1>3, <1>4
<1>6. /\ UNCHANGED <<completed, mem, store, cache, sched, hist>>
      /\ UNCHANGED <<active, active_tx, immutable, immutable_tx, table, synced, disk_index,
                     future, jobs, active_flushes, latest>>
      /\ client[c].pc = "idle"
  BY DEF SetManyLog, mem, store, sched, hist
<1>7. /\ client'[c].txs = Len(log) + 1 .. Len(log) + n /\ client'[c].pc = "logged"
      /\ \A d \in Clients : d = c
  BY <1>1, <1>3 DEF Idle, Single
<1>8. Pending = {} /\ Pending' = Len(log) + 1 .. Len(log) + n
  BY <1>1, <1>6, <1>7, PendingIs DEF PendingOK
<1>9. Inserted = 1 .. Len(log) /\ Inserted' = 1 .. Len(log)
  <2>1. 1 .. Len(log') = (1 .. Len(log)) \cup (Len(log) + 1 .. Len(log) + n)
    BY <1>1, <1>4, <1>5
  <2>2. (1 .. Len(log)) \cap (Len(log) + 1 .. Len(log) + n) = {}
    BY <1>1, <1>4
  <2> QED
    BY <1>8, <2>1, <2>2 DEF Inserted
<1>10. Stage' = Stage /\ LastJob' = LastJob
  BY <1>6 DEF Stage, LastJob
<1>11. OneJob'
  BY <1>1, <1>6, <1>7, <1>10 DEF OneJob
<1>12. StageOK'
  BY <1>1, <1>6, <1>10 DEF StageOK
<1>13. PendingOK'
  <2>1. Pending' \subseteq 1 .. Len(log')
    BY <1>1, <1>4, <1>5, <1>8
  <2>2. \A t, u \in Pending' : log'[t].key = log'[u].key => t = u
    <3>1. ASSUME NEW t \in Pending'
          PROVE  \E i \in 1 .. n : t = Len(log) + i /\ log'[t] = s[i]
      <4>1. t - Len(log) \in 1 .. n /\ t = Len(log) + (t - Len(log))
        BY <1>1, <1>4, <1>8, <3>1
      <4> QED
        BY <1>5, <4>1
    <3> QED
      BY <1>3, <3>1
  <2> QED
    BY <1>1, <1>7, <1>9, <2>1, <2>2 DEF PendingOK, Down
<1>14. /\ OrderInv => OrderInv'
       /\ \A G : LatestBut(G) => LatestBut(G)'
  BY <1>5, <1>6, <1>8, <1>9, OrderStays
<1>15. MemoryOK'
  <2>1. \A t \in 0 .. Len(log) : t \in 0 .. Len(log')
    BY <1>1, <1>4, <1>5
  <2> QED
    BY <1>6, <2>1 DEF ReadInv, MemoryOK, Scan
<1>16. IndexOK'
  BY <1>1, <1>4, <1>5, <1>6, IndexStays
<1>17. CacheCoherent'
  <2>1. ASSUME NEW k \in Keys PROVE Value(latest[k])' = Value(latest[k])
    <3>1. latest[k] \in 0 .. Len(log)
      BY StoredLogged
    <3> QED
      BY <1>5, <1>6, <3>1, ValueStays DEF Value, Deleted
  <2> QED
    BY <1>6, <2>1 DEF ReadInv, CacheCoherent
<1> QED
  BY <1>11, <1>12, <1>13, <1>14, <1>15, <1>16, <1>17 DEF ReadInv, Carries

\* What one critical section inserts, key by key.
LEMMA InsertShows ==
    ASSUME TypeOK, NEW c \in Clients, NEW T \in SUBSET Tx, Insert(c, T, log'),
           \A t, u \in T : log'[t].key = log'[u].key => t = u, NEW k \in Keys
    PROVE  \/ /\ \A t \in T : log'[t].key # k
              /\ active'[k] = active[k] /\ latest'[k] = latest[k] /\ cache'[k] = cache[k]
           \/ \E t \in T :
                 /\ log'[t].key = k /\ active'[k] = t /\ latest'[k] = t
                 /\ cache'[k] = IF log'[t].del THEN None ELSE t
<1> DEFINE put(m) == [i \in Keys |-> IF \E t \in T : log'[t].key = i
                                  THEN CHOOSE t \in T : log'[t].key = i ELSE m[i]]
<1>1. /\ active' = put(active) /\ latest' = put(latest)
      /\ cache' = [i \in Keys |-> IF \E t \in T : log'[t].key = i /\ log'[t].del
                                  THEN None ELSE put(cache)[i]]
  BY DEF Insert
<1>2. CASE \A t \in T : log'[t].key # k
  BY <1>1, <1>2
<1>3. ASSUME NEW t \in T, log'[t].key = k
      PROVE  /\ active'[k] = t /\ latest'[k] = t
             /\ cache'[k] = IF log'[t].del THEN None ELSE t
  <2>1. (CHOOSE u \in T : log'[u].key = k) = t
    <3>1. (CHOOSE u \in T : log'[u].key = k) \in T
          /\ log'[CHOOSE u \in T : log'[u].key = k].key = k
      BY <1>3
    <3> QED
      BY <1>3, <3>1
  <2>2. \A m : put(m)[k] = t
    BY <1>3, <2>1
  <2>3. (\E u \in T : log'[u].key = k /\ log'[u].del) <=> log'[t].del
    BY <1>3
  <2>4. cache'[k] = IF \E u \in T : log'[u].key = k /\ log'[u].del
                    THEN None ELSE put(cache)[k]
    <3> HIDE DEF put
    <3> QED
      BY <1>1
  <2> HIDE DEF put
  <2> QED
    BY <1>1, <2>2, <2>3, <2>4
<1> QED
  BY <1>2, <1>3

\* Inserting T, when everything logged before T is inserted.
LEMMA InsertCarries ==
    ASSUME TypeOK, ReadInv, Single, NEW c \in Clients, NEW T \in SUBSET Tx, Insert(c, T, log'),
           log' \in Seq(Entries), Len(log) <= Len(log'),
           \A t \in 1 .. Len(log) : log'[t] = log[t],
           Inserted \cup T = 1 .. Len(log'), Inserted \cap T = {},
           \A t, u \in T : log'[t].key = log'[u].key => t = u,
           UNCHANGED <<completed, immutable, immutable_tx, store, sched>>
    PROVE  Carries
<1>1. /\ Len(log) \in Nat /\ Len(log') \in Nat /\ client \in [Clients -> ClientType]
      /\ OneJob /\ StageOK /\ PendingOK /\ \A d \in Clients : d = c
  BY DEF TypeOK, ClientType, ReadInv, Single
<1>2. UNCHANGED <<completed, immutable, immutable_tx, table, synced, disk_index, future,
                  jobs, active_flushes>>
  BY DEF store, sched
<1>3. client'[c].txs = {} /\ client'[c].pc \in {"full", "idle"} /\ active_tx' = active_tx \cup T
  <2>1. \E pc \in {"full", "idle"} :
           client' = [client EXCEPT ![c] = [Idle EXCEPT !.pc = pc]]
    BY DEF Insert
  <2> QED
    BY <1>1, <2>1 DEF Idle, Insert
<1>4. Pending' = {} /\ Inserted' = 1 .. Len(log')
  BY <1>3, PendingIs DEF Inserted
<1>5. Stage' = Stage /\ LastJob' = LastJob
  BY <1>2 DEF Stage, LastJob
<1>6. \A k \in Keys :
         \/ /\ \A t \in T : log'[t].key # k
            /\ active'[k] = active[k] /\ latest'[k] = latest[k] /\ cache'[k] = cache[k]
         \/ \E t \in T :
               /\ log'[t].key = k /\ active'[k] = t /\ latest'[k] = t
               /\ cache'[k] = IF log'[t].del THEN None ELSE t
  BY InsertShows
<1>7. OneJob'
  BY <1>1, <1>2, <1>3, <1>5 DEF OneJob
<1>8. StageOK'
  BY <1>1, <1>2, <1>5 DEF StageOK
<1>9. PendingOK'
  BY <1>1, <1>3, <1>4 DEF PendingOK, Down
<1>10. /\ \A t \in T : t \in 1 .. Len(log') /\ log'[t].key \in Keys
       /\ \A t \in Inserted : t \in 1 .. Len(log) /\ log'[t] = log[t]
       /\ Inserted' = Inserted \cup T
       /\ \A t \in Inserted : \A u \in T : t <= u
  <2>1. \A t \in T : t \in 1 .. Len(log') /\ log'[t].key \in Keys
    BY LoggedEntry
  <2>2. ASSUME NEW t \in Inserted, NEW u \in T PROVE t <= u
    <3>1. u \notin 1 .. t /\ u \in 1 .. Len(log') /\ t \in 1 .. Len(log)
      BY <1>1, <2>1, <2>2 DEF PendingOK, Down, Inserted
    <3> QED
      BY <1>1, <3>1
  <2> QED
    BY <1>4, <2>1, <2>2 DEF Inserted
<1>11. MemoryOK'
  <2>1. \A k \in Keys : Scan(k, synced)' = Scan(k, synced)
    BY <1>2 DEF Scan
  <2>2. ASSUME NEW k \in Keys
        PROVE  /\ latest'[k] \in 0 .. Len(log') /\ immutable'[k] \in 0 .. Len(log')
               /\ active'[k] # None => active'[k] = latest'[k]
               /\ active'[k] = None /\ immutable'[k] # None => immutable'[k] = latest'[k]
               /\ active'[k] = None /\ immutable'[k] = None => Scan(k, synced)' = latest'[k]
    <3>1. /\ latest[k] \in 0 .. Len(log') /\ immutable[k] \in 0 .. Len(log')
          /\ active[k] # None => active[k] = latest[k]
          /\ active[k] = None /\ immutable[k] # None => immutable[k] = latest[k]
          /\ active[k] = None /\ immutable[k] = None => Scan(k, synced) = latest[k]
      <4>1. 0 .. Len(log) \subseteq 0 .. Len(log')
        BY <1>1
      <4> QED
        BY <4>1 DEF ReadInv, MemoryOK
    <3>2. CASE active'[k] = active[k] /\ latest'[k] = latest[k]
      BY <1>2, <2>1, <3>1, <3>2
    <3>3. CASE \E t \in T : active'[k] = t /\ latest'[k] = t
      <4>1. \A t \in T : t \in 0 .. Len(log')
        BY <1>10
      <4> QED
        BY <1>2, <3>1, <3>3, <4>1, TxIsSome
    <3> QED
      BY <1>6, <3>2, <3>3
  <2> QED
    BY <2>2 DEF MemoryOK
<1>12. IndexOK'
  BY <1>1, <1>2, IndexStays
<1>13. CacheCoherent'
  <2>1. ASSUME NEW k \in Keys, cache'[k] # None PROVE cache'[k] = Value(latest[k])'
    <3>1. CASE latest'[k] = latest[k] /\ cache'[k] = cache[k]
      <4>1. latest[k] \in 0 .. Len(log)
        BY StoredLogged
      <4>2. Value(latest[k])' = Value(latest[k])
        BY <3>1, <4>1, ValueStays DEF Value, Deleted
      <4> QED
        BY <2>1, <3>1, <4>2 DEF ReadInv, CacheCoherent
    <3>2. ASSUME NEW t \in T, latest'[k] = t, cache'[k] = IF log'[t].del THEN None ELSE t
          PROVE  cache'[k] = Value(latest[k])'
      BY <2>1, <3>2, TxIsSome DEF Value, Deleted
    <3> QED
      BY <1>6, <3>1, <3>2
  <2> QED
    BY <2>1 DEF CacheCoherent
<1>14. ASSUME OrderInv PROVE OrderInv'
  <2>1. TxStage'
    BY <1>2, <1>5, <1>14 DEF OrderInv, TxStage
  <2>2. InOrder'
    BY <1>2, <1>3, <1>5, <1>10, <1>14 DEF OrderInv, InOrder, Down
  <2>3. /\ active_tx \subseteq Inserted /\ immutable_tx \subseteq Inserted
        /\ completed \subseteq Inserted
    BY <1>14 DEF OrderInv, InOrder
  <2>4. ASSUME NEW k \in Keys
        PROVE  /\ active'[k] # None => active'[k] \in active_tx' /\ log'[active'[k]].key = k
               /\ immutable[k] # None => immutable[k] \in immutable_tx /\ log'[immutable[k]].key = k
    <3>1. /\ active[k] # None => active[k] \in active_tx /\ log'[active[k]].key = k
          /\ immutable[k] # None => immutable[k] \in immutable_tx /\ log'[immutable[k]].key = k
      BY <1>10, <1>14, <2>3 DEF OrderInv, Placed
    <3> QED
      BY <1>3, <1>6, <3>1
  <2>5. ASSUME NEW k \in Keys, NEW b \in DOMAIN table, table[b][k] # None
        PROVE  log'[table[b][k]].key = k
    <3>1. table[b][k] \in 1 .. Len(log)
      BY <2>5 DEF ReadInv, IndexOK, None
    <3> QED
      BY <1>14, <2>5, <3>1 DEF OrderInv, Placed
  <2>6. ASSUME NEW t \in active_tx' PROVE t <= active'[log'[t].key]
    <3> DEFINE k == log'[t].key
    <3>1. t \in Inserted' /\ t \in 1 .. Len(log') /\ k \in Keys
      BY <1>3, <1>10, <2>3, <1>4, LoggedEntry
    <3>2. ASSUME \A u \in T : log'[u].key # k, active'[k] = active[k] PROVE t <= active'[k]
      <4>1. t \in active_tx /\ log'[t] = log[t]
        BY <1>3, <1>10, <2>3, <3>2
      <4> QED
        BY <1>14, <3>2, <4>1 DEF OrderInv, Placed
    <3>3. ASSUME NEW u \in T, log'[u].key = k, active'[k] = u PROVE t <= u
      <4>1. CASE t \in T
        BY <3>1, <3>3, <4>1
      <4>2. CASE t \in active_tx
        BY <1>10, <2>3, <4>2
      <4> QED
        BY <1>3, <4>1, <4>2
    <3> HIDE DEF k
    <3>4. t <= active'[k]
      BY <1>6, <3>1, <3>2, <3>3
    <3> QED
      BY <3>4 DEF k
  <2>7. \A k, n : Scan(k, n)' = Scan(k, n)
    BY <1>2 DEF Scan
  <2>8. Placed'
    BY <1>2, <1>10, <1>14, <2>3, <2>4, <2>5, <2>6, <2>7 DEF OrderInv, Placed
  <2> QED
    BY <2>1, <2>2, <2>8 DEF OrderInv
<1>15. ASSUME NEW G, LatestBut(G) PROVE LatestBut(G)'
  <2>1. ASSUME NEW t \in Inserted' \ G PROVE t <= latest'[log'[t].key]
    <3> DEFINE k == log'[t].key
    <3>1. k \in Keys /\ t \in 1 .. Len(log')
      BY <1>4, <2>1, LoggedEntry
    <3>2. ASSUME \A u \in T : log'[u].key # k, latest'[k] = latest[k] PROVE t <= latest'[k]
      <4>1. t \in Inserted \ G /\ log'[t] = log[t]
        BY <1>10, <2>1, <3>2
      <4> QED
        BY <1>15, <3>2, <4>1 DEF LatestBut, LatestIn
    <3>3. ASSUME NEW u \in T, log'[u].key = k, latest'[k] = u PROVE t <= u
      <4>1. CASE t \in T
        BY <3>1, <3>3, <4>1
      <4>2. CASE t \in Inserted
        BY <1>10, <4>2
      <4> QED
        BY <1>10, <2>1, <4>1, <4>2
    <3> HIDE DEF k
    <3>4. t <= latest'[k]
      BY <1>6, <3>1, <3>2, <3>3
    <3> QED
      BY <3>4 DEF k
  <2>2. ASSUME NEW k \in Keys, latest'[k] # None
        PROVE  latest'[k] \in Inserted' \ G /\ log'[latest'[k]].key = k
    <3>1. CASE latest'[k] = latest[k]
      BY <1>10, <1>15, <2>2, <3>1 DEF LatestBut, LatestIn
    <3>2. CASE \E t \in T : log'[t].key = k /\ latest'[k] = t
      BY <1>10, <1>15, <3>2 DEF LatestBut
    <3> QED
      BY <1>6, <3>1, <3>2
  <2> QED
    BY <1>10, <1>15, <2>1, <2>2 DEF LatestBut, LatestIn
<1> QED
  BY <1>7, <1>8, <1>9, <1>11, <1>12, <1>13, <1>14, <1>15 DEF ReadInv, Carries

\* set and delete.
LEMMA SetStep == ASSUME TypeOK, ReadInv, Single, NEW c \in Clients, Set(c) PROVE Carries
<1>1. log \in Seq(Entries) /\ Len(log) \in Nat /\ Len(log) < MaxTx /\ PendingOK
  BY DEF ReadInv, TypeOK, Set
<1>2. PICK n \in Tx : n = Len(log) + 1
  BY <1>1, RouterAssumption DEF Tx
<1>3. PICK e \in Entries : log' = Append(log, e) /\ Insert(c, {n}, log')
  BY <1>2 DEF Set
<1>4. /\ log' \in Seq(Entries) /\ Len(log') = n /\ \A t \in 1 .. Len(log) : log'[t] = log[t]
      /\ Len(log) <= Len(log') /\ 1 .. n = (1 .. Len(log)) \cup {n}
  BY <1>1, <1>2, <1>3
<1>5. Inserted = 1 .. Len(log)
  <2>1. client[c].txs = {}
    BY <1>1 DEF Set, PendingOK
  <2> QED
    BY <2>1, PendingIs DEF Inserted
<1>6. Inserted \cup {n} = 1 .. Len(log') /\ Inserted \cap {n} = {}
  BY <1>1, <1>2, <1>4, <1>5
<1>7. UNCHANGED <<completed, immutable, immutable_tx, store, sched>>
  BY DEF Set
<1>8. \A t, u \in {n} : log'[t].key = log'[u].key => t = u
  OBVIOUS
<1> QED
  BY <1>3, <1>4, <1>6, <1>7, <1>8, InsertCarries

\* The second half of set_many.
LEMMA SetManyInsertStep ==
    ASSUME TypeOK, ReadInv, Single, NEW c \in Clients, SetManyInsert(c) PROVE Carries
<1>1. /\ log \in Seq(Entries) /\ Len(log) \in Nat /\ PendingOK
      /\ client[c].txs \in SUBSET Tx
  BY DEF ReadInv, TypeOK
<1>2. PICK T \in SUBSET Tx : T = client[c].txs
  BY <1>1
<1>3. Insert(c, T, log') /\ log' = log
  BY <1>2 DEF SetManyInsert
<1>4. Pending = T
  BY <1>2, PendingIs
<1>5. Inserted \cup T = 1 .. Len(log') /\ Inserted \cap T = {}
  BY <1>1, <1>3, <1>4 DEF Inserted, PendingOK
<1>6. \A t, u \in T : log'[t].key = log'[u].key => t = u
  BY <1>1, <1>3, <1>4 DEF PendingOK
<1>7. UNCHANGED <<completed, immutable, immutable_tx, store, sched>>
  BY DEF SetManyInsert
<1>8. Len(log) <= Len(log') /\ \A t \in 1 .. Len(log) : log'[t] = log[t]
  BY <1>1, <1>3
<1> QED
  BY <1>1, <1>3, <1>5, <1>6, <1>7, <1>8, InsertCarries

\* The swap: the executor has nothing left to do, so the immutable memtable is empty.
LEMMA SwapStep == ASSUME TypeOK, ReadInv, Single, NEW c \in Clients, Swap(c) PROVE Carries
<1>1. /\ OneJob /\ StageOK /\ PendingOK /\ jobs \in Seq(JobType) /\ Len(jobs) \in Nat
      /\ client \in [Clients -> ClientType] /\ Stage = "done"
  BY DEF TypeOK, ReadInv, JobType, ClientType, Swap, OneJob
<1>2. /\ UNCHANGED <<log, completed, table, synced, disk_index, cache, active_flushes, latest>>
      /\ UNCHANGED <<store, hist>>
  BY DEF Swap, store, hist
<1>3. /\ client'[c] = Idle /\ client'[c].pc = "idle" /\ client'[c].txs = {}
      /\ \A d \in Clients : d = c
  BY <1>1 DEF Swap, Idle, Single
<1>4. Pending' = Pending /\ Inserted' = Inserted
  <2>1. client[c].txs = {}
    BY <1>1 DEF Swap, PendingOK
  <2> QED
    BY <1>2, <1>3, <2>1, PendingIs DEF Inserted
<1>5. immutable = Empty
  BY <1>1 DEF StageOK
<1>6. PendingOK' /\ CacheCoherent' /\ \A G : LatestBut(G) => LatestBut(G)'
  <2>1. PendingOK'
    BY <1>1, <1>2, <1>3, <1>4 DEF PendingOK, Down
  <2>2. CacheCoherent'
    BY <1>2 DEF ReadInv, CacheCoherent, Value, Deleted
  <2>3. \A G : LatestBut(G) => LatestBut(G)'
    BY <1>2, <1>4 DEF LatestBut, LatestIn
  <2> QED
    BY <2>1, <2>2, <2>3
<1>7. \A k, n : Scan(k, n)' = Scan(k, n)
  BY <1>2 DEF Scan
<1>8. CASE /\ Size(active) >= MaxMemtable
           /\ immutable' = active /\ immutable_tx' = active_tx
           /\ active' = Empty /\ active_tx' = {}
           /\ jobs' = Append(jobs, NewJob)
           /\ future' = Len(jobs) + 1
  <2>1. active # Empty
    <3>1. ASSUME active = Empty PROVE FALSE
      <4>1. {k \in Keys : active[k] # None} = {}
        BY <3>1, EmptyType
      <4>2. Size(active) = 0
        BY <4>1, FS_EmptySet DEF Size
      <4> QED
        BY <1>8, <4>2, RouterAssumption
    <3> QED
      BY <3>1
  <2>2. NewJob \in JobType /\ NewJob.pc = "queued"
    BY EmptyType DEF NewJob, JobType, JobPCs
  <2>3. /\ Len(jobs') = Len(jobs) + 1 /\ jobs' # <<>> /\ jobs'[Len(jobs) + 1] = NewJob
        /\ DOMAIN jobs' = DOMAIN jobs \cup {Len(jobs) + 1}
        /\ \A j \in DOMAIN jobs : jobs'[j] = jobs[j]
    <3> HIDE DEF NewJob
    <3>1. jobs' = Append(jobs, NewJob) /\ DOMAIN jobs = 1 .. Len(jobs)
      BY <1>1, <1>8
    <3>2. Len(jobs') = Len(jobs) + 1 /\ DOMAIN jobs' = 1 .. Len(jobs) + 1
      BY <1>1, <2>2, <3>1
    <3> QED
      BY <1>1, <2>2, <3>1, <3>2
  <2>4. Stage' = "queued"
    BY <2>2, <2>3 DEF Stage, LastJob
  <2>5. OneJob'
    <3>1. ASSUME NEW j \in DOMAIN jobs', j # Len(jobs') PROVE jobs'[j].pc = "done"
      <4>1. j \in DOMAIN jobs /\ jobs'[j] = jobs[j]
        BY <2>3, <3>1
      <4>2. j # Len(jobs) => jobs[j].pc = "done"
        BY <1>1, <4>1 DEF OneJob
      <4>3. j = Len(jobs) => jobs[j].pc = "done"
        <5>1. jobs # <<>>
          BY <4>1
        <5> QED
          BY <1>1, <5>1 DEF Stage, LastJob
      <4> QED
        BY <4>1, <4>2, <4>3
    <3> QED
      BY <1>1, <1>3, <1>8, <2>3, <2>4, <3>1 DEF OneJob
  <2>6. StageOK'
    BY <1>1, <1>2, <1>8, <2>1, <2>4 DEF StageOK, Took, Wrote, Counts
  <2>7. MemoryOK'
    <3>1. \A k \in Keys : active'[k] = None /\ immutable[k] = None
      BY <1>5, <1>8, EmptyType
    <3>2. \A k \in Keys : None \in 0 .. Len(log)
      BY DEF TypeOK, None
    <3> QED
      BY <1>2, <1>7, <1>8, <3>1, <3>2 DEF ReadInv, MemoryOK
  <2>8. IndexOK'
    <3>1. Indexed' = Len(table) /\ Indexed = Len(table)
      BY <1>1, <1>2, <2>4 DEF Indexed
    <3>2. \A k : OnDisk(k)' = OnDisk(k) /\ \A t : Value(t)' = Value(t)
      BY <1>2 DEF OnDisk, Value, Deleted
    <3> QED
      BY <1>2, <1>7, <3>1, <3>2 DEF ReadInv, IndexOK
  <2>9. ASSUME OrderInv PROVE OrderInv'
    <3>1. immutable_tx = {}
      BY <1>1, <2>9 DEF OrderInv, TxStage
    <3>2. TxStage'
      BY <2>4 DEF TxStage, Took, Wrote
    <3>3. InOrder'
      <4>1. Down(completed \cup active_tx)
        <5>1. Down(Inserted) /\ completed \cup active_tx = Inserted
          BY <1>1, <2>9, <3>1 DEF OrderInv, InOrder, PendingOK
        <5> QED
          BY <5>1
      <4> QED
        BY <1>2, <1>4, <1>8, <2>4, <2>9, <3>1, <4>1 DEF OrderInv, InOrder, Down
    <3>4. Placed'
      <4>1. \A k \in Keys : active'[k] = None
        BY <1>8, EmptyType
      <4> QED
        BY <1>2, <1>7, <1>8, <2>9, <4>1 DEF OrderInv, Placed
    <3> QED
      BY <3>2, <3>3, <3>4 DEF OrderInv
  <2> QED
    BY <1>6, <2>5, <2>6, <2>7, <2>8, <2>9 DEF ReadInv, Carries
<1>9. CASE UNCHANGED <<mem, jobs, future>>
  <2>1. UNCHANGED <<active, active_tx, immutable, immutable_tx, jobs, future>>
    BY <1>9 DEF mem
  <2>2. Stage' = Stage /\ LastJob' = LastJob
    BY <2>1 DEF Stage, LastJob
  <2>3. OneJob'
    BY <1>1, <1>3, <2>1, <2>2 DEF OneJob
  <2>4. StageOK'
    BY <1>1, <1>2, <2>1, <2>2 DEF StageOK
  <2>5. OrderInv => OrderInv'
    BY <1>2, <1>4, <1>9, OrderStays
  <2>6. MemoryOK'
    BY <1>2, <2>1 DEF ReadInv, MemoryOK, Scan
  <2>7. IndexOK'
    BY <1>2, <2>1, IndexStays DEF TypeOK
  <2> QED
    BY <1>6, <2>3, <2>4, <2>5, <2>6, <2>7 DEF ReadInv, Carries
<1> QED
  BY <1>8, <1>9 DEF Swap

----------------------------------------------------------------------------
(* The invariant, and what follows from it. *)

\* Initially nothing is logged, stored or submitted.
LEMMA InitSInv == Init => SInv
<1> SUFFICES ASSUME Init PROVE SInv
  OBVIOUS
<1>1. /\ Len(log) = 0 /\ Len(jobs) = 0 /\ Len(table) = 0 /\ jobs = <<>> /\ table = <<>>
      /\ DOMAIN jobs = {} /\ DOMAIN table = {} /\ 1 .. 0 = {}
  BY DEF Init
<1>2. \A c \in Clients : client[c].txs = {} /\ client[c].pc = "idle"
  BY DEF Init, Idle
<1>3. Pending = {} /\ Inserted = {} /\ Stage = "done"
  BY <1>1, <1>2 DEF Pending, Inserted, Stage
<1>4. \A k : Scan(k, 0) = None
  BY <1>1 DEF Scan
<1>5. OneJob /\ StageOK
  BY <1>1, <1>2, <1>3 DEF Init, OneJob, StageOK, Took, Wrote, Counts
<1>6. PendingOK
  BY <1>2, <1>3 DEF PendingOK, Down
<1>7. MemoryOK
  BY <1>1, <1>4, EmptyType DEF Init, MemoryOK, None
<1>8. IndexOK
  BY <1>1, <1>3, <1>4 DEF Init, IndexOK, Indexed, OnDisk
<1>9. CacheCoherent
  BY EmptyType DEF Init, CacheCoherent
<1>10. OrderInv
  BY <1>1, <1>3, EmptyType DEF Init, OrderInv, TxStage, InOrder, Placed, Down, Took, Wrote
<1>11. LatestBut({})
  BY <1>3, EmptyType DEF Init, LatestBut, LatestIn
<1> QED
  BY <1>5, <1>6, <1>7, <1>8, <1>9, <1>10, <1>11 DEF ReadInv, SInv

\* Every step of one client, its readers and its jobs.
LEMMA NextCarries == ASSUME TypeOK, ReadInv, Single, [Next]_vars PROVE Carries
<1>1. CASE UNCHANGED vars
  <2>1. /\ UNCHANGED <<log, completed, active, active_tx, immutable, immutable_tx, table, synced,
                       disk_index, cache, future, jobs, active_flushes, client, latest>>
        /\ UNCHANGED <<store, mem>>
    BY <1>1 DEF vars, mem, store, sched, hist
  <2>2. Pending' = Pending /\ Inserted' = Inserted /\ Stage' = Stage /\ LastJob' = LastJob
    BY <2>1 DEF Pending, Inserted, Stage, LastJob
  <2>3. OneJob' /\ StageOK'
    BY <2>1, <2>2 DEF ReadInv, OneJob, StageOK
  <2>4. PendingOK'
    BY <2>1, <2>2 DEF ReadInv, PendingOK, Down
  <2>5. MemoryOK' /\ CacheCoherent'
    BY <2>1 DEF ReadInv, MemoryOK, Scan, CacheCoherent, Value, Deleted
  <2>6. IndexOK'
    BY <2>1, IndexStays DEF TypeOK
  <2>7. /\ OrderInv => OrderInv'
        /\ \A G : LatestBut(G) => LatestBut(G)'
    BY <2>1, <2>2, OrderStays
  <2> QED
    BY <2>3, <2>4, <2>5, <2>6, <2>7 DEF ReadInv, Carries
<1>2. ASSUME NEW c \in Clients, Client(c) PROVE Carries
  BY <1>2, SetStep, SetManyLogStep, SetManyInsertStep, WaitStep, SwapStep DEF Client
<1>3. ASSUME NEW k \in Keys, Reader(k) PROVE Carries
  BY <1>3, ReaderStep
<1>4. ASSUME NEW j \in DOMAIN jobs, Job(j) PROVE Carries
  BY <1>4, JobStep
<1> QED
  BY <1>1, <1>2, <1>3, <1>4 DEF Next

\* SInv is kept, nothing being gone.
LEMMA NextSInv == ASSUME Single PROVE TypeOK /\ SInv /\ [Next]_vars => SInv'
<1> SUFFICES ASSUME TypeOK, SInv, [Next]_vars PROVE SInv'
  OBVIOUS
<1>1. Carries
  BY NextCarries DEF SInv
<1> QED
  BY <1>1 DEF SInv, Carries

\* SInv is an invariant of the router with one client.
THEOREM SingleInductive == ASSUME Single PROVE Spec => [](TypeOK /\ SInv)
<1>1. Init => SInv
  BY InitSInv
<1>2. TypeOK /\ SInv /\ [Next]_vars => SInv'
  BY NextSInv
<1>3. Spec => []TypeOK
  BY TypeCorrect
<1> QED
  BY <1>1, <1>2, <1>3, PTL DEF Spec

\* get looks in the active memtable, the immutable one and the table file, in that order,
\* under the table lock: at every step of a flush it finds the last value inserted.
THEOREM SingleReadsLatest == ASSUME Single PROVE Spec => []ReadsLatest
<1>1. TypeOK /\ SInv => ReadsLatest
  BY LookupLatest DEF ReadsLatest, SInv
<1> QED
  BY <1>1, SingleInductive, PTL

\* The cache is filled by reads and writes and emptied by deletions in the same critical
\* section as the memtable: it never serves an older value.
THEOREM SingleCacheCoherent == ASSUME Single PROVE Spec => []CacheCoherent
<1>1. SInv => CacheCoherent
  BY DEF SInv, ReadInv
<1> QED
  BY <1>1, SingleInductive, PTL

\* The finally clause of a flush takes back exactly what the flush added.
THEOREM SingleFlushCount == ASSUME Single PROVE Spec => []FlushCountExact
<1>1. TypeOK /\ SInv => FlushCountExact
  <2> SUFFICES ASSUME TypeOK, SInv
               PROVE  active_flushes = Cardinality({j \in DOMAIN jobs : Counted(j)})
    BY DEF FlushCountExact
  <2>1. jobs \in Seq(JobType) /\ Len(jobs) \in Nat /\ OneJob /\ StageOK
    BY DEF TypeOK, JobType, SInv, ReadInv
  <2> DEFINE C == {j \in DOMAIN jobs : Counted(j)}
  <2>2. \A j \in C : j = Len(jobs)
    BY <2>1 DEF OneJob, Counted, Running
  <2>3. CASE Stage \in Counts
    <3>1. jobs # <<>> /\ Len(jobs) \in DOMAIN jobs
      BY <2>1, <2>3 DEF Stage, Counts, Wrote
    <3>2. Counted(Len(jobs))
      BY <2>3, <3>1 DEF Stage, LastJob, Counts, Wrote, Counted, Running
    <3>3. C = {Len(jobs)}
      BY <2>2, <3>1, <3>2
    <3> HIDE DEF C
    <3>4. Cardinality(C) = 1
      BY <3>3, FS_Singleton
    <3> QED
      BY <2>1, <2>3, <3>4 DEF StageOK, C
  <2>4. CASE Stage \notin Counts
    <3>1. C = {}
      <4>1. SUFFICES ASSUME NEW j \in DOMAIN jobs, Counted(j) PROVE FALSE
        OBVIOUS
      <4>2. j = Len(jobs) /\ jobs # <<>>
        BY <2>1, <2>2, <4>1
      <4> QED
        BY <2>1, <2>4, <4>1, <4>2
           DEF Stage, LastJob, Counts, Wrote, Took, Counted, Running, OneJob
    <3> HIDE DEF C
    <3>2. Cardinality(C) = 0
      BY <3>1, FS_EmptySet
    <3> QED
      BY <2>1, <2>4, <3>2 DEF StageOK, C
  <2> QED
    BY <2>3, <2>4
<1> QED
  BY <1>1, SingleInductive, PTL

\* A flush job updates the index after the pages: but for the moment between the two,
\* rebuilding the index from the table file at the next start gives the same values.
THEOREM SingleRebuild == ASSUME Single PROVE Spec => []RebuildAgrees
<1>1. TypeOK /\ SInv => RebuildAgrees
  <2> SUFFICES ASSUME TypeOK, SInv, \A j \in DOMAIN jobs : jobs[j].pc \notin {"write", "index"},
                      NEW k \in Keys
               PROVE  Value(Scan(k, Len(table))) = Value(OnDisk(k))
    BY DEF RebuildAgrees
  <2>1. Stage # "index"
    <3>1. jobs \in Seq(JobType)
      BY DEF TypeOK, JobType
    <3>2. jobs # <<>> => Len(jobs) \in DOMAIN jobs
      BY <3>1
    <3> QED
      BY <3>2 DEF Stage, LastJob
  <2> QED
    BY <2>1 DEF SInv, ReadInv, IndexOK, Indexed
<1> QED
  BY <1>1, SingleInductive, PTL

\* When every transaction of a key is marked complete, the table file shows the last one,
\* with or without the batches that are not synced.
LEMMA MarkedShown ==
    ASSUME TypeOK, ReadInv, OrderInv, NEW k \in Keys, NEW n \in synced .. Len(table),
           latest[k] # None => latest[k] \in completed
    PROVE  Scan(k, n) = latest[k]
<1>1. /\ synced \in 0 .. Len(table) /\ Len(table) \in Nat /\ StageOK /\ InOrder /\ Placed
      /\ synced = (IF Stage \in {"index", "sync"} THEN Len(table) - 1 ELSE Len(table))
  BY DEF TypeOK, ReadInv, OrderInv, StageOK
<1>2. active[k] = None
  BY <1>1 DEF ReadInv, MemoryOK, InOrder, Placed
<1>3. CASE immutable[k] = None
  <2>1. Scan(k, synced) = latest[k]
    BY <1>2, <1>3 DEF ReadInv, MemoryOK
  <2>2. CASE n = synced
    BY <2>1, <2>2
  <2>3. CASE n # synced
    <3>1. Stage \in {"index", "sync"} /\ n = Len(table) /\ synced = Len(table) - 1
      BY <1>1, <2>3
    <3>2. Scan(k, Len(table)) = Scan(k, Len(table) - 1)
      BY <1>3, <3>1, ScanLast DEF Wrote
    <3> QED
      BY <2>1, <3>1, <3>2
  <2> QED
    BY <2>2, <2>3
<1>4. CASE immutable[k] # None
  <2>1. immutable[k] = latest[k] /\ immutable[k] \in immutable_tx
    BY <1>1, <1>2, <1>4 DEF ReadInv, MemoryOK, Placed
  <2>2. Stage = "release"
    BY <1>1, <1>4, <2>1 DEF InOrder
  <2>3. n = Len(table)
    BY <1>1, <2>2
  <2> QED
    BY <1>4, <2>1, <2>2, <2>3, ScanLast DEF Wrote
<1> QED
  BY <1>3, <1>4

\* Transactions are marked in the order of their ids, after the sync: a crash at any step,
\* with any unsynced batches kept or gone, is repaired by replaying what has no flag, for
\* every key of which no mark was lost.
THEOREM SingleReplay == ASSUME Single PROVE Spec => []ReplayCorrect
<1>1. TypeOK /\ SInv => ReplayCorrect
  <2> SUFFICES ASSUME TypeOK, SInv, \A c \in Clients : client[c].pc # "logged",
                      NEW k \in Keys, NEW n \in synced .. Len(table),
                      \A t \in forgotten : log[t].key # k
               PROVE  Replay(k, n) = latest[k]
    BY DEF ReplayCorrect
  <2> DEFINE R == {t \in 1 .. Len(log) : log[t].key = k /\ t \notin completed}
  <2>1. Inserted = 1 .. Len(log)
    BY DEF SInv, ReadInv, PendingOK, Pending, Inserted
  <2>0. R = {t \in 1 .. Len(log) : log[t].key = k /\ t \notin Flagged}
    BY DEF Flagged
  <2>2. /\ Len(log) \in Nat /\ latest[k] \in Tx \cup {None}
        /\ latest[k] # None => latest[k] \in 1 .. Len(log) /\ log[latest[k]].key = k
        /\ \A t \in 1 .. Len(log) : t <= latest[log[t].key]
    BY <2>1 DEF TypeOK, Memtables, SInv, LatestBut, LatestIn
  <2>3. CASE R = {}
    <3>1. latest[k] # None => latest[k] \in completed
      BY <2>2, <2>3
    <3>2. Replay(k, n) = Scan(k, n)
      BY <2>0, <2>3 DEF Replay
    <3> QED
      BY <3>1, <3>2, MarkedShown DEF SInv
  <2>4. CASE R # {}
    <3>1. PICK t \in R : TRUE
      BY <2>4
    <3>2. latest[k] # None /\ t <= latest[k] /\ t \in 1 .. Len(log)
      BY <2>2, <3>1 DEF None
    <3>3. latest[k] \notin completed
      <4>1. t \in 1 .. latest[k]
        BY <2>2, <3>2
      <4> QED
        BY <3>1, <4>1 DEF SInv, OrderInv, InOrder, Down
    <3>4. latest[k] \in R /\ \A u \in R : u \in Int /\ u <= latest[k]
      BY <2>2, <3>2, <3>3
    <3>7. Replay(k, n) = CHOOSE r \in R : \A u \in R : u <= r
      BY <2>0, <2>4 DEF Replay
    <3> HIDE DEF R
    <3>5. \A r \in R : (\A u \in R : u <= r) => r = latest[k]
      BY <3>4
    <3>6. (CHOOSE r \in R : \A u \in R : u <= r) = latest[k]
      BY <3>4, <3>5
    <3> QED
      BY <3>6, <3>7
  <2> QED
    BY <2>3, <2>4
<1> QED
  BY <1>1, SingleInductive, PTL
=============================================================================
