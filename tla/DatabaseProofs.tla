--------------------------- MODULE DatabaseProofs ---------------------------
(***************************************************************************)
(* Opening a database after a close or a crash brings back, for every key, *)
(* the last value that survived, whatever step the stop came after: for    *)
(* every number of keys, transactions and flushes, with one client, one    *)
(* restart, and a WAL that loses no mark.                                  *)
(***************************************************************************)
EXTENDS Database, RouterProofs

\* One client and no oversized record; no mark is lost; the WAL ahead of the table file at
\* every crash; the database is opened again at most once.
Reopened == Single /\ MaxForgotten = 0 /\ (WalAhead \/ MaxCrashes = 0) /\ MaxOpens <= 2

\* What no crash takes away or leaves half changed.
Kept ==
    /\ log \in Seq(Entries) /\ Len(log) <= MaxTx
    /\ completed \subseteq Tx /\ forgotten \subseteq completed
    /\ table \in Seq(Memtables) /\ latest \in Memtables
    /\ stamp \in [Tx -> Nat] /\ clock \in Nat

Counters ==
    /\ phase \in {"recovering", "marking", "open", "closing", "flushing", "closed", "down"}
    /\ opens \in 1 .. 2 /\ crashes \in Nat /\ cursor \in Nat \ {0} /\ known \in Nat
    /\ written \in 0 .. Len(log) /\ gone \subseteq 1 .. Len(log)

\* What recovery has still to put into the memtable for a key, from transaction c on.
Left(k, c) == {t \in c .. Len(log) : log[t].key = k /\ t \notin completed \cup gone}
LastLeft(k, c) == latest[k] \in Left(k, c) /\ \A t \in Left(k, c) : t <= latest[k]
Here == IF phase = "marking" THEN cursor + 1 ELSE cursor

\* While recovery runs nothing else does.  The latest transaction of a key is the last
\* one recovery has still to look at, or the one in the memtable, or in the table file.
Starting ==
    /\ jobs = <<>> /\ future = 0 /\ active_flushes = 0 /\ \A c \in Clients : client[c] = Idle
    /\ immutable = Empty /\ immutable_tx = {} /\ active_tx = {} /\ cache = Empty
    /\ synced = Len(table) /\ IndexOK
    /\ known = Len(log) /\ written = Len(log) /\ cursor <= known + 1
    /\ phase = "marking" => cursor <= known
    /\ \A k \in Keys :
          /\ latest[k] \in 0 .. Len(log)
          /\ Left(k, Here) # {} => LastLeft(k, Here)
          /\ Left(k, Here) = {} /\ active[k] # None => active[k] = latest[k]
          /\ Left(k, Here) = {} /\ active[k] = None => Scan(k, Len(table)) = latest[k]

\* The last flush of close finds nothing to write.
Flushing ==
    /\ immutable = Empty /\ synced = Len(table)
    /\ \A j \in DOMAIN jobs : jobs[j].pc \in {"queued", "uncount", "done"}

\* What is marked complete is in the table file, whatever a crash leaves of it.
Durable ==
    /\ completed \subseteq Inserted /\ Down(completed)
    /\ \A b \in DOMAIN table : \A k \in Keys :
          /\ table[b][k] \in 0 .. Len(log)
          /\ table[b][k] # None => log[table[b][k]].key = k
    /\ \A t \in completed : \A n \in synced .. Len(table) : t <= Scan(log[t].key, n)

\* Until the first stop no mark is one that recovery made: ids are marked in order,
\* when they are in the synced part of the table file.
FirstLife ==
    /\ gone = {} /\ phase # "marking" /\ (phase = "recovering" => log = <<>>)
    /\ phase # "flushing" => OrderInv
    /\ Durable

\* After the first stop, table file and log together have the latest of each key.
Repairable ==
    /\ LatestIn(1 .. Len(log) \ gone)
    /\ \A b \in DOMAIN table : \A k \in Keys : table[b][k] \in 0 .. Len(log)
    /\ \A k \in Keys :
          /\ latest[k] \in 0 .. Len(log)
          /\ Left(k, 1) # {} => LastLeft(k, 1)
          /\ Left(k, 1) = {} => Scan(k, Len(table)) = latest[k]

\* What is marked complete is flagged.
NoneLost == forgotten = {}

DInv ==
    /\ Counters /\ Kept
    /\ Up => TypeOK /\ LatestBut(gone)
    /\ Recovering => Starting
    /\ phase \in {"open", "closing"} => ReadInv
    /\ phase \in {"closing", "flushing"} => \A c \in Clients : client[c] = Idle
    /\ phase = "flushing" => Flushing
    /\ Up /\ opens = 1 => FirstLife
    /\ ~Up => \A t \in 1 .. Len(log) : t > written => t \in gone
    /\ ~Up /\ opens = 1 => Repairable

----------------------------------------------------------------------------
(* The parts. *)

\* What the types of the router say of what is kept.
LEMMA TypesKept == TypeOK => Kept
BY DEF TypeOK, Kept

\* Under Single, Opener is the client: nobody is served while recovery runs.
LEMMA OnlyOpener == ASSUME Single, NEW c \in Clients, Serving(c) PROVE phase = "open"
BY DatabaseAssumption DEF Single, Serving

\* The flush jobs of an open database keep the index types.
LEMMA ReadBatches == ASSUME TypeOK, ReadInv PROVE BatchesOK
<1> SUFFICES ASSUME NEW j \in DOMAIN jobs, jobs[j].pc = "index"
             PROVE  jobs[j].batch \in 0 .. Len(table)
  BY DEF BatchesOK
<1>1. Stage = "index" /\ LastJob = jobs[j]
  BY OnlyLast DEF ReadInv
<1> QED
  BY <1>1 DEF ReadInv, StageOK, Wrote, TypeOK

\* A step of the router keeps the types.
LEMMA RouterTypes == ASSUME TypeOK, BatchesOK, [Next]_vars PROVE TypeOK'
<1>1. CASE UNCHANGED vars
  BY <1>1 DEF vars, mem, store, sched, hist, TypeOK
<1> QED
  BY <1>1, ClientTypes, ReaderTypes, JobTypes DEF Next

\* Marked transactions are in the synced part of the table file, and stay the last of
\* their key there when the unsynced batch is kept.
LEMMA OrderIsDurable == ASSUME TypeOK, ReadInv, OrderInv PROVE Durable
<1>1. /\ completed \subseteq Inserted /\ Down(completed) /\ InOrder /\ Placed /\ StageOK /\ IndexOK
      /\ Len(table) \in Nat /\ synced \in 0 .. Len(table)
      /\ synced = (IF Stage \in {"index", "sync"} THEN Len(table) - 1 ELSE Len(table))
  BY DEF OrderInv, InOrder, ReadInv, StageOK, TypeOK
<1>2. ASSUME NEW t \in completed, NEW n \in synced .. Len(table)
      PROVE  t <= Scan(log[t].key, n)
  <2>1. PICK k \in Keys : k = log[t].key /\ t \in 1 .. Len(log) /\ t <= Scan(k, synced)
    <3>1. t \in 1 .. Len(log)
      BY <1>1 DEF Inserted
    <3> QED
      BY <1>1, <3>1, LoggedEntry DEF Placed, TypeOK
  <2>2. CASE n = synced
    BY <2>1, <2>2
  <2>3. CASE n # synced
    <3>1. Stage \in {"index", "sync"} /\ n = Len(table) /\ synced = Len(table) - 1
      BY <1>1, <2>3
    <3>2. Scan(k, Len(table)) = IF immutable[k] # None THEN immutable[k]
                                ELSE Scan(k, Len(table) - 1)
      BY <3>1, ScanLast DEF Wrote
    <3>3. CASE immutable[k] = None
      BY <2>1, <3>1, <3>2, <3>3
    <3>4. CASE immutable[k] # None
      <4>1. immutable[k] \in 1 .. Len(log) /\ immutable[k] \in immutable_tx
        BY <1>1, <3>4, ImmutableLogged DEF Placed
      <4>2. immutable[k] \notin 1 .. t
        BY <1>1, <3>1, <4>1 DEF InOrder, Down
      <4> QED
        BY <2>1, <3>1, <3>2, <3>4, <4>1, <4>2
    <3> QED
      BY <3>3, <3>4
  <2> QED
    BY <2>2, <2>3
<1>3. ASSUME NEW b \in DOMAIN table, NEW k \in Keys
      PROVE  table[b][k] \in 0 .. Len(log) /\ (table[b][k] # None => log[table[b][k]].key = k)
  BY <1>1 DEF IndexOK, Placed
<1> QED
  BY <1>1, <1>2, <1>3 DEF Durable

\* A scan finds None or a logged transaction of the key.
LEMMA ScanLogged ==
    ASSUME Kept, NEW k \in Keys, NEW n \in 0 .. Len(table),
           \A b \in DOMAIN table : \A i \in Keys : table[b][i] \in 0 .. Len(log)
    PROVE  Scan(k, n) \in 0 .. Len(log)
<1>1. Len(table) \in Nat /\ DOMAIN table = 1 .. Len(table) /\ None \in 0 .. Len(log) /\ n \in Nat
  BY DEF Kept, None
<1>2. \A b \in 1 .. n : table[b][k] \in 0 .. Len(log)
  BY <1>1
<1>3. ScanOf(table, k, n) \in 0 .. Len(log)
  BY <1>1, <1>2, ScanFinds
<1> QED
  BY <1>3, ScanIsScanOf
----------------------------------------------------------------------------
(* The steps of the router. *)

\* The log only grows.
LEMMA LogGrows ==
    ASSUME TypeOK, [Next]_vars
    PROVE  Len(log) <= Len(log') /\ \A t \in 1 .. Len(log) : log'[t] = log[t]
<1>1. log \in Seq(Entries) /\ Len(log) \in Nat
  BY DEF TypeOK
<1>2. CASE log' = log
  BY <1>1, <1>2
<1>3. ASSUME NEW c \in Clients, Set(c)
      PROVE  Len(log) <= Len(log') /\ \A t \in 1 .. Len(log) : log'[t] = log[t]
  <2>1. PICK e \in Entries : log' = Append(log, e)
    BY <1>3 DEF Set
  <2> QED
    BY <1>1, <2>1
<1>4. ASSUME NEW c \in Clients, SetManyLog(c)
      PROVE  Len(log) <= Len(log') /\ \A t \in 1 .. Len(log) : log'[t] = log[t]
  <2>1. PICK n \in 1 .. Cardinality(Keys) : \E s \in [1 .. n -> Entries] : log' = log \o s
    BY <1>4 DEF SetManyLog
  <2>2. PICK s \in [1 .. n -> Entries] : log' = log \o s
    BY <2>1
  <2>3. n \in Nat
    BY <2>1
  <2>4. s \in Seq(Entries) /\ Len(s) = n
    BY <2>3, FunctionIsSequence
  <2> QED
    BY <1>1, <2>2, <2>3, <2>4
<1>5. \/ log' = log
      \/ \E c \in Clients : Set(c) \/ SetManyLog(c)
  <2>1. CASE UNCHANGED vars
    BY <2>1 DEF vars
  <2>2. ASSUME NEW c \in Clients, Client(c), ~Set(c), ~SetManyLog(c) PROVE log' = log
    BY <2>2 DEF Client, SetManyInsert, CheckFuture, AwaitFlush, Swap
  <2>3. ASSUME NEW k \in Keys, Reader(k) PROVE log' = log
    BY <2>3 DEF Reader, GetMiss, CacheEvict
  <2>4. ASSUME NEW j \in DOMAIN jobs, Job(j) PROVE log' = log
    BY <2>4 DEF Job, JobStart, JobCount, JobWrite, JobIndex, JobSync, JobMark, JobRelease, JobUncount
  <2> QED
    BY <2>1, <2>2, <2>3, <2>4 DEF Next
<1> QED
  BY <1>2, <1>3, <1>4, <1>5

\* A step of the router while the database is open, or while close waits for its flushes.
LEMMA RouterCarries ==
    ASSUME DInv, Single, phase \in {"open", "closing"}, [Next]_vars, UNCHANGED <<life, wal>>,
           phase = "closing" => client' = client
    PROVE  DInv'
<1>1. /\ UNCHANGED <<phase, cursor, known, opens, crashes, written, gone>>
      /\ phase # "closed" /\ phase # "down" /\ Up /\ ReadInv /\ TypeOK /\ LatestBut(gone)
      /\ Counters /\ ~Recovering
  BY DEF DInv, Up, Recovering, life, wal
<1>2. TypeOK' /\ Carries
  BY <1>1, ReadBatches, RouterTypes, NextCarries
<1>3. Kept'
  BY <1>2 DEF TypeOK, Kept
<1>4. LatestBut(gone)'
  <2>1. PICK G : G = gone
    OBVIOUS
  <2>2. LatestBut(G) => LatestBut(G)'
    BY <1>2 DEF Carries
  <2>3. LatestBut(G)'
    BY <1>1, <2>1, <2>2
  <2>4. gone' = G
    BY <1>1, <2>1
  <2>5. /\ G \subseteq Inserted' /\ \A t \in Inserted' \ G : t <= latest'[log'[t].key]
        /\ \A k \in Keys :
              latest'[k] # None => latest'[k] \in Inserted' \ G /\ log'[latest'[k]].key = k
    BY <2>3 DEF LatestBut, LatestIn
  <2> QED
    BY <2>4, <2>5 DEF LatestBut, LatestIn
<1>5. Counters'
  <2>0. log \in Seq(Entries) /\ log' \in Seq(Entries)
    BY <1>1, <1>2 DEF TypeOK
  <2>1. Len(log) <= Len(log') /\ Len(log) \in Nat /\ Len(log') \in Nat
    BY <1>1, <2>0, LogGrows
  <2>2. written' \in 0 .. Len(log')
    BY <1>1, <2>1 DEF Counters
  <2>3. gone' \subseteq 1 .. Len(log')
    BY <1>4 DEF LatestBut, Inserted
  <2> QED
    BY <1>1, <2>2, <2>3 DEF Counters
<1>6. opens = 1 => FirstLife'
  <2> SUFFICES ASSUME opens = 1 PROVE FirstLife'
    OBVIOUS
  <2>1. FirstLife /\ OrderInv'
    BY <1>1, <1>2 DEF DInv, FirstLife, Carries
  <2>2. Durable'
    BY <1>2, <2>1, OrderIsDurable, PTL DEF Carries
  <2> QED
    BY <1>1, <2>1, <2>2 DEF FirstLife
<1> QED
  BY <1>1, <1>2, <1>3, <1>4, <1>5, <1>6 DEF DInv, Carries, Up, Recovering

\* Durable depends on log, marks and table file.
LEMMA DurableKept ==
    ASSUME UNCHANGED <<log, completed, table, synced>>, Inserted' = Inserted
    PROVE  Durable => Durable'
<1>1. \A k, n : Scan(k, n)' = Scan(k, n)
  BY DEF Scan
<1> QED
  BY <1>1 DEF Durable, Down

\* A flush job while close flushes: there is nothing to write.
LEMMA FlushingCarries ==
    ASSUME DInv, phase = "flushing", NEW j \in DOMAIN jobs, Job(j), UNCHANGED <<life, wal>>
    PROVE  DInv'
<1>1. /\ UNCHANGED <<phase, cursor, known, opens, crashes, written, gone>>
      /\ Up /\ TypeOK /\ LatestBut(gone) /\ Counters /\ Kept /\ Flushing
      /\ jobs \in Seq(JobType) /\ ~Recovering /\ \A c \in Clients : client[c] = Idle
  BY DEF DInv, Up, Recovering, life, wal, TypeOK, JobType
<1>2. /\ jobs[j].pc \in {"queued", "uncount"} /\ jobs[j] \in JobType /\ BatchesOK
      /\ jobs[j].pc # "failed" /\ jobs[j].pc # "uncount_failed" /\ immutable = Empty
  BY <1>1 DEF Flushing, BatchesOK, Job, JobStart, JobCount, JobWrite, JobIndex, JobSync,
              JobMark, JobRelease, JobUncount
<1>3. /\ UNCHANGED <<log, completed, mem, store, cache, future, client, hist>>
      /\ Move(j, "uncount") \/ Move(j, "done")
  BY <1>2 DEF Job, JobStart, JobCount, JobWrite, JobIndex, JobSync, JobMark, JobRelease,
              JobUncount
<1>4. UNCHANGED <<log, completed, active, active_tx, immutable, immutable_tx, table, synced,
                  disk_index, client, forgotten, latest, stamp, clock>>
  BY <1>3 DEF mem, store, hist
<1>5. TypeOK'
  BY <1>1, <1>2, JobTypes
<1>6. Kept' /\ Counters'
  BY <1>1, <1>4 DEF Kept, Counters
<1>7. Pending' = Pending /\ Inserted' = Inserted
  BY <1>4 DEF Pending, Inserted
<1>8. LatestBut(gone)'
  BY <1>1, <1>4, <1>7 DEF LatestBut, LatestIn
<1>9. Flushing'
  <2>1. PICK r \in JobType : jobs' = [jobs EXCEPT ![j] = r] /\ r.pc \in {"uncount", "done"}
    <3>1. /\ [jobs[j] EXCEPT !.pc = "uncount"] \in JobType
          /\ [jobs[j] EXCEPT !.pc = "done"] \in JobType
          /\ [jobs[j] EXCEPT !.pc = "uncount"].pc = "uncount"
          /\ [jobs[j] EXCEPT !.pc = "done"].pc = "done"
      BY <1>2 DEF JobType, JobPCs
    <3> QED
      BY <1>3, <3>1 DEF Move
  <2>2. /\ DOMAIN jobs' = DOMAIN jobs /\ jobs'[j] = r
        /\ \A i \in DOMAIN jobs : i # j => jobs'[i] = jobs[i]
    BY <1>1, <2>1, JobsExcept
  <2> QED
    BY <1>1, <1>4, <2>1, <2>2 DEF Flushing
<1>10. Durable => Durable'
  BY <1>4, <1>7, DurableKept
<1>11. opens = 1 => FirstLife'
  BY <1>1, <1>10 DEF DInv, FirstLife
<1> QED
  BY <1>1, <1>4, <1>5, <1>6, <1>8, <1>9, <1>11 DEF DInv, Up, Recovering

\* Clients, readers and flush jobs.
LEMMA ServeDb == ASSUME DInv, Reopened, Serve PROVE DInv'
<1>1. UNCHANGED <<life, wal>> /\ Single
  BY DEF Serve, Reopened
<1>2. ASSUME NEW c \in Clients, Serving(c), Client(c) PROVE DInv'
  BY <1>1, <1>2, OnlyOpener, RouterCarries DEF Next
<1>3. ASSUME NEW c \in Clients, Serving(c), NEW k \in Keys, Reader(k) PROVE DInv'
  BY <1>1, <1>3, OnlyOpener, RouterCarries DEF Next
<1>4. ASSUME Up, NEW j \in DOMAIN jobs, Job(j) PROVE DInv'
  <2>1. client' = client
    BY <1>4 DEF Job, JobStart, JobCount, JobWrite, JobIndex, JobSync, JobMark, JobRelease,
                JobUncount
  <2>2. CASE phase \in {"open", "closing"}
    BY <1>1, <1>4, <2>1, <2>2, RouterCarries DEF Next
  <2>3. CASE phase = "flushing"
    BY <1>1, <1>4, <2>3, FlushingCarries
  <2>4. ~Recovering
    BY <1>4 DEF DInv, Starting
  <2> QED
    BY <1>4, <2>2, <2>3, <2>4 DEF DInv, Counters, Up, Recovering
<1> QED
  BY <1>2, <1>3, <1>4 DEF Serve

\* What depends on the variables of the router alone stays with them.
LEMMA RouterStays ==
    ASSUME UNCHANGED vars
    PROVE  /\ TypeOK => TypeOK'
           /\ Kept => Kept'
           /\ IndexOK => IndexOK'
           /\ ReadInv => ReadInv'
           /\ OrderInv => OrderInv'
           /\ Durable => Durable'
           /\ \A S : LatestIn(S) => LatestIn(S)'
           /\ Pending' = Pending /\ Inserted' = Inserted
           /\ \A t : Value(t)' = Value(t)
           /\ \A k, n : Scan(k, n)' = Scan(k, n)
<1>1. UNCHANGED <<log, completed, active, active_tx, immutable, immutable_tx, table, synced,
                  disk_index, cache, future, jobs, active_flushes, client, forgotten, stamp,
                  clock, latest>>
  BY DEF vars, mem, store, sched, hist
<1>2. /\ Pending' = Pending /\ Inserted' = Inserted /\ Stage' = Stage /\ LastJob' = LastJob
      /\ \A t : Value(t)' = Value(t)
      /\ \A k, n : Scan(k, n)' = Scan(k, n)
      /\ Indexed' = Indexed
      /\ \A k : OnDisk(k)' = OnDisk(k)
  BY <1>1 DEF Pending, Inserted, Stage, LastJob, Value, Deleted, Scan, Indexed, OnDisk
<1>3. TypeOK => TypeOK'
  BY <1>1 DEF TypeOK
<1>4. Kept => Kept'
  BY <1>1 DEF Kept
<1>5. IndexOK => IndexOK'
  BY <1>1, <1>2 DEF IndexOK
<1>6. ReadInv => ReadInv'
  <2>1. OneJob => OneJob'
    BY <1>1, <1>2 DEF OneJob
  <2>2. StageOK => StageOK'
    BY <1>1, <1>2 DEF StageOK
  <2>3. PendingOK => PendingOK'
    BY <1>1, <1>2 DEF PendingOK, Down
  <2>4. MemoryOK => MemoryOK'
    BY <1>1, <1>2 DEF MemoryOK
  <2>5. CacheCoherent => CacheCoherent'
    BY <1>1, <1>2 DEF CacheCoherent
  <2> QED
    BY <1>5, <2>1, <2>2, <2>3, <2>4, <2>5 DEF ReadInv
<1>7. OrderInv => OrderInv'
  <2>1. TxStage => TxStage'
    BY <1>1, <1>2 DEF TxStage
  <2>2. InOrder => InOrder'
    BY <1>1, <1>2 DEF InOrder, Down
  <2>3. Placed => Placed'
    BY <1>1, <1>2 DEF Placed
  <2> QED
    BY <2>1, <2>2, <2>3 DEF OrderInv
<1>8. Durable => Durable'
  BY <1>1, <1>2, DurableKept
<1>9. \A S : LatestIn(S) => LatestIn(S)'
  BY <1>1 DEF LatestIn
<1> QED
  BY <1>2, <1>3, <1>4, <1>5, <1>6, <1>7, <1>8, <1>9

----------------------------------------------------------------------------
(* Writing the WAL, and recovery. *)

\* A step in which no call or job moves, and which leaves the database up and open, or
\* closing.
LEMMA QuietDb ==
    ASSUME DInv, UNCHANGED <<vars, opens, crashes, cursor, known, gone>>,
           written' \in 0 .. Len(log), phase \in {"open", "closing", "flushing"},
           phase' \in {phase, "closing"}, phase' # phase => phase = "open",
           phase' # phase => \A c \in Clients : client[c] = Idle
    PROVE  DInv'
<1>1. /\ TypeOK' /\ Kept' /\ LatestIn(Inserted \ gone)' /\ Inserted' = Inserted
      /\ ReadInv => ReadInv'
      /\ OrderInv => OrderInv'
      /\ Durable => Durable'
  <2>1. TypeOK /\ Kept /\ LatestIn(Inserted \ gone)
    BY DEF DInv, Up, LatestBut
  <2>2. UNCHANGED vars /\ gone' = gone
    OBVIOUS
  <2>3. Inserted' = Inserted /\ log' = log /\ latest' = latest
    BY <2>2, RouterStays DEF vars, hist
  <2>4. LatestIn(Inserted \ gone)'
    BY <2>1, <2>2, <2>3 DEF LatestIn
  <2> QED
    BY <2>1, <2>2, <2>3, <2>4, RouterStays
<1>2. UNCHANGED <<log, completed, active, immutable, table, synced, jobs, client, latest>>
  BY DEF vars, mem, store, sched, hist
<1>3. Counters' /\ LatestBut(gone)'
  BY <1>1, <1>2 DEF DInv, Counters, LatestBut, Up
<1>4. phase = "flushing" => Flushing'
  BY <1>2 DEF DInv, Flushing
<1>5. /\ phase' \in {"open", "closing", "flushing"}
      /\ phase' = "flushing" <=> phase = "flushing"
      /\ phase' \in {"closing", "flushing"} => \A c \in Clients : client[c] = Idle
      /\ phase' \in {"open", "closing"} => ReadInv
  BY DEF DInv
<1>6. opens = 1 => FirstLife'
  <2> SUFFICES ASSUME opens = 1 PROVE FirstLife'
    OBVIOUS
  <2>1. FirstLife
    BY DEF DInv, Up
  <2> QED
    BY <1>1, <1>5, <2>1 DEF FirstLife
<1> QED
  BY <1>1, <1>2, <1>3, <1>4, <1>5, <1>6 DEF DInv, Up, Recovering

\* The WAL writer.
LEMMA WalWriteDb == ASSUME DInv, WalWrite PROVE DInv'
<1>1. phase \in {"open", "closing", "flushing"}
  <2>1. ~Recovering
    <3>1. Len(log) \in Nat /\ written < Len(log)
      BY DEF DInv, Kept, WalWrite
    <3> QED
      BY <3>1 DEF DInv, Starting
  <2> QED
    BY <2>1 DEF DInv, Counters, WalWrite, Up, Recovering
<1>2. written' \in 0 .. Len(log)
  BY DEF DInv, Counters, Kept, WalWrite
<1> QED
  BY <1>1, <1>2, QuietDb DEF WalWrite, life

\* What recovery has left to do, one transaction on.
LEMMA LeftNext ==
    ASSUME Kept, Counters, NoneLost, NEW k \in Keys, cursor <= Len(log)
    PROVE  /\ Left(k, cursor + 1) = Left(k, cursor) \ {cursor}
           /\ cursor \in Left(k, cursor) <=> log[cursor].key = k /\ Replayed(cursor)
<1>1. Len(log) \in Nat /\ cursor \in Nat
  BY DEF Kept, Counters
<1>2. cursor .. Len(log) = {cursor} \cup (cursor + 1 .. Len(log)) /\ cursor \notin cursor + 1 .. Len(log)
  BY <1>1
<1> QED
  BY <1>1, <1>2 DEF Left, Replayed, Flagged, NoneLost

\* Recovery inserts a transaction, or finds that it is marked.
LEMMA RecoverInsertDb == ASSUME DInv, NoneLost, RecoverInsert PROVE DInv'
<1>1. /\ phase = "recovering" /\ cursor <= written /\ Starting /\ Counters /\ Kept
      /\ TypeOK /\ LatestBut(gone) /\ Len(log) \in Nat /\ cursor \in Nat \ {0}
      /\ written = Len(log) /\ cursor <= Len(log) /\ Here = cursor
  BY DEF DInv, Up, Recovering, RecoverInsert, Counters, Kept, Starting, Here
<1>2. opens # 1
  <2>1. opens = 1 => Len(log) = 0
    BY <1>1 DEF DInv, FirstLife, Up
  <2> QED
    BY <1>1, <2>1
<1>3. UNCHANGED <<log, completed, active_tx, immutable, immutable_tx, store, cache,
                  sched, client, hist, known, opens, crashes, wal>>
  BY DEF RecoverInsert
<1>4. UNCHANGED <<log, completed, immutable, table, synced, disk_index, future, jobs,
                  active_flushes, client, forgotten, latest, stamp, clock, written, gone>>
  BY <1>3 DEF store, sched, hist, wal
<1>5. cursor \in Tx /\ log[cursor].key \in Keys
  <2>1. cursor \in 1 .. Len(log) /\ cursor \in Tx
    BY <1>1, RouterAssumption DEF Tx, Kept
  <2> QED
    BY <1>1, <2>1, LoggedEntry DEF Kept
<1>6. active' \in Memtables
  <2>1. active \in [Keys -> Tx \cup {None}]
    BY <1>1 DEF TypeOK, Memtables
  <2>2. active' = active \/ active' = [active EXCEPT ![log[cursor].key] = cursor]
    BY DEF RecoverInsert
  <2> QED
    BY <1>5, <2>1, <2>2 DEF Memtables
<1>7. TypeOK'
  BY <1>1, <1>3, <1>6 DEF TypeOK, store, sched, hist
<1>8. Kept' /\ Counters'
  <2>1. Kept'
    BY <1>1, <1>4 DEF Kept
  <2>2. cursor' \in Nat \ {0} /\ phase' \in {"recovering", "marking"}
    BY <1>1 DEF RecoverInsert
  <2> QED
    BY <1>1, <1>3, <1>4, <2>1, <2>2 DEF Counters
<1>9. Pending' = Pending /\ Inserted' = Inserted
  BY <1>4 DEF Pending, Inserted
<1>10. LatestBut(gone)'
  BY <1>1, <1>4, <1>9 DEF LatestBut, LatestIn
<1>11. Here' = cursor + 1 /\ (phase' = "marking" => cursor' <= known') /\ cursor' <= known' + 1
       /\ phase' \in {"recovering", "marking"}
  BY <1>1, <1>3 DEF RecoverInsert, Here, Starting
<1>12. \A k \in Keys : \A c : Left(k, c)' = Left(k, c)
  BY <1>4 DEF Left
<1>13. ASSUME NEW k \in Keys
       PROVE  /\ latest[k] \in 0 .. Len(log)
              /\ Left(k, cursor + 1) # {} => LastLeft(k, cursor + 1)
              /\ Left(k, cursor + 1) = {} /\ active'[k] # None => active'[k] = latest[k]
              /\ Left(k, cursor + 1) = {} /\ active'[k] = None => Scan(k, Len(table)) = latest[k]
  <2>1. /\ latest[k] \in 0 .. Len(log)
        /\ Left(k, cursor) # {} => LastLeft(k, cursor)
        /\ Left(k, cursor) = {} /\ active[k] # None => active[k] = latest[k]
        /\ Left(k, cursor) = {} /\ active[k] = None => Scan(k, Len(table)) = latest[k]
    BY <1>1 DEF Starting
  <2>2. /\ Left(k, cursor + 1) = Left(k, cursor) \ {cursor}
        /\ cursor \in Left(k, cursor) <=> log[cursor].key = k /\ Replayed(cursor)
    BY <1>1, LeftNext
  <2>3. CASE cursor \notin Left(k, cursor)
    <3>1. Left(k, cursor + 1) = Left(k, cursor) /\ active'[k] = active[k]
      <4>1. active \in [Keys -> Tx \cup {None}]
        BY <1>1 DEF TypeOK, Memtables
      <4>2. ~Replayed(cursor) \/ log[cursor].key # k
        BY <2>2, <2>3
      <4> QED
        BY <2>2, <2>3, <4>1, <4>2 DEF RecoverInsert
    <3>2. LastLeft(k, cursor) => LastLeft(k, cursor + 1)
      BY <3>1 DEF LastLeft
    <3> QED
      BY <2>1, <3>1, <3>2
  <2>4. CASE cursor \in Left(k, cursor)
    <3>1. /\ latest[k] \in Left(k, cursor) /\ \A t \in Left(k, cursor) : t <= latest[k]
          /\ Left(k, cursor) \subseteq cursor .. Len(log)
      BY <2>1, <2>4 DEF LastLeft, Left
    <3>2. active'[k] = cursor
      <4>1. active \in [Keys -> Tx \cup {None}]
        BY <1>1 DEF TypeOK, Memtables
      <4> QED
        BY <2>2, <2>4, <4>1 DEF RecoverInsert
    <3>3. CASE latest[k] = cursor
      <4>1. \A t \in Left(k, cursor) : t = cursor
        BY <1>1, <3>1, <3>3
      <4>2. Left(k, cursor + 1) = {}
        BY <2>2, <4>1
      <4> QED
        BY <1>5, <2>1, <3>2, <3>3, <4>2, TxIsSome
    <3>4. CASE latest[k] # cursor
      <4>1. LastLeft(k, cursor + 1) /\ Left(k, cursor + 1) # {}
        BY <2>2, <3>1, <3>4 DEF LastLeft
      <4> QED
        BY <2>1, <4>1
    <3> QED
      BY <3>3, <3>4
  <2> QED
    BY <2>3, <2>4
<1>14. IndexOK'
  <2>1. Indexed' = Indexed /\ \A k, n : Scan(k, n)' = Scan(k, n)
    BY <1>4 DEF Indexed, Stage, LastJob, Scan
  <2>2. (\A k : OnDisk(k)' = OnDisk(k)) /\ (\A t : Value(t)' = Value(t))
    BY <1>4 DEF OnDisk, Value, Deleted
  <2> QED
    BY <1>1, <1>4, <2>1, <2>2 DEF Starting, IndexOK
<1>15. Starting'
  <2>1. \A k \in Keys : (LastLeft(k, cursor + 1) <=> LastLeft(k, Here)')
                        /\ Left(k, Here)' = Left(k, cursor + 1)
                        /\ Scan(k, Len(table))' = Scan(k, Len(table))
    <3>1. \A k \in Keys : Left(k, Here)' = Left(k, cursor + 1)
      BY <1>4, <1>11 DEF Left
    <3>2. \A k \in Keys : LastLeft(k, cursor + 1) <=> LastLeft(k, Here)'
      BY <1>4, <3>1 DEF LastLeft
    <3>3. \A k \in Keys : Scan(k, Len(table))' = Scan(k, Len(table))
      BY <1>4 DEF Scan
    <3> QED
      BY <3>1, <3>2, <3>3
  <2>2. \A k \in Keys :
           /\ latest'[k] \in 0 .. Len(log')
           /\ Left(k, Here)' # {} => LastLeft(k, Here)'
           /\ Left(k, Here)' = {} /\ active'[k] # None => active'[k] = latest'[k]
           /\ Left(k, Here)' = {} /\ active'[k] = None => Scan(k, Len(table))' = latest'[k]
    BY <1>4, <1>13, <2>1
  <2>3. /\ jobs' = <<>> /\ future' = 0 /\ active_flushes' = 0 /\ (\A c \in Clients : client'[c] = Idle)
        /\ immutable' = Empty /\ immutable_tx' = {} /\ active_tx' = {} /\ cache' = Empty
        /\ synced' = Len(table') /\ known' = Len(log') /\ written' = Len(log')
    BY <1>1, <1>3, <1>4 DEF Starting
  <2> QED
    BY <1>11, <1>14, <2>2, <2>3 DEF Starting
<1> QED
  BY <1>2, <1>3, <1>7, <1>8, <1>10, <1>11, <1>15 DEF DInv, Up, Recovering

\* Recovery marks what it has inserted.
LEMMA RecoverMarkDb == ASSUME DInv, RecoverMark PROVE DInv'
<1>1. /\ phase = "marking" /\ Starting /\ Counters /\ Kept
      /\ TypeOK /\ LatestBut(gone) /\ Len(log) \in Nat /\ cursor \in Nat \ {0}
      /\ cursor <= Len(log) /\ Here = cursor + 1
  BY DEF DInv, Up, Recovering, RecoverMark, Counters, Kept, Starting, Here
<1>2. opens # 1
  BY <1>1 DEF DInv, FirstLife, Up
<1>3. /\ UNCHANGED <<log, mem, store, cache, sched, client, known, opens, crashes, wal>>
      /\ UNCHANGED <<log, active, immutable, immutable_tx, active_tx, table, synced, disk_index,
                     future, jobs, active_flushes, cache, client, latest, stamp, clock, known,
                     opens, crashes, written, gone>>
      /\ completed' = completed \cup {cursor} /\ forgotten' = forgotten \ {cursor}
      /\ cursor' = cursor + 1 /\ phase' = "recovering"
  BY DEF RecoverMark, mem, store, sched, wal
<1>4. completed' \subseteq Tx /\ forgotten' \subseteq completed'
  <2>1. cursor \in Tx /\ completed \subseteq Tx /\ forgotten \subseteq completed
    BY <1>1, RouterAssumption DEF Tx, Kept
  <2> QED
    BY <1>3, <2>1
<1>5. TypeOK' /\ Kept' /\ Counters'
  <2>1. TypeOK'
    BY <1>1, <1>3, <1>4 DEF TypeOK
  <2>2. Kept'
    BY <1>1, <1>3, <1>4 DEF Kept
  <2>3. cursor' \in Nat \ {0}
    BY <1>1, <1>3
  <2> QED
    BY <1>1, <1>3, <2>1, <2>2, <2>3 DEF Counters
<1>6. LatestBut(gone)'
  <2>1. Inserted' = Inserted
    BY <1>3 DEF Pending, Inserted
  <2> QED
    BY <1>1, <1>3, <2>1 DEF LatestBut, LatestIn
<1>7. IndexOK'
  <2>1. Indexed' = Indexed /\ \A k, n : Scan(k, n)' = Scan(k, n)
    BY <1>3 DEF Indexed, Stage, LastJob, Scan
  <2>2. (\A k : OnDisk(k)' = OnDisk(k)) /\ (\A t : Value(t)' = Value(t))
    BY <1>3 DEF OnDisk, Value, Deleted
  <2> QED
    BY <1>1, <1>3, <2>1, <2>2 DEF Starting, IndexOK
<1>8. Starting'
  <2>1. Here' = Here /\ cursor' <= known' + 1
    BY <1>1, <1>3 DEF Here, Starting
  <2>2. \A k \in Keys : Left(k, Here)' = Left(k, Here)
    <3>1. \A t \in cursor + 1 .. Len(log) : t # cursor
      BY <1>1
    <3> QED
      BY <1>1, <1>3, <2>1, <3>1 DEF Left
  <2>3. \A k \in Keys : LastLeft(k, Here)' <=> LastLeft(k, Here)
    BY <1>3, <2>2 DEF LastLeft
  <2>4. \A k \in Keys : Scan(k, Len(table))' = Scan(k, Len(table))
    BY <1>3 DEF Scan
  <2>5. \A k \in Keys :
           /\ latest'[k] \in 0 .. Len(log')
           /\ Left(k, Here)' # {} => LastLeft(k, Here)'
           /\ Left(k, Here)' = {} /\ active'[k] # None => active'[k] = latest'[k]
           /\ Left(k, Here)' = {} /\ active'[k] = None => Scan(k, Len(table))' = latest'[k]
    BY <1>1, <1>3, <2>2, <2>3, <2>4 DEF Starting
  <2> QED
    BY <1>1, <1>3, <1>7, <2>1, <2>5 DEF Starting
<1> QED
  BY <1>2, <1>3, <1>5, <1>6, <1>8 DEF DInv, Up, Recovering

\* When recovery has come to the end of the log, the memtable over the table file shows
\* the latest values.
LEMMA StartedReads == ASSUME Kept, Counters, Starting, phase = "recovering", cursor > known PROVE ReadInv
<1>1. Len(log) \in Nat /\ known = Len(log) /\ Here = cursor /\ cursor \in Nat
  BY DEF Kept, Starting, Counters, Here
<1>2. \A k \in Keys : Left(k, Here) = {}
  <2>1. cursor .. Len(log) = {}
    BY <1>1
  <2> QED
    BY <1>1, <2>1 DEF Left
<1>3. Stage = "done" /\ Len(jobs) = 0 /\ DOMAIN jobs = {}
  BY DEF Starting, Stage
<1>4. \A c \in Clients : client[c].pc = "idle" /\ client[c].txs = {}
  BY DEF Starting, Idle
<1>5. Pending = {} /\ Inserted = 1 .. Len(log)
  BY <1>4 DEF Pending, Inserted
<1>6. OneJob /\ StageOK
  BY <1>3, <1>4 DEF Starting, OneJob, StageOK, Took, Wrote, Counts
<1>7. PendingOK
  <2>1. Down(1 .. Len(log))
    BY <1>1 DEF Down
  <2> QED
    BY <1>4, <1>5, <2>1 DEF PendingOK
<1>8. MemoryOK
  <2>1. \A k \in Keys : immutable[k] = None /\ None \in 0 .. Len(log)
    BY <1>1, EmptyType DEF Starting, None
  <2> QED
    BY <1>2, <2>1 DEF Starting, MemoryOK
<1>9. CacheCoherent
  BY EmptyType DEF Starting, CacheCoherent
<1> QED
  BY <1>6, <1>7, <1>8, <1>9 DEF ReadInv, Starting

\* The end of recovery.
LEMMA RecoveredDb == ASSUME DInv, Recovered PROVE DInv'
<1>1. /\ phase = "recovering" /\ phase' = "open" /\ Starting /\ Counters /\ Kept /\ TypeOK
      /\ LatestBut(gone) /\ cursor > known
      /\ UNCHANGED <<vars, cursor, known, opens, crashes, wal, written, gone>>
  BY DEF DInv, Up, Recovering, Recovered, wal
<1>2. log' = log /\ latest' = latest
  BY <1>1 DEF vars, hist
<1>3. ReadInv' /\ TypeOK' /\ Kept' /\ Inserted' = Inserted
  <2>1. ReadInv
    BY <1>1, StartedReads
  <2> QED
    BY <1>1, <2>1, RouterStays
<1>4. LatestBut(gone)' /\ Counters'
  BY <1>1, <1>2, <1>3 DEF LatestBut, LatestIn, Counters
<1>5. opens = 1 => FirstLife'
  <2> SUFFICES ASSUME opens = 1 PROVE FirstLife'
    OBVIOUS
  <2>1. FirstLife
    BY <1>1 DEF DInv, Up
  <2> QED
    BY <1>1, <2>1, RouterStays DEF FirstLife
<1> QED
  BY <1>1, <1>3, <1>4, <1>5 DEF DInv, Up, Recovering

----------------------------------------------------------------------------
(* Stopping. *)

\* A scan finds None or a transaction of the key that is in the table file.
LEMMA ScanInTable ==
    ASSUME Kept, Durable, NEW k \in Keys, NEW n \in 0 .. Len(table), Scan(k, n) # None
    PROVE  /\ Scan(k, n) \in 1 .. Len(log) /\ log[Scan(k, n)].key = k
           /\ InTable(Scan(k, n), n) /\ InTable(Scan(k, n), Len(table))
<1>1. Len(table) \in Nat /\ DOMAIN table = 1 .. Len(table) /\ n \in Nat /\ Len(log) \in Nat
  BY DEF Kept
<1> DEFINE S == {t \in 1 .. Len(log) : log[t].key = k /\ \E b \in 1 .. n : table[b][k] = t} \cup {None}
<1>2. \A b \in 1 .. n : table[b][k] \in S
  <2> SUFFICES ASSUME NEW b \in 1 .. n PROVE table[b][k] \in S
    OBVIOUS
  <2>1. b \in DOMAIN table /\ b \in 1 .. n
    BY <1>1
  <2>2. /\ table[b][k] \in 0 .. Len(log)
        /\ table[b][k] # None => log[table[b][k]].key = k
    BY <2>1 DEF Durable
  <2>3. table[b][k] # None => table[b][k] \in 1 .. Len(log)
    BY <1>1, <2>2 DEF None
  <2> QED
    BY <2>2, <2>3
<1> HIDE DEF S
<1>3. None \in S
  BY DEF S
<1>4. ScanOf(table, k, n) \in S
  BY <1>1, <1>2, <1>3, ScanFinds
<1>5. PICK u \in 1 .. Len(log) : /\ u = Scan(k, n) /\ log[u].key = k
                                 /\ \E b \in 1 .. n : table[b][k] = u
  BY <1>4, ScanIsScanOf DEF S
<1>6. InTable(u, n) /\ InTable(u, Len(table))
  <2>1. \E b \in 1 .. Len(table) : table[b][k] = u
    BY <1>1, <1>5
  <2> QED
    BY <1>5, <2>1 DEF InTable
<1> QED
  BY <1>5, <1>6

\* The last of each key.
LEMMA LastOfIs ==
    ASSUME Kept, NEW S \in SUBSET (1 .. Len(log))
    PROVE  /\ LastOf(S) \in Memtables
           /\ \A k \in Keys :
                 LET D == {t \in S : log[t].key = k} IN
                 /\ D = {} => LastOf(S)[k] = None
                 /\ D # {} => LastOf(S)[k] \in D /\ \A t \in D : t <= LastOf(S)[k]
<1>1. Len(log) \in Nat /\ \A t \in S : t \in Tx
  BY RouterAssumption DEF Kept, Tx
<1>2. ASSUME NEW k \in Keys
      PROVE  LET D == {t \in S : log[t].key = k} IN
             /\ D = {} => LastOf(S)[k] = None
             /\ D # {} => LastOf(S)[k] \in D /\ \A t \in D : t <= LastOf(S)[k]
  <2> DEFINE D == {t \in S : log[t].key = k}
  <2>1. LastOf(S)[k] = IF D = {} THEN None ELSE CHOOSE t \in D : \A u \in D : u <= t
    BY DEF LastOf
  <2>2. D \in SUBSET (0 .. Len(log))
    <3>1. S \subseteq 0 .. Len(log) /\ D \subseteq S
      BY <1>1
    <3> QED
      BY <3>1
  <2> HIDE DEF D
  <2>3. D # {} => \E t \in D : \A u \in D : u <= t
    BY <1>1, <2>2, Greatest
  <2>4. /\ D = {} => LastOf(S)[k] = None
        /\ D # {} => LastOf(S)[k] \in D /\ \A t \in D : t <= LastOf(S)[k]
    BY <2>1, <2>3
  <2> QED
    BY <2>4 DEF D
<1>3. LastOf(S) \in Memtables
  <2>1. \A k \in Keys : LastOf(S)[k] \in Tx \cup {None}
    <3> SUFFICES ASSUME NEW k \in Keys PROVE LastOf(S)[k] \in Tx \cup {None}
      OBVIOUS
    <3>1. LastOf(S)[k] = None \/ LastOf(S)[k] \in S
      BY <1>2
    <3> QED
      BY <1>1, <3>1
  <2>2. LastOf(S) = [k \in Keys |-> LastOf(S)[k]]
    BY DEF LastOf
  <2> QED
    BY <2>1, <2>2 DEF Memtables
<1> QED
  BY <1>2, <1>3

\* The transactions of a key among the first w, and those of them not marked complete.
OfKey(k, w)    == {t \in 1 .. w : log[t].key = k}
Unmarked(k, w) == OfKey(k, w) \ completed

\* When all that is in the table file is among the first w transactions, the last of a key
\* among them is the last one not marked, or it is in what a stop leaves of the table file.
LEMMA StopLeaves ==
    ASSUME Kept, Durable, synced \in 0 .. Len(table), NEW k \in Keys, NEW l,
           NEW w \in 0 .. Len(log), NEW n \in synced .. Len(table),
           \A t \in 1 .. Len(log) : InTable(t, Len(table)) => t <= w,
           OfKey(k, w) = {} => l = None,
           OfKey(k, w) # {} => l \in OfKey(k, w) /\ \A t \in OfKey(k, w) : t <= l
    PROVE  /\ Unmarked(k, w) # {} => l \in Unmarked(k, w) /\ \A t \in Unmarked(k, w) : t <= l
           /\ Unmarked(k, w) = {} => Scan(k, n) = l
<1> DEFINE D == OfKey(k, w)
<1>1. /\ Len(log) \in Nat /\ Len(table) \in Nat /\ w \in Nat /\ n \in 0 .. Len(table)
      /\ D \in SUBSET (1 .. w) /\ D \ completed = Unmarked(k, w) /\ None = 0
  BY DEF Kept, None, OfKey, Unmarked
<1>2. Scan(k, n) \in D \cup {0}
  <2>1. CASE Scan(k, n) = None
    BY <1>1, <2>1
  <2>2. CASE Scan(k, n) # None
    <3>1. PICK t \in 1 .. Len(log) : t = Scan(k, n) /\ log[t].key = k /\ InTable(t, Len(table))
      BY <1>1, <2>2, ScanInTable
    <3>2. t \in 1 .. w
      BY <1>1, <3>1
    <3> QED
      BY <3>1, <3>2 DEF OfKey
  <2> QED
    BY <2>1, <2>2
<1>3. \A t \in D \cap completed : t <= Scan(k, n)
  BY <1>1 DEF Durable, OfKey
<1>4. \A t \in D : \A u \in D : u <= t /\ t \in completed => u \in completed
  <2> SUFFICES ASSUME NEW t \in D, NEW u \in D, u <= t, t \in completed PROVE u \in completed
    OBVIOUS
  <2>1. u \in 1 .. t
    BY <1>1
  <2> QED
    BY <2>1 DEF Durable, Down
<1> HIDE DEF D
<1>5. /\ D = {} => l = 0
      /\ D # {} => l \in D /\ \A t \in D : t <= l
  BY <1>1 DEF D
<1>6. /\ D \ completed # {} => l \in D \ completed /\ \A t \in D \ completed : t <= l
      /\ D \ completed = {} => Scan(k, n) = l
  <2>1. ASSUME D \ completed # {}
        PROVE  l \in D \ completed /\ \A t \in D \ completed : t <= l
    <3>1. PICK t \in D : t \notin completed
      BY <2>1
    <3>2. l \in D /\ t <= l /\ (\A u \in D : u <= l)
      BY <1>5
    <3>3. l \notin completed
      BY <1>4, <3>1, <3>2
    <3> QED
      BY <3>2, <3>3
  <2>2. ASSUME D \ completed = {}, D # {} PROVE Scan(k, n) = l
    <3>1. l \in D /\ l \in completed /\ l <= Scan(k, n) /\ l \in 1 .. w
      BY <1>1, <1>3, <1>5, <2>2
    <3>2. Scan(k, n) \in D
      BY <1>1, <1>2, <3>1
    <3>3. Scan(k, n) <= l /\ Scan(k, n) \in 1 .. w
      BY <1>1, <1>5, <3>2
    <3> QED
      BY <1>1, <3>1, <3>3
  <2>3. ASSUME D = {} PROVE Scan(k, n) = l
    BY <1>2, <1>5, <2>3
  <2> QED
    BY <2>1, <2>2, <2>3
<1> QED
  BY <1>1, <1>6

\* close waits for the flushes: the last one has nothing to write.
LEMMA CloseFlush == ASSUME DInv, phase = "closing", Close PROVE DInv'
<1>1. /\ phase' = "flushing" /\ jobs' = Append(jobs, NewJob) /\ JobsEnded
      /\ UNCHANGED <<log, completed, mem, store, cache, future, active_flushes,
                     client, hist, cursor, known, opens, crashes, wal>>
  BY DEF Close
<1>2. /\ UNCHANGED <<log, completed, active, active_tx, immutable, immutable_tx, table, synced,
                     disk_index, cache, future, active_flushes, client, forgotten, stamp,
                     clock, latest, cursor, known, opens, crashes, written, gone>>
  BY <1>1 DEF mem, store, hist, wal
<1>3. TypeOK /\ ReadInv /\ Kept /\ Counters /\ LatestBut(gone) /\ \A c \in Clients : client[c] = Idle
  BY DEF DInv, Up
<1>4. jobs \in Seq(JobType) /\ Len(jobs) \in Nat /\ NewJob \in JobType /\ NewJob.pc = "queued"
  BY <1>3, EmptyType DEF TypeOK, JobType, NewJob, JobPCs
<1>5. \A j \in DOMAIN jobs : jobs[j].pc = "done"
  <2>1. jobs # <<>> => Len(jobs) \in DOMAIN jobs /\ Stage = jobs[Len(jobs)].pc
    BY <1>4 DEF Stage, LastJob
  <2>2. \A j \in DOMAIN jobs : jobs[j].pc # "done" => j = Len(jobs) /\ jobs # <<>>
    BY <1>3, <1>4 DEF ReadInv, OneJob
  <2>3. Stage # "failed"
    BY <1>3 DEF ReadInv, OneJob, Took, Wrote
  <2> QED
    BY <1>1, <2>1, <2>2, <2>3 DEF JobsEnded
<1>6. Stage = "done"
  BY <1>4, <1>5 DEF Stage, LastJob
<1>7. immutable = Empty /\ synced = Len(table)
  BY <1>3, <1>6 DEF ReadInv, StageOK
<1>8. /\ jobs' \in Seq(JobType) /\ Len(jobs') = Len(jobs) + 1
      /\ \A j \in DOMAIN jobs' : jobs'[j].pc \in {"queued", "done"}
  <2> HIDE DEF NewJob
  <2>1. /\ jobs' \in Seq(JobType) /\ Len(jobs') = Len(jobs) + 1
        /\ DOMAIN jobs' = 1 .. Len(jobs) + 1 /\ DOMAIN jobs = 1 .. Len(jobs)
        /\ jobs'[Len(jobs) + 1] = NewJob
        /\ \A j \in 1 .. Len(jobs) : jobs'[j] = jobs[j]
    BY <1>1, <1>4
  <2>2. \A j \in 1 .. Len(jobs) + 1 : j = Len(jobs) + 1 \/ j \in 1 .. Len(jobs)
    BY <1>4
  <2> QED
    BY <1>4, <1>5, <2>1, <2>2
<1>9. TypeOK'
  <2>1. future' \in 0 .. Len(jobs')
    BY <1>2, <1>3, <1>4, <1>8 DEF TypeOK
  <2> QED
    BY <1>2, <1>3, <1>8, <2>1 DEF TypeOK, JobType
<1>10. Kept' /\ Counters'
  BY <1>1, <1>2, <1>3 DEF Kept, Counters
<1>11. Inserted' = Inserted
  BY <1>2 DEF Inserted, Pending
<1>12. LatestBut(gone)'
  BY <1>2, <1>3, <1>11 DEF LatestBut, LatestIn
<1>13. Flushing'
  BY <1>2, <1>7, <1>8 DEF Flushing
<1>14. opens = 1 => FirstLife'
  <2> SUFFICES ASSUME opens = 1 PROVE FirstLife'
    OBVIOUS
  <2>1. FirstLife
    BY DEF DInv, Up
  <2>2. Durable'
    BY <1>2, <1>11, <2>1, DurableKept DEF FirstLife
  <2> QED
    BY <1>1, <1>2, <2>1, <2>2 DEF FirstLife
<1> QED
  BY <1>1, <1>2, <1>3, <1>9, <1>10, <1>12, <1>13, <1>14 DEF DInv, Up, Recovering

\* close lets the WAL write what it has buffered.
LEMMA CloseWrites == ASSUME DInv, phase = "flushing", Close PROVE DInv'
<1>1. /\ phase' = "closed" /\ written' = Len(log)
      /\ UNCHANGED <<vars, cursor, known, opens, crashes, gone>>
  BY DEF Close
<1>2. UNCHANGED <<log, completed, table, synced, forgotten, latest, stamp, clock>>
  BY <1>1 DEF vars, store, hist
<1>3. TypeOK /\ Kept /\ Counters /\ LatestBut(gone) /\ Flushing /\ \A c \in Clients : client[c] = Idle
  BY DEF DInv, Up
<1>4. Kept' /\ Counters'
  BY <1>1, <1>2, <1>3 DEF Kept, Counters
<1>5. Len(log) \in Nat /\ Len(table) \in Nat /\ gone \subseteq 1 .. Len(log)
  BY <1>3 DEF Kept, Counters
<1>6. ASSUME opens = 1 PROVE Repairable'
  <2>1. Durable /\ gone = {}
    BY <1>6 DEF DInv, Up, FirstLife
  <2>2. Inserted = 1 .. Len(log) /\ 1 .. Len(log) \ gone = 1 .. Len(log) /\ LatestIn(1 .. Len(log))
    <3>1. Pending = {}
      BY <1>3 DEF Pending, Idle
    <3>2. Inserted = 1 .. Len(log) /\ 1 .. Len(log) \ gone = 1 .. Len(log) /\ Inserted \ gone = Inserted
      BY <2>1, <3>1 DEF Inserted
    <3> QED
      BY <1>3, <3>2 DEF LatestBut
  <2>3. LatestIn(1 .. Len(log) \ gone)'
    BY <1>1, <1>2, <2>2 DEF LatestIn
  <2>4. ASSUME NEW k \in Keys
        PROVE  /\ latest[k] \in 0 .. Len(log)
               /\ Left(k, 1) # {} => LastLeft(k, 1)
               /\ Left(k, 1) = {} => Scan(k, Len(table)) = latest[k]
    <3>1. latest[k] # None => latest[k] \in OfKey(k, Len(log))
      BY <2>2 DEF LatestIn, OfKey
    <3>2. \A t \in OfKey(k, Len(log)) : t <= latest[k]
      BY <2>2 DEF LatestIn, OfKey
    <3>3. OfKey(k, Len(log)) # {} => latest[k] # None
      <4>1. SUFFICES ASSUME NEW t \in OfKey(k, Len(log)) PROVE latest[k] # 0
        BY DEF None
      <4>2. t \in 1 .. Len(log)
        BY DEF OfKey
      <4> QED
        BY <1>5, <3>2, <4>1, <4>2
    <3>4. Left(k, 1) = Unmarked(k, Len(log))
      BY <2>1 DEF Left, Unmarked, OfKey
    <3>5. /\ Len(log) \in 0 .. Len(log) /\ synced \in 0 .. Len(table)
          /\ Len(table) \in synced .. Len(table) /\ \A t \in 1 .. Len(log) : t <= Len(log)
      BY <1>3, <1>5 DEF Flushing
    <3>6. /\ OfKey(k, Len(log)) = {} => latest[k] = None
          /\ OfKey(k, Len(log)) # {} =>
                latest[k] \in OfKey(k, Len(log)) /\ \A t \in OfKey(k, Len(log)) : t <= latest[k]
      BY <3>1, <3>2, <3>3
    <3>7. /\ Left(k, 1) # {} => latest[k] \in Left(k, 1) /\ \A t \in Left(k, 1) : t <= latest[k]
          /\ Left(k, 1) = {} => Scan(k, Len(table)) = latest[k]
      BY <1>3, <2>1, <3>4, <3>5, <3>6, StopLeaves
    <3>8. latest[k] \in 0 .. Len(log)
      BY <1>5, <3>1 DEF OfKey, None
    <3> QED
      BY <3>7, <3>8 DEF LastLeft
  <2>5. \A k, n : Scan(k, n)' = Scan(k, n)
    BY <1>2 DEF Scan
  <2>6. \A k : Left(k, 1)' = Left(k, 1)
    BY <1>1, <1>2 DEF Left
  <2>7. \A k : LastLeft(k, 1)' <=> LastLeft(k, 1)
    BY <1>2, <2>6 DEF LastLeft
  <2> QED
    BY <1>2, <2>1, <2>3, <2>4, <2>5, <2>6, <2>7 DEF Repairable, Durable
<1>7. \A t \in 1 .. Len(log) : ~(t > Len(log))
  BY <1>5
<1> QED
  BY <1>1, <1>2, <1>4, <1>6, <1>7 DEF DInv, Up, Recovering

\* Closing in order.
LEMMA CloseDb == ASSUME DInv, Close PROVE DInv'
<1>1. CASE phase = "open"
  <2>1. /\ UNCHANGED <<vars, opens, crashes, cursor, known, gone>> /\ written' = written
        /\ phase' = "closing" /\ \A c \in Clients : client[c] = Idle
    BY <1>1 DEF Close, wal
  <2>2. written \in 0 .. Len(log)
    BY DEF DInv, Counters
  <2> QED
    BY <1>1, <2>1, <2>2, QuietDb
<1>2. phase \in {"open", "closing", "flushing"}
  BY DEF Close
<1> QED
  BY <1>1, <1>2, CloseFlush, CloseWrites

\* A crash: what the WAL writer has not written is gone, and so may be the batches that
\* are not synced.
LEMMA CrashDb == ASSUME DInv, Reopened, Crash PROVE DInv'
<1>1. /\ Up /\ crashes < MaxCrashes /\ crashes' = crashes + 1 /\ phase' = "down"
      /\ WalAhead => \A t \in 1 .. Len(log) : InTable(t, Len(table)) => t <= written
      /\ UNCHANGED <<log, completed, synced, forgotten, stamp, clock, cursor, known, opens,
                     written>>
  BY DEF Crash
<1>2. TypeOK /\ Kept /\ Counters
  BY <1>1 DEF DInv
<1>3. PICK n \in synced .. Len(table) : \E G, S :
         /\ table' = SubSeq(table, 1, n)
         /\ G = gone \cup {t \in 1 .. Len(log) : t > written} /\ gone' = G
         /\ S = {t \in 1 .. Len(log) : t \notin G \/ InTable(t, n)} /\ latest' = LastOf(S)
  BY DEF Crash
<1>4. PICK G, S :
         /\ table' = SubSeq(table, 1, n)
         /\ G = gone \cup {t \in 1 .. Len(log) : t > written} /\ gone' = G
         /\ S = {t \in 1 .. Len(log) : t \notin G \/ InTable(t, n)} /\ latest' = LastOf(S)
  BY <1>3
<1>5. /\ Len(log) \in Nat /\ Len(table) \in Nat /\ n \in Nat /\ n <= Len(table)
      /\ written \in 0 .. Len(log) /\ crashes \in Nat /\ synced \in 0 .. Len(table)
  BY <1>2, <1>4 DEF TypeOK, Counters
<1>6. WalAhead
  <2>1. MaxCrashes # 0
    BY <1>1, <1>5, DatabaseAssumption
  <2> QED
    BY <2>1 DEF Reopened
<1>7. /\ table' \in Seq(Memtables) /\ Len(table') = n /\ DOMAIN table' = 1 .. n
      /\ \A b \in 1 .. n : table'[b] = table[b] /\ b \in DOMAIN table
  BY <1>2, <1>4, <1>5 DEF Kept
<1>8. S \in SUBSET (1 .. Len(log))
  BY <1>4
<1>9. Kept'
  <2>1. latest' \in Memtables
    BY <1>2, <1>4, <1>8, LastOfIs
  <2> QED
    BY <1>1, <1>2, <1>7, <2>1 DEF Kept
<1>10. Counters'
  <2>1. gone' \subseteq 1 .. Len(log')
    <3>1. G \subseteq 1 .. Len(log)
      BY <1>2, <1>4 DEF Counters
    <3> QED
      BY <1>1, <1>4, <3>1
  <2>2. crashes' \in Nat
    BY <1>1, <1>5
  <2> QED
    BY <1>1, <1>2, <2>1, <2>2 DEF Counters
<1>11. \A t \in 1 .. Len(log') : t > written' => t \in gone'
  BY <1>1, <1>4
<1>12. ASSUME opens = 1 PROVE Repairable'
  <2>1. Durable /\ gone = {}
    BY <1>1, <1>12 DEF DInv, FirstLife
  <2>2. \A t \in 1 .. Len(log) : InTable(t, Len(table)) => t <= written
    BY <1>1, <1>6
  <2>3. S = 1 .. written /\ 1 .. Len(log) \ G = 1 .. written
    <3>1. \A t \in 1 .. Len(log) : InTable(t, n) => InTable(t, Len(table))
      BY <1>5 DEF InTable
    <3>2. G = {t \in 1 .. Len(log) : t > written}
      BY <1>4, <2>1
    <3>3. \A t \in 1 .. written : t \in 1 .. Len(log)
      BY <1>5
    <3>4. \A t \in 1 .. Len(log) : t <= written <=> ~(t > written)
      BY <1>5
    <3>5. \A t \in 1 .. Len(log) : t \in 1 .. written <=> t <= written
      BY <1>5
    <3> QED
      BY <1>4, <2>2, <3>1, <3>2, <3>3, <3>4, <3>5
  <2>4. ASSUME NEW k \in Keys
        PROVE  /\ OfKey(k, written) = {} => latest'[k] = None
               /\ OfKey(k, written) # {} =>
                     latest'[k] \in OfKey(k, written) /\ \A t \in OfKey(k, written) : t <= latest'[k]
    <3>1. OfKey(k, written) = {t \in S : log[t].key = k}
      BY <2>3 DEF OfKey
    <3> QED
      BY <1>2, <1>4, <1>8, <3>1, LastOfIs
  <2>5. ASSUME NEW k \in Keys
        PROVE  /\ Unmarked(k, written) # {} =>
                     latest'[k] \in Unmarked(k, written) /\ \A t \in Unmarked(k, written) : t <= latest'[k]
               /\ Unmarked(k, written) = {} => Scan(k, n) = latest'[k]
    <3>1. PICK l : l = latest'[k]
      OBVIOUS
    <3>2. /\ OfKey(k, written) = {} => l = None
          /\ OfKey(k, written) # {} => l \in OfKey(k, written) /\ \A t \in OfKey(k, written) : t <= l
      BY <2>4, <3>1
    <3>3. /\ Unmarked(k, written) # {} => l \in Unmarked(k, written) /\ \A t \in Unmarked(k, written) : t <= l
          /\ Unmarked(k, written) = {} => Scan(k, n) = l
      BY <1>2, <1>4, <1>5, <2>1, <2>2, <3>2, StopLeaves
    <3> QED
      BY <3>1, <3>3
  <2>6. \A k \in Keys : Scan(k, Len(table))' = Scan(k, n)
    <3>1. \A k, m : Scan(k, m)' = ScanOf(table', k, m)
      BY DEF Scan, ScanOf, LastEntry, Having
    <3>2. \A k : ScanOf(table', k, n) = ScanOf(table, k, n)
      BY <1>5, <1>7, ScanSame
    <3> QED
      BY <1>7, <3>1, <3>2, ScanIsScanOf
  <2>7. \A k \in Keys : Left(k, 1)' = Unmarked(k, written)
    <3>1. \A k \in Keys : Left(k, 1)' = {t \in 1 .. Len(log) : log[t].key = k /\ t \notin completed \cup G}
      BY <1>1, <1>4 DEF Left
    <3>2. \A t \in 1 .. Len(log) : t \notin G <=> t \in 1 .. written
      BY <2>3
    <3>3. 1 .. written \subseteq 1 .. Len(log)
      BY <1>5
    <3> QED
      BY <3>1, <3>2, <3>3 DEF Unmarked, OfKey
  <2>8. \A k \in Keys : latest'[k] \in 0 .. Len(log)
    <3>1. \A k \in Keys : OfKey(k, written) \subseteq 1 .. Len(log)
      BY <1>5 DEF OfKey
    <3> QED
      BY <1>5, <2>4, <3>1 DEF None
  <2>9. LatestIn(1 .. Len(log) \ gone)'
    <3>1. ASSUME NEW t \in 1 .. written PROVE t <= latest'[log[t].key]
      <4>1. log[t].key \in Keys
        <5>1. t \in 1 .. Len(log)
          BY <1>5
        <5> QED
          BY <1>2, <5>1, LoggedEntry DEF Kept
      <4>2. t \in OfKey(log[t].key, written)
        BY DEF OfKey
      <4> QED
        BY <2>4, <4>1, <4>2
    <3>2. ASSUME NEW k \in Keys, latest'[k] # None
          PROVE  latest'[k] \in 1 .. written /\ log[latest'[k]].key = k
      <4>1. latest'[k] \in OfKey(k, written)
        BY <2>4, <3>2
      <4> QED
        BY <4>1 DEF OfKey
    <3> QED
      BY <1>1, <1>4, <2>3, <3>1, <3>2 DEF LatestIn
  <2>10. \A b \in DOMAIN table' : \A k \in Keys : table'[b][k] \in 0 .. Len(log)
    BY <1>7, <2>1 DEF Durable
  <2>11. \A k \in Keys :
            /\ latest'[k] \in 0 .. Len(log')
            /\ Left(k, 1)' # {} => LastLeft(k, 1)'
            /\ Left(k, 1)' = {} => Scan(k, Len(table))' = latest'[k]
    <3>1. \A k \in Keys : Left(k, 1)' # {} => LastLeft(k, 1)'
      BY <2>5, <2>7 DEF LastLeft
    <3> QED
      BY <1>1, <2>5, <2>6, <2>7, <2>8, <3>1
  <2> QED
    BY <1>1, <2>9, <2>10, <2>11 DEF Repairable
<1> QED
  BY <1>1, <1>9, <1>10, <1>11, <1>12 DEF DInv, Up, Recovering

\* Opening: the index is rebuilt from the table file, and the latest transaction of a key is
\* the last one that recovery will replay, or in the table file.
LEMMA OpenDb == ASSUME DInv, Reopened, Open PROVE DInv'
<1>1. /\ ~Up /\ phase' = "recovering" /\ cursor' = 1 /\ known' = Len(log) /\ written' = Len(log)
      /\ active' = Empty /\ active_tx' = {} /\ immutable' = Empty /\ immutable_tx' = {}
      /\ synced' = Len(table) /\ cache' = Empty
      /\ future' = 0 /\ jobs' = <<>> /\ active_flushes' = 0 /\ client' = [c \in Clients |-> Idle]
      /\ UNCHANGED <<log, completed, table, forgotten, stamp, clock, latest, crashes, gone>>
  BY DEF Open, hist
<1>2. Kept /\ Counters /\ opens = 1 /\ opens' = 2
  <2>1. opens \in 1 .. 2 /\ opens < MaxOpens /\ MaxOpens <= 2 /\ MaxOpens \in Nat /\ opens' = opens + 1
    BY DatabaseAssumption DEF DInv, Counters, Open, Reopened
  <2>2. opens = 1
    BY <2>1
  <2> QED
    BY <2>1, <2>2 DEF DInv
<1>3. Repairable
  BY <1>1, <1>2 DEF DInv
<1>4. /\ Len(log) \in Nat /\ Len(table) \in Nat /\ DOMAIN table = 1 .. Len(table)
      /\ gone \subseteq 1 .. Len(log)
  BY <1>2 DEF Kept, Counters
<1>5. ASSUME NEW k \in Keys
      PROVE  /\ disk_index'[k] \in 0 .. Len(table)
             /\ Value(Scan(k, Len(table))) = Value(OnDisk(k)')
  <2> DEFINE B == {b \in 1 .. Len(table) : table[b][k] # None}
             g == CHOOSE b \in B : \A a \in B : a <= b
  <2>1. disk_index'[k] = IF Deleted(Scan(k, Len(table))) THEN 0 ELSE g
    BY <1>4 DEF Open
  <2>2. Scan(k, Len(table)) = IF B = {} THEN None ELSE table[g][k]
    BY DEF Scan
  <2>3. OnDisk(k)' = IF disk_index'[k] = 0 THEN None ELSE table[disk_index'[k]][k]
    BY <1>1 DEF OnDisk
  <2>4. CASE Deleted(Scan(k, Len(table)))
    <3>1. disk_index'[k] = 0 /\ OnDisk(k)' = None
      BY <2>1, <2>3, <2>4
    <3>2. Value(Scan(k, Len(table))) = None /\ Value(None) = None
      BY <2>4 DEF Value
    <3> QED
      BY <1>4, <3>1, <3>2
  <2>5. CASE ~Deleted(Scan(k, Len(table)))
    <3>1. B # {}
      BY <2>2, <2>5 DEF Deleted
    <3>2. B \in SUBSET (0 .. Len(table)) /\ B \subseteq 1 .. Len(table)
      OBVIOUS
    <3>3. \E b \in B : \A a \in B : a <= b
      <4> HIDE DEF B
      <4> QED
        BY <1>4, <3>1, <3>2, Greatest
    <3>4. g \in B
      <4> HIDE DEF B
      <4> QED
        BY <3>3
    <3>5. g \in 1 .. Len(table) /\ disk_index'[k] = g
      BY <2>1, <2>5, <3>2, <3>4
    <3> HIDE DEF g, B
    <3>6. OnDisk(k)' = Scan(k, Len(table))
      BY <1>4, <2>2, <2>3, <3>1, <3>5
    <3> QED
      BY <1>4, <3>5, <3>6
  <2> QED
    BY <2>4, <2>5
<1>6. TypeOK'
  <2>1. disk_index' \in [Keys -> 0 .. Len(table')]
    <3>1. disk_index' = [k \in Keys |-> disk_index'[k]]
      BY DEF Open
    <3> QED
      BY <1>1, <1>5, <3>1
  <2>2. client' \in [Clients -> ClientType]
    BY <1>1 DEF Idle, ClientType, ClientPCs
  <2> QED
    BY <1>1, <1>2, <1>4, <2>1, <2>2, EmptyType DEF TypeOK, Kept, ClientType
<1>7. Kept' /\ Counters'
  BY <1>1, <1>2, <1>4 DEF Kept, Counters
<1>8. Pending' = {} /\ Inserted' = 1 .. Len(log)
  BY <1>1 DEF Pending, Inserted, Idle
<1>9. LatestBut(gone)'
  BY <1>1, <1>3, <1>4, <1>8 DEF Repairable, LatestBut, LatestIn
<1>10. \A k, n : Scan(k, n)' = Scan(k, n)
  BY <1>1 DEF Scan
<1>11. IndexOK'
  <2>1. Indexed' = Len(table)
    BY <1>1 DEF Indexed, Stage
  <2>2. \A t : Value(t)' = Value(t)
    BY <1>1 DEF Value, Deleted
  <2>3. \A k \in Keys : Value(OnDisk(k))' = Value(OnDisk(k)')
    BY <2>2
  <2> QED
    BY <1>1, <1>3, <1>5, <1>10, <2>1, <2>2, <2>3 DEF IndexOK, Repairable
<1>12. Starting'
  <2>1. Here' = 1 /\ \A k \in Keys : active'[k] = None
    BY <1>1, EmptyType DEF Here
  <2>2. \A k : Left(k, Here)' = Left(k, 1)
    BY <1>1, <2>1 DEF Left
  <2>3. \A k : LastLeft(k, Here)' <=> LastLeft(k, 1)
    BY <1>1, <2>2 DEF LastLeft
  <2>4. \A k \in Keys :
           /\ latest'[k] \in 0 .. Len(log')
           /\ Left(k, Here)' # {} => LastLeft(k, Here)'
           /\ Left(k, Here)' = {} /\ active'[k] # None => active'[k] = latest'[k]
           /\ Left(k, Here)' = {} /\ active'[k] = None => Scan(k, Len(table))' = latest'[k]
    BY <1>1, <1>3, <1>10, <2>1, <2>2, <2>3 DEF Repairable
  <2>5. cursor' <= known' + 1
    BY <1>1, <1>4
  <2> QED
    BY <1>1, <1>11, <2>4, <2>5 DEF Starting
<1> QED
  BY <1>1, <1>2, <1>6, <1>7, <1>9, <1>12 DEF DInv, Up, Recovering

----------------------------------------------------------------------------
(* The invariant, and what it says of reads. *)

\* Initially the database is empty.
LEMMA InitDb == DbInit => DInv
<1> SUFFICES ASSUME DbInit PROVE DInv
  OBVIOUS
<1>1. /\ Init /\ phase = "recovering" /\ cursor = 1 /\ known = 0 /\ opens = 1 /\ crashes = 0
      /\ written = 0 /\ gone = {}
  BY DEF DbInit
<1>2. TypeOK /\ SInv
  BY <1>1, InitInv, InitSInv DEF IInv
<1>3. /\ log = <<>> /\ table = <<>> /\ Len(log) = 0 /\ Len(table) = 0 /\ DOMAIN table = {}
      /\ completed = {} /\ jobs = <<>> /\ active = Empty /\ latest = Empty
  BY <1>1 DEF Init
<1>4. Kept /\ Counters
  BY <1>1, <1>2, <1>3, TypesKept DEF Counters
<1>5. Starting
  <2>1. Here = 1 /\ \A k : Left(k, 1) = {}
    BY <1>1, <1>3 DEF Here, Left
  <2>2. \A k \in Keys : active[k] = None /\ latest[k] = None /\ Scan(k, 0) = None /\ None = 0
    BY <1>3, EmptyType DEF Scan, None
  <2> QED
    BY <1>1, <1>2, <1>3, <2>1, <2>2 DEF Init, Starting, SInv, ReadInv
<1>6. FirstLife
  BY <1>1, <1>2, <1>3, OrderIsDurable DEF FirstLife, SInv
<1> QED
  BY <1>1, <1>2, <1>4, <1>5, <1>6 DEF DInv, Up, Recovering, SInv

\* Every step of the database.
LEMMA NextDb == ASSUME Reopened PROVE DInv /\ NoneLost /\ [DbNext]_dbvars => DInv'
<1> SUFFICES ASSUME DInv, NoneLost, [DbNext]_dbvars PROVE DInv'
  OBVIOUS
<1>1. CASE UNCHANGED dbvars
  <2>1. UNCHANGED <<vars, phase, cursor, known, opens, crashes, written, gone>>
    BY <1>1 DEF dbvars, life, wal
  <2>2. UNCHANGED <<log, completed, active, active_tx, immutable, immutable_tx, table, synced,
                    disk_index, cache, future, jobs, active_flushes, client, forgotten, stamp,
                    clock, latest>>
    BY <2>1 DEF vars, mem, store, sched, hist
  <2>3. /\ \A k, n : Left(k, n)' = Left(k, n)
        /\ \A k, n : LastLeft(k, n)' <=> LastLeft(k, n)
        /\ Here' = Here
    BY <2>1, <2>2 DEF Left, LastLeft, Here
  <2>4. Counters' /\ (LatestBut(gone) => LatestBut(gone)') /\ (Flushing => Flushing')
    BY <2>1, <2>2, RouterStays DEF DInv, Counters, LatestBut, LatestIn, Flushing
  <2>5. Starting => Starting'
    BY <2>1, <2>2, <2>3, RouterStays DEF Starting
  <2>6. FirstLife => FirstLife'
    BY <2>1, <2>2, RouterStays DEF FirstLife
  <2>7. LatestIn(1 .. Len(log) \ gone) => LatestIn(1 .. Len(log) \ gone)'
    BY <2>1, <2>2 DEF LatestIn
  <2>8. Repairable => Repairable'
    BY <2>1, <2>2, <2>3, <2>7, RouterStays DEF Repairable
  <2> QED
    BY <2>1, <2>2, <2>4, <2>5, <2>6, <2>8, RouterStays DEF DInv, Up, Recovering
<1> QED
  BY <1>1, ServeDb, WalWriteDb, RecoverInsertDb, RecoverMarkDb, RecoveredDb, CloseDb, CrashDb,
     OpenDb DEF DbNext

\* Where the WAL may lose no mark, a flush job loses none, and nothing else could.
LEMMA NextNoneLost ==
    ASSUME Reopened PROVE DInv /\ NoneLost /\ [DbNext]_dbvars => NoneLost'
<1> SUFFICES ASSUME DInv, NoneLost, [DbNext]_dbvars PROVE NoneLost'
  OBVIOUS
<1>1. ASSUME NEW j \in DOMAIN jobs, Job(j), Up PROVE forgotten' = {}
  <2>1. CASE JobMark(j)
    <3>1. PICK F \in SUBSET (jobs[j].txs \ Flagged) :
             /\ Cardinality(forgotten \cup F) <= MaxForgotten
             /\ forgotten' = (forgotten \ jobs[j].txs) \cup F
      BY <2>1 DEF JobMark
    <3>2. jobs \in Seq(JobType)
      BY <1>1 DEF DInv, TypeOK, JobType
    <3>3. jobs[j] \in JobType
      BY <1>1, <3>2
    <3>4. F \subseteq 1 .. MaxTx
      <4>1. jobs[j].txs \subseteq Tx
        BY <3>3 DEF JobType
      <4> QED
        BY <3>1, <4>1 DEF Tx
    <3>5. IsFiniteSet(F)
      <4>1. IsFiniteSet(1 .. MaxTx)
        BY RouterAssumption, FS_Interval
      <4> QED
        BY <3>4, <4>1, FS_Subset
    <3>6. forgotten \cup F = F
      BY DEF NoneLost
    <3>7. Cardinality(F) = 0
      <4>1. Cardinality(F) \in Nat
        BY <3>5, FS_CardinalityType
      <4> QED
        BY <3>1, <3>6, <4>1 DEF Reopened
    <3>8. F = {}
      BY <3>5, <3>7, FS_EmptySet
    <3> QED
      BY <3>1, <3>8 DEF NoneLost
  <2>2. CASE ~JobMark(j)
    BY <1>1, <2>2 DEF Job, JobStart, JobCount, JobWrite, JobIndex, JobSync, JobRelease, JobUncount,
                      hist, NoneLost
  <2> QED
    BY <2>1, <2>2
<1>2. ASSUME NEW c \in Clients, Client(c) PROVE forgotten' = {}
  BY <1>2 DEF Client, Set, SetManyLog, SetManyInsert, Insert, CheckFuture, AwaitFlush, Swap, hist,
              NoneLost
<1>3. ASSUME NEW k \in Keys, Reader(k) PROVE forgotten' = {}
  BY <1>3 DEF Reader, GetMiss, CacheEvict, hist, NoneLost
<1>4. CASE UNCHANGED vars
  BY <1>4 DEF vars, hist, NoneLost
<1>5. CASE RecoverInsert \/ RecoverMark \/ Close \/ Crash \/ Open
  BY <1>4, <1>5 DEF RecoverInsert, RecoverMark, Close, Crash, Open, hist, NoneLost
<1> QED
  BY <1>1, <1>2, <1>3, <1>4, <1>5 DEF DbNext, Serve, WalWrite, Recovered, dbvars, NoneLost

\* DInv is an invariant of the database.
THEOREM DatabaseInductive == ASSUME Reopened PROVE DbSpec => []DInv
<1>1. DbInit => DInv /\ NoneLost
  BY InitDb DEF DbInit, Init, NoneLost
<1>2. DInv /\ NoneLost /\ [DbNext]_dbvars => DInv' /\ NoneLost'
  BY NextDb, NextNoneLost
<1> QED
  BY <1>1, <1>2, PTL DEF DbSpec

\* After a close or a crash at any step, _recover_from_wal over the rebuilt index brings back
\* the last value that survived, and reads return it while the database is open: if the WAL
\* has lost no mark of a flush (mark_many_jobs_complete against _write_batch_to_disk).
THEOREM ReopenedReads == ASSUME Reopened PROVE DbSpec => []RestartReads
<1>1. DInv => RestartReads
  <2> SUFFICES ASSUME DInv, phase = "open" PROVE ReadsLatest /\ CacheCoherent
    BY DEF RestartReads, Settled
  <2>1. TypeOK /\ ReadInv
    BY DEF DInv, Up
  <2> QED
    BY <2>1, LookupLatest DEF ReadsLatest, ReadInv
<1> QED
  BY <1>1, DatabaseInductive, PTL

----------------------------------------------------------------------------
(* The abstract database. *)

LatestValues == [k \in Keys |-> Value(latest[k])]

\* The content of writes of which latest has the last for each key.
LEMMA ContentIs ==
    ASSUME latest \in Memtables, NEW n \in Nat, NEW S \in SUBSET (1 .. n), LatestIn(S)
    PROVE  KV!Content(WritesOf(S)) = LatestValues
<1> SUFFICES ASSUME NEW k \in Keys PROVE KV!Content(WritesOf(S))[k] = Value(latest[k])
  BY DEF KV!Content, KV!Over, LatestValues
<1> DEFINE s == WritesOf(S)
           I == {i \in DOMAIN s : s[i].key = k}
           g == CHOOSE i \in I : \A j \in I : j <= i
<1>1. KV!Content(s)[k] = IF I = {} THEN None ELSE s[g].val
  BY DEF KV!Content, KV!Over
<1>2. I = {i \in S : log[i].key = k} /\ \A i \in S : s[i].val = Value(i)
  BY DEF WritesOf
<1> HIDE DEF s
<1>3. CASE I = {}
  <2>1. latest[k] = None
    BY <1>2, <1>3 DEF LatestIn
  <2>2. Value(None) = None
    BY DEF Value, Deleted
  <2> QED
    BY <1>1, <1>3, <2>1, <2>2 DEF s
<1>4. CASE I # {}
  <2>1. \A i \in I : i \in 1 .. n /\ i <= latest[k]
    BY <1>2 DEF LatestIn
  <2>2. latest[k] # None
    <3>1. PICK i \in I : TRUE
      BY <1>4
    <3> QED
      BY <2>1, <3>1 DEF None
  <2>3. latest[k] \in I
    BY <1>2, <2>2 DEF LatestIn
  <2> HIDE DEF I
  <2>4. \A i \in I : (\A j \in I : j <= i) => i = latest[k]
    BY <2>1, <2>3
  <2>5. g = latest[k]
    BY <2>1, <2>3, <2>4
  <2>6. g \in S
    BY <1>2, <2>3, <2>5 DEF I
  <2> QED
    BY <1>1, <1>2, <1>4, <2>5, <2>6 DEF s
<1> QED
  BY <1>3, <1>4

\* Writing s and then t, which follows it, writes both.
LEMMA OverJoined ==
    ASSUME NEW m, NEW s, NEW t, NEW n \in Nat, DOMAIN s \cup DOMAIN t \subseteq 1 .. n,
           \A i \in DOMAIN t : \A j \in DOMAIN s : j < i
    PROVE  KV!Over(m, KV!Joined(s, t)) = KV!Over(KV!Over(m, s), t)
<1> SUFFICES ASSUME NEW k \in Keys
             PROVE  KV!Over(m, KV!Joined(s, t))[k] = KV!Over(KV!Over(m, s), t)[k]
  BY DEF KV!Over
<1> DEFINE u == KV!Joined(s, t)
           I == {i \in DOMAIN s : s[i].key = k}
           J == {i \in DOMAIN t : t[i].key = k}
           U == {i \in DOMAIN u : u[i].key = k}
           gi == CHOOSE i \in I : \A j \in I : j <= i
           gj == CHOOSE i \in J : \A j \in J : j <= i
           gu == CHOOSE i \in U : \A j \in U : j <= i
<1>1. KV!Over(m, u)[k] = IF U = {} THEN m[k] ELSE u[gu].val
  BY DEF KV!Over
<1>2. KV!Over(KV!Over(m, s), t)[k] =
          IF J # {} THEN t[gj].val ELSE IF I = {} THEN m[k] ELSE s[gi].val
  BY DEF KV!Over
<1>3. /\ DOMAIN u = DOMAIN s \cup DOMAIN t
      /\ \A i \in DOMAIN s : u[i] = s[i]
      /\ \A i \in DOMAIN t : i \notin DOMAIN s => u[i] = t[i]
  BY DEF KV!Joined
<1>4. \A i \in DOMAIN t : i \notin DOMAIN s
  <2>1. \A i \in DOMAIN t : ~(i < i)
    OBVIOUS
  <2> QED
    BY <2>1
<1> HIDE DEF u
<1>5. U = I \cup J
  BY <1>3, <1>4
<1>6. /\ I \in SUBSET (0 .. n) /\ J \in SUBSET (0 .. n)
      /\ \A i \in J : i \in DOMAIN t /\ t[i] = u[i]
      /\ \A i \in I : i \in DOMAIN s /\ s[i] = u[i]
  <2>1. 1 .. n \subseteq 0 .. n
    OBVIOUS
  <2> QED
    BY <1>3, <1>4, <2>1
<1>7. \A i \in J : \A j \in I : j < i
  BY <1>6
<1> HIDE DEF I, J, U
<1>8. CASE J = {}
  <2>1. U = I /\ gu = gi
    BY <1>5, <1>8
  <2>2. I # {} => s[gi] = u[gi]
    <3>1. I # {} => \E i \in I : \A j \in I : j <= i
      BY <1>6, Greatest
    <3>2. I # {} => gi \in I
      BY <3>1
    <3> QED
      BY <1>6, <3>2
  <2> QED
    BY <1>1, <1>2, <1>8, <2>1, <2>2 DEF u
<1>9. CASE J # {}
  <2>1. \E i \in J : \A j \in J : j <= i
    BY <1>6, <1>9, Greatest
  <2>2. gj \in J /\ \A j \in J : j <= gj
    BY <2>1
  <2> HIDE DEF gj
  <2>3. gj \in U /\ \A j \in U : j <= gj /\ j \in 0 .. n
    BY <1>5, <1>6, <1>7, <2>2
  <2>4. \A i \in U : (\A j \in U : j <= i) => i = gj
    BY <2>3
  <2>5. gu = gj
    BY <2>3, <2>4
  <2> QED
    BY <1>1, <1>2, <1>6, <1>9, <2>2, <2>3, <2>5 DEF u, gj
<1> QED
  BY <1>8, <1>9

\* What survives and what is under way, when the database is up and when it is not.
LEMMA SurvivorsAre ==
    ASSUME DInv
    PROVE  /\ Len(log) \in Nat /\ Len(log) <= MaxTx /\ DOMAIN log = 1 .. Len(log)
           /\ log \in Seq(Entries) /\ written \in 0 .. Len(log)
           /\ Survivors \subseteq 1 .. Len(log) /\ Underway \subseteq 1 .. Len(log)
           /\ Up => Underway = Pending /\ Survivors = Inserted \ gone
           /\ ~Up => Underway = {} /\ Survivors = 1 .. Len(log) \ gone
           /\ Survivors \cup Underway = 1 .. Len(log) \ gone
<1>1. /\ Len(log) \in Nat /\ Len(log) <= MaxTx /\ DOMAIN log = 1 .. Len(log)
      /\ log \in Seq(Entries) /\ written \in 0 .. Len(log) /\ gone \subseteq 1 .. Len(log)
  BY DEF DInv, Kept, Counters
<1>2. CASE Up
  <2>1. Underway = Pending /\ Survivors = Inserted \ gone /\ gone \subseteq Inserted
    BY <1>1, <1>2 DEF Underway, Survivors, Pending, Inserted, DInv, LatestBut
  <2>2. Pending \subseteq 1 .. Len(log)
    <3>1. CASE phase \in {"open", "closing"}
      BY <3>1 DEF DInv, ReadInv, PendingOK
    <3>2. CASE phase \notin {"open", "closing"}
      <4>1. \A c \in Clients : client[c] = Idle
        BY <1>2, <3>2 DEF DInv, Counters, Up, Recovering, Starting
      <4> QED
        BY <4>1 DEF Pending, Idle
    <3> QED
      BY <3>1, <3>2
  <2>3. Inserted \cap Pending = {} /\ Inserted \cup Pending = 1 .. Len(log)
    BY <2>2 DEF Inserted
  <2> QED
    BY <1>1, <1>2, <2>1, <2>2, <2>3
<1>3. CASE ~Up
  <2>1. Underway = {} /\ Survivors = 1 .. Len(log) \ gone
    BY <1>1, <1>3 DEF Underway, Survivors
  <2> QED
    BY <1>1, <1>3, <2>1
<1> QED
  BY <1>2, <1>3

\* An open database shows the content of what survives.
LEMMA OpenShows ==
    ASSUME DInv, phase = "open"
    PROVE  Shown = LatestValues /\ KV!Content(History) = LatestValues
<1>1. TypeOK /\ ReadInv /\ LatestIn(Survivors) /\ latest \in Memtables /\ Up
  BY SurvivorsAre DEF DInv, Up, LatestBut, Kept
<1>2. \A k \in Keys : Answer(k) = Value(latest[k])
  BY <1>1, LookupLatest DEF Answer, ReadInv, CacheCoherent
<1>3. Shown = LatestValues
  BY <1>2 DEF Shown, LatestValues
<1>4. KV!Content(History) = LatestValues
  BY <1>1, SurvivorsAre, ContentIs DEF History
<1> QED
  BY <1>3, <1>4

\* Values and writes that were logged stay what they are.
LEMMA WritesStay ==
    ASSUME Len(log) \in Nat, Len(log) <= Len(log'), \A t \in 1 .. Len(log) : log'[t] = log[t],
           NEW S \in SUBSET (1 .. Len(log))
    PROVE  [t \in S |-> [key |-> log'[t].key, val |-> Value(t)']] = WritesOf(S)
<1>1. \A t \in S : log'[t] = log[t] /\ Value(t)' = Value(t)
  BY DEF Value, Deleted
<1> QED
  BY <1>1 DEF WritesOf

\* The writes of survivors are writes.
LEMMA WritesAre ==
    DInv => \A t \in 1 .. Len(log) : [key |-> log[t].key, val |-> Value(t)] \in KV!Writes
<1> SUFFICES ASSUME DInv, NEW t \in 1 .. Len(log)
             PROVE  [key |-> log[t].key, val |-> Value(t)] \in KV!Writes
  OBVIOUS
<1>1. t \in Tx /\ log[t].key \in Keys
  BY SurvivorsAre, RouterAssumption, LoggedEntry DEF Tx
<1>2. Value(t) \in Tx \cup {None}
  BY <1>1 DEF Value
<1> QED
  BY <1>1, <1>2 DEF KV!Writes

\* What the WAL writer has written is the start of what survives.
LEMMA SafeStarts == ASSUME DInv PROVE KV!StartOf(Safe, Survivors)
<1>1. \A t \in Survivors : t \in Nat
  BY SurvivorsAre
<1> QED
  BY <1>1, SurvivorsAre DEF KV!StartOf, Safe

\* More of it gets safe.
LEMMA SafeGrows ==
    ASSUME DInv, DInv', Survivors \subseteq Survivors', written <= written' PROVE KV!Grows
<1>1. DOMAIN History' = Survivors'
  BY DEF History, WritesOf
<1>2. KV!StartOf(Safe', Survivors')
  <2>1. KV!StartOf(Safe, Survivors)'
    BY SafeStarts, PTL
  <2> QED
    BY <2>1
<1>3. Safe \subseteq Safe'
  <2>1. written \in Nat /\ Survivors \subseteq Nat
    BY SurvivorsAre
  <2>2. written' \in Nat
    BY DEF DInv, Counters, Kept
  <2>3. \A t \in Survivors : t <= written => t \in Survivors' /\ t <= written'
    BY <2>1, <2>2
  <2> QED
    BY <2>3 DEF Safe
<1> QED
  BY <1>1, <1>2, <1>3 DEF KV!Grows

\* A step that adds no write and shows the same is none of the abstract database's.
LEMMA Stutters ==
    ASSUME DInv, Mode' = Mode, Survivors' = Survivors, Underway' = Underway, Shown' = Shown,
           written' = written, Len(log) <= Len(log'), \A t \in 1 .. Len(log) : log'[t] = log[t]
    PROVE  UNCHANGED KV!kvvars
<1>1. \A S \in SUBSET (1 .. Len(log)) :
         [t \in S |-> [key |-> log'[t].key, val |-> Value(t)']] = WritesOf(S)
  BY SurvivorsAre, WritesStay
<1>2. History' = History /\ Call' = Call
  BY <1>1, SurvivorsAre DEF History, Call, WritesOf
<1>3. Safe' = Safe
  BY DEF Safe
<1> QED
  BY <1>2, <1>3 DEF KV!kvvars

----------------------------------------------------------------------------
(* The steps of the database as steps of the abstract one. *)

\* The same after a step.
LEMMA OpenShowsNext == ASSUME DInv', phase' = "open" PROVE Shown' = KV!Content(History')
<1>1. (phase = "open")'
  OBVIOUS
<1>2. (Shown = LatestValues /\ KV!Content(History) = LatestValues)'
  BY <1>1, OpenShows, PTL
<1> QED
  BY <1>2

\* After writes that follow those that survive, an open database shows them.
LEMMA ShowsMore ==
    ASSUME DInv, DInv', phase = "open", phase' = "open", NEW t, NEW n \in Nat,
           DOMAIN t \cup Survivors \subseteq 1 .. n, \A i \in DOMAIN t : \A j \in Survivors : j < i,
           History' = KV!Joined(History, t)
    PROVE  Shown' = KV!Over(Shown, t)
<1>1. Shown = KV!Content(History) /\ DOMAIN History = Survivors
  BY OpenShows DEF History, WritesOf
<1>2. Shown' = KV!Content(History')
  BY OpenShowsNext
<1>3. PICK m : m = [k \in Keys |-> None]
  OBVIOUS
<1>4. Shown = KV!Over(m, History) /\ Shown' = KV!Over(m, KV!Joined(History, t))
  BY <1>1, <1>2, <1>3 DEF KV!Content
<1>5. KV!Over(m, KV!Joined(History, t)) = KV!Over(KV!Over(m, History), t)
  BY <1>1, OverJoined
<1> QED
  BY <1>4, <1>5

\* Steps that log and insert nothing.
LEMMA OtherSteps ==
    ASSUME TypeOK, PendingOK, [Next]_vars,
           \A c \in Clients : ~Set(c) /\ ~SetManyLog(c) /\ ~SetManyInsert(c)
    PROVE  log' = log /\ latest' = latest /\ Pending' = Pending
<1>1. client \in [Clients -> ClientType]
  BY DEF TypeOK, ClientType
<1>2. CASE UNCHANGED vars
  BY <1>2 DEF vars, hist, Pending
<1>3. ASSUME NEW c \in Clients, Client(c) PROVE log' = log /\ latest' = latest /\ Pending' = Pending
  <2>1. CASE CheckFuture(c)
    <3>1. log' = log /\ latest' = latest
      BY <2>1 DEF CheckFuture, hist
    <3>2. \A d \in Clients : client'[d].txs = client[d].txs
      <4>1. /\ client[c] \in ClientType
            /\ [client[c] EXCEPT !.pc = "swap"].txs = client[c].txs
            /\ [client[c] EXCEPT !.pc = "waiting", !.wait = future].txs = client[c].txs
        BY <1>1 DEF ClientType
      <4>2. PICK r : client' = [client EXCEPT ![c] = r] /\ r.txs = client[c].txs
        BY <2>1, <4>1 DEF CheckFuture
      <4> QED
        BY <1>1, <4>2
    <3> QED
      BY <3>1, <3>2 DEF Pending
  <2>2. CASE AwaitFlush(c) \/ Swap(c)
    <3>1. log' = log /\ latest' = latest
      BY <2>2 DEF AwaitFlush, Swap, hist
    <3>2. \A d \in Clients : client'[d].txs = client[d].txs
      <4>1. client[c].pc # "logged"
        BY <2>2 DEF AwaitFlush, Swap
      <4>2. client[c].txs = {} /\ client[c] \in ClientType
        BY <1>1, <4>1 DEF PendingOK
      <4>3. [client[c] EXCEPT !.pc = "swap"].txs = {} /\ Idle.txs = {}
        BY <4>2 DEF Idle, ClientType
      <4>4. PICK r : client' = [client EXCEPT ![c] = r] /\ r.txs = {}
        BY <2>2, <4>3 DEF AwaitFlush, Swap
      <4> QED
        BY <1>1, <4>2, <4>4
    <3> QED
      BY <3>1, <3>2 DEF Pending
  <2> QED
    BY <1>3, <2>1, <2>2 DEF Client
<1>4. ASSUME NEW k \in Keys, Reader(k) PROVE log' = log /\ latest' = latest /\ Pending' = Pending
  BY <1>4 DEF Reader, GetMiss, CacheEvict, hist, Pending
<1>5. ASSUME NEW j \in DOMAIN jobs, Job(j) PROVE log' = log /\ latest' = latest /\ Pending' = Pending
  BY <1>5 DEF Job, JobStart, JobCount, JobWrite, JobIndex, JobSync, JobMark, JobRelease, JobUncount,
              hist, Pending
<1> QED
  BY <1>2, <1>3, <1>4, <1>5 DEF Next

\* They leave the abstract database alone.
LEMMA OtherRefines ==
    ASSUME DInv, DInv', Up, TypeOK, [Next]_vars, UNCHANGED <<life, wal>>,
           log' = log, latest' = latest, Pending' = Pending
    PROVE  UNCHANGED KV!kvvars
<1>1. UNCHANGED <<phase, written, gone>> /\ Up'
  BY DEF life, wal, Up
<1>2. Mode' = Mode
  BY <1>1 DEF Mode
<1>3. Underway' = Underway
  BY <1>1 DEF Underway, Pending
<1>4. Survivors' = Survivors
  BY <1>1, <1>3 DEF Survivors
<1>5. Shown' = Shown
  <2>1. CASE phase = "open"
    <3>1. (phase = "open")'
      BY <1>1, <2>1
    <3>2. (Shown = LatestValues)'
      BY <3>1, OpenShows, PTL
    <3>3. LatestValues' = LatestValues
      BY DEF LatestValues, Value, Deleted
    <3> QED
      BY <2>1, <3>2, <3>3, OpenShows
  <2>2. CASE phase # "open"
    BY <1>1, <2>2 DEF Shown
  <2> QED
    BY <2>1, <2>2
<1>6. Len(log) <= Len(log') /\ \A t \in 1 .. Len(log) : log'[t] = log[t]
  BY SurvivorsAre
<1> QED
  BY <1>1, <1>2, <1>3, <1>4, <1>5, <1>6, Stutters

\* An open database, before and after a step of the router.
LEMMA OpenStep ==
    ASSUME DInv, DInv', phase = "open", UNCHANGED <<life, wal>>, [Next]_vars
    PROVE  /\ UNCHANGED <<phase, written, gone>> /\ Up /\ Up' /\ TypeOK /\ ReadInv
           /\ Mode = "open" /\ Mode' = "open"
           /\ Len(log) \in Nat /\ Len(log') \in Nat /\ Len(log) <= Len(log') /\ written <= Len(log)
           /\ \A t \in 1 .. Len(log) : log'[t] = log[t]
           /\ gone \subseteq Inserted /\ Underway = Pending /\ Survivors = Inserted \ gone
           /\ Underway' = Pending' /\ Survivors' = Inserted' \ gone
           /\ DOMAIN History = Survivors /\ DOMAIN History' = Survivors'
           /\ DOMAIN Call = Underway /\ DOMAIN Call' = Underway'
           /\ \A t \in Survivors : History[t] = [key |-> log[t].key, val |-> Value(t)]
           /\ \A t \in Survivors' : History'[t] = [key |-> log'[t].key, val |-> Value(t)']
           /\ \A t \in Underway : Call[t] = [key |-> log[t].key, val |-> Value(t)]
           /\ \A t \in Underway' : Call'[t] = [key |-> log'[t].key, val |-> Value(t)']
<1>1. UNCHANGED <<phase, written, gone>> /\ Up /\ Up' /\ Mode = "open" /\ Mode' = "open"
  BY DEF life, wal, Up, Mode
<1>2. TypeOK /\ ReadInv /\ gone \subseteq Inserted
  BY <1>1 DEF DInv, LatestBut
<1>3. Len(log) <= Len(log') /\ \A t \in 1 .. Len(log) : log'[t] = log[t]
  BY <1>2, LogGrows
<1>4. Len(log) \in Nat /\ written <= Len(log) /\ Underway = Pending /\ Survivors = Inserted \ gone
  BY <1>1, SurvivorsAre
<1>5. Len(log') \in Nat /\ Underway' = Pending' /\ Survivors' = Inserted' \ gone
  <2>1. (Len(log) \in Nat)' /\ (Up => Underway = Pending /\ Survivors = Inserted \ gone)'
    BY SurvivorsAre, PTL
  <2> QED
    BY <1>1, <2>1
<1>6. /\ DOMAIN History = Survivors /\ DOMAIN Call = Underway
      /\ \A t \in Survivors : History[t] = [key |-> log[t].key, val |-> Value(t)]
      /\ \A t \in Underway : Call[t] = [key |-> log[t].key, val |-> Value(t)]
  BY DEF History, Call, WritesOf
<1>7. /\ DOMAIN History' = Survivors' /\ DOMAIN Call' = Underway'
      /\ \A t \in Survivors' : History'[t] = [key |-> log'[t].key, val |-> Value(t)']
      /\ \A t \in Underway' : Call'[t] = [key |-> log'[t].key, val |-> Value(t)']
  BY DEF History, Call, WritesOf
<1> QED
  BY <1>1, <1>2, <1>3, <1>4, <1>5, <1>6, <1>7

\* Writes logged before a step are the same after it.
LEMMA SameWrite ==
    ASSUME NEW t \in 1 .. Len(log), \A u \in 1 .. Len(log) : log'[u] = log[u]
    PROVE  [key |-> log'[t].key, val |-> Value(t)'] = [key |-> log[t].key, val |-> Value(t)]
BY DEF Value, Deleted

\* set and delete are a write.
LEMMA SetWrites ==
    ASSUME DInv, DInv', Single, phase = "open", UNCHANGED <<life, wal>>, NEW c \in Clients, Set(c)
    PROVE  KV!Write
<1>1. [Next]_vars
  BY DEF Next, Client
<1>2. PICK e \in Entries : log' = Append(log, e) /\ Insert(c, {Len(log) + 1}, log')
  BY DEF Set
<1>3. /\ TypeOK /\ PendingOK /\ log \in Seq(Entries) /\ Len(log) \in Nat
      /\ client \in [Clients -> ClientType]
  <2>1. TypeOK /\ PendingOK
    BY Zenon DEF DInv, ReadInv, Up
  <2>2. log \in Seq(Entries) /\ client \in [Clients -> ClientType]
    BY <2>1 DEF TypeOK, ClientType
  <2> QED
    BY <2>1, <2>2
<1>4. Pending = {} /\ Pending' = {} /\ Len(log') = Len(log) + 1
  <2>1. client[c].txs = {}
    BY <1>3 DEF Set, PendingOK
  <2>2. client'[c].txs = {}
    <3>1. PICK pc : client' = [client EXCEPT ![c] = [Idle EXCEPT !.pc = pc]]
      BY <1>2 DEF Insert
    <3>2. [Idle EXCEPT !.pc = pc].txs = {}
      BY DEF Idle
    <3> QED
      BY <1>3, <3>1, <3>2
  <2> QED
    BY <1>2, <1>3, <2>1, <2>2, PendingIs
<1>5. PICK n : n = Len(log) + 1 /\ n \in Nat /\ Inserted = 1 .. Len(log) /\ Inserted' = 1 .. n
  BY <1>3, <1>4 DEF Inserted
<1> DEFINE new == KV!Part(History', DOMAIN History' \ DOMAIN History)
<1>6. Survivors \subseteq 1 .. Len(log) /\ Survivors' = Survivors \cup {n} /\ n \notin Survivors
  <2>1. Survivors = 1 .. Len(log) \ gone /\ Survivors' = 1 .. n \ gone /\ gone \subseteq 1 .. Len(log)
    BY <1>1, <1>5, OpenStep
  <2> QED
    BY <1>3, <1>5, <2>1
<1>7. DOMAIN new = {n} /\ new[n] = History'[n]
  BY <1>1, <1>6, OpenStep DEF KV!Part
<1> HIDE DEF new
<1>8. \A t \in Survivors : History'[t] = History[t]
  <2>1. /\ \A t \in 1 .. Len(log) : log'[t] = log[t]
        /\ \A t \in Survivors : History[t] = [key |-> log[t].key, val |-> Value(t)]
        /\ \A t \in Survivors' : History'[t] = [key |-> log'[t].key, val |-> Value(t)']
    BY <1>1, OpenStep
  <2>2. \A t \in 1 .. Len(log) :
           [key |-> log'[t].key, val |-> Value(t)'] = [key |-> log[t].key, val |-> Value(t)]
    BY <2>1, SameWrite
  <2> QED
    BY <1>6, <2>1, <2>2
<1>9. new[n] \in KV!Writes
  <2>1. (\A t \in 1 .. Len(log) : [key |-> log[t].key, val |-> Value(t)] \in KV!Writes)'
    BY WritesAre, PTL
  <2>2. n \in 1 .. Len(log')
    BY <1>3, <1>4, <1>5
  <2>3. History'[n] = [key |-> log'[n].key, val |-> Value(n)']
    BY <1>1, <1>6, OpenStep
  <2> QED
    BY <1>7, <2>1, <2>2, <2>3
<1>10. DOMAIN History = Survivors /\ DOMAIN History' = Survivors' /\ phase' = "open"
       /\ \A i \in DOMAIN new : \A j \in Survivors : j < i
  <2>1. \A j \in Survivors : j < n
    BY <1>3, <1>5, <1>6
  <2> QED
    BY <1>1, <1>7, <2>1, OpenStep
<1>11. KV!Follows(new, History)
  BY <1>5, <1>7, <1>9, <1>10 DEF KV!Follows
<1>12. History' = KV!Joined(History, new)
  <2>1. History' = [i \in Survivors' |-> History'[i]]
    BY DEF History, WritesOf
  <2> QED
    BY <1>6, <1>7, <1>8, <1>10, <2>1 DEF KV!Joined
<1>13. Shown' = KV!Over(Shown, new)
  <2>1. DOMAIN new \cup Survivors \subseteq 1 .. n
    <3>1. 1 .. Len(log) \subseteq 1 .. n /\ n \in 1 .. n
      BY <1>3, <1>5
    <3> QED
      BY <1>6, <1>7, <3>1
  <2> QED
    BY <1>5, <1>10, <1>12, <2>1, ShowsMore
<1>14. KV!Grows
  <2>1. written' = written /\ written <= written'
    BY <1>1, OpenStep, SurvivorsAre
  <2> QED
    BY <1>6, <2>1, SafeGrows
<1>15. Call = KV!Nothing /\ Call' = KV!Nothing /\ new # KV!Nothing
  <2>1. Underway = {} /\ Underway' = {}
    BY <1>1, <1>4, OpenStep
  <2> QED
    BY <1>7, <2>1 DEF Call, WritesOf, KV!Nothing
<1> QED
  BY <1>1, <1>11, <1>12, <1>13, <1>14, <1>15, OpenStep DEF KV!Write, new

\* What survives a step without being changed is shown without being changed.
LEMMA SameHistory ==
    ASSUME DInv, DInv', phase = "open", UNCHANGED <<life, wal>>, [Next]_vars, Survivors' = Survivors
    PROVE  History' = History /\ Safe' = Safe /\ Shown' = Shown
<1>1. /\ Survivors \subseteq 1 .. Len(log) /\ phase' = "open" /\ written' = written
      /\ \A t \in 1 .. Len(log) : log'[t] = log[t]
  BY OpenStep, SurvivorsAre
<1>2. History' = History
  <2>1. \A t \in Survivors : log'[t].key = log[t].key /\ Value(t)' = Value(t)
    BY <1>1 DEF Value, Deleted
  <2> QED
    BY <2>1 DEF History, WritesOf
<1>3. Shown' = Shown
  BY <1>1, <1>2, OpenShows, OpenShowsNext
<1> QED
  BY <1>1, <1>2, <1>3 DEF Safe

\* set_many logs the whole batch: a call begins.
LEMMA SetManyBegins ==
    ASSUME DInv, DInv', Single, phase = "open", UNCHANGED <<life, wal>>,
           NEW c \in Clients, SetManyLog(c)
    PROVE  KV!Begin
<1>1. [Next]_vars
  BY DEF Next, Client
<1>2. TypeOK /\ PendingOK /\ log \in Seq(Entries) /\ Len(log) \in Nat
  <2>1. TypeOK /\ PendingOK
    BY DEF DInv, ReadInv, Up
  <2>2. log \in Seq(Entries)
    BY <2>1 DEF TypeOK
  <2> QED
    BY <2>1, <2>2
<1>3. PICK n \in 1 .. Cardinality(Keys) :
         \E s \in [1 .. n -> Entries] :
            /\ log' = log \o s
            /\ client' = [client EXCEPT ![c] =
                  [Idle EXCEPT !.pc = "logged", !.txs = Len(log) + 1 .. Len(log) + n]]
  BY DEF SetManyLog
<1>4. Len(log') = Len(log) + n /\ n \in Nat
  <2>1. PICK s \in [1 .. n -> Entries] : log' = log \o s
    BY <1>3
  <2>2. n \in Nat
    BY <1>3
  <2>3. s \in Seq(Entries) /\ Len(s) = n
    BY <2>2, FunctionIsSequence
  <2>4. Len(log \o s) = Len(log) + Len(s)
    BY <1>2, <2>3
  <2> QED
    BY <2>1, <2>2, <2>3, <2>4
<1>5. Pending = {} /\ Pending' = Len(log) + 1 .. Len(log) + n
  <2>1. client[c].txs = {}
    BY <1>2 DEF SetManyLog, PendingOK
  <2>2. client'[c].txs = Len(log) + 1 .. Len(log) + n
    BY <1>2, <1>3 DEF Idle, TypeOK
  <2> QED
    BY <2>1, <2>2, PendingIs
<1>6. Inserted = 1 .. Len(log) /\ Inserted' = 1 .. Len(log)
  <2>1. 1 .. Len(log') = (1 .. Len(log)) \cup (Len(log) + 1 .. Len(log) + n)
    BY <1>2, <1>4
  <2>2. (1 .. Len(log)) \cap (Len(log) + 1 .. Len(log) + n) = {}
    BY <1>2, <1>4
  <2> QED
    BY <1>5, <2>1, <2>2 DEF Inserted
<1>7. /\ Survivors' = Survivors /\ Survivors \subseteq 1 .. Len(log) /\ DOMAIN History = Survivors
      /\ DOMAIN Call' = Pending' /\ Underway = {} /\ Mode = "open" /\ Mode' = "open"
      /\ \A t \in Pending' : Call'[t] = [key |-> log'[t].key, val |-> Value(t)']
  <2>1. /\ Survivors = Inserted \ gone /\ Survivors' = Inserted' \ gone /\ DOMAIN History = Survivors
        /\ DOMAIN Call' = Pending' /\ Underway = Pending /\ Underway' = Pending'
        /\ Mode = "open" /\ Mode' = "open"
        /\ \A t \in Underway' : Call'[t] = [key |-> log'[t].key, val |-> Value(t)']
    BY <1>1, OpenStep
  <2> QED
    BY <1>5, <1>6, <2>1
<1>8. KV!Follows(Call', History)
  <2> SUFFICES ASSUME NEW i \in DOMAIN Call'
               PROVE  i \in Nat /\ Call'[i] \in KV!Writes /\ \A j \in DOMAIN History : j < i
    BY DEF KV!Follows
  <2>1. i \in Len(log) + 1 .. Len(log) + n
    BY <1>5, <1>7
  <2>2. (\A t \in 1 .. Len(log) : [key |-> log[t].key, val |-> Value(t)] \in KV!Writes)'
    BY WritesAre, PTL
  <2>3. i \in 1 .. Len(log') /\ i \in Nat /\ \A j \in 1 .. Len(log) : j < i
    BY <1>2, <1>4, <2>1
  <2>4. Call'[i] \in KV!Writes
    BY <1>7, <2>2, <2>3
  <2> QED
    BY <1>7, <2>3, <2>4
<1>9. Call = KV!Nothing
  BY <1>7 DEF Call, WritesOf, KV!Nothing
<1>10. History' = History /\ Safe' = Safe /\ Shown' = Shown
  BY <1>1, <1>7, SameHistory
<1> QED
  BY <1>7, <1>8, <1>9, <1>10 DEF KV!Begin

\* set_many inserts the batch under one lock: the call is finished.
LEMMA SetManyFinishes ==
    ASSUME DInv, DInv', Single, phase = "open", UNCHANGED <<life, wal>>,
           NEW c \in Clients, SetManyInsert(c)
    PROVE  KV!Finish \/ UNCHANGED KV!kvvars
<1>1. [Next]_vars
  BY DEF Next, Client
<1>2. TypeOK /\ PendingOK /\ Len(log) \in Nat /\ client \in [Clients -> ClientType]
  BY DEF DInv, ReadInv, Up, TypeOK, ClientType
<1>3. log' = log /\ Pending' = {}
  <2>1. client'[c].txs = {}
    BY <1>2 DEF SetManyInsert, Insert, Idle
  <2> QED
    BY <2>1, PendingIs DEF SetManyInsert
<1>4. /\ Survivors = Inserted \ gone /\ Survivors' = Inserted' \ gone /\ gone \subseteq Inserted
      /\ Underway = Pending /\ Underway' = {} /\ DOMAIN Call = Pending
      /\ DOMAIN History = Survivors /\ DOMAIN History' = Survivors'
      /\ Mode = "open" /\ Mode' = "open" /\ phase' = "open" /\ written' = written
  <2>1. /\ Survivors = Inserted \ gone /\ Survivors' = Inserted' \ gone /\ gone \subseteq Inserted
        /\ Underway = Pending /\ Underway' = Pending' /\ DOMAIN Call = Underway
        /\ DOMAIN History = Survivors /\ DOMAIN History' = Survivors'
        /\ Mode = "open" /\ Mode' = "open" /\ UNCHANGED <<phase, written, gone>>
    BY <1>1, OpenStep
  <2> QED
    BY <1>3, <2>1
<1>5. /\ Pending \subseteq 1 .. Len(log) /\ Inserted = 1 .. Len(log) \ Pending
      /\ Inserted' = 1 .. Len(log) /\ Down(Inserted)
  BY <1>2, <1>3 DEF PendingOK, Inserted
<1>6. Survivors' = Survivors \cup Pending /\ Survivors \cap Pending = {}
  BY <1>4, <1>5
<1>7. CASE Pending = {}
  <2>1. Survivors' = Survivors /\ Underway' = Underway
    BY <1>4, <1>6, <1>7
  <2>2. Shown' = Shown
    BY <1>1, <2>1, SameHistory
  <2> QED
    BY <1>2, <1>3, <1>4, <2>1, <2>2, Stutters
<1>8. CASE Pending # {}
  <2>1. Call # KV!Nothing
    <3>1. DOMAIN KV!Nothing = {}
      BY DEF KV!Nothing
    <3> QED
      BY <1>4, <1>8, <3>1
  <2>2. History' = KV!Joined(History, Call)
    <3>1. History' = [i \in Survivors' |-> [key |-> log[i].key, val |-> Value(i)]]
      BY <1>3 DEF History, WritesOf, Value, Deleted
    <3>2. \A i \in Survivors : History[i] = [key |-> log[i].key, val |-> Value(i)]
      BY DEF History, WritesOf
    <3>3. \A i \in Pending : Call[i] = [key |-> log[i].key, val |-> Value(i)]
      BY <1>4 DEF Call, WritesOf
    <3> QED
      BY <1>4, <1>6, <3>1, <3>2, <3>3 DEF KV!Joined
  <2>3. \A i \in DOMAIN Call : \A j \in Survivors : j < i
    <3> SUFFICES ASSUME NEW i \in Pending, NEW j \in Inserted PROVE j < i
      BY <1>4
    <3>1. i \in 1 .. Len(log) /\ j \in 1 .. Len(log)
      BY <1>5
    <3>2. i \notin 1 .. j
      BY <1>5 DEF Down
    <3> QED
      BY <3>1, <3>2
  <2>4. Shown' = KV!Over(Shown, Call)
    <3>1. DOMAIN Call \cup Survivors \subseteq 1 .. Len(log)
      BY <1>4, <1>5
    <3> QED
      BY <1>2, <1>4, <2>2, <2>3, <3>1, ShowsMore
  <2>5. KV!Grows
    <3>1. written <= written'
      BY <1>4, SurvivorsAre
    <3> QED
      BY <1>6, <3>1, SafeGrows
  <2>6. Call' = KV!Nothing
    BY <1>4 DEF Call, WritesOf, KV!Nothing
  <2> QED
    BY <1>4, <2>1, <2>2, <2>4, <2>5, <2>6 DEF KV!Finish
<1> QED
  BY <1>7, <1>8

\* Clients, readers and flush jobs.
LEMMA ServeRefines ==
    ASSUME DInv, DInv', Reopened, Serve PROVE KV!Next \/ UNCHANGED KV!kvvars
<1>1. UNCHANGED <<life, wal>> /\ Single
  BY DEF Serve, Reopened
<1>2. [Next]_vars /\ Up
  BY DEF Serve, Next, Serving, Recovering, Up
<1>3. TypeOK
  BY <1>2 DEF DInv
<1>4. CASE phase = "open"
  <2>1. PendingOK
    BY <1>4 DEF DInv, ReadInv
  <2>2. ASSUME NEW c \in Clients, Set(c) \/ SetManyLog(c) \/ SetManyInsert(c)
        PROVE  KV!Next \/ UNCHANGED KV!kvvars
    BY <1>1, <1>4, <2>2, SetWrites, SetManyBegins, SetManyFinishes DEF KV!Next
  <2>3. ASSUME \A c \in Clients : ~Set(c) /\ ~SetManyLog(c) /\ ~SetManyInsert(c)
        PROVE  UNCHANGED KV!kvvars
    <3>1. log' = log /\ latest' = latest /\ Pending' = Pending
      BY <1>2, <1>3, <2>1, <2>3, OtherSteps
    <3> QED
      BY <1>1, <1>2, <1>3, <3>1, OtherRefines
  <2> QED
    BY <2>2, <2>3
<1>5. CASE phase # "open"
  <2>1. PICK j \in DOMAIN jobs : Job(j)
    BY <1>1, <1>5, OnlyOpener DEF Serve
  <2>2. log' = log /\ latest' = latest /\ Pending' = Pending
    BY <2>1 DEF Job, JobStart, JobCount, JobWrite, JobIndex, JobSync, JobMark, JobRelease, JobUncount,
                hist, Pending
  <2> QED
    BY <1>1, <1>2, <1>3, <2>2, OtherRefines
<1> QED
  BY <1>4, <1>5

\* What get returns depends on the variables of the router.
LEMMA AnswerStays == ASSUME UNCHANGED vars, NEW k PROVE Answer(k)' = Answer(k)
<1>1. UNCHANGED <<log, active, immutable, table, disk_index, cache>>
  BY DEF vars, mem, store
<1>2. Lookup(k)' = Lookup(k)
  BY <1>1 DEF Lookup, InMemory, OnDisk
<1>3. Value(Lookup(k))' = Value(Lookup(k))
  BY <1>1, <1>2 DEF Value, Deleted
<1> QED
  BY <1>1, <1>3 DEF Answer

\* The WAL writer saves writes.
LEMMA WalWriteRefines == ASSUME DInv, DInv', WalWrite PROVE KV!Save
<1>1. /\ Up /\ UNCHANGED vars /\ UNCHANGED <<phase, gone, log, client>> /\ written' = written + 1
  BY DEF WalWrite, life, vars
<1>2. Mode' = Mode /\ Mode \notin {"closed", "down"}
  BY <1>1 DEF Mode, Up, DInv, Counters
<1>3. Underway' = Underway /\ Survivors' = Survivors
  BY <1>1 DEF Underway, Survivors, Up
<1>4. Shown' = Shown
  BY <1>1, AnswerStays DEF Shown
<1>5. History' = History /\ Call' = Call
  BY <1>1, <1>3 DEF History, Call, WritesOf, Value, Deleted
<1>6. KV!Grows
  <2>1. written <= written'
    BY <1>1, SurvivorsAre
  <2> QED
    BY <1>3, <2>1, SafeGrows
<1> QED
  BY <1>2, <1>4, <1>5, <1>6 DEF KV!Save, KV!Up

\* Recovery of a transaction is not seen.
LEMMA RecoverRefines ==
    ASSUME DInv, RecoverInsert \/ RecoverMark PROVE UNCHANGED KV!kvvars
<1>1. /\ phase \in {"recovering", "marking"} /\ phase' \in {"recovering", "marking"}
      /\ UNCHANGED <<log, client, written, gone>>
  BY DEF RecoverInsert, RecoverMark, wal
<1>2. Mode' = Mode /\ Shown' = Shown
  BY <1>1 DEF Mode, Shown
<1>3. Underway' = Underway
  BY <1>1 DEF Underway, Up
<1>4. Survivors' = Survivors
  BY <1>1, <1>3 DEF Survivors
<1>5. Len(log) <= Len(log') /\ \A t \in 1 .. Len(log) : log'[t] = log[t]
  BY <1>1, SurvivorsAre
<1> QED
  BY <1>1, <1>2, <1>3, <1>4, <1>5, Stutters

\* At the end of recovery the database is open and shows what survived.
LEMMA RecoveredRefines == ASSUME DInv, DInv', Recovered PROVE KV!Opened
<1>1. /\ phase = "recovering" /\ phase' = "open" /\ UNCHANGED vars
      /\ UNCHANGED <<written, gone, log, client>>
  BY DEF Recovered, wal, vars
<1>2. Mode = "starting" /\ Mode' = "open"
  BY <1>1 DEF Mode
<1>3. Underway' = Underway
  BY <1>1 DEF Underway, Up
<1>4. Survivors' = Survivors
  BY <1>1, <1>3 DEF Survivors
<1>5. History' = History /\ Call' = Call /\ Safe' = Safe
  BY <1>1, <1>3, <1>4 DEF History, Call, Safe, WritesOf, Value, Deleted
<1>6. Shown' = KV!Content(History')
  BY <1>1, OpenShowsNext
<1> QED
  BY <1>2, <1>5, <1>6 DEF KV!Opened

\* close: the database stops, waits, and is closed with everything safe.
LEMMA CloseRefines == ASSUME DInv, DInv', Close PROVE KV!Next \/ UNCHANGED KV!kvvars
<1>1. /\ UNCHANGED <<log, client, gone>> /\ phase \in {"open", "closing", "flushing"}
      /\ \A c \in Clients : client[c] = Idle
  BY DEF Close, DInv, vars, wal
<1>2. Underway = {} /\ Underway' = {}
  BY <1>1 DEF Underway, Idle
<1>3. Survivors' = Survivors
  BY <1>1, <1>2 DEF Survivors
<1>4. History' = History /\ Call = KV!Nothing /\ Call' = Call
  BY <1>1, <1>2, <1>3 DEF History, Call, WritesOf, Value, Deleted, KV!Nothing
<1>5. CASE phase = "open"
  <2>1. phase' = "closing" /\ written' = written
    BY <1>5 DEF Close, wal
  <2>2. Mode = "open" /\ Mode' = "stopping" /\ Shown' = <<>> /\ Safe' = Safe
    BY <1>3, <1>5, <2>1 DEF Mode, Shown, Safe
  <2>3. KV!Stop
    BY <1>4, <2>2 DEF KV!Stop
  <2> QED
    BY <2>3 DEF KV!Next
<1>6. CASE phase = "closing"
  <2>1. phase' = "flushing" /\ written' = written
    BY <1>6 DEF Close, wal
  <2>2. Mode' = Mode /\ Shown' = Shown /\ Safe' = Safe
    BY <1>3, <1>6, <2>1 DEF Mode, Shown, Safe
  <2> QED
    BY <1>4, <2>2 DEF KV!kvvars
<1>7. CASE phase = "flushing"
  <2>1. phase' = "closed" /\ written' = Len(log)
    BY <1>7 DEF Close
  <2>2. Mode = "stopping" /\ Mode' = "closed" /\ Shown' = Shown
    BY <1>7, <2>1 DEF Mode, Shown
  <2>3. Safe' = DOMAIN History
    <3>1. \A t \in Survivors : t <= Len(log)
      BY SurvivorsAre
    <3> QED
      BY <1>3, <2>1, <3>1 DEF Safe, History, WritesOf
  <2>4. KV!Stopped
    BY <1>4, <2>2, <2>3 DEF KV!Stopped
  <2> QED
    BY <2>4 DEF KV!Next
<1> QED
  BY <1>1, <1>5, <1>6, <1>7

\* A crash takes what the WAL writer has not written, and what the call under way logged
\* counts as far as it was written.
LEMMA CrashRefines == ASSUME DInv, Crash PROVE KV!Crash
<1>1. /\ Up /\ phase' = "down" /\ log' = log /\ written' = written
      /\ gone' = gone \cup {t \in 1 .. Len(log) : t > written}
  BY DEF Crash
<1>2. /\ Len(log) \in Nat /\ written \in 0 .. Len(log) /\ DOMAIN log = 1 .. Len(log)
      /\ Survivors \cup Underway = 1 .. Len(log) \ gone
  BY SurvivorsAre
<1>3. Underway' = {} /\ Survivors' = 1 .. Len(log) \ gone'
  BY <1>1, <1>2 DEF Underway, Survivors, Up
<1>4. /\ Mode' = "down" /\ Shown' = <<>> /\ Mode \notin {"closed", "down"}
  BY <1>1 DEF Mode, Shown, Up, DInv, Counters
<1>5. Survivors' = {t \in Survivors \cup Underway : t <= written}
  <2>1. \A t \in 1 .. Len(log) : ~(t > written) <=> t <= written
    BY <1>2
  <2> QED
    BY <1>1, <1>2, <1>3, <2>1
<1>6. PICK S, T : S = Survivors' /\ T = Survivors \cup Underway
  OBVIOUS
<1>7. S \in SUBSET T /\ T \subseteq Nat
  BY <1>2, <1>5, <1>6
<1>8. Safe \subseteq S
  BY <1>5, <1>6 DEF Safe
<1>9. KV!StartOf(S, T)
  <2>1. \A i \in S : \A j \in T : j < i => j \in S
    BY <1>2, <1>5, <1>6, <1>7
  <2> QED
    BY <1>7, <2>1 DEF KV!StartOf
<1>10. Safe' = S
  BY <1>1, <1>5, <1>6 DEF Safe
<1>11. Call' = KV!Nothing
  BY <1>3 DEF Call, WritesOf, KV!Nothing
<1>12. DOMAIN History = Survivors /\ DOMAIN Call = Underway
  BY DEF History, Call, WritesOf
<1>13. History' = KV!Part(KV!Joined(History, Call), S)
  <2>1. History' = [i \in S |-> [key |-> log[i].key, val |-> Value(i)]]
    BY <1>1, <1>6 DEF History, WritesOf, Value, Deleted
  <2>2. \A i \in Survivors : History[i] = [key |-> log[i].key, val |-> Value(i)]
    BY DEF History, WritesOf
  <2>3. \A i \in Underway : Call[i] = [key |-> log[i].key, val |-> Value(i)]
    BY DEF Call, WritesOf
  <2>4. \A i \in S : KV!Joined(History, Call)[i] = [key |-> log[i].key, val |-> Value(i)]
    BY <1>6, <1>7, <1>12, <2>2, <2>3 DEF KV!Joined
  <2> QED
    BY <2>1, <2>4 DEF KV!Part
<1> QED
  BY <1>4, <1>6, <1>7, <1>8, <1>9, <1>10, <1>11, <1>12, <1>13 DEF KV!Crash, KV!Up

\* Opening starts with what survived.
LEMMA OpenRefines == ASSUME DInv, Open PROVE KV!Start
<1>1. /\ ~Up /\ phase' = "recovering" /\ log' = log /\ written' = Len(log) /\ gone' = gone
      /\ client' = [c \in Clients |-> Idle]
  BY DEF Open
<1>2. Underway = {} /\ Underway' = {}
  BY <1>1 DEF Underway, Idle
<1>3. Survivors' = Survivors
  BY <1>1, <1>2 DEF Survivors
<1>4. History' = History /\ Call' = Call
  BY <1>1, <1>2, <1>3 DEF History, Call, WritesOf, Value, Deleted
<1>5. Mode \in {"closed", "down"} /\ Mode' = "starting" /\ Shown' = Shown
  BY <1>1 DEF Mode, Shown, Up
<1>6. Safe' = Safe
  <2>1. /\ Len(log) \in Nat /\ written \in 0 .. Len(log) /\ Survivors = 1 .. Len(log) \ gone
        /\ \A t \in 1 .. Len(log) : t > written => t \in gone
    BY <1>1, SurvivorsAre DEF DInv
  <2>2. \A t \in Survivors : t <= written /\ t <= Len(log)
    BY <2>1
  <2> QED
    BY <1>1, <1>3, <2>2 DEF Safe
<1> QED
  BY <1>4, <1>5, <1>6 DEF KV!Start, KV!Up

\* The empty database.
LEMMA InitRefines == DbInit => KV!Init
<1> SUFFICES ASSUME DbInit PROVE KV!Init
  OBVIOUS
<1>1. phase = "recovering" /\ gone = {} /\ written = 0 /\ log = <<>> /\ client = [c \in Clients |-> Idle]
  BY DEF DbInit, Init
<1>2. Underway = {} /\ Survivors = {} /\ Mode = "starting" /\ Shown = <<>>
  BY <1>1 DEF Underway, Survivors, Mode, Shown, Idle
<1>3. History = KV!Nothing /\ Call = KV!Nothing /\ Safe = {}
  BY <1>2 DEF History, Call, Safe, WritesOf, KV!Nothing
<1> QED
  BY <1>2, <1>3 DEF KV!Init

\* Every step is one of the abstract database's, or not seen.
LEMMA NextRefines ==
    ASSUME Reopened PROVE DInv /\ DInv' /\ [DbNext]_dbvars => [KV!Next]_KV!kvvars
<1> SUFFICES ASSUME DInv, DInv', [DbNext]_dbvars PROVE KV!Next \/ UNCHANGED KV!kvvars
  OBVIOUS
<1>1. CASE UNCHANGED dbvars
  <2>1. UNCHANGED <<vars, phase, written, gone, log, client>>
    BY <1>1 DEF dbvars, life, wal, vars
  <2>2. Underway' = Underway /\ Mode' = Mode
    BY <2>1 DEF Underway, Mode, Up
  <2>3. Survivors' = Survivors
    BY <2>1, <2>2 DEF Survivors
  <2>4. Shown' = Shown
    BY <2>1, AnswerStays DEF Shown
  <2>5. Len(log) <= Len(log') /\ \A t \in 1 .. Len(log) : log'[t] = log[t]
    BY <2>1, SurvivorsAre
  <2> QED
    BY <2>1, <2>2, <2>3, <2>4, <2>5, Stutters
<1>2. CASE Serve
  BY <1>2, ServeRefines
<1>3. CASE WalWrite
  BY <1>3, WalWriteRefines DEF KV!Next
<1>4. CASE RecoverInsert \/ RecoverMark
  BY <1>4, RecoverRefines
<1>5. CASE Recovered
  BY <1>5, RecoveredRefines DEF KV!Next
<1>6. CASE Close
  BY <1>6, CloseRefines
<1>7. CASE Crash
  BY <1>7, CrashRefines DEF KV!Next
<1>8. CASE Open
  BY <1>8, OpenRefines DEF KV!Next
<1> QED
  BY <1>1, <1>2, <1>3, <1>4, <1>5, <1>6, <1>7, <1>8 DEF DbNext

\* Through every write, flush, close, crash and recovery the database is the map that one
\* sequence of writes makes; a crash cuts off an end that the WAL writer had not written, and
\* a close loses nothing: under the same hypotheses.
THEOREM ReopenedImplements == ASSUME Reopened PROVE DbSpec => ImplementsKVStore
<1>1. DbInit => KV!Init
  BY InitRefines
<1>2. DInv /\ DInv' /\ [DbNext]_dbvars => [KV!Next]_KV!kvvars
  BY NextRefines
<1>3. DbSpec => []DInv
  BY DatabaseInductive
<1>4. DbSpec => KV!Spec
  BY <1>1, <1>2, <1>3, PTL DEF DbSpec, KV!Spec
<1> QED
  BY <1>4 DEF ImplementsKVStore
=============================================================================
