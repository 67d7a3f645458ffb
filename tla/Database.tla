------------------------------ MODULE Database ------------------------------
(***************************************************************************)
(* The life of a database (database.py) around the router: open, recover   *)
(* from the WAL, serve, close or crash, open again.                        *)
(*                                                                         *)
(* The router is exposed before recovery has run, so clients other than    *)
(* the one that opens the database are served while it runs.  Recovery     *)
(* goes through the log, inserts what is not marked complete in the active *)
(* memtable and marks it complete at once.  A crash loses the records the  *)
(* WAL writer has not written yet and the table batches not synced yet; a  *)
(* record keeps its id for ever here (reuse of ids is a matter of WAL).    *)
(* append_to_buffer returns before the record is written, so nothing but   *)
(* the pace of the threads keeps the WAL ahead of the table file: WalAhead *)
(* says whether a crash finds it so.  For the same reason a flush can end  *)
(* while the WAL writer has the records in hand; their marks may then be   *)
(* lost, but never that of a record already written.                       *)
(***************************************************************************)
EXTENDS Router

CONSTANTS
    Opener,             \* the client whose call opens the database
    WalAhead,           \* whether the WAL writer is ahead of the table file
    MaxOpens,           \* bound: times the database is opened
    MaxCrashes          \* bound: crashes among the ways it stops

ASSUME DatabaseAssumption ==
    /\ Opener \in Clients
    /\ WalAhead \in BOOLEAN
    /\ MaxOpens \in Nat /\ MaxCrashes \in Nat

VARIABLES
    phase,              \* "recovering", "marking", "open", "closing", "flushing",
                        \* "closed" (in order), "down" (after a crash)
    cursor,             \* the next transaction recovery looks at
    known,              \* transactions logged when the database was opened
    opens, crashes,     \* how often the database was opened, and crashed
    written,            \* transactions the WAL writer has written
    gone                \* transactions the WAL lost in a crash

life   == <<phase, cursor, known, opens, crashes>>
wal    == <<written, gone>>
dbvars == <<vars, life, wal>>

DbInit ==
    /\ Init
    /\ phase = "recovering" /\ cursor = 1 /\ known = 0 /\ opens = 1 /\ crashes = 0
    /\ written = 0 /\ gone = {}

Up         == phase \notin {"closed", "down"}
Recovering == phase \in {"recovering", "marking"}
Serving(c) == phase = "open" \/ (Recovering /\ c # Opener)

\* A flag set in an entry that is on disk stays.
MarksReach == \A t \in forgotten' \ forgotten : t > written

Serve ==
    /\ \/ \E c \in Clients : Serving(c) /\ Client(c)
       \/ (\E c \in Clients : Serving(c)) /\ \E k \in Keys : Reader(k)
       \/ Up /\ \E j \in DOMAIN jobs : Job(j)
    /\ MarksReach
    /\ UNCHANGED <<life, wal>>

\* The WAL writer gets on (the module WAL has the details).
WalWrite ==
    /\ Up /\ written < Len(log)
    /\ written' = written + 1
    /\ UNCHANGED <<vars, life, gone>>

----------------------------------------------------------------------------
\* Recovery of one transaction, under the table lock: the memtable, not its
\* transaction list, not the cache, no test of the size.
Replayed(t) == t \notin Flagged \cup gone
RecoverInsert ==
    /\ phase = "recovering" /\ cursor <= written
    /\ \/ /\ Replayed(cursor)
          /\ active' = [active EXCEPT ![log[cursor].key] = cursor]
          /\ phase' = "marking"
          /\ UNCHANGED cursor
       \/ /\ ~Replayed(cursor)
          /\ cursor' = cursor + 1
          /\ UNCHANGED <<active, phase>>
    /\ UNCHANGED <<log, completed, active_tx, immutable, immutable_tx, store, cache,
                   sched, client, hist, known, opens, crashes, wal>>

\* mark_job_complete, with the record in the active memtable only.
RecoverMark ==
    /\ phase = "marking"
    /\ completed' = completed \cup {cursor} /\ forgotten' = forgotten \ {cursor}
    /\ cursor' = cursor + 1 /\ phase' = "recovering"
    /\ UNCHANGED <<log, mem, store, cache, sched, client, stamp, clock, latest,
                   known, opens, crashes, wal>>

\* Mutation: the last transaction is not looked at.
RecoveredShort ==
    /\ phase = "recovering" /\ cursor >= known
    /\ phase' = "open"
    /\ UNCHANGED <<vars, cursor, known, opens, crashes, wal>>

\* read_wal has come to the end: the record count of a file is read when the file
\* is opened, so records of clients already served may or may not be replayed.
Recovered ==
    /\ phase = "recovering" /\ cursor > known
    /\ phase' = "open"
    /\ UNCHANGED <<vars, cursor, known, opens, crashes, wal>>

JobsEnded == \A j \in DOMAIN jobs : jobs[j].pc \in {"done", "failed"}

\* Mutation: the WAL's buffer is dropped, not written, when the last flush is over.
CloseUnwritten ==
    \/ /\ phase = "open" /\ \A c \in Clients : client[c] = Idle
       /\ phase' = "flushing"
       /\ UNCHANGED <<vars, cursor, known, opens, crashes, wal>>
    \/ /\ phase = "flushing" /\ JobsEnded
       /\ phase' = "closed"
       /\ gone' = gone \cup {t \in DOMAIN log : t > written}
       /\ UNCHANGED <<vars, cursor, known, opens, crashes, written>>

\* close, when no call is under way: wait for the flushes, flush the immutable
\* memtable once more, and let the WAL write its buffer.  The active memtable is
\* left to recovery.
Close ==
    \/ /\ phase = "open" /\ \A c \in Clients : client[c] = Idle
       /\ phase' = "closing"
       /\ UNCHANGED <<vars, cursor, known, opens, crashes, wal>>
    \/ /\ phase = "closing" /\ JobsEnded
       /\ phase' = "flushing"
       /\ jobs' = Append(jobs, NewJob)
       /\ UNCHANGED <<log, completed, mem, store, cache, future, active_flushes,
                      client, hist, cursor, known, opens, crashes, wal>>
    \/ /\ phase = "flushing" /\ JobsEnded
       /\ phase' = "closed"
       /\ written' = Len(log)
       /\ UNCHANGED <<vars, cursor, known, opens, crashes, gone>>

----------------------------------------------------------------------------
InTable(t, n) == \E b \in 1 .. n : table[b][log[t].key] = t

\* Of the transactions in S, the last one for each key.
LastOf(S) ==
    [k \in Keys |-> LET R == {t \in S : log[t].key = k}
                    IN  IF R = {} THEN None ELSE CHOOSE t \in R : \A u \in R : u <= t]

\* A crash: what is not written or synced yet may be lost.  From then on, the
\* last value of a key is the last one that survived.
Crash ==
    /\ Up /\ crashes < MaxCrashes
    /\ WalAhead => \A t \in 1 .. Len(log) : InTable(t, Len(table)) => t <= written
    /\ crashes' = crashes + 1
    /\ phase' = "down"
    /\ \E n \in synced .. Len(table) :
          /\ table' = SubSeq(table, 1, n)
          /\ gone' = gone \cup {t \in 1 .. Len(log) : t > written}
          /\ latest' = LastOf({t \in 1 .. Len(log) : t \notin gone' \/ InTable(t, n)})
    /\ UNCHANGED <<log, completed, mem, synced, disk_index, cache, sched, client,
                   forgotten, stamp, clock, cursor, known, opens, written>>

\* Opening: everything in memory is new, the index is rebuilt from the table.
Open ==
    /\ ~Up /\ opens < MaxOpens
    /\ opens' = opens + 1 /\ phase' = "recovering"
    /\ cursor' = 1 /\ known' = Len(log)
    /\ active' = Empty /\ active_tx' = {}
    /\ immutable' = Empty /\ immutable_tx' = {}
    /\ synced' = Len(table)
    /\ disk_index' = [k \in Keys |->
          LET B == {b \in DOMAIN table : table[b][k] # None} IN
          IF Deleted(Scan(k, Len(table))) THEN 0
          ELSE CHOOSE b \in B : \A a \in B : a <= b]
    /\ cache' = Empty
    /\ future' = 0 /\ jobs' = <<>> /\ active_flushes' = 0
    /\ client' = [c \in Clients |-> Idle]
    /\ written' = Len(log)
    /\ UNCHANGED <<log, completed, table, hist, crashes, gone>>

DbNext ==
    \/ Serve \/ WalWrite
    \/ RecoverInsert \/ RecoverMark \/ Recovered
    \/ Close \/ Crash \/ Open

DbSpec == DbInit /\ [][DbNext]_dbvars

----------------------------------------------------------------------------
(* Properties.                                                             *)

Settled == phase = "open" /\ \A c \in Clients : client[c].pc # "logged"

\* An open database returns, for every key, the last value written before or
\* after the last stop that survived it, from the cache and past it: recovery puts
\* together what the table file and the WAL hold, whatever step the stop came after.
RestartReads == Settled => ReadsLatest /\ CacheCoherent

(***************************************************************************)
(* The database implements KVStore, with one client: its writes are the    *)
(* logged records a crash has not taken, those of a set_many that has not  *)
(* reached the memtable yet are the call under way, and it shows what get  *)
(* returns.                                                                *)
(***************************************************************************)
Underway  == IF Up THEN UNION {client[c].txs : c \in Clients} ELSE {}
Survivors == DOMAIN log \ (gone \cup Underway)
WritesOf(S) == [t \in S |-> [key |-> log[t].key, val |-> Value(t)]]
Answer(k) == IF cache[k] # None THEN cache[k] ELSE Value(Lookup(k))

Mode == CASE phase \in {"open", "closed", "down"} -> phase
          [] phase \in {"recovering", "marking"} -> "starting"
          [] phase \in {"closing", "flushing"} -> "stopping"
History == WritesOf(Survivors)
Call    == WritesOf(Underway)
Safe    == {t \in Survivors : t <= written}
Shown   == IF phase = "open" THEN [k \in Keys |-> Answer(k)] ELSE <<>>

KV == INSTANCE KVStore WITH
    Values <- Tx \cup {None}, Hidden <- <<>>,
    mode <- Mode, history <- History, call <- Call, safe <- Safe, shown <- Shown

\* Through writes, flushes, closes, crashes and recoveries, reads are those of one
\* sequence of writes; a crash cuts off its end only, and only what the WAL writer
\* has not written; a close loses nothing.
ImplementsKVStore == KV!Spec
=============================================================================
