-------------------------------- MODULE WAL --------------------------------
(***************************************************************************)
(* The write-ahead log of cachyDB (recovery/wal.py).                       *)
(*                                                                         *)
(* Client threads append records to a buffer in memory, a writer thread    *)
(* swaps the buffer out and writes it to files global_<n>.wal, the flush   *)
(* workers of the router mark transactions complete in memory and on disk, *)
(* a short-lived thread preallocates the file after the one in use, and    *)
(* the closing thread stops the writer and flushes what is left.           *)
(*                                                                         *)
(* One action is one critical section or one call that another thread can  *)
(* see the effect of.  A crash is a crash of the process: what was handed  *)
(* to the operating system survives it, what was in memory does not.       *)
(***************************************************************************)
EXTENDS Integers, Sequences, FiniteSets

LOCAL INSTANCE Functions

CONSTANTS
    Capacity,       \* WAL_CAPACITY: entries in one file (50000)
    PayloadArea,    \* PAYLOAD_AREA_SIZE: payload bytes of one file
    BatchSize,      \* batch_size: the buffer admits calls below twice this
    MaxMany,        \* bound: records of one append_many_to_buffer call
    Sizes,          \* sizes of a packed record with its length prefix
    Clients,        \* threads that append
    Markers,        \* threads that mark transactions complete
    MaxTx,          \* bound: transaction ids handed out
    MaxFaults,      \* bound: I/O errors met by the writer
    MaxCrashes      \* bound: crashes of the process

ASSUME WALAssumption ==
    /\ Capacity \in Nat \ {0}
    /\ PayloadArea \in Nat
    /\ BatchSize \in Nat \ {0}
    /\ MaxMany \in Nat \ {0}
    /\ Sizes \subseteq Nat
    /\ MaxTx \in Nat /\ MaxFaults \in Nat /\ MaxCrashes \in Nat

ASSUME ClientsAssumption == IsFiniteSet(Clients)

VARIABLES
    global_tx_id,       \* the next transaction id
    wal_buffer,         \* records not yet taken by the writer
    ram_completed_tx,   \* completions remembered in memory
    client,             \* where each appending thread is in its call
    pending,            \* completions each marker has still to put on disk
    writer,             \* the writer thread: pc and local variables
    prealloc,           \* the preallocation thread of each file
    file,               \* the files
    handle,             \* _current_file_path, or NoFile
    closer,             \* the thread that runs shutdown
    mode,               \* "up", "down", or "failed": the WAL cannot be opened
    live,               \* history: transactions the router may still mark
    marked,             \* history: transactions some marker reported complete
    lost,               \* history: transactions the writer gave up on
    faults,             \* I/O errors so far
    crashes             \* crashes so far

hist  == <<live, marked, lost>>
bound == <<faults, crashes>>
vars  == <<global_tx_id, wal_buffer, ram_completed_tx, client, pending, writer,
           prealloc, file, handle, closer, mode, live, marked, lost, faults,
           crashes>>

Files  == 0 .. (MaxTx \div Capacity) + 1
Slots  == 0 .. Capacity - 1
NoFile == MaxTx + 2
NoTx   == MaxTx
Tx     == 0 .. MaxTx - 1

FileOf(t) == t \div Capacity
SlotOf(t) == t % Capacity

(***************************************************************************)
(* A file: absent, empty (opened "wb", nothing allocated), zeroed          *)
(* (allocated, its header all zero) or ok (a header whose checksum holds). *)
(***************************************************************************)
NoEntry    == [tx |-> NoTx, done |-> FALSE]
BlankSlots == [i \in Slots |-> NoEntry]
AbsentFile == [state |-> "absent", rec |-> 0, used |-> 0, slots |-> BlankSlots]
EmptyFile  == [AbsentFile EXCEPT !.state = "empty"]
Allocated(F) == IF F.state = "empty" THEN [F EXCEPT !.state = "zeroed"] ELSE F
Headed(F)    == [F EXCEPT !.state = "ok", !.rec = 0, !.used = 0]

IdleWriter == [pc |-> "check", copy |-> <<>>, done |-> {}, rec |-> 0, used |-> 0]

\* A WAL opened on an empty directory.
Init ==
    /\ global_tx_id = 0
    /\ wal_buffer = <<>>
    /\ ram_completed_tx = {}
    /\ client = [c \in Clients |-> "idle"]
    /\ pending = [m \in Markers |-> {}]
    /\ writer = IdleWriter
    /\ prealloc = [f \in Files |-> "none"]
    /\ file = [f \in Files |-> AbsentFile]
    /\ handle = NoFile
    /\ closer = "open"
    /\ mode = "up"
    /\ live = {} /\ marked = {} /\ lost = {}
    /\ faults = 0 /\ crashes = 0

\* force_flush takes self.lock and then calls a method that takes it again.
LockFree == closer # "relock"
\* io_lock is held by the writer between its reads and its header write.
IoLockFree == writer.pc # "header"

----------------------------------------------------------------------------
(* Appending.                                                              *)

\* The back-pressure loop reads the length of the buffer without the lock.
PassBackpressure(c) ==
    /\ mode = "up" /\ closer = "open"
    /\ client[c] = "idle"
    /\ Len(wal_buffer) < 2 * BatchSize
    /\ client' = [client EXCEPT ![c] = "admitted"]
    /\ UNCHANGED <<global_tx_id, wal_buffer, ram_completed_tx, pending, writer,
                   prealloc, file, handle, closer, mode, hist, bound>>

\* Mutation: one id for all the records of a call.
RecordsOneId(first, sizes) ==
    [i \in 1 .. Len(sizes) |-> [tx |-> first, size |-> sizes[i]]]
\* Mutation: the id before the one handed out.
RecordsPreviousId(first, sizes) ==
    [i \in 1 .. Len(sizes) |-> [tx |-> first + i - 2, size |-> sizes[i]]]

Records(first, sizes) ==
    [i \in 1 .. Len(sizes) |-> [tx |-> first + (i - 1), size |-> sizes[i]]]

\* Ids are assigned and records appended in one critical section.
AppendRecords(c, sizes) ==
    /\ mode = "up" /\ LockFree
    /\ client[c] = "admitted"
    /\ global_tx_id + Len(sizes) <= MaxTx
    /\ global_tx_id' = global_tx_id + Len(sizes)
    /\ wal_buffer' = wal_buffer \o Records(global_tx_id, sizes)
    /\ live' = live \cup (global_tx_id .. global_tx_id + Len(sizes) - 1)
    /\ client' = [client EXCEPT ![c] = "idle"]
    /\ UNCHANGED <<ram_completed_tx, pending, writer, prealloc, file, handle,
                   closer, mode, marked, lost, bound>>

SizeLists == UNION {[1 .. n -> Sizes] : n \in 1 .. MaxMany}

AppendToBuffer(c)     == \E s \in [1 .. 1 -> Sizes] : AppendRecords(c, s)
AppendManyToBuffer(c) == \E s \in SizeLists : AppendRecords(c, s)

----------------------------------------------------------------------------
(* Marking complete.                                                       *)

\* Mutation: the last record is not in the buffer.
InBufferStrict(t) ==
    wal_buffer # <<>> /\ wal_buffer[1].tx <= t /\ t < wal_buffer[Len(wal_buffer)].tx

\* The range test of mark_many_jobs_complete and mark_job_complete.
InBuffer(t) ==
    /\ wal_buffer # <<>>
    /\ wal_buffer[1].tx <= t
    /\ t <= wal_buffer[Len(wal_buffer)].tx

\* First half, under self.lock.
MarkInRam(m, T) ==
    /\ mode = "up" /\ LockFree
    /\ closer = "open" /\ pending[m] = {}
    /\ ram_completed_tx' = ram_completed_tx \cup T
    /\ pending' = [pending EXCEPT ![m] = {t \in T : ~InBuffer(t)}]
    /\ marked' = marked \cup T
    /\ live' = live \ T
    /\ UNCHANGED <<global_tx_id, wal_buffer, client, writer, prealloc, file,
                   handle, closer, mode, lost, bound>>

MarkManyJobsComplete(m) == \E T \in SUBSET live \ {{}} : MarkInRam(m, T)
MarkJobComplete(m)      == \E t \in live : MarkInRam(m, {t})

\* Mutation: the flag byte of the next slot.
WithFlagsNextSlot(F, T) ==
    [Allocated(F) EXCEPT !.slots =
        [i \in Slots |-> [F.slots[i] EXCEPT !.done = @ \/ \E t \in T : SlotOf(t) + 1 = i]]]

\* Writing flag bytes leaves a file that was empty with a header of zeros.
WithFlags(F, T) ==
    [Allocated(F) EXCEPT !.slots =
        [i \in Slots |-> IF \E t \in T : SlotOf(t) = i
                         THEN [F.slots[i] EXCEPT !.done = TRUE]
                         ELSE F.slots[i]]]

\* Taking the cached handle for f closes the handle of another file.  The
\* writer then fails its fsync if it was between the io_lock and the fsync.
UseHandle(f) ==
    /\ handle' = f
    /\ writer' = IF writer.pc = "fsync" /\ handle # f
                 THEN [writer EXCEPT !.pc = "closedfile"] ELSE writer

\* Second half, once per file; a file that does not exist is skipped, and an I/O error
\* is only logged.
MarkOnDisk(m, f) ==
    LET T == {t \in pending[m] : FileOf(t) = f} IN
    /\ mode = "up" /\ T # {}
    /\ pending' = [pending EXCEPT ![m] = @ \ T]
    /\ \/ /\ file[f].state = "absent"
          /\ UNCHANGED <<file, handle, writer, faults>>
       \/ /\ file[f].state # "absent" /\ IoLockFree
          /\ \E S \in SUBSET T :
                /\ file' = [file EXCEPT ![f] = WithFlags(@, S)]
                /\ S # T => faults < MaxFaults
                /\ faults' = IF S = T THEN faults ELSE faults + 1
          /\ UseHandle(f)
    /\ UNCHANGED <<global_tx_id, wal_buffer, ram_completed_tx, client, prealloc,
                   closer, mode, hist, crashes>>

----------------------------------------------------------------------------
(* The writer thread.                                                      *)

Ids(s) == {s[k].tx : k \in DOMAIN s}

\* What is left of the buffer copy starts with a batch for one file.
BatchFile == FileOf(writer.copy[1].tx)
Batch     == {k \in DOMAIN writer.copy : FileOf(writer.copy[k].tx) = BatchFile}
Rest      == SubSeq(writer.copy, Cardinality(Batch) + 1, Len(writer.copy))
BatchBytes ==
    FoldFunctionOnSet(+, 0, [k \in DOMAIN writer.copy |-> writer.copy[k].size], Batch)

Goto(pc) == writer' = [writer EXCEPT !.pc = pc]

\* An exception ends the write of this buffer copy; the loop logs it and goes on.
Abandon(s) ==
    /\ writer' = IdleWriter
    /\ lost' = lost \cup Ids(s)

\* The loop's test of the stop event.
WriterCheck ==
    /\ mode = "up" /\ writer.pc = "check"
    /\ Goto(IF closer = "open" THEN "wait" ELSE "exit")
    /\ UNCHANGED <<global_tx_id, wal_buffer, ram_completed_tx, client, pending,
                   prealloc, file, handle, closer, mode, hist, bound>>

\* The timed wait is over: swap the buffer out, if there is anything in it.
WriterSwap ==
    /\ mode = "up" /\ LockFree /\ writer.pc = "wait"
    /\ writer' = IF wal_buffer = <<>> THEN IdleWriter
                 ELSE [IdleWriter EXCEPT !.pc = "copy", !.copy = wal_buffer]
    /\ wal_buffer' = <<>>
    /\ UNCHANGED <<global_tx_id, ram_completed_tx, client, pending, prealloc,
                   file, handle, closer, mode, hist, bound>>

\* A second critical section takes the completions known so far.
WriterCopyCompleted ==
    /\ mode = "up" /\ LockFree /\ writer.pc = "copy"
    /\ writer' = [writer EXCEPT !.pc = "batch", !.done = ram_completed_tx]
    /\ ram_completed_tx' = {}
    /\ UNCHANGED <<global_tx_id, wal_buffer, client, pending, prealloc, file,
                   handle, closer, mode, hist, bound>>

\* Mutation: a file that exists is preallocated again.
WriterNextBatchTruncates ==
    /\ mode = "up" /\ writer.pc = "batch"
    /\ IF writer.copy = <<>> THEN writer' = IdleWriter ELSE Goto("truncate")
    /\ UNCHANGED <<global_tx_id, wal_buffer, ram_completed_tx, client, pending,
                   prealloc, file, handle, closer, mode, hist, bound>>
\* Mutation: the writer leaves its loop after the last batch.
WriterNextBatchExits ==
    /\ mode = "up" /\ writer.pc = "batch"
    /\ Goto(IF writer.copy = <<>> THEN "exit"
            ELSE IF file[BatchFile].state = "absent" THEN "truncate" ELSE "entries")
    /\ UNCHANGED <<global_tx_id, wal_buffer, ram_completed_tx, client, pending,
                   prealloc, file, handle, closer, mode, hist, bound>>

\* The next batch, if any; a file that does not exist is preallocated first.
WriterNextBatch ==
    /\ mode = "up" /\ writer.pc = "batch"
    /\ \/ writer.copy = <<>> /\ writer' = IdleWriter
       \/ /\ writer.copy # <<>>
          /\ Goto(IF file[BatchFile].state = "absent" THEN "truncate" ELSE "entries")
    /\ UNCHANGED <<global_tx_id, wal_buffer, ram_completed_tx, client, pending,
                   prealloc, file, handle, closer, mode, hist, bound>>

WriterPreallocate ==
    /\ mode = "up"
    /\ \/ /\ writer.pc = "truncate" /\ Goto("allocate")
          /\ file' = [file EXCEPT ![BatchFile] = EmptyFile]
          /\ UNCHANGED prealloc
       \/ /\ writer.pc = "allocate" /\ Goto("head")
          /\ file' = [file EXCEPT ![BatchFile] = Allocated(@)]
          /\ UNCHANGED prealloc
       \/ /\ writer.pc = "head" /\ Goto("entries")
          /\ file' = [file EXCEPT ![BatchFile] = Headed(@)]
          /\ prealloc' = [prealloc EXCEPT ![BatchFile + 1] = "spawned"]
    /\ UNCHANGED <<global_tx_id, wal_buffer, ram_completed_tx, client, pending,
                   handle, closer, mode, hist, bound>>

\* Phases 1 and 2 under io_lock: header check, payload check, payloads and
\* entry headers.  The record count is not on disk yet.
WriterEntries ==
    LET f     == BatchFile
        F     == file[f]
        first == SlotOf(writer.copy[1].tx)
        Entry(k) == [tx |-> writer.copy[k].tx,
                     done |-> writer.copy[k].tx \in writer.done]
    IN
    /\ mode = "up" /\ writer.pc = "entries"
    /\ handle' = f
    /\ \/ /\ F.state = "ok"
          /\ \E u \in 0 .. PayloadArea :
                /\ u = F.used + BatchBytes
                /\ writer' = [writer EXCEPT !.pc = "header", !.used = u,
                                            !.rec = F.rec + Cardinality(Batch)]
          /\ file' = [file EXCEPT ![f].slots =
                         [i \in Slots |-> IF i - first + 1 \in Batch
                                          THEN Entry(i - first + 1) ELSE @[i]]]
          /\ UNCHANGED lost
       \/ /\ F.state # "ok" \/ F.used + BatchBytes > PayloadArea
          /\ Abandon(writer.copy)
          /\ UNCHANGED file
    /\ UNCHANGED <<global_tx_id, wal_buffer, ram_completed_tx, client, pending,
                   prealloc, closer, mode, live, marked, bound>>

\* The file header; io_lock is released after it.
WriterHeader ==
    /\ mode = "up" /\ writer.pc = "header"
    /\ file' = [file EXCEPT ![BatchFile] =
                   [@ EXCEPT !.state = "ok", !.rec = writer.rec, !.used = writer.used]]
    /\ Goto("fsync")
    /\ UNCHANGED <<global_tx_id, wal_buffer, ram_completed_tx, client, pending,
                   prealloc, handle, closer, mode, hist, bound>>

\* fsync outside io_lock, on a handle a marker may have closed meanwhile.
WriterFsync ==
    /\ mode = "up"
    /\ \/ /\ writer.pc = "fsync"
          /\ writer' = [writer EXCEPT !.pc = "batch", !.copy = Rest]
          /\ UNCHANGED lost
       \/ writer.pc = "closedfile" /\ Abandon(Rest)
    /\ UNCHANGED <<global_tx_id, wal_buffer, ram_completed_tx, client, pending,
                   prealloc, file, handle, closer, mode, live, marked, bound>>

\* An OSError in any of the steps that touch the disk.
WriterIOError ==
    /\ mode = "up" /\ faults < MaxFaults
    /\ writer.pc \in {"truncate", "allocate", "head", "entries", "header", "fsync"}
    /\ Abandon(IF writer.pc = "fsync" THEN Rest ELSE writer.copy)
    /\ faults' = faults + 1
    /\ UNCHANGED <<global_tx_id, wal_buffer, ram_completed_tx, client, pending,
                   prealloc, file, handle, closer, mode, live, marked, crashes>>

----------------------------------------------------------------------------
(* The preallocation thread of file f.                                     *)

PreallocAsync(f) ==
    /\ mode = "up"
    /\ \/ /\ prealloc[f] = "spawned"
          /\ prealloc' = [prealloc EXCEPT ![f] =
                             IF file[f].state = "absent" THEN "truncate" ELSE "none"]
          /\ UNCHANGED <<file, faults>>
       \/ /\ prealloc[f] = "truncate"
          /\ prealloc' = [prealloc EXCEPT ![f] = "allocate"]
          /\ file' = [file EXCEPT ![f] = EmptyFile]
          /\ UNCHANGED faults
       \/ /\ prealloc[f] = "allocate"
          /\ prealloc' = [prealloc EXCEPT ![f] = "head"]
          /\ file' = [file EXCEPT ![f] = Allocated(@)]
          /\ UNCHANGED faults
       \/ /\ prealloc[f] = "head"
          /\ prealloc' = [prealloc EXCEPT ![f] = "none"]
          /\ file' = [file EXCEPT ![f] = Headed(@)]
          /\ UNCHANGED faults
       \/ /\ prealloc[f] \in {"truncate", "allocate", "head"}
          /\ faults < MaxFaults /\ faults' = faults + 1
          /\ prealloc' = [prealloc EXCEPT ![f] = "none"]
          /\ UNCHANGED file
    /\ UNCHANGED <<global_tx_id, wal_buffer, ram_completed_tx, client, pending,
                   writer, handle, closer, mode, hist, crashes>>

----------------------------------------------------------------------------
(* Shutdown, crash and restart.                                            *)

\* The router has joined its flush workers before the WAL is shut down.  close does not
\* wait for the calls of clients: that it is called when they have returned is assumed.
StartShutdown ==
    /\ mode = "up" /\ closer = "open"
    /\ \A c \in Clients : client[c] = "idle"
    /\ \A m \in Markers : pending[m] = {}
    /\ closer' = "stopping"
    /\ UNCHANGED <<global_tx_id, wal_buffer, ram_completed_tx, client, pending,
                   writer, prealloc, file, handle, mode, hist, bound>>

\* Mutation: the buffer is not looked at.
ForceFlushForgets ==
    /\ mode = "up" /\ closer = "stopping" /\ writer.pc = "exit"
    /\ closer' = "closed" /\ handle' = NoFile
    /\ UNCHANGED <<global_tx_id, wal_buffer, ram_completed_tx, client, pending,
                   writer, prealloc, file, mode, hist, bound>>

\* join() has returned; force_flush takes self.lock, and with records in the
\* buffer calls _write_buffer_to_disk, which takes it again.
ForceFlush ==
    /\ mode = "up" /\ closer = "stopping" /\ writer.pc = "exit"
    /\ \/ /\ wal_buffer # <<>>
          /\ closer' = "relock"
          /\ UNCHANGED handle
       \/ /\ wal_buffer = <<>>
          /\ closer' = "closed"
          /\ handle' = NoFile
    /\ UNCHANGED <<global_tx_id, wal_buffer, ram_completed_tx, client, pending,
                   writer, prealloc, file, mode, hist, bound>>

Stop ==
    /\ mode' = "down"
    /\ wal_buffer' = <<>> /\ ram_completed_tx' = {}
    /\ client' = [c \in Clients |-> "idle"]
    /\ pending' = [m \in Markers |-> {}]
    /\ writer' = IdleWriter
    /\ prealloc' = [f \in Files |-> "none"]
    /\ handle' = NoFile
    /\ closer' = "open"
    /\ lost' = {}
    /\ UNCHANGED <<global_tx_id, file, live, marked, faults>>

Crash == mode = "up" /\ crashes < MaxCrashes /\ crashes' = crashes + 1 /\ Stop
Exit  == mode = "up" /\ closer = "closed" /\ UNCHANGED crashes /\ Stop

\* Mutation: the last record of a file is not read.
CommittedShort(f, i) == file[f].state = "ok" /\ i + 1 < file[f].rec

\* What read_wal yields: committed entries of readable files, not completed.
Committed(f, i) == file[f].state = "ok" /\ i < file[f].rec
ReadWal ==
    {t \in Tx : \E f \in Files, i \in Slots :
        Committed(f, i) /\ file[f].slots[i].tx = t /\ ~file[f].slots[i].done}

\* __init__: restore_global_tx_id looks at the last file only.
Restart ==
    LET Existing == {f \in Files : file[f].state # "absent"} IN
    /\ mode = "down"
    /\ \/ /\ Existing = {}
          /\ global_tx_id' = 0 /\ mode' = "up" /\ live' = ReadWal
       \/ \E last \in Existing :
          /\ \A f \in Existing : f <= last
          /\ \/ /\ file[last].state = "ok"
                /\ global_tx_id' = last * Capacity + file[last].rec
                /\ mode' = "up" /\ live' = ReadWal
             \/ /\ file[last].state = "empty"
                /\ global_tx_id' = last * Capacity
                /\ mode' = "up" /\ live' = ReadWal
             \/ /\ file[last].state = "zeroed"
                /\ mode' = "failed"
                /\ UNCHANGED <<global_tx_id, live>>
    /\ UNCHANGED <<wal_buffer, ram_completed_tx, client, pending, writer, prealloc,
                   file, handle, closer, marked, lost, bound>>

----------------------------------------------------------------------------
Writer ==
    \/ WriterCheck \/ WriterSwap \/ WriterCopyCompleted \/ WriterNextBatch
    \/ WriterPreallocate \/ WriterEntries \/ WriterHeader \/ WriterFsync

Client(c) == PassBackpressure(c) \/ AppendToBuffer(c) \/ AppendManyToBuffer(c)
Marker(m) ==
    \/ MarkManyJobsComplete(m) \/ MarkJobComplete(m)
    \/ \E f \in Files : MarkOnDisk(m, f)

Next ==
    \/ \E c \in Clients : Client(c)
    \/ \E m \in Markers : Marker(m)
    \/ Writer \/ WriterIOError
    \/ \E f \in Files : PreallocAsync(f)
    \/ StartShutdown \/ ForceFlush
    \/ Crash \/ Exit \/ Restart

Spec == Init /\ [][Next]_vars

(***************************************************************************)
(* The threads are scheduled; the wait of the writer is timed, so it ends  *)
(* whether or not the event is set.  Nobody has to call append, mark or    *)
(* shutdown.                                                               *)
(***************************************************************************)
Fairness ==
    /\ WF_vars(Writer)
    /\ WF_vars(ForceFlush)
    /\ \A f \in Files : WF_vars(PreallocAsync(f))
    /\ \A m \in Markers, f \in Files : WF_vars(MarkOnDisk(m, f))

FairSpec == Spec /\ Fairness

----------------------------------------------------------------------------
(* Properties.                                                             *)

Rec == [tx : Nat, size : Sizes]
FileStates == {"absent", "empty", "zeroed", "ok"}
WriterPCs ==
    {"check", "wait", "copy", "batch", "truncate", "allocate", "head",
     "entries", "header", "fsync", "closedfile", "exit"}

\* Types of the variables, with the payload area of no file overfull.
TypeOK ==
    /\ global_tx_id \in Nat
    /\ wal_buffer \in Seq(Rec)
    /\ ram_completed_tx \subseteq Nat
    /\ client \in [Clients -> {"idle", "admitted"}]
    /\ pending \in [Markers -> SUBSET Nat]
    /\ writer \in [pc : WriterPCs, copy : Seq(Rec), done : SUBSET Nat, rec : Nat,
                   used : 0 .. PayloadArea]
    /\ prealloc \in [Files -> {"none", "spawned", "truncate", "allocate", "head"}]
    /\ file \in [Files -> [state : FileStates, rec : Nat, used : 0 .. PayloadArea,
                           slots : [Slots -> [tx : Nat, done : BOOLEAN]]]]
    /\ handle \in Nat
    /\ closer \in {"open", "stopping", "relock", "closed"}
    /\ mode \in {"up", "down", "failed"}
    /\ live \subseteq Nat /\ marked \subseteq Nat /\ lost \subseteq Nat
    /\ faults \in Nat /\ crashes \in Nat

\* The completion path decides "still in the buffer" by comparing with the
\* first and the last id of the buffer (mark_many_jobs_complete).  That is
\* membership, whatever threads append, because ids are dense in the buffer.
RangeTestIsMembership == \A t \in Tx : InBuffer(t) <=> t \in Ids(wal_buffer)

\* An entry, committed or not, is in the file and the slot its id names, so a
\* flag byte written by id can only land on the entry of that id.
EntryInItsSlot ==
    \A f \in Files, i \in Slots :
        LET t == file[f].slots[i].tx IN
        t # NoTx => FileOf(t) = f /\ SlotOf(t) = i

\* Recovery skips an entry only if a marker reported its transaction complete:
\* no race between the writer and the markers sets the flag of another entry.
OnlyMarkedCompleted ==
    \A f \in Files, i \in Slots :
        LET e == file[f].slots[i] IN
        e.done /\ e.tx # NoTx => e.tx \in marked

\* A transaction the router has not finished is in memory or would be replayed
\* by recovery, through every interleaving, crash and restart.
Retained ==
    mode = "up" =>
        live \ lost \subseteq Ids(wal_buffer) \cup Ids(writer.copy) \cup ReadWal

\* Appenders that pass the back-pressure test together overshoot the limit of
\* twice the batch size, by at most one call each.
BufferBound ==
    Len(wal_buffer) <= 2 * BatchSize - 1 + MaxMany * Cardinality(Clients)

\* When shutdown returns, nothing appended is left in memory only.
ClosedIsFlushed == mode = "up" /\ closer = "closed" => live \ lost \subseteq ReadWal

\* A committed entry keeps its id, its completion is never taken back, and the
\* record count of a file never shrinks.
CommittedStable ==
    [][\A f \in Files, i \in Slots :
          Committed(f, i) =>
             /\ Committed(f, i)'
             /\ file'[f].slots[i].tx = file[f].slots[i].tx
             /\ file[f].slots[i].done => file'[f].slots[i].done]_vars

\* Every record in the buffer is eventually on disk, unless the process stops.  A
\* crash may leave a file without a header, which the writer then refuses.
AppendedReachesDisk ==
    \A t \in Tx :
        t \in Ids(wal_buffer) ~>
            \/ mode # "up" \/ closer = "relock"
            \/ crashes > 0 /\ t \in lost
            \/ \E f \in Files, i \in Slots : Committed(f, i) /\ file[f].slots[i].tx = t

=============================================================================
