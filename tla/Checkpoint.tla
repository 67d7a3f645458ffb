----------------------------- MODULE Checkpoint -----------------------------
(***************************************************************************)
(* The checkpoint (recovery/checkpoint.py) against the writer and the      *)
(* markers of the write-ahead log: it archives and unlinks WAL files while *)
(* they append to them and flag entries in them.                           *)
(*                                                                         *)
(* WAL models how a batch is written and how a file is created; here those *)
(* are single steps, and what counts is which file a step reaches: the     *)
(* cached handle (WAL._get_open_file) is compared by name, so it goes on   *)
(* reaching a file whose name has been unlinked.                           *)
(***************************************************************************)
EXTENDS Integers, FiniteSets, FiniteSetsExt

CONSTANTS
    Capacity,           \* WAL_CAPACITY: entries in one file
    MaxTx,              \* bound: transactions written
    MaxFaults,          \* bound: failures of the copy to the archive
    MaxCrashes          \* bound: crashes of the process

ASSUME CheckpointAssumption ==
    /\ Capacity \in Nat \ {0}
    /\ MaxTx \in Nat /\ MaxFaults \in Nat /\ MaxCrashes \in Nat

VARIABLES
    next,               \* the next transaction the writer has to write
    dir,                \* the WAL files by name
    handle,             \* the name of the cached handle, or NoFile
    orphan,             \* the file behind it, if its name was unlinked
    writer,             \* the batch under way: size, completions taken from RAM
    spawned,            \* files whose preallocation thread has been started
    ram_completed_tx,   \* completions the writer has not taken yet
    job,                \* completions the flush under way has still to report
    active_flushes,     \* wal.active_flushes
    replay,             \* transactions recovery has still to complete
    archive,            \* the archives by name
    ckpt,               \* the checkpoint thread: pc, files to do, count read
    finished,           \* history: transactions reported complete
    removed,            \* history: file unlinked -> count the check had read
    faults, crashes

mem  == <<writer, spawned, ram_completed_tx, job, active_flushes, replay>>
hist == <<finished, removed>>
vars == <<next, dir, handle, orphan, mem, archive, ckpt, hist, faults, crashes>>

Tx     == 0 .. MaxTx - 1
Files  == 0 .. (MaxTx \div Capacity) + 1
Slots  == 0 .. Capacity - 1
NoFile == MaxTx + 2
NotYet == Capacity + 1
FileOf(t) == t \div Capacity
SlotOf(t) == t % Capacity

\* A file: its record count and what its slots hold.
Blank   == [state |-> "ok", rec |-> 0, slot |-> [i \in Slots |-> "blank"]]
Absent  == [Blank EXCEPT !.state = "absent"]
Partial == [Blank EXCEPT !.state = "partial"]
Exists(f) == dir[f].state = "ok"
Existing  == {f \in Files : Exists(f)}

IdleWriter     == [n |-> 0, done |-> {}]
IdleCheckpoint == [pc |-> "idle", todo |-> {}, rec |-> 0]

Init ==
    /\ next = 0 /\ dir = [f \in Files |-> Absent]
    /\ handle = NoFile /\ orphan = Absent
    /\ writer = IdleWriter /\ spawned = {} /\ ram_completed_tx = {}
    /\ job = {} /\ active_flushes = 0 /\ replay = {}
    /\ archive = [f \in Files |-> Absent] /\ ckpt = IdleCheckpoint
    /\ finished = {} /\ removed = [f \in Files |-> NotYet]
    /\ faults = 0 /\ crashes = 0

----------------------------------------------------------------------------
(* The write-ahead log.                                                    *)

\* The file that the handle for f reaches, opened if another one is cached.
Cached(f)  == handle = f /\ orphan # Absent
Reached(f) == IF Cached(f) THEN orphan ELSE dir[f]
Write(f, F) ==
    /\ handle' = f
    /\ \/ Cached(f) /\ orphan' = F /\ UNCHANGED dir
       \/ ~Cached(f) /\ orphan' = Absent /\ dir' = [dir EXCEPT ![f] = F]

\* Mutation: a batch goes past the end of its file.
WriterPrepareAcross ==
    /\ writer.n = 0
    /\ \E n \in 1 .. Capacity :
          /\ next + n <= MaxTx
          /\ writer' = [n |-> n, done |-> ram_completed_tx]
    /\ ram_completed_tx' = {}
    /\ LET f == FileOf(next) IN
       \/ /\ Exists(f) /\ UNCHANGED <<dir, spawned>>
       \/ /\ ~Exists(f)
          /\ dir' = [dir EXCEPT ![f] = Blank]
          /\ spawned' = spawned \cup {f + 1}
    /\ UNCHANGED <<next, handle, orphan, job, active_flushes, replay, archive, ckpt,
                   hist, faults, crashes>>

\* A batch for one file; a file that does not exist is created, and the thread
\* that creates the file after it is started.
WriterPrepare ==
    /\ writer.n = 0
    /\ \E n \in 1 .. Capacity :
          /\ next + n <= MaxTx /\ FileOf(next + n - 1) = FileOf(next)
          /\ writer' = [n |-> n, done |-> ram_completed_tx]
    /\ ram_completed_tx' = {}
    /\ LET f == FileOf(next) IN
       \/ /\ Exists(f) /\ UNCHANGED <<dir, spawned>>
       \/ /\ ~Exists(f)
          /\ dir' = [dir EXCEPT ![f] = Blank]
          /\ spawned' = spawned \cup {f + 1}
    /\ UNCHANGED <<next, handle, orphan, job, active_flushes, replay, archive, ckpt,
                   hist, faults, crashes>>

\* Under io_lock.  A file that was unlinked and is not cached cannot be opened:
\* the batch is given up.
WriterWrite ==
    LET f == FileOf(next)
        batch == {SlotOf(t) : t \in next .. next + writer.n - 1}
        Entry(i) == IF f * Capacity + i \in writer.done THEN "done" ELSE "open"
        appended == [Reached(f) EXCEPT !.rec = @ + writer.n,
            !.slot = [i \in Slots |-> IF i \in batch THEN Entry(i) ELSE @[i]]]
    IN
    /\ writer.n > 0
    /\ \/ /\ Exists(f) \/ Cached(f)
          /\ Write(f, appended)
       \/ /\ ~Exists(f) /\ ~Cached(f)
          /\ handle' = NoFile /\ orphan' = Absent
          /\ UNCHANGED dir
    /\ next' = next + writer.n /\ writer' = IdleWriter
    /\ UNCHANGED <<spawned, ram_completed_tx, job, active_flushes, replay, archive, ckpt, hist,
                   faults, crashes>>

PreallocAsync(f) ==
    /\ f \in spawned
    /\ spawned' = spawned \ {f}
    /\ dir' = IF Exists(f) THEN dir ELSE [dir EXCEPT ![f] = Blank]
    /\ UNCHANGED <<next, handle, orphan, writer, ram_completed_tx, job,
                   active_flushes, replay, archive, ckpt, hist, faults, crashes>>

\* What is still in the buffer is remembered only; for the rest the flag byte of
\* the slot is set, written or not, and a file that does not exist is skipped.
MarkComplete(t) ==
    LET f == FileOf(t)
        flagged == [Reached(f) EXCEPT !.slot[SlotOf(t)] = "done"]
        OnDisk == t < next + writer.n /\ Exists(f)
    IN
    /\ ram_completed_tx' = ram_completed_tx \cup {t}
    /\ finished' = finished \cup {t}
    /\ \/ OnDisk /\ Write(f, flagged)
       \/ ~OnDisk /\ UNCHANGED <<dir, handle, orphan>>

\* A flush job of the router: it counts itself, reports what it wrote, and
\* takes its count back.
FlushStart ==
    /\ active_flushes = 0
    /\ \E T \in SUBSET {t \in Tx \ finished : t < next + Capacity} \ {{}} : job' = T
    /\ active_flushes' = active_flushes + 1
    /\ UNCHANGED <<next, dir, handle, orphan, writer, spawned, ram_completed_tx,
                   replay, archive, ckpt, hist, faults, crashes>>
FlushMark ==
    /\ job # {} /\ MarkComplete(Min(job)) /\ job' = job \ {Min(job)}
    /\ UNCHANGED <<next, writer, spawned, active_flushes, replay, archive, ckpt,
                   removed, faults, crashes>>
FlushEnd ==
    /\ active_flushes > 0 /\ job = {}
    /\ active_flushes' = active_flushes - 1
    /\ UNCHANGED <<next, dir, handle, orphan, writer, spawned, ram_completed_tx,
                   job, replay, archive, ckpt, hist, faults, crashes>>

\* Recovery completes what it replays, without counting itself.
RecoverMark ==
    /\ replay # {} /\ MarkComplete(Min(replay)) /\ replay' = replay \ {Min(replay)}
    /\ UNCHANGED <<next, writer, spawned, job, active_flushes, archive, ckpt,
                   removed, faults, crashes>>

----------------------------------------------------------------------------
(* The checkpoint thread: no step takes a lock of the log.                 *)

walvars == <<next, dir, handle, orphan, mem, finished, crashes>>
Current == Min(ckpt.todo)
Skip    == ckpt' = [ckpt EXCEPT !.pc = "next", !.todo = @ \ {Current}]

\* Mutation: one file more is left alone.
CheckpointStartLate ==
    /\ ckpt.pc = "idle" /\ active_flushes = 0
    /\ Cardinality(Existing) > 1
    /\ ckpt' = [ckpt EXCEPT !.pc = "next", !.todo = Existing \ {Min(Existing), Max(Existing)}]
    /\ UNCHANGED <<walvars, archive, removed, faults>>

\* The files but the newest.  The count of flushes is looked at here only.
CheckpointStart ==
    /\ ckpt.pc = "idle" /\ active_flushes = 0
    /\ Cardinality(Existing) > 1
    /\ ckpt' = [ckpt EXCEPT !.pc = "next", !.todo = Existing \ {Max(Existing)}]
    /\ UNCHANGED <<walvars, archive, removed, faults>>

\* The header of the next file; a file without records is finished.
CheckHeader ==
    /\ ckpt.pc = "next"
    /\ \/ ckpt.todo = {} /\ ckpt' = IdleCheckpoint
       \/ /\ ckpt.todo # {}
          /\ ckpt' = [ckpt EXCEPT !.rec = dir[Current].rec,
                 !.pc = IF dir[Current].rec = 0 THEN "archive" ELSE "entries"]
    /\ UNCHANGED <<walvars, archive, removed, faults>>

\* Mutation: the last entry is not looked at.
CheckEntriesShort ==
    /\ ckpt.pc = "entries"
    /\ \/ /\ \A i \in 0 .. ckpt.rec - 2 : dir[Current].slot[i] = "done"
          /\ ckpt' = [ckpt EXCEPT !.pc = "archive"]
       \/ /\ \E i \in 0 .. ckpt.rec - 2 : dir[Current].slot[i] # "done"
          /\ Skip
    /\ UNCHANGED <<walvars, archive, removed, faults>>

\* As many entries as the header said.
CheckEntries ==
    /\ ckpt.pc = "entries"
    /\ \/ /\ \A i \in 0 .. ckpt.rec - 1 : dir[Current].slot[i] = "done"
          /\ ckpt' = [ckpt EXCEPT !.pc = "archive"]
       \/ /\ \E i \in 0 .. ckpt.rec - 1 : dir[Current].slot[i] # "done"
          /\ Skip
    /\ UNCHANGED <<walvars, archive, removed, faults>>

\* Mutation: an archive that exists is written again.
ArchiveCreateAnyway ==
    /\ ckpt.pc = "archive"
    /\ archive' = [archive EXCEPT ![Current] = Partial]
    /\ ckpt' = [ckpt EXCEPT !.pc = "copy"]
    /\ UNCHANGED <<walvars, removed, faults>>

\* An archive of that name is kept, whole or not, and the file with it.
ArchiveCreate ==
    /\ ckpt.pc = "archive"
    /\ \/ /\ archive[Current] # Absent
          /\ Skip
          /\ UNCHANGED archive
       \/ /\ archive[Current] = Absent
          /\ archive' = [archive EXCEPT ![Current] = Partial]
          /\ ckpt' = [ckpt EXCEPT !.pc = "copy"]
    /\ UNCHANGED <<walvars, removed, faults>>

\* The copy, or its failure: then the archive is taken away and the file stays.
ArchiveCopy ==
    /\ ckpt.pc = "copy"
    /\ \/ /\ archive' = [archive EXCEPT ![Current] = dir[Current]]
          /\ ckpt' = [ckpt EXCEPT !.pc = "unlink"]
          /\ UNCHANGED faults
       \/ /\ faults < MaxFaults /\ faults' = faults + 1
          /\ archive' = [archive EXCEPT ![Current] = Absent]
          /\ Skip
    /\ UNCHANGED <<walvars, removed>>

\* If the file cannot be unlinked it stays, beside its archive.
ArchiveUnlink ==
    /\ ckpt.pc = "unlink"
    /\ \/ /\ orphan' = IF handle = Current /\ orphan = Absent THEN dir[Current] ELSE orphan
          /\ dir' = [dir EXCEPT ![Current] = Absent]
          /\ removed' = [removed EXCEPT ![Current] = ckpt.rec]
          /\ UNCHANGED faults
       \/ /\ faults < MaxFaults /\ faults' = faults + 1
          /\ UNCHANGED <<orphan, dir, removed>>
    /\ Skip
    /\ UNCHANGED <<next, handle, mem, archive, finished, crashes>>

----------------------------------------------------------------------------
\* What read_wal finds.
ReadWal ==
    {t \in Tx : LET F == dir[FileOf(t)] IN
        F.state = "ok" /\ SlotOf(t) < F.rec /\ F.slot[SlotOf(t)] = "open"}

\* The process dies and the database is opened again.
CrashAndRestart ==
    /\ crashes < MaxCrashes /\ crashes' = crashes + 1
    /\ next' = IF Existing = {} THEN 0
               ELSE Max(Existing) * Capacity + dir[Max(Existing)].rec
    /\ handle' = NoFile /\ orphan' = Absent
    /\ writer' = IdleWriter /\ spawned' = {} /\ ram_completed_tx' = {}
    /\ job' = {} /\ active_flushes' = 0 /\ replay' = ReadWal
    /\ ckpt' = IdleCheckpoint
    /\ finished' = {t \in finished : t < next'}
    /\ UNCHANGED <<dir, archive, removed, faults>>

Flush == FlushStart \/ FlushMark \/ FlushEnd
Run ==
    \/ CheckpointStart \/ CheckHeader \/ CheckEntries
    \/ ArchiveCreate \/ ArchiveCopy \/ ArchiveUnlink

Next ==
    \/ WriterPrepare \/ WriterWrite
    \/ \E f \in Files : PreallocAsync(f)
    \/ Flush \/ RecoverMark
    \/ Run
    \/ CrashAndRestart

Spec == Init /\ [][Next]_vars

\* The checkpoint thread wakes up again and again, and a flush job ends.
FairSpec == Spec /\ WF_vars(Run) /\ WF_vars(FlushMark \/ FlushEnd)

----------------------------------------------------------------------------
(* Properties.                                                             *)

Contents == [state : {"ok", "absent", "partial"}, rec : 0 .. Capacity,
             slot : [Slots -> {"blank", "open", "done"}]]

\* Types; the record count of no file goes past its capacity.
TypeOK ==
    /\ next \in Nat
    /\ dir \in [Files -> Contents] /\ orphan \in Contents
    /\ handle \in Files \cup {NoFile}
    /\ writer \in [n : 0 .. Capacity, done : SUBSET Tx]
    /\ spawned \subseteq Files
    /\ ram_completed_tx \cup job \cup replay \cup finished \subseteq Tx
    /\ active_flushes \in {0, 1}
    /\ archive \in [Files -> Contents]
    /\ ckpt \in [pc : {"idle", "next", "entries", "archive", "copy", "unlink"},
                 todo : SUBSET Files, rec : 0 .. Capacity]
    /\ removed \in [Files -> 0 .. NotYet]
    /\ faults \in Nat /\ crashes \in Nat

Removed(f) == removed[f] # NotYet

\* A file is unlinked only with a whole archive in place that holds every entry
\* the check counted, each complete: whatever the writer and the markers do
\* between check, copy and unlink, and wherever a crash cut a copy short.
RemovedIsArchived ==
    \A f \in Files : Removed(f) =>
        /\ archive[f].state = "ok" /\ archive[f].rec >= removed[f]
        /\ \A i \in 0 .. removed[f] - 1 : archive[f].slot[i] = "done"

\* An archive that is whole is never overwritten, although the name of an
\* archived file may be used again.
ArchiveKept ==
    [][\A f \in Files : Removed(f) => archive'[f] = archive[f]]_vars

\* If a file was full when it was checked, nothing of it was left to recover.
FullFileWasFinished ==
    \A f \in Files : removed[f] = Capacity =>
        \A t \in Tx : FileOf(t) = f => t \in finished

Archivable(f) ==
    /\ Exists(f) /\ f < Max(Existing) /\ archive[f] = Absent
    /\ dir[f].rec = Capacity /\ \A i \in Slots : dir[f].slot[i] = "done"

\* A full file whose entries are complete is archived and unlinked in the end; after an
\* I/O error it is still archived, but a file that could not be unlinked is not tried again.
FinishedIsArchived ==
    \A f \in Files :
        Archivable(f) ~> Removed(f) \/ (faults > 0 /\ archive[f].state = "ok") \/ crashes > 0

\* "Only files that are not the current active WAL ... are considered"
\* (run_checkpoint): the file of the next transaction is never removed.
ActiveStays == \A f \in Files : Removed(f) => f < FileOf(next)
=============================================================================
