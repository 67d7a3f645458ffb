# A TLA+ development for cachyDB

These modules model the parts of cachyDB where threads, files and crashes meet: the
write-ahead log, the checkpoint, the router with its memtables, flush jobs and large
values, the table files with their pages, the cache, and the database that opens,
recovers and closes them. TLC checks the modules on small instances,
TLAPS proves the main invariants for every value of the constants. Paths below are
relative to `src/src/cachyDB/`, the implementation; the repository has no tests.

## The system

A client thread calls `CachyDB.set/get/delete/set_many`. The call goes to the
`Router`, which splits large values in chunks, packs a record, appends it to the
`WAL` buffer and inserts it in the active memtable (a B-tree) of its table. A full
memtable becomes the immutable one and a job on the router's executor writes it to the
table's pages, updates the index, syncs, and marks the transactions complete in the
WAL. Reads look at the LFU cache, the active memtable, the immutable one and the
table file. Background threads: the WAL writer, one short preallocation thread per
WAL file, the checkpoint, the compactor.

| Component | State | Operations | Talks to | What is hard | What makes it correct |
|---|---|---|---|---|---|
| WAL (`recovery/wal.py`) | buffer, next id, completions in RAM, files, cached handle, stop event | append(_many), mark_job(s)_complete, writer loop, preallocation, read_wal, force_flush, shutdown, restore | router (appends, marks), database (recovery), checkpoint (files) | two locks, a swap followed by I/O without the lock, file creation from two threads, failure of one batch, crash at any step | nothing unfinished is forgotten, entries are in the slot of their id, only reported completions are recorded, shutdown ends |
| Router (`storage/router.py`) | two memtables and transaction lists per table, disk index, flush futures, `active_flushes` | set, set_many, delete, get, flush job, shutdown, table creation, chunked values | WAL, cache, table handler, executor | table lock taken for single steps only, future read outside it, job runs against writers, failing job | reads return the latest write, what is marked complete is durable, a crash can be recovered from at any step |
| Database (`database.py`) | lazily created parts, lock | open, recovery, close, delegation to the router | all | router visible before recovery, completions during recovery, crash between steps | an open database shows the last surviving value of each key |
| LFU cache (`cache/cache.py`) | map, frequencies, frequency groups, min_freq | get, put, invalidate, clear | router | redundant structures kept in step by hand | structures agree, an eviction finds its victim |
| Checkpoint (`recovery/checkpoint.py`) | thread, archive directory | scan, archive and unlink finished files | WAL files, `active_flushes` | file unlinked under the writer's handle, decision from data read earlier | only finished files go |
| Table files (`storage/table_handler.py`, `pager/pager.py`) | file, cache of page objects, slots | allocate, read, write, sync, close; insert, get, delete, compact | router | page objects shared by flush job and readers, pages rewritten in place, torn writes | a slot id keeps its record, a synced record comes back, pages not being filled are never damaged |
| B-tree (`index/btree.py`) | nodes | insert, search, contains, traverse | router | splits on the way down | behaves as a sorted map |
| Compactor (`garbage/compactor.py`) | thread | background pass, compaction of a table | router internals | it asks the router for an attribute it does not have (line 107), so the pass always raises | – |
| Record codec (`record/record.py`) | – | serialize, deserialize | nothing in the write or read path | – | – |
| Log handler, structured logger (`logger/`) | log files | rotation, formatting | all | – | – |

The hazards of each component, with their lines, are listed in `PROJECT.json`.

## Modules

| Module | Models | Extends |
|---|---|---|
| `WAL` | `recovery/wal.py`: buffer, writer thread, preallocation threads, completions, shutdown, crash, restart | – |
| `Router` | `storage/router.py` for one table: set, set_many, delete, get, flush jobs; the cache contents | – |
| `KVStore` | nothing of the code: what a database promises, as one sequence of writes | – |
| `Database` | `database.py` around the router: open, recovery, close, crash, open again; implements `KVStore` | `Router` |
| `Pager` | `pager/pager.py`: one slotted page, as operators | – |
| `TableFile` | `storage/table_handler.py`: file and page cache, sync, close, crash, torn pages | `Pager` |
| `BTree` | `index/btree.py`, as recursive operators, with the map they stand for | – |
| `Storage` | `storage/router.py`: the flush job and the disk reads down to pages and slots, the index and its reconstruction | `TableFile`, `BTree` |
| `LargeValues` | `storage/router.py`: values of several records, creation of a table | – |
| `Checkpoint` | `recovery/checkpoint.py` against a coarse writer and markers, with the cached file handle | – |
| `LFUCache` | `cache/cache.py`: keys, frequencies, frequency groups | – |
| `WALProofs`, `RouterProofs`, `CheckpointProofs`, `LFUCacheProofs`, `TableFileProofs`, `LargeValuesProofs` | theorems and proofs | the module they are about |
| `DatabaseProofs` | theorems and proofs about lives and restarts, and the refinement of `KVStore` | `Database`, `RouterProofs` |
| `Extremes` | lemmas: a set of numbers has a least element, a bounded one a greatest | – |
| `MC...` | instances for TLC, one for each module that a run checks | |

The same code appears at three levels. `KVStore` says what callers may rely on.
`Database` and `Router` have every lock, job and life, with the table file as a
sequence of batches. `Storage` replaces the batches by trees, pages, slots and the
index, and `LargeValues` the single record by a manifest and its chunks; each leaves
to the others what it does not need.

Definitions keep the names of the source; `PROJECT.json` maps each to its lines.
Definitions under a comment `Mutation:` are deliberate variants of the definition that
follows: with one in its place, a property named in `PROJECT.json` fails. They are not
part of the specifications.

**WAL.** An action is one critical section, or one call whose effect another thread can
see. A client passes the back-pressure test (`PassBackpressure`) and appends later
(`AppendToBuffer`, `AppendManyToBuffer`), because the test is outside the lock. The
writer swaps the buffer (`WriterSwap`), takes the completions (`WriterCopyCompleted`),
and for each batch creates the file if it is missing (three steps: truncate, allocate,
head), writes entries, then the header, then syncs. A marker adds to `ram_completed_tx`
and later sets flag bytes file by file (`MarkInRam`, `MarkOnDisk`); taking the handle of
another file closes the one the writer is about to sync. A crash keeps what was handed
to the operating system. `live`, `marked`, `lost` are history variables: transactions
still to be completed, completions reported, records the writer gave up with a logged
error. The bounded I/O errors also hit a marker, which then sets only part of the flags it has for
a file, and a preallocation, which ends where it was. A payload is only its size.

**Router.** A record is its transaction id; `log` says which key it writes and whether it
is a deletion or too large for a page. `Set` is one critical section (append, insert, cache, size
test), `SetManyLog` and `SetManyInsert` are two. After it, `CheckFuture`, `AwaitFlush`
and `Swap` are separate because the lock is released between them. A flush job goes
through count, write, index, sync, mark, release, uncount; the table file is a sequence of batches,
one per flush, of which the first `synced` survive a crash. `completed` is what the WAL was told,
`forgotten` the part of it that has no flag there: `JobMark` may lose any of the marks it makes, because the
writer may hold the records, with the completions already copied, and write them without. Recovery
goes by `Flagged`, the difference. `stamp`, `clock` and `latest` are history variables that say what was inserted last.

**Database.** Adds the phases of a life and the recovery cursor to `Router`. A crash may lose
records the WAL writer has not written and batches not synced; from then on `latest` is
what survived. The WAL appears as the log and the count `written`: its own failures
are in `WAL`. Of marks, only those of records not yet written can be lost (`MarksReach`); recovery
marks what is on disk, and its marks stay.

**KVStore, and how `Database` implements it.** The abstract state is the history of writes, a call under
way, which writes are safe, and the map an open database shows. Writes have numbers, and a history is a function
from numbers: those of writes that were lost stay unused. The mapping (`Mode`, `History`, `Call`, `Safe`, `Shown`)
numbers a write by its transaction; it takes as history the logged records no crash took, as call the records of a
`set_many` that are logged and not yet inserted, as safe those the WAL writer has written, and as map what `get`
returns, cache included. Flush jobs, evictions, recovery and the index are invisible in `KVStore`, so each of their
steps must leave all of this alone. A crash may cut off an end of the history that is
not safe; a close that returns leaves all of it safe.

**Pager, TableFile.** A byte is what it belongs to (`<<payload, i>>`, a slot entry, zero), so records that
overlap, are cut or are moved wrongly show as bytes that are not theirs. `TableFile` keeps for every page what was
last synced and what was written since. If the process dies, the file stays as it was written, synced or not;
a loss of power (`PowerLoss`) leaves any of these, or a damaged page when a write was under way. Insertion, deletion and repacking act on the page object in the cache, which
is not the page in the file. The router never deletes from or repacks a page (only the
compactor would), so these two are exercised here and not in `Storage`.

**BTree, Storage.** A node is a record of keys, values and children. `Storage` runs the tree as the memtable: a
call inserts its records one by one, and a large call (18 keys, in three orders) makes trees of several
levels. The flush job goes record by record: test for space, insert in the shared page object, write when full, allocate; then
index, sync, release. A read holds the table lock from its first step to its last; the job
takes that lock only to start and to release, so all its steps in between interleave with the
steps of a read: the index, the test and the lookup in the page's cache of unpacked records
(two steps, as `_get_page_slot_record` has them), and the scan after an error.

**LargeValues.** One key. An entry is a value or the number of chunks; a chunk is a value with a number. Every record is
one critical section, the call is not. The first access creates the table: entered, locked,
opened, ready, under the global lock, while threads that see the table entered skip that
lock and get a `KeyError` from a missing lock or handler. Where the code swallows that error (the
lookup of the old manifest) or falls back to an unchunked value (writing chunks), so does the
model. A record that is written and the flush its call then waits for can fail (`FlushFails`): the call
raises with the record in place, which ends the deletion of old chunks, or turns the rest of the value into
an unchunked one. `logged` is what the WAL was given of the key and no flush has marked complete. A crash keeps a beginning
of it, since the append returns before anything is written; recovery brings its last entry back, in the memtable only,
and marks it, so that a second crash can lose it. A crash loses the chunks that are only in the WAL,
because recovery replays them to another table.

**Checkpoint.** `dir` is what the names reach and `orphan` the unlinked file the cached handle
still reaches. Batches and file creation are single steps here (their interleavings
are in `WAL`). Check, copy and unlink are separate steps without any lock, as in the
code, and copy and unlink may fail. Recovery marks without counting itself in `active_flushes`.

**LFUCache.** Each operation holds the cache's lock, so it is one action. A get that hits and a
put of a cached key have the same effect on the keys: `Touch`. The groups are sequences
(`OrderedDict`); the history variable `recency` orders all keys by last use.

## Runs

| Run | Shows | Bounds, and why they are enough |
|---|---|---|
| `WAL_core` | Nothing unfinished is forgotten (`Retained`), a shutdown that returns left nothing in memory (`ClosedIsFlushed`), committed entries never change (`CommittedStable`), buffered records reach the disk (`AppendedReachesDisk`) | One file of 3 entries, an appender with calls of 1 and 2 records, a marker, 1 crash: the swap, an append during the write and a mark in each place can all happen, and restart can reuse ids |
| `WAL_rotation` | Types, the range test of the marker is membership (`RangeTestIsMembership`), entries are where their id says (`EntryInItsSlot`), flags only for reported completions (`OnlyMarkedCompleted`) | Files of 2 entries, 3 ids, calls of 2: a call and a copy cross the file boundary, the preallocation thread races the writer, one I/O error hits any step of writer, marker or preallocation |
| `Router_single` | Types, what the WAL is told is complete is durable (`MarkedIsDurable`), `ReadsLatest`, `CacheCoherent`, `FlushCountExact`, `RebuildAgrees`, `ReplayCorrect` (for keys that lost no mark), and a waiting client goes on (`WaitersProceed`), a flushed record is reported complete (`FlushedIsMarked`) | 1 client, 2 keys, memtables of 2, 5 transactions, 2 flushes, 1 lost mark: keys are overwritten and deleted in every place they can live, the client has to wait for a flush, and a mark is lost in the first flush or the second |
| `Database_crash` | After every stop and restart an open database reads the last surviving value, from the cache and past it (`RestartReads`); the database implements `KVStore` (`ImplementsKVStore`) | 1 client, 2 keys, 3 transactions, a flush that loses no mark, 2 lives, 1 crash: the stop comes after every step of a write, a flush (failing ones included) and a recovery |
| `TableFile_pages` | Pages stay sound, and readable as written (`PagesSound`), slot ids keep their records (`RecordsKept`), synced records survive (`SyncedSurvives`) | A page of 8 bytes, records of 1 and 2, 2 versions between syncs, 2 crashes: a page fills exactly, is holed, repacked over itself and filled again, and a crash leaves what was written, or an old, a new or a torn version; the second one meets what the first left unsynced. Pages do not interact, so one is enough; `Storage_flush` has three |
| `Storage_flush` | The B-tree is a map (`MemtableIsMap`), reads return the last value (`ReadsReturnLatest`) and never raise in the scan (`ScanNeverRaises`), the rebuilt index shows no older value (`DiskKept`), only the last page can be torn (`FullPagesKept`) | 18 keys with degree 2 give trees of three levels with splits at the root, at inner nodes and leaves; 3 calls, 3 pages, 1 crash: flushes start in a half full page, fill it, and go on in new ones, beside one reader |
| `LargeValues_chunks` | Complete writes are found complete (`StoredIsLatest`), old chunks go (`NoChunkLeft`), a read sees one value (`ReadsRegular`), a restart keeps what is small and in the WAL, or flushed (`RestartKeeps`) | 1 writer, 1 reader, values of 0, 1 and 2 chunks, 2 calls, 1 failing creation or flush, 2 crashes: every size replaces every other, between any two records of a read, and what one recovery brought back meets a second |
| `Checkpoint_files` | What is unlinked was complete and is archived (`RemovedIsArchived`, `FullFileWasFinished`), archives are kept (`ArchiveKept`), finished files are archived in the end (`FinishedIsArchived`) | Files of 2, 3 transactions, 1 failed copy or unlinking, 1 crash: a file is active, full, unlinked and created again, and a copy is cut short |
| `LFUCache_policy` | The structures agree (`GroupsAgree`), a full cache has a victim (`VictimExists`), the victim is least used (`EvictsLeastUsed`) | 4 keys for 3 places, 4 accesses each: ties, empty groups and a stale `min_freq` all occur |
| `Router_dropped` | violated: `ReadsLatest` with 2 clients | see below |
| `Database_second` | violated: `RestartReads` with 3 lives and no crash | see below |
| `Checkpoint_active` | violated: `ActiveStays` | see below |

Deadlock is checked in `LFUCache_policy`; the other runs end when a bound is
used up or the database is down for good (`CHECK_DEADLOCK FALSE`). Symmetry is
used only where nothing but safety is checked: of the keys, in `Router_dropped` and `Database_crash`
(`KVStore` has no fairness, and the mapping treats all keys alike).

The bounds `MaxTx`, `MaxJobs`, `MaxForgotten`, `MaxOpens`, `MaxFaults`, `MaxCrashes`, `MaxMany`, `MaxCalls`, `MaxPages`, `MaxWrites` and
`MaxFreq` limit how long a behaviour is; the program has no such limits.
`WalAhead = TRUE` in the database runs assumes that a crash finds the WAL writer at
least as far as the table file, and `MaxForgotten = 0` there that no mark of a flush is lost; the code ensures neither (see below). `Sizes` and
`Oversize` keep records that exceed a limit out of the runs that are about something else.

**Fairness.** `WAL!FairSpec`: the threads are scheduled. The writer's wait has a timeout
of one second, so it ends without an event. Nobody is obliged to append, mark or shut down.
`Router!FairSpec`: the executor runs its jobs, and a client inside a call continues; no
fairness on starting a call. `Checkpoint!FairSpec`: the checkpoint thread wakes up after each interval and a
flush ends. A stream of flushes without a pause could keep the checkpoint away for ever;
in the model their number is bounded, so the property is about a database that pauses.

## Divergences

Three runs show where the code does not do what its text says:

* `Router_dropped`: two clients that found no flush under way both swap; the second swap
  overwrites an immutable memtable no flush has taken.
* `Database_second`: recovery marks a record complete as soon as it is in a memtable, and close does
  not flush the active memtable. The record survives the first restart and not the second.
* `Checkpoint_active`: the newest file is the preallocated one, so the active file counts as
  sealed and is removed while the writer has it open.

These others can be seen in the same modules, most of them by changing the constants
of a passing run (which is why that run has the constants it has):

* `WAL`: `force_flush` holds the lock that `_write_buffer_to_disk` takes, and the lock is not reentrant. A close with
  records in the buffer stops in the step `relock` for ever, although `shutdown` is documented to flush
  remaining data. `ClosedIsFlushed` is about the shutdowns that return.
* `WAL_core` with `Capacity = 2`, `PayloadArea = 3`: `Retained` and, with a crash, `CommittedStable` fail. Writer and preallocation thread
  create the same file and one truncates the other's; or the writer meets a file without
  a header and gives the batch up.
* `WAL_core` with a size above `PayloadArea`: `append_to_buffer` accepts the record and the writer
  gives up its batch, although the docstring promises `WALCapacityError`.
* A stop during preallocation can leave a last file with a zeroed header (`mode = "failed"`):
  the WAL does not open again.
* A completion reported while the writer holds the record is lost: the writer has copied the completions (`recovery/wal.py:495-497`),
  the marker finds no file, or a flag that the entry then overwrites (580-585), and the next copy drops
  what was kept in RAM. Recovery replays the record, over a later one of its key if that was marked.
  So a clean close and open can show an old value, with one client and no crash: with `MaxForgotten = 1`, `Oversize = {FALSE}`
  and `MaxCrashes = 0`, `Database_crash` finds `RestartReads` and `ImplementsKVStore` violated (k1 by 1, k1 by 2, k2 by 3, the
  writer holds 1 when the flush marks the three). `ReplayCorrect` says that only the keys with a lost mark suffer.
* `_set_internal` calls the append to the WAL "the durability point" (`storage/router.py:428`), but `append_to_buffer` returns when the
  record is in the buffer (`recovery/wal.py:365`): a crash loses completed calls that the writer had not come to, small values and
  deletions included. `KVStore` therefore lets a crash cut off writes that are not safe, and `RestartKeeps` is about crashes after the writer has
  written all it was given.
* `CachyDB.close` does not wait for calls under way (`database.py:293-319`). `WAL` assumes that it is called when they have returned
  (`StartShutdown`); an append that comes later stays in the buffer.
* `Router_single` with two clients: besides `ReadsLatest`, `FlushCountExact` fails (a job that finds
  nothing to flush takes back a count it never added) and `ReplayCorrect` fails (`set_many`
  takes its ids before the lock). With one client and `Oversize = {FALSE, TRUE}`, a failed flush leaves pages the
  index was not told of (`RebuildAgrees` fails); with `MaxMemtable = 1` as well, the memtable it did not write is overwritten
  by the next swap and `ReadsLatest` fails. (With two keys and memtables of two, the next one has every key again.)
* `Database_crash` with `WalAhead = FALSE`: replay puts an older record over a newer one the table
  has. With a second client: it is served before recovery is done, and replay puts an
  older value over its write.
* `LargeValues_chunks` with two writers: their chunks interleave, and after both calls have returned
  the value cannot be read (`StoredIsLatest` fails).
* `LargeValues`: `get` caches the value it put together after it has left the lock, so a value
  replaced meanwhile stays in the cache until it is evicted. `ReadsRegular` is therefore about
  reads that go to the records.
* `LargeValues`: recovery takes the table from the key up to its first colon. The key of a chunk begins with
  `__chunk__:`, so its chunks go to a table of that name, and a large value that was not flushed
  is lost by a restart. The chunks of an old value are deleted before the new ones are written, so a
  stop in between can lose both.
* `LargeValues`: a small value that a restart brought back is in a memtable and marked complete; unless a flush takes it, the next restart loses it
  (as in `Database_second`). `RestartKeeps` has this as `Durable`.
* `LargeValues`: a lookup that meets a table half created is swallowed, and the old chunks stay behind. So do chunks when the flush that a deletion
  of a chunk waits for fails (`storage/router.py:526`, swallowed at 380 and 417), or that a new chunk waits for (turned into an unchunked value at 406).
  If the table file cannot be opened the first time, every later access fails.
* `Checkpoint_files`: a file that could not be unlinked stays for ever, since its archive exists (`recovery/checkpoint.py:232`).
* `Storage_flush`: a torn last page cannot be read again, and every later flush of its table
  raises (`JobFails`); new pages are never tried.

## Proofs

TLAPS checks these for every value of the constants that satisfies the assumptions (`WALAssumption`,
`ClientsAssumption`, `RouterAssumption`, `CheckpointAssumption`, `CacheAssumption`, `PagerAssumption`,
`TableFileAssumption`, `LargeValuesAssumption`: sizes and bounds are numbers, capacities positive, clients finite in number,
values, numbers and chunks told apart). `LargeValuesProofs`, `DatabaseProofs` and the last parts of
`RouterProofs` and `WALProofs` assume more.

`WALProofs`: `TypeCorrect`, `RangeTestCorrect`, `SlotsCorrect`, `CompletionCorrect`. The inductive invariant
`IInv` adds three facts to the properties. `MemoryDense`: ids in the buffer, in the writer's copy
and below `global_tx_id` follow each other without gaps, which is what makes the range test
membership and puts a batch in consecutive slots. `Remembered`: whatever the
memory, a marker's list or the writer's copy calls complete was reported. `WriterHasBatch`: in the steps of a
batch the copy is not empty. The steps are proved one conjunct at a time, and each of
these per action; `BatchCount` and `RestIsDense` are the lemmas about splitting the copy
by file. None of the properties is inductive alone: a flag byte is written by id, so that
it lands on the right entry needs `EntryInItsSlot`, and that needs density.

`RouterProofs`: `TypeCorrect` and `MarkedDurable`, with any number of clients, overlapping and failing
flushes, and any marks lost. The inductive invariant adds: both memtables cover their transaction lists (`Covers`: for
each transaction, its record or one inserted no earlier); every running job covers the
transactions it will mark by the records it took, by the batch it wrote once written, and by
the synced part once synced (`JobOK`); insertions are stamped in order and transactions only logged have
no stamp (`StampsOK`); what is marked was inserted (`MarkedLogged`). It is needed because a
swap may replace the immutable memtable and its list while a job works on them: only
what the job itself took justifies what it marks. Proved per action; `CoversStays` and
`DurableStays` say that later insertions and batches keep what was covered.

`WALProofs` also proves `BufferBounded`: the buffer exceeds its limit by at most one call of each appender. The
limit is tested outside the lock, so the invariant `Admission` counts the clients that have
passed the test and not appended: the buffer with what they may still bring (`Outside`) stays within the
bound. It needs that the clients are finite in number (`ClientsAssumption`) and arithmetic on
cardinalities (`OutsideSize`, `Products`). No run checks it.

Three more theorems of `WALProofs` assume `OneFile`: the ids handed out fit in one file, as in `WAL_core`.
With two, writer and preallocation thread may truncate each other's file, and the properties are false of
the code (see Divergences). `CommittedKept` proves `CommittedStable` with I/O errors and crashes. Its invariant `UInv` says
that only the writer creates file 0 and that nothing is counted before it has its header (`FilesOK`), that the copy ends
where the buffer begins (`CopyOK`), and that the records counted and those the writer is about to count
do not reach beyond it (`RecBelow`): so entries of a new batch never fall on counted slots. `NothingForgotten` and
`ShutdownKeepsAll` prove `Retained` and `ClosedIsFlushed` with crashes, but `MaxFaults = 0` and `[]Fits` (a batch never exceeds
the payload area; in `WAL_core` the area holds everything there is). Both are needed: a batch given up leaves the count
behind the ids, and entries of later batches fall on slots that are not counted. The invariant `RInv` adds that nothing is
between the records counted, the copy and the buffer (`Contig`), that unfinished and completed transactions are apart
everywhere in memory (`Known`), what the writer has put where between entries, header and fsync (`Placed`), where
each unfinished transaction is (`Somewhere`), and what a finished shutdown left (`Closing`). `JoinedIds`, `OneBatch` and
`ReadIs` are about ids of a concatenation, batches and recovery when there is one file.

With one client, `RouterProofs` also proves `SingleReadsLatest`, `SingleCacheCoherent`, `SingleFlushCount`, `SingleRebuild`, `SingleReplay`: the
five properties of `Router_single` about the values themselves, for every number of keys, transactions and
flushes, and every size of the memtable and the cache. Their hypothesis `Single` says that there is at most
one client and that every record fits a page. Both parts are needed: without either, `ReadsLatest` is false of
the code (`Router_dropped`, and the oversized record under Divergences). The inductive invariant `SInv`
says: only the last job is not done, and the client swaps only then (`OneJob`); what memory, table,
`synced` and the count are at each of its stages (`StageOK`); ids pass through active memtable, immutable one and
marks in their order (`InOrder`); `latest` is the highest id inserted for the key (`LatestOK`), and it is found in
the first place that has the key (`MemoryOK`); the index agrees with a scan of the batches it was
told of (`IndexOK`). Replay takes the highest unfinished id of a key, so it needs that
what is complete is a beginning of the ids: that is `InOrder`. A lost mark makes a hole in what is flagged, but only the replay of
its own key looks there; `ReplayCorrect` leaves out these keys, so `SingleReplay` needs no hypothesis about lost marks. `ScanNext` says what one more batch adds to a scan.

`DatabaseProofs`: `ReopenedReads` and `ReopenedImplements`, from one invariant (`DatabaseInductive`). Their hypothesis `Reopened` has five parts.
No lost mark (`MaxForgotten = 0`), because replay puts the record of a lost one over later ones of its key;
at most one client, because a second is served before recovery is done; at most one restart, because a second loses what the
first recovered (`Database_second`); no crash at all, or only crashes that find the WAL writer not behind the table file,
because otherwise replay puts an older record over a newer one; and every record fits a page, because a failed flush is
overwritten by the next swap. Without any one of these `RestartReads` is false of the code (see Divergences). `Database_crash` has oversized
records all the same, with a single flush, after which no swap can follow; with `MaxMemtable = 1` and `MaxJobs = 2` it fails. The invariant `DInv` is one conjunct per phase:

* while the database is open or closing, `ReadInv`: the part of `SInv` about values, with `LatestBut(gone)`, where crashed writes are left out;
* in the first life (`FirstLife`), `OrderInv`, the part of `SInv` about the order of ids, and `Durable`: a transaction marked complete is in the
  table file, whatever part of the unsynced batches a crash leaves;
* when it is down after that life, `Repairable`: the latest record of a key is the last one recovery will replay, or, if none
  is left to replay, what a scan of the table file finds. A crash at any step of a flush leaves this;
* while it recovers, `Starting`: the same for what recovery has still to look at from `Here` on, with the memtable
  for what it has done. A mark comes one step after its insertion, so `Here` is one further in between. At the end nothing is left, and
  `Starting` is `ReadInv` again.

In the second life the order of ids and marks no longer holds (recovery has marked what only the memtable has), so `DInv` claims
`FirstLife` of the first only; that is why a third would not start right. `RouterCarries` is the step of the router in an open database.

The refinement has one lemma per action of the database. The client's writes are a `Write` (`SetWrites`) or a `Begin` and a `Finish`
(`SetManyBegins`, `SetManyFinishes`); the WAL writer's step is `Save`, the end of recovery `Opened`, close `Stop` and `Stopped`, and a crash
`Crash`, the part it may lose being an end of the history because ids are written in order. All other steps are stutters, since the
invariant gives `Shown` the same value before and after. `ContentIs` says that the map a history makes is its greatest
number for each key, and `OverJoined` that writes put over the map of a history make the map of both: with them what
`get` answers, which the invariant ties to `latest`, is the abstract map.

`CheckpointProofs`: `TypeCorrect`, `RemovedArchived`, `FullFileFinished`, and the action property in `ArchivesKept`.
What the checkpoint read in one step must still be true in a later one, while writer, markers and
crashes go on. `CheckedOK` says what it knows at each step, of a file that has a newer one. `InPlace` (the writer
has put nothing in files after its own) and `NewerExists` (the newest file is never unlinked) give that such
a file stays full and its flags set. `FlagsOK` is what makes `FullFileWasFinished` inductive: a crash forgets
completions of records whose flag stays on disk, and these are only in the newest file at slots the
writer will fill again. `NamesOK` is about the handle whose file lost its name. `FileMonotone`, `DivMod` and
`FilesApart` are the arithmetic of places.

`LFUCacheProofs`: `TypeCorrect`, `StructuresAgree`, `VictimAlwaysExists`, and the action property in `LeastUsedEvicted`. The
invariant `LInv` adds that the keys are finite in number (the capacity is a cardinality), that `recency` holds every cached key
once (`RecencyOK`), and that no frequency is below `min_freq` (`MinIsLeast`). The latter makes the head of the group
of `min_freq` the right victim; after `invalidate` that group may be empty, but then
the cache is not full, and the next insertion sets `min_freq` to 1. `WithoutElement`, `AppendElement` and `HeadAndTail` say
what the operations of an `OrderedDict` do to the order of the others.

`TableFileProofs`: `PagesAlwaysSound`, `SlotIdsStable`, `SyncedIsKept`. The invariant `TInv` says that every page object and every
page of the file is `Good`: sound, and with `Room`, the offset down to which repacking moves the records is no lower than `upper`.
`Sound` alone does not survive a compaction: it allows live records that together need more than the space
above `upper`, and repacked they would run into the directory. `CacheCurrent` says that a page of the file that is not cached can be read
into it, and `SafeOK` that each synced record is in every version of its page a crash may leave
(`StillHolds`: later operations keep it in the page object, `StoredIsHeld`: then every page written has it).
Repacking is a recursive function over the slots; that it exists, that it falls from slot to slot, and that it falls less
after a deletion (`RepackedIs`, `RepackedDown`, `RepackedShorter`) are shown by the first slot
at which it would not (`Extremes`), since the library's induction is out of reach. One lemma per page operation (`InsertKeeps`, `DeleteKeeps`,
`ToBytesKeeps`, `CompactKeeps`), one per action.

`LargeValuesProofs`: `RecordsShowTheValue`, `ChunksAreTheManifests`, `ReadsOfTheirTime`, and `RestartKeepsTheValue`, for any number of readers,
values, chunks, failed creations, failing flushes and crashes. Their hypothesis `SingleWriter` is needed: with two writers
`StoredIsLatest` is false of the code (see Divergences). The invariant `VInv` relates the records at each step of a call
to what the call has done: between calls they show `latest` (`Settled`), also as long as lock or handler is
missing, which is what makes a call that fails half-way harmless; the chunks of the old value go from the front and those of
the new one come from the front (`ChunksOK`, `WriterOK`); the first chunk belongs to the last value or to the one being written
(`EntryOK`), and is all that says which value a reader has put together (`AssembledFirst`). For a reader (`ReaderOK`): if a write was
under way at any time since its call, it may miss the value (`Null` is in `seen`); if not, what it has read so far
is what the records have (`PartsOK`, `Undisturbed`). `LogOK` says that the last entry logged is the one in the records:
what a crash after the WAL writer finds is then what was there.

Only model-checked: everything else in the table of runs. `BTree` has recursive operators, so it and
`Storage`, which extends it, can be checked only (`MemtableIsMap`, `ReadsReturnLatest`, `ScanNeverRaises`, `DiskKept`, `FullPagesKept`).
Liveness under fairness (`AppendedReachesDisk`, `WaitersProceed`, `FlushedIsMarked`, `FinishedIsArchived`) is out of the prover's reach.

## Not modelled

* The compactor. Its thread asks the router for `memtables` (`garbage/compactor.py:107`), which the router does not
  have, and logs the error, every time. `_should_compact` and `compact_table` unpack the pair that `_get_table_state` returns into
  three names (139, 200) and raise as well. No state of the database changes, so there is no action to write.
* The record codec: pure, and nothing in the write or read path calls it. Logging: no database
  state depends on it.
* The failure path of initialization and the start of the background threads in the database.
* In `LargeValues`, the loss of a memtable whose flush failed: a value too large for a page stays in `store`, where
  the program drops it at the next swap (`storage/router.py:530`). `Router` has that (`Router_dropped`, and oversized records under Divergences).
  There too, no mark is lost.
* Two flush jobs that insert in the same page object at the same time. It takes the double swap of
  `Router_dropped` to get there; `Router` has the two jobs as two batches.
* More than one table. Tables share the WAL, the cache, the executor and the count of flushes, and nothing else;
  what the modules need of another table (its share of `active_flushes`, the chunks that are
  replayed to it) is seen from one.
* Failures of the operating system: in `WAL` a crash is the death of the process, so that what was
  written stays; in `Database`, `TableFile` and `Storage` what was not synced may be lost or torn (in `TableFile` it may also all be there).

## Plan

Every module of the plan is written, and every safety property of a module without recursive operators is proved.
What could follow:

1. `BTree` with recursive functions in place of the recursive operators, so that `Storage` can be proved about. That a
   tree is a sorted map for every depth takes induction over trees, which has to be done by a least counterexample
   as `TableFileProofs` does for repacking.
2. `Database` with a second client, once the router is published only after recovery.
3. `RestartReads` for any number of restarts, once `_recover_from_wal` marks what it has flushed and not what it has inserted.
