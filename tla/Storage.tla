------------------------------- MODULE Storage -------------------------------
(***************************************************************************)
(* The flush of a memtable to the pages of its table and the reads that    *)
(* run beside it, down to pages and slots (storage/router.py): where the   *)
(* module Router has batches, this one has B-trees, pages, the disk index  *)
(* and its reconstruction, and the cache of unpacked records of a page.    *)
(*                                                                         *)
(* One client writes and swaps memtables; the flush job changes the shared *)
(* page objects without the table lock; a reader holds it from its first   *)
(* step to its last.  WAL and value cache are left to the modules Router   *)
(* and Database: what a crash takes from memory is gone here.              *)
(***************************************************************************)
EXTENDS TableFile, BTree

CONSTANTS
    Keys,               \* a set of integers, as keys are ordered
    Asked,              \* the keys get is called with
    Null,               \* the value a deletion writes
    Batches,            \* calls of set and set_many: sequences of <<key, value>>
    MaxMemtable,        \* max_memtable_size
    MaxCalls            \* bound: calls that write

ASSUME StorageAssumption ==
    /\ Keys \subseteq Int /\ Asked \subseteq Keys /\ Batches \subseteq Seq(Payloads)
    /\ MaxMemtable \in Nat \ {0} /\ MaxCalls \in Nat
    \* a record is a key and a value, and fits an empty page (Router has those that do not)
    /\ \A r \in Payloads : r[1] \in Keys /\ HasSpaceFor(NewPage, SizeOf[r])

VARIABLES
    active, immutable,  \* the memtables of the table
    disk_index,         \* key -> page and slot, or NoPlace
    cached_metadata,    \* page -> slots whose unpacked record is cached
    job,                \* the flush job: its step and local variables
    reader,             \* the thread in get: its step and local variables
    calls,
    written,            \* history: what the client put in the active memtable
    latest,             \* history: key -> the value last written
    kept,               \* history: key -> the values a restart may show
    tail                \* history: the last page when the file was last synced

memvars   == <<active, immutable>>
histvars  == <<written, latest, kept, tail>>
stvars    == <<filevars, memvars, disk_index, cached_metadata, job, reader, calls, histvars>>

NoPlace == <<0, 0>>
NoJob   == [pc |-> "idle", recs |-> <<>>, place |-> <<>>, page |-> 0, dirty |-> FALSE]
NoRead  == [pc |-> "idle", key |-> 0, page |-> 0, slot |-> 0, val |-> Null]
NoMap   == [k \in {} |-> Null]

StInit ==
    /\ FileInit
    /\ active = EmptyTree /\ immutable = EmptyTree
    /\ disk_index = [k \in Keys |-> NoPlace]
    /\ cached_metadata = [i \in Pages |-> {}]
    /\ job = NoJob /\ reader = NoRead /\ calls = 0
    /\ written = NoMap
    /\ latest = [k \in Keys |-> Null] /\ kept = [k \in Keys |-> {Null}]
    /\ tail = 0

TableLockFree == reader.pc = "idle"

----------------------------------------------------------------------------
(* Writing.                                                                *)

\* The records of a call go to the memtable one by one, under the table lock.
Write(s) ==
    LET tree[i \in 0 .. Len(s)] ==
            IF i = 0 THEN active ELSE TreeInsert(tree[i - 1], s[i][1], s[i][2])
        last(k) == CHOOSE i \in DOMAIN s : s[i][1] = k
        touched == {s[i][1] : i \in DOMAIN s}
    IN
    /\ isopen /\ TableLockFree
    /\ active.size < MaxMemtable /\ calls < MaxCalls
    /\ calls' = calls + 1
    /\ active' = tree[Len(s)]
    /\ written' = [k \in DOMAIN written \cup touched |->
                      IF k \in touched THEN s[last(k)][2] ELSE written[k]]
    /\ latest' = [k \in Keys |-> IF k \in touched THEN s[last(k)][2] ELSE latest[k]]
    /\ UNCHANGED <<filevars, immutable, disk_index, cached_metadata, job, reader, kept, tail>>

\* A full memtable, when the last flush has ended: swap, and submit a flush.
Swap ==
    /\ isopen /\ TableLockFree
    /\ active.size >= MaxMemtable /\ job.pc = "idle"
    /\ immutable' = active /\ active' = EmptyTree
    /\ job' = [NoJob EXCEPT !.pc = "start"]
    /\ written' = NoMap
    /\ UNCHANGED <<filevars, disk_index, cached_metadata, reader, calls, latest, kept, tail>>

----------------------------------------------------------------------------
(* flush_memtable_to_disk.                                                 *)

Flushing(pc) == isopen /\ job.pc = pc

JobStart ==
    /\ Flushing("start") /\ TableLockFree
    /\ job' = [job EXCEPT !.pc = "place", !.recs = InOrder(immutable.root)]
    /\ UNCHANGED <<filevars, memvars, disk_index, cached_metadata, reader, calls, histvars>>

\* Mutation: the flush goes on in the first page.
JobPlaceFirst ==
    /\ Flushing("place")
    /\ \/ file = <<>> /\ AllocatePage
       \/ file # <<>> /\ 1 \in DOMAIN page_cache /\ UNCHANGED filevars
    /\ job' = [job EXCEPT !.pc = "fill", !.page = 1]
    /\ UNCHANGED <<memvars, disk_index, cached_metadata, reader, calls, histvars>>

\* The last page of the file, or a first one.  Pages that can be read are cached
\* from the time the table is opened.
JobPlace ==
    /\ Flushing("place")
    /\ \/ file = <<>> /\ AllocatePage
       \/ Len(file) \in DOMAIN page_cache /\ UNCHANGED filevars
    /\ job' = [job EXCEPT !.pc = "fill", !.page = Len(file')]
    /\ UNCHANGED <<memvars, disk_index, cached_metadata, reader, calls, histvars>>

\* The last page is damaged: the flush fails, and the memtable stays.
JobFails ==
    /\ Flushing("place")
    /\ file # <<>> /\ Len(file) \notin DOMAIN page_cache
    /\ job' = NoJob
    /\ UNCHANGED <<filevars, memvars, disk_index, cached_metadata, reader, calls, histvars>>

NextRecord == job.recs[Len(job.place) + 1]
Fits == HasSpaceFor(page_cache[job.page], SizeOf[NextRecord])

\* insert_record, which also drops the unpacked records of the page.
JobInsert ==
    /\ Flushing("fill") /\ Len(job.place) < Len(job.recs) /\ Fits
    /\ Insert(job.page, NextRecord)
    /\ cached_metadata' = [cached_metadata EXCEPT ![job.page] = {}]
    /\ job' = [job EXCEPT !.dirty = TRUE,
                          !.place = Append(@, <<job.page, Len(page_cache[job.page].slots) + 1>>)]
    /\ kept' = [kept EXCEPT ![NextRecord[1]] = @ \cup {NextRecord[2]}]
    /\ UNCHANGED <<memvars, disk_index, reader, calls, written, latest, tail>>

\* The page is full: write it if something was put in it, and go on in a new one.
JobWritePage ==
    /\ Flushing("fill") /\ Len(job.place) < Len(job.recs) /\ ~Fits /\ job.dirty
    /\ WritePage(job.page)
    /\ job' = [job EXCEPT !.dirty = FALSE]
    /\ UNCHANGED <<memvars, disk_index, cached_metadata, reader, calls, histvars>>

JobNewPage ==
    /\ Flushing("fill") /\ Len(job.place) < Len(job.recs) /\ ~Fits /\ ~job.dirty
    /\ AllocatePage
    /\ job' = [job EXCEPT !.page = Len(file')]
    /\ UNCHANGED <<memvars, disk_index, cached_metadata, reader, calls, histvars>>

JobWriteLast ==
    /\ Flushing("fill") /\ Len(job.place) = Len(job.recs)
    /\ \/ job.dirty /\ WritePage(job.page)
       \/ ~job.dirty /\ UNCHANGED filevars
    /\ job' = [job EXCEPT !.pc = "index"]
    /\ UNCHANGED <<memvars, disk_index, cached_metadata, reader, calls, histvars>>

\* The keys of the job, with their numbers in it.
Flushed == {job.recs[i][1] : i \in DOMAIN job.recs}
NumberOf(k) == CHOOSE i \in DOMAIN job.recs : job.recs[i][1] = k

\* Mutation: a key that has a place keeps it.
JobIndexKeepsPlace ==
    /\ Flushing("index")
    /\ disk_index' = [k \in Keys |->
          IF k \notin Flushed THEN disk_index[k]
          ELSE IF job.recs[NumberOf(k)][2] = Null THEN NoPlace
          ELSE IF disk_index[k] # NoPlace THEN disk_index[k] ELSE job.place[NumberOf(k)]]
    /\ job' = [job EXCEPT !.pc = "sync"]
    /\ UNCHANGED <<filevars, memvars, cached_metadata, reader, calls, histvars>>

\* Deletions leave the index, the other keys get their new place.
JobIndex ==
    /\ Flushing("index")
    /\ disk_index' = [k \in Keys |->
          IF k \notin Flushed THEN disk_index[k]
          ELSE IF job.recs[NumberOf(k)][2] = Null THEN NoPlace ELSE job.place[NumberOf(k)]]
    /\ job' = [job EXCEPT !.pc = "sync"]
    /\ UNCHANGED <<filevars, memvars, cached_metadata, reader, calls, histvars>>

\* handler.sync, after which the WAL is told.
JobSync ==
    /\ Flushing("sync")
    /\ Sync
    /\ job' = [job EXCEPT !.pc = "release"]
    /\ kept' = [k \in Keys |-> IF k \in Flushed THEN {job.recs[NumberOf(k)][2]} ELSE kept[k]]
    /\ tail' = Len(file)
    /\ UNCHANGED <<memvars, disk_index, cached_metadata, reader, calls, written, latest>>

JobRelease ==
    /\ Flushing("release") /\ TableLockFree
    /\ immutable' = EmptyTree
    /\ job' = NoJob
    /\ UNCHANGED <<filevars, active, disk_index, cached_metadata, reader, calls, histvars>>

Job == \/ JobStart \/ JobPlace \/ JobFails \/ JobInsert \/ JobWritePage \/ JobNewPage
       \/ JobWriteLast \/ JobIndex \/ JobSync \/ JobRelease
----------------------------------------------------------------------------
(* get, once the value cache has missed: all under the table lock.         *)

RecordAt(i, s) == PayloadAt(page_cache[i], s)

Return(v) == reader' = [reader EXCEPT !.pc = "returned", !.val = v]
Reading(pc) == isopen /\ reader.pc = pc
ReadOnly == UNCHANGED <<filevars, memvars, disk_index, job, calls, histvars>>

\* The memtables, then the disk index.
ReadStart(k) ==
    LET found == IF Find(active.root, k) # {} THEN Find(active.root, k)
                 ELSE Find(immutable.root, k)
        at == disk_index[k]
    IN
    /\ Reading("idle")
    /\ reader' = CASE found # {} ->
                        [NoRead EXCEPT !.pc = "returned", !.key = k, !.val = CHOOSE v \in found : TRUE]
                   [] found = {} /\ at = NoPlace -> [NoRead EXCEPT !.pc = "returned", !.key = k]
                   [] OTHER -> [NoRead EXCEPT !.pc = "check", !.key = k,
                                              !.page = at[1], !.slot = at[2]]
    /\ UNCHANGED cached_metadata /\ ReadOnly

\* "slot_id in page.cached_metadata"; if not, the record is unpacked and cached.
ReadCheck ==
    /\ Reading("check")
    /\ \/ /\ reader.slot \in cached_metadata[reader.page]
          /\ reader' = [reader EXCEPT !.pc = "hit"]
          /\ UNCHANGED cached_metadata
       \/ /\ reader.slot \notin cached_metadata[reader.page]
          /\ cached_metadata' = [cached_metadata EXCEPT ![reader.page] = @ \cup {reader.slot}]
          /\ Return(RecordAt(reader.page, reader.slot)[2])
    /\ ReadOnly

\* Mutation: the scan leaves out the last page.
ReadHitShortScan ==
    /\ Reading("hit")
    /\ \/ /\ reader.slot \in cached_metadata[reader.page]
          /\ Return(RecordAt(reader.page, reader.slot)[2])
       \/ /\ reader.slot \notin cached_metadata[reader.page]
          /\ reader' = [reader EXCEPT !.pc = "page", !.page = Len(file) - 1]
    /\ UNCHANGED cached_metadata /\ ReadOnly

\* The cached record; a KeyError, if an insertion has emptied the cache of the page
\* since, is caught, and all pages are scanned from the end.
ReadHit ==
    /\ Reading("hit")
    /\ \/ /\ reader.slot \in cached_metadata[reader.page]
          /\ Return(RecordAt(reader.page, reader.slot)[2])
       \/ /\ reader.slot \notin cached_metadata[reader.page]
          /\ reader' = [reader EXCEPT !.pc = "page", !.page = Len(file)]
    /\ UNCHANGED cached_metadata /\ ReadOnly

\* The next page of the scan, from its last slot; pages that cannot be read are
\* left out.
ScanPage ==
    /\ Reading("page")
    /\ IF reader.page = 0 THEN Return(Null)
       ELSE reader' = IF reader.page \in DOMAIN page_cache
                      THEN [reader EXCEPT !.pc = "scan",
                                          !.slot = Len(page_cache[reader.page].slots)]
                      ELSE [reader EXCEPT !.page = @ - 1]
    /\ UNCHANGED cached_metadata /\ ReadOnly

\* One slot of the scan.  If its record were cached, the lookup would raise when an
\* insertion empties the cache of the page first: nothing catches that here.
ScanSlot ==
    LET r == RecordAt(reader.page, reader.slot) IN
    /\ Reading("scan")
    /\ IF reader.slot = 0
       THEN /\ reader' = [reader EXCEPT !.pc = "page", !.page = @ - 1]
            /\ UNCHANGED cached_metadata
       ELSE /\ cached_metadata' = [cached_metadata EXCEPT ![reader.page] = @ \cup {reader.slot}]
            /\ IF reader.slot \in cached_metadata[reader.page]
               THEN reader' = [reader EXCEPT !.pc = "exposed"]
               ELSE IF r[1] = reader.key THEN Return(r[2])
               ELSE reader' = [reader EXCEPT !.slot = @ - 1]
    /\ ReadOnly

ReadEnd ==
    /\ Reading("returned")
    /\ reader' = NoRead
    /\ UNCHANGED cached_metadata /\ ReadOnly

Reader == \/ \E k \in Asked : ReadStart(k)
          \/ ReadCheck \/ ReadHit \/ ScanPage \/ ScanSlot \/ ReadEnd

----------------------------------------------------------------------------
(* A crash, and the table opened again.                                    *)

\* The slots of pages that can be read that hold a record of k.
PlacesOf(k) ==
    UNION {{<<i, s>> : s \in {s \in Live(file[i]) : Whole(file[i], s) /\ PayloadAt(file[i], s)[1] = k}} :
           i \in {j \in DOMAIN file : Readable(file[j])}}
Before(a, b) == a[1] < b[1] \/ (a[1] = b[1] /\ a[2] < b[2])
Latest(P)    == CHOOSE at \in P : \A b \in P : b = at \/ Before(b, at)
ValueAt(at)  == PayloadAt(file[at[1]], at[2])[2]

\* Mutation: the record of a deletion is skipped.
RebuiltIgnoringDeletions ==
    [k \in Keys |->
        LET P == {at \in PlacesOf(k) : ValueAt(at) # Null} IN
        IF P = {} THEN NoPlace ELSE Latest(P)]

\* _init_disk_index: the last record of a key counts, a deletion takes it out.
Rebuilt ==
    [k \in Keys |->
        LET P == PlacesOf(k) IN
        IF P = {} \/ ValueAt(Latest(P)) = Null THEN NoPlace ELSE Latest(P)]

OnDisk(k) == IF disk_index[k] = NoPlace THEN Null ELSE ValueAt(disk_index[k])

StCrash ==
    /\ Crash
    /\ active' = EmptyTree /\ immutable' = EmptyTree /\ written' = NoMap
    /\ job' = NoJob /\ reader' = NoRead
    /\ UNCHANGED <<disk_index, cached_metadata, calls, latest, kept, tail>>

\* The table is opened, every page that can be read is cached, the index built.
Restart ==
    /\ ~isopen
    /\ isopen' = TRUE
    /\ page_cache' = [i \in {j \in DOMAIN file : Readable(file[j])} |-> file[i]]
    /\ disk_index' = Rebuilt
    /\ cached_metadata' = [i \in Pages |-> {}]
    /\ latest' = [k \in Keys |-> IF disk_index'[k] = NoPlace THEN Null ELSE ValueAt(disk_index'[k])]
    /\ UNCHANGED <<file, disk, unsynced, crashes, safe, memvars, job, reader, calls,
                   written, kept, tail>>

StNext ==
    \/ \E s \in Batches : Write(s)
    \/ Swap \/ Job \/ Reader \/ StCrash \/ Restart

StSpec == StInit /\ [][StNext]_stvars

----------------------------------------------------------------------------
(* Properties.                                                             *)

\* In whatever order keys are inserted and written again, the memtable finds exactly
\* these keys with their last values, traverses them in order for the flush, counts
\* them for the flush threshold, and keeps its nodes filled and its leaves level.
MemtableIsMap == IsMap(active, written)

\* The last page can be read, so that flushes succeed.
Usable == file = <<>> \/ Len(file) \in DOMAIN page_cache

\* A read returns the value last written, by whichever way it finds it and whatever
\* the flush job does to the pages, the index and the caches of the pages meanwhile.
ReadsReturnLatest ==
    reader.pc = "returned" /\ Usable => reader.val = latest[reader.key]

\* An insertion can cause a KeyError in a read at the lookup by index, where it is
\* caught.  The scan that follows, where it would not be, meets no cached record: the
\* cache of the page was just emptied, and later pages are only known to the job.
ScanNeverRaises == reader.pc # "exposed"

\* As long as no page that was ever synced is damaged, the index, rebuilt after a
\* crash or kept up to date since, shows for every key the value of the last completed
\* flush or a later one: no older value and no deleted one comes back.
DiskKept ==
    isopen /\ (\A i \in 1 .. tail : i \in DOMAIN page_cache) =>
        \A k \in Keys : OnDisk(k) \in kept[k]

\* Pages are rewritten in place, but a flush begins in the last page: a crash, even
\* one in the middle of a page write, damages no page before the one that was last
\* when the file was last synced.
FullPagesKept ==
    [][\A i \in 1 .. tail - 1 : file[i] # Damaged => i \in DOMAIN file' /\ file'[i] # Damaged]_stvars
=============================================================================
