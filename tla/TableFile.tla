------------------------------ MODULE TableFile ------------------------------
(***************************************************************************)
(* A table file (storage/table_handler.py): pages of fixed size behind a   *)
(* cache of page objects, which every reader and writer of a page shares   *)
(* and changes in place.  A page reaches the file when it is written, the  *)
(* disk when the file is synced.                                           *)
(*                                                                         *)
(* A crash leaves every page as it was last synced, as it was written at   *)
(* any time since, or damaged by an unfinished write, and the file at any  *)
(* length it had.  Pages are numbered from 1.                              *)
(***************************************************************************)
EXTENDS Pager, FiniteSets

CONSTANTS
    Torn,               \* whether a crash may leave a page write unfinished
    MaxPages,           \* bound: pages of the file
    MaxWrites,          \* bound: versions of a page written between two syncs
    MaxCrashes          \* bound: crashes

ASSUME TableFileAssumption ==
    /\ Torn \in BOOLEAN
    /\ MaxPages \in Nat /\ MaxWrites \in Nat /\ MaxCrashes \in Nat

VARIABLES
    page_cache,         \* _page_cache: page id -> page object
    file,               \* the pages of the file, as written
    disk,               \* the pages of the file, as last synced
    unsynced,           \* page id -> what was written to it since
    isopen,             \* the file handle is open
    crashes,
    safe                \* history: synced records not deleted since

filevars == <<page_cache, file, disk, unsynced, isopen, crashes, safe>>

NoPages == [i \in {} |-> NewPage]
Pages   == 1 .. MaxPages

\* The records of the file that are not deleted in the page objects.
Stored ==
    LET kept(i) == {s \in Live(file[i]) :
                       /\ Whole(file[i], s)
                       /\ i \in DOMAIN page_cache => s \in Live(page_cache[i])}
    IN  UNION {{<<i, s, PayloadAt(file[i], s)>> : s \in kept(i)} : i \in DOMAIN file}

FileInit ==
    /\ page_cache = NoPages
    /\ file = <<>> /\ disk = <<>> /\ unsynced = [i \in Pages |-> {}]
    /\ isopen = TRUE /\ crashes = 0 /\ safe = {}

\* Store raw as page i of the file and its object in the cache.
Put(i, raw) ==
    /\ file' = IF i \in DOMAIN file THEN [file EXCEPT ![i] = raw] ELSE Append(file, raw)
    /\ page_cache' = [j \in DOMAIN page_cache \cup {i} |-> IF j = i THEN raw ELSE page_cache[j]]
    /\ unsynced' = [unsynced EXCEPT ![i] = @ \cup {raw}]

AllocatePage ==
    /\ isopen /\ Len(file) < MaxPages
    /\ Put(Len(file) + 1, ToBytes(NewPage))
    /\ UNCHANGED <<disk, isopen, crashes, safe>>

\* read_page of a page not cached; it raises, and changes nothing, if the page
\* cannot be read.
ReadPage(i) ==
    /\ isopen /\ i \in DOMAIN file \ DOMAIN page_cache
    /\ Readable(file[i])
    /\ page_cache' = [j \in DOMAIN page_cache \cup {i} |->
                         IF j = i THEN file[i] ELSE page_cache[j]]
    /\ UNCHANGED <<file, disk, unsynced, isopen, crashes, safe>>

WritePage(i) ==
    /\ isopen /\ i \in DOMAIN page_cache
    /\ Cardinality(unsynced[i]) < MaxWrites
    /\ Put(i, ToBytes(page_cache[i]))
    /\ UNCHANGED <<disk, isopen, crashes, safe>>

\* Mutation: the buffers are not forced to disk.
SyncSkipped ==
    /\ isopen
    /\ safe' = Stored
    /\ UNCHANGED <<page_cache, file, disk, unsynced, isopen, crashes>>

Sync ==
    /\ isopen
    /\ disk' = file /\ unsynced' = [i \in Pages |-> {}]
    /\ safe' = Stored
    /\ UNCHANGED <<page_cache, file, isopen, crashes>>

Close ==
    /\ isopen
    /\ isopen' = FALSE /\ page_cache' = NoPages
    /\ disk' = file /\ unsynced' = [i \in Pages |-> {}]
    /\ safe' = Stored
    /\ UNCHANGED <<file, crashes>>

Open ==
    /\ ~isopen
    /\ isopen' = TRUE
    /\ UNCHANGED <<page_cache, file, disk, unsynced, crashes, safe>>

\* What a crash may leave of page i.
Survivors(i) ==
    (IF i \in DOMAIN disk THEN {disk[i]} ELSE {Damaged})
    \cup unsynced[i]
    \cup (IF Torn /\ unsynced[i] # {} THEN {Damaged} ELSE {})

PowerLoss ==
    /\ \E n \in Len(disk) .. Len(file) :
       \E f \in [1 .. n -> UNION {Survivors(i) : i \in 1 .. n}] :
          /\ \A i \in 1 .. n : f[i] \in Survivors(i)
          /\ file' = f /\ disk' = f
    /\ unsynced' = [i \in Pages |-> {}]

\* The process dies, and the system keeps what was written; or the machine stops.
Crash ==
    /\ isopen /\ crashes < MaxCrashes
    /\ crashes' = crashes + 1 /\ isopen' = FALSE /\ page_cache' = NoPages
    /\ UNCHANGED <<file, disk, unsynced>> \/ PowerLoss
    /\ UNCHANGED safe

----------------------------------------------------------------------------
(* What is done to the page objects (pager/pager.py).                      *)

Change(i, p) == page_cache' = [page_cache EXCEPT ![i] = p]

Insert(i, r) ==
    /\ i \in DOMAIN page_cache /\ HasSpaceFor(page_cache[i], SizeOf[r])
    /\ Change(i, InsertRecord(page_cache[i], r))
    /\ UNCHANGED <<file, disk, unsynced, isopen, crashes, safe>>

Delete(i, s) ==
    /\ i \in DOMAIN page_cache /\ s \in Live(page_cache[i])
    /\ Change(i, DeleteRecord(page_cache[i], s))
    /\ safe' = {t \in safe : t[1] # i \/ t[2] # s}
    /\ UNCHANGED <<file, disk, unsynced, isopen, crashes>>

CompactPage(i) ==
    /\ i \in DOMAIN page_cache
    /\ Change(i, Compact(page_cache[i]))
    /\ UNCHANGED <<file, disk, unsynced, isopen, crashes, safe>>

FileNext ==
    \/ AllocatePage \/ Sync \/ Close \/ Open \/ Crash
    \/ \E i \in Pages :
          \/ ReadPage(i) \/ WritePage(i) \/ CompactPage(i)
          \/ \E r \in Payloads : Insert(i, r)
          \/ \E s \in 1 .. PageSize : Delete(i, s)

FileSpec == FileInit /\ [][FileNext]_filevars

----------------------------------------------------------------------------
(* Properties.                                                             *)

Slots == [off : 0 .. PageSize, len : 0 .. PageSize]

\* A page is sound: the directory and the records do not meet, every record lies in
\* the record area, and no two records share a byte.
Sound(p) ==
    /\ p.slots \in Seq(Slots)
    /\ p.lower = HeaderSize + SlotSize * Len(p.slots)
    /\ p.upper \in p.lower .. PageSize
    /\ \A s \in Live(p) : /\ p.upper <= p.slots[s].off
                          /\ p.slots[s].off + p.slots[s].len <= PageSize
    /\ \A s, t \in Live(p) :
          s # t => \/ p.slots[s].off + p.slots[s].len <= p.slots[t].off
                   \/ p.slots[t].off + p.slots[t].len <= p.slots[s].off
    /\ DOMAIN p.data = Offsets

\* Every page object is sound, whatever sequence of insertions, deletions,
\* repacking, writes and reloads made it, and what write_page wrote of it read_page
\* accepts.
PagesSound ==
    /\ \A i \in DOMAIN page_cache : Sound(page_cache[i])
    /\ \A i \in DOMAIN file : file[i] # Damaged => Readable(file[i])

\* A slot id stands for the same payload as long as the page is in memory: no
\* insertion, deletion of another record, repacking or write changes what it reads,
\* and a deleted slot stays deleted.
RecordsKept ==
    [][\A i \in DOMAIN page_cache \cap DOMAIN page_cache' :
          \A s \in DOMAIN page_cache[i].slots :
             /\ s \in DOMAIN page_cache'[i].slots
             /\ \/ GetRecord(page_cache'[i], s) = GetRecord(page_cache[i], s)
                \/ page_cache'[i].slots[s] = Tombstone]_filevars

\* A record that was synced and not deleted since is read back under its page and
\* slot after any crash that does not damage its page.
SyncedSurvives ==
    \A t \in safe :
        /\ t[1] \in DOMAIN file
        /\ file[t[1]] # Damaged => t[2] \in Live(file[t[1]])
                                /\ GetRecord(file[t[1]], t[2]) = Bytes(t[3])
=============================================================================
