----------------------------- MODULE WALProofs -----------------------------
(***************************************************************************)
(* What holds of the write-ahead log for every number of threads, every    *)
(* file capacity and batch size, through rotation races, I/O errors,       *)
(* crashes and restarts; and what holds besides of a log that has not      *)
(* rotated, where the writer and the preallocation threads do not meet.    *)
(***************************************************************************)
EXTENDS WAL, FiniteSetTheorems, TLAPS

\* Consecutive ids, all of them assigned ids.
Dense(s) ==
    \A k \in 1 .. Len(s) : s[k].tx \in Tx /\ s[k].tx = s[1].tx + (k - 1)

\* The buffer and the writer's copy hold consecutive ids; the buffer ends
\* right below the next id.
MemoryDense ==
    /\ Dense(wal_buffer)
    /\ Dense(writer.copy)
    /\ wal_buffer # <<>> => wal_buffer[Len(wal_buffer)].tx = global_tx_id - 1

\* Every place that remembers a completion remembers a reported one.
Remembered ==
    /\ ram_completed_tx \subseteq marked
    /\ writer.done \subseteq marked
    /\ \A m \in Markers : pending[m] \subseteq marked \cap Tx
    /\ live \subseteq Tx

\* The writer only works on a file when it has a batch for it.
WriterHasBatch ==
    writer.pc \in {"truncate", "allocate", "head", "entries", "header", "fsync",
                   "closedfile"} => writer.copy # <<>>

\* A stopped process has no buffer.
StoppedIsEmpty == mode = "down" => wal_buffer = <<>>

IInv ==
    /\ TypeOK /\ MemoryDense /\ Remembered /\ WriterHasBatch /\ StoppedIsEmpty
    /\ EntryInItsSlot /\ OnlyMarkedCompleted

----------------------------------------------------------------------------
\* Transaction ids and places in files correspond one to one.
LEMMA DivMod ==
    ASSUME NEW t \in Nat
    PROVE  /\ FileOf(t) \in Nat /\ SlotOf(t) \in Slots
           /\ t = Capacity * FileOf(t) + SlotOf(t)
<1>1. Capacity \in Nat /\ Capacity > 0
  BY WALAssumption
<1>2. t = Capacity * (t \div Capacity) + (t % Capacity)
  BY <1>1, SMT
<1>3. (t % Capacity) \in 0 .. Capacity - 1 /\ t \div Capacity \in Nat
  BY <1>1, SMT
<1> QED
  BY <1>2, <1>3 DEF FileOf, SlotOf, Slots

\* The file of an id that can be assigned is one of Files.
LEMMA FileInFiles == ASSUME NEW t \in Tx PROVE FileOf(t) \in Files
<1> DEFINE C == Capacity
           q == t \div C
           Q == MaxTx \div C
<1>1. C \in Nat /\ C > 0 /\ MaxTx \in Nat /\ t \in Nat /\ t < MaxTx
  BY WALAssumption DEF Tx
<1>2. q \in Nat /\ Q \in Nat /\ C * q <= t /\ MaxTx < C * (Q + 1)
  BY <1>1, SMT
<1>3. C * q < C * (Q + 1)
  BY <1>1, <1>2, SMT
<1> HIDE DEF C, q, Q
<1>4. q < Q + 1
  BY <1>1, <1>2, <1>3, SMT
<1> QED
  BY <1>2, <1>4 DEF FileOf, Files, q, Q, C

\* One place in the files belongs to one id.
LEMMA PlaceIsUnique ==
    ASSUME NEW t \in Nat, NEW u \in Nat, FileOf(t) = FileOf(u), SlotOf(t) = SlotOf(u)
    PROVE  t = u
<1>1. t = Capacity * FileOf(t) + SlotOf(t) /\ u = Capacity * FileOf(u) + SlotOf(u)
  BY DivMod
<1> QED
  BY <1>1

\* Ids of one file that are consecutive lie in consecutive slots.
LEMMA SlotsFollow ==
    ASSUME NEW t \in Nat, NEW d \in Nat, FileOf(t + d) = FileOf(t)
    PROVE  SlotOf(t + d) = SlotOf(t) + d
<1> DEFINE q == Capacity * FileOf(t)
<1>1. t = q + SlotOf(t) /\ SlotOf(t) \in Nat
  BY DivMod DEF Slots
<1>2. t + d = q + SlotOf(t + d) /\ SlotOf(t + d) \in Nat
  BY DivMod DEF Slots
<1>3. q \in Int
  BY DivMod, WALAssumption
<1> HIDE DEF q
<1> QED
  BY <1>1, <1>2, <1>3

\* The number of records of the next batch is a number, at most all of them.
LEMMA BatchCount ==
    ASSUME writer.copy \in Seq(Rec)
    PROVE  Cardinality(Batch) \in Nat /\ Cardinality(Batch) <= Len(writer.copy)
<1>1. IsFiniteSet(1 .. Len(writer.copy)) /\ Cardinality(1 .. Len(writer.copy)) = Len(writer.copy)
  BY SMTT(30), FS_Interval, Len(writer.copy) \in Nat
<1>2. Batch \subseteq 1 .. Len(writer.copy)
  BY DEF Batch
<1> QED
  BY <1>1, <1>2, FS_Subset, FS_CardinalityType

\* What is left of a dense copy is dense.
LEMMA RestIsDense ==
    ASSUME writer.copy \in Seq(Rec), Dense(writer.copy)
    PROVE  Rest \in Seq(Rec) /\ Dense(Rest)
<1> DEFINE n == Cardinality(Batch)
           s == writer.copy
<1>1. n \in Nat /\ n <= Len(s)
  BY BatchCount
<1> HIDE DEF n
<1>2. /\ Rest \in Seq(Rec) /\ Len(Rest) = Len(s) - n
      /\ \A k \in 1 .. Len(s) - n : Rest[k] = s[n + k]
  BY <1>1 DEF Rest, n
<1>3. ASSUME NEW k \in 1 .. Len(Rest) PROVE Rest[k].tx \in Tx /\ Rest[k].tx = Rest[1].tx + (k - 1)
  <2>1. n + k \in 1 .. Len(s) /\ n + 1 \in 1 .. Len(s)
    BY <1>1, <1>2
  <2>2. s[n + k].tx = s[1].tx + (n + k - 1) /\ s[n + 1].tx = s[1].tx + n /\ s[n + k].tx \in Tx
    BY <2>1, <1>1 DEF Dense
  <2>3. s[1].tx \in Nat
    BY <2>1, 1 \in 1 .. Len(s) DEF Dense, Tx
  <2>4. k \in Nat /\ k \in 1 .. Len(s) - n /\ 1 \in 1 .. Len(s) - n
    BY <1>1, <1>2
  <2>5. Rest[k].tx = s[n + k].tx /\ Rest[1].tx = s[n + 1].tx
    BY <1>2, <2>4
  <2>6. s[n + k].tx = (s[1].tx + n) + (k - 1)
    BY SMTT(30), <1>1, <2>2, <2>3, <2>4
  <2> QED
    BY <2>2, <2>5, <2>6
<1> QED
  BY <1>2, <1>3 DEF Dense

----------------------------------------------------------------------------
\* File ids and the two out-of-range values are numbers.
LEMMA FilesAreNumbers == Files \subseteq Nat /\ NoFile \in Nat /\ NoTx \in Nat
<1>1. (MaxTx \div Capacity) + 1 \in Nat
  BY WALAssumption
<1> QED
  BY <1>1, WALAssumption DEF Files, NoFile, NoTx

\* The types of what the actions build.
LEMMA RecordsType ==
    ASSUME NEW g \in Nat, NEW s \in Seq(Sizes)
    PROVE  /\ Records(g, s) \in Seq(Rec) /\ Len(Records(g, s)) = Len(s)
           /\ \A k \in 1 .. Len(s) : Records(g, s)[k].tx = g + (k - 1)
BY DEF Records, Rec

\* The size lists of a call are nonempty sequences of sizes.
LEMMA SizeListType == ASSUME NEW s \in SizeLists PROVE s \in Seq(Sizes) /\ s # <<>>
BY WALAssumption DEF SizeLists

\* So is the size list of an append_to_buffer call.
LEMMA SizeOneType == ASSUME NEW s \in [1 .. 1 -> Sizes] PROVE s \in Seq(Sizes) /\ s # <<>>
<1>1. 1 \in 1 .. MaxMany
  BY WALAssumption
<1>2. s \in SizeLists
  BY <1>1 DEF SizeLists
<1> QED
  BY <1>2, SizeListType

FileType == [state : FileStates, rec : Nat, used : 0 .. PayloadArea,
             slots : [Slots -> [tx : Nat, done : BOOLEAN]]]

\* A file that is absent or freshly truncated is a file.
LEMMA BlankTypes == EmptyFile \in FileType /\ AbsentFile \in FileType
<1>1. NoEntry \in [tx : Nat, done : BOOLEAN] /\ 0 \in 0 .. PayloadArea
  BY WALAssumption DEF NoEntry, NoTx
<1> QED
  BY <1>1 DEF EmptyFile, AbsentFile, FileType, FileStates, BlankSlots

\* Allocating, heading and flagging a file give a file.
LEMMA FileTypes ==
    ASSUME NEW F \in FileType, NEW T
    PROVE  /\ EmptyFile \in FileType
           /\ Allocated(F) \in FileType /\ Headed(F) \in FileType
           /\ WithFlags(F, T) \in FileType
<1>1. 0 \in 0 .. PayloadArea
  BY WALAssumption
<1>3. Allocated(F) \in FileType /\ Headed(F) \in FileType
  BY <1>1 DEF FileType, FileStates, Allocated, Headed
<1>4. [i \in Slots |-> IF \E t \in T : SlotOf(t) = i
                       THEN [F.slots[i] EXCEPT !.done = TRUE] ELSE F.slots[i]]
        \in [Slots -> [tx : Nat, done : BOOLEAN]]
  BY DEF FileType
<1>5. WithFlags(F, T) \in FileType
  BY <1>3, <1>4 DEF WithFlags, FileType
<1> QED
  BY BlankTypes, <1>3, <1>5

WriterType == [pc : WriterPCs, copy : Seq(Rec), done : SUBSET Nat, rec : Nat,
               used : 0 .. PayloadArea]

\* The writer at rest, and what is left of its copy, are typed.
LEMMA WriterTypes ==
    IdleWriter \in WriterType /\ (writer \in WriterType => Rest \in Seq(Rec))
<1>1. IdleWriter \in WriterType
  BY WALAssumption DEF IdleWriter, WriterType, WriterPCs
<1>2. ASSUME writer \in WriterType PROVE Rest \in Seq(Rec)
  BY <1>2, BatchCount DEF Rest, WriterType
<1> QED
  BY <1>1, <1>2

\* The next batch belongs to one of Files.
LEMMA BatchFileInFiles ==
    ASSUME writer.copy \in Seq(Rec), writer.copy # <<>>, Dense(writer.copy)
    PROVE  BatchFile \in Files
<1>1. 1 \in 1 .. Len(writer.copy)
  OBVIOUS
<1> QED
  BY <1>1, FileInFiles DEF BatchFile, Dense

\* Ids of records are numbers.
LEMMA IdsType == ASSUME NEW s \in Seq(Rec) PROVE Ids(s) \subseteq Nat
<1>1. \A k \in 1 .. Len(s) : s[k] \in Rec
  OBVIOUS
<1>2. DOMAIN s = 1 .. Len(s)
  OBVIOUS
<1> QED
  BY <1>1, <1>2 DEF Ids, Rec

\* Appending consecutive ids that start at the next id.
LEMMA AppendDense ==
    ASSUME NEW b \in Seq(Rec), NEW r \in Seq(Rec), NEW g \in Nat,
           Dense(b), b # <<>> => b[Len(b)].tx = g - 1,
           Dense(r), r # <<>>, r[1].tx = g
    PROVE  Dense(b \o r) /\ (b \o r)[Len(b \o r)].tx = g + Len(r) - 1
<1> DEFINE n == Len(b)
           m == Len(r)
           s == b \o r
<1>1. n \in Nat /\ m \in Nat /\ m > 0
  OBVIOUS
<1>2. /\ Len(s) = n + m
      /\ \A k \in 1 .. n : s[k] = b[k]
      /\ \A k \in n + 1 .. n + m : s[k] = r[k - n]
  OBVIOUS
<1> HIDE DEF s
<1>3. \A k \in 1 .. m : r[k].tx \in Tx /\ r[k].tx = g + (k - 1)
  BY <1>1 DEF Dense
<1>4. \A k \in 1 .. n : b[k].tx \in Tx /\ b[k].tx = b[1].tx + (k - 1)
  BY DEF Dense
<1>5. n > 0 => b[1].tx = g - n
  <2>1. SUFFICES ASSUME n > 0 PROVE b[1].tx = g - n
    OBVIOUS
  <2>2. b # <<>> /\ n \in 1 .. n /\ 1 \in 1 .. n
    BY <1>1, <2>1
  <2>3. b[1].tx \in Int
    BY <1>4, <2>2 DEF Tx
  <2>4. g - 1 = b[1].tx + (n - 1)
    BY <1>4, <2>2
  <2> QED
    BY <1>1, <2>3, <2>4
<1>6. ASSUME NEW k \in 1 .. n + m PROVE s[k].tx \in Tx /\ s[k].tx = (g - n) + (k - 1)
  <2>1. CASE k <= n
    <3>1. k \in 1 .. n /\ n > 0
      BY <1>1, <2>1
    <3> QED
      BY <1>2, <1>4, <1>5, <3>1
  <2>2. CASE k > n
    <3>1. k \in n + 1 .. n + m /\ k - n \in 1 .. m
      BY <1>1, <2>2
    <3>2. s[k].tx = g + ((k - n) - 1) /\ s[k].tx \in Tx
      BY <1>2, <1>3, <3>1
    <3> QED
      BY <1>1, <3>1, <3>2
  <2> QED
    BY <1>1, <2>1, <2>2
<1>7. 1 \in 1 .. n + m /\ n + m \in 1 .. n + m
  BY <1>1
<1>8. s[1].tx = g - n
  BY <1>1, <1>6, <1>7
<1>9. s[n + m].tx = g + m - 1
  BY <1>1, <1>6, <1>7
<1> QED
  BY <1>2, <1>6, <1>8, <1>9 DEF Dense, s

\* An action of the writer leaves a batch file that is a number.
LEMMA BatchFileType ==
    ASSUME writer \in WriterType, writer.copy # <<>>
    PROVE  BatchFile \in Nat
<1> DEFINE s == writer.copy
<1>1. s \in Seq(Rec) /\ s # <<>>
  BY DEF WriterType
<1>2. s[1] \in Rec
  BY <1>1
<1>3. s[1].tx \in Nat
  BY <1>2 DEF Rec
<1> QED
  BY <1>3, DivMod DEF BatchFile

----------------------------------------------------------------------------
\* Every step keeps the types.
LEMMA TypeStep == IInv /\ [Next]_vars => TypeOK'
<1> SUFFICES ASSUME IInv, [Next]_vars PROVE TypeOK'
  OBVIOUS
<1>0. /\ TypeOK /\ WriterHasBatch /\ Remembered
      /\ writer \in WriterType /\ file \in [Files -> FileType]
  BY DEF IInv, TypeOK, WriterType, FileType
<1>1. ASSUME NEW c \in Clients, PassBackpressure(c) PROVE TypeOK'
  BY <1>0, <1>1 DEF TypeOK, PassBackpressure, hist, bound
<1>2. ASSUME NEW c \in Clients, NEW s \in Seq(Sizes), AppendRecords(c, s) PROVE TypeOK'
  <2>1. Records(global_tx_id, s) \in Seq(Rec)
    BY <1>0, RecordsType DEF TypeOK
  <2>2. wal_buffer' \in Seq(Rec)
    BY <1>0, <1>2, <2>1 DEF TypeOK, AppendRecords
  <2>3. global_tx_id' \in Nat /\ live' \subseteq Nat
    <3>1. global_tx_id \in Nat /\ Len(s) \in Nat /\ live \subseteq Nat
      BY <1>0 DEF TypeOK
    <3>2. (global_tx_id .. global_tx_id + Len(s) - 1) \subseteq Nat
      BY <3>1
    <3>3. live' = live \cup (global_tx_id .. global_tx_id + Len(s) - 1)
      BY <1>2 DEF AppendRecords
    <3>4. global_tx_id' \in Nat
      BY <1>2, <3>1 DEF AppendRecords
    <3>5. live' \subseteq Nat
      BY <3>1, <3>2, <3>3, Zenon
    <3> QED
      BY <3>4, <3>5
  <2> QED
    BY <1>0, <1>2, <2>2, <2>3 DEF TypeOK, AppendRecords, hist, bound
<1>3. ASSUME NEW m \in Markers, NEW T \in SUBSET live, MarkInRam(m, T) PROVE TypeOK'
  BY <1>0, <1>3 DEF TypeOK, MarkInRam, hist, bound
<1>4. ASSUME NEW m \in Markers, NEW f \in Files, MarkOnDisk(m, f) PROVE TypeOK'
  <2>1. file' \in [Files -> FileType]
    BY <1>0, <1>4, FileTypes DEF MarkOnDisk
  <2>2. handle' \in Nat /\ writer' \in WriterType
    <3>1. CASE UNCHANGED <<handle, writer>>
      BY <1>0, <3>1 DEF TypeOK
    <3>2. CASE UseHandle(f)
      <4>1. [writer EXCEPT !.pc = "closedfile"] \in WriterType
        BY <1>0 DEF WriterType, WriterPCs
      <4> QED
        BY <1>0, <3>2, <4>1, FilesAreNumbers DEF UseHandle
    <3> QED
      BY <1>4, <3>1, <3>2 DEF MarkOnDisk
  <2>3. pending' \in [Markers -> SUBSET Nat]
    BY <1>0, <1>4 DEF TypeOK, MarkOnDisk
  <2>4. faults' \in Nat
    <3>1. faults' \in {faults, faults + 1}
      BY <1>4, Zenon DEF MarkOnDisk
    <3> QED
      BY <1>0, <3>1 DEF TypeOK
  <2>5. UNCHANGED <<global_tx_id, wal_buffer, ram_completed_tx, client, prealloc, closer, mode,
                    live, marked, lost, crashes>>
    BY <1>4 DEF MarkOnDisk, hist
  <2> QED
    BY <1>0, <2>1, <2>2, <2>3, <2>4, <2>5 DEF TypeOK, WriterType, FileType
<1>5. CASE WriterCheck
  BY <1>0, <1>5 DEF TypeOK, WriterCheck, Goto, WriterPCs, hist, bound
<1>6. CASE WriterSwap
  <2>1. writer' \in WriterType
    BY <1>0, <1>6, WriterTypes DEF TypeOK, WriterSwap, WriterType, WriterPCs
  <2> QED
    BY <1>0, <1>6, <2>1 DEF TypeOK, WriterSwap, hist, bound, WriterType
<1>7. CASE WriterCopyCompleted
  BY <1>0, <1>7 DEF TypeOK, WriterCopyCompleted, WriterPCs, hist, bound
<1>8. CASE WriterNextBatch
  <2>1. writer' \in WriterType
    BY <1>0, <1>8, WriterTypes DEF WriterNextBatch, Goto, WriterType, WriterPCs
  <2> QED
    BY <1>0, <1>8, <2>1 DEF TypeOK, WriterNextBatch, hist, bound, WriterType
<1>9. CASE WriterPreallocate
  <2>1. writer' \in WriterType
    BY <1>0, <1>9 DEF WriterPreallocate, Goto, WriterType, WriterPCs
  <2>2. file' \in [Files -> FileType]
    BY <1>0, <1>9, FileTypes DEF WriterPreallocate
  <2>3. prealloc' \in [Files -> {"none", "spawned", "truncate", "allocate", "head"}]
    BY <1>0, <1>9 DEF WriterPreallocate, TypeOK
  <2> QED
    BY <1>0, <1>9, <2>1, <2>2, <2>3
    DEF TypeOK, WriterPreallocate, hist, bound, WriterType, FileType
<1>10. CASE WriterEntries
  <2>1. handle' \in Nat
    BY <1>0, <1>10, BatchFileType DEF WriterEntries, WriterHasBatch
  <2>2. file' \in [Files -> FileType]
    <3> DEFINE old == file[BatchFile].slots
               k(i) == i - SlotOf(writer.copy[1].tx) + 1
               new == [i \in Slots |-> IF k(i) \in Batch
                          THEN [tx |-> writer.copy[k(i)].tx,
                                done |-> writer.copy[k(i)].tx \in writer.done]
                          ELSE old[i]]
    <3>1. file' = file \/ file' = [file EXCEPT ![BatchFile].slots = new]
      BY <1>10 DEF WriterEntries
    <3>2. ASSUME BatchFile \in Files PROVE new \in [Slots -> [tx : Nat, done : BOOLEAN]]
      <4>1. old \in [Slots -> [tx : Nat, done : BOOLEAN]]
        BY <1>0, <3>2 DEF FileType
      <4>2. ASSUME NEW j \in Batch PROVE writer.copy[j].tx \in Nat
        <5>1. writer.copy \in Seq(Rec) /\ j \in DOMAIN writer.copy
          BY <1>0, <4>2 DEF Batch, WriterType
        <5>2. writer.copy[j] \in Rec
          BY <5>1
        <5> QED
          BY <5>2 DEF Rec
      <4> QED
        BY <4>1, <4>2
    <3> HIDE DEF new
    <3> QED
      BY <1>0, <3>1, <3>2 DEF FileType
  <2>3. writer' \in WriterType
    <3>1. CASE writer' = IdleWriter
      BY <3>1, WriterTypes
    <3>2. ASSUME NEW u \in 0 .. PayloadArea,
                 writer' = [writer EXCEPT !.pc = "header", !.used = u,
                               !.rec = file[BatchFile].rec + Cardinality(Batch)],
                 BatchFile \in Files
          PROVE  writer' \in WriterType
      <4>1. file[BatchFile].rec + Cardinality(Batch) \in Nat
        BY <1>0, <3>2, BatchCount DEF FileType, WriterType
      <4> QED
        BY <1>0, <3>2, <4>1 DEF WriterType, WriterPCs
    <3>3. BatchFile \in Files
      BY <1>0, <1>10, BatchFileInFiles DEF IInv, MemoryDense, WriterHasBatch, WriterEntries, WriterType
    <3> QED
      BY <1>10, <3>1, <3>2, <3>3 DEF WriterEntries, Abandon
  <2>4. lost' \subseteq Nat
    BY <1>0, <1>10, IdsType DEF WriterEntries, Abandon, TypeOK, WriterType
  <2> QED
    BY <1>0, <1>10, <2>1, <2>2, <2>3, <2>4
    DEF TypeOK, WriterEntries, hist, bound, WriterType, FileType
<1>11. CASE WriterHeader
  <2>1. file' \in [Files -> FileType]
    BY <1>0, <1>11 DEF WriterHeader, WriterType, FileType, FileStates
  <2> QED
    BY <1>0, <1>11, <2>1
    DEF TypeOK, WriterHeader, Goto, hist, bound, WriterPCs, FileType
<1>12. CASE WriterFsync
  <2>1. writer' \in WriterType
    BY <1>0, <1>12, WriterTypes DEF WriterFsync, Abandon, WriterType, WriterPCs
  <2>2. lost' \subseteq Nat
    BY <1>0, <1>12, WriterTypes, IdsType DEF WriterFsync, Abandon, TypeOK
  <2> QED
    BY <1>0, <1>12, <2>1, <2>2 DEF TypeOK, WriterFsync, hist, bound, WriterType
<1>13. CASE WriterIOError
  <2>1. writer' \in WriterType
    BY <1>0, <1>13, WriterTypes DEF WriterIOError, Abandon
  <2>2. lost' \subseteq Nat
    BY <1>0, <1>13, WriterTypes, IdsType DEF WriterIOError, Abandon, TypeOK, WriterType
  <2> QED
    BY <1>0, <1>13, <2>1, <2>2 DEF TypeOK, WriterIOError, hist, bound, WriterType
<1>14. ASSUME NEW f \in Files, PreallocAsync(f) PROVE TypeOK'
  <2>1. file' \in [Files -> FileType]
    BY <1>0, <1>14, FileTypes DEF PreallocAsync
  <2>2. prealloc' \in [Files -> {"none", "spawned", "truncate", "allocate", "head"}]
    BY <1>0, <1>14 DEF PreallocAsync, TypeOK
  <2> QED
    BY <1>0, <1>14, <2>1, <2>2 DEF TypeOK, PreallocAsync, hist, bound, FileType
<1>15. CASE StartShutdown \/ ForceFlush
  BY <1>0, <1>15, FilesAreNumbers
  DEF TypeOK, StartShutdown, ForceFlush, hist, bound
<1>16. CASE Crash \/ Exit
  <2>1. Stop /\ crashes' \in Nat
    BY <1>0, <1>16 DEF Crash, Exit, TypeOK
  <2>2. writer' \in WriterType
    BY <2>1, WriterTypes DEF Stop
  <2> QED
    BY <1>0, <2>1, <2>2, FilesAreNumbers DEF TypeOK, Stop, WriterType
<1>17. CASE Restart
  <2>1. ReadWal \subseteq Nat
    BY WALAssumption DEF ReadWal, Tx
  <2>2. global_tx_id' \in Nat /\ live' \subseteq Nat /\ mode' \in {"up", "down", "failed"}
    <3>1. ASSUME NEW last \in Files PROVE last * Capacity \in Nat
      BY FilesAreNumbers, WALAssumption
    <3>2. \A f \in Files : file[f].rec \in Nat
      BY <1>0 DEF FileType
    <3>3. CASE global_tx_id' = 0 /\ mode' = "up" /\ live' = ReadWal
      BY <2>1, <3>3
    <3>4. ASSUME NEW last \in Files, file[last].state = "ok",
                 global_tx_id' = last * Capacity + file[last].rec,
                 mode' = "up", live' = ReadWal
          PROVE  global_tx_id' \in Nat /\ live' \subseteq Nat /\ mode' = "up"
      BY <2>1, <3>1, <3>2, <3>4
    <3>5. ASSUME NEW last \in Files, global_tx_id' = last * Capacity,
                 mode' = "up", live' = ReadWal
          PROVE  global_tx_id' \in Nat /\ live' \subseteq Nat /\ mode' = "up"
      BY <2>1, <3>1, <3>5
    <3>6. CASE mode' = "failed" /\ UNCHANGED <<global_tx_id, live>>
      BY <1>0, <3>6 DEF TypeOK
    <3> QED
      BY <1>17, <3>3, <3>4, <3>5, <3>6 DEF Restart
  <2> QED
    BY <1>0, <1>17, <2>2 DEF TypeOK, Restart, bound
<1>18. CASE UNCHANGED vars
  BY <1>0, <1>18 DEF TypeOK, vars
<1> QED
  BY <1>1, <1>2, <1>3, <1>4, <1>5, <1>6, <1>7, <1>8, <1>9, <1>10, <1>11, <1>12, <1>13,
     <1>14, <1>15, <1>16, <1>17, <1>18, SizeListType, SizeOneType
  DEF Next, Client, Marker, Writer, AppendToBuffer, AppendManyToBuffer,
      MarkManyJobsComplete, MarkJobComplete

----------------------------------------------------------------------------
\* Every step keeps the ids of the buffer and of the writer's copy dense.
LEMMA MemoryStep == IInv /\ [Next]_vars => MemoryDense'
<1> SUFFICES ASSUME IInv, [Next]_vars PROVE MemoryDense'
  OBVIOUS
<1>0. /\ TypeOK /\ MemoryDense /\ writer.copy \in Seq(Rec) /\ wal_buffer \in Seq(Rec)
      /\ Dense(<<>>)
  BY DEF IInv, TypeOK, Dense
<1>1. ASSUME NEW c \in Clients, NEW s \in Seq(Sizes), s # <<>>, AppendRecords(c, s)
      PROVE  MemoryDense'
  <2> DEFINE g == global_tx_id
             r == Records(g, s)
  <2>1. /\ r \in Seq(Rec) /\ Len(r) = Len(s)
        /\ \A k \in 1 .. Len(s) : r[k].tx = g + (k - 1)
    BY <1>0, RecordsType DEF TypeOK
  <2>2. /\ wal_buffer' = wal_buffer \o r /\ global_tx_id' = g + Len(s) /\ writer' = writer
        /\ g + Len(s) <= MaxTx /\ g \in Nat
    BY <1>0, <1>1 DEF AppendRecords, TypeOK
  <2>3. Len(s) \in Nat /\ Len(s) > 0 /\ MaxTx \in Nat
    BY <1>1, WALAssumption
  <2> HIDE DEF r
  <2>4. Dense(r) /\ r # <<>> /\ r[1].tx = g
    <3>1. \A k \in 1 .. Len(r) : r[k].tx \in Tx /\ r[k].tx = g + (k - 1)
      BY <2>1, <2>2, <2>3 DEF Tx
    <3>2. r[1].tx = g /\ r # <<>>
      BY <2>1, <2>2, <2>3
    <3> QED
      BY <3>1, <3>2 DEF Dense
  <2>5. Dense(wal_buffer \o r)
        /\ (wal_buffer \o r)[Len(wal_buffer \o r)].tx = g + Len(r) - 1
    BY <1>0, <2>1, <2>2, <2>4, AppendDense DEF MemoryDense
  <2> QED
    BY SMTT(30), <1>0, <2>1, <2>2, <2>5 DEF MemoryDense, Dense
<1>2. CASE UNCHANGED <<wal_buffer, global_tx_id>> /\ writer'.copy = writer.copy
  BY <1>0, <1>2 DEF MemoryDense, Dense
<1>3. CASE UNCHANGED <<wal_buffer, global_tx_id>> /\ writer'.copy \in {<<>>, Rest}
  BY <1>0, <1>3, RestIsDense DEF MemoryDense, Dense
<1>4. CASE WriterSwap
  BY <1>0, <1>4 DEF MemoryDense, WriterSwap, IdleWriter, Dense
<1>5. CASE (Crash \/ Exit) \/ Restart
  <2>1. CASE Crash \/ Exit
    BY <1>0, <2>1 DEF MemoryDense, Crash, Exit, Stop, IdleWriter
  <2>2. CASE Restart
    BY <1>0, <2>2 DEF MemoryDense, Restart, Dense, IInv, StoppedIsEmpty
  <2> QED
    BY <1>5, <2>1, <2>2
<1>6. CASE \/ \E c \in Clients : PassBackpressure(c)
           \/ \E m \in Markers, T \in SUBSET live : MarkInRam(m, T)
           \/ \E f \in Files : PreallocAsync(f)
           \/ StartShutdown \/ ForceFlush \/ UNCHANGED vars
  BY <1>2, <1>6 DEF PassBackpressure, MarkInRam, PreallocAsync, StartShutdown, ForceFlush, vars
<1>7. CASE \E m \in Markers, f \in Files : MarkOnDisk(m, f)
  <2>1. UNCHANGED <<wal_buffer, global_tx_id>> /\ writer'.copy = writer.copy
    BY <1>0, <1>7 DEF MarkOnDisk, UseHandle, TypeOK
  <2> QED
    BY <1>2, <2>1
<1>8. CASE WriterCheck \/ WriterCopyCompleted \/ WriterPreallocate \/ WriterHeader
  <2>1. UNCHANGED <<wal_buffer, global_tx_id>> /\ writer'.copy = writer.copy
    BY <1>0, <1>8
    DEF WriterCheck, WriterCopyCompleted, WriterPreallocate, WriterHeader, Goto, TypeOK
  <2> QED
    BY <1>2, <2>1
<1>9. CASE WriterNextBatch \/ WriterFsync \/ WriterIOError
  <2>1. UNCHANGED <<wal_buffer, global_tx_id>>
    BY <1>9 DEF WriterNextBatch, WriterFsync, WriterIOError
  <2>2. writer'.copy = writer.copy \/ writer'.copy \in {<<>>, Rest}
    <3>1. "pc" \in DOMAIN writer /\ "copy" \in DOMAIN writer
      BY <1>0 DEF TypeOK
    <3>2. IdleWriter.copy = <<>>
      BY DEF IdleWriter
    <3> HIDE DEF Rest, IdleWriter
    <3>3. CASE WriterNextBatch
      BY <3>1, <3>2, <3>3 DEF WriterNextBatch, Goto
    <3>4. CASE WriterFsync
      BY <3>1, <3>2, <3>4 DEF WriterFsync, Abandon
    <3>5. CASE WriterIOError
      BY <3>1, <3>2, <3>5 DEF WriterIOError, Abandon
    <3> QED
      BY <1>9, <3>3, <3>4, <3>5
  <2> QED
    BY <1>2, <1>3, <2>1, <2>2
<1>10. CASE WriterEntries
  <2>1. /\ UNCHANGED <<wal_buffer, global_tx_id>>
        /\ writer'.copy = writer.copy \/ writer'.copy \in {<<>>, Rest}
    <3>1. "pc" \in DOMAIN writer /\ "copy" \in DOMAIN writer /\ IdleWriter.copy = <<>>
      BY <1>0 DEF TypeOK, IdleWriter
    <3> QED
      BY <1>0, <1>10, <3>1 DEF WriterEntries, Abandon, TypeOK
  <2> QED
    BY <1>2, <1>3, <2>1
<1> QED
  BY <1>1, <1>4, <1>5, <1>6, <1>7, <1>8, <1>9, <1>10, SizeListType, SizeOneType
  DEF Next, Client, Marker, Writer, AppendToBuffer, AppendManyToBuffer,
      MarkManyJobsComplete, MarkJobComplete

----------------------------------------------------------------------------
\* Every step keeps to completions that were reported, and the writer to files
\* it has a batch for.
LEMMA RememberedStep ==
    IInv /\ [Next]_vars => Remembered' /\ WriterHasBatch' /\ StoppedIsEmpty'
<1> SUFFICES ASSUME IInv, [Next]_vars
             PROVE  Remembered' /\ WriterHasBatch' /\ StoppedIsEmpty'
  OBVIOUS
<1> DEFINE Goal == Remembered' /\ WriterHasBatch' /\ StoppedIsEmpty'
<1>0. TypeOK /\ Remembered /\ WriterHasBatch /\ StoppedIsEmpty
  BY DEF IInv
<1>1. ASSUME NEW c \in Clients, PassBackpressure(c) PROVE Goal
  BY <1>0, <1>1 DEF PassBackpressure, hist, Remembered, WriterHasBatch, StoppedIsEmpty
<1>2. ASSUME NEW c \in Clients, NEW s \in Seq(Sizes), AppendRecords(c, s) PROVE Goal
  <2>1. (global_tx_id .. global_tx_id + Len(s) - 1) \subseteq Tx
    BY <1>0, <1>2, WALAssumption DEF AppendRecords, Tx, TypeOK
  <2>2. live' \subseteq Tx
    BY <1>0, <1>2, <2>1, Zenon DEF AppendRecords, Remembered
  <2> QED
    BY <1>0, <1>2, <2>2 DEF AppendRecords, Remembered, WriterHasBatch, StoppedIsEmpty
<1>3. ASSUME NEW m \in Markers, NEW T \in SUBSET live, MarkInRam(m, T) PROVE Goal
  <2>1. T \subseteq marked' \cap Tx /\ marked \subseteq marked'
    BY <1>0, <1>3 DEF MarkInRam, Remembered
  <2>2. ram_completed_tx' \subseteq marked' /\ live' \subseteq Tx /\ writer' = writer
    BY <1>0, <1>3, <2>1 DEF MarkInRam, Remembered
  <2>3. \A n \in Markers : pending'[n] \subseteq marked' \cap Tx
    BY <1>0, <1>3, <2>1 DEF MarkInRam, Remembered, TypeOK
  <2> QED
    BY <1>0, <1>3, <2>1, <2>2, <2>3 DEF MarkInRam, Remembered, WriterHasBatch, StoppedIsEmpty
<1>4. ASSUME NEW m \in Markers, NEW f \in Files, MarkOnDisk(m, f) PROVE Goal
  <2>1. /\ writer'.done = writer.done /\ writer'.copy = writer.copy
        /\ writer'.pc = writer.pc \/ writer.pc = "fsync"
    BY <1>0, <1>4 DEF MarkOnDisk, UseHandle, TypeOK
  <2>2. \A n \in Markers : pending'[n] \subseteq pending[n]
    BY <1>0, <1>4 DEF MarkOnDisk, TypeOK
  <2> QED
    BY <1>0, <1>4, <2>1, <2>2 DEF MarkOnDisk, hist, Remembered, WriterHasBatch, StoppedIsEmpty
<1>5. CASE WriterCheck \/ WriterSwap \/ WriterNextBatch
  <2>1. /\ wal_buffer' \in {<<>>, wal_buffer}
        /\ UNCHANGED <<ram_completed_tx, pending, marked, live, mode>>
    BY <1>5 DEF WriterCheck, WriterSwap, WriterNextBatch, hist
  <2>2. writer'.done \in {{}, writer.done} /\ WriterHasBatch'
    <3>1. writer \in WriterType
      BY <1>0 DEF TypeOK, WriterType
    <3>2. IdleWriter.done = {} /\ IdleWriter.pc = "check"
      BY DEF IdleWriter
    <3>3. CASE WriterCheck
      BY <3>1, <3>3 DEF WriterCheck, Goto, WriterType, WriterHasBatch
    <3>4. CASE WriterSwap
      BY <3>4 DEF WriterSwap, IdleWriter, WriterHasBatch
    <3>5. CASE WriterNextBatch
      <4>1. CASE writer' = IdleWriter
        BY <3>2, <4>1 DEF WriterHasBatch
      <4>2. CASE writer.copy # <<>> /\ \E pc \in {"truncate", "entries"} :
                                         writer' = [writer EXCEPT !.pc = pc]
        BY <3>1, <4>2 DEF WriterType, WriterHasBatch
      <4> QED
        BY <3>5, <4>1, <4>2 DEF WriterNextBatch, Goto
    <3> QED
      BY <1>5, <3>3, <3>4, <3>5
  <2> QED
    BY <1>0, <2>1, <2>2 DEF Remembered, StoppedIsEmpty
<1>6. CASE WriterCopyCompleted
  <2>1. /\ writer'.done = ram_completed_tx /\ ram_completed_tx' = {}
        /\ writer'.pc = "batch"
        /\ UNCHANGED <<pending, marked, live, mode, wal_buffer>>
    BY <1>0, <1>6 DEF WriterCopyCompleted, hist, TypeOK
  <2> QED
    BY <1>0, <2>1 DEF Remembered, StoppedIsEmpty, WriterHasBatch
<1>7. CASE WriterPreallocate \/ WriterHeader
  <2>1. /\ writer'.done = writer.done /\ writer'.copy = writer.copy
        /\ writer.copy # <<>>
        /\ UNCHANGED <<ram_completed_tx, pending, marked, live, mode, wal_buffer>>
    BY <1>0, <1>7 DEF WriterPreallocate, WriterHeader, Goto, hist, TypeOK, WriterHasBatch
  <2> QED
    BY <1>0, <2>1 DEF Remembered, StoppedIsEmpty, WriterHasBatch
<1>8. CASE WriterEntries \/ WriterFsync \/ WriterIOError
  <2>1. UNCHANGED <<ram_completed_tx, pending, marked, live, mode, wal_buffer>>
    BY <1>8 DEF WriterEntries, WriterFsync, WriterIOError
  <2>2. /\ writer'.done \in {{}, writer.done}
        /\ writer'.pc \in {"check", "batch", "header"}
        /\ writer'.pc = "header" => writer'.copy = writer.copy /\ writer.copy # <<>>
    <3>1. writer \in WriterType
      BY <1>0 DEF TypeOK, WriterType
    <3>2. IdleWriter.done = {} /\ IdleWriter.pc = "check"
      BY DEF IdleWriter
    <3>3. CASE WriterEntries
      BY <1>0, <3>1, <3>2, <3>3 DEF WriterEntries, Abandon, WriterType, WriterHasBatch
    <3>4. CASE WriterFsync
      BY <3>1, <3>2, <3>4 DEF WriterFsync, Abandon, WriterType
    <3>5. CASE WriterIOError
      BY <3>1, <3>2, <3>5 DEF WriterIOError, Abandon
    <3> QED
      BY <1>8, <3>3, <3>4, <3>5
  <2> QED
    BY <1>0, <2>1, <2>2 DEF Remembered, StoppedIsEmpty, WriterHasBatch
<1>9. CASE StartShutdown \/ ForceFlush \/ UNCHANGED vars \/ \E f \in Files : PreallocAsync(f)
  BY <1>0, <1>9 DEF StartShutdown, ForceFlush, PreallocAsync, vars, hist, Remembered,
                    WriterHasBatch, StoppedIsEmpty
<1>10. CASE Crash \/ Exit
  BY <1>0, <1>10 DEF Crash, Exit, Stop, Remembered, WriterHasBatch, StoppedIsEmpty, IdleWriter
<1>11. CASE Restart
  <2>1. ReadWal \subseteq Tx
    BY DEF ReadWal
  <2>2. /\ live' \in {live, ReadWal} /\ mode' # "down"
        /\ UNCHANGED <<ram_completed_tx, pending, marked, writer, wal_buffer>>
    BY <1>11 DEF Restart
  <2> QED
    BY <1>0, <2>1, <2>2 DEF Remembered, WriterHasBatch, StoppedIsEmpty
<1> QED
  BY <1>1, <1>2, <1>3, <1>4, <1>5, <1>6, <1>7, <1>8, <1>9, <1>10, <1>11,
     SizeListType, SizeOneType
  DEF Next, Client, Marker, Writer, AppendToBuffer, AppendManyToBuffer,
      MarkManyJobsComplete, MarkJobComplete

----------------------------------------------------------------------------
\* What a step may do to an entry: leave it, blank it, flag it because a marker
\* holds its place, or write it from the writer's copy.
EntryStep(f, i) ==
    LET e == file[f].slots[i]  d == file'[f].slots[i] IN
    \/ d = e
    \/ d = NoEntry
    \/ /\ d.tx = e.tx
       /\ \E m \in Markers : \E t \in pending[m] : FileOf(t) = f /\ SlotOf(t) = i
    \/ \E k \in Batch :
          /\ writer.copy # <<>> /\ BatchFile = f
          /\ k = i - SlotOf(writer.copy[1].tx) + 1
          /\ d = [tx |-> writer.copy[k].tx, done |-> writer.copy[k].tx \in writer.done]

\* Every step does one of those things to every entry.
LEMMA EntrySteps ==
    ASSUME IInv, [Next]_vars, NEW f \in Files, NEW i \in Slots
    PROVE  EntryStep(f, i)
<1>0. /\ file \in [Files -> FileType] /\ WriterHasBatch
      /\ EmptyFile.slots[i] = NoEntry
  BY DEF IInv, TypeOK, FileType, EmptyFile, AbsentFile, BlankSlots
<1>1. \A F \in FileType : Allocated(F).slots = F.slots /\ Headed(F).slots = F.slots
  BY DEF FileType, Allocated, Headed
<1>2. ASSUME NEW m \in Markers, NEW g \in Files, MarkOnDisk(m, g) PROVE EntryStep(f, i)
  <2>1. CASE file' = file
    BY <2>1 DEF EntryStep
  <2>2. ASSUME NEW T \in SUBSET {t \in pending[m] : FileOf(t) = g},
               file' = [file EXCEPT ![g] = WithFlags(@, T)] PROVE EntryStep(f, i)
    <3>1. CASE g # f
      BY <1>0, <2>2, <3>1 DEF EntryStep
    <3>2. CASE g = f
      <4>1. file'[f] = WithFlags(file[f], T)
        BY <1>0, <2>2, <3>2
      <4>2. WithFlags(file[f], T).slots =
              [j \in Slots |-> IF \E t \in T : SlotOf(t) = j
                               THEN [file[f].slots[j] EXCEPT !.done = TRUE]
                               ELSE file[f].slots[j]]
        BY <1>0, FileTypes DEF WithFlags, FileType
      <4>3. [file[f].slots[i] EXCEPT !.done = TRUE].tx = file[f].slots[i].tx
        BY <1>0 DEF FileType
      <4> QED
        BY ZenonT(60), <3>2, <4>1, <4>2, <4>3 DEF EntryStep
    <3> QED
      BY <3>1, <3>2
  <2> QED
    BY <1>2, <2>1, <2>2 DEF MarkOnDisk
<1>3. CASE WriterPreallocate
  <2>1. \/ file' = [file EXCEPT ![BatchFile] = EmptyFile]
        \/ file' = [file EXCEPT ![BatchFile] = Allocated(@)]
        \/ file' = [file EXCEPT ![BatchFile] = Headed(@)]
    BY <1>3 DEF WriterPreallocate
  <2> QED
    BY <1>0, <1>1, <2>1 DEF EntryStep
<1>4. ASSUME NEW g \in Files, PreallocAsync(g) PROVE EntryStep(f, i)
  <2>1. \/ file' = file
        \/ file' = [file EXCEPT ![g] = EmptyFile]
        \/ file' = [file EXCEPT ![g] = Allocated(@)]
        \/ file' = [file EXCEPT ![g] = Headed(@)]
    BY <1>4 DEF PreallocAsync
  <2> QED
    BY <1>0, <1>1, <2>1 DEF EntryStep
<1>5. CASE WriterHeader
  <2>1. file' = [file EXCEPT ![BatchFile] =
                   [@ EXCEPT !.state = "ok", !.rec = writer.rec, !.used = writer.used]]
    BY <1>5 DEF WriterHeader
  <2> QED
    BY <1>0, <2>1 DEF EntryStep, FileType
<1>6. CASE WriterEntries
  <2> DEFINE k(j) == j - SlotOf(writer.copy[1].tx) + 1
             Entry(n) == [tx |-> writer.copy[n].tx, done |-> writer.copy[n].tx \in writer.done]
             new == [j \in Slots |-> IF k(j) \in Batch THEN Entry(k(j))
                                     ELSE file[BatchFile].slots[j]]
  <2>1. CASE file' = file
    BY <2>1 DEF EntryStep
  <2>2. CASE file' = [file EXCEPT ![BatchFile].slots = new]
    <3>1. CASE BatchFile # f
      BY <1>0, <2>2, <3>1 DEF EntryStep
    <3>2. CASE BatchFile = f
      <4>1. file'[f].slots[i] = new[i]
        BY <1>0, <2>2, <3>2 DEF FileType
      <4>2. writer.copy # <<>>
        BY <1>0, <1>6 DEF WriterEntries, WriterHasBatch
      <4> QED
        BY <3>2, <4>1, <4>2 DEF EntryStep
    <3> QED
      BY <3>1, <3>2
  <2> QED
    BY <1>6, <2>1, <2>2 DEF WriterEntries
<1>7. CASE file' = file
  BY <1>7 DEF EntryStep
<1> QED
  BY <1>2, <1>3, <1>4, <1>5, <1>6, <1>7
  DEF Next, Client, Marker, Writer, AppendToBuffer, AppendManyToBuffer, PassBackpressure,
      AppendRecords, MarkManyJobsComplete, MarkJobComplete, MarkInRam, WriterCheck,
      WriterSwap, WriterCopyCompleted, WriterNextBatch, WriterFsync, WriterIOError,
      StartShutdown, ForceFlush, Crash, Exit, Stop, Restart, vars

\* Reported completions are never forgotten by the history.
LEMMA MarkedGrows == [Next]_vars => marked \subseteq marked'
BY DEF Next, Client, Marker, Writer, AppendToBuffer, AppendManyToBuffer, PassBackpressure,
      AppendRecords, MarkManyJobsComplete, MarkJobComplete, MarkInRam, WriterCheck,
      WriterSwap, WriterCopyCompleted, WriterNextBatch, WriterFsync, WriterIOError,
      StartShutdown, ForceFlush, Crash, Exit, Stop, Restart, vars, hist, MarkOnDisk,
      WriterPreallocate, WriterEntries, WriterHeader, PreallocAsync

\* Every step keeps each entry in its slot and flagged only if reported.
LEMMA DiskStep == IInv /\ [Next]_vars => EntryInItsSlot' /\ OnlyMarkedCompleted'
<1> SUFFICES ASSUME IInv, [Next]_vars, NEW f \in Files, NEW i \in Slots,
                    file'[f].slots[i].tx # NoTx
             PROVE  LET d == file'[f].slots[i] IN
                    /\ FileOf(d.tx) = f /\ SlotOf(d.tx) = i
                    /\ d.done => d.tx \in marked'
  BY DEF EntryInItsSlot, OnlyMarkedCompleted
<1> DEFINE e == file[f].slots[i]
           d == file'[f].slots[i]
<1>0. /\ EntryStep(f, i) /\ marked \subseteq marked' /\ Remembered
      /\ e.tx # NoTx => /\ FileOf(e.tx) = f /\ SlotOf(e.tx) = i
                        /\ e.done => e.tx \in marked
  BY EntrySteps, MarkedGrows DEF IInv, EntryInItsSlot, OnlyMarkedCompleted
<1>1. CASE d = e
  BY <1>0, <1>1
<1>2. CASE d = NoEntry
  BY <1>2 DEF NoEntry
<1>3. ASSUME d.tx = e.tx, NEW m \in Markers, NEW t \in pending[m], FileOf(t) = f, SlotOf(t) = i
      PROVE  FileOf(d.tx) = f /\ SlotOf(d.tx) = i /\ d.tx \in marked'
  <2>1. FileOf(e.tx) = f /\ SlotOf(e.tx) = i
    BY <1>0, <1>3
  <2>2. t \in Nat /\ t \in marked
    BY <1>0, <1>3 DEF Remembered, Tx
  <2>3. e.tx \in Nat
    BY DEF IInv, TypeOK
  <2>4. e.tx = t
    BY <1>3, <2>1, <2>2, <2>3, PlaceIsUnique
  <2> QED
    BY <1>0, <1>3, <2>1, <2>2, <2>4
<1>4. ASSUME NEW k \in Batch, writer.copy # <<>>, BatchFile = f,
             k = i - SlotOf(writer.copy[1].tx) + 1,
             d = [tx |-> writer.copy[k].tx, done |-> writer.copy[k].tx \in writer.done]
      PROVE  FileOf(d.tx) = f /\ SlotOf(d.tx) = i /\ (d.done => d.tx \in marked')
  <2> DEFINE s == writer.copy
  <2>1. s \in Seq(Rec) /\ Dense(s) /\ k \in 1 .. Len(s) /\ 1 \in 1 .. Len(s)
    BY <1>4 DEF IInv, TypeOK, MemoryDense, Batch
  <2>2. s[k].tx = s[1].tx + (k - 1) /\ s[1].tx \in Nat /\ k - 1 \in Nat
    BY <2>1 DEF Dense, Tx
  <2>3. FileOf(s[k].tx) = f /\ FileOf(s[1].tx) = f
    BY <1>4 DEF Batch, BatchFile
  <2>4. SlotOf(s[k].tx) = SlotOf(s[1].tx) + (k - 1)
    BY <2>2, <2>3, SlotsFollow
  <2>5. SlotOf(s[1].tx) \in Int /\ i \in Int
    BY <2>2, DivMod DEF Slots
  <2>6. SlotOf(s[k].tx) = i
    BY <1>4, <2>4, <2>5
  <2>7. writer.done \subseteq marked'
    BY <1>0 DEF Remembered
  <2>8. d.tx = s[k].tx /\ d.done = (s[k].tx \in writer.done)
    BY <1>4
  <2> HIDE DEF d, s
  <2> QED
    BY <2>3, <2>6, <2>7, <2>8
<1> QED
  BY <1>0, <1>1, <1>2, <1>3, <1>4 DEF EntryStep

----------------------------------------------------------------------------
\* The first state has no entry, no record and no completion.
LEMMA InitInv == Init => IInv
<1> SUFFICES ASSUME Init PROVE IInv
  OBVIOUS
<1>1. AbsentFile \in FileType /\ IdleWriter \in WriterType
  BY BlankTypes, WriterTypes
<1>2. TypeOK
  BY <1>1, FilesAreNumbers DEF Init, TypeOK, FileType, WriterType
<1>3. MemoryDense /\ Remembered /\ WriterHasBatch /\ StoppedIsEmpty
  BY DEF Init, MemoryDense, Dense, Remembered, WriterHasBatch, StoppedIsEmpty, IdleWriter
<1>4. \A f \in Files, i \in Slots : file[f].slots[i] = NoEntry
  BY DEF Init, AbsentFile, BlankSlots
<1>5. EntryInItsSlot /\ OnlyMarkedCompleted
  BY <1>4 DEF EntryInItsSlot, OnlyMarkedCompleted, NoEntry
<1> QED
  BY <1>2, <1>3, <1>5 DEF IInv

\* The inductive invariant behind the four results below: what the WAL keeps true
\* from __init__ on, whatever its threads do.
THEOREM Inductive == Spec => []IInv
<1>1. IInv /\ [Next]_vars => IInv'
  BY TypeStep, MemoryStep, RememberedStep, DiskStep DEF IInv
<1> QED
  BY InitInv, <1>1, PTL DEF Spec

\* Types of the variables of the write-ahead log, the payload area included
\* (the checks in _write_batch_to_disk and validate_payload_size).
THEOREM TypeCorrect == Spec => []TypeOK
BY Inductive, PTL DEF IInv

\* The range test of mark_many_jobs_complete decides membership in the buffer.
THEOREM RangeTestCorrect == Spec => []RangeTestIsMembership
<1>1. ASSUME IInv, NEW t \in Tx PROVE InBuffer(t) <=> t \in Ids(wal_buffer)
  <2> DEFINE b == wal_buffer
  <2>1. b \in Seq(Rec) /\ Dense(b) /\ t \in Nat /\ Len(b) \in Nat
    BY <1>1 DEF IInv, TypeOK, MemoryDense, Tx
  <2>2. CASE b = <<>>
    BY <2>2 DEF InBuffer, Ids
  <2>3. CASE b # <<>>
    <3>1. /\ Len(b) > 0 /\ b[1].tx \in Nat
          /\ \A k \in 1 .. Len(b) : b[k].tx = b[1].tx + (k - 1)
      BY <2>1, <2>3 DEF Dense, Tx
    <3>2. b[Len(b)].tx = b[1].tx + (Len(b) - 1)
      BY <2>1, <3>1
    <3>3. ASSUME InBuffer(t) PROVE t \in Ids(b)
      <4>1. (t - b[1].tx) + 1 \in 1 .. Len(b)
        BY <2>1, <3>1, <3>2, <3>3 DEF InBuffer
      <4>2. b[(t - b[1].tx) + 1].tx = b[1].tx + (((t - b[1].tx) + 1) - 1)
        BY <3>1, <4>1
      <4>3. b[(t - b[1].tx) + 1].tx = t
        BY <2>1, <3>1, <4>2
      <4> QED
        BY <2>1, <4>1, <4>3 DEF Ids
    <3>4. ASSUME t \in Ids(b) PROVE InBuffer(t)
      <4>1. PICK k \in 1 .. Len(b) : t = b[k].tx
        BY <2>1, <3>4 DEF Ids
      <4>2. t = b[1].tx + (k - 1)
        BY <3>1, <4>1
      <4> QED
        BY <2>1, <2>3, <3>1, <3>2, <4>2 DEF InBuffer
    <3> QED
      BY <3>3, <3>4
  <2> QED
    BY <2>2, <2>3
<1>2. IInv => RangeTestIsMembership
  BY <1>1 DEF RangeTestIsMembership
<1> QED
  BY Inductive, <1>2, PTL

\* A flag byte written by id lands on the entry of that id
\* (_write_batch_to_disk against mark_many_jobs_complete).
THEOREM SlotsCorrect == Spec => []EntryInItsSlot
BY Inductive, PTL DEF IInv

\* Recovery skips an entry only if its transaction was reported complete
\* (read_wal against the races of the writer and the markers).
THEOREM CompletionCorrect == Spec => []OnlyMarkedCompleted
BY Inductive, PTL DEF IInv

----------------------------------------------------------------------------
(* The bound on the buffer.                                                *)

\* The clients that are not between the back-pressure test and the append.
Outside == {c \in Clients : client[c] = "idle"}

\* Every append of a client that passed the test has room for a call in the bound.
Admission ==
    Len(wal_buffer) <= 2 * BatchSize - 1 + MaxMany * Cardinality(Outside)

\* The set of the clients outside, when one leaves or joins it.
LEMMA OutsideSize ==
    ASSUME client \in [Clients -> {"idle", "admitted"}]
    PROVE  /\ Cardinality(Outside) \in Nat
           /\ Cardinality(Outside) <= Cardinality(Clients) /\ Cardinality(Clients) \in Nat
           /\ \A c \in Clients :
                 /\ client[c] = "idle" => Cardinality(Outside \ {c}) = Cardinality(Outside) - 1
                 /\ client[c] # "idle" => Cardinality(Outside \cup {c}) = Cardinality(Outside) + 1
<1>1. IsFiniteSet(Outside) /\ Cardinality(Outside) <= Cardinality(Clients)
  BY ClientsAssumption, FS_Subset DEF Outside
<1>2. Cardinality(Outside) \in Nat /\ Cardinality(Clients) \in Nat
  BY <1>1, ClientsAssumption, FS_CardinalityType
<1>3. ASSUME NEW c \in Clients, client[c] = "idle"
      PROVE  Cardinality(Outside \ {c}) = Cardinality(Outside) - 1
  <2>1. c \in Outside
    BY <1>3 DEF Outside
  <2> QED
    BY <1>1, <2>1, FS_RemoveElement
<1>4. ASSUME NEW c \in Clients, client[c] # "idle"
      PROVE  Cardinality(Outside \cup {c}) = Cardinality(Outside) + 1
  <2>1. c \notin Outside
    BY <1>4 DEF Outside
  <2> QED
    BY <1>1, <2>1, FS_AddElement
<1> QED
  BY <1>1, <1>2, <1>3, <1>4

\* A product of numbers is a number, and grows with its factor.
LEMMA Products ==
    ASSUME NEW k \in Nat
    PROVE  MaxMany * k \in Nat /\ MaxMany * (k + 1) = MaxMany * k + MaxMany
<1>1. MaxMany \in Nat
  BY WALAssumption
<1> QED
  BY <1>1, SMT

\* The steps that leave the clients alone do not grow the buffer.
LEMMA OtherSteps ==
    ASSUME Next, ~ \E c \in Clients : Client(c)
    PROVE  \/ UNCHANGED <<client, wal_buffer>>
           \/ wal_buffer' = <<>> /\ client' = client
           \/ wal_buffer' = <<>> /\ client' = [c \in Clients |-> "idle"]
BY DEF Next, Marker, Writer, MarkManyJobsComplete, MarkJobComplete, MarkInRam,
    MarkOnDisk, WriterCheck, WriterSwap, WriterCopyCompleted, WriterNextBatch,
    WriterPreallocate, WriterEntries, WriterHeader, WriterFsync, WriterIOError,
    PreallocAsync, StartShutdown, ForceFlush, Crash, Exit, Stop, Restart, bound, hist

LEMMA AdmissionStep == TypeOK /\ Admission /\ [Next]_vars => Admission'
<1> SUFFICES ASSUME TypeOK, Admission, [Next]_vars PROVE Admission'
  OBVIOUS
<1> DEFINE k == Cardinality(Outside)
<1>1. /\ Len(wal_buffer) \in Nat /\ client \in [Clients -> {"idle", "admitted"}]
      /\ BatchSize \in Nat /\ BatchSize > 0 /\ MaxMany \in Nat
  BY WALAssumption DEF TypeOK
<1>2. k \in Nat
  BY <1>1, OutsideSize
<1>3. ASSUME NEW c \in Clients, PassBackpressure(c) PROVE Admission'
  <2>1. /\ Len(wal_buffer) <= 2 * BatchSize - 1 /\ wal_buffer' = wal_buffer
        /\ client' = [client EXCEPT ![c] = "admitted"] /\ client[c] = "idle"
    BY <1>1, <1>3 DEF PassBackpressure
  <2>2. Outside' = Outside \ {c}
    BY <1>1, <2>1 DEF Outside
  <2>3. Cardinality(Outside') = k - 1
    BY <1>1, <2>1, <2>2, OutsideSize
  <2>4. k - 1 \in Nat
    BY <2>1, <2>2, <2>3, <1>1, FS_Subset, FS_CardinalityType, ClientsAssumption DEF Outside
  <2>5. MaxMany * (k - 1) \in Nat
    BY <2>4, Products
  <2> QED
    BY <1>1, <2>1, <2>3, <2>5 DEF Admission
<1>4. ASSUME NEW c \in Clients, NEW s \in SizeLists, AppendRecords(c, s) PROVE Admission'
  <2>1. s \in Seq(Sizes) /\ Len(s) \in Nat /\ Len(s) <= MaxMany
    <3>1. PICK n \in 1 .. MaxMany : s \in [1 .. n -> Sizes]
      BY <1>4 DEF SizeLists
    <3> QED
      BY <1>1, <3>1, SMT
  <2>2. /\ wal_buffer' = wal_buffer \o Records(global_tx_id, s)
        /\ client' = [client EXCEPT ![c] = "idle"] /\ client[c] = "admitted"
    BY <1>4 DEF AppendRecords
  <2>3. Len(wal_buffer') = Len(wal_buffer) + Len(s)
    <3>1. Records(global_tx_id, s) \in Seq(Rec) /\ Len(Records(global_tx_id, s)) = Len(s)
      BY <2>1, RecordsType DEF TypeOK
    <3>2. wal_buffer \in Seq(Rec)
      BY DEF TypeOK
    <3>3. \A a, b \in Seq(Rec) : Len(a \o b) = Len(a) + Len(b)
      OBVIOUS
    <3> QED
      BY <2>2, <3>1, <3>2, <3>3, Zenon
  <2>4. Outside' = Outside \cup {c}
    BY <1>1, <2>2 DEF Outside
  <2>5. Cardinality(Outside') = k + 1
    BY <1>1, <2>2, <2>4, OutsideSize
  <2>6. MaxMany * (k + 1) = MaxMany * k + MaxMany /\ MaxMany * k \in Nat
    BY <1>2, Products
  <2> QED
    BY <1>1, <2>1, <2>3, <2>5, <2>6 DEF Admission
<1>5. CASE Next /\ ~ \E c \in Clients : Client(c)
  <2>1. CASE UNCHANGED <<client, wal_buffer>>
    BY <2>1 DEF Admission, Outside
  <2>2. CASE wal_buffer' = <<>> /\ client' \in [Clients -> {"idle", "admitted"}]
    <3>1. Cardinality(Outside') \in Nat
      BY <2>2, FS_Subset, FS_CardinalityType, ClientsAssumption DEF Outside
    <3>2. MaxMany * Cardinality(Outside') \in Nat
      BY <3>1, Products
    <3> QED
      BY <1>1, <2>2, <3>2 DEF Admission
  <2>3. [c \in Clients |-> "idle"] \in [Clients -> {"idle", "admitted"}]
    OBVIOUS
  <2> QED
    BY <1>1, <1>5, <2>1, <2>2, <2>3, OtherSteps
<1>6. CASE UNCHANGED vars
  BY <1>6 DEF Admission, Outside, vars
<1>7. ASSUME NEW s \in [1 .. 1 -> Sizes] PROVE s \in SizeLists
  BY <1>1, WALAssumption DEF SizeLists
<1> QED
  BY <1>3, <1>4, <1>5, <1>6, <1>7 DEF Client, AppendToBuffer, AppendManyToBuffer

\* The appenders that read the length of the buffer outside the lock, in the loops of
\* append_to_buffer and append_many_to_buffer, overshoot the limit of twice the batch
\* size by one call each at most, however many of them pass together.
THEOREM BufferBounded == Spec => []BufferBound
<1>1. Init => Admission
  <2> SUFFICES ASSUME Init PROVE Admission
    OBVIOUS
  <2>1. /\ Len(wal_buffer) = 0 /\ client \in [Clients -> {"idle", "admitted"}]
        /\ BatchSize \in Nat /\ BatchSize > 0
    BY WALAssumption DEF Init
  <2>2. MaxMany * Cardinality(Outside) \in Nat
    BY <2>1, OutsideSize, Products
  <2> QED
    BY <2>1, <2>2 DEF Admission
<1>2. TypeOK /\ Admission => BufferBound
  <2> SUFFICES ASSUME TypeOK, Admission PROVE BufferBound
    OBVIOUS
  <2> DEFINE k == Cardinality(Outside)
             n == Cardinality(Clients)
  <2>1. /\ k \in Nat /\ n \in Nat /\ k <= n /\ MaxMany \in Nat /\ BatchSize \in Nat
        /\ Len(wal_buffer) \in Nat
    BY OutsideSize, WALAssumption DEF TypeOK
  <2>2. MaxMany * k <= MaxMany * n
    BY <2>1, SMT
  <2>3. MaxMany * k \in Nat /\ MaxMany * n \in Nat
    BY <2>1, Products
  <2> QED
    BY <2>1, <2>2, <2>3 DEF Admission, BufferBound
<1> QED
  BY <1>1, <1>2, AdmissionStep, TypeCorrect, PTL DEF Spec

----------------------------------------------------------------------------
(* A log of one file.                                                      *)

\* All ids belong to the first file.  (With two, the writer and the preallocation thread
\* can truncate each other's files, and committed entries are lost.)
OneFile == MaxTx <= Capacity

\* The id of the first record the writer has not taken, and the records it has taken
\* and not counted in the header of the file.
FirstFree == global_tx_id - Len(wal_buffer)
Unwritten == IF writer.pc \in {"fsync", "closedfile"} THEN 0 ELSE Len(writer.copy)

\* Only the writer creates file 0, and it has no header before that is done; no
\* other file has a record.
FilesOK ==
    /\ prealloc[0] = "none"
    /\ \A f \in Files : f # 0 => file[f].rec = 0
    /\ file[0].state = "absent" =>
          \A f \in Files : file[f].state = "absent" /\ prealloc[f] = "none"
    /\ file[0].state # "ok" => file[0].rec = 0
    /\ file[0].rec <= MaxTx
    /\ writer.pc = "truncate" => file[0].state = "absent"
    /\ writer.pc = "allocate" => file[0].state \in {"empty", "zeroed"}
    /\ writer.pc = "head" => file[0].state = "zeroed"
    /\ writer.pc = "entries" => file[0].state # "absent"
    /\ writer.pc = "header" => /\ file[0].state = "ok"
                               /\ writer.rec = file[0].rec + Len(writer.copy)

\* The writer's copy ends where the buffer begins.
CopyOK ==
    /\ writer.pc \in {"check", "wait", "exit"} => writer.copy = <<>>
    /\ writer.copy # <<>> => writer.copy[1].tx + Len(writer.copy) = FirstFree
    /\ mode = "down" => writer = IdleWriter

\* No record still to be written has a slot that is counted.
RecBelow == mode = "up" => file[0].rec + Unwritten <= FirstFree

UInv == FilesOK /\ CopyOK /\ RecBelow

\* Ids and slots are the same.
LEMMA OnePlace ==
    ASSUME OneFile
    PROVE  /\ 0 \in Files /\ MaxTx \in Nat /\ MaxTx <= Capacity /\ Capacity \in Nat /\ Capacity > 0
           /\ \A t \in Tx : FileOf(t) = 0 /\ SlotOf(t) = t /\ t \in Slots
<1>1. MaxTx \in Nat /\ Capacity \in Nat /\ Capacity > 0 /\ MaxTx <= Capacity
  BY WALAssumption DEF OneFile
<1>2. 0 \in Files
  <2>1. MaxTx \div Capacity \in Nat
    BY <1>1, SMT
  <2> QED
    BY <2>1 DEF Files
<1>3. ASSUME NEW t \in Tx PROVE FileOf(t) = 0 /\ SlotOf(t) = t /\ t \in Slots
  <2> DEFINE q == FileOf(t)
             s == SlotOf(t)
  <2>1. t \in Nat /\ t < Capacity
    BY <1>1 DEF Tx
  <2>2. q \in Nat /\ s \in 0 .. Capacity - 1 /\ t = Capacity * q + s
    BY <2>1, DivMod DEF Slots
  <2> HIDE DEF q, s
  <2>3. q = 0
    <3>1. q >= 1 => Capacity * q >= Capacity
      BY <1>1, <2>2, SMT
    <3>2. Capacity * q \in Int
      BY <1>1, <2>2
    <3> QED
      BY <1>1, <2>1, <2>2, <3>1, <3>2
  <2>4. s = t
    BY <1>1, <2>2, <2>3
  <2> QED
    BY <2>1, <2>3, <2>4, <1>1 DEF q, s, Slots
<1> QED
  BY <1>1, <1>2, <1>3

\* A batch is the whole copy.
LEMMA OneBatch ==
    ASSUME OneFile, writer.copy \in Seq(Rec), Dense(writer.copy), writer.copy # <<>>
    PROVE  /\ BatchFile = 0 /\ Batch = 1 .. Len(writer.copy)
           /\ Cardinality(Batch) = Len(writer.copy) /\ Rest = <<>>
           /\ writer.copy[1].tx \in Tx /\ SlotOf(writer.copy[1].tx) = writer.copy[1].tx
           /\ Len(writer.copy) \in Nat /\ Len(writer.copy) > 0
           /\ writer.copy[1].tx + Len(writer.copy) <= MaxTx
<1> DEFINE s == writer.copy
           n == Len(s)
<1>1. n \in Nat /\ n > 0 /\ DOMAIN s = 1 .. n /\ 1 \in 1 .. n /\ n \in 1 .. n
  OBVIOUS
<1>2. \A k \in 1 .. n : s[k].tx \in Tx /\ s[k].tx = s[1].tx + (k - 1)
  BY DEF Dense
<1>3. \A k \in 1 .. n : FileOf(s[k].tx) = 0
  BY <1>2, OnePlace
<1>4. BatchFile = 0
  BY <1>1, <1>3 DEF BatchFile
<1>5. Batch = 1 .. n
  BY <1>1, <1>3, <1>4 DEF Batch
<1>6. Cardinality(Batch) = n
  BY <1>1, <1>5, FS_Interval
<1>7. Rest = <<>>
  BY <1>1, <1>6 DEF Rest
<1>8. s[1].tx \in Tx /\ s[n].tx \in Tx /\ s[n].tx = s[1].tx + (n - 1)
  BY <1>1, <1>2
<1>9. s[1].tx + n <= MaxTx
  <2> DEFINE a == s[1].tx
             b == s[n].tx
  <2>1. a \in Nat /\ b \in Nat /\ b < MaxTx /\ b = a + (n - 1) /\ MaxTx \in Nat
    BY <1>8, OnePlace DEF Tx
  <2> HIDE DEF a, b, n
  <2>2. a + n <= MaxTx
    BY <1>1, <2>1
  <2> QED
    BY <2>2 DEF a
<1> QED
  BY <1>1, <1>4, <1>5, <1>6, <1>7, <1>8, <1>9, OnePlace

\* The types a step starts from.
Facts ==
    /\ 0 \in Files /\ MaxTx \in Nat /\ MaxTx <= Capacity
    /\ writer \in WriterType /\ file \in [Files -> FileType]
    /\ prealloc \in [Files -> {"none", "spawned", "truncate", "allocate", "head"}]
    /\ global_tx_id \in Nat /\ Len(wal_buffer) \in Nat /\ FirstFree \in Int
    /\ writer.copy \in Seq(Rec) /\ Len(writer.copy) \in Nat /\ Dense(writer.copy)
    /\ writer.rec \in Nat /\ file[0].rec \in Nat /\ Unwritten \in 0 .. Len(writer.copy)
    /\ \A f \in Files : f \in Nat

\* What every step starts from follows from the invariant of all logs.
LEMMA TheFacts == ASSUME OneFile, IInv PROVE Facts
<1>1. /\ writer \in WriterType /\ file \in [Files -> FileType] /\ global_tx_id \in Nat
      /\ wal_buffer \in Seq(Rec) /\ Dense(writer.copy)
      /\ prealloc \in [Files -> {"none", "spawned", "truncate", "allocate", "head"}]
  BY DEF IInv, TypeOK, WriterType, FileType, MemoryDense
<1>2. writer.copy \in Seq(Rec) /\ writer.rec \in Nat
  BY <1>1 DEF WriterType
<1>3. Len(writer.copy) \in Nat /\ Len(wal_buffer) \in Nat
  BY <1>1, <1>2
<1>4. FirstFree \in Int /\ Unwritten \in 0 .. Len(writer.copy)
  BY <1>1, <1>3 DEF FirstFree, Unwritten
<1>5. 0 \in Files /\ MaxTx \in Nat /\ MaxTx <= Capacity
  BY OnePlace
<1>6. file[0].rec \in Nat
  BY <1>1, <1>5 DEF FileType
<1> QED
  BY <1>1, <1>2, <1>3, <1>4, <1>5, <1>6, FilesAreNumbers DEF Facts

\* The steps that leave the writer, the files and the ids of the buffer alone.
LEMMA StillU ==
    ASSUME UInv, UNCHANGED <<writer, prealloc, file, mode>>, FirstFree' = FirstFree
    PROVE  UInv'
BY DEF UInv, FilesOK, CopyOK, RecBelow, Unwritten, FirstFree

\* An append does not move the boundary between the buffer and the rest.
LEMMA AppendFree ==
    ASSUME IInv, NEW c \in Clients, NEW s \in Seq(Sizes), AppendRecords(c, s)
    PROVE  FirstFree' = FirstFree
<1> DEFINE r == Records(global_tx_id, s)
<1>1. r \in Seq(Rec) /\ Len(r) = Len(s) /\ wal_buffer \in Seq(Rec) /\ global_tx_id \in Nat
  BY RecordsType DEF IInv, TypeOK
<1>2. wal_buffer' = wal_buffer \o r /\ global_tx_id' = global_tx_id + Len(s)
  BY DEF AppendRecords
<1> HIDE DEF r
<1>3. \A a, b \in Seq(Rec) : Len(a \o b) = Len(a) + Len(b)
  OBVIOUS
<1>4. Len(wal_buffer') = Len(wal_buffer) + Len(s)
  BY <1>1, <1>2, <1>3, Zenon
<1>5. Len(s) \in Nat /\ Len(wal_buffer) \in Nat
  BY <1>1
<1> QED
  BY <1>1, <1>2, <1>4, <1>5 DEF FirstFree

\* Flags are set, and perhaps bytes allocated.
LEMMA WithFlagsIs ==
    ASSUME NEW F \in FileType, NEW T
    PROVE  LET G == WithFlags(F, T) IN
           /\ G.rec = F.rec /\ G.state = IF F.state = "empty" THEN "zeroed" ELSE F.state
           /\ \A i \in Slots : /\ G.slots[i].tx = F.slots[i].tx
                               /\ G.slots[i].done = (F.slots[i].done \/ \E t \in T : SlotOf(t) = i)
<1> DEFINE A == Allocated(F)
           new == [i \in Slots |-> IF \E t \in T : SlotOf(t) = i
                                   THEN [F.slots[i] EXCEPT !.done = TRUE] ELSE F.slots[i]]
<1>1. A \in FileType /\ A.rec = F.rec /\ A.state = IF F.state = "empty" THEN "zeroed" ELSE F.state
  BY DEF Allocated, FileType, FileStates
<1>2. WithFlags(F, T) = [A EXCEPT !.slots = new]
  BY DEF WithFlags
<1> HIDE DEF A, new
<1>3. WithFlags(F, T).rec = A.rec /\ WithFlags(F, T).state = A.state /\ WithFlags(F, T).slots = new
  BY <1>1, <1>2 DEF FileType
<1>4. \A i \in Slots : /\ new[i].tx = F.slots[i].tx
                       /\ new[i].done = (F.slots[i].done \/ \E t \in T : SlotOf(t) = i)
  <2> TAKE i \in Slots
  <2>1. F.slots[i] \in [tx : Nat, done : BOOLEAN]
    BY DEF FileType
  <2>2. CASE \E t \in T : SlotOf(t) = i
    <3>1. new[i] = [F.slots[i] EXCEPT !.done = TRUE]
      BY <2>2 DEF new
    <3> QED
      BY <2>1, <2>2, <3>1
  <2>3. CASE ~ \E t \in T : SlotOf(t) = i
    <3>1. new[i] = F.slots[i]
      BY <2>3 DEF new
    <3> QED
      BY <2>1, <2>3, <3>1
  <2> QED
    BY <2>2, <2>3
<1> QED
  BY <1>1, <1>3, <1>4

\* A marker sets flags in file 0, and may close the handle of the writer.
LEMMA FlagsEffect ==
    ASSUME OneFile, IInv, NEW m \in Markers, NEW f \in Files, MarkOnDisk(m, f)
    PROVE  /\ UNCHANGED <<global_tx_id, wal_buffer, prealloc, mode, live, lost, ram_completed_tx>>
           /\ writer'.copy = writer.copy /\ writer'.rec = writer.rec /\ writer'.done = writer.done
           /\ \/ writer' = writer
              \/ writer.pc = "fsync" /\ writer'.pc = "closedfile"
           /\ pending' \in [Markers -> SUBSET Nat] /\ \A k \in Markers : pending'[k] \subseteq pending[k]
           /\ \A g \in Files : g # 0 => file'[g] = file[g]
           /\ \/ file' = file
              \/ /\ writer.pc # "header"
                 /\ file'[0].rec = file[0].rec
                 /\ file'[0].state = IF file[0].state = "empty" THEN "zeroed" ELSE file[0].state
                 /\ \A i \in Slots :
                       /\ file'[0].slots[i].tx = file[0].slots[i].tx
                       /\ file[0].slots[i].done => file'[0].slots[i].done
                       /\ file'[0].slots[i].done => file[0].slots[i].done \/ i \in pending[m]
<1> DEFINE T == {t \in pending[m] : FileOf(t) = f}
<1>1. Facts /\ pending \in [Markers -> SUBSET Nat] /\ pending[m] \subseteq Tx
  BY TheFacts DEF IInv, TypeOK, Remembered
<1>2. T # {} /\ \A t \in T : t \in Tx /\ FileOf(t) = 0 /\ SlotOf(t) = t /\ FileOf(t) = f
  BY <1>1, OnePlace DEF MarkOnDisk
<1>3. f = 0
  BY <1>2
<1>4. /\ UNCHANGED <<global_tx_id, wal_buffer, prealloc, mode, live, lost, ram_completed_tx>>
      /\ pending' = [pending EXCEPT ![m] = @ \ T]
      /\ \/ UNCHANGED <<file, writer>>
         \/ /\ writer.pc # "header"
            /\ \E S \in SUBSET T : file' = [file EXCEPT ![f] = WithFlags(@, S)]
            /\ writer' = IF writer.pc = "fsync" /\ handle # f
                         THEN [writer EXCEPT !.pc = "closedfile"] ELSE writer
  BY DEF MarkOnDisk, UseHandle, IoLockFree, hist
<1>5. pending' \in [Markers -> SUBSET Nat] /\ \A k \in Markers : pending'[k] \subseteq pending[k]
  <2> HIDE DEF T
  <2> QED
    BY <1>1, <1>4
<1>6. /\ writer'.copy = writer.copy /\ writer'.rec = writer.rec /\ writer'.done = writer.done
      /\ \/ writer' = writer
         \/ writer.pc = "fsync" /\ writer'.pc = "closedfile"
  BY <1>1, <1>4 DEF Facts, WriterType
<1>7. ASSUME NEW S \in SUBSET T, file' = [file EXCEPT ![f] = WithFlags(@, S)], writer.pc # "header"
      PROVE  /\ \A g \in Files : g # 0 => file'[g] = file[g]
             /\ file'[0].rec = file[0].rec
             /\ file'[0].state = IF file[0].state = "empty" THEN "zeroed" ELSE file[0].state
             /\ \A i \in Slots :
                   /\ file'[0].slots[i].tx = file[0].slots[i].tx
                   /\ file[0].slots[i].done => file'[0].slots[i].done
                   /\ file'[0].slots[i].done => file[0].slots[i].done \/ i \in pending[m]
  <2>1. file'[0] = WithFlags(file[0], S) /\ (\A g \in Files : g # 0 => file'[g] = file[g]) /\ file[0] \in FileType
    BY <1>1, <1>3, <1>7 DEF Facts
  <2>2. \A i \in Slots : (\E t \in S : SlotOf(t) = i) => i \in pending[m]
    BY <1>2
  <2> HIDE DEF T
  <2>3. LET G == WithFlags(file[0], S) IN
        /\ G.rec = file[0].rec /\ G.state = IF file[0].state = "empty" THEN "zeroed" ELSE file[0].state
        /\ \A i \in Slots : /\ G.slots[i].tx = file[0].slots[i].tx
                            /\ G.slots[i].done = (file[0].slots[i].done \/ \E t \in S : SlotOf(t) = i)
    BY <2>1, WithFlagsIs
  <2>4. ASSUME NEW i \in Slots
        PROVE  /\ file[0].slots[i].done => file'[0].slots[i].done
               /\ file'[0].slots[i].done => file[0].slots[i].done \/ i \in pending[m]
    BY <2>1, <2>2, <2>3, Zenon
  <2> QED
    BY <2>1, <2>3, <2>4
<1>8. CASE file' = file
  BY <1>4, <1>5, <1>6, <1>8
<1> QED
  BY <1>4, <1>5, <1>6, <1>7, <1>8

\* The writer turns to the next batch, or waits again.
LEMMA WriterTurns ==
    ASSUME OneFile, IInv, WriterCheck \/ WriterCopyCompleted \/ WriterNextBatch
    PROVE  /\ writer'.copy = writer.copy
           /\ \/ writer'.pc \in {"wait", "exit"} /\ writer.pc = "check"
              \/ writer'.pc = "batch" /\ writer.pc = "copy"
              \/ writer'.pc = "check" /\ writer.copy = <<>> /\ writer.pc = "batch"
              \/ writer'.pc = "truncate" /\ writer.pc = "batch" /\ file[0].state = "absent"
              \/ writer'.pc = "entries" /\ writer.pc = "batch" /\ file[0].state # "absent"
<1>1. Facts /\ writer \in WriterType
  BY TheFacts DEF Facts
<1>2. CASE WriterCheck \/ WriterCopyCompleted
  BY <1>1, <1>2 DEF WriterCheck, WriterCopyCompleted, Goto, WriterType
<1>3. CASE WriterNextBatch
  <2>1. CASE writer.copy = <<>> /\ writer' = IdleWriter /\ writer.pc = "batch"
    BY <2>1 DEF IdleWriter
  <2>2. ASSUME writer.copy # <<>>, writer.pc = "batch",
               writer' = [writer EXCEPT !.pc =
                   IF file[BatchFile].state = "absent" THEN "truncate" ELSE "entries"]
        PROVE  /\ writer'.copy = writer.copy
               /\ \/ writer'.pc = "truncate" /\ file[0].state = "absent"
                  \/ writer'.pc = "entries" /\ file[0].state # "absent"
    <3>1. BatchFile = 0
      BY <1>1, <2>2, OneBatch DEF Facts
    <3> QED
      BY <1>1, <2>2, <3>1 DEF WriterType
  <2> QED
    BY <1>3, <2>1, <2>2 DEF WriterNextBatch, Goto
<1> QED
  BY <1>2, <1>3

\* Those steps keep the invariant of the counts.
LEMMA WriterTurnsU ==
    ASSUME OneFile, IInv, UInv, WriterCheck \/ WriterCopyCompleted \/ WriterNextBatch
    PROVE  UInv'
<1>1. Facts
  BY TheFacts
<1>2. UNCHANGED <<global_tx_id, wal_buffer, prealloc, file, mode>> /\ mode = "up"
  BY DEF WriterCheck, WriterCopyCompleted, WriterNextBatch
<1>3. /\ writer'.copy = writer.copy
      /\ \/ writer'.pc \in {"wait", "exit"} /\ writer.pc = "check"
         \/ writer'.pc = "batch" /\ writer.pc = "copy"
         \/ writer'.pc = "check" /\ writer.copy = <<>> /\ writer.pc = "batch"
         \/ writer'.pc = "truncate" /\ writer.pc = "batch" /\ file[0].state = "absent"
         \/ writer'.pc = "entries" /\ writer.pc = "batch" /\ file[0].state # "absent"
  BY WriterTurns
<1>4. FilesOK'
  BY <1>2, <1>3 DEF UInv, FilesOK
<1>5. FirstFree' = FirstFree /\ Unwritten' = Unwritten
  BY <1>2, <1>3 DEF FirstFree, Unwritten
<1>6. CopyOK'
  BY <1>2, <1>3, <1>5 DEF UInv, CopyOK
<1>7. RecBelow'
  BY <1>2, <1>5 DEF UInv, RecBelow
<1> QED
  BY <1>4, <1>6, <1>7 DEF UInv

\* The writer takes the buffer.
LEMMA SwapU == ASSUME OneFile, IInv, UInv, WriterSwap PROVE UInv'
<1>1. /\ Facts /\ wal_buffer \in Seq(Rec) /\ writer.copy = <<>> /\ writer.pc = "wait"
      /\ MemoryDense
  BY TheFacts DEF IInv, TypeOK, UInv, CopyOK, WriterSwap
<1>2. /\ UNCHANGED <<global_tx_id, prealloc, file, mode>> /\ mode = "up" /\ wal_buffer' = <<>>
      /\ writer'.copy = wal_buffer /\ writer'.pc \in {"check", "copy"}
      /\ writer'.pc = "check" => wal_buffer = <<>>
  BY DEF WriterSwap, IdleWriter
<1>3. FirstFree' = global_tx_id /\ Unwritten' = Len(wal_buffer) /\ Unwritten = 0
  BY <1>1, <1>2 DEF FirstFree, Unwritten, Facts
<1>4. FilesOK'
  BY <1>2 DEF UInv, FilesOK
<1>5. ASSUME wal_buffer # <<>> PROVE wal_buffer[1].tx + Len(wal_buffer) = global_tx_id
  <2> DEFINE n == Len(wal_buffer)
             a == wal_buffer[1].tx
             b == wal_buffer[n].tx
  <2>1. n \in 1 .. n /\ 1 \in 1 .. n /\ n \in Nat
    BY <1>1, <1>5
  <2>2. a \in Nat /\ b = a + (n - 1) /\ b = global_tx_id - 1 /\ global_tx_id \in Nat
    BY <1>1, <1>5, <2>1 DEF MemoryDense, Dense, Tx, Facts
  <2> HIDE DEF a, b, n
  <2>3. a + n = global_tx_id
    BY <2>1, <2>2
  <2> QED
    BY <2>3 DEF a, n
<1>6. CopyOK'
  BY <1>2, <1>3, <1>5 DEF CopyOK
<1>7. RecBelow'
  BY <1>1, <1>2, <1>3 DEF UInv, RecBelow, FirstFree, Facts
<1> QED
  BY <1>4, <1>6, <1>7 DEF UInv

\* A batch ends, well or badly.
LEMMA BatchEndsU ==
    ASSUME OneFile, IInv, UInv, UNCHANGED <<global_tx_id, wal_buffer, prealloc, file, mode>>,
           mode = "up", writer'.copy = <<>>, writer'.pc \in {"check", "batch"}
    PROVE  UInv'
<1>1. Facts
  BY TheFacts
<1>2. FirstFree' = FirstFree /\ Unwritten' = 0
  BY DEF FirstFree, Unwritten
<1>3. FilesOK'
  BY DEF UInv, FilesOK
<1>4. CopyOK'
  BY DEF CopyOK
<1>5. RecBelow'
  BY <1>1, <1>2 DEF UInv, RecBelow, Facts
<1> QED
  BY <1>3, <1>4, <1>5 DEF UInv

\* What the steps that end a batch do to the writer.
LEMMA BatchEnds ==
    ASSUME OneFile, IInv, WriterFsync \/ WriterIOError
    PROVE  /\ UNCHANGED <<global_tx_id, wal_buffer, prealloc, file, mode, live, ram_completed_tx, pending>>
           /\ mode = "up" /\ writer'.copy = <<>> /\ writer'.pc \in {"check", "batch"}
<1>1. Facts /\ writer.copy # <<>>
  BY TheFacts DEF IInv, WriterHasBatch, WriterFsync, WriterIOError
<1>2. Rest = <<>>
  BY <1>1, OneBatch DEF Facts
<1>3. IdleWriter.copy = <<>> /\ IdleWriter.pc = "check"
  BY DEF IdleWriter
<1>4. /\ UNCHANGED <<global_tx_id, wal_buffer, prealloc, file, mode, live, ram_completed_tx, pending>>
      /\ mode = "up"
  BY DEF WriterFsync, WriterIOError
<1>5. writer' = IdleWriter \/ writer' = [writer EXCEPT !.pc = "batch", !.copy = Rest]
  BY DEF WriterFsync, WriterIOError, Abandon
<1>6. writer'.copy = <<>> /\ writer'.pc \in {"check", "batch"}
  BY <1>1, <1>2, <1>3, <1>5 DEF Facts, WriterType
<1> QED
  BY <1>4, <1>6

\* The writer creates the file.
LEMMA PreallocateEffect ==
    ASSUME OneFile, IInv, UInv, WriterPreallocate
    PROVE  /\ UNCHANGED <<global_tx_id, wal_buffer, mode>> /\ writer'.copy = writer.copy
           /\ writer.pc \in {"truncate", "allocate", "head"}
           /\ file[0].state # "ok" /\ prealloc'[0] = prealloc[0]
           /\ \A f \in Files : f # 0 => file'[f] = file[f]
           /\ file'[0].rec = 0 /\ file'[0].state # "absent"
           /\ \/ writer'.pc = "allocate" /\ file'[0].state \in {"empty", "zeroed"}
              \/ writer'.pc = "head" /\ file'[0].state = "zeroed"
              \/ writer'.pc = "entries" /\ file'[0].state = "ok"
<1>1. Facts /\ writer.copy # <<>> /\ BatchFile = 0 /\ mode = "up"
  BY TheFacts, OneBatch DEF IInv, WriterHasBatch, WriterPreallocate, Facts
<1>2. /\ UNCHANGED <<global_tx_id, wal_buffer, mode>> /\ writer'.copy = writer.copy
      /\ writer.pc \in {"truncate", "allocate", "head"}
      /\ writer'.pc \in {"allocate", "head", "entries"}
  BY <1>1 DEF WriterPreallocate, Goto, Facts, WriterType
<1>3. \A F \in FileType :
        /\ Allocated(F) \in FileType /\ Allocated(F).rec = F.rec
        /\ F.state \in {"empty", "zeroed"} => Allocated(F).state = "zeroed"
        /\ Headed(F) \in FileType /\ Headed(F).rec = 0 /\ Headed(F).state = "ok"
  BY FileTypes DEF FileType, FileStates, Allocated, Headed
<1>4. EmptyFile.state = "empty" /\ EmptyFile.rec = 0
  BY DEF EmptyFile, AbsentFile
<1>5. /\ \A f \in Files : f # 0 => file'[f] = file[f]
      /\ prealloc'[0] = prealloc[0]
      /\ \/ writer.pc = "truncate" /\ file'[0] = EmptyFile /\ writer'.pc = "allocate"
         \/ writer.pc = "allocate" /\ file'[0] = Allocated(file[0]) /\ writer'.pc = "head"
         \/ writer.pc = "head" /\ file'[0] = Headed(file[0]) /\ writer'.pc = "entries"
  <2> DEFINE Step(from, to, X) ==
               writer.pc = from /\ writer' = [writer EXCEPT !.pc = to] /\ file' = [file EXCEPT ![0] = X]
  <2>1. \/ Step("truncate", "allocate", EmptyFile) /\ prealloc' = prealloc
        \/ Step("allocate", "head", Allocated(file[0])) /\ prealloc' = prealloc
        \/ Step("head", "entries", Headed(file[0])) /\ prealloc' = [prealloc EXCEPT ![1] = "spawned"]
    BY <1>1 DEF WriterPreallocate, Goto
  <2>2. ASSUME NEW from, NEW to, NEW X, Step(from, to, X)
        PROVE  /\ writer.pc = from /\ writer'.pc = to /\ file'[0] = X
               /\ \A f \in Files : f # 0 => file'[f] = file[f]
    BY <1>1, <2>2 DEF Facts, WriterType
  <2>3. prealloc'[0] = prealloc[0]
    BY <1>1, <2>1 DEF Facts
  <2> HIDE DEF Step
  <2>4. CASE Step("truncate", "allocate", EmptyFile)
    BY <2>2, <2>3, <2>4
  <2>5. CASE Step("allocate", "head", Allocated(file[0]))
    BY <2>2, <2>3, <2>5
  <2>6. CASE Step("head", "entries", Headed(file[0]))
    BY <2>2, <2>3, <2>6
  <2> QED
    BY <2>1, <2>4, <2>5, <2>6
<1>6. /\ file[0] \in FileType /\ file[0].rec = 0 /\ file[0].state # "ok"
      /\ writer.pc = "truncate" => file[0].state = "absent"
      /\ writer.pc = "allocate" => file[0].state \in {"empty", "zeroed"}
      /\ writer.pc = "head" => file[0].state = "zeroed"
  BY <1>1, <1>2 DEF UInv, FilesOK, Facts
<1>7. /\ file'[0].rec = 0 /\ file'[0].state # "absent"
      /\ \/ writer'.pc = "allocate" /\ file'[0].state \in {"empty", "zeroed"}
         \/ writer'.pc = "head" /\ file'[0].state = "zeroed"
         \/ writer'.pc = "entries" /\ file'[0].state = "ok"
  BY <1>3, <1>4, <1>5, <1>6
<1> QED
  BY <1>2, <1>5, <1>6, <1>7

\* Creating the file keeps the invariant of the counts.
LEMMA PreallocateU ==
    ASSUME OneFile, IInv, UInv, WriterPreallocate
    PROVE  UInv' /\ file[0].state # "ok"
<1>1. /\ Facts /\ mode = "up" /\ UNCHANGED <<global_tx_id, wal_buffer, mode>>
      /\ writer'.copy = writer.copy /\ writer.pc \in {"truncate", "allocate", "head"}
      /\ file[0].state # "ok" /\ prealloc'[0] = prealloc[0]
      /\ \A f \in Files : f # 0 => file'[f] = file[f]
      /\ file'[0].rec = 0 /\ file'[0].state # "absent"
      /\ \/ writer'.pc = "allocate" /\ file'[0].state \in {"empty", "zeroed"}
         \/ writer'.pc = "head" /\ file'[0].state = "zeroed"
         \/ writer'.pc = "entries" /\ file'[0].state = "ok"
  BY TheFacts, PreallocateEffect DEF WriterPreallocate
<1>2. file[0].rec = 0
  BY <1>1 DEF UInv, FilesOK
<1>3. FilesOK'
  BY <1>1 DEF UInv, FilesOK, Facts
<1>4. FirstFree' = FirstFree /\ Unwritten' = Unwritten
  BY <1>1 DEF FirstFree, Unwritten
<1>5. CopyOK'
  BY <1>1, <1>4 DEF UInv, CopyOK
<1>6. RecBelow'
  BY <1>1, <1>2, <1>4 DEF UInv, RecBelow
<1> QED
  BY <1>1, <1>3, <1>5, <1>6 DEF UInv

\* The preallocation threads work on other files.
LEMMA PreallocAsyncU ==
    ASSUME OneFile, IInv, UInv, NEW f \in Files, PreallocAsync(f)
    PROVE  UInv' /\ file'[0] = file[0]
<1>1. Facts /\ f # 0 /\ mode = "up" /\ file[0].state # "absent" /\ file[f].rec = 0
  BY TheFacts DEF UInv, FilesOK, PreallocAsync
<1>2. \A F \in FileType : Allocated(F).rec = F.rec /\ Headed(F).rec = 0
  BY DEF FileType, FileStates, Allocated, Headed
<1>3. EmptyFile.rec = 0
  BY DEF EmptyFile, AbsentFile
<1>4. /\ UNCHANGED <<global_tx_id, wal_buffer, writer, mode>>
      /\ \A g \in Files : g # f => file'[g] = file[g] /\ prealloc'[g] = prealloc[g]
      /\ file'[f] \in {file[f], EmptyFile, Allocated(file[f]), Headed(file[f])}
  <2>1. UNCHANGED <<global_tx_id, wal_buffer, writer, mode>>
    BY DEF PreallocAsync
  <2>2. \E p : prealloc' = [prealloc EXCEPT ![f] = p]
    BY Zenon DEF PreallocAsync
  <2>3. \A g \in Files : g # f => prealloc'[g] = prealloc[g]
    BY <1>1, <2>2 DEF Facts
  <2>4. \E X \in {file[f], EmptyFile, Allocated(file[f]), Headed(file[f])} :
           file' = [file EXCEPT ![f] = X]
    <3>1. [file EXCEPT ![f] = file[f]] = file
      BY <1>1 DEF Facts
    <3> QED
      BY <3>1, Zenon DEF PreallocAsync
  <2>5. ASSUME NEW X, file' = [file EXCEPT ![f] = X]
        PROVE  file'[f] = X /\ \A g \in Files : g # f => file'[g] = file[g]
    BY <1>1, <2>5 DEF Facts
  <2> HIDE DEF EmptyFile, Allocated, Headed
  <2> QED
    BY <2>1, <2>3, <2>4, <2>5, Zenon
<1>5. file'[f].rec = 0 /\ file'[0] = file[0] /\ prealloc'[0] = prealloc[0]
  BY <1>1, <1>2, <1>3, <1>4 DEF Facts
<1>6. FilesOK'
  BY <1>1, <1>4, <1>5 DEF UInv, FilesOK
<1>7. FirstFree' = FirstFree /\ Unwritten' = Unwritten
  BY <1>4 DEF FirstFree, Unwritten
<1> QED
  BY <1>4, <1>5, <1>6, <1>7 DEF UInv, CopyOK, RecBelow

\* The writer puts the entries of a batch into the slots after the last counted one.
LEMMA EntriesEffect ==
    ASSUME OneFile, IInv, UInv, WriterEntries
    PROVE  /\ UNCHANGED <<global_tx_id, wal_buffer, prealloc, mode, live, ram_completed_tx, pending>>
           /\ mode = "up" /\ writer.pc = "entries" /\ writer.copy # <<>>
           /\ \/ /\ file' = file /\ writer' = IdleWriter /\ lost' = lost \cup Ids(writer.copy)
                 /\ file[0].state # "ok" \/ file[0].used + BatchBytes > PayloadArea
              \/ /\ file[0].state = "ok"
                 /\ writer'.pc = "header" /\ writer'.copy = writer.copy /\ writer'.done = writer.done
                 /\ writer'.rec = file[0].rec + Len(writer.copy)
                 /\ file'[0].state = "ok" /\ file'[0].rec = file[0].rec
                 /\ \A g \in Files : g # 0 => file'[g] = file[g]
                 /\ \A i \in Slots :
                       LET k == i - writer.copy[1].tx + 1 IN
                       file'[0].slots[i] =
                          IF k \in DOMAIN writer.copy
                          THEN [tx |-> writer.copy[k].tx, done |-> writer.copy[k].tx \in writer.done]
                          ELSE file[0].slots[i]
<1> DEFINE s == writer.copy
           new == [i \in Slots |-> IF i - s[1].tx + 1 \in DOMAIN s
                                   THEN [tx |-> s[i - s[1].tx + 1].tx,
                                         done |-> s[i - s[1].tx + 1].tx \in writer.done]
                                   ELSE file[0].slots[i]]
<1>1. /\ Facts /\ s # <<>> /\ writer.pc = "entries" /\ mode = "up"
      /\ UNCHANGED <<global_tx_id, wal_buffer, prealloc, mode, live, ram_completed_tx, pending>>
  BY TheFacts DEF IInv, WriterHasBatch, WriterEntries
<1>2. /\ BatchFile = 0 /\ Batch = DOMAIN s /\ Cardinality(Batch) = Len(s)
      /\ SlotOf(s[1].tx) = s[1].tx
  BY <1>1, OneBatch DEF Facts
<1>3. CASE /\ Abandon(writer.copy) /\ file' = file
           /\ file[0].state # "ok" \/ file[0].used + BatchBytes > PayloadArea
  BY <1>1, <1>3 DEF Abandon
<1>4. ASSUME NEW u \in 0 .. PayloadArea, file[0].state = "ok",
             writer' = [writer EXCEPT !.pc = "header", !.used = u, !.rec = file[0].rec + Len(s)],
             file' = [file EXCEPT ![0].slots = new]
      PROVE  /\ writer'.pc = "header" /\ writer'.copy = writer.copy /\ writer'.done = writer.done
             /\ writer'.rec = file[0].rec + Len(s)
             /\ file'[0].state = "ok" /\ file'[0].rec = file[0].rec
             /\ \A g \in Files : g # 0 => file'[g] = file[g]
             /\ file'[0].slots = new
  <2>1. /\ writer'.pc = "header" /\ writer'.copy = writer.copy /\ writer'.done = writer.done
        /\ writer'.rec = file[0].rec + Len(s)
    BY <1>1, <1>4 DEF Facts, WriterType
  <2> HIDE DEF new
  <2> QED
    BY <1>1, <1>4, <2>1 DEF Facts, FileType
<1>5. \/ /\ Abandon(writer.copy) /\ file' = file
         /\ file[0].state # "ok" \/ file[0].used + BatchBytes > PayloadArea
      \/ /\ file[0].state = "ok" /\ file' = [file EXCEPT ![0].slots = new]
         /\ \E u \in 0 .. PayloadArea :
              writer' = [writer EXCEPT !.pc = "header", !.used = u, !.rec = file[0].rec + Len(s)]
  <2>1. WriterEntries
    OBVIOUS
  <2> QED
    BY <1>2, <2>1 DEF WriterEntries
<1>6. CASE /\ file[0].state = "ok" /\ file'[0].slots = new
           /\ writer'.pc = "header" /\ writer'.copy = writer.copy /\ writer'.done = writer.done
           /\ writer'.rec = file[0].rec + Len(s)
           /\ file'[0].state = "ok" /\ file'[0].rec = file[0].rec
           /\ \A g \in Files : g # 0 => file'[g] = file[g]
  BY <1>1, <1>6
<1> HIDE DEF new
<1> QED
  BY <1>3, <1>4, <1>5, <1>6

\* Entries that are not counted yet keep it.
LEMMA EntriesU == ASSUME OneFile, IInv, UInv, WriterEntries PROVE UInv'
<1>1. Facts /\ UNCHANGED <<global_tx_id, wal_buffer, prealloc, mode>> /\ mode = "up"
  BY TheFacts, EntriesEffect
<1>2. CASE file' = file /\ writer' = IdleWriter
  BY <1>1, <1>2, BatchEndsU DEF IdleWriter
<1>3. CASE /\ file[0].state = "ok" /\ writer.pc = "entries"
           /\ writer'.pc = "header" /\ writer'.copy = writer.copy
           /\ writer'.rec = file[0].rec + Len(writer.copy)
           /\ file'[0].state = "ok" /\ file'[0].rec = file[0].rec
           /\ \A g \in Files : g # 0 => file'[g] = file[g]
  <2>1. FilesOK'
    BY <1>1, <1>3 DEF UInv, FilesOK
  <2>2. FirstFree' = FirstFree /\ Unwritten' = Unwritten
    BY <1>1, <1>3 DEF FirstFree, Unwritten
  <2>3. CopyOK' /\ RecBelow'
    BY <1>1, <1>3, <2>2 DEF UInv, CopyOK, RecBelow
  <2> QED
    BY <2>1, <2>3 DEF UInv
<1> QED
  BY <1>2, <1>3, EntriesEffect

\* The writer counts the entries of its batch.
LEMMA HeaderEffect ==
    ASSUME OneFile, IInv, UInv, WriterHeader
    PROVE  /\ UNCHANGED <<global_tx_id, wal_buffer, prealloc, mode, live, ram_completed_tx, pending>>
           /\ mode = "up" /\ writer.pc = "header" /\ writer'.pc = "fsync" /\ writer.copy # <<>>
           /\ writer'.copy = writer.copy /\ writer'.done = writer.done
           /\ file[0].state = "ok" /\ file'[0].state = "ok" /\ file'[0].slots = file[0].slots
           /\ file'[0].rec = file[0].rec + Len(writer.copy)
           /\ \A g \in Files : g # 0 => file'[g] = file[g]
<1>1. /\ Facts /\ writer.copy # <<>> /\ writer.pc = "header" /\ mode = "up"
      /\ UNCHANGED <<global_tx_id, wal_buffer, prealloc, mode, live, ram_completed_tx, pending>>
  BY TheFacts DEF IInv, WriterHasBatch, WriterHeader, hist
<1>2. BatchFile = 0
  BY <1>1, OneBatch DEF Facts
<1>3. /\ file' = [file EXCEPT ![0] = [@ EXCEPT !.state = "ok", !.rec = writer.rec, !.used = writer.used]]
      /\ writer' = [writer EXCEPT !.pc = "fsync"]
  BY <1>2 DEF WriterHeader, Goto
<1>4. file[0].state = "ok" /\ writer.rec = file[0].rec + Len(writer.copy)
  BY <1>1 DEF UInv, FilesOK
<1> QED
  BY <1>1, <1>3, <1>4 DEF Facts, FileType, WriterType

\* Counting the batch keeps it: the copy ends where the buffer begins.
LEMMA HeaderU == ASSUME OneFile, IInv, UInv, WriterHeader PROVE UInv'
<1> DEFINE n == Len(writer.copy)
           r == file[0].rec
           a == writer.copy[1].tx
<1>1. /\ Facts /\ UNCHANGED <<global_tx_id, wal_buffer, prealloc, mode>> /\ mode = "up"
      /\ writer.pc = "header" /\ writer'.pc = "fsync" /\ writer'.copy = writer.copy
      /\ file'[0].state = "ok" /\ file'[0].rec = r + n
      /\ \A g \in Files : g # 0 => file'[g] = file[g]
  BY TheFacts, HeaderEffect
<1>2. a + n = FirstFree /\ a + n <= MaxTx /\ r + n <= FirstFree
  <2>1. writer.copy # <<>>
    BY HeaderEffect
  <2>2. a + n = FirstFree /\ a + n <= MaxTx
    BY <1>1, <2>1, OneBatch DEF UInv, CopyOK, Facts
  <2> QED
    BY <1>1, <2>2 DEF UInv, RecBelow, Unwritten
<1>3. r + n <= MaxTx
  BY <1>1, <1>2 DEF Facts
<1>4. FilesOK'
  BY <1>1, <1>3 DEF UInv, FilesOK
<1>5. FirstFree' = FirstFree /\ Unwritten' = 0
  BY <1>1 DEF FirstFree, Unwritten
<1>6. CopyOK'
  BY <1>1, <1>5 DEF UInv, CopyOK
<1>7. RecBelow'
  BY <1>1, <1>2, <1>5 DEF RecBelow, Facts
<1> QED
  BY <1>4, <1>6, <1>7 DEF UInv

\* A marker on disk.
LEMMA FlagsU ==
    ASSUME OneFile, IInv, UInv, NEW m \in Markers, NEW f \in Files, MarkOnDisk(m, f)
    PROVE  UInv'
<1>1. /\ Facts /\ UNCHANGED <<global_tx_id, wal_buffer, prealloc, mode>>
      /\ writer'.copy = writer.copy /\ writer'.rec = writer.rec
      /\ \/ writer' = writer
         \/ writer.pc = "fsync" /\ writer'.pc = "closedfile"
      /\ \A g \in Files : g # 0 => file'[g] = file[g]
  BY TheFacts, FlagsEffect
<1>2. \/ file' = file
      \/ /\ writer.pc # "header" /\ file'[0].rec = file[0].rec
         /\ file'[0].state = IF file[0].state = "empty" THEN "zeroed" ELSE file[0].state
  BY FlagsEffect
<1>3. FilesOK'
  <2>1. /\ file'[0].rec = file[0].rec
        /\ file[0].state # "empty" => file'[0].state = file[0].state
        /\ file[0].state = "empty" => file'[0].state \in {"empty", "zeroed"}
    BY <1>2
  <2>2. writer'.pc \in {"truncate", "allocate", "head", "entries", "header"} => writer' = writer
    BY <1>1
  <2>3. writer'.pc = "header" => file' = file
    BY <1>1, <1>2
  <2> QED
    BY <1>1, <2>1, <2>2, <2>3 DEF UInv, FilesOK
<1>4. FirstFree' = FirstFree /\ Unwritten' = Unwritten /\ file'[0].rec = file[0].rec
  BY <1>1, <1>2 DEF FirstFree, Unwritten
<1>5. mode = "up"
  BY DEF MarkOnDisk
<1>6. CopyOK' /\ RecBelow'
  BY <1>1, <1>4, <1>5 DEF UInv, CopyOK, RecBelow
<1> QED
  BY <1>3, <1>6 DEF UInv

\* A process that stops keeps its file.
LEMMA StopU == ASSUME OneFile, IInv, UInv, Stop PROVE UInv'
<1>1. /\ file' = file /\ mode' = "down" /\ writer' = IdleWriter
      /\ prealloc' = [f \in Files |-> "none"] /\ 0 \in Files
  BY OnePlace DEF Stop
<1>2. FilesOK'
  BY <1>1 DEF UInv, FilesOK, IdleWriter
<1>3. CopyOK' /\ RecBelow'
  BY <1>1 DEF CopyOK, RecBelow, IdleWriter
<1> QED
  BY <1>2, <1>3 DEF UInv

\* A process that starts goes on after the last counted record.
LEMMA RestartIds ==
    ASSUME OneFile, IInv, UInv, Restart
    PROVE  /\ global_tx_id' \in Nat /\ FirstFree' = global_tx_id'
           /\ mode' = "up" =>
                /\ file[0].rec <= global_tx_id'
                /\ \/ global_tx_id' >= MaxTx
                   \/ /\ file[0].state = "ok" => file[0].rec = global_tx_id'
                      /\ file[0].state = "absent" => global_tx_id' = 0
<1>1. /\ Facts /\ wal_buffer' = <<>> /\ file[0].rec \in Nat /\ file[0].rec <= MaxTx
      /\ MaxTx \in Nat /\ Capacity \in Nat /\ MaxTx <= Capacity
      /\ file[0].state # "ok" => file[0].rec = 0
  BY TheFacts, OnePlace DEF Restart, IInv, StoppedIsEmpty, UInv, FilesOK, Facts
<1>2. global_tx_id' \in Nat /\ FirstFree' = global_tx_id'
  <2>1. global_tx_id' \in Nat
    BY TypeStep DEF Next, TypeOK
  <2>2. Len(wal_buffer') = 0
    BY <1>1
  <2>3. FirstFree' = global_tx_id' - Len(wal_buffer')
    BY DEF FirstFree
  <2>4. \A n \in Nat : n - 0 = n
    OBVIOUS
  <2> QED
    BY <2>1, <2>2, <2>3, <2>4, Zenon
<1> DEFINE Goal == /\ file[0].rec <= global_tx_id'
                   /\ \/ global_tx_id' >= MaxTx
                      \/ /\ file[0].state = "ok" => file[0].rec = global_tx_id'
                         /\ file[0].state = "absent" => global_tx_id' = 0
<1>3. ASSUME {f \in Files : file[f].state # "absent"} = {}, global_tx_id' = 0 PROVE Goal
  <2>1. file[0].state = "absent"
    BY <1>1, <1>3 DEF Facts
  <2> QED
    BY <1>1, <1>3, <2>1
<1>4. ASSUME NEW last \in Files, last # 0, NEW n \in Nat, global_tx_id' = last * Capacity + n
      PROVE  Goal
  <2>1. last \in Nat /\ last >= 1
    BY <1>1, <1>4 DEF Facts
  <2>2. last * Capacity >= Capacity /\ last * Capacity \in Nat
    BY <1>1, <2>1, SMT
  <2>3. global_tx_id' >= MaxTx
    BY <1>1, <1>4, <2>2
  <2> QED
    BY <1>1, <1>2, <2>3
<1>5. 0 * Capacity = 0 /\ \A k \in Nat : k * Capacity \in Nat
  BY <1>1, SMT
<1>6. ASSUME NEW last \in Files, file[last].state = "ok",
             global_tx_id' = last * Capacity + file[last].rec
      PROVE  Goal
  <2>1. file[last].rec \in Nat
    BY <1>1 DEF Facts, FileType
  <2>2. CASE last = 0
    BY <1>1, <1>2, <1>5, <1>6, <2>1, <2>2
  <2> QED
    BY <1>4, <1>6, <2>1, <2>2
<1>7. ASSUME NEW last \in Files, file[last].state = "empty", global_tx_id' = last * Capacity
      PROVE  Goal
  <2>1. CASE last = 0
    BY <1>1, <1>2, <1>5, <1>7, <2>1
  <2>2. CASE last # 0
    <3>1. last * Capacity = last * Capacity + 0
      BY <1>1, <1>5 DEF Facts
    <3> QED
      BY <1>4, <1>7, <2>2, <3>1
  <2> QED
    BY <2>1, <2>2
<1>8. mode' = "up" => Goal
  BY <1>3, <1>6, <1>7 DEF Restart
<1> QED
  BY <1>2, <1>8

\* A restart keeps it.
LEMMA RestartU == ASSUME OneFile, IInv, UInv, Restart PROVE UInv'
<1>1. /\ Facts /\ UNCHANGED <<wal_buffer, writer, prealloc, file>> /\ mode = "down" /\ mode' # "down"
      /\ wal_buffer = <<>> /\ writer = IdleWriter
  BY TheFacts DEF Restart, IInv, StoppedIsEmpty, UInv, CopyOK
<1>2. FilesOK'
  BY <1>1 DEF UInv, FilesOK
<1>3. CopyOK'
  BY <1>1 DEF CopyOK, IdleWriter
<1>4. Unwritten' = 0
  BY <1>1 DEF Unwritten, IdleWriter
<1>5. RecBelow'
  <2>1. \A n \in Nat : n + 0 = n
    OBVIOUS
  <2> QED
    BY <1>1, <1>4, <2>1, RestartIds DEF RecBelow, Facts
<1> QED
  BY <1>2, <1>3, <1>5 DEF UInv

\* Every step keeps it.
LEMMA UStep == OneFile /\ IInv /\ UInv /\ [Next]_vars => UInv'
<1> SUFFICES ASSUME OneFile, IInv, UInv, [Next]_vars PROVE UInv'
  OBVIOUS
<1>1. ASSUME NEW c \in Clients, NEW s \in Seq(Sizes), AppendRecords(c, s) PROVE UInv'
  BY <1>1, AppendFree, StillU DEF AppendRecords
<1>2. CASE \/ \E c \in Clients : PassBackpressure(c)
           \/ \E m \in Markers, T \in SUBSET live : MarkInRam(m, T)
           \/ StartShutdown \/ ForceFlush \/ UNCHANGED vars
  <2>1. UNCHANGED <<writer, prealloc, file, mode, global_tx_id, wal_buffer>>
    BY <1>2 DEF PassBackpressure, MarkInRam, StartShutdown, ForceFlush, vars
  <2> QED
    BY <2>1, StillU DEF FirstFree
<1>3. CASE WriterFsync \/ WriterIOError
  BY <1>3, BatchEnds, BatchEndsU
<1>4. CASE Crash \/ Exit
  BY <1>4, StopU DEF Crash, Exit
<1> QED
  BY <1>1, <1>2, <1>3, <1>4, SizeListType, SizeOneType, FlagsU, WriterTurnsU, SwapU,
     PreallocateU, EntriesU, HeaderU, PreallocAsyncU, RestartU
  DEF Next, Client, Marker, Writer, AppendToBuffer, AppendManyToBuffer,
      MarkManyJobsComplete, MarkJobComplete

\* It holds of an empty directory.
LEMMA UInit == OneFile /\ Init => UInv
<1> SUFFICES ASSUME OneFile, Init PROVE UInv
  OBVIOUS
<1>1. 0 \in Files /\ MaxTx \in Nat
  BY OnePlace
<1>2. AbsentFile.state = "absent" /\ AbsentFile.rec = 0
  BY DEF AbsentFile
<1>3. FilesOK
  BY <1>1, <1>2 DEF Init, FilesOK, IdleWriter
<1>4. CopyOK /\ RecBelow
  BY <1>1, <1>2 DEF Init, CopyOK, RecBelow, IdleWriter, Unwritten, FirstFree
<1> QED
  BY <1>3, <1>4 DEF UInv

\* A counted entry stays counted, with its id and its flag.
Kept ==
    \A f \in Files, i \in Slots :
        Committed(f, i) =>
           /\ Committed(f, i)'
           /\ file'[f].slots[i].tx = file[f].slots[i].tx
           /\ file[f].slots[i].done => file'[f].slots[i].done

\* Only file 0 has counted entries.
LEMMA KeptIn0 ==
    ASSUME OneFile, IInv, UInv,
           file[0].state = "ok" =>
              /\ file'[0].state = "ok" /\ file'[0].rec >= file[0].rec
              /\ file'[0].rec \in Nat
              /\ \A i \in Slots : i < file[0].rec =>
                   /\ file'[0].slots[i].tx = file[0].slots[i].tx
                   /\ file[0].slots[i].done => file'[0].slots[i].done
    PROVE  Kept
<1>1. Facts /\ Slots \subseteq Nat
  BY TheFacts, OnePlace DEF Slots
<1>2. ASSUME NEW f \in Files, NEW i \in Slots, Committed(f, i)
      PROVE  /\ Committed(f, i)'
             /\ file'[f].slots[i].tx = file[f].slots[i].tx
             /\ file[f].slots[i].done => file'[f].slots[i].done
  <2>1. f = 0
    <3>1. i < file[f].rec /\ i \in Nat
      BY <1>1, <1>2 DEF Committed
    <3>2. f # 0 => file[f].rec = 0
      BY DEF UInv, FilesOK
    <3> QED
      BY <3>1, <3>2
  <2>2. file[0].state = "ok" /\ i < file[0].rec /\ i \in Nat
    BY <1>1, <1>2, <2>1 DEF Committed
  <2>3. file'[0].state = "ok" /\ i < file'[0].rec
    BY <1>1, <2>2 DEF Facts
  <2> QED
    BY <2>1, <2>2, <2>3 DEF Committed
<1> QED
  BY <1>2 DEF Kept

\* No step takes a counted entry back.
LEMMA KeptStep == OneFile /\ IInv /\ UInv /\ [Next]_vars => Kept
<1> SUFFICES ASSUME OneFile, IInv, UInv, [Next]_vars PROVE Kept
  OBVIOUS
<1>1. Facts /\ Slots \subseteq Nat
  BY TheFacts, OnePlace DEF Slots
<1>2. CASE file'[0] = file[0]
  BY <1>1, <1>2, KeptIn0 DEF Facts
<1>3. CASE WriterPreallocate
  BY <1>3, PreallocateU, KeptIn0
<1>4. CASE WriterEntries
  <2>1. ASSUME file[0].state = "ok", NEW i \in Slots, i < file[0].rec, writer.copy # <<>>,
               writer.pc = "entries", mode = "up"
        PROVE  i - writer.copy[1].tx + 1 \notin DOMAIN writer.copy
    <3> DEFINE n == Len(writer.copy)
               a == writer.copy[1].tx
               r == file[0].rec
    <3>1. a + n = FirstFree /\ r + n <= FirstFree /\ DOMAIN writer.copy = 1 .. n
      BY <1>1, <2>1 DEF UInv, CopyOK, RecBelow, Unwritten, Facts
    <3>2. a \in Nat /\ n \in Nat /\ r \in Nat /\ i \in Nat
      BY <1>1, <2>1, OneBatch DEF Facts, Tx
    <3> HIDE DEF a, n, r
    <3>3. i < r
      BY <2>1 DEF r
    <3>4. i < a
      BY <3>1, <3>2, <3>3
    <3>5. i - a + 1 \notin 1 .. n
      BY <3>2, <3>4
    <3> QED
      BY <3>1, <3>5 DEF a
  <2>2. CASE file' = file
    BY <1>2, <2>2
  <2>3. CASE /\ file[0].state = "ok" /\ writer.copy # <<>>
             /\ file'[0].state = "ok" /\ file'[0].rec = file[0].rec
             /\ \A i \in Slots :
                   LET k == i - writer.copy[1].tx + 1 IN
                   file'[0].slots[i] =
                      IF k \in DOMAIN writer.copy
                      THEN [tx |-> writer.copy[k].tx, done |-> writer.copy[k].tx \in writer.done]
                      ELSE file[0].slots[i]
    <3>1. writer.pc = "entries" /\ mode = "up"
      BY <1>4 DEF WriterEntries
    <3>2. \A i \in Slots : i < file[0].rec => file'[0].slots[i] = file[0].slots[i]
      BY <2>1, <2>3, <3>1
    <3> QED
      BY <1>1, <2>3, <3>2, KeptIn0 DEF Facts
  <2> QED
    BY <1>4, <2>2, <2>3, EntriesEffect
<1>5. CASE WriterHeader
  <2>1. /\ file'[0].state = "ok" /\ file'[0].slots = file[0].slots
        /\ file'[0].rec = file[0].rec + Len(writer.copy)
    BY <1>5, HeaderEffect
  <2>2. file'[0].rec >= file[0].rec /\ file'[0].rec \in Nat
    BY <1>1, <2>1 DEF Facts
  <2> QED
    BY <2>1, <2>2, KeptIn0
<1>6. ASSUME NEW m \in Markers, NEW f \in Files, MarkOnDisk(m, f) PROVE Kept
  <2>1. CASE file' = file
    BY <1>2, <2>1
  <2>2. CASE /\ file'[0].rec = file[0].rec
             /\ file'[0].state = IF file[0].state = "empty" THEN "zeroed" ELSE file[0].state
             /\ \A i \in Slots :
                   /\ file'[0].slots[i].tx = file[0].slots[i].tx
                   /\ file[0].slots[i].done => file'[0].slots[i].done
                   /\ file'[0].slots[i].done => file[0].slots[i].done \/ i \in pending[m]
    <3>1. \A i \in Slots : file[0].slots[i].done => file'[0].slots[i].done
      BY <2>2, Zenon
    <3>2. file[0].state = "ok" => file'[0].state = "ok"
      BY <2>2
    <3>3. file'[0].rec >= file[0].rec /\ file'[0].rec \in Nat
      BY <1>1, <2>2 DEF Facts
    <3> QED
      BY <2>2, <3>1, <3>2, <3>3, KeptIn0
  <2> QED
    BY <1>6, <2>1, <2>2, FlagsEffect
<1>7. ASSUME NEW f \in Files, PreallocAsync(f) PROVE Kept
  BY <1>2, <1>7, PreallocAsyncU
<1>8. CASE file' = file
  BY <1>2, <1>8
<1> QED
  BY <1>3, <1>4, <1>5, <1>6, <1>7, <1>8
  DEF Next, Client, Marker, Writer, AppendToBuffer, AppendManyToBuffer, PassBackpressure,
      AppendRecords, MarkManyJobsComplete, MarkJobComplete, MarkInRam, WriterCheck,
      WriterSwap, WriterCopyCompleted, WriterNextBatch, WriterFsync, WriterIOError,
      StartShutdown, ForceFlush, Crash, Exit, Stop, Restart, vars

\* In a log that has not rotated, what the header of the file counts stays as it is,
\* through I/O errors, crashes and restarts (_write_batch_to_disk against
\* mark_many_jobs_complete, _preallocate_file and restore_global_tx_id).
THEOREM CommittedKept == OneFile /\ Spec => CommittedStable
<1>1. OneFile /\ IInv /\ UInv /\ [Next]_vars =>
         [\A f \in Files, i \in Slots :
          Committed(f, i) =>
             /\ Committed(f, i)'
             /\ file'[f].slots[i].tx = file[f].slots[i].tx
             /\ file[f].slots[i].done => file'[f].slots[i].done]_vars
  BY KeptStep DEF Kept
<1>2. OneFile => (OneFile')
  BY DEF OneFile
<1> QED
  BY Inductive, UInit, UStep, <1>1, <1>2, PTL DEF Spec, CommittedStable

----------------------------------------------------------------------------
(* Nothing unfinished is forgotten, in a log of one file whose payload area is *)
(* large enough, when no step meets an I/O error.  A batch given up would leave *)
(* the count of records behind the ids, and later entries uncounted.           *)

\* The batch the writer is about to write fits.
Fits == writer.pc = "entries" => file[BatchFile].used + BatchBytes \in 0 .. PayloadArea

\* The completions that are remembered somewhere in memory.
Reported ==
    {t \in Nat : \/ t \in ram_completed_tx \/ t \in writer.done
                 \/ \E m \in Markers : t \in pending[m]}

\* Unfinished and completed transactions have ids that were handed out, and no
\* transaction is both.
Known ==
    /\ mode = "up" => /\ \A t \in live \cup Reported : t < global_tx_id
                      /\ live \cap Reported = {}
    /\ mode = "down" => Reported = {}

\* The records on disk, in the writer's copy and in the buffer follow each other
\* without a gap; a log that was continued in another file takes no record.
Contig ==
    mode = "up" =>
       \/ global_tx_id >= MaxTx /\ wal_buffer = <<>> /\ writer.copy = <<>>
       \/ /\ file[0].state = "ok" => file[0].rec + Unwritten = FirstFree
          /\ file[0].state = "absent" \/ writer.pc \in {"truncate", "allocate", "head"} =>
                Len(writer.copy) = FirstFree

\* Entries the writer has put in the file are in their slots, and counted after the header.
Placed ==
    mode = "up" =>
       /\ writer.pc \in {"header", "fsync", "closedfile"} =>
             \A t \in Ids(writer.copy) : /\ file[0].slots[t].tx = t
                                         /\ t \in live => ~file[0].slots[t].done
       /\ writer.pc \in {"fsync", "closedfile"} =>
             file[0].state = "ok" /\ \A t \in Ids(writer.copy) : t < file[0].rec

\* What recovery would read from file 0.
Replayed(F) == {t \in Tx : F.state = "ok" /\ t < F.rec /\ F.slots[t].tx = t /\ ~F.slots[t].done}

\* Every unfinished transaction is somewhere.
Somewhere ==
    mode = "up" =>
        \A t \in live \ lost : t \in Ids(wal_buffer) \cup Ids(writer.copy) \cup Replayed(file[0])

\* When shutdown has returned, the buffer is empty and the writer has left its loop.
Closing ==
    /\ closer # "open" => \A c \in Clients : client[c] = "idle"
    /\ closer = "closed" => wal_buffer = <<>> /\ writer.pc = "exit"

RInv == Known /\ Contig /\ Placed /\ Somewhere /\ Closing

\* Recovery reads file 0 and nothing else.
LEMMA ReadIs == ASSUME OneFile, IInv, UInv PROVE ReadWal = Replayed(file[0])
<1>1. Facts /\ Slots \subseteq Nat /\ EntryInItsSlot
  BY TheFacts, OnePlace DEF Slots, IInv
<1>2. ASSUME NEW t \in ReadWal PROVE t \in Replayed(file[0])
  <2>1. PICK f \in Files, i \in Slots :
            t \in Tx /\ Committed(f, i) /\ file[f].slots[i].tx = t /\ ~file[f].slots[i].done
    BY <1>2 DEF ReadWal
  <2>2. t # NoTx
    BY <1>1, <2>1 DEF Tx, NoTx, Facts
  <2>3. f = 0 /\ i = t
    BY <1>1, <2>1, <2>2, OnePlace DEF EntryInItsSlot
  <2> QED
    BY <2>1, <2>3 DEF Replayed, Committed
<1>3. ASSUME NEW t \in Replayed(file[0]) PROVE t \in ReadWal
  <2>1. t \in Tx /\ t \in Slots /\ Committed(0, t) /\ file[0].slots[t].tx = t /\ ~file[0].slots[t].done
    BY <1>1, <1>3, OnePlace DEF Replayed, Committed
  <2> QED
    BY <1>1, <2>1 DEF ReadWal, Facts
<1> QED
  BY <1>2, <1>3

\* The ids of the writer's copy.
LEMMA CopyIds ==
    ASSUME Facts, UInv
    PROVE  \A t \in Ids(writer.copy) :
              t \in Tx /\ t \in Nat /\ writer.copy # <<>> /\ writer.copy[1].tx <= t /\ t < FirstFree
<1> DEFINE s == writer.copy
<1>1. ASSUME NEW t \in Ids(s)
      PROVE  t \in Tx /\ t \in Nat /\ s # <<>> /\ s[1].tx <= t /\ t < FirstFree
  <2>1. PICK k \in 1 .. Len(s) : t = s[k].tx
    BY <1>1 DEF Ids, Facts
  <2>2. /\ t \in Tx /\ t = s[1].tx + (k - 1) /\ s[1].tx \in Nat /\ Len(s) \in Nat
        /\ s # <<>> /\ s[1].tx + Len(s) = FirstFree
    <3>1. 1 \in 1 .. Len(s) /\ s # <<>>
      BY <2>1 DEF Facts
    <3> QED
      BY <2>1, <3>1 DEF Facts, Dense, UInv, CopyOK, Tx
  <2> QED
    BY <2>1, <2>2 DEF Tx
<1> QED
  BY <1>1

\* An empty sequence has no ids.
LEMMA EmptyIds == Ids(<<>>) = {}
BY DEF Ids

\* What is remembered can only shrink, except for what is no longer unfinished.
LEMMA KnownKeep ==
    ASSUME Known, mode = "up", mode' = "up", global_tx_id' = global_tx_id, live' \subseteq live,
           Reported' \subseteq Reported \cup (live \ live')
    PROVE  Known'
BY DEF Known

\* The steps that leave the files, the copy and the ids alone, and may shrink live.
LEMMA StillR ==
    ASSUME Facts, UInv, RInv, mode = "up",
           UNCHANGED <<mode, global_tx_id, wal_buffer, file, lost>>, live' \subseteq live,
           writer'.copy = writer.copy,
           \/ writer'.pc = writer.pc
           \/ writer'.pc \in {"wait", "exit", "check", "batch"} /\ writer.pc \in {"check", "copy", "batch"}
           \/ writer'.pc = "entries" /\ writer.pc = "batch"
           \/ writer'.pc = "truncate" /\ writer.pc = "batch" /\ file[0].state = "absent"
    PROVE  Contig' /\ Placed' /\ Somewhere'
<1>1. FirstFree' = FirstFree /\ Unwritten' = Unwritten
  BY DEF FirstFree, Unwritten
<1>2. Contig'
  BY <1>1 DEF RInv, Contig
<1>3. Placed'
  BY DEF RInv, Placed, Ids
<1>4. Somewhere'
  BY DEF RInv, Somewhere, Ids, Replayed
<1> QED
  BY <1>2, <1>3, <1>4

\* The ids of two sequences put together.
LEMMA JoinedIds ==
    ASSUME NEW b \in Seq(Rec), NEW r \in Seq(Rec)
    PROVE  Ids(b \o r) = Ids(b) \cup Ids(r)
<1> DEFINE s == b \o r
           n == Len(b)
           m == Len(r)
<1>1. /\ n \in Nat /\ m \in Nat /\ DOMAIN b = 1 .. n /\ DOMAIN r = 1 .. m
      /\ DOMAIN s = 1 .. n + m
      /\ \A k \in 1 .. n : s[k] = b[k]
      /\ \A k \in 1 .. m : s[n + k] = r[k]
  OBVIOUS
<1> HIDE DEF s, n, m
<1>2. ASSUME NEW k \in 1 .. n + m PROVE s[k].tx \in Ids(b) \cup Ids(r)
  <2>1. CASE k <= n
    <3>1. k \in 1 .. n
      BY <1>1, <2>1
    <3> QED
      BY <1>1, <3>1 DEF Ids
  <2>2. CASE ~(k <= n)
    <3>1. k - n \in 1 .. m /\ k = n + (k - n)
      BY <1>1, <2>2
    <3>2. s[k] = r[k - n]
      BY <1>1, <3>1
    <3> QED
      BY <1>1, <3>1, <3>2 DEF Ids
  <2> QED
    BY <2>1, <2>2
<1>3. \A k \in 1 .. n : k \in 1 .. n + m
  BY <1>1
<1>4. \A k \in 1 .. m : n + k \in 1 .. n + m
  BY <1>1
<1>5. Ids(b) \subseteq Ids(s) /\ Ids(r) \subseteq Ids(s)
  BY <1>1, <1>3, <1>4 DEF Ids
<1>6. Ids(s) \subseteq Ids(b) \cup Ids(r)
  BY <1>1, <1>2 DEF Ids
<1> QED
  BY <1>5, <1>6 DEF s

\* An append.
LEMMA AppendR ==
    ASSUME OneFile, IInv, UInv, RInv, NEW c \in Clients, NEW s \in Seq(Sizes), s # <<>>,
           AppendRecords(c, s)
    PROVE  RInv'
<1> DEFINE g == global_tx_id
           n == Len(s)
           r == Records(g, s)
           b == wal_buffer
<1>1. /\ Facts /\ mode = "up" /\ n \in Nat /\ n > 0 /\ g \in Nat /\ b \in Seq(Rec)
      /\ r \in Seq(Rec) /\ Len(r) = n /\ \A k \in 1 .. n : r[k].tx = g + (k - 1)
      /\ Reported \subseteq Nat /\ live \subseteq Tx
  <2>1. Facts /\ mode = "up" /\ g \in Nat /\ b \in Seq(Rec) /\ Reported \subseteq Nat /\ live \subseteq Tx
    BY TheFacts DEF AppendRecords, IInv, TypeOK, Reported, Remembered
  <2>2. n \in Nat /\ n > 0
    OBVIOUS
  <2> QED
    BY <2>1, <2>2, RecordsType
<1>2. /\ UNCHANGED <<ram_completed_tx, pending, writer, file, closer, mode, lost>>
      /\ global_tx_id' = g + n /\ g + n <= MaxTx
      /\ wal_buffer' = b \o r /\ live' = live \cup (g .. g + n - 1)
      /\ client[c] = "admitted" /\ client' = [client EXCEPT ![c] = "idle"]
  BY DEF AppendRecords
<1>3. FirstFree' = FirstFree /\ Unwritten' = Unwritten /\ Reported' = Reported
  BY <1>2, AppendFree DEF Unwritten, Reported
<1> HIDE DEF r
<1>4. Known'
  <2>1. ASSUME NEW t \in live' \cup Reported PROVE t < g + n
    <3>1. CASE t \in live \cup Reported
      <4>1. t < g /\ t \in Nat
        BY <1>1, <3>1 DEF RInv, Known, Tx
      <4> QED
        BY <1>1, <4>1
    <3>2. CASE t \in g .. g + n - 1
      BY <1>1, <3>2
    <3> QED
      BY <1>2, <2>1, <3>1, <3>2
  <2>2. ASSUME NEW t \in live', t \in Reported PROVE FALSE
    <3>1. t < g /\ t \in Nat /\ t \notin live
      BY <1>1, <2>2 DEF RInv, Known
    <3>2. t \notin g .. g + n - 1
      BY <1>1, <3>1
    <3> QED
      BY <1>2, <2>2, <3>1, <3>2
  <2> QED
    BY <1>1, <1>2, <1>3, <2>1, <2>2 DEF Known
<1>5. Contig'
  <2>1. ~(g >= MaxTx)
    BY <1>1, <1>2 DEF Facts
  <2> QED
    BY <1>1, <1>2, <1>3, <2>1 DEF RInv, Contig
<1>6. Placed'
  <2>1. ASSUME NEW t \in Ids(writer.copy) PROVE t \in live' => t \in live
    <3>1. t \in Nat /\ t < FirstFree
      BY <1>1, <2>1, CopyIds
    <3>2. t < g
      BY <1>1, <3>1 DEF FirstFree, Facts
    <3>3. t \notin g .. g + n - 1
      BY <1>1, <3>1, <3>2
    <3> QED
      BY <1>2, <3>3
  <2> QED
    BY <1>1, <1>2, <2>1 DEF RInv, Placed
<1>7. Ids(b \o r) = Ids(b) \cup (g .. g + n - 1)
  <2>1. Ids(b \o r) = Ids(b) \cup Ids(r)
    BY <1>1, JoinedIds
  <2>2. Ids(r) = {g + (k - 1) : k \in 1 .. n}
    <3>1. DOMAIN r = 1 .. n
      BY <1>1
    <3>2. \A k \in DOMAIN r : r[k].tx = g + (k - 1)
      BY <1>1, <3>1
    <3>3. Ids(r) = {g + (k - 1) : k \in DOMAIN r}
      BY <3>2 DEF Ids
    <3> QED
      BY <3>1, <3>3
  <2>3. ASSUME NEW t \in g .. g + n - 1 PROVE \E k \in 1 .. n : t = g + (k - 1)
    <3>1. t - g + 1 \in 1 .. n /\ t = g + ((t - g + 1) - 1)
      BY <1>1, <2>3
    <3> QED
      BY <3>1
  <2>4. \A k \in 1 .. n : g + (k - 1) \in g .. g + n - 1
    BY <1>1
  <2>5. Ids(r) = g .. g + n - 1
    BY <2>2, <2>3, <2>4
  <2> QED
    BY <2>1, <2>5
<1>8. Somewhere'
  <2>1. Ids(wal_buffer') = Ids(b) \cup (g .. g + n - 1)
    BY <1>2, <1>7
  <2> QED
    BY <1>1, <1>2, <2>1 DEF RInv, Somewhere
<1>9. Closing'
  <2>1. closer = "open"
    BY <1>2 DEF RInv, Closing
  <2> QED
    BY <1>2, <2>1 DEF Closing
<1> QED
  BY <1>4, <1>5, <1>6, <1>8, <1>9 DEF RInv

\* The steps of the threads outside the log, and of the closing thread.
LEMMA OutsideR ==
    ASSUME OneFile, IInv, UInv, RInv,
           \/ \E c \in Clients : PassBackpressure(c)
           \/ \E m \in Markers, T \in SUBSET live : MarkInRam(m, T)
           \/ StartShutdown \/ ForceFlush
    PROVE  RInv'
<1>1. Facts /\ pending \in [Markers -> SUBSET Nat] /\ live \subseteq Nat
  BY TheFacts DEF IInv, TypeOK
<1>2. /\ UNCHANGED <<mode, global_tx_id, wal_buffer, file, lost, writer>> /\ live' \subseteq live
      /\ mode = "up"
  BY DEF PassBackpressure, MarkInRam, StartShutdown, ForceFlush, hist
<1>3. Contig' /\ Placed' /\ Somewhere'
  BY <1>1, <1>2, StillR
<1>4. Reported' \subseteq Reported \cup (live \ live')
  <2>1. CASE UNCHANGED <<ram_completed_tx, writer, pending>>
    BY <2>1 DEF Reported
  <2>2. ASSUME NEW m \in Markers, NEW T \in SUBSET live, MarkInRam(m, T)
        PROVE  Reported' \subseteq Reported \cup (live \ live')
    <3>1. /\ ram_completed_tx' = ram_completed_tx \cup T /\ writer' = writer /\ live' = live \ T
          /\ \A k \in Markers : pending'[k] \subseteq pending[k] \cup T
      BY <1>1, <2>2 DEF MarkInRam
    <3> QED
      BY <3>1 DEF Reported
  <2> QED
    BY <2>1, <2>2 DEF PassBackpressure, StartShutdown, ForceFlush
<1>5. Known'
  BY <1>2, <1>4, KnownKeep DEF RInv
<1>6. Closing'
  <2>1. client \in [Clients -> {"idle", "admitted"}]
    BY DEF IInv, TypeOK
  <2> QED
    BY <1>2, <2>1 DEF RInv, Closing, PassBackpressure, MarkInRam, StartShutdown, ForceFlush
<1> QED
  BY <1>3, <1>5, <1>6 DEF RInv

\* The writer turns to the next batch, or waits again.
LEMMA WriterTurnsR ==
    ASSUME OneFile, IInv, UInv, RInv, WriterCheck \/ WriterCopyCompleted \/ WriterNextBatch
    PROVE  RInv'
<1>1. Facts /\ writer \in WriterType
  BY TheFacts DEF Facts
<1>2. /\ UNCHANGED <<global_tx_id, wal_buffer, file, mode, lost, live, pending, client, closer>>
      /\ mode = "up" /\ writer.pc # "exit"
  BY DEF WriterCheck, WriterCopyCompleted, WriterNextBatch, hist
<1>3. /\ writer'.copy = writer.copy
      /\ \/ writer'.pc \in {"wait", "exit", "check", "batch"} /\ writer.pc \in {"check", "copy", "batch"}
         \/ writer'.pc = "entries" /\ writer.pc = "batch"
         \/ writer'.pc = "truncate" /\ writer.pc = "batch" /\ file[0].state = "absent"
  BY WriterTurns
<1>4. Contig' /\ Placed' /\ Somewhere'
  BY <1>1, <1>2, <1>3, StillR
<1>5. Reported' \subseteq Reported
  <2>1. CASE WriterCopyCompleted
    <3>1. writer'.done = ram_completed_tx /\ ram_completed_tx' = {}
      BY <1>1, <2>1 DEF WriterCopyCompleted, WriterType
    <3> QED
      BY <1>2, <3>1 DEF Reported
  <2>2. CASE WriterCheck \/ WriterNextBatch
    <3>1. writer'.done \subseteq writer.done /\ ram_completed_tx' = ram_completed_tx
      BY <1>1, <2>2 DEF WriterCheck, WriterNextBatch, Goto, WriterType, IdleWriter
    <3> QED
      BY <1>2, <3>1 DEF Reported
  <2> QED
    BY <2>1, <2>2
<1>6. Known'
  BY <1>2, <1>5, KnownKeep DEF RInv
<1>7. Closing'
  BY <1>2 DEF RInv, Closing
<1> QED
  BY <1>4, <1>6, <1>7 DEF RInv

\* The writer takes the buffer.
LEMMA SwapR == ASSUME OneFile, IInv, UInv, RInv, WriterSwap PROVE RInv'
<1>1. /\ Facts /\ writer.copy = <<>> /\ writer.pc = "wait"
  BY TheFacts DEF UInv, CopyOK, WriterSwap
<1>2. /\ UNCHANGED <<global_tx_id, file, mode, lost, live, pending, ram_completed_tx, client, closer>>
      /\ mode = "up" /\ wal_buffer' = <<>> /\ writer'.done = {}
      /\ writer'.copy = wal_buffer /\ writer'.pc \in {"check", "copy"}
  BY DEF WriterSwap, IdleWriter, hist
<1>3. /\ FirstFree' = global_tx_id /\ Unwritten' = Len(wal_buffer) /\ Unwritten = 0
      /\ FirstFree = global_tx_id - Len(wal_buffer)
  BY <1>1, <1>2 DEF FirstFree, Unwritten, Facts
<1>4. Reported' \subseteq Reported
  BY <1>2 DEF Reported
<1>5. Known'
  BY <1>2, <1>4, KnownKeep DEF RInv
<1>6. Contig'
  <2>1. CASE global_tx_id >= MaxTx /\ wal_buffer = <<>>
    BY <1>2, <2>1 DEF Contig
  <2>2. CASE /\ file[0].state = "ok" => file[0].rec + Unwritten = FirstFree
             /\ file[0].state = "absent" => Len(writer.copy) = FirstFree
    <3>1. Len(writer.copy) = 0
      BY <1>1
    <3>2. file[0].state = "ok" => file[0].rec + Len(wal_buffer) = global_tx_id
      BY <1>1, <1>3, <2>2 DEF Facts
    <3>3. file[0].state = "absent" => Len(wal_buffer) = global_tx_id
      BY <1>1, <1>3, <2>2, <3>1 DEF Facts
    <3> QED
      BY <1>2, <1>3, <3>2, <3>3 DEF Contig
  <2> QED
    BY <1>2, <2>1, <2>2 DEF RInv, Contig
<1>7. Placed'
  BY <1>2 DEF Placed
<1>8. Somewhere'
  BY <1>1, <1>2, EmptyIds DEF RInv, Somewhere, Replayed
<1>9. Closing'
  BY <1>1, <1>2 DEF RInv, Closing
<1> QED
  BY <1>5, <1>6, <1>7, <1>8, <1>9 DEF RInv

\* The writer creates the file: recovery read nothing from it.
LEMMA PreallocateR == ASSUME OneFile, IInv, UInv, RInv, WriterPreallocate PROVE RInv'
<1>1. /\ Facts /\ writer.copy # <<>> /\ mode = "up"
      /\ UNCHANGED <<global_tx_id, wal_buffer, mode, lost, live, pending, ram_completed_tx, client, closer>>
  BY TheFacts DEF IInv, WriterHasBatch, WriterPreallocate, hist
<1>2. /\ file[0].state # "ok"
      /\ writer'.copy = writer.copy /\ writer'.done = writer.done
      /\ writer.pc \in {"truncate", "allocate", "head"}
      /\ \/ writer'.pc \in {"allocate", "head"} /\ file'[0].state # "ok"
         \/ writer'.pc = "entries" /\ file'[0].state = "ok" /\ file'[0].rec = 0
  <2>1. writer'.done = writer.done
    BY <1>1 DEF WriterPreallocate, Goto, Facts, WriterType
  <2> QED
    BY <2>1, PreallocateU, PreallocateEffect
<1>3. Len(writer.copy) = FirstFree
  BY <1>1, <1>2 DEF RInv, Contig
<1>4. FirstFree' = FirstFree /\ Unwritten' = Len(writer.copy)
  BY <1>1, <1>2 DEF FirstFree, Unwritten
<1>5. Known'
  <2>1. Reported' \subseteq Reported
    BY <1>1, <1>2 DEF Reported
  <2> QED
    BY <1>1, <2>1, KnownKeep DEF RInv
<1>6. Contig'
  <2>1. file'[0].state = "ok" => file'[0].rec + Len(writer.copy) = FirstFree
    <3>1. \A n \in Nat : 0 + n = n
      OBVIOUS
    <3> QED
      BY <1>1, <1>2, <1>3, <3>1 DEF Facts
  <2> QED
    BY <1>2, <1>3, <1>4, <2>1 DEF Contig
<1>7. Placed'
  BY <1>2 DEF Placed
<1>8. Replayed(file[0]) = {}
  BY <1>2 DEF Replayed
<1>9. Somewhere'
  BY <1>1, <1>2, <1>8 DEF RInv, Somewhere
<1>10. Closing'
  BY <1>1, <1>2 DEF RInv, Closing
<1> QED
  BY <1>5, <1>6, <1>7, <1>9, <1>10 DEF RInv

\* The preallocation threads leave file 0 alone.
LEMMA PreallocAsyncR ==
    ASSUME OneFile, IInv, UInv, RInv, NEW f \in Files, PreallocAsync(f)
    PROVE  RInv'
<1>1. /\ file'[0] = file[0] /\ mode = "up"
      /\ UNCHANGED <<global_tx_id, wal_buffer, ram_completed_tx, client, pending, writer,
                     closer, mode, live, lost>>
  BY PreallocAsyncU DEF PreallocAsync, hist
<1>2. FirstFree' = FirstFree /\ Unwritten' = Unwritten /\ Reported' = Reported
  BY <1>1 DEF FirstFree, Unwritten, Reported
<1> QED
  BY <1>1, <1>2 DEF RInv, Known, Contig, Placed, Somewhere, Closing

\* The writer puts the entries of a batch in their slots.
LEMMA EntriesR == ASSUME OneFile, IInv, UInv, RInv, Fits, WriterEntries PROVE RInv'
<1> DEFINE s == writer.copy
           a == s[1].tx
           n == Len(s)
<1>1. /\ Facts /\ mode = "up" /\ writer.pc = "entries" /\ s # <<>> /\ file[0].state # "absent"
      /\ UNCHANGED <<global_tx_id, wal_buffer, mode, live, pending, ram_completed_tx, client, closer>>
  BY TheFacts, EntriesEffect DEF WriterEntries, UInv, FilesOK
<1>2. CASE /\ file' = file /\ writer' = IdleWriter /\ lost' = lost \cup Ids(s)
           /\ file[0].state # "ok" \/ file[0].used + BatchBytes > PayloadArea
  <2>1. file[0].state # "ok" /\ lost' = lost \cup Ids(s)
    <3>1. BatchFile = 0
      BY <1>1, OneBatch DEF Facts
    <3>2. ~(file[0].used + BatchBytes > PayloadArea)
      BY <1>1, <3>1, WALAssumption DEF Fits
    <3> QED
      BY <1>2, <3>2, Zenon
  <2>2. writer'.pc = "check" /\ writer'.copy = <<>> /\ writer'.done = {}
    BY <1>2 DEF IdleWriter
  <2>3. Known'
    <3>1. Reported' \subseteq Reported
      BY <1>1, <2>2 DEF Reported
    <3> QED
      BY <1>1, <3>1, KnownKeep DEF RInv
  <2>4. Contig' /\ Placed'
    BY <1>1, <1>2, <2>1, <2>2 DEF Contig, Placed
  <2>5. Somewhere'
    BY <1>1, <1>2, <2>1, <2>2 DEF RInv, Somewhere
  <2>6. Closing'
    BY <1>1, <2>2 DEF RInv, Closing
  <2> QED
    BY <2>3, <2>4, <2>5, <2>6 DEF RInv
<1>3. CASE /\ file[0].state = "ok"
           /\ writer'.pc = "header" /\ writer'.copy = writer.copy /\ writer'.done = writer.done
           /\ file'[0].state = "ok" /\ file'[0].rec = file[0].rec
           /\ \A i \in Slots :
                 LET k == i - writer.copy[1].tx + 1 IN
                 file'[0].slots[i] =
                    IF k \in DOMAIN writer.copy
                    THEN [tx |-> writer.copy[k].tx, done |-> writer.copy[k].tx \in writer.done]
                    ELSE file[0].slots[i]
  <2>1. lost' = lost
    <3>1. writer' # IdleWriter
      BY <1>3 DEF IdleWriter
    <3> QED
      BY <3>1 DEF WriterEntries, Abandon
  <2>2. Known'
    <3>1. Reported' \subseteq Reported
      BY <1>1, <1>3 DEF Reported
    <3> QED
      BY <1>1, <3>1, KnownKeep DEF RInv
  <2>3. FirstFree' = FirstFree /\ Unwritten' = Unwritten
    BY <1>1, <1>3 DEF FirstFree, Unwritten
  <2>4. Contig'
    BY <1>1, <1>3, <2>3 DEF RInv, Contig
  <2>5. ASSUME NEW t \in Ids(s)
        PROVE  file'[0].slots[t].tx = t /\ (file'[0].slots[t].done => t \in writer.done)
    <3>1. PICK k \in 1 .. n : t = s[k].tx
      BY <1>1, <2>5 DEF Ids, Facts
    <3>2. t \in Slots /\ t = a + (k - 1) /\ a \in Nat /\ k \in DOMAIN s /\ k \in Nat
      <4>1. 1 \in 1 .. n /\ DOMAIN s = 1 .. n /\ k \in Nat /\ k \in DOMAIN s
        BY <1>1, <3>1 DEF Facts
      <4>2. s[k].tx \in Tx /\ s[k].tx = a + (k - 1) /\ a \in Tx
        BY <1>1, <3>1, <4>1 DEF Facts, Dense
      <4>3. a \in Nat /\ t \in Slots
        BY <3>1, <4>2, OnePlace DEF Tx
      <4> QED
        BY <3>1, <4>1, <4>2, <4>3
    <3> HIDE DEF a, s
    <3>3. t - a + 1 = k
      BY <3>2
    <3>4. file'[0].slots[t] = [tx |-> s[k].tx, done |-> s[k].tx \in writer.done]
      BY <1>3, <3>2, <3>3 DEF a, s
    <3>5. [tx |-> s[k].tx, done |-> s[k].tx \in writer.done].done => s[k].tx \in writer.done
      OBVIOUS
    <3>6. [tx |-> s[k].tx, done |-> s[k].tx \in writer.done].tx = s[k].tx
      OBVIOUS
    <3> QED
      BY <3>1, <3>4, <3>5, <3>6, Zenon
  <2>6. Placed'
    <3>1. \A t \in live : t \notin writer.done
      <4>1. live \subseteq Nat
        BY DEF IInv, TypeOK
      <4> QED
        BY <1>1, <4>1 DEF RInv, Known, Reported
    <3>2. \A t \in Ids(writer'.copy) : /\ file'[0].slots[t].tx = t
                                       /\ t \in live' => ~file'[0].slots[t].done
      BY <1>1, <1>3, <2>5, <3>1
    <3> QED
      BY <1>3, <3>2 DEF Placed
  <2>7. ASSUME NEW t \in Replayed(file[0]) PROVE t \in Replayed(file'[0])
    <3>1. t \in Tx /\ t \in Slots /\ t \in Nat /\ t < file[0].rec
      BY <2>7, OnePlace DEF Replayed, Tx
    <3>2. a + n = FirstFree /\ file[0].rec + n <= FirstFree /\ a \in Nat /\ DOMAIN s = 1 .. n
      BY <1>1, OneBatch DEF UInv, CopyOK, RecBelow, Unwritten, Facts, Tx
    <3>3. n \in Nat /\ file[0].rec \in Nat
      BY <1>1 DEF Facts
    <3> HIDE DEF a, n
    <3>4. t < a
      BY <3>1, <3>2, <3>3
    <3>5. t - a + 1 \notin 1 .. n
      BY <3>1, <3>2, <3>3, <3>4
    <3>6. file'[0].slots[t] = file[0].slots[t]
      BY <1>3, <3>1, <3>2, <3>5 DEF a
    <3> QED
      BY <1>3, <2>7, <3>6 DEF Replayed
  <2>8. Somewhere'
    BY <1>1, <1>3, <2>1, <2>7 DEF RInv, Somewhere
  <2>9. Closing'
    BY <1>1, <1>3 DEF RInv, Closing
  <2> QED
    BY <2>2, <2>4, <2>6, <2>8, <2>9 DEF RInv
<1> QED
  BY <1>2, <1>3, EntriesEffect

\* The writer counts the entries of its batch: now recovery reads them.
LEMMA HeaderR == ASSUME OneFile, IInv, UInv, RInv, WriterHeader PROVE RInv'
<1> DEFINE s == writer.copy
           n == Len(s)
           r == file[0].rec
<1>1. /\ Facts /\ mode = "up" /\ writer.pc = "header" /\ writer'.pc = "fsync" /\ s # <<>>
      /\ UNCHANGED <<global_tx_id, wal_buffer, mode, live, pending, ram_completed_tx, client,
                     closer, lost>>
      /\ writer'.copy = writer.copy /\ writer'.done = writer.done
      /\ file[0].state = "ok" /\ file'[0].state = "ok" /\ file'[0].slots = file[0].slots
      /\ file'[0].rec = r + n
  BY TheFacts, HeaderEffect DEF WriterHeader, hist
<1>2. FirstFree' = FirstFree /\ Unwritten' = 0 /\ Unwritten = n
  BY <1>1 DEF FirstFree, Unwritten
<1>3. r + n = FirstFree
  BY <1>1, <1>2 DEF RInv, Contig
<1>4. Known'
  <2>1. Reported' \subseteq Reported
    BY <1>1 DEF Reported
  <2> QED
    BY <1>1, <2>1, KnownKeep DEF RInv
<1>5. Contig'
  <2>1. \A k \in Int : k + 0 = k
    OBVIOUS
  <2>2. file'[0].rec + Unwritten' = FirstFree'
    BY <1>1, <1>2, <1>3, <2>1 DEF Facts
  <2> QED
    BY <1>1, <2>2 DEF Contig
<1>6. \A t \in Ids(s) : /\ file'[0].slots[t].tx = t /\ t \in Tx
                        /\ t \in live => ~file'[0].slots[t].done
                        /\ t < file'[0].rec
  BY <1>1, <1>3, CopyIds DEF RInv, Placed
<1>7. Placed'
  BY <1>1, <1>6 DEF Placed
<1>8. \A t \in Replayed(file[0]) : t \in Replayed(file'[0])
  <2>1. \A t \in Tx : t < r => t < r + n
    BY <1>1 DEF Facts, Tx
  <2> QED
    BY <1>1, <2>1 DEF Replayed
<1>9. Somewhere'
  BY <1>1, <1>8 DEF RInv, Somewhere
<1>10. Closing'
  BY <1>1 DEF RInv, Closing
<1> QED
  BY <1>4, <1>5, <1>7, <1>9, <1>10 DEF RInv

\* The writer is done with a batch: its ids are in the file, and counted.
LEMMA FsyncR == ASSUME OneFile, IInv, UInv, RInv, WriterFsync PROVE RInv'
<1>1. /\ Facts /\ mode = "up" /\ writer.pc \in {"fsync", "closedfile"} /\ writer.copy # <<>>
      /\ UNCHANGED <<global_tx_id, wal_buffer, file, mode, live, pending, ram_completed_tx,
                     client, closer>>
      /\ writer'.copy = <<>> /\ writer'.pc \in {"check", "batch"}
  BY TheFacts, BatchEnds DEF WriterFsync, IInv, WriterHasBatch
<1>2. lost' = lost
  <2>1. Rest = <<>>
    BY <1>1, OneBatch DEF Facts
  <2> HIDE DEF Rest
  <2>2. Ids(Rest) = {}
    BY <2>1, EmptyIds
  <2> QED
    BY <2>2 DEF WriterFsync, Abandon
<1>3. writer'.done \subseteq writer.done
  <2>1. IdleWriter.done = {}
    BY DEF IdleWriter
  <2>2. writer' = IdleWriter \/ writer' = [writer EXCEPT !.pc = "batch", !.copy = Rest]
    BY DEF WriterFsync, Abandon
  <2>3. writer \in WriterType
    BY <1>1 DEF Facts
  <2>4. \A X : [writer EXCEPT !.pc = "batch", !.copy = X].done = writer.done
    BY <2>3 DEF WriterType
  <2> HIDE DEF Rest, IdleWriter
  <2>5. CASE writer' = IdleWriter
    BY <2>1, <2>5
  <2>6. CASE writer' = [writer EXCEPT !.pc = "batch", !.copy = Rest]
    BY <2>4, <2>6
  <2> QED
    BY <2>2, <2>5, <2>6
<1>4. FirstFree' = FirstFree /\ Unwritten' = 0 /\ Unwritten = 0
  BY <1>1 DEF FirstFree, Unwritten
<1>5. Known'
  <2>1. Reported' \subseteq Reported
    BY <1>1, <1>3 DEF Reported
  <2> QED
    BY <1>1, <2>1, KnownKeep DEF RInv
<1>6. file[0].state = "ok"
  BY <1>1 DEF RInv, Placed
<1>7. Contig'
  BY <1>1, <1>4, <1>6 DEF RInv, Contig
<1>8. Placed'
  BY <1>1 DEF Placed
<1>9. \A t \in live : t \in Ids(writer.copy) => t \in Replayed(file[0])
  BY <1>1, <1>6, CopyIds DEF RInv, Placed, Replayed
<1>10. Somewhere'
  BY <1>1, <1>2, <1>9, EmptyIds DEF RInv, Somewhere
<1>11. Closing'
  BY <1>1 DEF RInv, Closing
<1> QED
  BY <1>5, <1>7, <1>8, <1>10, <1>11 DEF RInv

\* A marker sets flags of completed transactions, which are not unfinished.
LEMMA FlagsR ==
    ASSUME OneFile, IInv, UInv, RInv, NEW m \in Markers, NEW f \in Files, MarkOnDisk(m, f)
    PROVE  RInv'
<1>1. /\ Facts /\ mode = "up"
      /\ UNCHANGED <<global_tx_id, wal_buffer, mode, live, ram_completed_tx, client, closer, lost>>
      /\ writer'.copy = writer.copy /\ writer'.done = writer.done
      /\ \/ writer' = writer
         \/ writer.pc = "fsync" /\ writer'.pc = "closedfile"
      /\ \A k \in Markers : pending'[k] \subseteq pending[k]
  BY TheFacts, FlagsEffect DEF MarkOnDisk, hist
<1>2. \/ file' = file
      \/ /\ file'[0].rec = file[0].rec
         /\ file'[0].state = IF file[0].state = "empty" THEN "zeroed" ELSE file[0].state
         /\ \A i \in Slots :
               /\ file'[0].slots[i].tx = file[0].slots[i].tx
               /\ file[0].slots[i].done => file'[0].slots[i].done
               /\ file'[0].slots[i].done => file[0].slots[i].done \/ i \in pending[m]
  BY FlagsEffect
<1>3. FirstFree' = FirstFree /\ Unwritten' = Unwritten
  BY <1>1 DEF FirstFree, Unwritten
<1>4. Known'
  <2>1. Reported' \subseteq Reported
    BY <1>1 DEF Reported
  <2> QED
    BY <1>1, <2>1, KnownKeep DEF RInv
<1>5. /\ file'[0].rec = file[0].rec
      /\ file'[0].state = "ok" <=> file[0].state = "ok"
      /\ file'[0].state = "absent" <=> file[0].state = "absent"
  BY <1>2
<1>6. Contig'
  <2>1. writer'.pc \in {"truncate", "allocate", "head"} => writer.pc \in {"truncate", "allocate", "head"}
    BY <1>1
  <2> QED
    BY <1>1, <1>3, <1>5, <2>1 DEF RInv, Contig
<1>7. \A t \in live : t \notin pending[m]
  <2>1. live \subseteq Nat
    BY DEF IInv, TypeOK
  <2> QED
    BY <1>1, <2>1 DEF RInv, Known, Reported
<1>8. ASSUME NEW t \in Slots
      PROVE  /\ file'[0].slots[t].tx = file[0].slots[t].tx
             /\ t \in live /\ ~file[0].slots[t].done => ~file'[0].slots[t].done
  BY <1>2, <1>7, Zenon
<1>9. Placed'
  <2>1. \A t \in Ids(writer.copy) : t \in Slots
    BY <1>1, CopyIds, OnePlace
  <2>2. writer'.pc \in {"header", "fsync", "closedfile"} =>
           writer.pc \in {"header", "fsync", "closedfile"}
    BY <1>1
  <2>3. writer'.pc \in {"fsync", "closedfile"} => writer.pc \in {"fsync", "closedfile"}
    BY <1>1
  <2> QED
    BY <1>1, <1>5, <1>8, <2>1, <2>2, <2>3 DEF RInv, Placed
<1>10. \A t \in live : t \in Replayed(file[0]) => t \in Replayed(file'[0])
  BY <1>5, <1>8, OnePlace DEF Replayed
<1>11. Somewhere'
  BY <1>1, <1>10 DEF RInv, Somewhere
<1>12. Closing'
  BY <1>1 DEF RInv, Closing
<1> QED
  BY <1>4, <1>6, <1>9, <1>11, <1>12 DEF RInv

\* A process that stops forgets its memory.
LEMMA StopR == ASSUME OneFile, IInv, UInv, RInv, Stop PROVE RInv'
<1>1. /\ mode' = "down" /\ closer' = "open" /\ ram_completed_tx' = {}
      /\ writer'.done = {} /\ \A m \in Markers : pending'[m] = {}
  BY DEF Stop, IdleWriter
<1> QED
  BY <1>1 DEF RInv, Known, Reported, Contig, Placed, Somewhere, Closing

\* A process that starts knows what recovery reads.
LEMMA RestartR == ASSUME OneFile, IInv, UInv, RInv, Restart PROVE RInv'
<1>1. /\ Facts /\ wal_buffer = <<>> /\ writer = IdleWriter /\ mode = "down" /\ mode' # "down"
      /\ UNCHANGED <<wal_buffer, ram_completed_tx, client, pending, writer, file, closer, lost>>
      /\ mode' = "up" => live' = ReadWal
  BY TheFacts DEF Restart, IInv, StoppedIsEmpty, UInv, CopyOK
<1>2. /\ writer'.copy = <<>> /\ writer'.pc = "check"
      /\ Unwritten' = 0 /\ Len(writer'.copy) = 0 /\ Reported' = {} /\ FirstFree' = global_tx_id'
  <2>1. writer'.copy = <<>> /\ writer'.pc = "check"
    BY <1>1 DEF IdleWriter
  <2>2. Unwritten' = 0 /\ Len(writer'.copy) = 0
    BY <2>1 DEF Unwritten
  <2>3. Reported' = Reported /\ Reported = {}
    BY <1>1 DEF Reported, RInv, Known
  <2> QED
    BY <2>1, <2>2, <2>3, RestartIds
<1>3. ReadWal = Replayed(file[0])
  BY ReadIs
<1>4. ASSUME mode' = "up" PROVE \A t \in live' : t < global_tx_id'
  <2>1. \A t \in live' : t \in Nat /\ t < file[0].rec
    BY <1>1, <1>3, <1>4, OnePlace DEF Replayed, Tx
  <2>2. file[0].rec <= global_tx_id' /\ global_tx_id' \in Nat
    BY <1>4, RestartIds
  <2> QED
    BY <1>1, <2>1, <2>2 DEF Facts
<1>5. Known'
  BY <1>1, <1>2, <1>4 DEF Known
<1>6. Contig'
  <2>1. ASSUME mode' = "up"
        PROVE  \/ global_tx_id' >= MaxTx
               \/ /\ file[0].state = "ok" => file[0].rec = global_tx_id'
                  /\ file[0].state = "absent" => global_tx_id' = 0
    BY <2>1, RestartIds
  <2> QED
    BY <1>1, <1>2, <2>1 DEF Contig, Facts
<1>7. Placed'
  BY <1>2 DEF Placed
<1>8. Somewhere'
  BY <1>1, <1>3 DEF Somewhere
<1>9. Closing'
  <2>1. closer # "closed"
    BY <1>1 DEF RInv, Closing, IdleWriter
  <2> QED
    BY <1>1, <2>1 DEF RInv, Closing
<1> QED
  BY <1>5, <1>6, <1>7, <1>8, <1>9 DEF RInv

\* Every step keeps it, when nothing fails and the batches fit.
LEMMA RStep ==
    OneFile /\ MaxFaults = 0 /\ IInv /\ UInv /\ RInv /\ Fits /\ [Next]_vars => RInv'
<1> SUFFICES ASSUME OneFile, MaxFaults = 0, IInv, UInv, RInv, Fits, [Next]_vars PROVE RInv'
  OBVIOUS
<1>1. CASE WriterIOError
  <2>1. faults \in Nat /\ faults < 0
    BY <1>1 DEF WriterIOError, IInv, TypeOK
  <2> QED
    BY <2>1
<1>2. CASE UNCHANGED vars
  <2>1. FirstFree' = FirstFree /\ Unwritten' = Unwritten /\ Reported' = Reported
    BY <1>2 DEF vars, FirstFree, Unwritten, Reported
  <2> QED
    BY <1>2, <2>1 DEF vars, hist, RInv, Known, Contig, Placed, Somewhere, Closing
<1>3. CASE Crash \/ Exit
  BY <1>3, StopR DEF Crash, Exit
<1>4. CASE (\E f \in Files : PreallocAsync(f)) \/ Restart
  BY <1>4, PreallocAsyncR, RestartR
<1>5. CASE Writer
  BY <1>5, WriterTurnsR, SwapR, PreallocateR, EntriesR, HeaderR, FsyncR DEF Writer
<1>6. CASE StartShutdown \/ ForceFlush
  BY <1>6, OutsideR
<1>7. ASSUME NEW c \in Clients, Client(c) PROVE RInv'
  BY <1>7, OutsideR, AppendR, SizeListType, SizeOneType
  DEF Client, AppendToBuffer, AppendManyToBuffer
<1>8. ASSUME NEW m \in Markers, Marker(m) PROVE RInv'
  <2>1. CASE MarkManyJobsComplete(m)
    BY <2>1, OutsideR DEF MarkManyJobsComplete
  <2>2. CASE MarkJobComplete(m)
    BY <2>2, OutsideR DEF MarkJobComplete
  <2> QED
    BY <1>8, <2>1, <2>2, FlagsR DEF Marker
<1> QED
  BY <1>1, <1>2, <1>3, <1>4, <1>5, <1>6, <1>7, <1>8 DEF Next

\* It holds of an empty directory.
LEMMA RInit == OneFile /\ Init => RInv
<1> SUFFICES ASSUME OneFile, Init PROVE RInv
  OBVIOUS
<1>1. /\ writer.pc = "check" /\ writer.copy = <<>> /\ writer.done = {} /\ file[0].state = "absent"
      /\ global_tx_id = 0 /\ wal_buffer = <<>> /\ live = {} /\ closer = "open"
      /\ ram_completed_tx = {} /\ \A m \in Markers : pending[m] = {}
  BY OnePlace DEF Init, IdleWriter, AbsentFile
<1>2. Reported = {} /\ Len(writer.copy) = 0
  BY <1>1 DEF Reported
<1>3. FirstFree = 0
  <2>1. Len(wal_buffer) = 0 /\ 0 - 0 = 0
    BY <1>1
  <2> QED
    BY <1>1, <2>1, Zenon DEF FirstFree
<1> QED
  BY <1>1, <1>2, <1>3 DEF RInv, Known, Contig, Placed, Somewhere, Closing

\* The invariant behind the two results below.
LEMMA OneInductive == OneFile /\ MaxFaults = 0 /\ Spec /\ []Fits => [](IInv /\ UInv /\ RInv)
<1>1. OneFile /\ MaxFaults = 0 => (OneFile /\ MaxFaults = 0)'
  BY DEF OneFile
<1> QED
  BY Inductive, UInit, UStep, RInit, RStep, <1>1, PTL DEF Spec

\* No transaction is forgotten before a marker reports it: it is in the buffer, in the
\* writer's copy, or read_wal yields it, in a log of one file without I/O errors and
\* with room for its payloads, whatever appenders, markers, crashes and restarts do.
THEOREM NothingForgotten == OneFile /\ MaxFaults = 0 /\ Spec /\ []Fits => []Retained
<1>1. OneFile /\ IInv /\ UInv /\ RInv => Retained
  BY ReadIs DEF RInv, Somewhere, Retained
<1>2. OneFile => (OneFile')
  BY DEF OneFile
<1> QED
  BY OneInductive, <1>1, <1>2, PTL

\* When shutdown returns without the deadlock of force_flush, the disk has everything
\* that was not completed, under the same conditions.
THEOREM ShutdownKeepsAll == OneFile /\ MaxFaults = 0 /\ Spec /\ []Fits => []ClosedIsFlushed
<1>1. OneFile /\ IInv /\ UInv /\ RInv => ClosedIsFlushed
  <2> SUFFICES ASSUME OneFile, IInv, UInv, RInv, mode = "up", closer = "closed"
               PROVE  live \ lost \subseteq ReadWal
    BY DEF ClosedIsFlushed
  <2>1. wal_buffer = <<>> /\ writer.copy = <<>>
    BY DEF RInv, Closing, UInv, CopyOK
  <2> QED
    BY <2>1, ReadIs, EmptyIds DEF RInv, Somewhere
<1>2. OneFile => (OneFile')
  BY DEF OneFile
<1> QED
  BY OneInductive, <1>1, <1>2, PTL
=============================================================================
