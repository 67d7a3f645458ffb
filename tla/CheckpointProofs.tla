--------------------------- MODULE CheckpointProofs ---------------------------
(***************************************************************************)
(* The checkpoint unlinks a file only when all of it is complete and       *)
(* archived, and overwrites no archive, for every file capacity and number *)
(* of files, failed copies and crashes, without a lock between the check,  *)
(* the copy, the unlink and the steps of the writer and the markers.       *)
(***************************************************************************)
EXTENDS Checkpoint, Extremes, FiniteSetTheorems

\* The batch under way lies in one file, the cached handle is not ahead of the writer, and
\* no file has more records than the writer has put in it.
InPlace ==
    /\ writer.n > 0 => next + writer.n <= MaxTx /\ FileOf(next + writer.n - 1) = FileOf(next)
    /\ handle # NoFile => handle <= FileOf(next)
    /\ \A f \in Files : f > FileOf(next) => dir[f].rec = 0
    /\ \A f \in Files : f = FileOf(next) => dir[f].rec <= SlotOf(next)
    /\ handle = FileOf(next) => orphan.rec <= SlotOf(next)

\* A name leads to a file or to nothing; when the cached handle has lost its name, the
\* name leads to nothing or to a new file nobody has written to.
NamesOK ==
    /\ \A f \in Files : dir[f].state = "ok" \/ dir[f] = Absent
    /\ orphan # Absent => handle \in Files /\ dir[handle] \in {Absent, Blank}

\* All of the first n entries of F are complete.
DoneUpTo(F, n) == F.rec >= n /\ \A i \in 0 .. n - 1 : F.slot[i] = "done"

\* What the checkpoint thread has established at each step.
CheckedOK ==
    /\ ckpt.todo \subseteq Existing
    /\ ckpt.pc = "idle" => ckpt.todo = {}
    /\ ckpt.todo # {} => \E g \in Existing : \A f \in ckpt.todo : f < g
    /\ ckpt.pc \in {"entries", "archive", "copy", "unlink"} =>
          ckpt.todo # {} /\ dir[Current].rec >= ckpt.rec
    /\ ckpt.pc \in {"archive", "copy", "unlink"} => DoneUpTo(dir[Current], ckpt.rec)
    /\ ckpt.pc = "copy" => archive[Current].state = "partial"
    /\ ckpt.pc = "unlink" => archive[Current].state = "ok" /\ DoneUpTo(archive[Current], ckpt.rec)

\* The newest file is never unlinked.
NewerExists == \A f \in Files : Removed(f) => \E g \in Existing : f < g

\* A flag that a crash made premature is in the newest file, where the writer will
\* overwrite it; any other flag is of a transaction reported complete.
FlagsOK ==
    /\ writer.done \cup ram_completed_tx \subseteq finished
    /\ \A f \in Files, i \in Slots :
          dir[f].slot[i] = "done" /\ f * Capacity + i \notin finished =>
              /\ f * Capacity + i >= next /\ FileOf(next) = f
              /\ \A g \in Existing \cup spawned : g <= f

CInv ==
    /\ TypeOK /\ InPlace /\ NamesOK /\ CheckedOK /\ NewerExists /\ FlagsOK
    /\ RemovedIsArchived /\ FullFileWasFinished

----------------------------------------------------------------------------
(* Places of transactions in files. *)

\* Products keep the order.
LEMMA TimesMonotone ==
    ASSUME NEW a \in Nat, NEW b \in Nat, NEW c \in Nat, a <= b
    PROVE  a * c <= b * c /\ a * c \in Nat /\ b * c \in Nat
BY SMT

\* A transaction is its file times the capacity and its slot.
LEMMA DivMod ==
    ASSUME NEW t \in Nat
    PROVE  FileOf(t) \in Nat /\ SlotOf(t) \in Slots /\ t = FileOf(t) * Capacity + SlotOf(t)
<1>1. Capacity \in Nat /\ Capacity > 0
  BY CheckpointAssumption
<1>2. t = Capacity * (t \div Capacity) + (t % Capacity)
  BY <1>1, SMT
<1>3. (t % Capacity) \in 0 .. Capacity - 1 /\ t \div Capacity \in Nat
  BY <1>1, SMT
<1>4. Capacity * (t \div Capacity) = (t \div Capacity) * Capacity
  BY <1>1, <1>3, SMT
<1> QED
  BY <1>2, <1>3, <1>4 DEF FileOf, SlotOf, Slots

\* The slots of a file come before those of a later one.
LEMMA FilesApart ==
    ASSUME NEW f \in Nat, NEW g \in Nat, f < g, NEW i \in Slots
    PROVE  f * Capacity + i < g * Capacity
<1>1. Capacity \in Nat /\ i \in Nat /\ i < Capacity
  BY CheckpointAssumption DEF Slots
<1>2. (f + 1) * Capacity <= g * Capacity
  BY <1>1, TimesMonotone
<1>3. (f + 1) * Capacity = f * Capacity + Capacity
  BY <1>1, SMT
<1> DEFINE a == f * Capacity
           b == g * Capacity
<1>4. a \in Nat /\ b \in Nat
  BY <1>1, TimesMonotone
<1>5. a + Capacity <= b
  BY <1>2, <1>3
<1> HIDE DEF a, b
<1>6. a + i < b
  BY <1>1, <1>4, <1>5
<1> QED
  BY <1>6 DEF a, b

\* Slot i of file f is the place of one transaction.
LEMMA PlaceOf ==
    ASSUME NEW f \in Nat, NEW i \in Slots
    PROVE  /\ f * Capacity + i \in Nat
           /\ FileOf(f * Capacity + i) = f /\ SlotOf(f * Capacity + i) = i
<1> DEFINE t == f * Capacity + i
<1>1. /\ Capacity \in Nat /\ i \in Nat /\ f * Capacity \in Nat /\ t \in Nat
  BY CheckpointAssumption, TimesMonotone DEF Slots
<1> HIDE DEF t
<1>2. FileOf(t) \in Nat /\ SlotOf(t) \in Slots /\ t = FileOf(t) * Capacity + SlotOf(t)
  BY <1>1, DivMod
<1>3. FileOf(t) * Capacity \in Nat /\ SlotOf(t) \in Nat
  BY <1>1, <1>2, TimesMonotone DEF Slots
<1>4. ~(FileOf(t) < f)
  <2>1. FileOf(t) < f => FileOf(t) * Capacity + SlotOf(t) < f * Capacity
    BY <1>2, FilesApart
  <2> QED
    BY <1>1, <1>2, <1>3, <2>1 DEF t
<1>5. ~(f < FileOf(t))
  <2>1. f < FileOf(t) => f * Capacity + i < FileOf(t) * Capacity
    BY <1>2, FilesApart
  <2> QED
    BY <1>1, <1>2, <1>3, <2>1 DEF t
<1>6. FileOf(t) = f
  BY <1>2, <1>4, <1>5
<1>7. SlotOf(t) = i
  <2> DEFINE q == f * Capacity
  <2>1. t = q + SlotOf(t) /\ t = q + i /\ q \in Nat
    BY <1>1, <1>2, <1>6 DEF t
  <2> HIDE DEF q
  <2> QED
    BY <1>1, <1>3, <2>1
<1> QED
  BY <1>1, <1>6, <1>7 DEF t

\* Later transactions are not in earlier files.
LEMMA FileMonotone ==
    ASSUME NEW s \in Nat, NEW t \in Nat, s <= t PROVE FileOf(s) <= FileOf(t)
<1>1. /\ FileOf(s) \in Nat /\ SlotOf(s) \in Slots /\ s = FileOf(s) * Capacity + SlotOf(s)
      /\ FileOf(t) \in Nat /\ SlotOf(t) \in Slots /\ t = FileOf(t) * Capacity + SlotOf(t)
  BY DivMod
<1>2. FileOf(t) < FileOf(s) => FileOf(t) * Capacity + SlotOf(t) < FileOf(s) * Capacity
  BY <1>1, FilesApart
<1>3. Capacity \in Nat /\ FileOf(s) * Capacity \in Nat /\ SlotOf(s) \in Nat
  BY <1>1, CheckpointAssumption, TimesMonotone DEF Slots
<1> QED
  BY <1>1, <1>2, <1>3

\* Files are numbers, and hold every transaction.
LEMMA FilesType ==
    /\ Files \subseteq Nat /\ NoFile \notin Files /\ NoFile \in Nat /\ Tx \subseteq Nat
    /\ \A t \in Tx : FileOf(t) \in Files /\ FileOf(t) + 1 \in Files
<1>1. /\ MaxTx \in Nat /\ Capacity \in Nat /\ Capacity > 0 /\ Tx \subseteq Nat
      /\ NoFile \in Nat
  BY CheckpointAssumption DEF Tx, NoFile
<1>2. FileOf(MaxTx) \in Nat /\ FileOf(MaxTx) <= MaxTx
  <2>1. /\ FileOf(MaxTx) \in Nat /\ SlotOf(MaxTx) \in Slots
        /\ MaxTx = FileOf(MaxTx) * Capacity + SlotOf(MaxTx)
    BY <1>1, DivMod
  <2>2. FileOf(MaxTx) <= FileOf(MaxTx) * Capacity
    BY <1>1, <2>1, SMT
  <2>3. FileOf(MaxTx) * Capacity \in Nat /\ SlotOf(MaxTx) \in Nat
    BY <1>1, <2>1, TimesMonotone DEF Slots
  <2> QED
    BY <2>1, <2>2, <2>3
<1>3. Files = 0 .. FileOf(MaxTx) + 1
  BY DEF Files, FileOf
<1>4. Files \subseteq Nat /\ NoFile \notin Files
  BY <1>1, <1>2, <1>3 DEF NoFile
<1>5. ASSUME NEW t \in Tx PROVE FileOf(t) \in Files /\ FileOf(t) + 1 \in Files
  <2>1. t \in Nat /\ t <= MaxTx
    BY <1>1 DEF Tx
  <2>2. FileOf(t) \in Nat /\ FileOf(t) <= FileOf(MaxTx)
    BY <1>1, <2>1, DivMod, FileMonotone
  <2> QED
    BY <1>2, <1>3, <2>2
<1> QED
  BY <1>1, <1>4, <1>5

\* The least of a set of files, and the greatest.
LEMMA MinOfFiles ==
    ASSUME NEW S \in SUBSET Nat, S # {} PROVE Min(S) \in S /\ \A x \in S : Min(S) <= x
<1>1. \E m \in S : \A x \in S : m <= x
  BY Least
<1> QED
  BY <1>1 DEF Min
LEMMA MaxOfFiles ==
    ASSUME NEW S \in SUBSET Files, S # {} PROVE Max(S) \in S /\ \A x \in S : x <= Max(S)
<1>1. FileOf(MaxTx) + 1 \in Nat /\ Files = 0 .. FileOf(MaxTx) + 1
  BY CheckpointAssumption, DivMod DEF Files, FileOf
<1>2. \E m \in S : \A x \in S : x <= m
  BY <1>1, Greatest
<1> QED
  BY <1>2 DEF Max

----------------------------------------------------------------------------
(* The steps of the log. *)

\* What the files are made of.
LEMMA FileForms ==
    /\ Blank \in Contents /\ Absent \in Contents /\ Partial \in Contents
    /\ Blank.rec = 0 /\ Absent.rec = 0 /\ Blank # Absent
    /\ Blank.state = "ok" /\ Absent.state = "absent" /\ Partial.state = "partial"
    /\ \A i \in Slots : Blank.slot[i] = "blank" /\ Absent.slot[i] = "blank"
<1>1. 0 \in 0 .. Capacity
  BY CheckpointAssumption
<1>2. Blank \in Contents /\ Blank.state = "ok"
  BY <1>1 DEF Blank, Contents
<1>3. Absent \in Contents /\ Absent.state = "absent" /\ Absent.rec = 0
  BY <1>1 DEF Blank, Absent, Contents
<1>4. Partial \in Contents /\ Partial.state = "partial"
  BY <1>1 DEF Blank, Partial, Contents
<1>5. \A i \in Slots : Blank.slot[i] = "blank" /\ Absent.slot[i] = "blank"
  BY DEF Blank, Absent
<1> QED
  BY <1>2, <1>3, <1>4, <1>5 DEF Blank

\* The step takes no file away, no record out of one and no flag of a record.
FilesGrow ==
    \A g \in Files : Exists(g) =>
        /\ dir'[g].state = "ok" /\ dir'[g].rec >= dir[g].rec
        /\ \A i \in 0 .. dir[g].rec - 1 :
              dir[g].slot[i] = "done" => dir'[g].slot[i] = "done"

\* The checkpoint's file is one of those that exist.
LEMMA CurrentIs ==
    ASSUME TypeOK, CheckedOK, ckpt.todo # {}
    PROVE  /\ Current \in ckpt.todo /\ Current \in Files /\ Exists(Current)
           /\ \E g \in Existing : Current < g
<1>1. ckpt.todo \in SUBSET Files /\ Files \subseteq Nat
  BY FilesType DEF TypeOK
<1>2. Current \in ckpt.todo
  BY <1>1, MinOfFiles DEF Current
<1> QED
  BY <1>1, <1>2 DEF CheckedOK, Existing

\* What the checkpoint has found stays true while the log goes on.
LEMMA LogFrame ==
    ASSUME CInv, FilesGrow, TypeOK', UNCHANGED <<archive, ckpt, removed>>,
           finished \subseteq finished'
    PROVE  CheckedOK' /\ NewerExists' /\ RemovedIsArchived' /\ FullFileWasFinished'
<1>1. TypeOK /\ CheckedOK /\ NewerExists /\ RemovedIsArchived /\ FullFileWasFinished
  BY DEF CInv
<1>2. Existing \subseteq Existing' /\ Current' = Current
  BY DEF FilesGrow, Existing, Exists, Current
<1>3. RemovedIsArchived' /\ FullFileWasFinished' /\ NewerExists'
  BY <1>1, <1>2 DEF RemovedIsArchived, FullFileWasFinished, NewerExists, Removed
<1>4. ASSUME ckpt.todo # {}
      PROVE  /\ dir[Current].rec >= ckpt.rec => dir'[Current].rec >= ckpt.rec
             /\ DoneUpTo(dir[Current], ckpt.rec) => DoneUpTo(dir'[Current], ckpt.rec)
  <2>1. Current \in Files /\ Exists(Current)
    BY <1>1, <1>4, CurrentIs
  <2>2. /\ dir[Current].rec \in Nat /\ dir'[Current].rec \in Nat /\ ckpt.rec \in Nat
    BY <1>1, <2>1 DEF TypeOK, Contents
  <2>3. /\ dir'[Current].rec >= dir[Current].rec
        /\ \A i \in 0 .. dir[Current].rec - 1 :
              dir[Current].slot[i] = "done" => dir'[Current].slot[i] = "done"
    BY <2>1 DEF FilesGrow
  <2> HIDE DEF Current
  <2> QED
    BY <2>2, <2>3 DEF DoneUpTo
<1>5. CheckedOK'
  BY <1>1, <1>2, <1>4 DEF CheckedOK, DoneUpTo
<1> QED
  BY <1>3, <1>5

\* Where the next batch goes.
LEMMA BatchPlace ==
    ASSUME TypeOK, InPlace, writer.n > 0
    PROVE  LET f == FileOf(next)
               s == SlotOf(next)
               n == writer.n
           IN  /\ next = f * Capacity + s /\ s + n <= Capacity /\ s \in Nat /\ n \in Nat
               /\ {SlotOf(t) : t \in next .. next + n - 1} = s .. s + n - 1
               /\ f \in Files /\ f + 1 \in Files
               /\ \/ FileOf(next + n) = f /\ SlotOf(next + n) = s + n
                  \/ FileOf(next + n) = f + 1 /\ SlotOf(next + n) = 0
<1> DEFINE f == FileOf(next)
           s == SlotOf(next)
           n == writer.n
           q == f * Capacity
<1>1. /\ next \in Nat /\ n \in Nat /\ n > 0 /\ Capacity \in Nat /\ Capacity > 0
      /\ FileOf(next + n - 1) = f /\ next + n <= MaxTx /\ MaxTx \in Nat
  BY CheckpointAssumption DEF TypeOK, InPlace
<1>2. f \in Nat /\ s \in Slots /\ next = q + s
  BY <1>1, DivMod
<1>3. s \in Nat /\ s < Capacity /\ q \in Nat /\ next + n - 1 \in Nat
  BY <1>1, <1>2, TimesMonotone DEF Slots
<1>4. f \in Files /\ f + 1 \in Files
  BY <1>1, FilesType DEF Tx
<1>5. SlotOf(next + n - 1) = s + n - 1 /\ s + n - 1 \in Slots
  <2>1. SlotOf(next + n - 1) \in Slots /\ next + n - 1 = q + SlotOf(next + n - 1)
    BY <1>1, <1>3, DivMod
  <2> HIDE DEF q
  <2>2. SlotOf(next + n - 1) \in Nat
    BY <2>1 DEF Slots
  <2> QED
    BY <1>1, <1>2, <1>3, <2>1, <2>2
<1>6. s + n <= Capacity
  BY <1>1, <1>3, <1>5 DEF Slots
<1>7. ASSUME NEW d \in 0 .. n - 1 PROVE SlotOf(next + d) = s + d
  <2>1. s + d \in Slots
    BY <1>1, <1>3, <1>6 DEF Slots
  <2>2. f * Capacity + (s + d) = next + d
    <3> HIDE DEF q
    <3>1. q + (s + d) = next + d
      BY <1>1, <1>2, <1>3
    <3> QED
      BY <3>1 DEF q
  <2> QED
    BY <1>2, <2>1, <2>2, PlaceOf
<1>8. {SlotOf(t) : t \in next .. next + n - 1} = s .. s + n - 1
  <2>1. \A t \in next .. next + n - 1 : t - next \in 0 .. n - 1 /\ t = next + (t - next)
    BY <1>1
  <2>2. \A i \in s .. s + n - 1 : /\ i - s \in 0 .. n - 1 /\ i = s + (i - s)
                                  /\ next + (i - s) \in next .. next + n - 1
    BY <1>1, <1>3
  <2>3. \A d \in 0 .. n - 1 : s + d \in s .. s + n - 1
    BY <1>1, <1>3
  <2> HIDE DEF s, n
  <2>4. \A t \in next .. next + n - 1 : SlotOf(t) \in s .. s + n - 1
    BY <1>7, <2>1, <2>3
  <2>5. \A i \in s .. s + n - 1 : \E t \in next .. next + n - 1 : i = SlotOf(t)
    BY <1>7, <2>2
  <2> QED
    BY <2>4, <2>5
<1>9. \/ FileOf(next + n) = f /\ SlotOf(next + n) = s + n
      \/ FileOf(next + n) = f + 1 /\ SlotOf(next + n) = 0
  <2>1. CASE s + n < Capacity
    <3>1. s + n \in Slots
      BY <1>1, <1>3, <2>1 DEF Slots
    <3>2. f * Capacity + (s + n) = next + n
      <4> HIDE DEF q
      <4>1. q + (s + n) = next + n
        BY <1>1, <1>2, <1>3
      <4> QED
        BY <4>1 DEF q
    <3> QED
      BY <1>2, <3>1, <3>2, PlaceOf
  <2>2. CASE s + n = Capacity
    <3>1. (f + 1) * Capacity = q + Capacity
      BY <1>1, <1>2, SMT
    <3>2. (f + 1) * Capacity + 0 = next + n
      <4> HIDE DEF q
      <4>1. q + Capacity = next + n
        <5>1. s + n = Capacity /\ next = q + s
          BY <1>2, <2>2
        <5> HIDE DEF s, n
        <5> QED
          BY <1>1, <1>3, <5>1
      <4> DEFINE p == (f + 1) * Capacity
      <4>2. p = next + n /\ next + n \in Nat
        BY <1>1, <3>1, <4>1
      <4> HIDE DEF p
      <4>3. p + 0 = next + n
        BY <4>2
      <4> QED
        BY <4>3 DEF p
    <3>3. 0 \in Slots /\ f + 1 \in Nat
      BY <1>1, <1>2 DEF Slots
    <3> HIDE DEF f
    <3> QED
      BY <3>2, <3>3, PlaceOf
  <2> QED
    BY <1>1, <1>3, <1>6, <2>1, <2>2
<1> QED
  BY <1>1, <1>2, <1>3, <1>4, <1>6, <1>8, <1>9

\* What the next step may rely on about the files and the writer.
LogOK == TypeOK /\ InPlace /\ NamesOK /\ FlagsOK

\* A file with one more flag.
LEMMA FlagSet ==
    ASSUME NEW F \in Contents, NEW i \in Slots
    PROVE  LET G == [F EXCEPT !.slot[i] = "done"]
           IN  /\ G \in Contents /\ G.state = F.state /\ G.rec = F.rec
               /\ \A j \in Slots : G.slot[j] = IF j = i THEN "done" ELSE F.slot[j]
BY DEF Contents

\* The steps that touch no file.
LEMMA FilesUntouched ==
    ASSUME LogOK, UNCHANGED <<next, dir, handle, orphan>>, TypeOK',
           spawned' \subseteq spawned,
           writer' = writer \/ writer'.n = 0,
           finished \subseteq finished', (writer.done \cup ram_completed_tx)' \subseteq finished'
    PROVE  LogOK' /\ FilesGrow
<1>1. InPlace'
  BY DEF LogOK, InPlace, TypeOK
<1>2. NamesOK'
  BY DEF LogOK, NamesOK
<1>3. FlagsOK'
  BY DEF LogOK, FlagsOK, Existing, Exists
<1>4. FilesGrow
  BY DEF LogOK, TypeOK, Contents, FilesGrow, Exists
<1> QED
  BY <1>1, <1>2, <1>3, <1>4 DEF LogOK

\* A file that was missing appears, empty.
LEMMA FileAppears ==
    ASSUME LogOK, NEW f \in Files, ~Exists(f), dir' = [dir EXCEPT ![f] = Blank]
    PROVE  /\ dir' \in [Files -> Contents]
           /\ \A g \in Files : dir'[g] = IF g = f THEN Blank ELSE dir[g]
           /\ dir[f] = Absent /\ Existing' = Existing \cup {f}
           /\ \A g \in Files : dir'[g].rec = dir[g].rec
           /\ \A g \in Files, i \in Slots : dir'[g].slot[i] = dir[g].slot[i]
           /\ FilesGrow
           /\ UNCHANGED <<handle, orphan>> => NamesOK'
<1>1. dir \in [Files -> Contents] /\ dir[f] = Absent
  BY DEF LogOK, TypeOK, NamesOK, Exists
<1>2. /\ dir' \in [Files -> Contents]
      /\ \A g \in Files : dir'[g] = IF g = f THEN Blank ELSE dir[g]
  BY <1>1, FileForms
<1>3. /\ \A g \in Files : dir'[g].rec = dir[g].rec
      /\ \A g \in Files, i \in Slots : dir'[g].slot[i] = dir[g].slot[i]
  BY <1>1, <1>2, FileForms
<1>4. Existing' = Existing \cup {f}
  BY <1>1, <1>2, FileForms DEF Existing, Exists
<1>5. FilesGrow
  BY <1>1, <1>2 DEF FilesGrow, Exists, Contents
<1>6. UNCHANGED <<handle, orphan>> => NamesOK'
  BY <1>2, FileForms DEF LogOK, NamesOK
<1> QED
  BY <1>1, <1>2, <1>3, <1>4, <1>5, <1>6

\* The thread that creates the next file.
LEMMA PreallocStep ==
    ASSUME CInv, NEW f \in Files, PreallocAsync(f)
    PROVE  LogOK' /\ FilesGrow
<1>1. LogOK /\ f \in spawned /\ spawned' = spawned \ {f}
      /\ UNCHANGED <<next, handle, orphan, writer, ram_completed_tx, job,
                     active_flushes, replay, archive, ckpt, hist, faults, crashes>>
  BY DEF CInv, LogOK, PreallocAsync
<1>2. CASE Exists(f)
  <2>1. dir' = dir
    BY <1>2 DEF PreallocAsync
  <2>2. TypeOK'
    BY <1>1, <2>1 DEF LogOK, TypeOK, hist
  <2> QED
    BY <1>1, <2>1, <2>2, FilesUntouched DEF hist, LogOK, FlagsOK
<1>3. CASE ~Exists(f)
  <2>1. dir' = [dir EXCEPT ![f] = Blank]
    BY <1>3 DEF PreallocAsync
  <2>2. /\ dir' \in [Files -> Contents] /\ Existing' = Existing \cup {f}
        /\ \A g \in Files : dir'[g].rec = dir[g].rec
        /\ \A g \in Files, i \in Slots : dir'[g].slot[i] = dir[g].slot[i]
        /\ FilesGrow /\ NamesOK'
    BY <1>1, <1>3, <2>1, FileAppears
  <2>3. TypeOK'
    BY <1>1, <2>2 DEF LogOK, TypeOK, hist
  <2>4. InPlace'
    BY <1>1, <2>2 DEF LogOK, InPlace
  <2>5. Existing' \cup spawned' \subseteq Existing \cup spawned
    BY <1>1, <2>2
  <2>6. FlagsOK'
    BY <1>1, <2>2, <2>5 DEF LogOK, FlagsOK, hist
  <2> QED
    BY <2>2, <2>3, <2>4, <2>6 DEF LogOK
<1> QED
  BY <1>2, <1>3

\* The writer takes a batch and creates its file.
LEMMA WriterPrepareStep ==
    ASSUME CInv, WriterPrepare
    PROVE  LogOK' /\ FilesGrow
<1> DEFINE f == FileOf(next)
<1>1. /\ LogOK /\ writer.n = 0 /\ ram_completed_tx' = {}
      /\ UNCHANGED <<next, handle, orphan, job, active_flushes, replay, archive, ckpt,
                     hist, faults, crashes>>
  BY DEF CInv, LogOK, WriterPrepare
<1>2. PICK n \in 1 .. Capacity : /\ next + n <= MaxTx /\ FileOf(next + n - 1) = f
                                 /\ writer' = [n |-> n, done |-> ram_completed_tx]
  BY DEF WriterPrepare
<1>3. next \in Tx
  BY <1>1, <1>2, CheckpointAssumption DEF LogOK, TypeOK, Tx
<1>4. f \in Files /\ f + 1 \in Files /\ f \in Nat
  BY <1>3, FilesType
<1>5. n \in 0 .. Capacity /\ n \in Nat
  BY <1>2, CheckpointAssumption
<1>6. ram_completed_tx \subseteq finished /\ ram_completed_tx \subseteq Tx
  BY <1>1 DEF LogOK, FlagsOK, TypeOK
<1>7. /\ writer' \in [n : 0 .. Capacity, done : SUBSET Tx] /\ writer'.n = n
      /\ writer'.done \subseteq finished'
  BY <1>1, <1>2, <1>5, <1>6 DEF hist
<1>8. CASE Exists(f) /\ UNCHANGED <<dir, spawned>>
  <2>1. TypeOK'
    BY <1>1, <1>7, <1>8 DEF LogOK, TypeOK, hist
  <2>2. InPlace'
    BY <1>1, <1>2, <1>7, <1>8 DEF LogOK, InPlace
  <2>3. NamesOK'
    BY <1>1, <1>8 DEF LogOK, NamesOK
  <2>4. FlagsOK'
    BY <1>1, <1>7, <1>8 DEF LogOK, FlagsOK, hist, Existing, Exists
  <2>5. FilesGrow
    BY <1>1, <1>8 DEF LogOK, TypeOK, Contents, FilesGrow, Exists
  <2> QED
    BY <2>1, <2>2, <2>3, <2>4, <2>5 DEF LogOK
<1>9. CASE ~Exists(f) /\ dir' = [dir EXCEPT ![f] = Blank] /\ spawned' = spawned \cup {f + 1}
  <2> HIDE DEF f
  <2>1. /\ dir' \in [Files -> Contents] /\ Existing' = Existing \cup {f} /\ dir[f] = Absent
        /\ \A g \in Files : dir'[g].rec = dir[g].rec
        /\ \A g \in Files, i \in Slots : dir'[g].slot[i] = dir[g].slot[i]
        /\ FilesGrow /\ NamesOK'
    BY <1>1, <1>4, <1>9, FileAppears
  <2>2. TypeOK'
    BY <1>1, <1>4, <1>7, <1>9, <2>1 DEF LogOK, TypeOK, hist
  <2>3. InPlace'
    BY <1>1, <1>2, <1>7, <2>1 DEF LogOK, InPlace, f
  <2>4. ASSUME NEW g \in Files, NEW i \in Slots, dir'[g].slot[i] = "done",
               g * Capacity + i \notin finished'
        PROVE  FALSE
    <3>1. dir[g].slot[i] = "done" /\ g * Capacity + i \notin finished
      BY <1>1, <2>1, <2>4 DEF hist
    <3>2. g = f
      BY <1>1, <3>1 DEF LogOK, FlagsOK, f
    <3> QED
      BY <2>1, <3>1, <3>2, FileForms
  <2>5. FlagsOK'
    BY <1>1, <1>7, <2>4 DEF FlagsOK
  <2> QED
    BY <2>1, <2>2, <2>3, <2>5 DEF LogOK
<1> QED
  BY <1>8, <1>9 DEF WriterPrepare

\* The writer writes its batch.
LEMMA WriterWriteStep ==
    ASSUME CInv, WriterWrite
    PROVE  LogOK' /\ FilesGrow
<1> DEFINE f == FileOf(next)
           s == SlotOf(next)
           n == writer.n
           B == {SlotOf(t) : t \in next .. next + n - 1}
           F == Reached(f)
           S == [i \in Slots |-> IF i \in B
                                 THEN IF f * Capacity + i \in writer.done THEN "done" ELSE "open"
                                 ELSE F.slot[i]]
           G == [F EXCEPT !.rec = F.rec + n, !.slot = S]
<1>1. /\ LogOK /\ TypeOK /\ InPlace /\ NamesOK /\ FlagsOK /\ n > 0
      /\ next' = next + n /\ writer' = IdleWriter
      /\ UNCHANGED <<spawned, ram_completed_tx, job, active_flushes, replay, archive, ckpt, hist,
                     faults, crashes>>
  BY DEF CInv, LogOK, WriterWrite
<1>2. /\ next = f * Capacity + s /\ s + n <= Capacity /\ s \in Nat /\ n \in Nat
      /\ B = s .. s + n - 1 /\ f \in Files /\ f + 1 \in Files
      /\ \/ FileOf(next + n) = f /\ SlotOf(next + n) = s + n
         \/ FileOf(next + n) = f + 1 /\ SlotOf(next + n) = 0
  BY <1>1, BatchPlace
<1>3. /\ next' \in Nat /\ Capacity \in Nat /\ f \in Nat /\ next \in Nat
      /\ writer' \in [n : 0 .. Capacity, done : SUBSET Tx] /\ writer'.n = 0 /\ writer'.done = {}
  <2>1. next \in Nat /\ Capacity \in Nat /\ f \in Nat /\ n \in Nat
    BY <1>1, <1>2, CheckpointAssumption, FilesType DEF TypeOK
  <2> HIDE DEF f, n
  <2>2. next' \in Nat /\ 0 \in 0 .. Capacity
    BY <1>1, <2>1
  <2> QED
    BY <1>1, <2>1, <2>2 DEF IdleWriter
<1>4. F \in Contents /\ F.rec <= s /\ F.rec \in Nat
  <2>1. F \in Contents
    BY <1>1, <1>2 DEF TypeOK, Reached
  <2>2. F.rec <= s
    BY <1>1, <1>2 DEF InPlace, Reached, Cached
  <2> QED
    BY <2>1, <2>2 DEF Contents
<1>5. S \in [Slots -> {"blank", "open", "done"}]
  <2> HIDE DEF F, B
  <2> QED
    BY <1>4 DEF Contents
<1>6. \A i \in Slots : S[i] = IF i \in s .. s + n - 1
                              THEN IF f * Capacity + i \in writer.done THEN "done" ELSE "open"
                              ELSE F.slot[i]
  <2> HIDE DEF F, B
  <2> QED
    BY <1>2
<1>7. /\ G \in Contents /\ G.state = F.state /\ G.rec = F.rec + n /\ G.slot = S
      /\ G.rec <= s + n
  <2> HIDE DEF F, S, s, n
  <2> DEFINE r == F.rec + n
  <2>1. r \in 0 .. Capacity /\ r <= s + n
    BY <1>2, <1>3, <1>4
  <2> HIDE DEF r
  <2>2. LET H == [F EXCEPT !.rec = r, !.slot = S]
        IN  H \in Contents /\ H.state = F.state /\ H.rec = r /\ H.slot = S
    BY <1>4, <1>5, <2>1 DEF Contents
  <2> QED
    BY <2>1, <2>2 DEF r
<1>8. /\ FileOf(next') \in {f, f + 1} /\ FileOf(next') \in Nat
      /\ FileOf(next') = f => SlotOf(next') = s + n
      /\ SlotOf(next') \in Nat
  <2>1. FileOf(next') = FileOf(next + n) /\ SlotOf(next') = SlotOf(next + n)
    BY <1>1
  <2> HIDE DEF f, s
  <2> QED
    BY <1>2, <1>3, <2>1
<1>9. \/ Write(f, G) /\ (Exists(f) \/ Cached(f))
      \/ ~Exists(f) /\ ~Cached(f) /\ handle' = NoFile /\ orphan' = Absent /\ UNCHANGED dir
  BY DEF WriterWrite
<1>10. \A g \in Files : dir[g] \in Contents /\ dir[g].rec \in Nat
  BY <1>1 DEF TypeOK, Contents
<1>11. Absent \in Contents /\ Absent.rec = 0
  BY FileForms
<1> HIDE DEF F, S, G, f, s, n, B
<1>12. ASSUME UNCHANGED dir,
              orphan' = Absent \/ (orphan' = G /\ orphan # Absent /\ handle = f),
              handle' = f \/ handle' = NoFile,
              dir[f] = Absent \/ dir[f] = Blank,
              handle' = f \/ orphan' = Absent
       PROVE  LogOK' /\ FilesGrow
  <2>1. TypeOK'
    BY <1>1, <1>2, <1>3, <1>7, <1>11, <1>12 DEF TypeOK, hist
  <2>2. InPlace'
    <3>1. \A g \in Files : g > FileOf(next') => dir'[g].rec = 0
      BY <1>1, <1>3, <1>8, <1>12, FilesType DEF InPlace, f
    <3>2. \A g \in Files : g = FileOf(next') => dir'[g].rec <= SlotOf(next')
      <4>1. dir[f].rec = 0
        BY <1>12, FileForms
      <4>2. f + 1 > f /\ f = FileOf(next)
        BY <1>3 DEF f
      <4> QED
        BY <1>1, <1>2, <1>8, <1>12, <4>1, <4>2 DEF InPlace
    <3>3. handle' # NoFile => handle' <= FileOf(next')
      BY <1>3, <1>8, <1>12
    <3>4. handle' = FileOf(next') => orphan'.rec <= SlotOf(next')
      <4>1. CASE orphan' = Absent
        BY <1>8, <1>11, <4>1
      <4>2. CASE orphan' = G /\ handle' = f
        BY <1>7, <1>8, <4>2
      <4> QED
        BY <1>12, <4>1, <4>2
    <3> QED
      BY <1>3, <3>1, <3>2, <3>3, <3>4 DEF InPlace
  <2>3. NamesOK'
    BY <1>1, <1>2, <1>12 DEF NamesOK
  <2>4. FlagsOK'
    <3>1. ASSUME NEW g \in Files, NEW i \in Slots, dir'[g].slot[i] = "done",
                 g * Capacity + i \notin finished'
          PROVE  FALSE
      <4>1. dir[g].slot[i] = "done" /\ g * Capacity + i \notin finished
        BY <1>1, <1>12, <3>1 DEF hist
      <4>2. g = f
        BY <1>1, <4>1 DEF FlagsOK, f
      <4> QED
        BY <1>12, <4>1, <4>2, FileForms
    <3> QED
      BY <1>1, <1>3, <3>1 DEF FlagsOK, hist
  <2>5. FilesGrow
    BY <1>10, <1>12 DEF FilesGrow, Exists
  <2> QED
    BY <2>1, <2>2, <2>3, <2>4, <2>5 DEF LogOK
<1>13. ASSUME Cached(f), handle' = f, orphan' = G, UNCHANGED dir
       PROVE  LogOK' /\ FilesGrow
  <2>1. dir[f] = Absent \/ dir[f] = Blank
    BY <1>1, <1>13 DEF NamesOK, Cached
  <2> QED
    BY <1>12, <1>13, <2>1 DEF Cached
<1>14. ASSUME ~Exists(f), ~Cached(f), handle' = NoFile, orphan' = Absent, UNCHANGED dir
       PROVE  LogOK' /\ FilesGrow
  <2>1. dir[f] = Absent
    BY <1>1, <1>2, <1>14 DEF NamesOK, Exists
  <2> QED
    BY <1>12, <1>14, <2>1
<1>15. ASSUME ~Cached(f), Exists(f), handle' = f, orphan' = Absent, dir' = [dir EXCEPT ![f] = G]
       PROVE  LogOK' /\ FilesGrow
  <2>1. F = dir[f] /\ dir[f].state = "ok"
    BY <1>15 DEF F, Reached, Exists
  <2>2. /\ dir' \in [Files -> Contents]
        /\ \A g \in Files : dir'[g] = IF g = f THEN G ELSE dir[g]
    BY <1>1, <1>2, <1>7, <1>15 DEF TypeOK
  <2>3. Existing' = Existing
    BY <1>7, <2>1, <2>2 DEF Existing, Exists
  <2>4. TypeOK'
    BY <1>1, <1>2, <1>3, <1>11, <1>15, <2>2 DEF TypeOK, hist
  <2>5. InPlace'
    <3>1. \A g \in Files : g > FileOf(next') => dir'[g].rec = 0
      BY <1>1, <1>3, <1>8, <2>2, FilesType DEF InPlace, f
    <3>2. \A g \in Files : g = FileOf(next') => dir'[g].rec <= SlotOf(next')
      <4>1. CASE FileOf(next') = f
        BY <1>7, <1>8, <2>2, <4>1
      <4>2. CASE FileOf(next') = f + 1
        <5>1. f + 1 > f /\ f = FileOf(next) /\ f + 1 # f
          BY <1>3 DEF f
        <5>2. dir'[f + 1].rec = 0
          BY <1>1, <1>2, <2>2, <5>1 DEF InPlace
        <5> QED
          BY <1>8, <4>2, <5>2
      <4> QED
        BY <1>8, <4>1, <4>2
    <3> QED
      BY <1>3, <1>8, <1>11, <1>15, <3>1, <3>2 DEF InPlace
  <2>6. NamesOK'
    BY <1>1, <1>7, <1>15, <2>1, <2>2 DEF NamesOK
  <2>7. FlagsOK'
    <3>1. ASSUME NEW g \in Files, NEW i \in Slots, dir'[g].slot[i] = "done",
                 g * Capacity + i \notin finished'
          PROVE  /\ g * Capacity + i >= next' /\ FileOf(next') = g
                 /\ \A h \in (Existing \cup spawned)' : h <= g
      <4>1. g * Capacity + i \notin finished
        BY <1>1, <3>1 DEF hist
      <4>2. g = f
        BY <1>1, <2>2, <3>1, <4>1 DEF FlagsOK, f
      <4>3. S[i] = "done"
        BY <1>7, <2>2, <3>1, <4>2
      <4>4. i \notin s .. s + n - 1
        BY <1>1, <1>6, <4>1, <4>2, <4>3 DEF FlagsOK
      <4>5. dir[g].slot[i] = "done"
        BY <1>6, <2>1, <4>2, <4>3, <4>4
      <4>6. g * Capacity + i >= next /\ \A h \in Existing \cup spawned : h <= g
        BY <1>1, <4>1, <4>5 DEF FlagsOK
      <4>7. g * Capacity + i >= next'
        <5> DEFINE q == f * Capacity
        <5>1. q \in Nat /\ i \in Nat
          BY <1>3, TimesMonotone DEF Slots
        <5>2. q + i >= next /\ next = q + s
          BY <1>2, <4>2, <4>6
        <5> HIDE DEF q
        <5>3. q + i >= next + n
          BY <1>2, <1>3, <4>4, <5>1, <5>2
        <5> QED
          BY <1>1, <4>2, <5>3 DEF q
      <4>8. FileOf(next') = g
        <5>1. g * Capacity + i \in Nat /\ FileOf(g * Capacity + i) = f
          BY <1>3, <4>2, PlaceOf
        <5>2. FileOf(next') <= f
          BY <1>3, <4>7, <5>1, FileMonotone
        <5> QED
          BY <1>3, <1>8, <4>2, <5>2
      <4> QED
        BY <1>1, <2>3, <4>6, <4>7, <4>8
    <3> QED
      BY <1>1, <1>3, <3>1 DEF FlagsOK, hist
  <2>8. FilesGrow
    <3>1. ASSUME NEW i \in 0 .. dir[f].rec - 1, dir[f].slot[i] = "done"
          PROVE  G.slot[i] = "done"
      <4>1. i \in Slots /\ i \notin s .. s + n - 1
        BY SMTT(30), <1>2, <1>3, <1>4, <1>7, <2>1 DEF Slots
      <4> QED
        BY <1>6, <1>7, <2>1, <3>1, <4>1
    <3>2. G.rec >= dir[f].rec /\ G.state = "ok"
      BY <1>2, <1>4, <1>7, <2>1
    <3> QED
      BY <1>10, <2>2, <3>1, <3>2 DEF FilesGrow, Exists
  <2> QED
    BY <2>4, <2>5, <2>6, <2>7, <2>8 DEF LogOK
<1> QED
  BY <1>9, <1>13, <1>14, <1>15 DEF Write

\* A completion is remembered, and its slot flagged if the file is there.
LEMMA MarkStep ==
    ASSUME CInv, NEW t \in Tx, MarkComplete(t),
           UNCHANGED <<next, writer, spawned, active_flushes, archive, ckpt, removed,
                       faults, crashes>>,
           job' \cup replay' \subseteq Tx
    PROVE  LogOK' /\ FilesGrow /\ finished \subseteq finished'
<1> DEFINE f == FileOf(t)
           i == SlotOf(t)
           F == Reached(f)
           G == [F EXCEPT !.slot[i] = "done"]
<1>1. /\ LogOK /\ TypeOK /\ InPlace /\ NamesOK /\ FlagsOK
      /\ ram_completed_tx' = ram_completed_tx \cup {t} /\ finished' = finished \cup {t}
  BY DEF CInv, LogOK, MarkComplete
<1>2. t \in Nat /\ f \in Files /\ f \in Nat /\ i \in Slots /\ t = f * Capacity + i
  BY FilesType, DivMod
<1>3. /\ next \in Nat /\ FileOf(next) \in Nat /\ SlotOf(next) \in Nat
      /\ writer.n \in Nat
  <2>1. next \in Nat /\ writer.n \in Nat
    BY <1>1, CheckpointAssumption DEF TypeOK
  <2>2. FileOf(next) \in Nat /\ SlotOf(next) \in Slots
    BY <2>1, DivMod
  <2> QED
    BY <2>1, <2>2, CheckpointAssumption DEF Slots
<1>4. t < next + writer.n => f <= FileOf(next)
  <2>1. CASE writer.n = 0
    BY <1>2, <1>3, <2>1, FileMonotone
  <2>2. CASE writer.n > 0 /\ t < next + writer.n
    <3>1. next + writer.n - 1 \in Nat /\ t <= next + writer.n - 1
      BY <1>2, <1>3, <2>2
    <3>2. FileOf(next + writer.n - 1) = FileOf(next)
      BY <1>1, <2>2 DEF InPlace
    <3>3. FileOf(t) <= FileOf(next + writer.n - 1)
      BY <1>2, <3>1, FileMonotone
    <3> QED
      BY <3>2, <3>3
  <2> QED
    BY <1>3, <2>1, <2>2
<1>5. F \in Contents
  BY <1>1, <1>2 DEF TypeOK, Reached
<1>6. /\ G \in Contents /\ G.state = F.state /\ G.rec = F.rec
      /\ \A j \in Slots : G.slot[j] = IF j = i THEN "done" ELSE F.slot[j]
  <2> HIDE DEF F, i
  <2> QED
    BY <1>2, <1>5 DEF Contents
<1>7. \/ t < next + writer.n /\ Exists(f) /\ Write(f, G)
      \/ UNCHANGED <<dir, handle, orphan>>
  BY DEF MarkComplete
<1>8. Absent \in Contents /\ Absent.rec = 0
  BY FileForms
<1>9. /\ (writer.done \cup ram_completed_tx)' \subseteq finished' /\ finished \subseteq finished'
      /\ ram_completed_tx' \cup finished' \subseteq Tx
  BY <1>1 DEF FlagsOK, TypeOK
<1>10. \A g \in Files : dir[g] \in Contents /\ dir[g].rec \in Nat
  BY <1>1 DEF TypeOK, Contents
<1> HIDE DEF f, i, F, G
<1>13. CASE UNCHANGED <<dir, handle, orphan>>
  <2>1. TypeOK'
    BY <1>1, <1>9, <1>13 DEF TypeOK
  <2> QED
    BY <1>1, <1>9, <1>13, <2>1, FilesUntouched
<1>14. ASSUME t < next + writer.n, Cached(f), handle' = f, orphan' = G, UNCHANGED dir
       PROVE  LogOK' /\ FilesGrow
  <2>1. TypeOK'
    BY <1>1, <1>2, <1>6, <1>9, <1>14 DEF TypeOK
  <2>2. InPlace'
    BY <1>1, <1>4, <1>6, <1>14 DEF InPlace, Cached, F, Reached
  <2>3. NamesOK'
    BY <1>1, <1>2, <1>14 DEF NamesOK, Cached
  <2>4. FlagsOK'
    BY <1>1, <1>9, <1>14 DEF FlagsOK, Existing, Exists
  <2>5. FilesGrow
    BY <1>10, <1>14 DEF FilesGrow, Exists
  <2> QED
    BY <2>1, <2>2, <2>3, <2>4, <2>5 DEF LogOK
<1>15. ASSUME t < next + writer.n, Exists(f), ~Cached(f), handle' = f, orphan' = Absent,
              dir' = [dir EXCEPT ![f] = G]
       PROVE  LogOK' /\ FilesGrow
  <2>1. F = dir[f] /\ dir[f].state = "ok"
    BY <1>15 DEF F, Reached, Exists
  <2>2. /\ dir' \in [Files -> Contents]
        /\ \A g \in Files : dir'[g] = IF g = f THEN G ELSE dir[g]
        /\ \A g \in Files : dir'[g].rec = dir[g].rec
    BY <1>1, <1>2, <1>6, <1>15, <2>1 DEF TypeOK
  <2>3. Existing' = Existing
    BY <1>6, <2>1, <2>2 DEF Existing, Exists
  <2>4. TypeOK'
    BY <1>1, <1>2, <1>8, <1>9, <1>15, <2>2 DEF TypeOK
  <2>5. InPlace'
    BY <1>1, <1>3, <1>4, <1>8, <1>15, <2>2 DEF InPlace
  <2>6. NamesOK'
    BY <1>1, <1>6, <1>15, <2>1, <2>2 DEF NamesOK
  <2>7. ASSUME NEW g \in Files, NEW j \in Slots, dir'[g].slot[j] = "done",
               g * Capacity + j \notin finished'
        PROVE  dir[g].slot[j] = "done" /\ g * Capacity + j \notin finished
    <3>1. ~(g = f /\ j = i)
      BY <1>1, <1>2, <2>7
    <3> QED
      BY <1>1, <1>6, <2>1, <2>2, <2>7, <3>1
  <2>8. FlagsOK'
    BY <1>1, <1>9, <2>3, <2>7 DEF FlagsOK
  <2>9. FilesGrow
    <3>1. ASSUME NEW j \in 0 .. dir[f].rec - 1, dir[f].slot[j] = "done"
          PROVE  G.slot[j] = "done"
      <4>1. j \in Slots
        BY <1>2, <1>5, <2>1, CheckpointAssumption DEF Slots, Contents
      <4> QED
        BY <1>6, <2>1, <3>1, <4>1
    <3> QED
      BY <1>6, <1>10, <2>1, <2>2, <3>1 DEF FilesGrow, Exists
  <2> QED
    BY <2>4, <2>5, <2>6, <2>8, <2>9 DEF LogOK
<1> QED
  BY <1>7, <1>9, <1>13, <1>14, <1>15 DEF Write

\* A step of the log keeps the invariant.
LEMMA LogStep ==
    ASSUME CInv, WriterPrepare \/ WriterWrite \/ (\E f \in Files : PreallocAsync(f))
                 \/ Flush \/ RecoverMark
    PROVE  CInv'
<1>1. TypeOK /\ LogOK
  BY DEF CInv, LogOK
<1>2. SUFFICES LogOK' /\ FilesGrow /\ UNCHANGED <<archive, ckpt, removed>>
               /\ finished \subseteq finished'
  BY LogFrame DEF CInv, LogOK
<1>3. CASE WriterPrepare
  BY <1>3, WriterPrepareStep DEF WriterPrepare, hist
<1>4. CASE WriterWrite
  BY <1>4, WriterWriteStep DEF WriterWrite, hist
<1>5. CASE \E f \in Files : PreallocAsync(f)
  BY <1>5, PreallocStep DEF PreallocAsync, hist
<1>6. CASE FlushStart
  <2>1. TypeOK'
    BY <1>1, <1>6 DEF FlushStart, TypeOK, hist
  <2> QED
    BY <1>1, <1>6, <2>1, FilesUntouched DEF FlushStart, hist, LogOK, FlagsOK
<1>7. CASE FlushEnd
  <2>1. TypeOK'
    BY <1>1, <1>7 DEF FlushEnd, TypeOK, hist
  <2> QED
    BY <1>1, <1>7, <2>1, FilesUntouched DEF FlushEnd, hist, LogOK, FlagsOK
<1>8. \A S \in SUBSET Tx : S # {} => Min(S) \in S
  BY MinOfFiles, FilesType
<1>9. CASE FlushMark
  <2>1. job \in SUBSET Tx /\ job # {} /\ Min(job) \in Tx /\ replay \subseteq Tx
    BY <1>1, <1>8, <1>9 DEF TypeOK, FlushMark
  <2>2. /\ MarkComplete(Min(job)) /\ job' = job \ {Min(job)}
        /\ UNCHANGED <<next, writer, spawned, active_flushes, replay, archive, ckpt,
                       removed, faults, crashes>>
    BY <1>9 DEF FlushMark
  <2> HIDE DEF Min
  <2> QED
    BY <2>1, <2>2, MarkStep
<1>10. CASE RecoverMark
  <2>1. replay \in SUBSET Tx /\ replay # {} /\ Min(replay) \in Tx /\ job \subseteq Tx
    BY <1>1, <1>8, <1>10 DEF TypeOK, RecoverMark
  <2>2. /\ MarkComplete(Min(replay)) /\ replay' = replay \ {Min(replay)}
        /\ UNCHANGED <<next, writer, spawned, job, active_flushes, archive, ckpt,
                       removed, faults, crashes>>
    BY <1>10 DEF RecoverMark
  <2> HIDE DEF Min
  <2> QED
    BY <2>1, <2>2, MarkStep
<1> QED
  BY <1>3, <1>4, <1>5, <1>6, <1>7, <1>9, <1>10 DEF Flush

----------------------------------------------------------------------------
(* The steps of the checkpoint thread. *)

\* A step that changes neither files nor log keeps what is known of them.
LEMMA LogUntouched ==
    ASSUME LogOK, UNCHANGED walvars
    PROVE  InPlace' /\ NamesOK' /\ FlagsOK' /\ Existing' = Existing
<1>1. UNCHANGED <<next, dir, handle, orphan, writer, spawned, ram_completed_tx, finished>>
  BY DEF walvars, mem
<1>2. Existing' = Existing
  BY <1>1 DEF Existing, Exists
<1>3. InPlace'
  BY <1>1 DEF LogOK, InPlace
<1>4. NamesOK'
  BY <1>1 DEF LogOK, NamesOK
<1>5. FlagsOK'
  BY <1>1, <1>2 DEF LogOK, FlagsOK
<1> QED
  BY <1>2, <1>3, <1>4, <1>5

\* The thread leaves a file alone and goes on with the next.
LEMMA SkipKeeps ==
    ASSUME CInv, ckpt.todo # {}, Skip
    PROVE  /\ ckpt' \in [pc : {"idle", "next", "entries", "archive", "copy", "unlink"},
                         todo : SUBSET Files, rec : 0 .. Capacity]
           /\ ckpt'.pc = "next" /\ ckpt'.todo = ckpt.todo \ {Current}
           /\ ckpt'.todo \subseteq Existing \ {Current}
           /\ ckpt'.todo # {} => \E g \in Existing \ {Current} : \A f \in ckpt'.todo : f < g
           /\ Current \in Files /\ Exists(Current)
<1>1. TypeOK /\ CheckedOK
  BY DEF CInv
<1>2. Current \in ckpt.todo /\ Current \in Files /\ Exists(Current)
  BY <1>1, CurrentIs
<1> DEFINE R == [pc : {"idle", "next", "entries", "archive", "copy", "unlink"},
                 todo : SUBSET Files, rec : 0 .. Capacity]
<1>3. ckpt \in R /\ ckpt' = [ckpt EXCEPT !.pc = "next", !.todo = ckpt.todo \ {Current}]
  BY <1>1 DEF TypeOK, Skip
<1>4. ckpt' \in R /\ ckpt'.pc = "next" /\ ckpt'.todo = ckpt.todo \ {Current}
  <2> HIDE DEF Current
  <2> QED
    BY <1>3
<1>5. ckpt.todo \subseteq Existing /\ Existing \subseteq Files /\ Files \subseteq Nat
  BY <1>1, FilesType DEF CheckedOK, Existing
<1>6. PICK g \in Existing : \A f \in ckpt.todo : f < g
  BY <1>1 DEF CheckedOK
<1>7. g # Current
  BY <1>2, <1>5, <1>6
<1> QED
  BY <1>2, <1>4, <1>5, <1>6, <1>7

\* The steps before the archive.
LEMMA CheckSteps ==
    ASSUME CInv, CheckpointStart \/ CheckHeader \/ CheckEntries
    PROVE  CInv'
<1> USE DEF CInv
<1>1. LogOK
  BY DEF LogOK
<1>2. UNCHANGED walvars /\ UNCHANGED <<archive, removed, faults>>
  BY DEF CheckpointStart, CheckHeader, CheckEntries
<1>3. UNCHANGED <<next, dir, handle, orphan, mem, finished, crashes>>
  BY <1>2 DEF walvars
<1>4. InPlace' /\ NamesOK' /\ FlagsOK' /\ Existing' = Existing
  BY <1>1, <1>2, LogUntouched
<1>5. NewerExists' /\ RemovedIsArchived' /\ FullFileWasFinished'
  BY <1>2, <1>3, <1>4 DEF NewerExists, RemovedIsArchived, FullFileWasFinished, Removed
<1> DEFINE R == [pc : {"idle", "next", "entries", "archive", "copy", "unlink"},
                 todo : SUBSET Files, rec : 0 .. Capacity]
<1>6. ASSUME ckpt' \in R PROVE TypeOK'
  BY <1>2, <1>3, <1>6 DEF TypeOK, mem
<1>7. ckpt \in R /\ 0 \in 0 .. Capacity /\ Existing \subseteq Files
  BY CheckpointAssumption DEF TypeOK, Existing
<1>8. ckpt.todo # {} => Current \in Files /\ dir[Current] \in Contents
  BY CurrentIs DEF TypeOK
<1>9. CASE CheckpointStart
  <2> DEFINE m == Max(Existing)
  <2>1. ckpt' = [ckpt EXCEPT !.pc = "next", !.todo = Existing \ {m}]
    BY <1>9 DEF CheckpointStart
  <2>2. Existing # {} => m \in Existing /\ \A f \in Existing : f <= m
    BY <1>7, MaxOfFiles
  <2> HIDE DEF m
  <2>3. ckpt' \in R /\ ckpt'.pc = "next" /\ ckpt'.todo = Existing \ {m}
    BY <1>7, <2>1
  <2>4. \A f \in Existing \ {m} : f < m
    <3>1. Existing \subseteq Nat
      BY <1>7, FilesType
    <3>2. ASSUME NEW f \in Existing, f # m PROVE f < m
      <4>1. Existing # {}
        OBVIOUS
      <4>2. m \in Nat /\ f \in Nat /\ f <= m
        BY <2>2, <3>1, <4>1
      <4> QED
        BY <3>2, <4>2
    <3> QED
      BY <3>2
  <2>5. CheckedOK'
    BY <1>4, <2>2, <2>3, <2>4 DEF CheckedOK
  <2> QED
    BY <1>4, <1>5, <1>6, <2>3, <2>5
<1>10. CASE CheckHeader
  <2>1. CASE ckpt.todo = {} /\ ckpt' = IdleCheckpoint
    <3>1. ckpt' \in R /\ ckpt'.pc = "idle" /\ ckpt'.todo = {}
      BY <1>7, <2>1 DEF IdleCheckpoint
    <3>2. CheckedOK'
      BY <3>1 DEF CheckedOK
    <3> QED
      BY <1>4, <1>5, <1>6, <3>1, <3>2
  <2>2. ASSUME ckpt.todo # {},
               ckpt' = [ckpt EXCEPT !.rec = dir[Current].rec,
                   !.pc = IF dir[Current].rec = 0 THEN "archive" ELSE "entries"]
        PROVE  CInv'
    <3> DEFINE n == dir[Current].rec
    <3>1. n \in 0 .. Capacity
      BY <1>8, <2>2 DEF Contents
    <3>2. /\ ckpt' \in R /\ ckpt'.todo = ckpt.todo /\ ckpt'.rec = n
          /\ ckpt'.pc = IF n = 0 THEN "archive" ELSE "entries"
      <4> HIDE DEF n
      <4>1. ckpt' = [ckpt EXCEPT !.rec = n, !.pc = IF n = 0 THEN "archive" ELSE "entries"]
        BY <2>2 DEF n
      <4> QED
        BY <1>7, <3>1, <4>1
    <3>3. Current' = Current
      BY <3>2 DEF Current
    <3>4. dir'[Current'].rec = n /\ n \in Int
      BY <1>3, <3>1, <3>3
    <3>5. n = 0 => DoneUpTo(dir[Current], 0)
      BY DEF DoneUpTo
    <3>6. CheckedOK'
      BY <1>3, <1>4, <2>2, <3>2, <3>3, <3>4, <3>5 DEF CheckedOK, DoneUpTo
    <3> QED
      BY <1>4, <1>5, <1>6, <3>2, <3>6
  <2> QED
    BY <1>10, <2>1, <2>2 DEF CheckHeader
<1>11. CASE CheckEntries
  <2>1. ckpt.pc = "entries" /\ ckpt.todo # {} /\ dir[Current].rec >= ckpt.rec
    BY <1>11 DEF CheckEntries, CheckedOK
  <2>2. ASSUME \A i \in 0 .. ckpt.rec - 1 : dir[Current].slot[i] = "done",
               ckpt' = [ckpt EXCEPT !.pc = "archive"]
        PROVE  CInv'
    <3>1. /\ ckpt' \in R /\ ckpt'.todo = ckpt.todo /\ ckpt'.rec = ckpt.rec
          /\ ckpt'.pc = "archive"
      BY <1>7, <2>2
    <3>2. Current' = Current
      BY <3>1 DEF Current
    <3>3. CheckedOK'
      BY <1>3, <1>4, <2>1, <2>2, <3>1, <3>2 DEF CheckedOK, DoneUpTo
    <3> QED
      BY <1>4, <1>5, <1>6, <3>1, <3>3
  <2>3. ASSUME Skip PROVE CInv'
    <3>1. /\ ckpt' \in R /\ ckpt'.pc = "next" /\ ckpt'.todo = ckpt.todo \ {Current}
          /\ ckpt'.todo \subseteq Existing \ {Current}
          /\ ckpt'.todo # {} => \E g \in Existing \ {Current} : \A f \in ckpt'.todo : f < g
      BY <2>1, <2>3, SkipKeeps
    <3>2. CheckedOK'
      BY <1>4, <3>1 DEF CheckedOK
    <3> QED
      BY <1>4, <1>5, <1>6, <3>1, <3>2
  <2> QED
    BY <1>11, <2>2, <2>3 DEF CheckEntries
<1> QED
  BY <1>9, <1>10, <1>11

\* The archive of the checkpoint's file is made and filled, or taken away.
LEMMA ArchiveSteps ==
    ASSUME CInv, ArchiveCreate \/ ArchiveCopy
    PROVE  CInv' /\ \A f \in Files : Removed(f) => archive'[f] = archive[f]
<1> USE DEF CInv
<1>1. LogOK
  BY DEF LogOK
<1>2. UNCHANGED walvars /\ removed' = removed
  BY DEF ArchiveCreate, ArchiveCopy
<1>3. UNCHANGED <<next, dir, handle, orphan, mem, finished, crashes>>
  BY <1>2 DEF walvars
<1>4. InPlace' /\ NamesOK' /\ FlagsOK' /\ Existing' = Existing
  BY <1>1, <1>2, LogUntouched
<1>5. NewerExists' /\ FullFileWasFinished'
  BY <1>2, <1>3, <1>4 DEF NewerExists, FullFileWasFinished, Removed
<1> DEFINE R == [pc : {"idle", "next", "entries", "archive", "copy", "unlink"},
                 todo : SUBSET Files, rec : 0 .. Capacity]
<1>6. faults' \in Nat
  BY DEF ArchiveCreate, ArchiveCopy, TypeOK
<1>7. ckpt \in R /\ archive \in [Files -> Contents]
  BY DEF TypeOK
<1>8. /\ ckpt.pc \in {"archive", "copy"} /\ ckpt.todo # {}
      /\ dir[Current].rec >= ckpt.rec /\ DoneUpTo(dir[Current], ckpt.rec)
  BY DEF ArchiveCreate, ArchiveCopy, CheckedOK
<1>9. Current \in Files /\ Exists(Current) /\ dir[Current] \in Contents
  BY <1>8, CurrentIs DEF TypeOK
<1>10. ASSUME Skip
       PROVE  ckpt' \in R /\ CheckedOK'
  <2>1. /\ ckpt' \in R /\ ckpt'.pc = "next" /\ ckpt'.todo = ckpt.todo \ {Current}
        /\ ckpt'.todo \subseteq Existing \ {Current}
        /\ ckpt'.todo # {} => \E g \in Existing \ {Current} : \A f \in ckpt'.todo : f < g
    BY <1>8, <1>10, SkipKeeps
  <2> QED
    BY <1>4, <2>1 DEF CheckedOK
<1>11. ASSUME ~Removed(Current) \/ archive' = archive,
              archive' \in [Files -> Contents],
              \A g \in Files \ {Current} : archive'[g] = archive[g],
              ckpt' \in R, CheckedOK'
       PROVE  CInv' /\ \A f \in Files : Removed(f) => archive'[f] = archive[f]
  <2>1. \A f \in Files : Removed(f) => archive'[f] = archive[f]
    BY <1>11
  <2>2. TypeOK'
    BY <1>2, <1>3, <1>6, <1>11 DEF TypeOK, mem
  <2>3. RemovedIsArchived'
    BY <1>2, <2>1 DEF RemovedIsArchived, Removed
  <2> QED
    BY <1>4, <1>5, <1>11, <2>1, <2>2, <2>3
<1>12. archive[Current].state # "ok" => ~Removed(Current)
  BY <1>9 DEF RemovedIsArchived
<1>13. ASSUME NEW A \in Contents, archive' = [archive EXCEPT ![Current] = A]
       PROVE  /\ archive' \in [Files -> Contents] /\ archive'[Current] = A
              /\ \A g \in Files \ {Current} : archive'[g] = archive[g]
  BY <1>7, <1>9, <1>13
<1>14. ASSUME NEW p \in {"copy", "unlink"}, ckpt' = [ckpt EXCEPT !.pc = p]
       PROVE  /\ ckpt' \in R /\ ckpt'.pc = p /\ ckpt'.todo = ckpt.todo /\ ckpt'.rec = ckpt.rec
              /\ Current' = Current
  BY <1>7, <1>14 DEF Current
<1>15. /\ Partial \in Contents /\ Absent \in Contents
       /\ Partial.state = "partial" /\ Absent.state = "absent"
  BY FileForms
<1>16. CASE ArchiveCreate
  <2>1. CASE Skip /\ archive' = archive
    BY <1>7, <1>10, <1>11, <2>1
  <2>2. ASSUME archive[Current] = Absent, archive' = [archive EXCEPT ![Current] = Partial],
               ckpt' = [ckpt EXCEPT !.pc = "copy"]
        PROVE  CInv' /\ \A f \in Files : Removed(f) => archive'[f] = archive[f]
    <3>1. ~Removed(Current)
      BY <1>12, <1>15, <2>2
    <3>2. CheckedOK'
      <4>1. archive'[Current'].state = "partial" /\ ckpt'.pc = "copy" /\ ckpt'.todo = ckpt.todo
        BY <1>13, <1>14, <1>15, <2>2
      <4>2. /\ dir'[Current'].rec >= ckpt'.rec
            /\ DoneUpTo(dir[Current], ckpt.rec)'
        BY <1>3, <1>8, <1>14, <2>2 DEF DoneUpTo
      <4> QED
        BY <1>4, <1>8, <4>1, <4>2 DEF CheckedOK
    <3> QED
      BY <1>11, <1>13, <1>14, <1>15, <2>2, <3>1, <3>2
  <2> QED
    BY <1>16, <2>1, <2>2 DEF ArchiveCreate
<1>17. CASE ArchiveCopy
  <2>1. ckpt.pc = "copy" /\ archive[Current].state = "partial" /\ ~Removed(Current)
    BY <1>12, <1>17 DEF ArchiveCopy, CheckedOK
  <2>2. ASSUME archive' = [archive EXCEPT ![Current] = dir[Current]],
               ckpt' = [ckpt EXCEPT !.pc = "unlink"]
        PROVE  CInv' /\ \A f \in Files : Removed(f) => archive'[f] = archive[f]
    <3>1. CheckedOK'
      <4>1. archive'[Current'] = dir[Current] /\ archive'[Current'].state = "ok"
            /\ ckpt'.pc = "unlink" /\ ckpt'.todo = ckpt.todo
        BY <1>9, <1>13, <1>14, <2>2 DEF Exists
      <4>2. /\ dir'[Current'].rec >= ckpt'.rec
            /\ DoneUpTo(dir[Current], ckpt.rec)'
        BY <1>3, <1>8, <1>14, <2>2 DEF DoneUpTo
      <4>3. DoneUpTo(archive[Current], ckpt.rec)'
        BY <1>8, <1>14, <2>2, <4>1 DEF DoneUpTo
      <4> QED
        BY <1>4, <1>8, <4>1, <4>2, <4>3 DEF CheckedOK
    <3> QED
      BY <1>9, <1>11, <1>13, <1>14, <2>1, <2>2, <3>1
  <2>3. ASSUME archive' = [archive EXCEPT ![Current] = Absent], Skip
        PROVE  CInv' /\ \A f \in Files : Removed(f) => archive'[f] = archive[f]
    BY <1>10, <1>11, <1>13, <1>15, <2>1, <2>3
  <2> QED
    BY <1>17, <2>2, <2>3 DEF ArchiveCopy
<1> QED
  BY <1>16, <1>17

\* The unlink that succeeds.
Unlinks ==
    /\ orphan' = IF handle = Current /\ orphan = Absent THEN dir[Current] ELSE orphan
    /\ dir' = [dir EXCEPT ![Current] = Absent]
    /\ removed' = [removed EXCEPT ![Current] = ckpt.rec]
    /\ UNCHANGED faults

\* A checked and archived file is unlinked.
LEMMA Unlinked ==
    ASSUME CInv, ArchiveUnlink, Unlinks
    PROVE  CInv'
<1> DEFINE c == Current
<1>1. /\ TypeOK /\ InPlace /\ NamesOK /\ CheckedOK /\ NewerExists /\ FlagsOK
      /\ RemovedIsArchived /\ FullFileWasFinished
  BY DEF CInv
<1>2. /\ ckpt.pc = "unlink" /\ ckpt.todo # {} /\ dir[c].rec >= ckpt.rec
      /\ DoneUpTo(dir[c], ckpt.rec)
      /\ archive[c].state = "ok" /\ DoneUpTo(archive[c], ckpt.rec)
  BY <1>1 DEF ArchiveUnlink, CheckedOK
<1>3. /\ ckpt' \in [pc : {"idle", "next", "entries", "archive", "copy", "unlink"},
                    todo : SUBSET Files, rec : 0 .. Capacity]
      /\ ckpt'.pc = "next" /\ ckpt'.todo = ckpt.todo \ {c}
      /\ ckpt'.todo \subseteq Existing \ {c}
      /\ ckpt'.todo # {} => \E g \in Existing \ {c} : \A f \in ckpt'.todo : f < g
      /\ c \in Files /\ Exists(c)
  BY <1>2, SkipKeeps DEF ArchiveUnlink
<1>4. /\ orphan' = IF handle = c /\ orphan = Absent THEN dir[c] ELSE orphan
      /\ dir' = [dir EXCEPT ![c] = Absent]
      /\ removed' = [removed EXCEPT ![c] = ckpt.rec]
      /\ UNCHANGED <<next, handle, writer, spawned, ram_completed_tx, job, active_flushes,
                     replay, archive, finished, faults, crashes>>
  BY DEF ArchiveUnlink, Unlinks, mem
<1>5. PICK h \in Existing : c < h
  BY <1>1, <1>2, CurrentIs
<1> HIDE DEF c
<1>6. /\ Absent \in Contents /\ Absent.rec = 0 /\ Absent.state = "absent"
      /\ \A i \in Slots : Absent.slot[i] = "blank"
  BY FileForms
<1>7. /\ dir' \in [Files -> Contents]
      /\ \A g \in Files : dir'[g] = IF g = c THEN Absent ELSE dir[g]
  BY <1>1, <1>3, <1>4, <1>6 DEF TypeOK
<1>8. Existing' = Existing \ {c}
  BY <1>6, <1>7 DEF Existing, Exists
<1>9. h \in Existing' /\ Existing \subseteq Files /\ Files \subseteq Nat
  BY <1>3, <1>5, <1>8, FilesType DEF Existing
<1>10. ckpt.rec \in 0 .. Capacity /\ Capacity \in Nat /\ NotYet \notin 0 .. Capacity
  BY <1>1, CheckpointAssumption DEF TypeOK, NotYet
<1>11. /\ removed' \in [Files -> 0 .. NotYet]
       /\ \A g \in Files : removed'[g] = IF g = c THEN ckpt.rec ELSE removed[g]
  <2>1. ckpt.rec \in 0 .. NotYet
    BY <1>10 DEF NotYet
  <2> QED
    BY <1>1, <1>3, <1>4, <2>1 DEF TypeOK
<1>12. TypeOK'
  BY <1>1, <1>3, <1>4, <1>7, <1>11 DEF TypeOK
<1>13. InPlace'
  <2>1. next \in Nat /\ SlotOf(next) \in Nat
    <3>1. next \in Nat
      BY <1>1 DEF TypeOK
    <3>2. SlotOf(next) \in Slots
      BY <3>1, DivMod
    <3> QED
      BY <1>10, <3>1, <3>2 DEF Slots
  <2> QED
    BY <1>1, <1>3, <1>4, <1>6, <1>7, <2>1 DEF InPlace
<1>14. NamesOK'
  BY <1>1, <1>3, <1>4, <1>7 DEF NamesOK
<1>15. CheckedOK'
  BY <1>3, <1>8 DEF CheckedOK
<1>16. NewerExists'
  <2>1. ASSUME NEW f \in Files, Removed(f)' PROVE \E g \in Existing' : f < g
    <3>1. f = c \/ Removed(f)
      BY <1>11, <2>1 DEF Removed
    <3>2. CASE f = c
      BY <1>5, <1>9, <3>2
    <3>3. ASSUME f # c, Removed(f) PROVE \E g \in Existing' : f < g
      <4>1. PICK g \in Existing : f < g
        BY <1>1, <3>3 DEF NewerExists
      <4>2. g = c => f < h
        BY <1>3, <1>5, <1>9, <4>1
      <4> QED
        BY <1>8, <1>9, <4>1, <4>2
    <3> QED
      BY <3>1, <3>2, <3>3
  <2> QED
    BY <2>1 DEF NewerExists
<1>17. FlagsOK'
  <2>1. ASSUME NEW f \in Files, NEW i \in Slots, dir'[f].slot[i] = "done"
        PROVE  dir[f].slot[i] = "done"
    BY <1>6, <1>7, <2>1
  <2> QED
    BY <1>1, <1>4, <1>8, <2>1 DEF FlagsOK
<1>18. RemovedIsArchived'
  <2>1. ASSUME NEW f \in Files, Removed(f)'
        PROVE  /\ archive'[f].state = "ok" /\ archive'[f].rec >= removed'[f]
               /\ \A i \in 0 .. removed'[f] - 1 : archive'[f].slot[i] = "done"
    <3>1. CASE f = c
      BY <1>2, <1>4, <1>11, <3>1 DEF DoneUpTo
    <3>2. CASE f # c
      BY <1>1, <1>4, <1>11, <2>1, <3>2 DEF RemovedIsArchived, Removed
    <3> QED
      BY <3>1, <3>2
  <2> QED
    BY <2>1 DEF RemovedIsArchived
<1>19. FullFileWasFinished'
  <2>1. ASSUME NEW f \in Files, removed'[f] = Capacity, NEW t \in Tx, FileOf(t) = f
        PROVE  t \in finished'
    <3>1. CASE f # c
      BY <1>1, <1>4, <1>11, <2>1, <3>1 DEF FullFileWasFinished
    <3>2. CASE f = c
      <4>1. /\ t \in Nat /\ SlotOf(t) \in Slots /\ t = c * Capacity + SlotOf(t)
        BY <2>1, <3>2, FilesType, DivMod
      <4>2. ckpt.rec = Capacity
        BY <1>11, <2>1, <3>2
      <4>3. dir[c].slot[SlotOf(t)] = "done"
        BY <1>2, <4>1, <4>2 DEF DoneUpTo, Slots
      <4>4. t \notin finished => \A g \in Existing \cup spawned : g <= c
        BY <1>1, <1>3, <4>1, <4>3 DEF FlagsOK
      <4> QED
        BY <1>3, <1>4, <1>5, <1>9, <4>4
    <3> QED
      BY <3>1, <3>2
  <2> QED
    BY <2>1 DEF FullFileWasFinished
<1> QED
  BY <1>12, <1>13, <1>14, <1>15, <1>16, <1>17, <1>18, <1>19 DEF CInv

\* The checkpoint's file is unlinked, or stays where it is.
LEMMA UnlinkStep == ASSUME CInv, ArchiveUnlink PROVE CInv'
<1> USE DEF CInv
<1>1. CASE UNCHANGED <<orphan, dir, removed>>
  <2>1. /\ UNCHANGED <<next, dir, handle, orphan, writer, spawned, ram_completed_tx, job,
                       active_flushes, replay, archive, finished, removed, crashes>>
        /\ faults' \in Nat
    BY <1>1 DEF ArchiveUnlink, mem, TypeOK
  <2>2. /\ ckpt' \in [pc : {"idle", "next", "entries", "archive", "copy", "unlink"},
                      todo : SUBSET Files, rec : 0 .. Capacity]
        /\ ckpt'.pc = "next" /\ ckpt'.todo \subseteq Existing
        /\ ckpt'.todo # {} => \E g \in Existing : \A f \in ckpt'.todo : f < g
    BY SkipKeeps DEF ArchiveUnlink, CheckedOK
  <2>3. Existing' = Existing
    BY <2>1 DEF Existing, Exists
  <2>4. TypeOK'
    BY <2>1, <2>2 DEF TypeOK
  <2>5. CheckedOK'
    BY <2>2, <2>3 DEF CheckedOK
  <2>6. InPlace' /\ NamesOK' /\ FlagsOK' /\ RemovedIsArchived'
    BY <2>1, <2>3 DEF InPlace, NamesOK, FlagsOK, RemovedIsArchived, Removed
  <2>7. NewerExists' /\ FullFileWasFinished'
    BY <2>1, <2>3 DEF NewerExists, FullFileWasFinished, Removed
  <2> QED
    BY <2>4, <2>5, <2>6, <2>7
<1>2. CASE ~UNCHANGED <<orphan, dir, removed>>
  BY <1>2, Unlinked DEF ArchiveUnlink, Unlinks
<1> QED
  BY <1>1, <1>2

\* Where the writer goes on after a crash: behind the last record of the newest file.
LEMMA RestartPlace ==
    ASSUME TypeOK, NamesOK, CrashAndRestart, Existing # {}
    PROVE  LET m == Max(Existing)
               r == dir[m].rec
           IN  /\ m \in Existing /\ \A f \in Existing : f <= m
               /\ next' = m * Capacity + r /\ r \in 0 .. Capacity
               /\ \/ r < Capacity /\ FileOf(next') = m /\ SlotOf(next') = r
                  \/ r = Capacity /\ FileOf(next') = m + 1 /\ SlotOf(next') = 0
<1> DEFINE m == Max(Existing)
           r == dir[m].rec
<1>1. Existing \in SUBSET Files /\ Files \subseteq Nat
  BY FilesType DEF Existing
<1>2. m \in Existing /\ \A f \in Existing : f <= m
  BY <1>1, MaxOfFiles
<1>3. next' = m * Capacity + r
  BY DEF CrashAndRestart
<1> HIDE DEF m
<1>4. m \in Nat /\ r \in 0 .. Capacity /\ Capacity \in Nat /\ Capacity > 0
  BY <1>1, <1>2, CheckpointAssumption DEF TypeOK, Contents
<1> HIDE DEF r
<1>5. CASE r < Capacity
  <2>1. r \in Slots
    BY <1>4, <1>5 DEF Slots
  <2> QED
    BY <1>2, <1>3, <1>4, <1>5, <2>1, PlaceOf DEF m, r
<1>6. CASE r = Capacity
  <2> DEFINE q == m * Capacity
             p == (m + 1) * Capacity
  <2>1. p = q + Capacity /\ q \in Nat
    BY <1>4, TimesMonotone, SMT
  <2>2. next' = q + Capacity
    BY <1>3, <1>6
  <2> HIDE DEF q, p
  <2>3. next' = p + 0
    BY <1>4, <2>1, <2>2
  <2>4. m + 1 \in Nat /\ 0 \in Slots
    BY <1>4 DEF Slots
  <2>5. FileOf(p + 0) = m + 1 /\ SlotOf(p + 0) = 0
    BY <2>4, PlaceOf DEF p
  <2> QED
    BY <1>2, <1>3, <1>4, <1>6, <2>3, <2>5 DEF m, r
<1> QED
  BY <1>4, <1>5, <1>6

\* The process dies and the database is opened again.
LEMMA CrashStep ==
    ASSUME CInv, CrashAndRestart
    PROVE  CInv'
<1>1. /\ TypeOK /\ InPlace /\ NamesOK /\ CheckedOK /\ NewerExists /\ FlagsOK
      /\ RemovedIsArchived /\ FullFileWasFinished
  BY DEF CInv
<1>2. /\ crashes' = crashes + 1 /\ handle' = NoFile /\ orphan' = Absent
      /\ writer' = IdleWriter /\ spawned' = {} /\ ram_completed_tx' = {}
      /\ job' = {} /\ active_flushes' = 0 /\ replay' = ReadWal /\ ckpt' = IdleCheckpoint
      /\ finished' = {t \in finished : t < next'}
      /\ UNCHANGED <<dir, archive, removed, faults>>
  BY DEF CrashAndRestart
<1>3. Existing' = Existing /\ Existing \subseteq Files /\ Files \subseteq Nat
      /\ NoFile \notin Files
  BY <1>2, FilesType DEF Existing, Exists
<1>4. /\ Absent \in Contents /\ Absent.rec = 0
      /\ \A i \in Slots : Absent.slot[i] = "blank"
  BY FileForms
<1>5. \A f \in Files : f \notin Existing => dir[f] = Absent
  BY <1>1 DEF NamesOK, Existing, Exists
<1>6. Capacity \in Nat /\ Capacity > 0 /\ 0 \in 0 .. Capacity
  BY CheckpointAssumption
<1> DEFINE m == Max(Existing)
           r == dir[m].rec
<1>7. Existing = {} =>
        next' = 0 /\ FileOf(next') = 0 /\ SlotOf(next') = 0
  <2>1. ASSUME Existing = {} PROVE next' = 0
    BY <2>1 DEF CrashAndRestart
  <2>2. 0 \in Slots /\ 0 * Capacity + 0 = 0
    BY <1>6, SMT DEF Slots
  <2>3. FileOf(0) = 0 /\ SlotOf(0) = 0
    BY <2>2, PlaceOf
  <2> QED
    BY <2>1, <2>3
<1>8. Existing # {} =>
         /\ m \in Existing /\ \A f \in Existing : f <= m
         /\ next' = m * Capacity + r /\ r \in 0 .. Capacity
         /\ \/ r < Capacity /\ FileOf(next') = m /\ SlotOf(next') = r
            \/ r = Capacity /\ FileOf(next') = m + 1 /\ SlotOf(next') = 0
  BY <1>1, RestartPlace
<1> HIDE DEF m
<1>9. Existing # {} => m \in Nat /\ m * Capacity \in Nat /\ r \in Nat
  <2> SUFFICES ASSUME Existing # {} PROVE m \in Nat /\ m * Capacity \in Nat /\ r \in Nat
    OBVIOUS
  <2> HIDE DEF r
  <2>1. m \in Existing /\ r \in 0 .. Capacity
    BY <1>8
  <2>2. m \in Nat
    BY <1>3, <2>1
  <2>3. r \in Nat
    BY <1>6, <2>1
  <2> QED
    BY <1>6, <2>2, <2>3, TimesMonotone
<1>10. next' \in Nat /\ SlotOf(next') \in Nat
  <2> DEFINE q == m * Capacity
  <2>1. Existing # {} => q \in Nat /\ r \in Nat /\ next' = q + r /\ SlotOf(next') \in {r, 0}
    BY <1>8, <1>9
  <2> HIDE DEF q, r
  <2> QED
    BY <1>7, <2>1
<1> HIDE DEF r
<1>11. TypeOK'
  <2>1. ReadWal \subseteq Tx /\ finished' \subseteq Tx
    BY <1>1, <1>2 DEF ReadWal, TypeOK
  <2>2. IdleWriter \in [n : 0 .. Capacity, done : SUBSET Tx]
    BY <1>6 DEF IdleWriter
  <2>3. IdleCheckpoint \in [pc : {"idle", "next", "entries", "archive", "copy", "unlink"},
                            todo : SUBSET Files, rec : 0 .. Capacity]
    BY <1>6 DEF IdleCheckpoint
  <2> QED
    BY <1>1, <1>2, <1>4, <1>10, <2>1, <2>2, <2>3 DEF TypeOK
<1>12. InPlace'
  <2>1. writer'.n = 0
    BY <1>2 DEF IdleWriter
  <2>2. \A f \in Files : f > FileOf(next') => dir'[f].rec = 0
    <3>1. CASE Existing = {}
      BY <1>2, <1>4, <1>5, <3>1
    <3>2. CASE Existing # {}
      BY <1>2, <1>3, <1>4, <1>5, <1>8, <1>9, <3>2
    <3> QED
      BY <3>1, <3>2
  <2>3. \A f \in Files : f = FileOf(next') => dir'[f].rec <= SlotOf(next')
    <3>1. CASE Existing = {}
      BY <1>2, <1>4, <1>5, <1>10, <3>1
    <3>2. CASE Existing # {}
      <4>1. CASE FileOf(next') = m /\ SlotOf(next') = r
        BY <1>2, <1>9, <3>2, <4>1 DEF r
      <4>2. CASE FileOf(next') = m + 1 /\ SlotOf(next') = 0
        <5>1. m + 1 \notin Existing
          BY <1>8, <1>9, <3>2
        <5> QED
          BY <1>2, <1>4, <1>5, <4>2, <5>1
      <4> QED
        BY <1>8, <3>2, <4>1, <4>2
    <3> QED
      BY <3>1, <3>2
  <2> QED
    BY <1>2, <1>4, <1>10, <2>1, <2>2, <2>3 DEF InPlace
<1>13. NamesOK'
  BY <1>1, <1>2 DEF NamesOK
<1>14. CheckedOK'
  BY <1>2 DEF CheckedOK, IdleCheckpoint
<1>15. NewerExists' /\ RemovedIsArchived'
  BY <1>1, <1>2, <1>3 DEF NewerExists, RemovedIsArchived, Removed
<1>16. FlagsOK'
  <2>1. ASSUME NEW g \in Files, NEW i \in Slots, dir'[g].slot[i] = "done",
               g * Capacity + i \notin finished'
        PROVE  /\ g * Capacity + i >= next' /\ FileOf(next') = g
               /\ \A h \in (Existing \cup spawned)' : h <= g
    <3> DEFINE t == g * Capacity + i
    <3>1. dir[g].slot[i] = "done" /\ g \in Nat /\ i \in Nat
      BY <1>2, <1>3, <1>6, <2>1 DEF Slots
    <3>2. t \in Nat /\ FileOf(t) = g
      BY <3>1, PlaceOf
    <3>3. g \in Existing
      BY <1>4, <1>5, <3>1
    <3>4. /\ m \in Existing /\ \A f \in Existing : f <= m
          /\ FileOf(next') \in {m, m + 1} /\ m \in Nat
      BY <1>8, <1>9, <3>3
    <3>5. CASE t >= next'
      <4>1. FileOf(next') <= g
        BY <1>10, <3>2, <3>5, FileMonotone
      <4>2. g = m /\ FileOf(next') = m
        BY <3>1, <3>3, <3>4, <4>1
      <4> QED
        BY <1>2, <1>3, <3>4, <3>5, <4>2
    <3>6. CASE t \notin finished
      <4>1. /\ t >= next /\ FileOf(next) = g
            /\ \A h \in Existing \cup spawned : h <= g
        BY <1>1, <3>1, <3>6 DEF FlagsOK
      <4>2. g = m
        BY <3>1, <3>3, <3>4, <4>1
      <4>3. /\ next \in Nat /\ SlotOf(next) \in Nat /\ SlotOf(next) < Capacity
            /\ next = m * Capacity + SlotOf(next)
        <5>1. next \in Nat
          BY <1>1 DEF TypeOK
        <5>2. SlotOf(next) \in Slots /\ next = FileOf(next) * Capacity + SlotOf(next)
          BY <5>1, DivMod
        <5> QED
          BY <1>6, <4>1, <4>2, <5>1, <5>2 DEF Slots
      <4>4. r <= SlotOf(next)
        BY <1>1, <4>1, <4>2 DEF InPlace, r
      <4>5. next' = m * Capacity + r /\ r \in Nat /\ m * Capacity \in Nat
        BY <1>8, <1>9, <3>3
      <4>6. t >= next'
        <5> DEFINE q == m * Capacity
        <5>1. /\ next = q + SlotOf(next) /\ next' = q + r /\ q \in Nat
          BY <4>3, <4>5
        <5> HIDE DEF q, t
        <5> QED
          BY <3>2, <4>1, <4>3, <4>4, <4>5, <5>1
      <4>7. FileOf(next') = m
        BY <1>6, <1>8, <3>3, <4>3, <4>4, <4>5
      <4> QED
        BY <1>2, <1>3, <4>1, <4>2, <4>6, <4>7
    <3>7. t \notin finished \/ t >= next'
      <4>1. t \notin finished'
        BY <2>1
      <4> HIDE DEF t
      <4> QED
        BY <1>2, <1>10, <3>2, <4>1
    <3> QED
      BY <3>5, <3>6, <3>7
  <2>2. writer'.done = {}
    BY <1>2 DEF IdleWriter
  <2> QED
    BY <1>2, <2>1, <2>2 DEF FlagsOK
<1>17. FullFileWasFinished'
  <2>1. ASSUME NEW f \in Files, removed[f] = Capacity, NEW t \in Tx, FileOf(t) = f
        PROVE  t \in finished'
    <3>1. t \in finished
      BY <1>1, <2>1 DEF FullFileWasFinished
    <3>2. Removed(f)
      BY <1>6, <2>1 DEF Removed, NotYet
    <3>3. PICK g \in Existing : f < g
      BY <1>1, <3>2 DEF NewerExists
    <3>4. m \in Existing /\ f < m /\ m \in Nat /\ f \in Nat
      <4>1. m \in Existing /\ g <= m
        BY <1>8, <3>3
      <4> QED
        BY <1>3, <3>3, <4>1
    <3>5. t \in Nat /\ SlotOf(t) \in Slots /\ t = f * Capacity + SlotOf(t)
      BY <2>1, FilesType, DivMod
    <3>6. f * Capacity + SlotOf(t) < m * Capacity
      BY <3>4, <3>5, FilesApart
    <3>7. t < next'
      <4> DEFINE q == m * Capacity
      <4>1. next' = q + r /\ r \in Nat /\ q \in Nat /\ t < q
        BY <1>8, <1>9, <3>3, <3>5, <3>6
      <4> HIDE DEF q
      <4> QED
        BY <3>5, <4>1
    <3> QED
      BY <1>2, <3>1, <3>7
  <2> QED
    BY <1>2, <2>1 DEF FullFileWasFinished
<1> QED
  BY <1>11, <1>12, <1>13, <1>14, <1>15, <1>16, <1>17 DEF CInv

----------------------------------------------------------------------------
(* The theorems. *)

\* The state the log starts in.
LEMMA CheckpointInit == Init => CInv
<1> SUFFICES ASSUME Init PROVE CInv
  OBVIOUS
<1> USE DEF Init
<1>1. Capacity \in Nat /\ Capacity > 0 /\ 0 \in 0 .. Capacity
  BY CheckpointAssumption
<1>2. /\ Absent \in Contents /\ Absent.rec = 0 /\ Absent.state = "absent"
      /\ \A i \in Slots : Absent.slot[i] = "blank"
  BY FileForms
<1>3. SlotOf(0) \in Nat
  BY <1>1, DivMod DEF Slots
<1>4. Existing = {}
  BY <1>2 DEF Existing, Exists
<1>5. TypeOK
  <2>1. IdleWriter \in [n : 0 .. Capacity, done : SUBSET Tx]
    BY <1>1 DEF IdleWriter
  <2>2. IdleCheckpoint \in [pc : {"idle", "next", "entries", "archive", "copy", "unlink"},
                            todo : SUBSET Files, rec : 0 .. Capacity]
    BY <1>1 DEF IdleCheckpoint
  <2>3. NotYet \in 0 .. NotYet
    BY <1>1 DEF NotYet
  <2> QED
    BY <1>2, <2>1, <2>2, <2>3 DEF TypeOK
<1>6. InPlace
  BY <1>2, <1>3 DEF InPlace, IdleWriter
<1>7. NamesOK
  BY DEF NamesOK
<1>8. CheckedOK
  BY DEF CheckedOK, IdleCheckpoint
<1>9. \A f \in Files : ~Removed(f) /\ removed[f] # Capacity
  BY <1>1 DEF Removed, NotYet
<1>10. NewerExists /\ RemovedIsArchived /\ FullFileWasFinished
  BY <1>9 DEF NewerExists, RemovedIsArchived, FullFileWasFinished
<1>11. FlagsOK
  BY <1>2 DEF FlagsOK, IdleWriter
<1> QED
  BY <1>5, <1>6, <1>7, <1>8, <1>10, <1>11 DEF CInv

\* Every step keeps the invariant, and no step touches the archive of an unlinked file.
LEMMA CheckpointStep ==
    CInv /\ [Next]_vars => CInv' /\ \A f \in Files : Removed(f) => archive'[f] = archive[f]
<1> SUFFICES ASSUME CInv, [Next]_vars
             PROVE  CInv' /\ \A f \in Files : Removed(f) => archive'[f] = archive[f]
  OBVIOUS
<1>1. CASE WriterPrepare \/ WriterWrite \/ (\E f \in Files : PreallocAsync(f))
           \/ Flush \/ RecoverMark
  <2>1. archive' = archive
    BY <1>1 DEF WriterPrepare, WriterWrite, PreallocAsync, Flush, FlushStart, FlushMark,
                FlushEnd, RecoverMark
  <2> QED
    BY <1>1, <2>1, LogStep
<1>2. CASE CheckpointStart \/ CheckHeader \/ CheckEntries
  <2>1. archive' = archive
    BY <1>2 DEF CheckpointStart, CheckHeader, CheckEntries
  <2> QED
    BY <1>2, <2>1, CheckSteps
<1>3. CASE ArchiveCreate \/ ArchiveCopy
  BY <1>3, ArchiveSteps
<1>4. CASE ArchiveUnlink
  BY <1>4, UnlinkStep DEF ArchiveUnlink
<1>5. CASE CrashAndRestart
  BY <1>5, CrashStep DEF CrashAndRestart
<1>6. CASE UNCHANGED vars
  <2>1. UNCHANGED <<next, dir, handle, orphan, writer, spawned, ram_completed_tx, job,
                    active_flushes, replay, archive, ckpt, finished, removed, faults, crashes>>
    BY <1>6 DEF vars, mem, hist
  <2> QED
    BY <2>1 DEF CInv, TypeOK, InPlace, NamesOK, CheckedOK, NewerExists, FlagsOK,
                RemovedIsArchived, FullFileWasFinished, Removed, Existing, Exists, Current,
                DoneUpTo
<1> QED
  BY <1>1, <1>2, <1>3, <1>4, <1>5, <1>6 DEF Next, Run

\* The invariant holds in every state the log and the checkpoint reach.
THEOREM CheckpointInductive == Spec => []CInv
<1>1. CInv /\ [Next]_vars => CInv'
  BY CheckpointStep
<1> QED
  BY CheckpointInit, <1>1, PTL DEF Spec

\* No file ever has more records than it has slots, and the rest of the types: however
\* the writer, the markers, the checkpoint and crashes interleave.
THEOREM TypeCorrect == Spec => []TypeOK
<1>1. CInv => TypeOK
  BY DEF CInv
<1> QED
  BY CheckpointInductive, <1>1, PTL

\* WALCheckpoint.archive_file unlinks a file only when a whole archive holds every entry
\* the check counted, each of them complete.
THEOREM RemovedArchived == Spec => []RemovedIsArchived
<1>1. CInv => RemovedIsArchived
  BY DEF CInv
<1> QED
  BY CheckpointInductive, <1>1, PTL

\* A file that was full when WALCheckpoint.is_file_fully_completed read it had nothing
\* left to recover: every transaction with a slot in it has been reported complete.
THEOREM FullFileFinished == Spec => []FullFileWasFinished
<1>1. CInv => FullFileWasFinished
  BY DEF CInv
<1> QED
  BY CheckpointInductive, <1>1, PTL

\* WALCheckpoint.archive_file never writes to the archive of a file that is gone.
THEOREM ArchivesKept == Spec => ArchiveKept
<1>1. CInv /\ [Next]_vars => [\A f \in Files : Removed(f) => archive'[f] = archive[f]]_vars
  BY CheckpointStep
<1> QED
  BY CheckpointInductive, <1>1, PTL DEF Spec, ArchiveKept
=============================================================================
