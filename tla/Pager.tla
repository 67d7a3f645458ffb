-------------------------------- MODULE Pager --------------------------------
(***************************************************************************)
(* A slotted page (pager/pager.py): slot directory growing up from the     *)
(* header, records growing down from the end, tombstones, repacking, and   *)
(* the form a page has in the table file.                                  *)
(*                                                                         *)
(* A byte is abstracted to what it belongs to: byte i of a payload is      *)
(* <<payload, i>>, a byte of slot entry s is <<s>>, a zero is <<>>; so a   *)
(* payload is whole exactly when its bytes are.  The header is the fields  *)
(* of the record.  Slots are numbered from 1.                              *)
(***************************************************************************)
EXTENDS Integers, Sequences

CONSTANTS
    PageSize,           \* PAGE_SIZE
    HeaderSize,         \* HEADER_SIZE
    SlotSize,           \* SLOT_SIZE
    Payloads,           \* records, as bytes
    SizeOf              \* payload -> its length

ASSUME PagerAssumption ==
    /\ HeaderSize \in Nat \ {0} /\ SlotSize \in Nat \ {0}
    /\ PageSize \in Nat /\ HeaderSize <= PageSize
    /\ SizeOf \in [Payloads -> Nat \ {0}]

Offsets   == 0 .. PageSize - 1
Zero      == <<>>
Tombstone == [off |-> 0, len |-> 0]

NewPage == [lower |-> HeaderSize, upper |-> PageSize, slots |-> <<>>,
            data |-> [x \in Offsets |-> Zero]]

Within(x, slot) == slot.off <= x /\ x < slot.off + slot.len
Live(p) == {s \in DOMAIN p.slots : p.slots[s] # Tombstone}

Bytes(r) == [i \in 0 .. SizeOf[r] - 1 |-> <<r, i>>]

\* get_record; a tombstone has no bytes.
GetRecord(p, s) ==
    LET slot == p.slots[s] IN [i \in 0 .. slot.len - 1 |-> p.data[slot.off + i]]

\* The payload a slot holds, if its bytes are whole.
FirstByte(p, s) == p.data[p.slots[s].off]
Whole(p, s)     == Len(FirstByte(p, s)) = 2 /\ GetRecord(p, s) = Bytes(FirstByte(p, s)[1])
PayloadAt(p, s) == FirstByte(p, s)[1]

\* Mutation: no room is kept for the slot entry.
HasSpaceForPayload(p, n) == p.upper - p.lower >= n

HasSpaceFor(p, n) == p.upper - p.lower >= SlotSize + n

InsertRecord(p, r) ==
    LET slot == [off |-> p.upper - SizeOf[r], len |-> SizeOf[r]] IN
    [lower |-> p.lower + SlotSize,
     upper |-> slot.off,
     slots |-> Append(p.slots, slot),
     data  |-> [x \in Offsets |-> IF Within(x, slot) THEN <<r, x - slot.off>> ELSE p.data[x]]]

DeleteRecord(p, s) ==
    [p EXCEPT !.slots[s] = Tombstone,
              !.data = [x \in Offsets |-> IF Within(x, p.slots[s]) THEN Zero ELSE p.data[x]]]

\* The end of the records of the first s slots, when these are repacked.
Repacked(p) ==
    LET upper[s \in 0 .. Len(p.slots)] ==
            IF s = 0 THEN PageSize ELSE upper[s - 1] - p.slots[s].len
    IN  upper

\* Mutation: the records are moved within the page, the last slot first.
CompactInPlace(p) ==
    LET upper == Repacked(p)
        n == Len(p.slots)
        moved(s) == [off |-> upper[s], len |-> p.slots[s].len]
        data[s \in 1 .. n + 1] ==
            IF s = n + 1 THEN p.data
            ELSE [x \in Offsets |->
                    IF s \in Live(p) /\ Within(x, moved(s))
                    THEN data[s + 1][p.slots[s].off + (x - upper[s])] ELSE data[s + 1][x]]
    IN  [p EXCEPT !.upper = upper[n],
                  !.slots = [s \in 1 .. n |-> IF s \in Live(p) THEN moved(s) ELSE Tombstone],
                  !.data = data[1]]

\* compact: every record is copied out first, then all are written back.
Compact(p) ==
    LET upper == Repacked(p)
        moved == [s \in DOMAIN p.slots |-> IF s \in Live(p)
                     THEN [off |-> upper[s], len |-> p.slots[s].len] ELSE Tombstone]
        top == upper[Len(p.slots)]
    IN  [p EXCEPT !.upper = top,
                  !.slots = moved,
                  !.data = [x \in Offsets |->
                     CASE x >= top -> LET s == CHOOSE s \in Live(p) : Within(x, moved[s])
                                      IN  p.data[p.slots[s].off + (x - moved[s].off)]
                       [] x < top /\ x >= p.lower -> Zero
                       [] OTHER -> p.data[x]]]

\* to_bytes writes the slot directory into the page; the page object keeps it.
ToBytes(p) ==
    [p EXCEPT !.data = [x \in Offsets |->
        IF HeaderSize <= x /\ x < HeaderSize + SlotSize * Len(p.slots)
        THEN <<(x - HeaderSize) \div SlotSize + 1>> ELSE p.data[x]]]

\* A page of the file whose magic bytes or checksum do not match.
Damaged == [NewPage EXCEPT !.lower = 0, !.upper = 0]

\* from_bytes accepts the bytes; then they are the page.
Readable(raw) ==
    /\ raw # Damaged
    /\ raw.lower = HeaderSize + SlotSize * Len(raw.slots)
    /\ raw.lower <= raw.upper /\ raw.upper <= PageSize
    /\ \A s \in DOMAIN raw.slots :
          LET slot == raw.slots[s] IN
          \/ slot = Tombstone
          \/ slot.off # 0 /\ raw.upper <= slot.off /\ slot.off + slot.len <= PageSize
=============================================================================
