------------------------------ MODULE Transfer ------------------------------
(***************************************************************************)
(* The copy of a channel message from the sender's buffer to the           *)
(* receiver's: the loop of PlainMemoryCopySrc, which reads the source a    *)
(* page at a time, the CapabilityWriter that replaces the capability ids   *)
(* at the head of the message, and the PlainMemoryWriter below it, which   *)
(* writes the destination a page at a time.                                *)
(*                                                                         *)
(* A memory is a sequence of bytes, page after page.  A message is a word  *)
(* with the number of capabilities, that many ids, and data; only the low  *)
(* byte of a word is ever used.                                            *)
(***************************************************************************)
EXTENDS Integers, Sequences, SequencesExt

CONSTANTS
    Page,           \* PAGE_SIZE
    Word,           \* size_of::<usize>(), which divides Page
    MemPages,       \* the pages of either memory
    MaxCaps,        \* the most capabilities in a message
    MaxData         \* the most bytes of data after them

VARIABLES
    message,        \* [caps, data]: how many ids and how much data were sent
    dead,           \* the ids that cannot be cloned
    rd,             \* the source: its memory and the position of the reader
    wr,             \* the destination: its memory and the position of the writer
    copy,           \* the CapabilityCopyCount
    size,           \* the bytes reported as written
    where,          \* where the two buffers start and end
    tphase

transferVars == <<message, dead, rd, wr, copy, size, where, tphase>>

(* The smaller of two sizes. *)
Least(a, b) == IF a < b THEN a ELSE b

(* PlainMemoryWriter over the buffer from start to end of a memory. *)
CreateMemoryWriter(mem, start, end) ==
    [mem |-> mem, page_index |-> start \div Page, offset |-> start, end_offset |-> end]

Remaining(w) == w.end_offset - w.offset

PageOffset(w) == w.offset % Page

WordOf(n) == [i \in 1 .. Word |-> IF i = 1 THEN n ELSE 0]

NumberOf(b) == b[1]

-----------------------------------------------------------------------------
(* PlainMemoryWriter::write_region: the page index moves on only when the  *)
(* region goes on past the end of the page.                                *)

Stored(mem, at, bs) ==
    [i \in DOMAIN mem |-> IF i - 1 \in at .. at + Len(bs) - 1 THEN bs[i - at] ELSE mem[i]]

RECURSIVE WriteRegion(_, _)
WriteRegion(w, region) ==
    LET n == Least(Least(Len(region), Page - PageOffset(w)), Remaining(w))
        next == [w EXCEPT !.mem = Stored(@, w.page_index * Page + PageOffset(w), SubSeq(region, 1, n)),
                          !.offset = @ + n]
    IN  IF Remaining(w) = 0 THEN [w |-> w, size |-> 0, end |-> TRUE]
        ELSE IF n = Len(region) THEN [w |-> next, size |-> n, end |-> Remaining(next) = 0]
        ELSE LET more == WriteRegion([next EXCEPT !.page_index = @ + 1], SubSeq(region, n + 1, Len(region)))
             IN  [more EXCEPT !.size = @ + n]

(* push_usize_ptr at an aligned position: no padding, then a zero word.    *)
(* The result names the place of the word, -1 when it did not fit.         *)
PushUsizePtr(w) ==
    LET r == WriteRegion(w, WordOf(0))
    IN  [w |-> r.w, size |-> r.size,
         at |-> IF Remaining(w) = 0 \/ r.size # Word THEN -1 ELSE w.page_index * Page + PageOffset(w)]

-----------------------------------------------------------------------------
(* CapabilityWriter *)

NoCopyCount == [begun |-> FALSE, remaining |-> 0, at |-> 0, buffer |-> <<>>]

(* A transfer that hands an id it could not clone on as it is. *)
CloneIdKeepsOld(id) == IF id \in dead THEN id ELSE id + 100

CloneId(id) == IF id \in dead THEN 0 ELSE id + 100

(* get_capid_from_write_region, the id cloned into the receiver's space    *)
(* and its new id written: one turn of the loop for every whole id that    *)
(* the region and the bytes kept from the one before it hold.              *)
RECURSIVE WriteCaps(_, _, _, _)
WriteCaps(w, c, region, n) ==
    LET take == Least(Word - Len(c.buffer), Len(region))
        buf == c.buffer \o SubSeq(region, 1, take)
        rest == SubSeq(region, take + 1, Len(region))
        counted == [w EXCEPT !.mem[c.at + 1] = @ + 1]
        put == WriteRegion(counted, WordOf(CloneId(NumberOf(buf))))
    IN  IF c.remaining = 0 THEN [w |-> w, c |-> c, region |-> region, size |-> n]
        ELSE IF Len(buf) < Word
             THEN [w |-> w, c |-> [c EXCEPT !.buffer = buf], region |-> rest, size |-> n]
             ELSE WriteCaps(put.w, [c EXCEPT !.buffer = <<>>, !.remaining = @ - 1], rest, n + put.size)

(* The count is read and its place in the destination kept before any id. *)
CapWriteRegion(w, c, region) ==
    LET ptr == PushUsizePtr(w)
        begun == [begun |-> TRUE, remaining |-> NumberOf(region), at |-> ptr.at, buffer |-> <<>>]
        caps == IF c.begun THEN WriteCaps(w, c, region, 0)
                ELSE WriteCaps(ptr.w, begun, SubSeq(region, Word + 1, Len(region)), ptr.size)
        data == WriteRegion(caps.w, caps.region)
    IN  IF ~c.begun /\ Len(region) < Word THEN [w |-> w, c |-> c, size |-> 0, end |-> TRUE]
        ELSE IF ~c.begun /\ ptr.at = -1 THEN [w |-> ptr.w, c |-> c, size |-> ptr.size, end |-> TRUE]
        ELSE [w |-> data.w, c |-> caps.c, size |-> caps.size + data.size, end |-> data.end]

-----------------------------------------------------------------------------
MessageBytes(caps, data) ==
    WordOf(caps) \o FlattenSeq([i \in 1 .. caps |-> WordOf(10 + i)]) \o [i \in 1 .. data |-> 200 + i]

Blank == [i \in 1 .. Page * MemPages |-> 0]

(* Both buffers start at a word, as the allocator of the library has them. *)
TransferInit ==
    \E caps \in 0 .. MaxCaps, data \in 0 .. MaxData :
    \E from, to \in {Word * i : i \in 0 .. Page \div Word} :
        LET bs == MessageBytes(caps, data)
        IN  \E room \in 1 .. Len(bs) + 1 :
            /\ from + Len(bs) <= Page * MemPages
            /\ to + room <= Page * MemPages
            /\ message = [caps |-> caps, data |-> data]
            /\ dead \in SUBSET {10 + i : i \in 1 .. caps}
            /\ where = [from |-> from, to |-> to, room |-> room]
            /\ rd = CreateMemoryWriter(Stored(Blank, from, bs), from, from + Len(bs))
            /\ wr = CreateMemoryWriter(Blank, to, to + room)
            /\ copy = NoCopyCount /\ size = 0 /\ tphase = "copying"

(* One turn of copy_to: the rest of the source page is handed to the       *)
(* writer and the reader moves on by what was written; its page index      *)
(* stays where it is.                                                      *)
CopyTo ==
    LET at == rd.page_index * Page + PageOffset(rd)
        n == Least(Remaining(rd), Page - PageOffset(rd))
        r == CapWriteRegion(wr, copy, SubSeq(rd.mem, at + 1, at + n))
    IN  /\ tphase = "copying" /\ Remaining(rd) # 0
        /\ wr' = r.w /\ copy' = r.c
        /\ size' = size + r.size
        /\ rd' = [rd EXCEPT !.offset = @ + r.size]
        /\ tphase' = IF r.end THEN "done" ELSE tphase
        /\ UNCHANGED <<message, dead, where>>

CopyEnds ==
    /\ tphase = "copying" /\ Remaining(rd) = 0
    /\ tphase' = "done"
    /\ UNCHANGED <<message, dead, rd, wr, copy, size, where>>

TransferNext == CopyTo \/ CopyEnds

TransferSpec == TransferInit /\ [][TransferNext]_transferVars

-----------------------------------------------------------------------------
(* What the receiver's memory holds when the message was copied: the count *)
(* and the cloned ids and the data, as far as the buffer reaches, and      *)
(* nothing past the buffer.                                                *)
Delivered ==
    LET bs == WordOf(message.caps)
                  \o FlattenSeq([i \in 1 .. message.caps |-> WordOf(IF 10 + i \in dead THEN 0 ELSE 110 + i)])
                  \o [i \in 1 .. message.data |-> 200 + i]
    IN  /\ size = Least(Len(bs), where.room)
        /\ wr.mem = IF where.room < Word THEN Blank ELSE Stored(Blank, where.to, SubSeq(bs, 1, size))

(* The message lies in one page of the sender, and no page of the receiver *)
(* ends just after the count or an id with more of the message to come.    *)
WithoutSeam ==
    LET len == Word * (1 + message.caps) + message.data
    IN  /\ (where.from % Page) + len <= Page
        /\ \A j \in 1 .. 1 + message.caps :
               (where.to + Word * j) % Page = 0 => Least(len, where.room) <= Word * j

(* A message that crosses no page but inside its data on the receiver's    *)
(* side arrives as it was sent, every id replaced by its clone or by the   *)
(* null id, cut where the receiver's buffer ends and never written past it.*)
CopiesWithinPage == tphase = "done" /\ WithoutSeam => Delivered

(* What write_region and copy_to promise of any message the receiver has   *)
(* room for: it is copied, on however many pages it lies.                  *)
CopiesMessage ==
    tphase = "done" /\ where.room >= Word * (1 + message.caps) + message.data => Delivered
=============================================================================
