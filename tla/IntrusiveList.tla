--------------------------- MODULE IntrusiveList ----------------------------
(***************************************************************************)
(* The intrusive doubly linked list of bit_utils/src/container, on which   *)
(* the heaps of the kernel and of userspace keep their zones and their     *)
(* free nodes: pointers in the nodes, cursors that insert and remove       *)
(* between two nodes, and iterators that meet in the middle.               *)
(*                                                                         *)
(* The variable content is the reference: the sequences the lists stand    *)
(* for, and the place of the cursor in one of them.                        *)
(***************************************************************************)
EXTENDS Integers, Sequences, FiniteSets, TLC, SequencesExt

CONSTANTS Lists, Nodes, Null

VARIABLES
  mem,      \* nx, pv: the pointers in the nodes; lst: start, end and len
  cursor,   \* CursorMut: the list it borrows, prev and next
  iter,     \* Iter: start, end, len, and what it has yielded
  content   \* seq: the sequences meant; pos: elements before the cursor

ilVars == <<mem, cursor, iter, content>>

EmptyList == [start |-> Null, end |-> Null, len |-> 0]

NoCursor == [list |-> Null, prev |-> Null, next |-> Null]

NoIter == [list |-> Null, start |-> Null, end |-> Null, len |-> 0, front |-> <<>>, back |-> <<>>]

IlInit ==
  /\ mem = [nx |-> [n \in Nodes |-> Null], pv |-> [n \in Nodes |-> Null],
            lst |-> [l \in Lists |-> EmptyList]]
  /\ cursor = NoCursor /\ iter = NoIter
  /\ content = [seq |-> [l \in Lists |-> <<>>], pos |-> 0]

-----------------------------------------------------------------------------
(* Nodes and cursors, on a given memory m                                  *)

(***************************************************************************)
(* n steps along the pointers p from a node.                               *)
(***************************************************************************)
Follow(p, node, n) ==
  LET f[k \in 0..n] == IF k = 0 THEN node ELSE p[f[k - 1]] IN f[n]

(***************************************************************************)
(* get_node: from the nearer end.                                          *)
(***************************************************************************)
GetNode(m, l, index) ==
  LET a == m.lst[l] IN
  IF index >= a.len THEN Null
  ELSE IF index * 2 > a.len THEN Follow(m.pv, a.end, a.len - index - 1)
  ELSE Follow(m.nx, a.start, index)

CursorAtMut(m, l, index) ==
  IF index = 0 THEN [list |-> l, prev |-> Null, next |-> GetNode(m, l, 0)]
  ELSE LET node == GetNode(m, l, index - 1) IN [list |-> l, prev |-> node, next |-> m.nx[node]]

CursorStartMut(m, l) == CursorAtMut(m, l, 0)

CursorEndMut(m, l) == CursorAtMut(m, l, m.lst[l].len)

MovePrev(m, c) == IF c.prev = Null THEN c ELSE [c EXCEPT !.next = c.prev, !.prev = m.pv[c.prev]]

MoveNext(m, c) == IF c.next = Null THEN c ELSE [c EXCEPT !.prev = c.next, !.next = m.nx[c.next]]

InsertInner(m, c, v) ==
  [nx  |-> [n \in Nodes |-> IF n = v THEN c.next ELSE IF n = c.prev THEN v ELSE m.nx[n]],
   pv  |-> [n \in Nodes |-> IF n = v THEN c.prev ELSE IF n = c.next THEN v ELSE m.pv[n]],
   lst |-> [m.lst EXCEPT ![c.list] = [start |-> IF c.prev = Null THEN v ELSE @.start,
                                      end   |-> IF c.next = Null THEN v ELSE @.end,
                                      len   |-> @.len + 1]]]

(***************************************************************************)
(* Mutant: the end of the list is not moved.                               *)
(***************************************************************************)
RemoveInnerKeepsEnd(m, c, v) ==
  [nx  |-> [n \in Nodes |-> IF n = m.pv[v] THEN m.nx[v] ELSE m.nx[n]],
   pv  |-> [n \in Nodes |-> IF n = m.nx[v] THEN m.pv[v] ELSE m.pv[n]],
   lst |-> [m.lst EXCEPT ![c.list] = [start |-> IF m.pv[v] = Null THEN m.nx[v] ELSE @.start,
                                      end   |-> @.end,
                                      len   |-> @.len - 1]]]

RemoveInner(m, c, v) ==
  [nx  |-> [n \in Nodes |-> IF n = m.pv[v] THEN m.nx[v] ELSE m.nx[n]],
   pv  |-> [n \in Nodes |-> IF n = m.nx[v] THEN m.pv[v] ELSE m.pv[n]],
   lst |-> [m.lst EXCEPT ![c.list] = [start |-> IF m.pv[v] = Null THEN m.nx[v] ELSE @.start,
                                      end   |-> IF m.nx[v] = Null THEN m.pv[v] ELSE @.end,
                                      len   |-> @.len - 1]]]

-----------------------------------------------------------------------------
(* Operations on a list nobody borrows                                     *)

Borrowed(l) == l \in {cursor.list, iter.list}

Fresh(v) == \A l \in Lists : v \notin ToSet(content.seq[l])

NewSeq(l, s) == content' = [content EXCEPT !.seq[l] = s]

Push(l, v) ==
  /\ ~Borrowed(l) /\ Fresh(v)
  /\ mem' = InsertInner(mem, CursorEndMut(mem, l), v)
  /\ NewSeq(l, Append(content.seq[l], v))
  /\ UNCHANGED <<cursor, iter>>

Pop(l) ==
  LET c == CursorEndMut(mem, l) IN
  /\ ~Borrowed(l) /\ c.prev # Null
  /\ mem' = RemoveInner(mem, c, c.prev)
  /\ NewSeq(l, Front(content.seq[l]))
  /\ UNCHANGED <<cursor, iter>>

PushFront(l, v) ==
  /\ ~Borrowed(l) /\ Fresh(v)
  /\ mem' = InsertInner(mem, CursorStartMut(mem, l), v)
  /\ NewSeq(l, <<v>> \o content.seq[l])
  /\ UNCHANGED <<cursor, iter>>

PopFront(l) ==
  LET c == CursorStartMut(mem, l) IN
  /\ ~Borrowed(l) /\ c.next # Null
  /\ mem' = RemoveInner(mem, c, c.next)
  /\ NewSeq(l, Tail(content.seq[l]))
  /\ UNCHANGED <<cursor, iter>>

InsertIndex(l, index, v) ==
  /\ ~Borrowed(l) /\ Fresh(v) /\ index <= mem.lst[l].len
  /\ mem' = InsertInner(mem, CursorAtMut(mem, l, index), v)
  /\ NewSeq(l, InsertAt(content.seq[l], index + 1, v))
  /\ UNCHANGED <<cursor, iter>>

RemoveIndex(l, index) ==
  LET c == CursorAtMut(mem, l, index) IN
  /\ ~Borrowed(l) /\ index < mem.lst[l].len
  /\ mem' = RemoveInner(mem, c, c.next)
  /\ NewSeq(l, RemoveAt(content.seq[l], index + 1))
  /\ UNCHANGED <<cursor, iter>>

(***************************************************************************)
(* append: the nodes of the other list follow, and the other is empty.     *)
(***************************************************************************)
AppendList(l, o) ==
  LET a == mem.lst[l]  b == mem.lst[o] IN
  /\ l # o /\ ~Borrowed(l) /\ ~Borrowed(o) /\ b.len # 0
  /\ mem' = IF a.len = 0 THEN [mem EXCEPT !.lst[l] = b, !.lst[o] = EmptyList]
            ELSE [mem EXCEPT !.nx[a.end] = b.start, !.pv[b.start] = a.end,
                             !.lst[l] = [start |-> a.start, end |-> b.end, len |-> a.len + b.len],
                             !.lst[o] = EmptyList]
  /\ content' = [content EXCEPT !.seq[l] = @ \o content.seq[o], !.seq[o] = <<>>]
  /\ UNCHANGED <<cursor, iter>>

-----------------------------------------------------------------------------
(* A cursor lives for several operations                                   *)

CursorOpen(l, index) ==
  /\ cursor = NoCursor /\ ~Borrowed(l) /\ index <= mem.lst[l].len
  /\ cursor' = CursorAtMut(mem, l, index)
  /\ content' = [content EXCEPT !.pos = index]
  /\ UNCHANGED <<mem, iter>>

CursorMove ==
  /\ cursor # NoCursor
  /\ \/ /\ cursor.prev # Null
        /\ cursor' = MovePrev(mem, cursor)
        /\ content' = [content EXCEPT !.pos = @ - 1]
     \/ /\ cursor.next # Null
        /\ cursor' = MoveNext(mem, cursor)
        /\ content' = [content EXCEPT !.pos = @ + 1]
  /\ UNCHANGED <<mem, iter>>

InsertPrev(v) ==
  /\ cursor # NoCursor /\ Fresh(v)
  /\ mem' = InsertInner(mem, cursor, v)
  /\ cursor' = [cursor EXCEPT !.prev = v]
  /\ content' = [content EXCEPT !.seq[cursor.list] = InsertAt(@, content.pos + 1, v), !.pos = @ + 1]
  /\ UNCHANGED iter

InsertNext(v) ==
  /\ cursor # NoCursor /\ Fresh(v)
  /\ mem' = InsertInner(mem, cursor, v)
  /\ cursor' = [cursor EXCEPT !.next = v]
  /\ content' = [content EXCEPT !.seq[cursor.list] = InsertAt(@, content.pos + 1, v)]
  /\ UNCHANGED iter

RemovePrev ==
  /\ cursor # NoCursor /\ cursor.prev # Null
  /\ mem' = RemoveInner(mem, cursor, cursor.prev)
  /\ cursor' = [cursor EXCEPT !.prev = mem.pv[cursor.prev]]
  /\ content' = [content EXCEPT !.seq[cursor.list] = RemoveAt(@, content.pos), !.pos = @ - 1]
  /\ UNCHANGED iter

RemoveNext ==
  /\ cursor # NoCursor /\ cursor.next # Null
  /\ mem' = RemoveInner(mem, cursor, cursor.next)
  /\ cursor' = [cursor EXCEPT !.next = mem.nx[cursor.next]]
  /\ content' = [content EXCEPT !.seq[cursor.list] = RemoveAt(@, content.pos + 1)]
  /\ UNCHANGED iter

CursorClose ==
  /\ cursor # NoCursor
  /\ cursor' = NoCursor
  /\ content' = [content EXCEPT !.pos = 0]
  /\ UNCHANGED <<mem, iter>>

-----------------------------------------------------------------------------
(* Iterators                                                               *)

IterOpen(l) ==
  /\ iter = NoIter /\ ~Borrowed(l)
  /\ iter' = [NoIter EXCEPT !.list = l, !.start = mem.lst[l].start, !.end = mem.lst[l].end,
                            !.len = mem.lst[l].len]
  /\ UNCHANGED <<mem, cursor, content>>

IterNext ==
  /\ iter.len # 0
  /\ iter' = [iter EXCEPT !.start = mem.nx[@], !.len = @ - 1, !.front = Append(@, iter.start)]
  /\ UNCHANGED <<mem, cursor, content>>

IterNextBack ==
  /\ iter.len # 0
  /\ iter' = [iter EXCEPT !.end = mem.pv[@], !.len = @ - 1, !.back = <<iter.end>> \o @]
  /\ UNCHANGED <<mem, cursor, content>>

IterClose ==
  /\ iter # NoIter /\ iter.len = 0
  /\ iter' = NoIter
  /\ UNCHANGED <<mem, cursor, content>>

-----------------------------------------------------------------------------

IlNext ==
  \/ \E l \in Lists, v \in Nodes : Push(l, v) \/ PushFront(l, v)
  \/ \E l \in Lists : Pop(l) \/ PopFront(l) \/ IterOpen(l)
  \/ \E l \in Lists, i \in 0 .. Cardinality(Nodes) : CursorOpen(l, i) \/ RemoveIndex(l, i)
  \/ \E l \in Lists, i \in 0 .. Cardinality(Nodes), v \in Nodes : InsertIndex(l, i, v)
  \/ \E l, o \in Lists : AppendList(l, o)
  \/ CursorMove \/ RemovePrev \/ RemoveNext \/ CursorClose
  \/ \E v \in Nodes : InsertPrev(v) \/ InsertNext(v)
  \/ IterNext \/ IterNextBack \/ IterClose

IlSpec == IlInit /\ [][IlNext]_ilVars

-----------------------------------------------------------------------------
(* Properties                                                              *)

At(s, i) == IF i \in DOMAIN s THEN s[i] ELSE Null

(***************************************************************************)
(* The pointers always stand for the sequence the operations should have   *)
(* made: every node points to its neighbours both ways, start, end and len *)
(* agree, the nearer-end search of get_node finds every element, a cursor  *)
(* stays between the elements it was left between, and an iterator used    *)
(* from both ends has yielded the two ends of the sequence.                *)
(***************************************************************************)
PointersExact ==
  /\ \A l \in Lists :
       LET s == content.seq[l]  a == mem.lst[l] IN
       /\ a.len = Len(s) /\ a.start = At(s, 1) /\ a.end = At(s, Len(s))
       /\ \A i \in DOMAIN s : mem.nx[s[i]] = At(s, i + 1) /\ mem.pv[s[i]] = At(s, i - 1)
       /\ \A i \in 0 .. Len(s) : GetNode(mem, l, i) = At(s, i + 1)
  /\ cursor # NoCursor =>
       LET s == content.seq[cursor.list] IN
       cursor.prev = At(s, content.pos) /\ cursor.next = At(s, content.pos + 1)
  /\ iter # NoIter =>
       LET s == content.seq[iter.list] IN
       /\ iter.front = SubSeq(s, 1, Len(iter.front))
       /\ iter.back = SubSeq(s, Len(s) - Len(iter.back) + 1, Len(s))
       /\ iter.len = Len(s) - Len(iter.front) - Len(iter.back)
=============================================================================
