------------------------------ MODULE PageTable ------------------------------
(***************************************************************************)
(* The page tables of one address space: VirtAddrSpace and PageTable.      *)
(*                                                                         *)
(* The code has four levels of 512 entries; here both are constants.  The  *)
(* tables of an address space are a function whose domain is the set of    *)
(* paths (sequences of indices) at which a table exists, <<>> being the    *)
(* pml4 table.  A table keeps the number of its present entries in unused  *)
(* bits of its first entry, which decides when it is given back.           *)
(***************************************************************************)
EXTENDS Integers, Sequences, FiniteSets, TLC, SequencesExt, FiniteSetsExt

CONSTANTS
  Levels,      \* levels of tables, 4 in the code
  Fan,         \* entries of a table, 512 in the code
  Absent, ToTable, Kernel   \* an entry that is not present, points to a table,
                            \* or is the shared entry of the kernel's half

ASSUME PageTableAssumption ==
  /\ Levels \in Nat \ {0, 1} /\ Fan \in Nat \ {0, 1}
  /\ Cardinality({Absent, ToTable, Kernel}) = 3

Indices == 0 .. Fan - 1

LastIndex == Fan - 1

(***************************************************************************)
(* The pages below KERNEL_START: the last entry of the root is the         *)
(* kernel's.                                                               *)
(***************************************************************************)
UserPages == 0 .. LastIndex * Fan ^ (Levels - 1) - 1

(***************************************************************************)
(* page_table_indicies: the index of a page in every level.                *)
(***************************************************************************)
PageTableIndices(page) ==
  [l \in 1..Levels |-> (page \div Fan ^ (Levels - l)) % Fan]

TablePath(page, depth) == SubSeq(PageTableIndices(page), 1, depth)

LeafPath(page) == TablePath(page, Levels - 1)

LeafIndex(page) == page % Fan

-----------------------------------------------------------------------------
(* One table                                                               *)

NewTable == [ent |-> [i \in Indices |-> Absent], cnt |-> 0]

Present(table, i) == table.ent[i] # Absent

(***************************************************************************)
(* Mutant: the count is stored before the pointer, which overwrites it     *)
(* when the index is 0.                                                    *)
(***************************************************************************)
AddEntryCountFirst(table, i, entry) ==
  [table EXCEPT !.ent[i] = entry,
                !.cnt = IF i = 0 THEN 0
                        ELSE IF Present(table, i) THEN @ ELSE @ + 1]

AddEntry(table, i, entry) ==
  [table EXCEPT !.ent[i] = entry,
                !.cnt = IF Present(table, i) THEN @ ELSE @ + 1]

RemoveEntry(table, i) ==
  IF Present(table, i)
  THEN [table EXCEPT !.ent[i] = Absent, !.cnt = @ - 1]
  ELSE table

-----------------------------------------------------------------------------
(* VirtAddrSpace                                                           *)

(***************************************************************************)
(* The tables of an address space and the number of free frames they are   *)
(* taken from: which frame the allocator hands out makes no difference.    *)
(***************************************************************************)
NewAddrSpace(free) ==
  [pt |-> <<>> :> AddEntry(NewTable, LastIndex, Kernel), free |-> free - 1]

GetOrAlloc(s, path, i) ==
  IF ~s.ok THEN s
  ELSE IF Present(s.pt[path], i) THEN s
  ELSE IF s.free = 0 THEN [s EXCEPT !.ok = FALSE]
  ELSE [s EXCEPT !.pt = (Append(path, i) :> NewTable)
                          @@ [@ EXCEPT ![path] = AddEntry(@, i, ToTable)],
                 !.free = @ - 1]

(***************************************************************************)
(* map_page.  A failure keeps the tables that were already allocated.      *)
(* Memory with no permission at all is refused, and a page of the kernel's *)
(* half fails the assertion.                                               *)
(***************************************************************************)
WalkTo(s, idx) ==
  LET walk[l \in 0 .. Levels - 1] ==
        IF l = 0 THEN s ELSE GetOrAlloc(walk[l - 1], SubSeq(idx, 1, l - 1), idx[l])
  IN  walk[Levels - 1]

EnterLeaf(walk, act) ==
  IF ~walk.ok THEN walk
  ELSE [walk EXCEPT !.pt[LeafPath(act.page)] = AddEntry(@, LeafIndex(act.page), act.entry)]

MapPage(s, act) ==
  IF act.page \notin UserPages THEN [s EXCEPT !.ok = FALSE, !.stop = "beyond"]
  ELSE IF act.exists THEN EnterLeaf(WalkTo(s, PageTableIndices(act.page)), act)
  ELSE [s EXCEPT !.ok = FALSE]

IsMapped(pt, page) == \A d \in 0 .. Levels - 1 : TablePath(page, d) \in DOMAIN pt

(***************************************************************************)
(* The depth of the first table that unmap_page gives back: tables are     *)
(* emptied from the leaf upwards, the root never.                          *)
(***************************************************************************)
DeallocStart(pt, page) ==
  LET idx == PageTableIndices(page)
      LeftEmpty(d) == RemoveEntry(pt[TablePath(page, d)], idx[d + 1]).cnt = 0
      Emptied(d) == \A e \in d .. Levels - 1 : LeftEmpty(e)
  IN  Min({Levels} \cup {d \in 1 .. Levels - 1 : Emptied(d)})

(***************************************************************************)
(* unmap_page of a page that has a translation.                            *)
(***************************************************************************)
UnmapFrom(s, page, start) ==
  LET gone  == {TablePath(page, d) : d \in start .. Levels - 1}
      last  == TablePath(page, start - 1)
      index == PageTableIndices(page)[start]
  IN  [s EXCEPT !.pt = [p \in DOMAIN s.pt \ gone |->
                          IF p = last THEN RemoveEntry(s.pt[p], index) ELSE s.pt[p]],
                !.free = @ + Cardinality(gone)]

UnmapPage(s, page) == UnmapFrom(s, page, DeallocStart(s.pt, page))

(***************************************************************************)
(* What the processor finds for a page when it walks the tables.           *)
(***************************************************************************)
Translate(pt, page) ==
  IF IsMapped(pt, page) THEN pt[LeafPath(page)].ent[LeafIndex(page)] ELSE Absent

(***************************************************************************)
(* Unmapping several pages.  A page without a translation stops the        *)
(* kernel: where a table is missing unmap_page returns None and its        *)
(* callers panic, and where only the entry is missing unmap_page panics    *)
(* itself, because it converts the null address of the entry.              *)
(***************************************************************************)
UnmapNext(s, page) ==
  IF s.stop # "no" THEN s
  ELSE IF Translate(s.pt, page) # Absent THEN UnmapPage(s, page)
  ELSE [s EXCEPT !.stop = "absent"]

UnmapPages(s, pages) ==
  LET done[i \in 0 .. Len(pages)] == IF i = 0 THEN s ELSE UnmapNext(done[i - 1], pages[i])
  IN  done[Len(pages)]

(***************************************************************************)
(* map_many: when a page cannot be mapped the ones before it are unmapped. *)
(***************************************************************************)
Counted(next, n) == [s |-> next, n |-> IF next.ok THEN n + 1 ELSE n]

MapNext(acc, act) == IF acc.s.ok THEN Counted(MapPage(acc.s, act), acc.n) ELSE acc

MapEach(s, acts) ==
  LET done[i \in 0 .. Len(acts)] ==
        IF i = 0 THEN [s |-> s, n |-> 0] ELSE MapNext(done[i - 1], acts[i])
  IN  done[Len(acts)]

Undone(done, acts) ==
  IF done.s.ok \/ done.s.stop # "no" THEN done.s
  ELSE UnmapPages(done.s, [i \in 1 .. done.n |-> acts[i].page])

MapMany(s, acts) == Undone(MapEach(s, acts), acts)

(***************************************************************************)
(* How many tables dealloc_recurse gives back: all that it reaches from    *)
(* the root; the kernel's entry is skipped.                                *)
(***************************************************************************)
DeallocAll(pt) ==
  Cardinality({p \in DOMAIN pt :
     \A d \in 1 .. Len(p) :
        /\ SubSeq(p, 1, d - 1) \in DOMAIN pt
        /\ pt[SubSeq(p, 1, d - 1)].ent[p[d]] = ToTable})

-----------------------------------------------------------------------------

(***************************************************************************)
(* Every table other than the root hangs in its parent, a count is the     *)
(* number of present entries, and no table above a translation is shared.  *)
(***************************************************************************)
TablesSound(pt) ==
  /\ <<>> \in DOMAIN pt
  /\ \A p \in DOMAIN pt :
       /\ pt[p].cnt = Cardinality({i \in Indices : Present(pt[p], i)})
       /\ \A i \in Indices :
            (pt[p].ent[i] = ToTable) <=> (Append(p, i) \in DOMAIN pt)
       /\ p # <<>> => Front(p) \in DOMAIN pt
       /\ Len(p) = Levels - 1 => pt[p].cnt > 0
=============================================================================
