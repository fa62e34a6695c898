-------------------------------- MODULE Heap --------------------------------
(***************************************************************************)
(* The heap: alloc/linked_list_allocator.rs of the kernel and its copy in  *)
(* aurora_core/src/allocator/mod.rs, which also tells the message buffer   *)
(* of an allocation.  Zones of whole pages are asked for as needed; a zone *)
(* begins with its own header and keeps a list of its free nodes, each at  *)
(* least a chunk, from the end of which memory is handed out.  The zones   *)
(* and the nodes are on lists of module IntrusiveList, here sequences.     *)
(*                                                                         *)
(* The size of a block is not stored: dealloc computes it from the layout. *)
(***************************************************************************)
EXTENDS Integers, Sequences, FiniteSets, TLC, SequencesExt, FiniteSetsExt, Folds

CONSTANTS
  Chunk,        \* CHUNK_SIZE
  InitialChunk, \* INITIAL_CHUNK_SIZE, the header of a zone
  ZoneSize,     \* HEAP_ZONE_SIZE
  ZoneStarts,   \* where the page allocator can place a zone
  Sizes, Aligns,
  MaxLive       \* bound: blocks in use at a time

VARIABLES
  zones,  \* base, size, free: free_space, nodes: the free nodes in order
  live    \* the blocks in use: addr, layout, len, buffer

heapVars == <<zones, live>>

HeapInit == zones = <<>> /\ live = {}

AlignDown(a, n) == a - (a % n)

AlignUp(a, n) == AlignDown(a + n - 1, n)

Larger(a, b) == IF a > b THEN a ELSE b

Node(addr, size) == [addr |-> addr, size |-> size]

(***************************************************************************)
(* get_allocation: the size a block has, from its layout.                  *)
(***************************************************************************)
GetAllocation(layout) == AlignUp(layout.size, Larger(Chunk, layout.align))

-----------------------------------------------------------------------------
(* A free node                                                             *)

(***************************************************************************)
(* resize: where a block of this layout begins at the end of the node.     *)
(***************************************************************************)
ResizeAddr(n, layout) == AlignDown(n.addr + n.size - layout.size, Larger(layout.align, Chunk))

Fits(n, layout) == n.size >= layout.size /\ ResizeAddr(n, layout) >= n.addr

(***************************************************************************)
(* merge: two nodes that touch become one.                                 *)
(***************************************************************************)
Touch(a, b) == a.addr + a.size = b.addr

-----------------------------------------------------------------------------
(* A zone                                                                  *)

NewZone(base, size) ==
  [base |-> base, size |-> size, free |-> size - InitialChunk,
   nodes |-> <<Node(base + InitialChunk, size - InitialChunk)>>]

ZoneContains(z, addr, size) == addr >= z.base + Chunk /\ addr + size <= z.base + Chunk + z.size

(***************************************************************************)
(* message_buffer_for_allocation: the block as part of the zone's memory.  *)
(***************************************************************************)
MessageBuffer(z, addr, size) == [memory |-> z.base, offset |-> addr - z.base, size |-> size]

CanAlloc(z, layout) == layout.size <= z.free /\ \E i \in DOMAIN z.nodes : Fits(z.nodes[i], layout)

(***************************************************************************)
(* HeapZone::alloc: the first node that fits gives its end, or all of it   *)
(* if less than a chunk would be left.                                     *)
(***************************************************************************)
ZoneAlloc(z, layout) ==
  LET i    == CHOOSE j \in DOMAIN z.nodes : Fits(z.nodes[j], layout)
                /\ \A k \in DOMAIN z.nodes : k < j => ~Fits(z.nodes[k], layout)
      n    == z.nodes[i]
      at   == ResizeAddr(n, layout)
      left == at - n.addr
      len  == IF left >= Chunk THEN n.size - left ELSE n.size
  IN [zone  |-> [z EXCEPT !.free = @ - len,
                          !.nodes = IF left >= Chunk THEN [@ EXCEPT ![i].size = left] ELSE RemoveAt(@, i)],
      block |-> [addr |-> at, layout |-> layout, len |-> len, buffer |-> MessageBuffer(z, at, len)]]

(***************************************************************************)
(* HeapZone::dealloc: the block is a node again, merged with the one       *)
(* before it and the one after it.                                         *)
(***************************************************************************)
ZoneDealloc(z, addr, size) ==
  LET p      == Cardinality({i \in DOMAIN z.nodes : z.nodes[i].addr <= addr})
      new    == Node(addr, size)
      before == SubSeq(z.nodes, 1, p)
      after  == SubSeq(z.nodes, p + 1, Len(z.nodes))
      left   == IF p > 0 /\ Touch(z.nodes[p], new)
                THEN [before EXCEPT ![p].size = @ + size] ELSE Append(before, new)
      nodes  == IF after # <<>> /\ Touch(Last(left), Head(after))
                THEN [left EXCEPT ![Len(left)].size = @ + Head(after).size] \o Tail(after)
                ELSE left \o after
  IN [z EXCEPT !.nodes = nodes, !.free = @ + size]

-----------------------------------------------------------------------------
(* The allocator, under its lock                                           *)

HasRoom(layout) == {i \in DOMAIN zones : CanAlloc(zones[i], layout)}

Lowest(S) == CHOOSE i \in S : \A j \in S : i <= j

AllocFrom(zs, i, layout) ==
  LET r == ZoneAlloc(zs[i], layout) IN [zones |-> [zs EXCEPT ![i] = r.zone], block |-> r.block]

(***************************************************************************)
(* alloc: the first zone with room, or a new zone, if there are pages and  *)
(* wherever they are.                                                      *)
(***************************************************************************)
AllocInner(layout) ==
  LET size   == AlignUp(Larger(ZoneSize, layout.size + Larger(layout.align, Chunk) + InitialChunk), ZoneSize)
      places == {b \in ZoneStarts : \A i \in DOMAIN zones :
                   b >= zones[i].base + zones[i].size \/ b + size <= zones[i].base}
  IN IF HasRoom(layout) # {} THEN {AllocFrom(zones, Lowest(HasRoom(layout)), layout)}
     ELSE {AllocFrom(Append(zones, NewZone(b, size)), Len(zones) + 1, layout) : b \in places}

Alloc(layout) ==
  /\ Cardinality(live) < MaxLive
  /\ \E r \in AllocInner(layout) : zones' = r.zones /\ live' = live \cup {r.block}

(***************************************************************************)
(* dealloc of the block b: the first zone that contains it takes it back.  *)
(***************************************************************************)
Deallocated(zs, b) ==
  LET size == GetAllocation(b.layout)
      i    == Lowest({j \in DOMAIN zs : ZoneContains(zs[j], b.addr, size)})
  IN [zs EXCEPT ![i] = ZoneDealloc(zs[i], b.addr, size)]

(***************************************************************************)
(* Mutant: the block goes back with the size of its layout.                *)
(***************************************************************************)
DeallocUnrounded(b) ==
  /\ zones' = [i \in DOMAIN zones |-> IF ZoneContains(zones[i], b.addr, b.layout.size)
                                      THEN ZoneDealloc(zones[i], b.addr, b.layout.size) ELSE zones[i]]
  /\ live' = live \ {b}

Dealloc(b) ==
  /\ zones' = Deallocated(zones, b)
  /\ live' = live \ {b}

(***************************************************************************)
(* realloc: a new block, the old contents copied into it, and the old      *)
(* block given back.  The copy is of the old size: only growing works.     *)
(***************************************************************************)
Realloc(b, layout) ==
  /\ layout.size >= b.layout.size
  /\ \E r \in AllocInner(layout) :
       zones' = Deallocated(r.zones, b) /\ live' = (live \ {b}) \cup {r.block}

-----------------------------------------------------------------------------

Layouts == [size : Sizes, align : Aligns]

HeapNext ==
  \/ \E l \in Layouts : Alloc(l)
  \/ \E b \in live : Dealloc(b) \/ \E l \in Layouts : l.align = b.layout.align /\ Realloc(b, l)

HeapSpec == HeapInit /\ [][HeapNext]_heapVars

-----------------------------------------------------------------------------
(* Properties                                                              *)

Span(addr, size) == addr .. addr + size - 1

(***************************************************************************)
(* Every byte of a zone behind its header belongs to exactly one free node *)
(* or block in use, free_space is what the nodes add up to, the nodes are  *)
(* in order with something in use between any two, and the message buffer  *)
(* of a block names the bytes of the block.                                *)
(***************************************************************************)
HeapExact ==
  \A i \in DOMAIN zones :
    LET z     == zones[i]
        mine  == {b \in live : b.buffer.memory = z.base}
        nodes == ToSet(z.nodes)
    IN /\ UNION {Span(n.addr, n.size) : n \in nodes} \cup UNION {Span(b.addr, b.len) : b \in mine}
            = Span(z.base + InitialChunk, z.size - InitialChunk)
       /\ FoldSeq(LAMBDA n, s : s + n.size, 0, z.nodes) = z.free
       /\ FoldSet(LAMBDA b, s : s + b.len, 0, mine) + z.free = z.size - InitialChunk
       /\ \A j \in 1 .. Len(z.nodes) - 1 : z.nodes[j].addr + z.nodes[j].size < z.nodes[j + 1].addr
       /\ \A b \in mine : z.base + b.buffer.offset = b.addr /\ b.layout.size <= b.len
                          /\ b.addr % b.layout.align = 0
=============================================================================
