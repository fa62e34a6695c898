------------------------------- MODULE Memory -------------------------------
(***************************************************************************)
(* Memory capabilities and address spaces.  A memory capability owns pages *)
(* and knows where it is mapped; an address space has page tables and a    *)
(* list of what is mapped where.  An operation on a mapping holds the lock *)
(* of the memory and then the lock of the address space until it returns,  *)
(* so it is one step.  address_space_unmap and memory_update_mapping first *)
(* look the memory up under the lock of the address space alone, let go of *)
(* it, and then take both: they are two steps.                             *)
(*                                                                         *)
(* Sizes, offsets and addresses are in pages.  A panic stops the kernel.   *)
(***************************************************************************)
EXTENDS PageTable

CONSTANTS
  Cpus,
  Mems,         \* memory capabilities that can exist at a time
  Spaces,       \* address spaces that can exist at a time
  Frames,       \* how many page frames the allocator has
  MaxPages,     \* bound on the size of a memory capability
  MaxMaps,      \* bound on the mappings that exist at a time
  MaxLoad,      \* bound on the pages of all memory and the mappings together
  PhysPages,    \* the size of the physical memory region a driver maps
  Sources,      \* the page sources memory is created and grown from
  MapAddrs,     \* the addresses memory is mapped at
  MapOptions,   \* the permissions memory is mapped with
  NewOptions,   \* the permissions mappings are changed to
  HeapFails,    \* whether the kernel heap may be exhausted
  Idle

(***************************************************************************)
(* PageData, without Cow, which nothing creates.  A frame is named after   *)
(* the memory and the index of the page it holds.                          *)
(***************************************************************************)
PageData == {"Owned", "LazyAlloc"}

ASSUME MemoryAssumption ==
  /\ Frames \in Nat
  /\ MaxPages \in Nat \ {0} /\ MaxMaps \in Nat /\ MaxLoad \in Nat /\ PhysPages \in Nat
  /\ Sources \subseteq PageData
  /\ MapAddrs \subseteq UserPages
  /\ MapOptions \cup NewOptions \subseteq SUBSET {"r", "w"}
  /\ HeapFails \in BOOLEAN

VARIABLES
  free,    \* how many frames nobody uses
  leaked,  \* how many frames nobody can give back any more
  mem,     \* the memory capabilities
  spc,     \* the address spaces
  cpu,     \* the second half of a system call a cpu has to do
  raced,   \* history: cpus whose lookup has been overtaken
  mixed,   \* history: two mappings have met in one page
  panic    \* why the kernel stopped, and on which cpu

vars == <<free, leaked, mem, spc, cpu, raced, mixed, panic>>

OwnedPages(pages) == Cardinality({i \in DOMAIN pages : pages[i] = "Owned"})

NoMem == [alive |-> FALSE, cap |-> FALSE, size |-> 0, pages |-> <<>>, maps |-> <<>>]

NoSpace == [alive |-> FALSE, list |-> <<>>, pt |-> <<>>]

Init ==
  /\ free = Frames /\ leaked = 0
  /\ mem = [m \in Mems |-> NoMem]
  /\ spc = [s \in Spaces |-> NoSpace]
  /\ cpu = [c \in Cpus |-> Idle]
  /\ raced = {} /\ mixed = FALSE /\ panic = <<>>

-----------------------------------------------------------------------------
(* Lifetimes                                                               *)

(***************************************************************************)
(* A memory lives while a capability, an address space where it is mapped  *)
(* or a system call holds it.                                              *)
(***************************************************************************)
Held(m, mems, spaces, cpus) ==
  \/ mems[m].cap
  \/ \E s \in Spaces : \E a \in DOMAIN spaces[s].list : spaces[s].list[a].mem = m
  \/ \E c \in Cpus : cpus[c] # Idle /\ cpus[c].mem = m

SumOver(S, Op(_)) == FoldSet(LAMBDA x, acc : Op(x) + acc, 0, S)

(***************************************************************************)
(* The new state, in which memory that nobody holds any more is dropped    *)
(* together with its pages.                                                *)
(***************************************************************************)
Become(frames, mems, spaces, cpus) ==
  LET dead == {m \in Mems : mems[m].alive /\ ~Held(m, mems, spaces, cpus)} IN
  /\ free' = frames + SumOver(dead, LAMBDA m : OwnedPages(mems[m].pages))
  /\ mem' = [m \in Mems |-> IF m \in dead THEN NoMem ELSE mems[m]]
  /\ spc' = spaces
  /\ cpu' = cpus

Panic(why, by) == panic' = <<why, by>> /\ UNCHANGED <<free, leaked, mem, spc, cpu, raced, mixed>>

Running == panic = <<>>

-----------------------------------------------------------------------------
(* Pages of a memory capability                                            *)

(***************************************************************************)
(* get_allocation_size_for_layout: the allocator hands out blocks of 2^n   *)
(* pages.                                                                  *)
(***************************************************************************)
BlockSize(n) == Min({k \in {2 ^ e : e \in 0..n} : k >= n})

(***************************************************************************)
(* create_pages.  A layout of size 0 panics.                               *)
(***************************************************************************)
CreateSize(source, n) == IF source = "Owned" THEN BlockSize(n) ELSE n

CanCreate(source, n) == source = "Owned" => BlockSize(n) <= free

(***************************************************************************)
(* NewPageIter: a page for every page of the block as it came from the     *)
(* allocator, which may be larger than what was asked for.                 *)
(***************************************************************************)
CreatePages(source, n) == [i \in 1 .. CreateSize(source, n) |-> source]

(***************************************************************************)
(* get_map_size, with 0 for None.                                          *)
(***************************************************************************)
MapSizeOk(m, off, size) == off < mem[m].size /\ off + size <= mem[m].size

GetPagesForLocation(pages, off, size) == SubSeq(pages, off + 1, off + size)

(***************************************************************************)
(* mapping_iter: what has to be mapped at addr; lazy pages are skipped.    *)
(***************************************************************************)
Entry(m, i, opt) == [mem |-> m, index |-> i, write |-> "w" \in opt]

MappingIter(m, pages, addr, off, size, opt) ==
  LET part == GetPagesForLocation(pages, off, size)
      acts == [i \in 1..size |-> [page |-> addr + i - 1, exists |-> opt # {},
                                  entry |-> Entry(m, off + i, opt),
                                  owned |-> part[i] = "Owned"]]
  IN  SelectSeq(acts, LAMBDA act : act.owned)

PagesOf(acts) == [i \in DOMAIN acts |-> acts[i].page]

Tables(s, frames) == [pt |-> spc[s].pt, free |-> frames, ok |-> TRUE, stop |-> "no"]

-----------------------------------------------------------------------------
(* The list of an address space                                            *)

(***************************************************************************)
(* map_range.  For memory its length is the offset into the memory, not    *)
(* the size of the mapping.                                                *)
(***************************************************************************)
RangeSize(mapping) == IF mapping.mem = Idle THEN mapping.size ELSE mapping.off

(***************************************************************************)
(* get_mapping_insert_index finds a place: the neighbours in the list do   *)
(* not reach over the range.                                               *)
(***************************************************************************)
Insertable(s, addr, len) ==
  LET list == spc[s].list IN
  /\ addr + len <= Cardinality(UserPages)
  /\ addr \notin DOMAIN list
  /\ \A a \in DOMAIN list : a < addr /\ (\A b \in DOMAIN list : b < addr => b <= a)
       => a + RangeSize(list[a]) <= addr
  /\ \A a \in DOMAIN list : a > addr /\ (\A b \in DOMAIN list : b > addr => b >= a)
       => addr + len <= a

Inserted(list, addr, mapping) == (addr :> mapping) @@ list

Without(f, x) == [y \in DOMAIN f \ {x} |-> f[y]]

(***************************************************************************)
(* MappingId::new; only equality of identifiers matters.                   *)
(***************************************************************************)
UsedIds ==
  UNION {DOMAIN mem[m].maps : m \in Mems}
    \cup UNION {{spc[s].list[a].id : a \in DOMAIN spc[s].list} : s \in Spaces}

FreshId == Min((1 .. MaxMaps + 1) \ UsedIds)

(***************************************************************************)
(* The bounds let memory m be n pages long, and one more mapping exist.    *)
(***************************************************************************)
InBounds(m, n) ==
  n + SumOver(Mems \ {m}, LAMBDA x : mem[x].size) + Cardinality(UsedIds) <= MaxLoad

MayMapMore ==
  /\ Cardinality(UsedIds) < MaxMaps
  /\ SumOver(Mems, LAMBDA x : mem[x].size) + Cardinality(UsedIds) < MaxLoad

(***************************************************************************)
(* Two mappings of one list have a page in common.  Neither                *)
(* get_mapping_insert_index, which takes the offset of a mapping for its   *)
(* size, nor update_mapping_inner, which does not look at the neighbours,  *)
(* rules that out.                                                         *)
(***************************************************************************)
Overlapping(list) == \E a, b \in DOMAIN list : a < b /\ b < a + list[a].size

(***************************************************************************)
(* The mappings of address space s that cover a page.                      *)
(***************************************************************************)
Shown(s, page) ==
  {a \in DOMAIN spc[s].list : page \in a .. a + spc[s].list[a].size - 1}

(***************************************************************************)
(* Work for memory m at addr, which leaves these tables and this list, has *)
(* changed a page that another mapping covers, or lets two mappings        *)
(* overlap.                                                                *)
(***************************************************************************)
MixesUp(m, s, addr, pt, list) ==
  \/ Overlapping(list)
  \/ \E page \in UserPages :
       /\ \E a \in Shown(s, page) : a # addr \/ spc[s].list[a].mem # m
       /\ Translate(pt, page) # Translate(spc[s].pt, page)

(***************************************************************************)
(* The lookups of the address by other cpus are overtaken.                 *)
(***************************************************************************)
Overtaken(s, addr, by) ==
  raced' = (raced \cup {c \in Cpus : cpu[c] # Idle /\ cpu[c].space = s /\ cpu[c].addr = addr})
             \ by

-----------------------------------------------------------------------------
(* System calls that need one lock, or both from the start                 *)

(***************************************************************************)
(* Memory::new_with_page_source.                                           *)
(***************************************************************************)
NewMemory(n, pages) ==
  [alive |-> TRUE, cap |-> TRUE, size |-> n, pages |-> pages, maps |-> <<>>]

(***************************************************************************)
(* memory_new.                                                             *)
(***************************************************************************)
MemoryNew(m, n, source) ==
  LET pages == CreatePages(source, n) IN
  /\ Running /\ ~mem[m].alive /\ CanCreate(source, n) /\ InBounds(m, n)
  /\ Become(free - OwnedPages(pages), [mem EXCEPT ![m] = NewMemory(n, pages)], spc, cpu)
  /\ UNCHANGED <<leaked, raced, mixed, panic>>

(***************************************************************************)
(* address_space_new.  A name is used again once no memory remembers it.   *)
(***************************************************************************)
AddressSpaceNew(s) ==
  /\ Running /\ ~spc[s].alive /\ free > 0
  /\ \A m \in Mems : \A id \in DOMAIN mem[m].maps : mem[m].maps[id].space # s
  /\ LET new == NewAddrSpace(free) IN
     Become(new.free, mem,
            [spc EXCEPT ![s] = [alive |-> TRUE, list |-> <<>>, pt |-> new.pt]], cpu)
  /\ UNCHANGED <<leaked, raced, mixed, panic>>

(***************************************************************************)
(* The last capability of a memory is destroyed.                           *)
(***************************************************************************)
DropMemory(m) ==
  /\ Running /\ mem[m].cap
  /\ Become(free, [mem EXCEPT ![m].cap = FALSE], spc, cpu)
  /\ UNCHANGED <<leaked, raced, mixed, panic>>

(***************************************************************************)
(* Mutant: the tables of a dropped address space are not given back.       *)
(***************************************************************************)
DropSpaceKeepsTables(s) ==
  /\ Running /\ spc[s].alive
  /\ \A c \in Cpus : cpu[c] # Idle => cpu[c].space # s
  /\ Become(free, mem, [spc EXCEPT ![s] = NoSpace], cpu)
  /\ UNCHANGED <<leaked, raced, mixed, panic>>

(***************************************************************************)
(* Nobody refers to an address space any more.  Its list goes, its tables  *)
(* are given back; the memories keep their notes of where they were        *)
(* mapped.                                                                 *)
(***************************************************************************)
DropSpace(s) ==
  /\ Running /\ spc[s].alive
  /\ \A c \in Cpus : cpu[c] # Idle => cpu[c].space # s
  /\ Become(free + DeallocAll(spc[s].pt), mem, [spc EXCEPT ![s] = NoSpace], cpu)
  /\ UNCHANGED <<leaked, raced, mixed, panic>>

(***************************************************************************)
(* Mapping the pages has ended with these tables: if all of them are       *)
(* there, the mapping is in the list and the memories are mems.            *)
(***************************************************************************)
EnterMapping(s, addr, done, mapping, mems) ==
  LET list == IF done.ok THEN Inserted(spc[s].list, addr, mapping) ELSE spc[s].list IN
  IF done.stop # "no" THEN Panic(done.stop, {})
  ELSE /\ Become(done.free, IF done.ok THEN mems ELSE mem,
                 [spc EXCEPT ![s].pt = done.pt, ![s].list = list], cpu)
       /\ Overtaken(s, addr, {})
       /\ mixed' = (mixed \/ MixesUp(mapping.mem, s, addr, done.pt, list))
       /\ UNCHANGED <<leaked, panic>>

(***************************************************************************)
(* Memory::map_memory.  The mapping is entered in both lists before the    *)
(* pages are mapped, and taken out again when that fails.                  *)
(***************************************************************************)
MapMemory(m, s, addr, off, size, opt) ==
  LET loc == [space |-> s, addr |-> addr, size |-> size, off |-> off, opt |-> opt]
      id  == FreshId
  IN
  /\ MapSizeOk(m, off, size) /\ Insertable(s, addr, off)
  /\ EnterMapping(s, addr,
       MapMany(Tables(s, free), MappingIter(m, mem[m].pages, addr, off, size, opt)),
       [mem |-> m, id |-> id, size |-> size, off |-> off, opt |-> opt],
       [mem EXCEPT ![m].maps = (id :> loc) @@ @])

(***************************************************************************)
(* memory_map, of a memory capability into an address space.               *)
(***************************************************************************)
MemoryMap(m, s) ==
  /\ Running /\ mem[m].cap /\ spc[s].alive /\ MayMapMore
  /\ \E addr \in MapAddrs, off \in 0 .. MaxPages - 1, opt \in MapOptions :
       \E size \in 1 .. mem[m].size - off : MapMemory(m, s, addr, off, size, opt)

(***************************************************************************)
(* PhysMem::map.                                                           *)
(***************************************************************************)
MapPhysMem(s, addr, opt) ==
  LET acts == [i \in 1..PhysPages |-> [page |-> addr + i - 1, exists |-> opt # {},
                                       entry |-> Entry(Idle, i, opt)]]
  IN
  /\ Insertable(s, addr, PhysPages)
  /\ EnterMapping(s, addr, MapMany(Tables(s, free), acts),
                  [mem |-> Idle, id |-> FreshId, size |-> PhysPages, off |-> 0, opt |-> opt],
                  mem)

(***************************************************************************)
(* phys_mem_map.                                                           *)
(***************************************************************************)
PhysMemMap(s) ==
  /\ Running /\ spc[s].alive /\ PhysPages > 0 /\ MayMapMore
  /\ \E addr \in MapAddrs, opt \in MapOptions : MapPhysMem(s, addr, opt)

-----------------------------------------------------------------------------
(* Operations under both locks                                             *)

(***************************************************************************)
(* Mutant: pages that were never allocated are unmapped as well.           *)
(***************************************************************************)
UnmapLocationAll(t, pages, addr, off, size) ==
  UnmapPages(t, [i \in 1..size |-> addr + i - 1])

(***************************************************************************)
(* unmap_location: the tables after the pages of a location are unmapped.  *)
(***************************************************************************)
UnmapLocation(t, pages, addr, off, size) ==
  UnmapPages(t, PagesOf(MappingIter(Idle, pages, addr, off, size, {"r"})))

(***************************************************************************)
(* The state in which unmap_memory_inner and update_mapping_inner work:    *)
(* what they change of the memory and of the address space.                *)
(***************************************************************************)
Work(m, s) == [id |-> m, m |-> mem[m], list |-> spc[s].list, t |-> Tables(s, free), res |-> "ok"]

(***************************************************************************)
(* Pages were mapped or unmapped, which has left these tables.             *)
(***************************************************************************)
WithTables(w, out) ==
  [w EXCEPT !.t = [out EXCEPT !.ok = TRUE],
            !.res = IF out.stop # "no" THEN "panic" ELSE IF out.ok THEN "ok" ELSE "error"]

(***************************************************************************)
(* unmap_memory_inner.                                                     *)
(***************************************************************************)
UnmapMemoryInner(w, addr) ==
  IF addr \notin DOMAIN w.list \/ w.list[addr].mem = Idle THEN [w EXCEPT !.res = "error"]
  ELSE IF w.list[addr].id \notin DOMAIN w.m.maps THEN [w EXCEPT !.res = "panic"]
  ELSE LET id  == w.list[addr].id
           loc == w.m.maps[id]
       IN  WithTables([w EXCEPT !.list = Without(@, addr), !.m.maps = Without(@, id)],
                      UnmapLocation(w.t, w.m.pages, loc.addr, loc.off, loc.size))

(***************************************************************************)
(* Mutant: the memory's own note of the mapping is not updated.            *)
(***************************************************************************)
StoreLocationOnce(w, addr, size, opt) ==
  IF w.res # "ok" THEN w
  ELSE IF w.list[addr].id \notin DOMAIN w.m.maps THEN [w EXCEPT !.res = "panic"]
  ELSE [w EXCEPT !.list[addr].size = size, !.list[addr].opt = opt]

(***************************************************************************)
(* The new location is stored in both lists; the memory's entry is         *)
(* unwrapped.                                                              *)
(***************************************************************************)
StoreLocation(w, addr, size, opt) ==
  LET id == w.list[addr].id IN
  IF w.res # "ok" THEN w
  ELSE IF id \notin DOMAIN w.m.maps THEN [w EXCEPT !.res = "panic"]
  ELSE [w EXCEPT !.list[addr].size = size, !.list[addr].opt = opt,
                 !.m.maps[id].size = size, !.m.maps[id].opt = opt]

(***************************************************************************)
(* The first half of update_mapping_inner: the size changes.  Growing maps *)
(* the pages behind the old end, shrinking unmaps those behind the new.    *)
(***************************************************************************)
UpdateSize(w, addr, size) ==
  LET l   == w.list[addr]
      out == IF size > l.size
             THEN MapMany(w.t, MappingIter(w.id, w.m.pages, addr + l.size, l.off + l.size,
                                           size - l.size, l.opt))
             ELSE UnmapLocation(w.t, w.m.pages, addr + size, l.off + size, l.size - size)
  IN  IF ~(l.off < w.m.size /\ l.off + size <= w.m.size) THEN [w EXCEPT !.res = "error"]
      ELSE IF l.size > size /\ l.off + l.size > Len(w.m.pages) THEN [w EXCEPT !.res = "panic"]
      ELSE StoreLocation(WithTables(w, out), addr, size, l.opt)

(***************************************************************************)
(* The second half: all pages are mapped again with the new permissions.   *)
(***************************************************************************)
UpdateOptions(w, addr, opts) ==
  LET l   == w.list[addr]
      opt == CHOOSE o \in opts : TRUE
      out == MapMany(w.t, MappingIter(w.id, w.m.pages, addr, l.off, l.size, opt))
  IN  IF w.res # "ok" \/ opts = {} THEN w
      ELSE IF l.off + l.size > Len(w.m.pages) THEN [w EXCEPT !.res = "panic"]
      ELSE StoreLocation(WithTables(w, out), addr, l.size, opt)

(***************************************************************************)
(* update_mapping_inner.  An empty set of sizes or permissions is          *)
(* KeepSame.                                                               *)
(***************************************************************************)
UpdateMappingInner(w, addr, sizes, opts) ==
  IF addr \notin DOMAIN w.list \/ w.list[addr].mem = Idle THEN [w EXCEPT !.res = "error"]
  ELSE UpdateOptions(IF sizes = {} THEN w ELSE UpdateSize(w, addr, Min(sizes)), addr, opts)

(***************************************************************************)
(* The result of work on memory m in space s by a cpu that is done.        *)
(***************************************************************************)
Commit(w, m, s, by, addr, frames, why) ==
  IF w.res = "panic" THEN Panic(IF w.t.stop = "beyond" THEN "beyond" ELSE why, by)
  ELSE /\ Become(w.t.free + frames, [mem EXCEPT ![m] = w.m],
                 [spc EXCEPT ![s].list = w.list, ![s].pt = w.t.pt],
                 [c \in Cpus |-> IF c \in by THEN Idle ELSE cpu[c]])
       /\ Overtaken(s, addr, by)
       /\ mixed' = (mixed \/ MixesUp(m, s, addr, w.t.pt, w.list))
       /\ UNCHANGED <<leaked, panic>>

-----------------------------------------------------------------------------
(* System calls in two steps                                               *)

(***************************************************************************)
(* The first half of AddressSpace::unmap and of memory_update_mapping      *)
(* (there it is memory_at_addr): which memory is mapped there?             *)
(***************************************************************************)
MemoryAtAddr(c, s, addr) ==
  /\ Running /\ cpu[c] = Idle /\ addr \in DOMAIN spc[s].list
  /\ spc[s].list[addr].mem # Idle
  /\ cpu' = [cpu EXCEPT ![c] = [space |-> s, addr |-> addr, mem |-> spc[s].list[addr].mem]]
  /\ raced' = raced \ {c}
  /\ UNCHANGED <<free, leaked, mem, spc, mixed, panic>>

(***************************************************************************)
(* AddressSpace::unmap of physical memory keeps the lock.                  *)
(***************************************************************************)
UnmapPhysMem(s, addr) ==
  LET t == UnmapPages(Tables(s, free), [i \in 1..PhysPages |-> addr + i - 1]) IN
  /\ Running /\ addr \in DOMAIN spc[s].list /\ spc[s].list[addr].mem = Idle
  /\ IF t.stop # "no" THEN Panic("unmap physmem", {})
     ELSE /\ Become(t.free, mem,
                    [spc EXCEPT ![s].pt = t.pt, ![s].list = Without(@, addr)], cpu)
          /\ Overtaken(s, addr, {})
          /\ UNCHANGED <<leaked, mixed, panic>>

(***************************************************************************)
(* unmap_memory, on the memory that was found.                             *)
(***************************************************************************)
UnmapMemory(c) ==
  /\ Running /\ cpu[c] # Idle
  /\ LET m == cpu[c].mem  s == cpu[c].space IN
     Commit(UnmapMemoryInner(Work(m, s), cpu[c].addr), m, s, {c}, cpu[c].addr, 0, "unmap")

(***************************************************************************)
(* update_mapping, on the memory that was found.                           *)
(***************************************************************************)
UpdateMapping(c, sizes, opts) ==
  /\ Running /\ cpu[c] # Idle
  /\ LET m == cpu[c].mem  s == cpu[c].space  a == cpu[c].addr IN
     Commit(UpdateMappingInner(Work(m, s), a, sizes, opts), m, s, {c}, a, 0, "update")

(***************************************************************************)
(* memory_update_mapping, with or without a new size and new permissions.  *)
(***************************************************************************)
MemoryUpdateMapping(c) ==
  \E sizes \in {{}} \cup {{n} : n \in 0..MaxPages}, opts \in {{}} \cup {{o} : o \in NewOptions} :
    UpdateMapping(c, sizes, opts)

-----------------------------------------------------------------------------
(* Resizing                                                                *)

(***************************************************************************)
(* What resize_with_page_source needs: pages.len() can exceed the size     *)
(* because of the rounding of the allocator, and then the subtraction      *)
(* underflows or a layout of size 0 is unwrapped.                          *)
(***************************************************************************)
Increase(m, n) == n - Len(mem[m].pages)

ResizePanics(m, n, source) ==
  /\ n > mem[m].size
  /\ Increase(m, n) < 0 \/ (Increase(m, n) = 0 /\ source = "Owned")

CanResize(m, n, source) ==
  n > mem[m].size /\ Increase(m, n) > 0 => CanCreate(source, Increase(m, n))

(***************************************************************************)
(* The memory after resize_with_page_source.                               *)
(***************************************************************************)
Resized(m, record, n, source) ==
  [record EXCEPT !.size = n,
                 !.pages = IF n > mem[m].size THEN @ \o CreatePages(source, Increase(m, n))
                           ELSE IF n < mem[m].size
                           THEN SubSeq(@, 1, Min({n, Len(@)})) ELSE @]

FramesTaken(m, new) == OwnedPages(new.pages) - OwnedPages(mem[m].pages)

(***************************************************************************)
(* The one place where a memory is mapped, if its address space exists.    *)
(***************************************************************************)
TheMapping(m) == mem[m].maps[CHOOSE id \in DOMAIN mem[m].maps : TRUE]

MappedOnce(m) ==
  Cardinality(DOMAIN mem[m].maps) = 1 /\ spc[TheMapping(m).space].alive

(***************************************************************************)
(* resize, and resize_in_place of memory that is mapped nowhere, or only   *)
(* in an address space that is gone.                                       *)
(***************************************************************************)
ResizeUnmapped(m, n, source) ==
  LET new == Resized(m, mem[m], n, source) IN
  /\ Running /\ mem[m].cap /\ n # mem[m].size /\ InBounds(m, n)
  /\ \/ mem[m].maps = <<>>
     \/ /\ Cardinality(DOMAIN mem[m].maps) = 1
        /\ ~spc[TheMapping(m).space].alive
  /\ CanResize(m, n, source)
  /\ IF ResizePanics(m, n, source) THEN Panic("resize", {})
     ELSE /\ Become(free - FramesTaken(m, new),
                    [mem EXCEPT ![m] = new], spc, cpu)
          /\ UNCHANGED <<leaked, raced, mixed, panic>>

(***************************************************************************)
(* The heap cannot hold the longer vector of pages.  The pages up to the   *)
(* k-th are dropped; the rest of the block is owned by nobody.             *)
(***************************************************************************)
ResizeHeapFails(m, n, k) ==
  LET new  == Resized(m, mem[m], n, "Owned")
      lost == SubSeq(new.pages, Len(mem[m].pages) + k + 1, Len(new.pages))
  IN
  /\ HeapFails /\ Running /\ mem[m].cap /\ n > mem[m].size /\ InBounds(m, n)
  /\ mem[m].maps = <<>>
  /\ Increase(m, n) > 0 /\ CanResize(m, n, "Owned")
  /\ k \in 1 .. Len(new.pages) - Len(mem[m].pages)
  /\ leaked' = leaked + OwnedPages(lost)
  /\ free' = free - OwnedPages(lost)
  /\ UNCHANGED <<mem, spc, cpu, raced, mixed, panic>>

(***************************************************************************)
(* resize_in_place, growing: the memory grows first and stays grown when   *)
(* the mapping cannot follow.                                              *)
(***************************************************************************)
GrowInPlace(m, n, extend, source) ==
  LET l   == TheMapping(m)
      new == Resized(m, mem[m], n, source)
      w   == [Work(m, l.space) EXCEPT !.m = new, !.t.free = @ - FramesTaken(m, new)]
  IN
  /\ Running /\ mem[m].cap /\ MappedOnce(m) /\ n > mem[m].size /\ InBounds(m, n)
  /\ CanResize(m, n, source)
  /\ IF ResizePanics(m, n, source) THEN Panic("resize", {})
     ELSE Commit(IF extend THEN UpdateMappingInner(w, l.addr, {n - l.off}, {}) ELSE w,
                 m, l.space, {}, l.addr, 0, "grow")

(***************************************************************************)
(* resize_in_place, shrinking: the mapping is shortened or removed before  *)
(* the pages go.                                                           *)
(***************************************************************************)
ShrinkMapping(w, l, over) ==
  CASE over <= 0                  -> w
    [] over > 0 /\ over >= l.size -> UnmapMemoryInner(w, l.addr)
    [] OTHER                      -> UpdateMappingInner(w, l.addr, {l.size - over}, {})

CommitShrunk(w, m, l, n, source) ==
  LET new == Resized(m, w.m, n, source) IN
  IF w.res = "ok"
  THEN Commit([w EXCEPT !.m = new], m, l.space, {}, l.addr, -FramesTaken(m, new), "shrink")
  ELSE Commit(w, m, l.space, {}, l.addr, 0, "shrink")

ShrinkInPlace(m, n, source) ==
  LET l == TheMapping(m) IN
  /\ Running /\ mem[m].cap /\ MappedOnce(m)
  /\ n \in 1 .. mem[m].size - 1
  /\ CommitShrunk(ShrinkMapping(Work(m, l.space), l, (l.off + l.size) - n), m, l, n, source)

(***************************************************************************)
(* memory_resize, with or without MemoryResizeFlags::IN_PLACE.             *)
(***************************************************************************)
MemoryResize(m) ==
  \E n \in 1..MaxPages :
    \/ \E source \in Sources : \/ ResizeUnmapped(m, n, source)
                              \/ ShrinkInPlace(m, n, source)
                              \/ \E extend \in BOOLEAN : GrowInPlace(m, n, extend, source)
    \/ \E k \in 1 .. 2 * MaxPages : ResizeHeapFails(m, n, k)

-----------------------------------------------------------------------------
(* The kernel writes into memory                                           *)

(***************************************************************************)
(* The mappings of live address spaces that show page i.                   *)
(***************************************************************************)
Showing(m, i) ==
  {id \in DOMAIN mem[m].maps :
     LET l == mem[m].maps[id] IN
     spc[l.space].alive /\ l.off < i /\ i <= l.off + l.size}

(***************************************************************************)
(* remap_all_mappings_for_page_index: the new page is mapped wherever the  *)
(* memory is.                                                              *)
(***************************************************************************)
MapShown(acc, l, m, i) ==
  MapPage([pt |-> acc.pts[l.space], free |-> acc.free, ok |-> acc.ok, stop |-> "no"],
          [page |-> l.addr + (i - 1) - l.off, exists |-> l.opt # {}, entry |-> Entry(m, i, l.opt)])

TablesIn(acc, space, t) == [pts |-> [acc.pts EXCEPT ![space] = t.pt], free |-> t.free, ok |-> t.ok]

RemapAll(m, i) ==
  FoldLeft(LAMBDA acc, id :
             IF ~acc.ok THEN acc
             ELSE TablesIn(acc, mem[m].maps[id].space, MapShown(acc, mem[m].maps[id], m, i)),
           [pts |-> [s \in Spaces |-> spc[s].pt], free |-> free - 1, ok |-> TRUE],
           SetToSeq(Showing(m, i)))

(***************************************************************************)
(* get_page_for_writing and get_page_for_reading of a lazy page: it is     *)
(* allocated, stored and mapped.  A failure to map it panics.              *)
(***************************************************************************)
StoreNewPage(m, i, done) ==
  IF ~done.ok THEN Panic("remap", {})
  ELSE /\ Become(done.free, [mem EXCEPT ![m].pages[i] = "Owned"],
                 [s \in Spaces |-> [spc[s] EXCEPT !.pt = done.pts[s]]], cpu)
       /\ UNCHANGED <<leaked, raced, mixed, panic>>

GetPageForWriting(m, i) ==
  /\ Running /\ mem[m].alive /\ i \in 1 .. mem[m].size
  /\ mem[m].pages[i] # "Owned" /\ free > 0
  /\ StoreNewPage(m, i, RemapAll(m, i))

-----------------------------------------------------------------------------

Next ==
  \/ \E m \in Mems, n \in 1..MaxPages, source \in Sources : MemoryNew(m, n, source)
  \/ \E s \in Spaces : AddressSpaceNew(s) \/ DropSpace(s) \/ PhysMemMap(s)
  \/ \E m \in Mems, s \in Spaces : MemoryMap(m, s)
  \/ \E s \in Spaces, addr \in MapAddrs : UnmapPhysMem(s, addr)
  \/ \E c \in Cpus, s \in Spaces, addr \in MapAddrs : MemoryAtAddr(c, s, addr)
  \/ \E c \in Cpus : UnmapMemory(c) \/ MemoryUpdateMapping(c)
  \/ \E m \in Mems : MemoryResize(m) \/ DropMemory(m)
  \/ \E m \in Mems, i \in 1..MaxPages : GetPageForWriting(m, i)

Spec == Init /\ [][Next]_vars

-----------------------------------------------------------------------------
(* Properties                                                              *)

(***************************************************************************)
(* What the list of address space s says a page translates to.             *)
(***************************************************************************)
Expected(s, page) ==
  IF Shown(s, page) = {} THEN Absent
  ELSE LET a == CHOOSE x \in Shown(s, page) : TRUE
           l == spc[s].list[a]
       IN  IF l.mem = Idle THEN Entry(Idle, page - a + 1, l.opt)
           ELSE LET i == l.off + (page - a) + 1 IN
                IF mem[l.mem].pages[i] = "Owned" THEN Entry(l.mem, i, l.opt) ELSE Absent

(***************************************************************************)
(* The processor sees what the lists say: after every system call, also    *)
(* one that failed half way, a page of an address space translates to the  *)
(* page of the memory mapped there, with its permission, and nothing else  *)
(* is mapped.  This ends when two mappings have met in one page, because   *)
(* they were accepted although they overlap, or because update_mapping     *)
(* works for a memory that another cpu has replaced in the meantime; the   *)
(* tables are sound and counted right even then.                           *)
(***************************************************************************)
TranslationsExact ==
  Running =>
    \A s \in Spaces : spc[s].alive =>
      /\ TablesSound(spc[s].pt)
      /\ ~mixed => \A page \in UserPages : Translate(spc[s].pt, page) = Expected(s, page)

(***************************************************************************)
(* Frames are conserved: each is free, a page of a memory, a page table,   *)
(* or, after the heap failed, lost.                                        *)
(***************************************************************************)
FramesExact ==
  Running => /\ free >= 0
             /\ free + leaked + SumOver(Spaces, LAMBDA s : Cardinality(DOMAIN spc[s].pt))
                  + SumOver(Mems, LAMBDA m : OwnedPages(mem[m].pages)) = Frames
             /\ ~HeapFails => leaked = 0

(***************************************************************************)
(* A memory and an address space agree on where the one is mapped in the   *)
(* other, and a memory that is mapped is alive and long enough.            *)
(***************************************************************************)
ListsAgree ==
  Running =>
    \A s \in Spaces, m \in Mems :
      /\ \A a \in DOMAIN spc[s].list :
           LET l == spc[s].list[a] IN
           l.mem = m =>
             /\ l.id \in DOMAIN mem[m].maps
             /\ mem[m].maps[l.id] = [space |-> s, addr |-> a, size |-> l.size,
                                     off |-> l.off, opt |-> l.opt]
             /\ l.off + l.size <= mem[m].size
      /\ mem[m].size <= Len(mem[m].pages)

(***************************************************************************)
(* The assertions of unmap and update ("no mapping present in memory       *)
(* capability", "failed to unmap page", to_phys of a null address) can     *)
(* only fail when another cpu has changed the mapping between the two      *)
(* locks, or when two mappings have met in one page: whichever of them is  *)
(* unmapped second finds pages that are gone.  A mapping that reaches into *)
(* the kernel's half, a resize and a lazy page that cannot be mapped stop  *)
(* the kernel for reasons of their own.                                    *)
(***************************************************************************)
PanicsOnlyWhenOvertaken ==
  ~Running /\ ~mixed /\ panic[1] \notin {"beyond", "resize", "remap"} =>
     panic[1] \in {"unmap", "update"} /\ panic[2] \subseteq raced
=============================================================================
