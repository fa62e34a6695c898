----------------------------- MODULE UserSpace ------------------------------
(***************************************************************************)
(* A process seen from its runtime library, aurora_core: the manager of    *)
(* the address space (allocator/addr_space.rs), the threads that get their *)
(* stacks from it (thread/mod.rs) and the creation of another process,     *)
(* whose address space it manages from outside (process/mod.rs).           *)
(*                                                                         *)
(* Addresses and sizes are counted in pages.  A thread that ends unmaps    *)
(* the stack it runs on when it can no longer take the manager's lock: the *)
(* region leaves the list first, and a counter of such transient regions   *)
(* holds back everyone who wants to map until the stack is really gone.    *)
(***************************************************************************)
EXTENDS Integers, Sequences, FiniteSets, TLC, SequencesExt, FiniteSetsExt

CONSTANTS
  UThreads, Main,  \* threads, the initial one
  MaxMapAddr,      \* MAX_MAP_ADDR
  PageSize,        \* PAGE_SIZE, where a size in bytes is multiplied by it
  StackSize,       \* DEFAULT_STACK_SIZE
  MapSizes,        \* sizes of mappings
  Paddings,        \* padding before and after a mapping
  Segments,        \* the explicit addresses of the segments of an executable
  ListMax,         \* REGION_LIST_MAX_SIZE, in regions
  Wrap,            \* 2^64 for the thread counter
  NoThread

VARIABLES
  regions,    \* memory_regions of the managers "local" and "remote"
  capacity,   \* of the local region list
  table,      \* what the kernel has mapped in the two address spaces
  transient,  \* transient_region_count
  lock,       \* the thread that holds ADDR_SPACE
  thr,        \* the threads of the process
  spawner,    \* progress of spawn_process
  numThreads, \* NUM_THREADS
  ended       \* the process has exited

usVars == <<regions, capacity, table, transient, lock, thr, spawner, numThreads, ended>>

-----------------------------------------------------------------------------
(* Regions                                                                 *)

Region(addr, size, pad, target) == [addr |-> addr, size |-> size, pad |-> pad, target |-> target]

NoPadding == [start |-> 0, end |-> 0]

StartAddress(r) == r.addr - r.pad.start

EndAddress(r) == r.addr + r.size + r.pad.end

ContainsAddress(r, a) == StartAddress(r) <= a /\ a < EndAddress(r)

(***************************************************************************)
(* reserve_null_page: nothing is mapped, the padding is the reservation.   *)
(***************************************************************************)
NullPage == Region(0, 0, [start |-> 0, end |-> 1], "Empty")

(***************************************************************************)
(* binary_search_address: the index of the first region not below a.       *)
(***************************************************************************)
SearchIndex(rs, a) == Cardinality({i \in DOMAIN rs : rs[i].addr < a}) + 1

HasAddress(rs, a) == \E i \in DOMAIN rs : rs[i].addr = a

InsertRegion(rs, r) == InsertAt(rs, SearchIndex(rs, r.addr), r)

RemoveRegion(rs, a) == SelectSeq(rs, LAMBDA r : r.addr # a)

(***************************************************************************)
(* MemoryCapStorage: the list doubles when it is full, up to its maximum.  *)
(***************************************************************************)
EnsureCapacity(len, cap) == IF len < cap THEN cap ELSE 2 * cap

(***************************************************************************)
(* iter_free_regions: the gaps between the regions, and after the last.    *)
(***************************************************************************)
IterFreeRegions(rs) ==
  LET starts == [i \in 1 .. Len(rs) + 1 |-> IF i = 1 THEN 0 ELSE EndAddress(rs[i - 1])]
      ends   == [i \in 1 .. Len(rs) + 1 |-> IF i > Len(rs) THEN MaxMapAddr ELSE StartAddress(rs[i])]
  IN {<<starts[i], ends[i] - starts[i]>> : i \in 1 .. Len(rs) + 1}

(***************************************************************************)
(* find_map_address: any position where the padded region fits in a gap,   *)
(* one of them chosen at random.                                           *)
(***************************************************************************)
FindMapAddress(rs, size, pad) ==
  LET whole == size + pad.start + pad.end IN
  UNION {{f[1] + p + pad.start : p \in 0 .. f[2] - whole} : f \in {g \in IterFreeRegions(rs) : g[2] >= whole}}

(***************************************************************************)
(* is_region_free, for an address the caller gives.  The size is already   *)
(* in bytes when it is multiplied by the page size, and only the regions   *)
(* next to the start are looked at.                                        *)
(***************************************************************************)
IsRegionFree(rs, a, size, pad) ==
  LET start == a - pad.start
      end   == a + size * PageSize + pad.end
      i     == SearchIndex(rs, start)
  IN /\ start >= 0 /\ end <= MaxMapAddr /\ ~HasAddress(rs, start)
     /\ i = 1 \/ ~ContainsAddress(rs[i - 1], start)
     /\ i > Len(rs) \/ ~ContainsAddress(rs[i], end)

(***************************************************************************)
(* The addresses map_memory and its like may use: the given one, or any.   *)
(***************************************************************************)
Places(rs, size, pad, addr) ==
  IF addr = NoThread THEN FindMapAddress(rs, size, pad)
  ELSE {a \in {addr} : IsRegionFree(rs, a, size, pad)}

Mapped(r) == [addr |-> r.addr, size |-> r.size]

-----------------------------------------------------------------------------

Thr(pc, stack) == [pc |-> pc, stack |-> stack, want |-> <<>>]

NoSpawn == [pc |-> "none", by |-> NoThread, held |-> <<>>, segs |-> {}, entries |-> {}]

(***************************************************************************)
(* init_allocation: the mappings the process starts with are put in the    *)
(* list, here the stack of the main thread.                                *)
(***************************************************************************)
UsInit ==
  LET stack == Region(1, StackSize, NoPadding, "Memory") IN
  /\ regions = [m \in {"local", "remote"} |-> IF m = "local" THEN <<NullPage, stack>> ELSE <<>>]
  /\ table = [m \in {"local", "remote"} |-> IF m = "local" THEN {Mapped(stack)} ELSE {}]
  /\ capacity = 2 /\ transient = 0 /\ lock = NoThread
  /\ thr = [t \in UThreads |-> IF t = Main THEN Thr("run", 1) ELSE Thr("none", 0)]
  /\ spawner = NoSpawn /\ numThreads = 1 /\ ended = FALSE

Running(t) == ~ended /\ thr[t].pc = "run"

(***************************************************************************)
(* A thread wants to map: it takes the lock, and keeps it while it waits.  *)
(***************************************************************************)
Lock(t, want) ==
  /\ lock = NoThread
  /\ lock' = t
  /\ thr' = [thr EXCEPT ![t].pc = "await", ![t].want = <<want>>]

Want(what, size, pad) == [what |-> what, size |-> size, pad |-> pad]

(***************************************************************************)
(* map_memory, map_event_pool and map_phys_mem of the local manager, and   *)
(* the stack for spawn.                                                    *)
(***************************************************************************)
AskMap(t, what, size, pad) ==
  /\ Running(t) /\ spawner.by # t
  /\ Lock(t, Want(what, size, pad))
  /\ UNCHANGED <<regions, capacity, table, transient, spawner, numThreads, ended>>

(***************************************************************************)
(* Mutant: nobody waits for the transient regions.                         *)
(***************************************************************************)
AwaitingNothing(t) == ~ended /\ thr[t].pc = "await"

AwaitTransientRegionUnmap(t) == ~ended /\ thr[t].pc = "await" /\ transient = 0

Unlock(t) == lock' = NoThread /\ thr' = [thr EXCEPT ![t].pc = "run", ![t].want = <<>>]

ListFull == Len(regions["local"]) = capacity /\ 2 * capacity > ListMax

(***************************************************************************)
(* A mapping succeeds at some place: region and mapping are both there.    *)
(***************************************************************************)
MapAt(t, r) ==
  LET rs == regions["local"] IN
  /\ regions' = [regions EXCEPT !["local"] = InsertRegion(rs, r)]
  /\ capacity' = EnsureCapacity(Len(rs), capacity)
  /\ table' = [table EXCEPT !["local"] = @ \cup {Mapped(r)}]
  /\ UNCHANGED <<transient, spawner, numThreads, ended>>

MapWanted(t, what) ==
  LET w == thr[t].want[1] IN
  /\ AwaitTransientRegionUnmap(t) /\ ~ListFull /\ w.what = what
  /\ \E a \in Places(regions["local"], w.size, w.pad, NoThread) : MapAt(t, Region(a, w.size, w.pad, what))
  /\ Unlock(t)

MapMemory(t) == MapWanted(t, "Memory")

MapEventPool(t) == MapWanted(t, "EventPool")

MapPhysMem(t) == MapWanted(t, "PhysMem")

(***************************************************************************)
(* spawn: the new thread gets its stack, and is started.                   *)
(***************************************************************************)
SpawnThread(t, u) ==
  /\ AwaitTransientRegionUnmap(t) /\ ~ListFull /\ thr[t].want[1].what = "Stack" /\ thr[u].pc = "none"
  /\ \E a \in Places(regions["local"], StackSize, NoPadding, NoThread) :
       /\ MapAt(t, Region(a, StackSize, NoPadding, "Memory"))
       /\ thr' = [thr EXCEPT ![t].pc = "run", ![t].want = <<>>, ![u] = Thr("run", a)]
  /\ lock' = NoThread

(***************************************************************************)
(* A mapping fails: there is no room, the list cannot grow, or the kernel  *)
(* refuses; whatever was done is undone.  spawn panics without a stack,    *)
(* and a panic ends the process.                                           *)
(***************************************************************************)
MapMemoryFails(t) ==
  /\ AwaitTransientRegionUnmap(t)
  /\ Unlock(t)
  /\ ended' = (thr[t].want[1].what = "Stack")
  /\ UNCHANGED <<regions, capacity, table, transient, spawner, numThreads>>

(***************************************************************************)
(* unmap_memory.                                                           *)
(***************************************************************************)
Unmapped(m, a) ==
  /\ regions' = [regions EXCEPT ![m] = RemoveRegion(@, a)]
  /\ table' = [table EXCEPT ![m] = {x \in @ : x.addr # a}]

Stacks == {thr[t].stack : t \in {u \in UThreads : thr[u].pc # "none"}}

UnmapMemory(t, a) ==
  /\ Running(t) /\ lock = NoThread
  /\ HasAddress(regions["local"], a) /\ a \notin Stacks \cup {0} \cup ToSet(spawner.held)
  /\ Unmapped("local", a)
  /\ UNCHANGED <<capacity, transient, lock, thr, spawner, numThreads, ended>>

-----------------------------------------------------------------------------
(* The end of a thread                                                     *)

(***************************************************************************)
(* process::exit: the thread group is killed.                              *)
(***************************************************************************)
ProcessExit(t) ==
  /\ ended' = TRUE
  /\ thr' = [thr EXCEPT ![t].pc = "gone"]

UnmapTransient(t) ==
  /\ lock = NoThread
  /\ regions' = [regions EXCEPT !["local"] = RemoveRegion(@, thr[t].stack)]
  /\ transient' = transient + 1
  /\ thr' = [thr EXCEPT ![t].pc = "unmap"]

(***************************************************************************)
(* exit: the counter of threads starts at 1, and spawn does not count.     *)
(***************************************************************************)
Exit(t) ==
  /\ Running(t) /\ spawner.by # t
  /\ numThreads' = (numThreads + Wrap - 1) % Wrap
  /\ IF numThreads = 1
     THEN ProcessExit(t) /\ UNCHANGED <<regions, transient>>
     ELSE UnmapTransient(t) /\ UNCHANGED ended
  /\ UNCHANGED <<capacity, table, lock, spawner>>

(***************************************************************************)
(* exit_thread_only, then thread_exit_asm in three instructions: the       *)
(* system call that unmaps the stack, the decrement, the end.              *)
(***************************************************************************)
ExitThreadOnly(t) ==
  /\ Running(t) /\ spawner.by # t
  /\ UnmapTransient(t)
  /\ UNCHANGED <<capacity, table, lock, spawner, numThreads, ended>>

ExitUnmap(t) ==
  /\ ~ended /\ thr[t].pc = "unmap"
  /\ table' = [table EXCEPT !["local"] = {x \in @ : x.addr # thr[t].stack}]
  /\ thr' = [thr EXCEPT ![t].pc = "dec"]
  /\ UNCHANGED <<regions, capacity, transient, lock, spawner, numThreads, ended>>

ExitDecrement(t) ==
  /\ ~ended /\ thr[t].pc = "dec"
  /\ transient' = transient - 1
  /\ thr' = [thr EXCEPT ![t] = Thr("gone", 0)]
  /\ UNCHANGED <<regions, capacity, table, lock, spawner, numThreads, ended>>

-----------------------------------------------------------------------------
(* spawn_process                                                           *)

Spawning(t, pc) == Running(t) /\ spawner.by = t /\ spawner.pc = pc

SpawnProcess(t) ==
  /\ Running(t) /\ spawner = NoSpawn
  /\ spawner' = [NoSpawn EXCEPT !.pc = "map", !.by = t, !.segs = Segments]
  /\ regions' = [regions EXCEPT !["remote"] = <<NullPage>>]
  /\ UNCHANGED <<capacity, table, transient, lock, thr, numThreads, ended>>

(***************************************************************************)
(* What is mapped next: the segments at their addresses, then the stack,   *)
(* then the startup data.                                                  *)
(***************************************************************************)
NextMapping ==
  CASE spawner.segs # {}      -> {[addr |-> a, pad |-> NoPadding, what |-> "segment"] : a \in spawner.segs}
    [] spawner.held = <<>>    -> {[addr |-> NoThread, pad |-> [start |-> 1, end |-> 0], what |-> "stack"]}
    [] OTHER                  -> {[addr |-> NoThread, pad |-> NoPadding, what |-> "data"]}

(***************************************************************************)
(* map_memory_remote_and_local, first half: the mapping in the new space.  *)
(***************************************************************************)
RemoteMap(t) ==
  /\ Spawning(t, "map")
  /\ \E n \in NextMapping : \E a \in Places(regions["remote"], StackSize, n.pad, n.addr) :
       LET r == Region(a, StackSize, n.pad, "Memory") IN
       /\ regions' = [regions EXCEPT !["remote"] = InsertRegion(@, r)]
       /\ table' = [table EXCEPT !["remote"] = @ \cup {Mapped(r)}]
       /\ spawner' = [spawner EXCEPT !.pc = n.what, !.segs = @ \ {a}]
  /\ UNCHANGED <<capacity, transient, lock, thr, numThreads, ended>>

(***************************************************************************)
(* Second half: the same memory is mapped here, to be written to.  A       *)
(* segment is written and unmapped at once, the other two at the end.      *)
(***************************************************************************)
LocalMap(t) ==
  /\ \E pc \in {"segment", "stack", "data"} : Spawning(t, pc)
  /\ lock = NoThread /\ transient = 0 /\ ~ListFull
  /\ \E a \in FindMapAddress(regions["local"], StackSize, NoPadding) :
       LET r == Region(a, StackSize, NoPadding, "Memory") IN
       /\ regions' = [regions EXCEPT !["local"] = InsertRegion(@, r)]
       /\ capacity' = EnsureCapacity(Len(regions["local"]), capacity)
       /\ table' = [table EXCEPT !["local"] = @ \cup {Mapped(r)}]
       /\ spawner' = [spawner EXCEPT !.held = <<a>> \o @,
                        !.pc = [segment |-> "written", stack |-> "map", data |-> "start"][@]]
  /\ UNCHANGED <<transient, lock, thr, numThreads, ended>>

(***************************************************************************)
(* Any step fails: the mappings held here are dropped one by one, and the  *)
(* new space with what is mapped in it goes with its last reference.       *)
(***************************************************************************)
SpawnFails(t) ==
  /\ \E pc \in {"map", "segment", "stack", "data", "start"} : Spawning(t, pc)
  /\ spawner' = [spawner EXCEPT !.pc = "drop"]
  /\ regions' = [regions EXCEPT !["remote"] = <<>>]
  /\ table' = [table EXCEPT !["remote"] = {}]
  /\ UNCHANGED <<capacity, transient, lock, thr, numThreads, ended>>

(***************************************************************************)
(* The new process gets its capabilities and an entry for each memory that *)
(* is mapped in it, from which it fills its own list, and starts.          *)
(***************************************************************************)
SpawnStart(t) ==
  /\ Spawning(t, "start")
  /\ spawner' = [spawner EXCEPT !.pc = "drop",
                    !.entries = {Mapped(r) : r \in {x \in ToSet(regions["remote"]) : x.target = "Memory"}}]
  /\ UNCHANGED <<regions, capacity, table, transient, lock, thr, numThreads, ended>>

(***************************************************************************)
(* Drop for LocalRemoteMapResult.                                          *)
(***************************************************************************)
DropLocalMapping(t) ==
  /\ \E pc \in {"written", "drop"} : Spawning(t, pc)
  /\ lock = NoThread /\ spawner.held # <<>>
  /\ Unmapped("local", Head(spawner.held))
  /\ spawner' = [spawner EXCEPT !.held = Tail(@), !.pc = IF @ = "written" THEN "map" ELSE @]
  /\ UNCHANGED <<capacity, transient, lock, thr, numThreads, ended>>

SpawnDone(t) ==
  /\ Spawning(t, "drop") /\ spawner.held = <<>>
  /\ spawner' = [NoSpawn EXCEPT !.pc = "done"]
  /\ regions' = [regions EXCEPT !["remote"] = <<>>]
  /\ table' = [table EXCEPT !["remote"] = {}]
  /\ UNCHANGED <<capacity, transient, lock, thr, numThreads, ended>>

-----------------------------------------------------------------------------

UsNext ==
  \E t \in UThreads :
    \/ \E what \in {"Memory", "EventPool", "PhysMem", "Stack"}, size \in MapSizes, pad \in Paddings :
         /\ what = "Stack" => /\ size = StackSize /\ pad = NoPadding
                              /\ \E u \in UThreads : thr[u].pc = "none"
         /\ AskMap(t, what, size, pad)
    \/ MapMemory(t) \/ MapEventPool(t) \/ MapPhysMem(t) \/ MapMemoryFails(t)
    \/ \E u \in UThreads : SpawnThread(t, u)
    \/ \E a \in 0 .. MaxMapAddr : UnmapMemory(t, a)
    \/ Exit(t) \/ ExitThreadOnly(t) \/ ExitUnmap(t) \/ ExitDecrement(t)
    \/ SpawnProcess(t) \/ RemoteMap(t) \/ LocalMap(t) \/ SpawnFails(t) \/ SpawnStart(t)
    \/ DropLocalMapping(t) \/ SpawnDone(t)

UsSpec == UsInit /\ [][UsNext]_usVars

-----------------------------------------------------------------------------
(* Properties                                                              *)

Pages(x) == x.addr .. x.addr + x.size - 1

Apart(rs) == \A i, j \in DOMAIN rs : i < j => EndAddress(rs[i]) <= StartAddress(rs[j])

(***************************************************************************)
(* The list and the kernel agree: the regions are apart and in             *)
(* order, the kernel has mapped exactly the regions that stand for memory  *)
(* and the stacks of threads on their way out, no page is mapped twice,    *)
(* and every thread that runs has its stack.  A process that was just      *)
(* started was told of everything mapped in it.                            *)
(***************************************************************************)
MappingsTracked ==
  ~ended =>
    /\ Apart(regions["local"]) /\ Len(regions["local"]) <= capacity
    /\ table["local"] = {Mapped(r) : r \in {x \in ToSet(regions["local"]) : x.target # "Empty"}}
         \cup {[addr |-> thr[t].stack, size |-> StackSize] : t \in {u \in UThreads : thr[u].pc = "unmap"}}
    /\ \A x, y \in table["local"] : x # y => Pages(x) \cap Pages(y) = {}
    /\ \A t \in UThreads : thr[t].pc \in {"run", "await"} =>
         [addr |-> thr[t].stack, size |-> StackSize] \in table["local"]
    /\ spawner.entries # {} => table["remote"] = spawner.entries
=============================================================================
