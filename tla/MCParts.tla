------------------------------ MODULE MCParts ------------------------------
(***************************************************************************)
(* Small instances of the parts that do not share state with each other,   *)
(* in one run.  An initial state chooses the part; from there on only that *)
(* part moves.  The parts take their variables from one stock, v1 to v10,  *)
(* and the ones a part has no use for stay Off.  The executor has its own  *)
(* variables, which are Off when it is not the part.                       *)
(***************************************************************************)
EXTENDS Executor, FiniteSets, TLC

CONSTANTS
  a1, a2,                  \* threads, cpus or callers, whichever a part has two of
  e1, s1,                  \* Events: an emitter, a sender
  o1, r1,                  \* CapSpace: an object, a permission
  g0, g1, g2, m1, m2, m3,  \* ThreadGroups: groups and threads
  u1, u2,                  \* UserSpace: threads
  l1, l2, n1, n2, n3,      \* IntrusiveList: lists and nodes
  Nil, Off

VARIABLES part, v1, v2, v3, v4, v5, v6, v7, v8, v9, v10

stock == <<v1, v2, v3, v4, v5, v6, v7, v8, v9, v10>>

(***************************************************************************)
(* An event pool of two pages of seven words: an event takes three words,  *)
(* a message seven or eight, so that the buffer grows, is not grown when   *)
(* it should be, fills up and refuses.                                     *)
(***************************************************************************)
Ev == INSTANCE Events WITH
        Threads <- {a1, a2}, Emitters <- {e1}, Senders <- {s1}, PageWords <- 7, MaxPages <- 2,
        EventWords <- 3, MessageWords <- {3, 4}, MaxEvents <- 2, MaxWaits <- 1,
        MaxListeners <- 2, None <- Nil,
        pool <- v1, thr <- v2, em <- v3, snd <- v4, next <- v5, got <- v6, stale <- v7,
        forsaken <- v8, halt <- v9

(***************************************************************************)
(* One space, one object, two cpus in system calls.                        *)
(***************************************************************************)
Cs == INSTANCE CapSpace WITH
        Spaces <- {s1}, Objects <- {o1}, Cpus <- {a1, a2}, Flags <- {r1}, MaxIds <- 3,
        InsertFails <- TRUE, Idle <- Nil,
        cap <- v1, nextId <- v2, arc <- v3, op <- v4, broken <- v5

(***************************************************************************)
(* The root, two groups below it and two threads, created in any order;    *)
(* and three threads in a tree that stands already, g2 in g1 and g1 in the *)
(* root, with a thread in g2 and two in the root that own g1 and g2: one   *)
(* of them can give g1 to the thread in g2.  Two cpus in both.             *)
(***************************************************************************)
Tg == INSTANCE ThreadGroups WITH
        Groups <- {g0, g1, g2}, Root <- g0, GThreads <- {m1, m2}, GCpus <- {a1, a2},
        Nobody <- Nil,
        children <- v1, lockedBy <- v2, strong <- v3, group <- v4, member <- v5, home <- v6,
        owns <- v7, call <- v8, above <- v9, upward <- v10

Tree == INSTANCE ThreadGroups WITH
        Groups <- {g0, g1, g2}, Root <- g0, GThreads <- {m1, m2, m3}, GCpus <- {a1, a2},
        Nobody <- Nil,
        children <- v1, lockedBy <- v2, strong <- v3, group <- v4, member <- v5, home <- v6,
        owns <- v7, call <- v8, above <- v9, upward <- v10

TreeInit ==
  /\ v1 = (g0 :> <<Tree!AThread(m1), Tree!AThread(m2), Tree!AGroup(g1)>>
             @@ g1 :> <<Tree!AGroup(g2)>> @@ g2 :> <<Tree!AThread(m3)>>)
  /\ v2 = [g \in {g0, g1, g2} |-> Nil]
  /\ v3 = [g \in {g0, g1, g2} |-> 1]
  /\ v4 = [g \in {g0, g1, g2} |-> "live"]
  /\ v5 = [t \in {m1, m2, m3} |-> "alive"]
  /\ v6 = (m1 :> g0 @@ m2 :> g0 @@ m3 :> g2)
  /\ v7 = (m1 :> g1 @@ m2 :> g2 @@ m3 :> Nil)
  /\ v8 = [c \in {a1, a2} |-> Tree!Idles]
  /\ v9 = {<<g0, g1>>, <<g0, g2>>, <<g1, g2>>} /\ v10 = FALSE

(***************************************************************************)
(* Two threads in an address space of five pages, spawning a process.      *)
(***************************************************************************)
Us == INSTANCE UserSpace WITH
        UThreads <- {u1, u2}, Main <- u1, MaxMapAddr <- 5, PageSize <- 2, StackSize <- 1,
        MapSizes <- {1, 2}, Paddings <- {[start |-> 0, end |-> 0], [start |-> 1, end |-> 0]},
        Segments <- {3}, ListMax <- 4, Wrap <- 8, NoThread <- Nil,
        regions <- v1, capacity <- v2, table <- v3, transient <- v4, lock <- v5, thr <- v6,
        spawner <- v7, numThreads <- v8, ended <- v9

Il == INSTANCE IntrusiveList WITH
        Lists <- {l1, l2}, Nodes <- {n1, n2, n3}, Null <- Nil,
        mem <- v1, cursor <- v2, iter <- v3, content <- v4

(***************************************************************************)
(* Zones of five chunks, one of them the header.                           *)
(***************************************************************************)
He == INSTANCE Heap WITH
        Chunk <- 2, InitialChunk <- 2, ZoneSize <- 10, ZoneStarts <- {0, 10, 20},
        Sizes <- {1, 2, 4}, Aligns <- {1}, MaxLive <- 3,
        zones <- v1, live <- v2

(***************************************************************************)
(* Pages of three words: messages cross from one page to the next.         *)
(***************************************************************************)
Tr == INSTANCE Transfer WITH
        Page <- 6, Word <- 2, MemPages <- 3, MaxCaps <- 2, MaxData <- 4,
        message <- v1, dead <- v2, rd <- v3, wr <- v4, copy <- v5, size <- v6, where <- v7,
        tphase <- v8

(***************************************************************************)
(* Lengths on both sides of a word and on it.                              *)
(***************************************************************************)
Pa == INSTANCE EventParser WITH
        WordBytes <- 4, Lengths <- {4, 5, 7, 8}, Replies <- {0, 50}, MaxWritten <- 3,
        words <- v1, written <- v2, at <- v3, parsed <- v4, reading <- v5

(***************************************************************************)
(* The allocator of physical pages with one caller that also shrinks, and  *)
(* with two that also grow, where growing is within one level of the tree. *)
(***************************************************************************)
One == INSTANCE PmemAllocator WITH
        Callers <- {e1}, Depth <- 3, Sizes <- {1, 3, 5},
        Calls <- {"alloc", "dealloc", "shrink"},
        tree <- v1, free <- v2, live <- v3, pc <- v4, call <- v5, size <- v6, node <- v7,
        cur <- v8, end <- v9, old <- v10

Grow == INSTANCE PmemAllocator WITH
        Callers <- {a1, a2}, Depth <- 1, Sizes <- {1, 2},
        Calls <- {"alloc", "dealloc", "grow"},
        tree <- v1, free <- v2, live <- v3, pc <- v4, call <- v5, size <- v6, node <- v7,
        cur <- v8, end <- v9, old <- v10

-----------------------------------------------------------------------------
(* The data that is sent: scalars and strings of every width, capabilities *)
(* and the null capability, and compounds of them up to three deep.        *)

Mk == INSTANCE Codec WITH
        Data <- {}, CapVariant <- 77, Reserves <- {}, Cuts <- {},
        sent <- v1, datum <- v2, phase <- v3, reserve <- v4, bytes <- v5, whole <- v6,
        origin <- v7, got <- v8

Str(k, len) == Mk!Datum(k, 0, [i \in 1..len |-> 97], <<>>)

Id(base) == 32 + 7 + 1024 * base

Leaves ==
  {Mk!Scalar("Null", 0), Mk!Scalar("Bool", 1), Mk!Scalar("Bool", 0), Mk!Scalar("I8", -1),
   Mk!Scalar("I16", -300), Mk!Scalar("I64", -70000), Mk!Scalar("U64", 5),
   Mk!Scalar("U128", 65536), Mk!Scalar("F32", 1065353216), Mk!Scalar("Char", 255),
   Str("String", 0), Str("String", 255), Str("String", 256), Str("Bytes", 2),
   Str("Display", 3), Mk!Scalar("Variant", 3),
   Mk!CapDatum(Id(1)), Mk!CapDatum(Id(2)), Mk!CapDatum(0)}

Few ==
  {Mk!Scalar("Null", 0), Mk!Scalar("U8", 27), Str("Display", 1), Mk!CapDatum(Id(1)),
   Mk!CapDatum(Id(2))}

Wraps(S) ==
  {Mk!Datum(k, 0, <<>>, <<d>>) : k \in {"Some", "Newtype", "Sequence"}, d \in S}
    \cup {Mk!Datum(k, 2, <<>>, <<d>>) : k \in {"NewtypeVariant", "TupleVariant"}, d \in S}
    \cup {Mk!Datum(k, 4, <<>>, <<Str("Display", 1), d>>) : k \in {"Map", "StructVariant"}, d \in S}

(***************************************************************************)
(* A map names a capability as a key at most once: two keys that were the  *)
(* same capability are two clones, hence two keys, to the receiver.        *)
(***************************************************************************)
Pairs(S) ==
  {Mk!Datum("Sequence", 0, <<>>, <<a, b>>) : a, b \in S}
    \cup {d \in {Mk!Datum("Map", 0, <<>>, <<a, b, c, a>>) : a, b, c \in S} :
                d.sub[1] # d.sub[3] \/ Mk!Count(d.sub[1]).n = 0}

SomeData ==
  Leaves \cup Wraps(Leaves) \cup Wraps(Wraps(Few)) \cup Pairs(Few)
    \cup {Mk!Datum("Sequence", 0, <<>>, <<a, b>>) : a, b \in Wraps({Mk!CapDatum(Id(1))})}
    \cup {Mk!Datum(k, 1, <<>>, <<>>) : k \in {"Sequence", "Map", "TupleVariant", "StructVariant"}}
    \cup {Mk!Datum("NewtypeVariant", 77, <<>>, <<d>>) :
            d \in {Str("String", 0), Mk!Scalar("U8", 1)} \cup Wraps({Mk!Scalar("U64", 1)})}
    \cup {Mk!Scalar("Variant", 77)} \cup Wraps({Mk!Scalar("Variant", 77)})
    \cup {Mk!Datum(k, 77, <<>>, <<Mk!Scalar("U64", Id(1))>>) : k \in {"TupleVariant"}}
    \cup {Str(k, len) : k \in {"String", "Bytes"}, len \in {65535, 65536}}

Co == INSTANCE Codec WITH
        Data <- SomeData, CapVariant <- 77, Reserves <- {0, 3}, Cuts <- {0, 1},
        sent <- v1, datum <- v2, phase <- v3, reserve <- v4, bytes <- v5, whole <- v6,
        origin <- v7, got <- v8

-----------------------------------------------------------------------------
(* The variables from the n-th on are not used. *)
From10 == v10 = Off
From9 == v9 = Off /\ From10
From8 == v8 = Off /\ From9
From6 == v6 = Off /\ v7 = Off /\ From8
From5 == v5 = Off /\ From6
From3 == v3 = Off /\ v4 = Off /\ From5
From1 == v1 = Off /\ v2 = Off /\ From3

NoExecutor ==
  /\ tasks = Off /\ queue = Off /\ waiters = Off /\ slots = Off /\ future = Off /\ pool = Off
  /\ batch = Off /\ answered = Off /\ clients = Off /\ unsent = Off /\ lost = Off /\ exec = Off

Init ==
  \/ part = "executor" /\ ExecutorInit /\ From1
  \/ /\ NoExecutor
     /\ \/ part = "events" /\ Ev!EvInit /\ From10
        \/ part = "capspace" /\ Cs!CsInit /\ From6
        \/ part = "groups" /\ Tg!TgInit
        \/ part = "tree" /\ TreeInit
        \/ part = "userspace" /\ Us!UsInit /\ From10
        \/ part = "list" /\ Il!IlInit /\ From5
        \/ part = "heap" /\ He!HeapInit /\ From3
        \/ part = "codec" /\ Co!CodecInit /\ From9
        \/ part = "transfer" /\ Tr!TransferInit /\ From9
        \/ part = "parser" /\ Pa!ParserInit /\ From6
        \/ part = "shrink" /\ One!Init
        \/ part = "grow" /\ Grow!Init

Next ==
  \/ part = "executor" /\ ExecutorNext /\ UNCHANGED <<part, stock>>
  \/ /\ UNCHANGED <<part, executorVars>>
     /\ \/ part = "events" /\ Ev!EvNext /\ UNCHANGED v10
        \/ part = "capspace" /\ Cs!CsNext /\ UNCHANGED <<v6, v7, v8, v9, v10>>
        \/ part = "groups" /\ Tg!TgNext
        \/ part = "tree" /\ Tree!TgNext
        \/ part = "userspace" /\ Us!UsNext /\ UNCHANGED v10
        \/ part = "list" /\ Il!IlNext /\ UNCHANGED <<v5, v6, v7, v8, v9, v10>>
        \/ part = "heap" /\ He!HeapNext /\ UNCHANGED <<v3, v4, v5, v6, v7, v8, v9, v10>>
        \/ part = "codec" /\ Co!CodecNext /\ UNCHANGED <<v9, v10>>
        \/ part = "transfer" /\ Tr!TransferNext /\ UNCHANGED <<v9, v10>>
        \/ part = "parser" /\ Pa!ParserNext /\ UNCHANGED <<v6, v7, v8, v9, v10>>
        \/ part = "shrink" /\ One!Next
        \/ part = "grow" /\ Grow!Next

Spec == Init /\ [][Next]_<<part, stock, executorVars>>

Symmetry == Permutations({a1, a2})

(***************************************************************************)
(* free_space of the allocator is only ever added to and subtracted from;  *)
(* realloc_in_place lets it drift, so it is hidden.                        *)
(***************************************************************************)
View == <<part, v1, IF part \in {"shrink", "grow"} THEN Off ELSE v2, v3, v4, v5, v6, v7, v8, v9, v10, executorVars>>

-----------------------------------------------------------------------------
(* The properties of the parts *)

(* A thread asleep on an event pool does not sleep over an event           *)
(* (EventPool::await_event, wake_listener).                                *)
SleeperIsServed == part = "events" => Ev!SleeperIsServed

(* Events are handed out once and in the order of writing, over swaps of   *)
(* the buffers (swap_buffers).                                             *)
EventsHandedInOrder == part = "events" => Ev!EventsHandedInOrder

(* An emission that ran to its end has reached every listener              *)
(* (emit_event).                                                           *)
EmissionReachesAll == part = "events" => Ev!EmissionReachesAll

(* At every instruction the counts of an object are what its references    *)
(* add up to (Arc, Weak, CapabilitySpace).                                 *)
CountsExact == part = "capspace" => Cs!CountsExact

(* When ThreadGroup::exit returns, the threads that were in the group are  *)
(* dead.                                                                   *)
ExitKillsMembers ==
  (part = "groups" => Tg!ExitKillsMembers) /\ (part = "tree" => Tree!ExitKillsMembers)

(* No cpu waits for a thread list lock in a circle, as long as no thread   *)
(* holds a group above its own (ThreadGroup::exit, Drop).                  *)
NoLockCircle == (part = "groups" => Tg!NoLockCircle) /\ (part = "tree" => Tree!NoLockCircle)

(* The region list of a process agrees with what the kernel has mapped     *)
(* (LocalAddrSpaceManager).                                                *)
MappingsTracked == part = "userspace" => Us!MappingsTracked

(* The pointers of an intrusive list stand for the sequence its operations *)
(* should have made.                                                       *)
PointersExact == part = "list" => Il!PointersExact

(* Every byte of a heap zone is in exactly one free node or one block in   *)
(* use (LinkedListAllocator).                                              *)
HeapExact == part = "heap" => He!HeapExact

(* What a receiver deserializes is what was serialized, capabilities       *)
(* included (aser).                                                        *)
ReadsWhatWasSent == part = "codec" => Co!ReadsWhatWasSent

(* A message that crosses no page except in its data is copied as it was   *)
(* sent (CapabilityWriter).                                                *)
CopiesWithinPage == part = "transfer" => Tr!CopiesWithinPage

(* The event parser returns the events that were written, unless a message *)
(* ends on a word (EventParser).                                           *)
ParsesWhatWasWritten == part = "parser" => Pa!ParsesWhatWasWritten

(* No page belongs to two allocations, also when they are resized          *)
(* (try_alloc, realloc_in_place).                                          *)
NoOverlap == (part = "shrink" => One!NoOverlap) /\ (part = "grow" => Grow!NoOverlap)

(* With nobody inside the allocator, the status bytes describe the         *)
(* allocations exactly (dealloc_node).                                     *)
TreeExact == part = "shrink" => One!TreeExact

(* A lone caller is refused only when every block of the level overlaps an *)
(* allocation (alloc).                                                     *)
FailsOnlyWhenFull == part = "shrink" => One!FailsOnlyWhenFull
=============================================================================
