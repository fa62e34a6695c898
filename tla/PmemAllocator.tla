---------------------------- MODULE PmemAllocator ----------------------------
(***************************************************************************)
(* The lock-free buddy allocator for physical pages.  A heap-ordered tree  *)
(* holds one status byte per block; every load, store, compare_exchange    *)
(* and fetch_update of a byte is one step, so the steps of the callers     *)
(* interleave as on several cpus.                                          *)
(*                                                                         *)
(* Sizes are in units of level_size, addresses relative to the start of    *)
(* the managed range.                                                      *)
(***************************************************************************)
EXTENDS Integers, FiniteSets

CONSTANTS
  Callers,   \* the cpus that may be inside the allocator
  Depth,     \* level of the smallest blocks; the root has level 0
  Sizes,     \* the sizes callers ask for
  Calls      \* the operations they use, out of the ones below

ASSUME PmemAssumption ==
  /\ Depth \in Nat
  /\ Sizes \subseteq Nat \ {0}
  /\ Calls \subseteq {"alloc", "dealloc", "grow", "shrink"}

MaxSize == 2^Depth

Nodes == 0..(2 * MaxSize - 2)

Log2(n) == IF n = 0 THEN 0 ELSE CHOOSE k \in 0..n : 2^k <= n /\ n < 2^(k + 1)

-----------------------------------------------------------------------------
(* TreeNode                                                                *)

Left(n) == 2 * (n + 1) - 1

Right(n) == 2 * (n + 1)

Parent(n) == (n - 1) \div 2

Sides == {"Left", "Right"}

ChildType(n) == IF n % 2 = 0 THEN "Right" ELSE "Left"

Buddy(side) == IF side = "Left" THEN "Right" ELSE "Left"

Levels == [n \in Nodes |-> Log2(n + 1)]

Level(n) == Levels[n]

LevelStart(level) == 2^level - 1

BlockSize(n) == MaxSize \div 2^Level(n)

Addr(n) == BlockSize(n) * (n - LevelStart(Level(n)))

Pages(n) == Addr(n)..(Addr(n) + BlockSize(n) - 1)

(***************************************************************************)
(* get_level_for_allocation_size; a size above MaxSize has no level.       *)
(***************************************************************************)
LevelFor(size) ==
  LET level == Log2(MaxSize \div size) IN IF level < Depth THEN level ELSE Depth

-----------------------------------------------------------------------------
(* TreeStatus                                                              *)

Statuses == [occupy : SUBSET Sides, coal : SUBSET Sides, full : BOOLEAN]

Empty == [occupy |-> {}, coal |-> {}, full |-> FALSE]

Busy == [occupy |-> Sides, coal |-> {}, full |-> TRUE]

OccupyLeft == [occupy |-> {"Left"}, coal |-> {}, full |-> FALSE]

(***************************************************************************)
(* TreeNode::is_free looks at the three bits of BUSY only.                 *)
(***************************************************************************)
IsFree(status) == status.occupy = {} /\ ~status.full

Labels == {"idle", "scan", "cas", "climb", "coal", "clear", "uncoal", "add", "some", "none",
           "grow", "clean", "mid", "final", "top", "resized", "refused"}

VARIABLES
  tree,    \* the status byte of every node
  free,    \* free_space
  live,    \* how many allocations of every block callers hold
  pc,      \* where every caller is
  call,    \* the operation it is in,
  size,    \* the size it asked for
  node,    \* the node it allocates, releases or resizes,
  cur,     \* current of the loop it is in,
  end,     \* where dealloc_node stops,
  old      \* and the node of the allocation passed to realloc_in_place

locals == <<call, size, node, cur, end, old>>
vars == <<tree, free, live, pc, locals>>

Init ==
  /\ tree = [n \in Nodes |-> Empty]
  /\ free = MaxSize
  /\ live = [n \in Nodes |-> 0]
  /\ pc = [p \in Callers |-> "idle"]
  /\ call = [p \in Callers |-> "alloc"]
  /\ size = [p \in Callers |-> 0]
  /\ node = [p \in Callers |-> 0]
  /\ cur = [p \in Callers |-> 0]
  /\ end = [p \in Callers |-> 0]
  /\ old = [p \in Callers |-> 0]

Goto(p, label) == pc' = [pc EXCEPT ![p] = label]
Store(n, status) == tree' = [tree EXCEPT ![n] = status]

(***************************************************************************)
(* An operation returns and its locals go out of scope.                    *)
(***************************************************************************)
Leave(p) ==
  /\ Goto(p, "idle")
  /\ call' = [call EXCEPT ![p] = "alloc"]
  /\ size' = [size EXCEPT ![p] = 0]
  /\ node' = [node EXCEPT ![p] = 0]
  /\ cur' = [cur EXCEPT ![p] = 0]
  /\ end' = [end EXCEPT ![p] = 0]
  /\ old' = [old EXCEPT ![p] = 0]

-----------------------------------------------------------------------------
(* alloc                                                                   *)

(***************************************************************************)
(* A size above max_size returns None at once and changes nothing.         *)
(***************************************************************************)
Alloc(p, s) ==
  /\ "alloc" \in Calls
  /\ pc[p] = "idle"
  /\ s <= MaxSize
  /\ call' = [call EXCEPT ![p] = "alloc"]
  /\ size' = [size EXCEPT ![p] = s]
  /\ node' = [node EXCEPT ![p] = LevelStart(LevelFor(s))]
  /\ Goto(p, "scan")
  /\ UNCHANGED <<tree, free, live, cur, end, old>>

(***************************************************************************)
(* The loop of alloc goes on at node i of the level, if there is one.      *)
(***************************************************************************)
Advance(p, i) ==
  IF i < LevelStart(LevelFor(size[p]) + 1)
    THEN node' = [node EXCEPT ![p] = i] /\ Goto(p, "scan")
    ELSE Goto(p, "none") /\ UNCHANGED node

CheckFree(p) ==
  /\ pc[p] = "scan"
  /\ IF IsFree(tree[node[p]])
       THEN Goto(p, "cas") /\ UNCHANGED node
       ELSE Advance(p, node[p] + 1)
  /\ UNCHANGED <<tree, free, live, call, size, cur, end, old>>

(***************************************************************************)
(* A mutant of TryAlloc: a store for the compare_exchange.                 *)
(***************************************************************************)
TryAllocStores(p) ==
  LET n == node[p]
  IN /\ pc[p] = "cas"
     /\ Store(n, Busy)
     /\ cur' = [cur EXCEPT ![p] = n]
     /\ Goto(p, IF n = 0 THEN "some" ELSE "climb")
     /\ UNCHANGED <<free, live, call, size, node, end, old>>

(***************************************************************************)
(* The compare_exchange of try_alloc.  The root has no parent to mark.     *)
(***************************************************************************)
TryAlloc(p) ==
  LET n == node[p]
  IN /\ pc[p] = "cas"
     /\ IF tree[n] = Empty
          THEN /\ Store(n, Busy)
               /\ cur' = [cur EXCEPT ![p] = n]
               /\ Goto(p, IF n = 0 THEN "some" ELSE "climb")
               /\ UNCHANGED node
          ELSE /\ Advance(p, n + 1)
               /\ UNCHANGED <<tree, cur>>
     /\ UNCHANGED <<free, live, call, size, end, old>>

(***************************************************************************)
(* dealloc_node(start, stop): nothing to mark if start is already at stop. *)
(***************************************************************************)
DeallocNode(p, start, stop) ==
  /\ cur' = [cur EXCEPT ![p] = start]
  /\ end' = [end EXCEPT ![p] = stop]
  /\ Goto(p, IF Level(start) > Level(stop) THEN "coal" ELSE "clear")

(***************************************************************************)
(* A mutant of MarkParent: does not look for an allocated ancestor.        *)
(***************************************************************************)
MarkParentUnchecked(p) ==
  LET n == cur[p]
      q == Parent(n)
      side == ChildType(n)
  IN /\ pc[p] = "climb"
     /\ Store(q, [tree[q] EXCEPT !.coal = @ \ {side}, !.occupy = @ \cup {side}])
     /\ cur' = [cur EXCEPT ![p] = q]
     /\ Goto(p, IF q = 0 THEN "some" ELSE "climb")
     /\ UNCHANGED <<free, live, call, size, node, end, old>>

(***************************************************************************)
(* One fetch_update of the loop of try_alloc: mark the parent, or undo     *)
(* everything up to the current node because an ancestor is allocated.     *)
(***************************************************************************)
MarkParent(p) ==
  LET n == cur[p]
      q == Parent(n)
      side == ChildType(n)
  IN /\ pc[p] = "climb"
     /\ IF tree[q].full
          THEN /\ DeallocNode(p, node[p], n)
               /\ UNCHANGED tree
          ELSE /\ Store(q, [tree[q] EXCEPT !.coal = @ \ {side}, !.occupy = @ \cup {side}])
               /\ cur' = [cur EXCEPT ![p] = q]
               /\ Goto(p, IF q = 0 THEN "some" ELSE "climb")
               /\ UNCHANGED end
     /\ UNCHANGED <<free, live, call, size, node, old>>

(***************************************************************************)
(* free_space.fetch_sub and the return of the block.                       *)
(***************************************************************************)
ReturnSome(p) ==
  /\ pc[p] = "some"
  /\ free' = free - BlockSize(node[p])
  /\ live' = [live EXCEPT ![node[p]] = @ + 1]
  /\ Leave(p)
  /\ UNCHANGED tree

ReturnNone(p) ==
  /\ pc[p] = "none"
  /\ Leave(p)
  /\ UNCHANGED <<tree, free, live>>

-----------------------------------------------------------------------------
(* dealloc                                                                 *)

(***************************************************************************)
(* An allocation passed to realloc_in_place is not used meanwhile.         *)
(***************************************************************************)
InCall(n) ==
  \E p \in Callers : call[p] \in {"grow", "shrink"} /\ old[p] = n

Dealloc(p, n) ==
  /\ "dealloc" \in Calls
  /\ pc[p] = "idle"
  /\ live[n] > 0 /\ ~InCall(n)
  /\ live' = [live EXCEPT ![n] = @ - 1]
  /\ call' = [call EXCEPT ![p] = "dealloc"]
  /\ node' = [node EXCEPT ![p] = n]
  /\ DeallocNode(p, n, 0)
  /\ UNCHANGED <<tree, free, size, old>>

(***************************************************************************)
(* First loop of dealloc_node.                                             *)
(***************************************************************************)
SetCoal(p) ==
  LET q == Parent(cur[p])
      side == ChildType(cur[p])
      other == Buddy(side)
  IN /\ pc[p] = "coal"
     /\ Store(q, [tree[q] EXCEPT !.coal = @ \cup {side}])
     /\ cur' = [cur EXCEPT ![p] = q]
     /\ Goto(p, IF \/ other \in tree[q].occupy /\ other \notin tree[q].coal
                   \/ Level(q) <= Level(end[p])
                  THEN "clear" ELSE "coal")
     /\ UNCHANGED <<free, live, call, size, node, end, old>>

(***************************************************************************)
(* Mutants of AfterDealloc: the search resumes at the block that failed or *)
(* a block too late.                                                       *)
(***************************************************************************)
AfterDeallocRetries(p) ==
  IF call[p] = "dealloc"
    THEN Goto(p, "add") /\ UNCHANGED node
    ELSE Advance(p, 2^(Level(node[p]) - Level(Parent(end[p]))) * (Parent(end[p]) + 1) - 1)

AfterDeallocSkips(p) ==
  IF call[p] = "dealloc"
    THEN Goto(p, "add") /\ UNCHANGED node
    ELSE LET fail == Parent(end[p])
             scale == 2^(Level(node[p]) - Level(fail))
         IN Advance(p, scale * (fail + 1) - 1 + 2 * scale)

(***************************************************************************)
(* What follows dealloc_node: dealloc adds to free_space, try_alloc has    *)
(* failed at the parent of end and alloc skips the blocks below it.        *)
(***************************************************************************)
AfterDealloc(p) ==
  IF call[p] = "dealloc"
    THEN Goto(p, "add") /\ UNCHANGED node
    ELSE LET fail == Parent(end[p])
             scale == 2^(Level(node[p]) - Level(fail))
         IN Advance(p, scale * (fail + 1) - 1 + scale)

ClearStart(p) ==
  /\ pc[p] = "clear"
  /\ Store(node[p], Empty)
  /\ cur' = [cur EXCEPT ![p] = node[p]]
  /\ IF Level(node[p]) > Level(end[p])
       THEN Goto(p, "uncoal") /\ UNCHANGED node
       ELSE AfterDealloc(p)
  /\ UNCHANGED <<free, live, call, size, end, old>>

(***************************************************************************)
(* A mutant of ClearCoal: leaves the coalesce bit.                         *)
(***************************************************************************)
ClearCoalKeepsMark(p) ==
  LET q == Parent(cur[p])
      side == ChildType(cur[p])
      marked == side \in tree[q].coal
  IN /\ pc[p] = "uncoal"
     /\ IF marked
          THEN Store(q, [tree[q] EXCEPT !.occupy = @ \ {side}])
          ELSE UNCHANGED tree
     /\ cur' = [cur EXCEPT ![p] = q]
     /\ IF marked /\ Buddy(side) \notin tree[q].occupy /\ Level(q) > Level(end[p])
          THEN Goto(p, "uncoal") /\ UNCHANGED node
          ELSE AfterDealloc(p)
     /\ UNCHANGED <<free, live, call, size, end, old>>

(***************************************************************************)
(* Second loop of dealloc_node.                                            *)
(***************************************************************************)
ClearCoal(p) ==
  LET q == Parent(cur[p])
      side == ChildType(cur[p])
      marked == side \in tree[q].coal
  IN /\ pc[p] = "uncoal"
     /\ IF marked
          THEN Store(q, [tree[q] EXCEPT !.occupy = @ \ {side}, !.coal = @ \ {side}])
          ELSE UNCHANGED tree
     /\ cur' = [cur EXCEPT ![p] = q]
     /\ IF marked /\ Buddy(side) \notin tree[q].occupy /\ Level(q) > Level(end[p])
          THEN Goto(p, "uncoal") /\ UNCHANGED node
          ELSE AfterDealloc(p)
     /\ UNCHANGED <<free, live, call, size, end, old>>

AddFree(p) ==
  /\ pc[p] = "add"
  /\ free' = free + BlockSize(node[p])
  /\ Leave(p)
  /\ UNCHANGED <<tree, live>>

-----------------------------------------------------------------------------
(* realloc_in_place                                                        *)

(***************************************************************************)
(* shrink_node(n, level) starts below n, or has nothing to do.             *)
(***************************************************************************)
ShrinkNode(p, n, level, done) ==
  IF level <= Level(n)
    THEN Goto(p, done) /\ UNCHANGED <<node, cur>>
    ELSE /\ node' = [node EXCEPT ![p] = n]
         /\ cur' = [cur EXCEPT ![p] = Left(n)]
         /\ Goto(p, IF Level(n) + 1 < level THEN "mid" ELSE "final")

(***************************************************************************)
(* realloc_in_place grows or shrinks; at the same level it returns at once.*)
(***************************************************************************)
StartRealloc(p, op, n, s) ==
  /\ op \in Calls
  /\ pc[p] = "idle"
  /\ live[n] > 0 /\ ~InCall(n)
  /\ s <= MaxSize
  /\ call' = [call EXCEPT ![p] = op]
  /\ size' = [size EXCEPT ![p] = s]
  /\ old' = [old EXCEPT ![p] = n]

ReallocGrow(p, n, s) ==
  /\ StartRealloc(p, "grow", n, s)
  /\ Level(n) > LevelFor(s)
  /\ cur' = [cur EXCEPT ![p] = Parent(n)]
  /\ Goto(p, "grow")
  /\ UNCHANGED <<tree, free, live, node, end>>

ReallocShrink(p, n, s) ==
  /\ StartRealloc(p, "shrink", n, s)
  /\ Level(n) < LevelFor(s)
  /\ ShrinkNode(p, n, LevelFor(s), "resized")
  /\ UNCHANGED <<tree, free, live, end>>

(***************************************************************************)
(* The level shrink_node is given: the new one, or the old one when        *)
(* growing has failed.                                                     *)
(***************************************************************************)
ShrinkLevel(p) == IF call[p] = "grow" THEN Level(old[p]) ELSE LevelFor(size[p])

GrowNode(p) ==
  LET q == cur[p]
  IN /\ pc[p] = "grow"
     /\ IF "Right" \in tree[q].occupy
          THEN /\ ShrinkNode(p, Left(q), Level(old[p]), "refused")
               /\ UNCHANGED tree
          ELSE /\ Store(q, Busy)
               /\ IF q = 0 \/ Level(q) - 1 > LevelFor(size[p])
                    THEN /\ node' = [node EXCEPT ![p] = q]
                         /\ cur' = [cur EXCEPT ![p] = Left(q)]
                         /\ Goto(p, "clean")
                    ELSE /\ cur' = [cur EXCEPT ![p] = Parent(q)]
                         /\ UNCHANGED <<node, pc>>
     /\ UNCHANGED <<free, live, call, size, end, old>>

CleanNode(p) ==
  /\ pc[p] = "clean"
  /\ Store(cur[p], Empty)
  /\ cur' = [cur EXCEPT ![p] = Left(@)]
  /\ Goto(p, IF Level(cur[p]) < Level(old[p]) THEN "clean" ELSE "resized")
  /\ UNCHANGED <<free, live, call, size, node, end, old>>

ShrinkMiddle(p) ==
  /\ pc[p] = "mid"
  /\ Store(cur[p], OccupyLeft)
  /\ cur' = [cur EXCEPT ![p] = Left(@)]
  /\ Goto(p, IF Level(cur[p]) + 1 < ShrinkLevel(p) THEN "mid" ELSE "final")
  /\ UNCHANGED <<free, live, call, size, node, end, old>>

ShrinkFinal(p) ==
  /\ pc[p] = "final"
  /\ Store(cur[p], Busy)
  /\ Goto(p, "top")
  /\ UNCHANGED <<free, live, locals>>

(***************************************************************************)
(* Mutant of ShrinkTop: clears the old block.                              *)
(***************************************************************************)
ShrinkTopClears(p) ==
  /\ pc[p] = "top"
  /\ Store(node[p], Empty)
  /\ node' = [node EXCEPT ![p] = cur[p]]
  /\ Goto(p, IF call[p] = "grow" THEN "refused" ELSE "resized")
  /\ UNCHANGED <<free, live, call, size, cur, end, old>>

ShrinkTop(p) ==
  /\ pc[p] = "top"
  /\ Store(node[p], OccupyLeft)
  /\ node' = [node EXCEPT ![p] = cur[p]]
  /\ Goto(p, IF call[p] = "grow" THEN "refused" ELSE "resized")
  /\ UNCHANGED <<free, live, call, size, cur, end, old>>

(***************************************************************************)
(* The caller gets the resized allocation for the old one.                 *)
(***************************************************************************)
ReturnResized(p) ==
  /\ pc[p] = "resized"
  /\ live' = [[live EXCEPT ![old[p]] = @ - 1] EXCEPT ![node[p]] = @ + 1]
  /\ Leave(p)
  /\ UNCHANGED <<tree, free>>

ReturnRefused(p) ==
  /\ pc[p] = "refused"
  /\ Leave(p)
  /\ UNCHANGED <<tree, free, live>>

-----------------------------------------------------------------------------
AllocStep(p) ==
  \/ CheckFree(p)
  \/ TryAlloc(p)
  \/ MarkParent(p)
  \/ ReturnSome(p)
  \/ ReturnNone(p)
  \/ SetCoal(p)
  \/ ClearStart(p)
  \/ ClearCoal(p)
  \/ AddFree(p)

ReallocStep(p) ==
  \/ GrowNode(p)
  \/ CleanNode(p)
  \/ ShrinkMiddle(p)
  \/ ShrinkFinal(p)
  \/ ShrinkTop(p)
  \/ ReturnResized(p)
  \/ ReturnRefused(p)

Step(p) == AllocStep(p) \/ ReallocStep(p)

Next ==
  \E p \in Callers :
    \/ Step(p)
    \/ \E s \in Sizes : Alloc(p, s)
    \/ \E n \in Nodes : Dealloc(p, n)
    \/ \E n \in Nodes, s \in Sizes : ReallocGrow(p, n, s) \/ ReallocShrink(p, n, s)

Spec == Init /\ [][Next]_vars

(***************************************************************************)
(* Callers that never resize; a cpu inside the allocator keeps executing.  *)
(***************************************************************************)
PlainNext ==
  \E p \in Callers :
    \/ AllocStep(p)
    \/ \E s \in Sizes : Alloc(p, s)
    \/ \E n \in Nodes : Dealloc(p, n)

FairSpec == Init /\ [][PlainNext]_vars /\ \A p \in Callers : WF_vars(AllocStep(p))

-----------------------------------------------------------------------------
(* Properties                                                              *)

Quiet == \A p \in Callers : pc[p] = "idle"

Held == {n \in Nodes : live[n] > 0}

(***************************************************************************)
(* No page belongs to two allocations ("allocations do not overlap because *)
(* alloc will ensure they don't overlap").                                 *)
(***************************************************************************)
NoOverlap ==
  /\ \A n \in Nodes : live[n] <= 1
  /\ \A m, n \in Held : m # n => Pages(m) \cap Pages(n) = {}

(***************************************************************************)
(* The same as a refinement: what callers see is an allocator of blocks.   *)
(***************************************************************************)
Abstract == INSTANCE Blocks WITH Names <- Nodes, Pages <- Pages, live <- live

Refines == Abstract!Spec

(***************************************************************************)
(* No block is handed out twice, whatever the callers do.                  *)
(***************************************************************************)
BlockHeldOnce == \A n \in Nodes : live[n] <= 1

(***************************************************************************)
(* Once no operation is in progress the tree says exactly what is          *)
(* allocated: OCCUPY and both sides for an allocated block, the occupied   *)
(* sides of every block above it and nothing else.                         *)
(***************************************************************************)
Occupied(n) ==
  {side \in Sides : LET child == IF side = "Left" THEN Left(n) ELSE Right(n)
                    IN \E m \in Held : Pages(m) \subseteq Pages(child)}

Inside(n) == \E m \in Held : m # n /\ Pages(n) \subseteq Pages(m)

Exact(n) ==
  IF n \in Held THEN Busy
  ELSE IF Level(n) = Depth \/ Inside(n) THEN Empty
  ELSE [occupy |-> Occupied(n), coal |-> {}, full |-> FALSE]

TreeExact == Quiet => \A n \in Nodes : tree[n] = Exact(n)

(***************************************************************************)
(* With one caller, alloc fails only if every block of the level overlaps  *)
(* an allocation.                                                          *)
(***************************************************************************)
FailsOnlyWhenFull ==
  \A p \in Callers :
    pc[p] = "none" =>
      \A n \in Nodes : Level(n) = LevelFor(size[p]) =>
        \E m \in Held : Pages(m) \cap Pages(n) # {}

(***************************************************************************)
(* Every operation returns: the search of alloc never goes back, whatever  *)
(* the others do.                                                          *)
(***************************************************************************)
Returns == \A p \in Callers : pc[p] # "idle" ~> pc[p] = "idle"
=============================================================================
