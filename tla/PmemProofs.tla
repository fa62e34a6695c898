------------------------------ MODULE PmemProofs ------------------------------
(***************************************************************************)
(* What the compare_exchange of try_alloc guarantees for any number of     *)
(* callers and any depth of the tree, as long as nothing is resized in     *)
(* place: the OCCUPY bit of a node is a lock, held by the one caller that  *)
(* is allocating or releasing the block, or by the one allocation of it.   *)
(***************************************************************************)
EXTENDS PmemAllocator, TLAPS

AllocDealloc == Calls \subseteq {"alloc", "dealloc"}

(***************************************************************************)
(* The caller has set the OCCUPY bit of n and neither handed the block out *)
(* nor cleared the bit.                                                    *)
(***************************************************************************)
Owns(p, n) == pc[p] \in {"climb", "some", "coal", "clear"} /\ node[p] = n

(***************************************************************************)
(* Where a caller is while it allocates or releases.                       *)
(***************************************************************************)
AllocLabels == {"idle", "scan", "cas", "climb", "coal", "clear", "uncoal", "add", "some", "none"}

BitTypes ==
  /\ tree \in [Nodes -> Statuses]
  /\ live \in [Nodes -> Nat]
  /\ pc \in [Callers -> AllocLabels]
  /\ node = [p \in Callers |-> node[p]]

BitIsLock ==
  \A n \in Nodes :
    /\ live[n] <= 1
    /\ live[n] = 1 => tree[n].full
    /\ \A p \in Callers : Owns(p, n) => tree[n].full /\ live[n] = 0
    /\ \A p, q \in Callers : Owns(p, n) /\ Owns(q, n) => p = q

-----------------------------------------------------------------------------
(***************************************************************************)
(* The status values the code stores.                                      *)
(***************************************************************************)
LEMMA StatusTypes ==
  /\ Empty \in Statuses /\ ~Empty.full
  /\ Busy \in Statuses /\ Busy.full
BY DEF Empty, Busy, Statuses, Sides

(***************************************************************************)
(* The three ways the fetch_updates edit a status.                         *)
(***************************************************************************)
LEMMA StatusEdits ==
  ASSUME NEW st \in Statuses, NEW side \in Sides
  PROVE  LET s1 == [st EXCEPT !.coal = @ \ {side}, !.occupy = @ \cup {side}]
             s2 == [st EXCEPT !.coal = @ \cup {side}]
             s3 == [st EXCEPT !.occupy = @ \ {side}, !.coal = @ \ {side}]
         IN  /\ s1 \in Statuses /\ s1.full = st.full
             /\ s2 \in Statuses /\ s2.full = st.full
             /\ s3 \in Statuses /\ s3.full = st.full
<1>1. /\ st.occupy \cup {side} \in SUBSET Sides /\ st.occupy \ {side} \in SUBSET Sides
      /\ st.coal \cup {side} \in SUBSET Sides /\ st.coal \ {side} \in SUBSET Sides
  BY DEF Statuses
<1> QED BY <1>1, Zenon DEF Statuses

(***************************************************************************)
(* Marking or unmarking a side of a node touches neither OCCUPY nor the    *)
(* types: the fetch_updates of try_alloc and dealloc_node.                 *)
(***************************************************************************)
LEMMA Marks ==
  ASSUME NEW q, NEW status, tree \in [Nodes -> Statuses], Store(q, status),
         q \in Nodes => status \in Statuses /\ status.full = tree[q].full
  PROVE  /\ tree' \in [Nodes -> Statuses]
         /\ \A n \in Nodes : tree'[n].full = tree[n].full
<1>1. CASE q \in Nodes
  BY <1>1 DEF Store
<1>2. CASE q \notin Nodes
  <2>1. tree' = tree
    BY <1>2 DEF Store
  <2> QED BY <2>1
<1> QED BY <1>1, <1>2

(***************************************************************************)
(* A step that leaves every OCCUPY bit and allocation alone and takes no   *)
(* node keeps the locks.                                                   *)
(***************************************************************************)
LEMMA SameLocks ==
  ASSUME BitIsLock, live' = live,
         \A n \in Nodes : tree'[n].full = tree[n].full,
         \A q \in Callers, n \in Nodes : Owns(q, n)' => Owns(q, n)
  PROVE  BitIsLock'
BY DEF BitIsLock

(***************************************************************************)
(* Only the caller that takes a step moves.                                *)
(***************************************************************************)
LEMMA Others ==
  ASSUME BitTypes, NEW p \in Callers, NEW label \in AllocLabels, NEW i,
         Goto(p, label),
         node' = [node EXCEPT ![p] = i]
  PROVE  /\ pc' \in [Callers -> AllocLabels]
         /\ node' = [q \in Callers |-> node'[q]]
         /\ pc'[p] = label /\ node'[p] = i
         /\ \A q \in Callers, n \in Nodes : q # p => (Owns(q, n)' <=> Owns(q, n))
<1>1. /\ pc' \in [Callers -> AllocLabels]
      /\ pc'[p] = label
      /\ \A q \in Callers : q # p => pc'[q] = pc[q]
  BY DEF BitTypes, Goto
<1>2. /\ node' = [q \in Callers |-> node'[q]]
      /\ node'[p] = i
      /\ \A q \in Callers : q # p => node'[q] = node[q]
  BY DEF BitTypes
<1> QED BY <1>1, <1>2 DEF Owns

(***************************************************************************)
(* A step of p that keeps its node, or owns none afterwards, and changes   *)
(* no OCCUPY bit and no allocation.                                        *)
(***************************************************************************)
LEMMA Moves ==
  ASSUME BitTypes, BitIsLock, NEW p \in Callers, NEW label \in AllocLabels, NEW i,
         Goto(p, label), node' = [node EXCEPT ![p] = i],
         live' = live, tree' \in [Nodes -> Statuses],
         \A n \in Nodes : tree'[n].full = tree[n].full,
         \/ label \notin {"climb", "some", "coal", "clear"}
         \/ i = node[p] /\ pc[p] \in {"climb", "some", "coal", "clear"}
  PROVE  BitTypes' /\ BitIsLock'
<1>1. /\ pc' \in [Callers -> AllocLabels]
      /\ node' = [q \in Callers |-> node'[q]]
      /\ pc'[p] = label /\ node'[p] = i
      /\ \A q \in Callers, n \in Nodes : q # p => (Owns(q, n)' <=> Owns(q, n))
  BY Others, Zenon
<1>2. \A n \in Nodes : Owns(p, n)' => Owns(p, n)
  BY <1>1 DEF Owns
<1>3. BitIsLock'
  BY <1>1, <1>2, SameLocks
<1> QED BY <1>1, <1>3 DEF BitTypes

(***************************************************************************)
(* The same for a step that leaves the node of p alone.                    *)
(***************************************************************************)
LEMMA SameNode ==
  ASSUME BitTypes, UNCHANGED node, NEW p \in Callers
  PROVE  node' = [node EXCEPT ![p] = node[p]]
BY DEF BitTypes

(***************************************************************************)
(* Where the search of alloc and the end of dealloc_node lead.             *)
(***************************************************************************)
LEMMA Continues ==
  ASSUME BitTypes, NEW p \in Callers
  PROVE  /\ \A i : Advance(p, i) =>
              \E label \in {"scan", "none"} : \E j : Goto(p, label) /\ node' = [node EXCEPT ![p] = j]
         /\ AfterDealloc(p) =>
              \E label \in {"scan", "none", "add"} : \E j :
                Goto(p, label) /\ node' = [node EXCEPT ![p] = j]
<1>1. \A i : Advance(p, i) =>
        \E label \in {"scan", "none"} : \E j : Goto(p, label) /\ node' = [node EXCEPT ![p] = j]
  BY SameNode, Zenon DEF Advance
<1>2. AfterDealloc(p) => (Goto(p, "add") /\ UNCHANGED node) \/ \E i : Advance(p, i)
  BY Zenon DEF AfterDealloc
<1> QED BY <1>1, <1>2, SameNode, Zenon

-----------------------------------------------------------------------------
(***************************************************************************)
(* The steps of an allocation that take no OCCUPY bit.                     *)
(***************************************************************************)
LEMMA IdleMoves ==
  ASSUME BitTypes, BitIsLock, NEW p \in Callers, NEW s,
         Alloc(p, s) \/ CheckFree(p) \/ ReturnNone(p) \/ AddFree(p)
  PROVE  BitTypes' /\ BitIsLock'
<1> USE DEF AllocLabels
<1>0. tree' = tree /\ live' = live
  BY DEF Alloc, CheckFree, ReturnNone, AddFree
<1>1. PICK label, i : label \in {"scan", "cas", "none", "idle"} /\
        Goto(p, label) /\ node' = [node EXCEPT ![p] = i]
  <2>1. CASE Alloc(p, s)
    BY <2>1, Zenon DEF Alloc
  <2>2. CASE CheckFree(p)
    <3>1. CASE Goto(p, "cas") /\ UNCHANGED node
      BY <3>1, SameNode, Zenon
    <3>2. CASE Advance(p, node[p] + 1)
      <4>1. PICK label, i : label \in {"scan", "none"} /\
              Goto(p, label) /\ node' = [node EXCEPT ![p] = i]
        BY <3>2, Continues, Zenon
      <4> QED BY <4>1, Zenon
    <3> QED BY <2>2, <3>1, <3>2, Zenon DEF CheckFree
  <2>3. CASE ReturnNone(p) \/ AddFree(p)
    BY <2>3, Zenon DEF ReturnNone, AddFree, Leave
  <2> QED BY <2>1, <2>2, <2>3
<1> QED BY <1>0, <1>1, Moves, Zenon DEF BitTypes

(***************************************************************************)
(* try_alloc marks the parent, dealloc_node marks and unmarks it.          *)
(***************************************************************************)
LEMMA ParentMoves ==
  ASSUME BitTypes, BitIsLock, NEW p \in Callers,
         MarkParent(p) \/ SetCoal(p) \/ ClearCoal(p)
  PROVE  BitTypes' /\ BitIsLock'
<1> USE DEF AllocLabels
<1>0. live' = live
  BY DEF MarkParent, SetCoal, ClearCoal
<1>1. /\ tree' \in [Nodes -> Statuses]
      /\ \A n \in Nodes : tree'[n].full = tree[n].full
  <2> DEFINE q == Parent(cur[p])
             side == ChildType(cur[p])
             s1 == [tree[q] EXCEPT !.coal = @ \ {side}, !.occupy = @ \cup {side}]
             s2 == [tree[q] EXCEPT !.coal = @ \cup {side}]
             s3 == [tree[q] EXCEPT !.occupy = @ \ {side}, !.coal = @ \ {side}]
  <2>0. q \in Nodes =>
           /\ s1 \in Statuses /\ s1.full = tree[q].full
           /\ s2 \in Statuses /\ s2.full = tree[q].full
           /\ s3 \in Statuses /\ s3.full = tree[q].full
    <3> SUFFICES ASSUME q \in Nodes
                 PROVE  /\ s1 \in Statuses /\ s1.full = tree[q].full
                        /\ s2 \in Statuses /\ s2.full = tree[q].full
                        /\ s3 \in Statuses /\ s3.full = tree[q].full
      OBVIOUS
    <3>1. tree[q] \in Statuses /\ side \in Sides
      BY DEF BitTypes, ChildType, Sides
    <3> HIDE DEF q, side
    <3> QED BY <3>1, StatusEdits, Zenon DEF s1, s2, s3
  <2>1. CASE UNCHANGED tree
    BY <2>1 DEF BitTypes
  <2>2. CASE \E status : Store(q, status) /\ (q \in Nodes => status \in Statuses /\ status.full = tree[q].full)
    BY <2>2, Marks DEF BitTypes
  <2>3. UNCHANGED tree \/ \E status : Store(q, status) /\ (q \in Nodes => status \in Statuses /\ status.full = tree[q].full)
    <3>1. CASE MarkParent(p)
      BY <3>1, <2>0, Zenon DEF MarkParent
    <3>2. CASE SetCoal(p)
      BY <3>2, <2>0, Zenon DEF SetCoal
    <3>3. CASE ClearCoal(p)
      BY <3>3, <2>0, Zenon DEF ClearCoal
    <3> QED BY <3>1, <3>2, <3>3
  <2> QED BY <2>1, <2>2, <2>3
<1>2. CASE MarkParent(p) \/ SetCoal(p)
  <2>1. PICK label \in {"climb", "some", "coal", "clear"} : Goto(p, label) /\ UNCHANGED node
    BY <1>2, Zenon DEF MarkParent, SetCoal, DeallocNode
  <2>2. pc[p] \in {"climb", "coal"}
    BY <1>2 DEF MarkParent, SetCoal
  <2> QED BY <1>0, <1>1, <2>1, <2>2, SameNode, Moves
<1>3. CASE ClearCoal(p)
  <2>1. PICK label, i : label \in {"scan", "none", "add", "uncoal"} /\
          Goto(p, label) /\ node' = [node EXCEPT ![p] = i]
    <3>1. CASE Goto(p, "uncoal") /\ UNCHANGED node
      BY <3>1, SameNode, Zenon
    <3>2. CASE AfterDealloc(p)
      <4>1. PICK label, i : label \in {"scan", "none", "add"} /\
              Goto(p, label) /\ node' = [node EXCEPT ![p] = i]
        BY <3>2, Continues, Zenon
      <4> QED BY <4>1, Zenon
    <3> QED BY <1>3, <3>1, <3>2, Zenon DEF ClearCoal
  <2> QED BY <1>0, <1>1, <2>1, Moves, Zenon
<1> QED BY <1>2, <1>3

(***************************************************************************)
(* The compare_exchange: it takes the OCCUPY bit of a node nobody has.     *)
(***************************************************************************)
LEMMA TakesLock ==
  ASSUME BitTypes, BitIsLock, NEW p \in Callers, TryAlloc(p)
  PROVE  BitTypes' /\ BitIsLock'
<1> USE DEF AllocLabels
<1>1. CASE tree[node[p]] = Empty
  <2>1. PICK label \in {"some", "climb"} : Goto(p, label) /\ UNCHANGED node
    BY <1>1, Zenon DEF TryAlloc
  <2>2. Store(node[p], Busy) /\ live' = live
    BY <1>1 DEF TryAlloc
  <2>3. /\ pc' \in [Callers -> AllocLabels]
        /\ node' = [q \in Callers |-> node'[q]]
        /\ pc'[p] = label /\ node'[p] = node[p]
        /\ \A q \in Callers, n \in Nodes : q # p => (Owns(q, n)' <=> Owns(q, n))
    BY <2>1, SameNode, Others
  <2>4. tree' \in [Nodes -> Statuses] /\ \A n \in Nodes : tree[n].full => tree'[n].full
    BY <2>2, StatusTypes, Zenon DEF Store, BitTypes
  <2>5. node[p] \in Nodes => ~tree[node[p]].full /\ tree'[node[p]].full
    BY <2>2, <1>1, StatusTypes DEF Store, BitTypes
  <2>6. ASSUME NEW n \in Nodes
        PROVE  /\ live'[n] <= 1
               /\ live'[n] = 1 => tree'[n].full
               /\ \A q \in Callers : Owns(q, n)' => tree'[n].full /\ live'[n] = 0
               /\ \A q, r \in Callers : Owns(q, n)' /\ Owns(r, n)' => q = r
    <3>1. CASE n = node[p]
      <4>1. live[n] = 0 /\ \A q \in Callers : ~Owns(q, n)
        BY <3>1, <2>5 DEF BitIsLock, BitTypes
      <4> QED BY <4>1, <3>1, <2>2, <2>3, <2>5
    <3>2. CASE n # node[p]
      <4>1. ~Owns(p, n)'
        BY <3>2, <2>3 DEF Owns
      <4>2. \A q \in Callers : Owns(q, n)' => Owns(q, n)
        BY <4>1, <2>3
      <4> QED BY <4>2, <2>2, <2>4 DEF BitIsLock
    <3> QED BY <3>1, <3>2
  <2> QED BY <2>2, <2>3, <2>4, <2>6 DEF BitTypes, BitIsLock
<1>2. CASE tree[node[p]] # Empty
  <2>1. tree' = tree /\ live' = live /\ Advance(p, node[p] + 1)
    BY <1>2 DEF TryAlloc
  <2>2. PICK label, i : label \in {"scan", "none"} /\
          Goto(p, label) /\ node' = [node EXCEPT ![p] = i]
    BY <2>1, Continues, Zenon
  <2> QED BY <2>1, <2>2, Moves, Zenon DEF BitTypes
<1> QED BY <1>1, <1>2

(***************************************************************************)
(* The store of 0 gives the OCCUPY bit up.                                 *)
(***************************************************************************)
LEMMA DropsLock ==
  ASSUME BitTypes, BitIsLock, NEW p \in Callers, ClearStart(p)
  PROVE  BitTypes' /\ BitIsLock'
<1> USE DEF AllocLabels
<1>1. PICK label, i : label \in {"uncoal", "scan", "none", "add"} /\
        Goto(p, label) /\ node' = [node EXCEPT ![p] = i]
  <2>1. CASE Goto(p, "uncoal") /\ UNCHANGED node
    BY <2>1, SameNode, Zenon
  <2>2. CASE AfterDealloc(p)
    <3>1. PICK label, i : label \in {"scan", "none", "add"} /\
            Goto(p, label) /\ node' = [node EXCEPT ![p] = i]
      BY <2>2, Continues, Zenon
    <3> QED BY <3>1, Zenon
  <2> QED BY <2>1, <2>2, Zenon DEF ClearStart
<1>2. pc[p] = "clear" /\ Store(node[p], Empty) /\ live' = live
  BY DEF ClearStart
<1>3. /\ pc' \in [Callers -> AllocLabels]
      /\ node' = [q \in Callers |-> node'[q]]
      /\ pc'[p] = label /\ node'[p] = i
      /\ \A q \in Callers, n \in Nodes : q # p => (Owns(q, n)' <=> Owns(q, n))
  <2>1. label \in AllocLabels
    BY <1>1
  <2> QED BY <2>1, <1>1, Others, Zenon
<1>4. tree' \in [Nodes -> Statuses] /\ \A n \in Nodes : n # node[p] => tree'[n] = tree[n]
  BY <1>2, StatusTypes, Zenon DEF Store, BitTypes
<1>5. \A n \in Nodes : ~Owns(p, n)'
  BY <1>1, <1>3 DEF Owns
<1>6. ASSUME NEW n \in Nodes
      PROVE  /\ live'[n] <= 1
             /\ live'[n] = 1 => tree'[n].full
             /\ \A q \in Callers : Owns(q, n)' => tree'[n].full /\ live'[n] = 0
             /\ \A q, r \in Callers : Owns(q, n)' /\ Owns(r, n)' => q = r
  <2>1. \A q \in Callers : Owns(q, n)' => Owns(q, n) /\ q # p
    BY <1>3, <1>5
  <2>2. CASE n = node[p]
    <3>1. Owns(p, n)
      BY <1>2, <2>2 DEF Owns
    <3>2. live[n] = 0 /\ \A q \in Callers : ~Owns(q, n)'
      BY <3>1, <2>1 DEF BitIsLock
    <3> QED BY <3>2, <1>2
  <2>3. CASE n # node[p]
    BY <2>1, <2>3, <1>2, <1>4 DEF BitIsLock
  <2> QED BY <2>2, <2>3
<1> QED BY <1>2, <1>3, <1>4, <1>6 DEF BitTypes, BitIsLock

(***************************************************************************)
(* alloc returns: the lock passes from the caller to the allocation.       *)
(***************************************************************************)
LEMMA HandsOut ==
  ASSUME BitTypes, BitIsLock, NEW p \in Callers, ReturnSome(p)
  PROVE  BitTypes' /\ BitIsLock'
<1> USE DEF AllocLabels
<1>1. Goto(p, "idle") /\ node' = [node EXCEPT ![p] = 0]
  BY DEF ReturnSome, Leave
<1>2. pc[p] = "some" /\ live' = [live EXCEPT ![node[p]] = @ + 1] /\ tree' = tree
  BY DEF ReturnSome
<1>3. /\ pc' \in [Callers -> AllocLabels]
      /\ node' = [q \in Callers |-> node'[q]]
      /\ pc'[p] = "idle" /\ node'[p] = 0
      /\ \A q \in Callers, n \in Nodes : q # p => (Owns(q, n)' <=> Owns(q, n))
  <2>1. "idle" \in AllocLabels
    OBVIOUS
  <2> QED BY <2>1, <1>1, Others, Zenon
<1>4. /\ live' \in [Nodes -> Nat]
      /\ \A n \in Nodes : live'[n] = IF n = node[p] THEN live[n] + 1 ELSE live[n]
  <2>1. CASE node[p] \in Nodes
    BY <2>1, <1>2 DEF BitTypes
  <2>2. CASE node[p] \notin Nodes
    <3>1. live' = live
      BY <2>2, <1>2 DEF BitTypes
    <3> QED BY <2>2, <3>1 DEF BitTypes
  <2> QED BY <2>1, <2>2
<1>5. ASSUME NEW n \in Nodes
      PROVE  /\ live'[n] <= 1
             /\ live'[n] = 1 => tree'[n].full
             /\ \A q \in Callers : Owns(q, n)' => tree'[n].full /\ live'[n] = 0
             /\ \A q, r \in Callers : Owns(q, n)' /\ Owns(r, n)' => q = r
  <2>1. \A q \in Callers : Owns(q, n)' => Owns(q, n) /\ q # p
    BY <1>3 DEF Owns
  <2>2. CASE n = node[p]
    <3>1. Owns(p, n)
      BY <1>2, <2>2 DEF Owns
    <3>2. live[n] = 0 /\ tree[n].full /\ \A q \in Callers : ~Owns(q, n)'
      BY <3>1, <2>1 DEF BitIsLock
    <3> QED BY <3>2, <2>2, <1>2, <1>4
  <2>3. CASE n # node[p]
    BY <2>1, <2>3, <1>2, <1>4 DEF BitIsLock
  <2> QED BY <2>2, <2>3
<1> QED BY <1>2, <1>3, <1>4, <1>5 DEF BitTypes, BitIsLock

(***************************************************************************)
(* dealloc takes the allocation back: the lock passes to the caller.       *)
(***************************************************************************)
LEMMA TakesBack ==
  ASSUME BitTypes, BitIsLock, NEW p \in Callers, NEW b \in Nodes, Dealloc(p, b)
  PROVE  BitTypes' /\ BitIsLock'
<1> USE DEF AllocLabels
<1>1. PICK label \in {"coal", "clear"} : Goto(p, label)
  BY Zenon DEF Dealloc, DeallocNode
<1>2. /\ node' = [node EXCEPT ![p] = b]
      /\ live[b] > 0 /\ live' = [live EXCEPT ![b] = @ - 1] /\ tree' = tree /\ pc[p] = "idle"
  BY DEF Dealloc
<1>3. /\ pc' \in [Callers -> AllocLabels]
      /\ node' = [q \in Callers |-> node'[q]]
      /\ pc'[p] = label /\ node'[p] = b
      /\ \A q \in Callers, n \in Nodes : q # p => (Owns(q, n)' <=> Owns(q, n))
  <2>1. label \in AllocLabels
    OBVIOUS
  <2> QED BY <2>1, <1>1, <1>2, Others, Zenon
<1>4. live[b] = 1 /\ tree[b].full
  BY <1>2 DEF BitTypes, BitIsLock
<1>5. /\ live' \in [Nodes -> Nat]
      /\ \A n \in Nodes : live'[n] = IF n = b THEN 0 ELSE live[n]
  BY <1>2, <1>4 DEF BitTypes
<1>6. ASSUME NEW n \in Nodes
      PROVE  /\ live'[n] <= 1
             /\ live'[n] = 1 => tree'[n].full
             /\ \A q \in Callers : Owns(q, n)' => tree'[n].full /\ live'[n] = 0
             /\ \A q, r \in Callers : Owns(q, n)' /\ Owns(r, n)' => q = r
  <2>1. CASE n = b
    <3>1. \A q \in Callers : ~Owns(q, n)
      BY <1>4, <2>1 DEF BitIsLock
    <3>2. \A q \in Callers : Owns(q, n)' => q = p
      BY <3>1, <1>3
    <3> QED BY <3>2, <1>2, <1>4, <1>5, <2>1
  <2>2. CASE n # b
    <3>1. \A q \in Callers : Owns(q, n)' => Owns(q, n)
      BY <1>3, <2>2 DEF Owns
    <3> QED BY <3>1, <2>2, <1>2, <1>5 DEF BitIsLock
  <2> QED BY <2>1, <2>2
<1> QED BY <1>2, <1>3, <1>5, <1>6 DEF BitTypes, BitIsLock

-----------------------------------------------------------------------------
(***************************************************************************)
(* Every step keeps the locks.                                             *)
(***************************************************************************)
LEMMA BitStep ==
  ASSUME AllocDealloc, BitTypes, BitIsLock, [Next]_vars
  PROVE  BitTypes' /\ BitIsLock'
<1>1. CASE UNCHANGED vars
  <2>1. UNCHANGED <<tree, live, pc, node>>
    BY <1>1 DEF vars, locals
  <2> QED BY <2>1 DEF BitTypes, BitIsLock, Owns
<1>2. ASSUME NEW p \in Callers, Step(p)
      PROVE  BitTypes' /\ BitIsLock'
  <2>1. pc[p] \notin {"grow", "clean", "mid", "final", "top", "resized", "refused"}
    BY DEF BitTypes, AllocLabels
  <2>2. /\ ~GrowNode(p) /\ ~CleanNode(p) /\ ~ShrinkMiddle(p) /\ ~ShrinkFinal(p)
        /\ ~ShrinkTop(p) /\ ~ReturnResized(p) /\ ~ReturnRefused(p)
    BY <2>1 DEF GrowNode, CleanNode, ShrinkMiddle, ShrinkFinal, ShrinkTop, ReturnResized, ReturnRefused
  <2>3. CASE CheckFree(p) \/ ReturnNone(p) \/ AddFree(p)
    BY <2>3, IdleMoves
  <2>4. CASE MarkParent(p) \/ SetCoal(p) \/ ClearCoal(p)
    BY <2>4, ParentMoves
  <2>5. CASE TryAlloc(p)
    BY <2>5, TakesLock
  <2>6. CASE ClearStart(p)
    BY <2>6, DropsLock
  <2>7. CASE ReturnSome(p)
    BY <2>7, HandsOut
  <2> QED BY <1>2, <2>2, <2>3, <2>4, <2>5, <2>6, <2>7 DEF Step, AllocStep, ReallocStep
<1>3. ASSUME NEW p \in Callers, NEW s \in Sizes, Alloc(p, s)
      PROVE  BitTypes' /\ BitIsLock'
  BY <1>3, IdleMoves
<1>4. ASSUME NEW p \in Callers, NEW n \in Nodes, Dealloc(p, n)
      PROVE  BitTypes' /\ BitIsLock'
  BY <1>4, TakesBack
<1>5. \A p \in Callers, n \in Nodes, s \in Sizes : ~ReallocGrow(p, n, s) /\ ~ReallocShrink(p, n, s)
  BY DEF AllocDealloc, ReallocGrow, ReallocShrink, StartRealloc
<1> QED BY <1>1, <1>2, <1>3, <1>4, <1>5 DEF Next

(***************************************************************************)
(* Alloc, dealloc: no block is ever handed out twice, for any number of    *)
(* cpus and any size of the tree.                                          *)
(***************************************************************************)
THEOREM HeldOnce == AllocDealloc => (Spec => []BlockHeldOnce)
<1> SUFFICES ASSUME AllocDealloc PROVE Spec => []BlockHeldOnce
  OBVIOUS
<1>1. Init => BitTypes /\ BitIsLock
  <2> SUFFICES ASSUME Init PROVE BitTypes /\ BitIsLock
    OBVIOUS
  <2>1. BitTypes
    BY StatusTypes DEF Init, BitTypes, AllocLabels
  <2>2. \A p \in Callers, n \in Nodes : ~Owns(p, n)
    BY DEF Init, Owns
  <2> QED BY <2>1, <2>2 DEF Init, BitIsLock
<1>2. BitTypes /\ BitIsLock /\ [Next]_vars => BitTypes' /\ BitIsLock'
  BY BitStep
<1>3. BitIsLock => BlockHeldOnce
  BY DEF BitIsLock, BlockHeldOnce
<1> QED BY <1>1, <1>2, <1>3, PTL DEF Spec
=============================================================================
