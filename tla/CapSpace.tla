------------------------------ MODULE CapSpace ------------------------------
(***************************************************************************)
(* Capability spaces and the reference counts of the objects they name:    *)
(* cap/capability_space.rs, cap/mod.rs, syscall/cap.rs, container/arc.rs.  *)
(*                                                                         *)
(* A system call locks a map for one access at a time and holds its own    *)
(* reference in between, so that on several cpus the same capability is    *)
(* cloned, weakened, upgraded and destroyed at once.  The counts of Arc    *)
(* are changed one atomic instruction at a time.  The sixteen maps of a    *)
(* space, one for each type of object, are produced by one macro and are   *)
(* one map here.                                                           *)
(***************************************************************************)
EXTENDS Integers, Sequences, FiniteSets, TLC, SequencesExt, FiniteSetsExt

CONSTANTS
  Spaces,     \* capability spaces
  Objects,    \* kernel objects
  Cpus,
  Flags,      \* permissions
  MaxIds,     \* bound: capabilities inserted into a space
  InsertFails,  \* the heap may be unable to hold another entry
  Idle

VARIABLES
  cap,     \* the maps of the spaces: identifier -> CapabilityEntry
  nextId,  \* next_id of the spaces
  arc,     \* ArcInner of the objects
  op,      \* what a cpu is doing
  broken   \* an unwrap failed

csVars == <<cap, nextId, arc, op, broken>>

(***************************************************************************)
(* A reference held somewhere: StrongCapability, WeakCapability, or the    *)
(* "data" that the drop of the last strong reference has yet to drop.      *)
(***************************************************************************)
Ref(o, kind) == [obj |-> o, kind |-> kind]

NoArc == [strong |-> 0, weak |-> 0, data |-> FALSE, memory |-> FALSE]

CsInit ==
  /\ cap = [s \in Spaces |-> <<>>]
  /\ nextId = [s \in Spaces |-> 1]
  /\ arc = [o \in Objects |-> NoArc]
  /\ op = [c \in Cpus |-> Idle]
  /\ broken = {}

Entry(ref, flags, visible) == [ref |-> ref, flags |-> flags, visible |-> visible]

-----------------------------------------------------------------------------
(* Arc and Weak                                                            *)

(***************************************************************************)
(* Arc::new: one strong reference, and one weak one that all the strong    *)
(* ones share.                                                             *)
(***************************************************************************)
ArcNew == [strong |-> 1, weak |-> 1, data |-> TRUE, memory |-> TRUE]

(***************************************************************************)
(* Clone for Arc and for Weak: one fetch_add.                              *)
(***************************************************************************)
ArcClone(r) ==
  IF r.kind = "strong" THEN [arc EXCEPT ![r.obj].strong = @ + 1] ELSE [arc EXCEPT ![r.obj].weak = @ + 1]

Downgrade(o) == [arc EXCEPT ![o].weak = @ + 1]

Busy(c) == op[c] # Idle

(***************************************************************************)
(* The references a cpu still has to drop, the first one first.  Dropping  *)
(* is done before anything else the system call has left.                  *)
(***************************************************************************)
Dropping(c) == Busy(c) /\ op[c].drop # <<>>

Step(c, pc) == Busy(c) /\ op[c].drop = <<>> /\ op[c].pc = pc

(***************************************************************************)
(* Drop for Arc: the last one drops the data, then the weak reference.     *)
(***************************************************************************)
DropStrong(c) ==
  LET o == Head(op[c].drop).obj IN
  /\ Dropping(c) /\ Head(op[c].drop).kind = "strong"
  /\ arc' = [arc EXCEPT ![o].strong = @ - 1]
  /\ op' = [op EXCEPT ![c].drop = IF arc[o].strong # 1 THEN Tail(@)
                                  ELSE <<Ref(o, "data"), Ref(o, "weak")>> \o Tail(@)]
  /\ UNCHANGED <<cap, nextId, broken>>

DropData(c) ==
  LET o == Head(op[c].drop).obj IN
  /\ Dropping(c) /\ Head(op[c].drop).kind = "data"
  /\ arc' = [arc EXCEPT ![o].data = FALSE]
  /\ op' = [op EXCEPT ![c].drop = Tail(@)]
  /\ UNCHANGED <<cap, nextId, broken>>

(***************************************************************************)
(* Drop for Weak: the last one frees the memory.                           *)
(***************************************************************************)
DropWeak(c) ==
  LET o == Head(op[c].drop).obj IN
  /\ Dropping(c) /\ Head(op[c].drop).kind = "weak"
  /\ arc' = [arc EXCEPT ![o].weak = @ - 1, ![o].memory = @ /\ arc[o].weak # 1]
  /\ op' = [op EXCEPT ![c].drop = Tail(@)]
  /\ UNCHANGED <<cap, nextId, broken>>

-----------------------------------------------------------------------------
(* One access to a map                                                     *)

(***************************************************************************)
(* insert_..._inner.                                                       *)
(***************************************************************************)
InsertInner(s, entry) ==
  /\ nextId[s] <= MaxIds
  /\ nextId' = [nextId EXCEPT ![s] = @ + 1]
  /\ cap' = [cap EXCEPT ![s] = (nextId[s] :> entry) @@ @]

Removed(s, id) == [cap EXCEPT ![s] = [i \in DOMAIN @ \ {id} |-> @[i]]]

Idling(c) == op[c] = Idle

Start(c, pc, fields) == op' = [op EXCEPT ![c] = [pc |-> pc, drop |-> <<>>] @@ fields]

(***************************************************************************)
(* The system call has its result; what it still holds is dropped.         *)
(***************************************************************************)
Finish(c, drop) == op' = [op EXCEPT ![c] = [pc |-> "end", drop |-> drop]]

-----------------------------------------------------------------------------
(* System calls                                                            *)

(***************************************************************************)
(* key_new and its like: a new object and a strong capability to it.       *)
(***************************************************************************)
ObjectNew(c, o, s, flags) ==
  /\ Idling(c) /\ arc[o] = NoArc
  /\ arc' = [arc EXCEPT ![o] = ArcNew]
  /\ InsertInner(s, Entry(Ref(o, "strong"), flags, TRUE))
  /\ UNCHANGED <<op, broken>>

(***************************************************************************)
(* get_..._with_perms of a capability: the object is used afterwards.      *)
(***************************************************************************)
GetWithPerms(c, s, id, perms, auto) ==
  LET e == cap[s][id] IN
  /\ Idling(c) /\ id \in DOMAIN cap[s] /\ e.visible /\ perms \subseteq e.flags
  /\ IF e.ref.kind = "strong"
     THEN arc' = ArcClone(e.ref) /\ Start(c, "use", [ref |-> e.ref]) /\ UNCHANGED cap
     ELSE IF arc[e.ref.obj].strong > 0
     THEN /\ arc' = [arc EXCEPT ![e.ref.obj].strong = @ + 1]
          /\ Start(c, "use", [ref |-> Ref(e.ref.obj, "strong")]) /\ UNCHANGED cap
     ELSE /\ auto
          /\ cap' = Removed(s, id)
          /\ Finish(c, <<e.ref>>)
          /\ UNCHANGED arc
  /\ UNCHANGED <<nextId, broken>>

UseObject(c) ==
  /\ Step(c, "use")
  /\ Finish(c, <<op[c].ref>>)
  /\ UNCHANGED <<cap, nextId, arc, broken>>

(***************************************************************************)
(* cap_clone: the requested permissions and weakness.  The capability is   *)
(* copied out of the source space.                                         *)
(***************************************************************************)
CapClone(c, src, dst, id, perms, weakness, destroy, auto) ==
  LET e    == cap[src][id]
      keep == IF weakness = "KeepSame" THEN e.ref.kind ELSE weakness
  IN
  /\ Idling(c) /\ id \in DOMAIN cap[src] /\ nextId[dst] <= MaxIds
  /\ arc' = ArcClone(e.ref)
  /\ Start(c, CASE e.ref.kind = keep -> "insert"
                [] keep = "weak"      -> "downgrade"
                [] keep = "strong"    -> "load",
           [src |-> src, dst |-> dst, id |-> id, flags |-> e.flags \cap perms,
            destroy |-> destroy, auto |-> auto, ref |-> e.ref, seen |-> 0])
  /\ UNCHANGED <<cap, nextId, broken>>

(***************************************************************************)
(* A strong capability becomes weak; the strong reference is dropped.      *)
(***************************************************************************)
CloneDowngrade(c) ==
  LET o == op[c].ref.obj IN
  /\ Step(c, "downgrade")
  /\ arc' = Downgrade(o)
  /\ op' = [op EXCEPT ![c].pc = "insert", ![c].ref = Ref(o, "weak"), ![c].drop = <<Ref(o, "strong")>>]
  /\ UNCHANGED <<cap, nextId, broken>>

(***************************************************************************)
(* Weak::upgrade: the count is loaded, and incremented if it is still the  *)
(* same.                                                                   *)
(***************************************************************************)
UpgradeLoad(c) ==
  LET n == arc[op[c].ref.obj].strong IN
  /\ Step(c, "load")
  /\ op' = [op EXCEPT ![c].pc = IF n = 0 THEN "dead" ELSE "cas", ![c].seen = n]
  /\ UNCHANGED <<cap, nextId, arc, broken>>

(***************************************************************************)
(* Mutant: the count is incremented whatever it has become.                *)
(***************************************************************************)
UpgradeAdd(c) ==
  LET o == op[c].ref.obj IN
  /\ Step(c, "cas")
  /\ arc' = [arc EXCEPT ![o].strong = @ + 1]
  /\ op' = [op EXCEPT ![c].pc = "insert", ![c].ref = Ref(o, "strong"), ![c].drop = <<Ref(o, "weak")>>]
  /\ UNCHANGED <<cap, nextId, broken>>

UpgradeCas(c) ==
  LET o == op[c].ref.obj  n == arc[o].strong IN
  /\ Step(c, "cas")
  /\ IF n = op[c].seen
     THEN /\ arc' = [arc EXCEPT ![o].strong = @ + 1]
          /\ op' = [op EXCEPT ![c].pc = "insert", ![c].ref = Ref(o, "strong"),
                              ![c].drop = <<Ref(o, "weak")>>]
     ELSE /\ op' = [op EXCEPT ![c].pc = IF n = 0 THEN "dead" ELSE "cas", ![c].seen = n]
          /\ UNCHANGED arc
  /\ UNCHANGED <<cap, nextId, broken>>

(***************************************************************************)
(* The object is gone.  With weak_auto_destroy the source capability is    *)
(* removed, and the result unwrapped.                                      *)
(***************************************************************************)
CloneOfDead(c) ==
  LET s == op[c].src  id == op[c].id IN
  /\ Step(c, "dead")
  /\ IF ~op[c].auto THEN Finish(c, <<op[c].ref>>) /\ UNCHANGED <<cap, broken>>
     ELSE IF id \in DOMAIN cap[s]
     THEN Finish(c, <<cap[s][id].ref, op[c].ref>>) /\ cap' = Removed(s, id) /\ UNCHANGED broken
     ELSE broken' = {c} /\ UNCHANGED <<op, cap>>
  /\ UNCHANGED <<nextId, arc>>

(***************************************************************************)
(* The new capability goes into the destination, unless the heap is full,  *)
(* and the old one is destroyed if that was asked for.                     *)
(***************************************************************************)
CloneInsert(c) ==
  /\ Step(c, "insert")
  /\ \/ /\ InsertInner(op[c].dst, Entry(op[c].ref, op[c].flags, TRUE))
        /\ IF op[c].destroy THEN op' = [op EXCEPT ![c].pc = "destroy"] ELSE Finish(c, <<>>)
     \/ /\ InsertFails
        /\ Finish(c, <<op[c].ref>>)
        /\ UNCHANGED <<cap, nextId>>
  /\ UNCHANGED <<arc, broken>>

CloneDestroy(c) ==
  LET s == op[c].src  id == op[c].id IN
  /\ Step(c, "destroy")
  /\ IF id \in DOMAIN cap[s]
     THEN cap' = Removed(s, id) /\ Finish(c, <<cap[s][id].ref>>)
     ELSE Finish(c, <<>>) /\ UNCHANGED cap
  /\ UNCHANGED <<nextId, arc, broken>>

(***************************************************************************)
(* cap_destroy, and the removal of a reply or a receiver when a call of    *)
(* several steps fails.                                                    *)
(***************************************************************************)
CapDestroy(c, s, id) ==
  /\ Idling(c) /\ id \in DOMAIN cap[s]
  /\ cap' = Removed(s, id)
  /\ Finish(c, <<cap[s][id].ref>>)
  /\ UNCHANGED <<nextId, arc, broken>>

(***************************************************************************)
(* Nothing refers to a space any more: all its capabilities are dropped.   *)
(***************************************************************************)
SpaceDrop(c, s) ==
  /\ Idling(c) /\ cap[s] # <<>>
  /\ \A d \in Cpus : Busy(d) /\ op[d].pc \notin {"end", "use"} => s \notin {op[d].src, op[d].dst}
  /\ cap' = [cap EXCEPT ![s] = <<>>]
  /\ nextId' = [nextId EXCEPT ![s] = MaxIds + 1]
  /\ LET ids == SetToSeq(DOMAIN cap[s]) IN Finish(c, [i \in DOMAIN ids |-> cap[s][ids[i]].ref])
  /\ UNCHANGED <<arc, broken>>

(***************************************************************************)
(* The two system calls, with every option they take from userspace.       *)
(***************************************************************************)
CapCloneCall(c) ==
  \E src, dst \in Spaces, id \in 1..MaxIds, perms \in SUBSET Flags,
     weakness \in {"KeepSame", "strong", "weak"}, destroy, auto \in BOOLEAN :
    CapClone(c, src, dst, id, perms, weakness, destroy, auto)

CapDestroyCall(c) == \E s \in Spaces, id \in 1..MaxIds : CapDestroy(c, s, id)

SyscallEnd(c) ==
  /\ Step(c, "end")
  /\ op' = [op EXCEPT ![c] = Idle]
  /\ UNCHANGED <<cap, nextId, arc, broken>>

-----------------------------------------------------------------------------

CsNext ==
  /\ broken = {}
  /\ \E c \in Cpus :
       \/ DropStrong(c) \/ DropData(c) \/ DropWeak(c) \/ SyscallEnd(c) \/ UseObject(c)
       \/ CloneDowngrade(c) \/ UpgradeLoad(c) \/ UpgradeCas(c) \/ CloneOfDead(c)
       \/ CloneInsert(c) \/ CloneDestroy(c)
       \/ \E o \in Objects, s \in Spaces : ObjectNew(c, o, s, Flags)
       \/ \E s \in Spaces : SpaceDrop(c, s)
       \/ CapDestroyCall(c) \/ CapCloneCall(c)
       \/ \E s \in Spaces, id \in 1..MaxIds, perms \in SUBSET Flags, auto \in BOOLEAN :
            GetWithPerms(c, s, id, perms, auto)

CsSpec == CsInit /\ [][CsNext]_csVars

-----------------------------------------------------------------------------
(* Properties                                                              *)

(***************************************************************************)
(* The references to o: in the maps, held by system calls, being dropped.  *)
(***************************************************************************)
InMaps(o, kind) ==
  {<<s, id>> \in Spaces \X (1..MaxIds) : id \in DOMAIN cap[s] /\ cap[s][id].ref = Ref(o, kind)}

Held(o, kind) ==
  {c \in Cpus : Busy(c) /\ op[c].pc \notin {"end", "destroy"} /\ op[c].ref = Ref(o, kind)}

ToDrop(o, kind) ==
  {<<c, i>> \in Cpus \X (1 .. 2 + MaxIds) :
     Busy(c) /\ i \in DOMAIN op[c].drop /\ op[c].drop[i] = Ref(o, kind)}

RefCount(o, kind) ==
  Cardinality(InMaps(o, kind)) + Cardinality(Held(o, kind)) + Cardinality(ToDrop(o, kind))

(***************************************************************************)
(* The counts are exact at every instruction: whoever holds a strong       *)
(* reference finds the data, whoever holds a weak one finds the memory,    *)
(* the data goes with the last strong reference and the memory with the    *)
(* last reference of all, and neither stays when nobody holds one.         *)
(***************************************************************************)
CountsExact ==
  \A o \in Objects :
    /\ arc[o].strong = RefCount(o, "strong")
    /\ arc[o].weak = RefCount(o, "weak") + (IF arc[o].strong > 0 THEN 1 ELSE 0)
    /\ arc[o].data <=> (arc[o].strong > 0 \/ ToDrop(o, "data") # {})
    /\ arc[o].data => arc[o].memory
    /\ arc[o].memory <=> arc[o].weak > 0
=============================================================================
