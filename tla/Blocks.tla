------------------------------- MODULE Blocks -------------------------------
(***************************************************************************)
(* What an allocator of blocks promises: a block is handed out only while  *)
(* none of its pages belongs to another holder, a holder gives back or     *)
(* exchanges only what it has.                                             *)
(***************************************************************************)
EXTENDS Integers

CONSTANTS
  Names,     \* the blocks
  Pages(_)   \* the pages of a block

VARIABLE live   \* how many allocations of every block are held

Held == {n \in Names : live[n] > 0}

Disjoint(n, others) == \A m \in others : Pages(m) \cap Pages(n) = {}

Init == live = [n \in Names |-> 0]

Take(n) ==
  /\ Disjoint(n, Held)
  /\ live' = [live EXCEPT ![n] = 1]

Give(n) ==
  /\ live[n] = 1
  /\ live' = [live EXCEPT ![n] = 0]

(***************************************************************************)
(* An allocation grows or shrinks where it is.                             *)
(***************************************************************************)
Resize(n, m) ==
  /\ live[n] = 1
  /\ Disjoint(m, Held \ {n})
  /\ live' = [[live EXCEPT ![n] = 0] EXCEPT ![m] = 1]

Next ==
  \/ \E n \in Names : Take(n) \/ Give(n)
  \/ \E n, m \in Names : Resize(n, m)

Spec == Init /\ [][Next]_live
=============================================================================
