------------------------------- MODULE MCPmem -------------------------------
(***************************************************************************)
(* Small instances of PmemAllocator for TLC.                               *)
(***************************************************************************)
EXTENDS PmemAllocator, TLC

CONSTANTS p1, p2, p3

Symmetry == Permutations(Callers)
=============================================================================
