------------------------------ MODULE MCMemory ------------------------------
(***************************************************************************)
(* Small instances of Memory for TLC.                                      *)
(***************************************************************************)
EXTENDS Memory

CONSTANTS m1, m2, s1, s2, c1

Symmetry == Permutations(Mems)

Read == {{"r"}}

ReadWrite == {{"r", "w"}}
=============================================================================
