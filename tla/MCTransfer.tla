----------------------------- MODULE MCTransfer -----------------------------
(***************************************************************************)
(* A small instance of Transfer for TLC: pages of three words, messages    *)
(* that begin anywhere in the first page.                                  *)
(***************************************************************************)
EXTENDS Transfer
=============================================================================
