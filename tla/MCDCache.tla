------------------------------ MODULE MCDCache ------------------------------
(***************************************************************************)
(* DCache for TLC.  Two tags compete for one set: a fill evicts a line     *)
(* that may be reserved.  A line is two words of a byte, so that a reset   *)
(* may come between the words of a store.                                  *)
(***************************************************************************)
EXTENDS DCache

MCWordOf == [i \in Lanes |-> i]
=============================================================================
