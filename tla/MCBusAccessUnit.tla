--------------------------- MODULE MCBusAccessUnit ---------------------------
(***************************************************************************)
(* BusAccessUnit for TLC.                                                  *)
(***************************************************************************)
EXTENDS BusAccessUnit
=============================================================================
