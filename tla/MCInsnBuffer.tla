---------------------------- MODULE MCInsnBuffer ----------------------------
(***************************************************************************)
(* InsnBuffer for TLC: the four entries of the source.  Six addresses are  *)
(* more than the ring holds, so that an entry left from the last lap is    *)
(* never taken for the next one; the programs repeat any three halfwords,  *)
(* so that an instruction starts at every distance behind another.         *)
(***************************************************************************)
EXTENDS InsnBuffer

MCPrograms == {[pc \in Pcs |-> halfwords[pc % 3]] : halfwords \in [0 .. 2 -> Insns]}
=============================================================================
