------------------------------ MODULE MCTraps ------------------------------
(* Traps for TLC: the values that programs write.                            *)
EXTENDS Traps

Write(bit, value) == [bit |-> bit, value |-> value]
HartWrites ==
  [status |-> {Write("MIE", 1), Write("SIE", 1)},
   mideleg |-> {{1, 5, 9}}, sideleg |-> {{}},
   medeleg |-> {{8, 9}}, sedeleg |-> {{}},
   tvec |-> [level \in Levels |-> IF level = Machine THEN {FALSE} ELSE {}],
   ie |-> {{5, 7}}, ip |-> {{1}}]
CsrWrites ==
  [status |-> {Write("MIE", 1), Write("SIE", 1)},
   medeleg |-> {{9, 11}}, sedeleg |-> {{}},
   tvec |-> [level \in Levels |-> {FALSE}],
   ie |-> {{7, 11}}, ip |-> {{7}, {7, 11}}]
MCVectors == [level \in Levels |-> 100 * level]
=============================================================================
