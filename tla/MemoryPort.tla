----------------------------- MODULE MemoryPort -----------------------------
(***************************************************************************)
(* What the load/store unit promises the execute stage: every instruction  *)
(* is one operation on memory that happens at one instant, read-modify-    *)
(* write included, and its answer is that of this instant.  Nothing is     *)
(* left of the TLB, the cache and the steps of the unit.                   *)
(*                                                                         *)
(* An instruction that is not allowed to access its page is answered with  *)
(* a fault, but happens all the same: the code does not stop it.  A reset   *)
(* may cut short what an instruction stores.                               *)
(***************************************************************************)
EXTENDS Naturals

CONSTANTS Pages,                \* physical pages, each of one line
          Lanes,                \* byte positions of a line
          WordCount,            \* words of a line
          WordOf,               \* the word a byte position belongs to
          Extract(_, _, _),     \* the value a line holds at an offset, by kind of load
          Insert(_, _, _, _),   \* a line in which a value is stored
          Alu(_, _, _)          \* the functions of the atomic memory operations

VARIABLES memory, reservation,
          insn,                 \* the instruction in progress and its page, or idle
          answer                \* its answer, or none

vars == <<memory, reservation, insn, answer>>

Idle == [valid |-> FALSE]
None == [valid |-> FALSE, value |-> 0, fault |-> FALSE]

Init == /\ reservation = {}
        /\ insn = Idle
        /\ answer = None

Line == memory[insn.page]
Loaded == Extract(Line, insn.offset, insn.type)

Issue ==
  /\ ~insn.valid /\ ~answer.valid
  /\ insn'.valid
  /\ UNCHANGED <<memory, reservation, answer>>

Answer(value) ==
  /\ answer' = [valid |-> TRUE, value |-> value, fault |-> insn.fault]
  /\ insn' = Idle

Store(value) == memory' = [memory EXCEPT ![insn.page] = Insert(Line, insn.offset, insn.type, value)]

DoLoad ==
  /\ insn.valid
  /\ \/ insn.command = "Load" /\ reservation' = reservation
     \/ insn.command = "LoadReserved" /\ reservation' = reservation \cup {insn.page}
  /\ Answer(Loaded)
  /\ UNCHANGED memory

\* What a store answers is not looked at.
DoStore ==
  /\ insn.valid
  /\ insn.command = "Store"
  /\ Store(insn.value)
  /\ reservation' = reservation \ {insn.page}
  /\ Answer(0)

DoAtomic ==
  /\ insn.valid
  /\ insn.command = "AtomicMemOp"
  /\ Store(Alu(insn.atomic, insn.value, Loaded))
  /\ reservation' = reservation \ {insn.page}
  /\ Answer(Loaded)

DoStoreConditional ==
  /\ insn.valid
  /\ insn.command = "StoreConditional"
  /\ IF insn.page \in reservation
     THEN /\ Store(insn.value)
          /\ reservation' = reservation \ {insn.page}
          /\ Answer(0)
     ELSE /\ Answer(1)
          /\ UNCHANGED <<memory, reservation>>

DoInvalidate ==
  /\ insn.valid
  /\ insn.command = "Invalidate"
  /\ reservation' \in SUBSET (reservation \ {insn.page})
  /\ Answer(0)
  /\ UNCHANGED memory

Retire ==
  /\ answer.valid
  /\ answer' = None
  /\ UNCHANGED <<memory, reservation, insn>>

\* A line that is replaced loses its reservation.
Lose ==
  /\ insn.valid
  /\ reservation' \in SUBSET reservation
  /\ UNCHANGED <<memory, insn, answer>>

\* What is stored by an instruction that may store.
MayStore ==
  /\ insn.valid
  /\ \/ insn.command \in {"Store", "AtomicMemOp"}
     \/ insn.command = "StoreConditional" /\ insn.page \in reservation
Stored ==
  Insert(Line, insn.offset, insn.type,
         IF insn.command = "AtomicMemOp" THEN Alu(insn.atomic, insn.value, Loaded) ELSE insn.value)

\* A reset drops the instruction.  If it stores, it may be done, or not, or done
\* for the first words of the line only.
Reset ==
  /\ \/ UNCHANGED memory
     \/ /\ MayStore
        /\ \E n \in 1 .. WordCount :
             memory' = [memory EXCEPT ![insn.page] =
                          [i \in Lanes |-> IF WordOf[i] < n THEN Stored[i] ELSE @[i]]]
  /\ reservation' = {}
  /\ insn' = Idle
  /\ answer' = None

Next == \/ Issue \/ DoLoad \/ DoStore \/ DoAtomic \/ DoStoreConditional \/ DoInvalidate
        \/ Retire \/ Lose \/ Reset

Spec == Init /\ [][Next]_vars
=============================================================================
