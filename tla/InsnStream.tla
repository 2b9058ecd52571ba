----------------------------- MODULE InsnStream -----------------------------
(***************************************************************************)
(* What the front end promises the rest of the pipeline: the instructions  *)
(* of the program, one after the other from the last redirection on, none  *)
(* lost, repeated or cut in two; and a trap only on an instruction that    *)
(* deserves it, as long as no older instruction has trapped.               *)
(***************************************************************************)
EXTENDS Naturals

CONSTANT PcCount            \* halfword addresses, which wrap around

Pcs == 0 .. PcCount - 1

VARIABLES code,             \* what is at each halfword address
          pc,               \* the address of the next instruction
          out,              \* the decoded instruction
          trapped           \* has a trap been delivered since the redirection

vars == <<code, pc, out, trapped>>

Bubble == [valid |-> FALSE, pc |-> 0, compressed |-> FALSE, trap |-> "none"]

Init == pc \in Pcs /\ out = Bubble /\ trapped = FALSE

Size == IF code[pc] = "full" THEN 2 ELSE 1

\* An unknown instruction always traps; a good one only for a reason that is
\* not in the program, until a trap makes everything behind it irrelevant.
Deserved == IF trapped THEN {"none", "interrupt", "fault", "illegal"}
            ELSE IF code[pc] = "unknown" THEN {"interrupt", "fault", "illegal"}
            ELSE {"none", "interrupt", "fault"}

Deliver ==
  /\ \E trap \in Deserved :
       /\ out' = [valid |-> TRUE, pc |-> pc, compressed |-> Size = 1, trap |-> trap]
       /\ trapped' = (trapped \/ trap # "none")
  /\ pc' = (pc + Size) % PcCount
  /\ UNCHANGED code

Nothing == out' = Bubble /\ UNCHANGED <<code, pc, trapped>>

Redirect ==
  /\ pc' \in Pcs
  /\ out' = Bubble
  /\ trapped' = FALSE
  /\ UNCHANGED code

Next == Deliver \/ Nothing \/ Redirect

Spec == Init /\ [][Next]_vars
=============================================================================
