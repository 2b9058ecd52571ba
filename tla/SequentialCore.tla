--------------------------- MODULE SequentialCore ---------------------------
(***************************************************************************)
(* What the core promises a programmer: instructions execute one at a      *)
(* time.  Each one reads the registers as its predecessors left them,      *)
(* changes them and the pc completely or, when it traps, not at all, and   *)
(* the next one executed is the one at the new pc.                         *)
(***************************************************************************)
EXTENDS Isa

VARIABLES regs, pc, csr,
          retired           \* what has left the pipeline in this cycle

vars == <<regs, pc, csr, retired>>

NoInsn == [kind |-> "alu", rd |-> 0, rs1 |-> 0, rs2 |-> 0,
           imm |-> 0, csr |-> "tvec", size |-> 2]

Nothing == [valid |-> FALSE, pc |-> 0, insn |-> NoInsn, trap |-> "none", value |-> 0]

Init ==
  /\ regs = [r \in Regs |-> 0]
  /\ pc = 0
  /\ csr = CsrReset
  /\ retired = Nothing

Retire(insn, trap, value) ==
  retired' = [valid |-> TRUE, pc |-> pc, insn |-> insn, trap |-> trap, value |-> value]

Execute(insn) ==
  /\ insn.kind \notin {"ecall", "mret", "unknown"}
  /\ LET src1 == regs[insn.rs1]
         src2 == regs[insn.rs2]
     IN /\ \E value \in Results(insn, pc, csr, src1, src2) :
             /\ Retire(insn, "none", value)
             /\ regs' = [r \in Regs |-> IF WritesRd(insn) /\ r = insn.rd /\ r # 0
                                        THEN value ELSE regs[r]]
        /\ pc' = Follower(insn, pc, src1, src2)
        /\ csr' = IF insn.kind = "csrw" THEN WriteCsr(csr, insn.csr, src1) ELSE csr

Return(insn) ==
  /\ insn.kind = "mret"
  /\ Retire(insn, "none", 0)
  /\ pc' = csr.epc
  /\ csr' = ReturnCsr(csr)
  /\ UNCHANGED regs

\* An interrupt needs its enable bit, an illegal instruction to be one, and no
\* unknown instruction executes.  What a page table says is not modelled.
Deserves(insn, trap) ==
  /\ trap = "interrupt" => csr.mie
  /\ trap = "illegal" => insn.kind = "unknown"
  /\ trap = "ecall" => insn.kind = "ecall"
  /\ insn.kind = "unknown" => trap \in FrontTraps

Trap(insn) ==
  /\ pc' = csr.tvec
  /\ csr' = TrapCsr(csr, pc)
  /\ UNCHANGED regs
  /\ \E trap \in Traps, value \in Words : Deserves(insn, trap) /\ Retire(insn, trap, value)

Wait == retired' = Nothing /\ UNCHANGED <<regs, pc, csr>>

Reset ==
  /\ regs' = [r \in Regs |-> 0]
  /\ pc' = 0
  /\ csr' = CsrReset
  /\ retired' = Nothing

Next ==
  \/ \E insn \in Insns : Execute(insn) \/ Return(insn) \/ Trap(insn)
  \/ Wait
  \/ Reset

Spec == Init /\ [][Next]_vars
=============================================================================
