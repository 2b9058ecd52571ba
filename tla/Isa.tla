-------------------------------- MODULE Isa --------------------------------
(***************************************************************************)
(* The instructions of the HDL core as the pipeline sees them: which       *)
(* registers they use, which unit executes them, where they lead.          *)
(*                                                                         *)
(* One privilege level; words, addresses and register values are the same  *)
(* small numbers, and addresses count halfwords and wrap around.           *)
(***************************************************************************)
EXTENDS Integers

CONSTANTS RegCount,         \* REG_FILE_SIZE
          WordCount,        \* two to the power of XLEN
          Insns,            \* the instructions of the programs considered
          Alu               \* the function of the ALU

Regs == 0 .. RegCount - 1
Words == 0 .. WordCount - 1

Kinds == {"alu", "muldiv", "memory", "branch", "jump", "csrw", "csrr",
          "ecall", "mret", "fence", "unknown"}
Names == {"tvec", "epc", "status"}

InsnType == [kind : Kinds, rd : Regs, rs1 : Regs, rs2 : Regs,
             imm : Words, csr : Names, size : {1, 2}]

ASSUME RegCountAssumption == RegCount \in Nat /\ RegCount > 0
ASSUME WordCountAssumption == WordCount \in Nat /\ WordCount >= 4
ASSUME InsnsAssumption == Insns \subseteq InsnType
ASSUME AluAssumption == Alu \in [Words -> [Words -> Words]]

Plus(a, b) == (a + b) % WordCount

\* An interrupt, a page fault of the fetch and an unknown instruction come from
\* the front end, the others from the execute stage.
FrontTraps == {"interrupt", "fault", "illegal"}
Traps == FrontTraps \union {"ecall", "pagefault"}

WritesRd(insn) == insn.kind \in {"alu", "muldiv", "memory", "jump", "csrw", "csrr"}

\* The instructions of the load/store unit; fence.i and sfence.vma go through
\* address translation like a load.
Accesses(insn) == insn.kind \in {"memory", "fence"}

NextPc(pc, insn) == Plus(pc, insn.size)

Taken(insn, src1, src2) ==
  insn.kind = "jump" \/ (insn.kind = "branch" /\ src1 = src2)

Target(insn, pc, src1) == Plus(IF insn.kind = "jump" THEN src1 ELSE pc, insn.imm)

Follower(insn, pc, src1, src2) ==
  IF Taken(insn, src1, src2) THEN Target(insn, pc, src1) ELSE NextPc(pc, insn)

-----------------------------------------------------------------------------
(* The control and status registers. *)

CsrType == [tvec : Words, epc : Words, mie : BOOLEAN, mpie : BOOLEAN]

CsrReset == [tvec |-> 0, epc |-> 0, mie |-> FALSE, mpie |-> FALSE]

Bit(flag) == IF flag THEN 1 ELSE 0

ReadCsr(csr, name) ==
  CASE name = "tvec" -> csr.tvec
    [] name = "epc" -> csr.epc
    [] OTHER -> Bit(csr.mie) + 2 * Bit(csr.mpie)

WriteCsr(csr, name, value) ==
  CASE name = "tvec" -> [csr EXCEPT !.tvec = value]
    [] name = "epc" -> [csr EXCEPT !.epc = value]
    [] OTHER -> [csr EXCEPT !.mie = (value % 2 = 1), !.mpie = ((value \div 2) % 2 = 1)]

TrapCsr(csr, pc) == [csr EXCEPT !.epc = pc, !.mpie = csr.mie, !.mie = FALSE]

\* MPIE stays as it is.
ReturnCsr(csr) == [csr EXCEPT !.mie = csr.mpie]

\* What an instruction leaves in its destination register; the units that take
\* several cycles, and the memory behind one of them, give any result.
Results(insn, pc, csr, src1, src2) ==
  CASE insn.kind = "alu" -> {Alu[src1][src2]}
    [] insn.kind = "jump" -> {NextPc(pc, insn)}
    [] insn.kind \in {"csrw", "csrr"} -> {ReadCsr(csr, insn.csr)}
    [] insn.kind \in {"muldiv", "memory"} -> Words
    [] OTHER -> {0}
=============================================================================
