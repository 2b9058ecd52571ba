----------------------------- MODULE MCPipeline -----------------------------
EXTENDS Pipeline

MCAlu == [a \in Words |-> [b \in Words |-> IF a >= b THEN a - b ELSE a + 1]]

Insn(kind, rd, rs1, rs2, imm, name, size) ==
  [kind |-> kind, rd |-> rd, rs1 |-> rs1, rs2 |-> rs2,
   imm |-> imm, csr |-> name, size |-> size]

\* A value of many cycles that may fault, written to a register that the next
\* instruction may take it from, and everything that redirects the front end.
TrapInsns == {
  Insn("csrw", 1, 1, 0, 0, "status", 2),
  Insn("ecall", 0, 0, 0, 0, "tvec", 2),
  Insn("mret", 0, 0, 0, 0, "tvec", 2),
  Insn("memory", 1, 1, 1, 0, "tvec", 2)}

\* One instruction of each unit that takes several cycles, and none of them.
UnitInsns == {
  Insn("muldiv", 1, 1, 1, 0, "tvec", 2),
  Insn("fence", 0, 0, 0, 0, "tvec", 2),
  Insn("jump", 1, 1, 0, 1, "tvec", 1)}
=============================================================================
