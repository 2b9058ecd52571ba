------------------------------- MODULE Decoder -------------------------------
(***************************************************************************)
(* lib/common/Decoder.cpp: what the emulator takes an instruction word     *)
(* for.  A decoded instruction is its class, the name of its operation and *)
(* its operands.                                                           *)
(***************************************************************************)
EXTENDS Encoding

Op(class, name, operand) == [class |-> class, name |-> name, operand |-> operand]
NoOperand == [none |-> TRUE]
Unknown(class) == Op(class, "unknown", NoOperand)
Named(class, name, operand) == IF name = "unknown" THEN Unknown(class) ELSE Op(class, name, operand)

-----------------------------------------------------------------------------
(* Operands *)

OperandR(insn) == [rd |-> insn.rd, rs1 |-> insn.rs1, rs2 |-> insn.rs2, funct3 |-> insn.funct3]
OperandR4(insn) == [rd |-> insn.rd, rs1 |-> insn.rs1, rs2 |-> insn.rs2,
                    rs3 |-> Funct5(insn), funct3 |-> insn.funct3]
OperandI(insn) == [imm |-> SignExtend(12, BitsI(insn)), rd |-> insn.rd, rs1 |-> insn.rs1]
OperandS(insn) == [imm |-> SignExtend(12, BitsS(insn)), rs1 |-> insn.rs1, rs2 |-> insn.rs2]
\* Mutant: the sign of a branch is taken one bit too low.
MutOperandB(insn) == [imm |-> SignExtend(12, BitsB(insn)), rs1 |-> insn.rs1, rs2 |-> insn.rs2]

OperandB(insn) == [imm |-> SignExtend(13, BitsB(insn)), rs1 |-> insn.rs1, rs2 |-> insn.rs2]
OperandU(insn) == [imm |-> SignExtend(20, BitsU(insn)) * 4096, rd |-> insn.rd]

OperandJ(insn) == [imm |-> SignExtend(21, BitsJ(insn)), rd |-> insn.rd]

OperandShiftImm(insn, width) ==
  [rd |-> insn.rd, rs1 |-> insn.rs1, shamt |-> Funct12(insn) % 2^width]
OperandCsr(insn) == [rd |-> insn.rd, rs1 |-> insn.rs1, csr |-> Funct12(insn)]
OperandCsrImm(insn) == [zimm |-> insn.rs1, rd |-> insn.rd, csr |-> Funct12(insn)]
OperandFence(insn) == [pred |-> (Funct12(insn) \div 16) % 16, succ |-> Funct12(insn) % 16]

\* Compressed: register fields of five bits, or of three.
OperandCR(insn) == [rd |-> Pick(insn, 7, 5), rs1 |-> Pick(insn, 7, 5), rs2 |-> Pick(insn, 2, 5)]
OperandCR_Alu(insn) == [rd |-> Short(insn, 7), rs1 |-> Short(insn, 7), rs2 |-> Short(insn, 2)]
WithImm(insn, imm) == [imm |-> imm, rd |-> Pick(insn, 7, 5), rs1 |-> Pick(insn, 7, 5)]
OperandCI(insn) == WithImm(insn, SignExtend(6, BitsCI(insn)))
OperandCI_ADDI16SP(insn) == WithImm(insn, SignExtend(10, BitsAddi16sp(insn)))
OperandCI_LUI(insn) == WithImm(insn, SignExtend(6, BitsCI(insn)) * 4096)
OperandCI_LoadSP(insn, size) == WithImm(insn, BitsLoadSp(insn, size))
OperandCI_AluImm(insn, signed) ==
  [imm |-> IF signed THEN SignExtend(6, BitsCI(insn)) ELSE BitsCI(insn),
   rd |-> Short(insn, 7), rs1 |-> Short(insn, 7)]
OperandCSS(insn, size) == [imm |-> BitsStoreSp(insn, size), rs2 |-> Pick(insn, 2, 5)]
OperandCIW(insn) == [imm |-> BitsAddi4spn(insn), rd |-> Short(insn, 2)]
OperandCL(insn, size) ==
  [imm |-> BitsWord(insn, size), rd |-> Short(insn, 2), rs1 |-> Short(insn, 7)]
OperandCS(insn, size) ==
  [imm |-> BitsWord(insn, size), rs1 |-> Short(insn, 7), rs2 |-> Short(insn, 2)]
\* Mutant: the sign of a compressed branch is taken one bit too low.
MutOperandCB(insn) == [imm |-> SignExtend(8, BitsCB(insn)), rs1 |-> Short(insn, 7)]

OperandCB(insn) == [imm |-> SignExtend(9, BitsCB(insn)), rs1 |-> Short(insn, 7)]
OperandCJ(insn) == [imm |-> SignExtend(12, BitsCJ(insn))]

-----------------------------------------------------------------------------
(* Integer instructions *)

Jalr(insn) == Named("I", Nth(<<"jalr">>, insn.funct3), OperandI(insn))
Branch(insn) ==
  Named("I", Nth(<<"beq", "bne", "unknown", "unknown", "blt", "bge", "bltu", "bgeu">>, insn.funct3),
        OperandB(insn))

Load(xlen, insn) ==
  LET name == Nth(<<"lb", "lh", "lw", "ld", "lbu", "lhu", "lwu">>, insn.funct3) IN
  Named("I", IF name \in {"ld", "lwu"} /\ xlen = 32 THEN "unknown" ELSE name, OperandI(insn))

Store(xlen, insn) ==
  LET name == Nth(<<"sb", "sh", "sw", "sd">>, insn.funct3) IN
  Named("I", IF name = "sd" /\ xlen = 32 THEN "unknown" ELSE name, OperandS(insn))

\* The bits above the amount select the shift: 7, or 6 where 6 bits are the amount.
ShiftImm(xlen, insn) ==
  LET above == IF xlen = 32 THEN insn.funct7 ELSE Funct6(insn)
      arithmetic == IF xlen = 32 THEN \b0100000 ELSE \b010000
      name == IF above = 0 THEN Nth(<<"unknown", "slli", "unknown", "unknown", "unknown", "srli">>, insn.funct3)
              ELSE IF above = arithmetic /\ insn.funct3 = 5 THEN "srai"
              ELSE "unknown"
  IN  Named("I", name, OperandShiftImm(insn, IF xlen = 32 THEN 5 ELSE 6))

AluImm(xlen, insn) ==
  IF insn.funct3 \in {1, 5} THEN ShiftImm(xlen, insn)
  ELSE Op("I", Nth(<<"addi", "unknown", "slti", "sltiu", "xori", "unknown", "ori", "andi">>, insn.funct3), OperandI(insn))

Alu(insn) ==
  Named("I",
        CASE insn.funct7 = 0 ->
               Nth(<<"add", "sll", "slt", "sltu", "xor", "srl", "or", "and">>, insn.funct3)
          [] insn.funct7 = \b0100000 ->
               Nth(<<"sub", "unknown", "unknown", "unknown", "unknown", "sra">>, insn.funct3)
          [] OTHER -> "unknown",
        OperandR(insn))

\* The instructions on 32-bit words of RV64.
WordImm(insn) ==
  IF insn.funct3 = 0 THEN Op("I", "addiw", OperandI(insn))
  ELSE Named("I",
             CASE insn.funct7 = 0 ->
                    Nth(<<"unknown", "slliw", "unknown", "unknown", "unknown", "srliw">>, insn.funct3)
               [] insn.funct7 = \b0100000 /\ insn.funct3 = 5 -> "sraiw"
               [] OTHER -> "unknown",
             OperandShiftImm(insn, 5))
WordAlu(insn) ==
  Named("I",
        CASE insn.funct7 = 0 ->
               Nth(<<"addw", "sllw", "unknown", "unknown", "unknown", "srlw">>, insn.funct3)
          [] insn.funct7 = \b0100000 ->
               Nth(<<"subw", "unknown", "unknown", "unknown", "unknown", "sraw">>, insn.funct3)
          [] OTHER -> "unknown",
        OperandR(insn))

Fence(insn) ==
  IF insn.rd # 0 \/ insn.rs1 # 0 THEN Unknown("I")
  ELSE CASE insn.funct3 = 0 /\ insn.funct7 \div 8 = 0 -> Op("I", "fence", OperandFence(insn))
         [] insn.funct3 = 1 /\ Funct12(insn) = 0 -> Op("I", "fence_i", OperandFence(insn))
         [] OTHER -> Unknown("I")

Priv(insn) ==
  IF insn.funct7 = \b0001001 THEN Op("I", "sfence_vma", OperandR(insn))
  ELSE IF insn.rs1 # 0 THEN Unknown("I")
  ELSE Named("I",
             CASE Funct12(insn) = \b000000000000 -> "ecall"
               [] Funct12(insn) = \b000000000001 -> "ebreak"
               [] Funct12(insn) = \b000000000010 -> "uret"
               [] Funct12(insn) = \b000100000010 -> "sret"
               [] Funct12(insn) = \b000100000101 -> "wfi"
               [] Funct12(insn) = \b001100000010 -> "mret"
               [] OTHER -> "unknown",
             NoOperand)

System(insn) ==
  CASE insn.funct3 = 0 /\ insn.rd = 0 -> Priv(insn)
    [] insn.funct3 \in 1 .. 3 -> Op("I", Nth(<<"csrrw", "csrrs", "csrrc">>, insn.funct3 - 1), OperandCsr(insn))
    [] insn.funct3 \in 5 .. 7 -> Op("I", Nth(<<"csrrwi", "csrrsi", "csrrci">>, insn.funct3 - 5), OperandCsrImm(insn))
    [] OTHER -> Unknown("I")

DecodeI(xlen, insn) ==
  CASE insn.opcode = \b0110111 -> Op("I", "lui", OperandU(insn))
    [] insn.opcode = \b0010111 -> Op("I", "auipc", OperandU(insn))
    [] insn.opcode = \b1101111 -> Op("I", "jal", OperandJ(insn))
    [] insn.opcode = \b1100111 -> Jalr(insn)
    [] insn.opcode = \b1100011 -> Branch(insn)
    [] insn.opcode = \b0000011 -> Load(xlen, insn)
    [] insn.opcode = \b0100011 -> Store(xlen, insn)
    [] insn.opcode = \b0010011 -> AluImm(xlen, insn)
    [] insn.opcode = \b0110011 -> Alu(insn)
    [] insn.opcode = \b0011011 /\ xlen = 64 -> WordImm(insn)
    [] insn.opcode = \b0111011 /\ xlen = 64 -> WordAlu(insn)
    [] insn.opcode = \b0001111 -> Fence(insn)
    [] insn.opcode = \b1110011 -> System(insn)
    [] OTHER -> Unknown("I")

-----------------------------------------------------------------------------
(* Multiplication, atomic operations *)

DecodeM(xlen, insn) ==
  LET names == IF insn.opcode = \b0110011
               THEN <<"mul", "mulh", "mulhsu", "mulhu", "div", "divu", "rem", "remu">>
               ELSE IF xlen = 64
               THEN <<"mulw", "unknown", "unknown", "unknown", "divw", "divuw", "remw", "remuw">>
               ELSE <<>>
  IN  Op("M", Nth(names, insn.funct3), OperandR(insn))

\* Five bits select the operation; a load-reserved has no second source.
Amos32 == <<"amoadd_w", "amoswap_w", "lr_w", "sc_w", "amoxor_w", "unknown", "unknown", "unknown",
            "amoor_w", "unknown", "unknown", "unknown", "amoand_w", "unknown", "unknown", "unknown",
            "amomin_w", "unknown", "unknown", "unknown", "amomax_w", "unknown", "unknown", "unknown",
            "amominu_w", "unknown", "unknown", "unknown", "amomaxu_w">>
Amos64 == <<"amoadd_d", "amoswap_d", "lr_d", "sc_d", "amoxor_d", "unknown", "unknown", "unknown",
            "amoor_d", "unknown", "unknown", "unknown", "amoand_d", "unknown", "unknown", "unknown",
            "amomin_d", "unknown", "unknown", "unknown", "amomax_d", "unknown", "unknown", "unknown",
            "amominu_d", "unknown", "unknown", "unknown", "amomaxu_d">>
AmoName(insn, names) ==
  IF Funct5(insn) = 2 /\ insn.rs2 # 0 THEN "unknown" ELSE Nth(names, Funct5(insn))

DecodeA(xlen, insn) ==
  Named("A",
        CASE insn.funct3 = 2 -> AmoName(insn, Amos32)
          [] insn.funct3 = 3 /\ xlen = 64 -> AmoName(insn, Amos64)
          [] OTHER -> "unknown",
        OperandR(insn))

-----------------------------------------------------------------------------
(* Floating point *)

\* The opcodes of the fused operations count in steps of four.
FusedName(insn, names) == Nth(names, (insn.opcode - \b1000011) \div 4)
\* The conversions to and from integers: those to 64 bits are of RV64 only, in F.
ToInt(names, xlen, insn) == IF xlen = 32 /\ insn.rs2 > 1 THEN "unknown" ELSE Nth(names, insn.rs2)

OpF(xlen, insn) ==
  CASE insn.funct7 = \b0000000 -> "fadd_s"
    [] insn.funct7 = \b0000100 -> "fsub_s"
    [] insn.funct7 = \b0001000 -> "fmul_s"
    [] insn.funct7 = \b0001100 -> "fdiv_s"
    [] insn.funct7 = \b0101100 -> Nth(<<"fsqrt_s">>, insn.rs2)
    [] insn.funct7 = \b0010000 -> Nth(<<"fsgnj_s", "fsgnjn_s", "fsgnjx_s">>, insn.funct3)
    [] insn.funct7 = \b0010100 -> Nth(<<"fmin_s", "fmax_s">>, insn.funct3)
    [] insn.funct7 = \b1100000 -> ToInt(<<"fcvt_w_s", "fcvt_wu_s", "fcvt_l_s", "fcvt_lu_s">>, xlen, insn)
    [] insn.funct7 = \b1110000 /\ insn.rs2 = 0 -> Nth(<<"fmv_x_w", "fclass_s">>, insn.funct3)
    [] insn.funct7 = \b1010000 -> Nth(<<"fle_s", "flt_s", "feq_s">>, insn.funct3)
    [] insn.funct7 = \b1101000 -> ToInt(<<"fcvt_s_w", "fcvt_s_wu", "fcvt_s_l", "fcvt_s_lu">>, xlen, insn)
    [] insn.funct7 = \b1111000 /\ insn.rs2 = 0 -> Nth(<<"fmv_w_x">>, insn.funct3)
    [] OTHER -> "unknown"

DecodeF(xlen, insn) ==
  CASE IsLoadFp(insn) -> Op("F", "flw", OperandI(insn))
    [] IsStoreFp(insn) -> Op("F", "fsw", OperandS(insn))
    [] insn.opcode \in FusedOpcodes -> Op("F", FusedName(insn, <<"fmadd_s", "fmsub_s", "fnmsub_s", "fnmadd_s">>), OperandR4(insn))
    [] OTHER -> Named("F", OpF(xlen, insn), OperandR(insn))

OpD(insn) ==
  CASE insn.funct7 = \b0000001 -> "fadd_d"
    [] insn.funct7 = \b0000101 -> "fsub_d"
    [] insn.funct7 = \b0001001 -> "fmul_d"
    [] insn.funct7 = \b0001101 -> "fdiv_d"
    [] insn.funct7 = \b0101101 -> Nth(<<"fsqrt_d">>, insn.rs2)
    [] insn.funct7 = \b0010001 -> Nth(<<"fsgnj_d", "fsgnjn_d", "fsgnjx_d">>, insn.funct3)
    [] insn.funct7 = \b0010101 -> Nth(<<"fmin_d", "fmax_d">>, insn.funct3)
    [] insn.funct7 = \b0100000 -> Nth(<<"unknown", "fcvt_s_d">>, insn.rs2)
    [] insn.funct7 = \b0100001 -> Nth(<<"fcvt_d_s">>, insn.rs2)
    [] insn.funct7 = \b1010001 -> Nth(<<"fle_d", "flt_d", "feq_d">>, insn.funct3)
    [] insn.funct7 = \b1110001 /\ insn.rs2 = 0 -> Nth(<<"fmv_x_d", "fclass_d">>, insn.funct3)
    [] insn.funct7 = \b1100001 -> Nth(<<"fcvt_w_d", "fcvt_wu_d", "fcvt_l_d", "fcvt_lu_d">>, insn.rs2)
    [] insn.funct7 = \b1101001 -> Nth(<<"fcvt_d_w", "fcvt_d_wu", "fcvt_d_l", "fcvt_d_lu">>, insn.rs2)
    [] insn.funct7 = \b1111001 /\ insn.rs2 = 0 -> Nth(<<"fmv_d_x">>, insn.funct3)
    [] OTHER -> "unknown"

DecodeD(insn) ==
  CASE IsLoadFp(insn) -> Op("D", "fld", OperandI(insn))
    [] IsStoreFp(insn) -> Op("D", "fsd", OperandS(insn))
    [] insn.opcode \in FusedOpcodes -> Op("D", FusedName(insn, <<"fmadd_d", "fmsub_d", "fnmsub_d", "fnmadd_d">>), OperandR4(insn))
    [] OTHER -> Named("D", OpD(insn), OperandR(insn))

-----------------------------------------------------------------------------
(* Compressed *)

Quadrant0(xlen, insn) ==
  LET funct3 == Pick(insn, 13, 3) IN
  CASE funct3 = 0 /\ Pick(insn, 5, 8) # 0 -> Op("C", "c_addi4spn", OperandCIW(insn))
    [] funct3 = 1 -> Op("C", "c_fld", OperandCL(insn, 8))
    [] funct3 = 2 -> Op("C", "c_lw", OperandCL(insn, 4))
    [] funct3 = 3 -> IF xlen = 32 THEN Op("C", "c_flw", OperandCL(insn, 4)) ELSE Op("C", "c_ld", OperandCL(insn, 8))
    [] funct3 = 5 -> Op("C", "c_fsd", OperandCS(insn, 8))
    [] funct3 = 6 -> Op("C", "c_sw", OperandCS(insn, 4))
    [] funct3 = 7 -> IF xlen = 32 THEN Op("C", "c_fsw", OperandCS(insn, 4)) ELSE Op("C", "c_sd", OperandCS(insn, 8))
    [] OTHER -> Unknown("C")

\* The second opcode of the quadrant: shifts, and the operations of two registers.
AluC(insn) ==
  LET kind == Pick(insn, 10, 2) IN
  IF kind < 3 THEN Op("C", Nth(<<"c_srli", "c_srai", "c_andi">>, kind), OperandCI_AluImm(insn, kind = 2))
  ELSE Named("C", Nth(<<"c_sub", "c_xor", "c_or", "c_and", "c_subw", "c_addw">>, Bit(insn, 12) * 4 + Pick(insn, 5, 2)),
             OperandCR_Alu(insn))

Quadrant1(xlen, insn) ==
  LET funct3 == Pick(insn, 13, 3)
      rd == Pick(insn, 7, 5)
  IN
  CASE funct3 = 0 -> IF rd = 0 /\ BitsCI(insn) = 0 THEN Op("C", "c_nop", NoOperand) ELSE Op("C", "c_addi", OperandCI(insn))
    [] funct3 = 1 /\ xlen = 32 -> Op("C", "c_jal", OperandCJ(insn))
    [] funct3 = 1 /\ xlen = 64 /\ rd # 0 -> Op("C", "c_addiw", OperandCI(insn))
    [] funct3 = 2 /\ rd # 0 -> Op("C", "c_li", OperandCI(insn))
    [] funct3 = 3 /\ rd = 2 -> Op("C", "c_addi16sp", OperandCI_ADDI16SP(insn))
    [] funct3 = 3 /\ rd \notin {0, 2} -> Op("C", "c_lui", OperandCI_LUI(insn))
    [] funct3 = 4 -> AluC(insn)
    [] funct3 = 5 -> Op("C", "c_j", OperandCJ(insn))
    [] funct3 = 6 -> Op("C", "c_beqz", OperandCB(insn))
    [] funct3 = 7 -> Op("C", "c_bnez", OperandCB(insn))
    [] OTHER -> Unknown("C")

\* c.jr, c.mv, c.ebreak, c.jalr, c.add: bit 12 and which registers are named.
RegistersC(insn) ==
  LET rd == Pick(insn, 7, 5)
      rs2 == Pick(insn, 2, 5)
  IN
  Named("C",
        CASE Bit(insn, 12) = 0 /\ rd # 0 /\ rs2 = 0 -> "c_jr"
          [] Bit(insn, 12) = 0 /\ rd # 0 /\ rs2 # 0 -> "c_mv"
          [] Bit(insn, 12) = 1 /\ rd = 0 /\ rs2 = 0 -> "c_ebreak"
          [] Bit(insn, 12) = 1 /\ rd # 0 /\ rs2 = 0 -> "c_jalr"
          [] Bit(insn, 12) = 1 /\ rd # 0 /\ rs2 # 0 -> "c_add"
          [] OTHER -> "unknown",
        OperandCR(insn))

Quadrant2(xlen, insn) ==
  LET funct3 == Pick(insn, 13, 3)
      rd == Pick(insn, 7, 5)
  IN
  CASE funct3 = 0 -> Op("C", "c_slli", OperandCI(insn))
    [] funct3 = 1 -> Op("C", "c_fldsp", OperandCI_LoadSP(insn, 8))
    [] funct3 = 2 /\ rd # 0 -> Op("C", "c_lwsp", OperandCI_LoadSP(insn, 4))
    [] funct3 = 3 /\ xlen = 32 -> Op("C", "c_flwsp", OperandCI_LoadSP(insn, 4))
    [] funct3 = 3 /\ xlen = 64 /\ rd # 0 -> Op("C", "c_ldsp", OperandCI_LoadSP(insn, 8))
    [] funct3 = 4 -> RegistersC(insn)
    [] funct3 = 5 -> Op("C", "c_fsdsp", OperandCSS(insn, 8))
    [] funct3 = 6 -> Op("C", "c_swsp", OperandCSS(insn, 4))
    [] funct3 = 7 -> IF xlen = 32 THEN Op("C", "c_fswsp", OperandCSS(insn, 4)) ELSE Op("C", "c_sdsp", OperandCSS(insn, 8))
    [] OTHER -> Unknown("C")

DecodeC(xlen, insn) ==
  CASE insn % 4 = 0 -> Quadrant0(xlen, insn)
    [] insn % 4 = 1 -> Quadrant1(xlen, insn)
    [] insn % 4 = 2 -> Quadrant2(xlen, insn)

-----------------------------------------------------------------------------

IsM(insn) == insn.funct7 = 1 /\ insn.opcode \in {\b0110011, \b0111011}
IsA(insn) == insn.opcode = \b0101111 /\ insn.funct3 \in {2, 3}
IsFp(insn, format, width) ==
  \/ (IsLoadFp(insn) \/ IsStoreFp(insn)) /\ insn.funct3 = width
  \/ insn.opcode \in FusedOpcodes /\ Funct2(insn) = format

\* The conversion from double to single is of D, although its format is S.
IsF(insn) == \/ IsFp(insn, 0, 2)
             \/ IsOpFp(insn) /\ Funct2(insn) = 0 /\ insn.funct7 # \b0100000
IsD(insn) == \/ IsFp(insn, 1, 3)
             \/ IsOpFp(insn) /\ (Funct2(insn) = 1 \/ insn.funct7 = \b0100000)

Decode(xlen, insn) ==
  CASE IsM(insn) -> DecodeM(xlen, insn)
    [] IsA(insn) -> DecodeA(xlen, insn)
    [] IsF(insn) -> DecodeF(xlen, insn)
    [] IsD(insn) -> DecodeD(insn)
    [] OTHER -> DecodeI(xlen, insn)
=============================================================================
