------------------------------ MODULE OpDecoder ------------------------------
(***************************************************************************)
(* lib/op/OpDecoder.cpp: the second decoder of the repository, whose       *)
(* operations only turn themselves into text for the trace printers.  An   *)
(* operation is its class and the arguments of its constructor, in order;  *)
(* a compressed word becomes the operation it is short for.                *)
(***************************************************************************)
EXTENDS Encoding

Make(name, args) == [name |-> name, args |-> args]
Nullptr == Make("unknown", <<>>)
New(name, args) == IF name = "unknown" THEN Nullptr ELSE Make(name, args)

-----------------------------------------------------------------------------
(* Integer instructions *)

ImmI(insn) == SignExtend(12, BitsI(insn))
ImmB(insn) == SignExtend(13, BitsB(insn))
ImmS(insn) == SignExtend(12, BitsS(insn))
Registers(insn) == <<insn.rd, insn.rs1, insn.rs2>>

\* The sign of a jump is looked for one bit too low, that of an upper immediate not at all.
UpperOrJump(insn) ==
  CASE insn.opcode = \b0110111 -> Make("lui", <<insn.rd, BitsU(insn)>>)
    [] insn.opcode = \b0010111 -> Make("auipc", <<insn.rd, BitsU(insn)>>)
    [] insn.opcode = \b1101111 -> Make("jal", <<insn.rd, SignExtend(20, BitsJ(insn))>>)
    [] insn.opcode = \b1100111 -> New(Nth(<<"jalr">>, insn.funct3), <<insn.rd, insn.rs1, ImmI(insn)>>)

Branch(insn) ==
  New(Nth(<<"beq", "bne", "unknown", "unknown", "blt", "bge", "bltu", "bgeu">>, insn.funct3),
      <<insn.rs1, insn.rs2, ImmB(insn)>>)

\* A store prints the immediate of a load.
LoadOrStore(xlen, insn) ==
  LET loads == IF xlen = 32 THEN <<"lb", "lh", "lw", "unknown", "lbu", "lhu">>
                            ELSE <<"lb", "lh", "lw", "ld", "lbu", "lhu", "lwu">>
      stores == IF xlen = 32 THEN <<"sb", "sh", "sw">> ELSE <<"sb", "sh", "sw", "sd">>
  IN  IF insn.opcode = \b0000011
      THEN New(Nth(loads, insn.funct3), <<insn.rd, insn.rs1, ImmI(insn)>>)
      ELSE New(Nth(stores, insn.funct3), <<insn.rs1, insn.rs2, ImmI(insn)>>)

\* The shift whose bits above the amount are `above'; `one' is the bit of an arithmetic one.
Shift(insn, above, one) ==
  CASE above = 0 -> Nth(<<"unknown", "slli", "unknown", "unknown", "unknown", "srli">>, insn.funct3)
    [] above = one /\ insn.funct3 = 5 -> "srai"
    [] OTHER -> "unknown"

AluImm(insn, shift, shamt) ==
  IF insn.funct3 \in {1, 5} THEN New(shift, <<insn.rd, insn.rs1, shamt>>)
  ELSE Make(Nth(<<"addi", "unknown", "slti", "sltiu", "xori", "unknown", "ori", "andi">>, insn.funct3),
            <<insn.rd, insn.rs1, ImmI(insn)>>)

AluName(insn) ==
  CASE insn.funct7 = 0 -> Nth(<<"add", "sll", "slt", "sltu", "xor", "srl", "or", "and">>, insn.funct3)
    [] insn.funct7 = \b0100000 -> Nth(<<"sub", "unknown", "unknown", "unknown", "unknown", "sra">>, insn.funct3)
    [] OTHER -> "unknown"

\* Shifts of words lose the W.
Word64(insn) ==
  IF insn.opcode = \b0011011
  THEN IF insn.funct3 = 0 THEN Make("addiw", <<insn.rd, insn.rs1, ImmI(insn)>>)
       ELSE New(Shift(insn, insn.funct7, \b0100000), <<insn.rd, insn.rs1, insn.rs2>>)
  ELSE New(CASE insn.funct7 = 0 ->
                  Nth(<<"addw", "sllw", "unknown", "unknown", "unknown", "srlw">>, insn.funct3)
             [] insn.funct7 = \b0100000 ->
                  Nth(<<"subw", "unknown", "unknown", "unknown", "unknown", "sraw">>, insn.funct3)
             [] OTHER -> "unknown",
           Registers(insn))

Fence(insn) ==
  IF insn.rd # 0 \/ insn.rs1 # 0 THEN Nullptr
  ELSE CASE insn.funct3 = 0 /\ insn.funct7 \div 8 = 0 ->
              Make("fence", <<0, 0, 0, (Funct12(insn) \div 16) % 16, Funct12(insn) % 16>>)
         [] insn.funct3 = 1 /\ Funct12(insn) = 0 -> Make("fence_i", <<0, 0, ImmI(insn)>>)
         [] OTHER -> Nullptr

System(insn) ==
  CASE insn.funct3 = 0 /\ insn.rd = 0 /\ insn.funct7 = \b0001001 -> Make("sfence_vma", <<insn.rs1, insn.rs2>>)
    [] insn.funct3 = 0 /\ insn.rd = 0 /\ insn.funct7 # \b0001001 /\ insn.rs1 = 0 ->
         New(CASE Funct12(insn) \in {0, 1, 2} -> Nth(<<"ecall", "ebreak", "uret">>, Funct12(insn))
               [] Funct12(insn) = \b000100000010 -> "sret"
               [] Funct12(insn) = \b000100000101 -> "wfi"
               [] Funct12(insn) = \b001100000010 -> "mret"
               [] OTHER -> "unknown",
             <<>>)
    [] insn.funct3 \notin {0, 4} ->
         Make(Nth(<<"csrrw", "csrrs", "csrrc", "unknown", "csrrwi", "csrrsi", "csrrci">>, insn.funct3 - 1),
              <<Funct12(insn), insn.rd, insn.rs1>>)
    [] OTHER -> Nullptr

\* What the two widths share, but for the loads and stores of 64 bits.
Integer(xlen, insn) ==
  CASE insn.opcode \in {\b0110111, \b0010111, \b1101111, \b1100111} -> UpperOrJump(insn)
    [] insn.opcode = \b1100011 -> Branch(insn)
    [] insn.opcode \in {\b0000011, \b0100011} -> LoadOrStore(xlen, insn)
    [] insn.opcode = \b0110011 -> New(AluName(insn), Registers(insn))
    [] insn.opcode = \b0001111 -> Fence(insn)
    [] insn.opcode = \b1110011 -> System(insn)
    [] OTHER -> Nullptr

DecodeRV32I(insn) ==
  IF insn.opcode = \b0010011
  THEN AluImm(insn, Shift(insn, insn.funct7, \b0100000), insn.rs2)
  ELSE Integer(32, insn)

DecodeRV64I(insn) ==
  CASE insn.opcode = \b0010011 -> AluImm(insn, Shift(insn, Funct6(insn), \b010000), Funct12(insn) % 64)
    [] insn.opcode \in {\b0011011, \b0111011} -> Word64(insn)
    [] OTHER -> Integer(64, insn)

-----------------------------------------------------------------------------
(* Multiplication, atomic operations *)

DecodeRV32M(insn) ==
  Make(Nth(<<"mul", "mulh", "mulhsu", "mulhu", "div", "divu", "rem", "remu">>, insn.funct3), Registers(insn))

DecodeRV64M(insn) ==
  IF insn.opcode = \b0110011 THEN DecodeRV32M(insn)
  ELSE New(Nth(<<"mulw", "unknown", "unknown", "unknown", "divw", "divuw", "remw", "remuw">>, insn.funct3),
           Registers(insn))

\* Five bits select the operation; a load-reserved has no second source.
Atomic(insn, reserved, names) ==
  LET aq == (insn.funct7 \div 2) % 2
      rl == insn.funct7 % 2
  IN
  IF Funct5(insn) = \b00010
  THEN IF insn.rs2 = 0 THEN Make(reserved, <<insn.rd, insn.rs1, aq, rl>>) ELSE Nullptr
  ELSE New(CASE Funct5(insn) = \b00011 -> names[1]
             [] Funct5(insn) = \b00001 -> names[2]
             [] Funct5(insn) = \b00000 -> names[3]
             [] Funct5(insn) = \b00100 -> names[4]
             [] Funct5(insn) = \b01100 -> names[5]
             [] Funct5(insn) = \b01000 -> names[6]
             [] Funct5(insn) = \b10000 -> names[7]
             [] Funct5(insn) = \b10100 -> names[8]
             [] Funct5(insn) = \b11000 -> names[9]
             [] Funct5(insn) = \b11100 -> names[10]
             [] OTHER -> "unknown",
           <<insn.rd, insn.rs1, insn.rs2, aq, rl>>)

Atomic32(insn) ==
  Atomic(insn, "lr_w", <<"sc_w", "amoswap_w", "amoadd_w", "amoxor_w", "amoand_w", "amoor_w",
                         "amomin_w", "amomax_w", "amominu_w", "amomaxu_w">>)
Atomic64(insn) ==
  Atomic(insn, "lr_d", <<"sc_d", "amoswap_d", "amoadd_d", "amoxor_d", "amoand_d", "amoor_d",
                         "amomin_d", "amomax_d", "amominu_d", "amomaxu_d">>)
DecodeRV32A(insn) == Atomic32(insn)
DecodeRV64A(insn) == IF insn.funct3 = 2 THEN Atomic32(insn) ELSE Atomic64(insn)

-----------------------------------------------------------------------------
(* Floating point: s(ingle) and d(ouble) differ in the names and in which     *)
(* integers they convert to and from.                                         *)

Fused(insn, names) ==
  Make(CASE insn.opcode = \b1000011 -> names[1]
         [] insn.opcode = \b1000111 -> names[2]
         [] insn.opcode = \b1001011 -> names[3]
         [] insn.opcode = \b1001111 -> names[4],
       <<insn.rd, insn.rs1, insn.rs2, Funct5(insn), insn.funct3>>)
Fused32(insn) == Fused(insn, <<"fmadd_s", "fmsub_s", "fnmsub_s", "fnmadd_s">>)
Fused64(insn) == Fused(insn, <<"fmadd_d", "fmsub_d", "fnmsub_d", "fnmadd_d">>)

\* A store is given the destination field of its word and its base, for its base and its source.
FpLoad(insn, name) == Make(name, <<insn.rd, insn.rs1, ImmI(insn)>>)
FpStore(insn, name) == Make(name, <<insn.rd, insn.rs1, ImmS(insn)>>)

Rounded(insn, name) == Make(name, <<insn.rd, insn.rs1, insn.rs2, insn.funct3>>)
Compared(insn, names) == New(Nth(names, insn.funct3), Registers(insn))
\* A conversion is given the field that selects it in place of the rounding mode.
Converted(insn, names) == New(Nth(names, insn.rs2), Registers(insn))
Moved(insn, names) ==
  IF insn.rs2 = 0 THEN New(Nth(names, insn.funct3), <<insn.rd, insn.rs1>>) ELSE Nullptr
SquareRoot(insn, name) ==
  IF insn.rs2 = 0 THEN Make(name, <<insn.rd, insn.rs1, insn.funct3>>) ELSE Nullptr

OpFp32(insn, toInt, fromInt) ==
  CASE insn.funct7 = \b0000000 -> Rounded(insn, "fadd_s")
    [] insn.funct7 = \b0000100 -> Rounded(insn, "fsub_s")
    [] insn.funct7 = \b0001000 -> Rounded(insn, "fmul_s")
    [] insn.funct7 = \b0001100 -> Rounded(insn, "fdiv_s")
    [] insn.funct7 = \b0101100 -> SquareRoot(insn, "fsqrt_s")
    [] insn.funct7 = \b0010000 -> Compared(insn, <<"fsgnj_s", "fsgnjn_s", "fsgnjx_s">>)
    [] insn.funct7 = \b0010100 -> Compared(insn, <<"fmin_s", "fmax_s">>)
    [] insn.funct7 = \b1100000 -> Converted(insn, toInt)
    [] insn.funct7 = \b1110000 -> Moved(insn, <<"fmv_x_w", "fclass_s">>)
    [] insn.funct7 = \b1010000 -> Compared(insn, <<"fle_s", "flt_s", "feq_s">>)
    [] insn.funct7 = \b1101000 -> Converted(insn, fromInt)
    [] insn.funct7 = \b1111000 -> Moved(insn, <<"fmv_w_x">>)
    [] OTHER -> Nullptr

OpFp64(insn, toInt, fromInt) ==
  CASE insn.funct7 = \b0000001 -> Rounded(insn, "fadd_d")
    [] insn.funct7 = \b0000101 -> Rounded(insn, "fsub_d")
    [] insn.funct7 = \b0001001 -> Rounded(insn, "fmul_d")
    [] insn.funct7 = \b0001101 -> Rounded(insn, "fdiv_d")
    [] insn.funct7 = \b0101101 -> SquareRoot(insn, "fsqrt_d")
    [] insn.funct7 = \b0010001 -> Compared(insn, <<"fsgnj_d", "fsgnjn_d", "fsgnjx_d">>)
    [] insn.funct7 = \b0010101 -> Compared(insn, <<"fmin_d", "fmax_d">>)
    [] insn.funct7 = \b0100000 -> Converted(insn, <<"unknown", "fcvt_s_d">>)
    [] insn.funct7 = \b0100001 -> Converted(insn, <<"fcvt_d_s">>)
    [] insn.funct7 = \b1010001 -> Compared(insn, <<"fle_d", "flt_d", "feq_d">>)
    [] insn.funct7 = \b1110001 /\ insn.funct3 = 1 -> Moved(insn, <<"unknown", "fclass_d">>)
    [] insn.funct7 = \b1100001 -> Converted(insn, toInt)
    [] insn.funct7 = \b1101001 -> Converted(insn, fromInt)
    [] OTHER -> Nullptr

DecodeRV32F(insn) ==
  CASE IsLoadFp(insn) -> FpLoad(insn, "flw")
    [] IsStoreFp(insn) -> FpStore(insn, "fsw")
    [] insn.opcode \in FusedOpcodes -> Fused32(insn)
    [] OTHER -> OpFp32(insn, <<"fcvt_w_s", "fcvt_wu_s">>, <<"fcvt_s_w", "fcvt_s_wu">>)

DecodeRV64F(insn) ==
  CASE IsLoadFp(insn) -> FpLoad(insn, "flw")
    [] IsStoreFp(insn) -> FpStore(insn, "fsw")
    [] insn.opcode \in FusedOpcodes -> Fused32(insn)
    [] OTHER -> OpFp32(insn, <<"fcvt_w_s", "fcvt_wu_s", "fcvt_l_s", "fcvt_lu_s">>,
                             <<"fcvt_s_w", "fcvt_s_wu", "fcvt_s_l", "fcvt_s_lu">>)

DecodeRV32D(insn) ==
  CASE IsLoadFp(insn) -> FpLoad(insn, "fld")
    [] IsStoreFp(insn) -> FpStore(insn, "fsd")
    [] insn.opcode \in FusedOpcodes -> Fused64(insn)
    [] OTHER -> OpFp64(insn, <<"fcvt_w_d", "fcvt_wu_d">>, <<"fcvt_d_w", "fcvt_d_wu">>)

\* The moves of 64 bits are of RV64 only.
MoveOrOpFp64(insn) ==
  CASE insn.funct7 = \b1110001 /\ insn.funct3 = 0 -> Moved(insn, <<"fmv_x_d">>)
    [] insn.funct7 = \b1111001 -> Moved(insn, <<"fmv_d_x">>)
    [] OTHER -> OpFp64(insn, <<"fcvt_w_d", "fcvt_wu_d", "fcvt_l_d", "fcvt_lu_d">>,
                             <<"fcvt_d_w", "fcvt_d_wu", "fcvt_d_l", "fcvt_d_lu">>)

DecodeRV64D(insn) ==
  CASE IsLoadFp(insn) -> FpLoad(insn, "fld")
    [] IsStoreFp(insn) -> FpStore(insn, "fsd")
    [] insn.opcode \in FusedOpcodes -> Fused64(insn)
    [] OTHER -> MoveOrOpFp64(insn)

-----------------------------------------------------------------------------
(* Compressed *)

Rd(insn) == Pick(insn, 7, 5)
Rs2(insn) == Pick(insn, 2, 5)
Funct3(insn) == Pick(insn, 13, 3)
ShortLoad(insn, name, size) == Make(name, <<Short(insn, 2), Short(insn, 7), BitsWord(insn, size)>>)

\* The arguments of a store are those of a load: its source where its base should be.
ShortStore(insn, name, size) == Make(name, <<Short(insn, 2), Short(insn, 7), BitsWord(insn, size)>>)

Quadrant0(insn, spn, third, seventh) ==
  CASE Funct3(insn) = 0 /\ Pick(insn, 5, 8) # 0 -> Make("addi", <<spn, 2, BitsAddi4spn(insn)>>)
    [] Funct3(insn) = 1 -> ShortLoad(insn, "fld", 8)
    [] Funct3(insn) = 2 -> ShortLoad(insn, "lw", 4)
    [] Funct3(insn) = 3 -> third
    [] Funct3(insn) = 5 -> ShortStore(insn, "fsd", 8)
    [] Funct3(insn) = 6 -> ShortStore(insn, "sw", 4)
    [] Funct3(insn) = 7 -> seventh
    [] OTHER -> Nullptr

DecodeRV32C_Quadrant0(insn) ==
  Quadrant0(insn, Short(insn, 2), ShortLoad(insn, "flw", 4), ShortStore(insn, "fsw", 4))
\* The destination of c.addi4spn is taken for the stack pointer.
DecodeRV64C_Quadrant0(insn) ==
  Quadrant0(insn, 2, ShortLoad(insn, "ld", 8), ShortStore(insn, "sd", 8))

\* Shifts right, and the operations of two registers; a shift by nothing is `zero'.
CompressedAlu(insn, zero, names) ==
  LET kind == Pick(insn, 10, 2)
      rd == Short(insn, 7)
      imm == SignExtend(6, BitsCI(insn))
      shift == Nth(<<"srli", "srai">>, kind)
  IN
  CASE kind < 2 -> IF imm = 0 THEN zero[shift] ELSE Make(shift, <<rd, rd, imm>>)
    [] kind = 2 -> Make("andi", <<rd, rd, imm>>)
    [] kind = 3 -> New(Nth(names, Bit(insn, 12) * 4 + Pick(insn, 5, 2)), <<rd, rd, Short(insn, 2)>>)

Quadrant1(insn, first, alu) ==
  LET rd == Rd(insn)
      imm == SignExtend(6, BitsCI(insn))
      branch(name) == Make(name, <<Short(insn, 7), 0, SignExtend(9, BitsCB(insn))>>)
  IN
  CASE Funct3(insn) = 0 -> IF rd = 0 THEN Make("nop", <<>>) ELSE Make("addi", <<rd, rd, imm>>)
    [] Funct3(insn) = 1 -> first
    [] Funct3(insn) = 2 /\ rd # 0 -> Make("addi", <<rd, 0, imm>>)
    [] Funct3(insn) = 3 /\ rd = 2 -> Make("addi", <<2, 2, SignExtend(10, BitsAddi16sp(insn))>>)
    [] Funct3(insn) = 3 /\ rd \notin {0, 2} -> Make("lui", <<rd, SignExtend(18, BitsCI(insn) * 4096)>>)
    [] Funct3(insn) = 4 -> alu
    [] Funct3(insn) = 5 -> Make("jal", <<0, SignExtend(12, BitsCJ(insn))>>)
    [] Funct3(insn) = 6 -> branch("beq")
    [] Funct3(insn) = 7 -> branch("bne")
    [] OTHER -> Nullptr

DecodeRV32C_Quadrant1(insn) ==
  Quadrant1(insn, Make("jal", <<1, SignExtend(12, BitsCJ(insn))>>),
            CompressedAlu(insn, [s \in {"srli", "srai"} |-> Make("nop", <<>>)], <<"sub", "xor", "or", "and">>))

DecodeRV64C_Quadrant1(insn) ==
  Quadrant1(insn, Make("addiw", <<Rd(insn), Rd(insn), SignExtend(6, BitsCI(insn))>>),
            CompressedAlu(insn, [s \in {"srli", "srai"} |-> Make(s, <<Short(insn, 7), Short(insn, 7), 64>>)],
                          <<"sub", "xor", "or", "and", "subw", "addw">>))

CompressedRegisters(insn) ==
  LET rd == Rd(insn)
      rs2 == Rs2(insn)
  IN
  CASE Bit(insn, 12) = 0 /\ rd # 0 /\ rs2 = 0 -> Make("jalr", <<0, rd, 0>>)
    [] Bit(insn, 12) = 0 /\ rd # 0 /\ rs2 # 0 -> Make("add", <<rd, 0, rs2>>)
    [] Bit(insn, 12) = 1 /\ rd = 0 /\ rs2 = 0 -> Make("ebreak", <<>>)
    [] Bit(insn, 12) = 1 /\ rd # 0 /\ rs2 = 0 -> Make("jalr", <<1, rd, 0>>)
    [] Bit(insn, 12) = 1 /\ rd # 0 /\ rs2 # 0 -> Make("add", <<rd, rd, rs2>>)
    [] OTHER -> Nullptr

SpLoad(insn, name, size) == Make(name, <<Rd(insn), 2, BitsLoadSp(insn, size)>>)
SpStore(insn, name, size) == Make(name, <<2, Rs2(insn), BitsStoreSp(insn, size)>>)

Quadrant2(insn, noShift, third, seventh) ==
  CASE Funct3(insn) = 0 -> IF BitsCI(insn) = 0 THEN noShift ELSE Make("slli", <<Rd(insn), Rd(insn), BitsCI(insn)>>)
    [] Funct3(insn) = 1 -> SpLoad(insn, "fld", 8)
    [] Funct3(insn) = 2 /\ Rd(insn) # 0 -> SpLoad(insn, "lw", 4)
    [] Funct3(insn) = 3 -> third
    [] Funct3(insn) = 4 -> CompressedRegisters(insn)
    [] Funct3(insn) = 5 -> SpStore(insn, "fsd", 8)
    [] Funct3(insn) = 6 -> SpStore(insn, "sw", 4)
    [] Funct3(insn) = 7 -> seventh
    [] OTHER -> Nullptr

DecodeRV32C_Quadrant2(insn) ==
  Quadrant2(insn, Make("nop", <<>>), SpLoad(insn, "flw", 4), SpStore(insn, "fsw", 4))
DecodeRV64C_Quadrant2(insn) ==
  Quadrant2(insn, Make("slli", <<Rd(insn), Rd(insn), 64>>), SpLoad(insn, "ld", 8), SpStore(insn, "sd", 8))

DecodeRV32C(insn) ==
  CASE insn % 4 = 0 -> DecodeRV32C_Quadrant0(insn)
    [] insn % 4 = 1 -> DecodeRV32C_Quadrant1(insn)
    [] insn % 4 = 2 -> DecodeRV32C_Quadrant2(insn)

DecodeRV64C(insn) ==
  CASE insn % 4 = 0 -> DecodeRV64C_Quadrant0(insn)
    [] insn % 4 = 1 -> DecodeRV64C_Quadrant1(insn)
    [] insn % 4 = 2 -> DecodeRV64C_Quadrant2(insn)

-----------------------------------------------------------------------------

\* funct2 is the format of a floating-point word, funct3 the width of one in memory.
IsFp(insn, format, width) ==
  \/ (IsLoadFp(insn) \/ IsStoreFp(insn)) /\ insn.funct3 = width
  \/ insn.opcode \in FusedOpcodes /\ Funct2(insn) = format
IsF(insn) == \/ IsFp(insn, 0, 2)
             \/ IsOpFp(insn) /\ Funct2(insn) = 0 /\ insn.funct7 # \b0100000
IsD(insn) == \/ IsFp(insn, 1, 3)
             \/ IsOpFp(insn) /\ (Funct2(insn) = 1 \/ insn.funct7 = \b0100000)

DecodeRV32(insn) ==
  CASE insn.opcode = \b0110011 /\ insn.funct7 = 1 -> DecodeRV32M(insn)
    [] insn.opcode = \b0101111 /\ insn.funct3 = 2 -> DecodeRV32A(insn)
    [] IsF(insn) -> DecodeRV32F(insn)
    [] IsD(insn) -> DecodeRV32D(insn)
    [] OTHER -> DecodeRV32I(insn)

DecodeRV64(insn) ==
  CASE insn.opcode \in {\b0110011, \b0111011} /\ insn.funct7 = 1 -> DecodeRV64M(insn)
    [] insn.opcode = \b0101111 /\ insn.funct3 \in {2, 3} -> DecodeRV64A(insn)
    [] IsF(insn) -> DecodeRV64F(insn)
    [] IsD(insn) -> DecodeRV64D(insn)
    [] OTHER -> DecodeRV64I(insn)

Decode(xlen, insn) == IF xlen = 32 THEN DecodeRV32(insn) ELSE DecodeRV64(insn)
DecodeC(xlen, insn) == IF xlen = 32 THEN DecodeRV32C(insn) ELSE DecodeRV64C(insn)
=============================================================================
