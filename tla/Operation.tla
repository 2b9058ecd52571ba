------------------------------ MODULE Operation ------------------------------
(***************************************************************************)
(* include/rafi/op and lib/op: the classes of operations the decoder of    *)
(* the trace printers makes, of op32 and of op64, with the parameters of   *)
(* their constructors, and the line each prints.                           *)
(***************************************************************************)
EXTENDS Integers, Sequences

\* The parameters of the constructors of op32 and op64.
Jump == <<"rd", "imm">>
TwoSources == <<"rs1", "rs2", "imm">>
Immediate == <<"rd", "rs1", "imm">>
Shift == <<"rd", "rs1", "shamt">>
Three == <<"rd", "rs1", "rs2">>
Two == <<"rd", "rs1">>
NoParameters == <<>>
FenceBits == <<"rd", "rs1", "fm", "pred", "succ">>
CsrRegister == <<"csr", "rd", "rs1">>
CsrImmediate == <<"csr", "rd", "uimm">>
Reserved == <<"rd", "rs1", "aq", "rl">>
Ordered == <<"rd", "rs1", "rs2", "aq", "rl">>
Fused == <<"rd", "rs1", "rs2", "rs3", "rm">>
Rounded == <<"rd", "rs1", "rs2", "rm">>
Converted == <<"rd", "rs1", "rm">>

-----------------------------------------------------------------------------
(* The classes of op32 *)

RV32I_UpperAndJump == {"lui", "auipc", "jal", "jalr"}
RV32I_Branch == {"beq", "bne", "blt", "bge", "bltu", "bgeu"}
RV32I_Load == {"lb", "lh", "lw", "lbu", "lhu"}
RV32I_Store == {"sb", "sh", "sw"}
RV32I_AluImm == {"addi", "slti", "sltiu", "xori", "ori", "andi"}
RV32I_ShiftImm == {"slli", "srli", "srai"}
RV32I_Alu == {"add", "sub", "sll", "slt", "sltu", "xor", "srl", "sra", "or", "and"}
RV32I_Fence == {"fence", "fence_i", "ecall", "ebreak"}
RV32I_Csr == {"csrrw", "csrrs", "csrrc"}
RV32I_CsrImm == {"csrrwi", "csrrsi", "csrrci"}
RV32I_Privileged == {"uret", "sret", "mret", "wfi", "sfence_vma"}
RV32M_Classes == {"mul", "mulh", "mulhsu", "mulhu", "div", "divu", "rem", "remu"}
RV32A_Amo ==
  {"amoswap_w", "amoadd_w", "amoxor_w", "amoand_w", "amoor_w", "amomin_w", "amomax_w", "amominu_w", "amomaxu_w"}
RV32A_Classes == {"lr_w", "sc_w"} \cup RV32A_Amo
RV32F_Fused == {"fmadd_s", "fmsub_s", "fnmsub_s", "fnmadd_s"}
RV32F_Arithmetic == {"fadd_s", "fsub_s", "fmul_s", "fdiv_s"}
RV32F_Sign == {"fsgnj_s", "fsgnjn_s", "fsgnjx_s", "fmin_s", "fmax_s"}
RV32F_Compare == {"feq_s", "flt_s", "fle_s"}
RV32F_Conversion == {"fcvt_w_s", "fcvt_wu_s", "fcvt_s_w", "fcvt_s_wu"}
RV32F_Classes ==
  RV32F_Fused \cup RV32F_Arithmetic \cup RV32F_Sign \cup RV32F_Compare \cup RV32F_Conversion
    \cup {"flw", "fsw", "fsqrt_s", "fclass_s", "fmv_x_w", "fmv_w_x"}
RV32D_Fused == {"fmadd_d", "fmsub_d", "fnmsub_d", "fnmadd_d"}
RV32D_Arithmetic == {"fadd_d", "fsub_d", "fmul_d", "fdiv_d"}
RV32D_Sign == {"fsgnj_d", "fsgnjn_d", "fsgnjx_d", "fmin_d", "fmax_d"}
RV32D_Compare == {"feq_d", "flt_d", "fle_d"}
RV32D_Conversion == {"fcvt_s_d", "fcvt_d_s", "fcvt_w_d", "fcvt_wu_d", "fcvt_d_w", "fcvt_d_wu"}
RV32D_Classes ==
  RV32D_Fused \cup RV32D_Arithmetic \cup RV32D_Sign \cup RV32D_Compare \cup RV32D_Conversion
    \cup {"fld", "fsd", "fsqrt_d", "fclass_d"}

Classes32 ==
  RV32I_UpperAndJump \cup RV32I_Branch \cup RV32I_Load \cup RV32I_Store \cup RV32I_AluImm \cup RV32I_ShiftImm
    \cup RV32I_Alu \cup RV32I_Fence \cup RV32I_Csr \cup RV32I_CsrImm \cup RV32I_Privileged \cup RV32M_Classes
    \cup RV32A_Classes \cup RV32F_Classes \cup RV32D_Classes \cup {"nop"}

-----------------------------------------------------------------------------
(* op64: the classes of op32 and those of 64 bits *)

RV64I_UpperAndJump == RV32I_UpperAndJump
RV64I_Branch == RV32I_Branch
RV64I_Load == RV32I_Load \cup {"ld", "lwu"}
RV64I_Store == RV32I_Store \cup {"sd"}
RV64I_AluImm == RV32I_AluImm \cup {"addiw"}
RV64I_ShiftImm == RV32I_ShiftImm \cup {"slliw", "srliw", "sraiw"}
RV64I_Add == {"add", "addw", "sub", "subw", "sll", "sllw", "slt", "sltu"}
RV64I_Logic == {"xor", "srl", "srlw", "sra", "sraw", "or", "and"}
RV64I_Fence == RV32I_Fence
RV64I_Csr == RV32I_Csr
RV64I_CsrImm == RV32I_CsrImm
RV64I_Privileged == RV32I_Privileged
RV64M_Classes == RV32M_Classes \cup {"mulw", "divw", "divuw", "remw", "remuw"}
RV64A_Reservation == {"lr_w", "lr_d", "sc_w", "sc_d"}
RV64A_Amo ==
  RV32A_Amo \cup
  {"amoswap_d", "amoadd_d", "amoxor_d", "amoand_d", "amoor_d", "amomin_d", "amomax_d", "amominu_d", "amomaxu_d"}
RV64F_Conversion == RV32F_Conversion \cup {"fcvt_l_s", "fcvt_lu_s", "fcvt_s_l", "fcvt_s_lu"}
RV64F_Classes == RV32F_Classes \cup RV64F_Conversion
RV64D_Conversion == RV32D_Conversion \cup {"fcvt_l_d", "fcvt_lu_d", "fcvt_d_l", "fcvt_d_lu"}
RV64D_Classes == RV32D_Classes \cup RV64D_Conversion \cup {"fmv_x_d", "fmv_d_x"}

Classes64 ==
  RV64I_UpperAndJump \cup RV64I_Branch \cup RV64I_Load \cup RV64I_Store \cup RV64I_AluImm \cup RV64I_ShiftImm
    \cup RV64I_Add \cup RV64I_Logic \cup RV64I_Fence \cup RV64I_Csr \cup RV64I_CsrImm \cup RV64I_Privileged
    \cup RV64M_Classes \cup RV64A_Reservation \cup RV64A_Amo \cup RV64F_Classes \cup RV64D_Classes \cup {"nop"}

\* Single and double precision differ in their names.
FusedNames == RV32F_Fused \cup RV32D_Fused
ArithmeticNames == RV32F_Arithmetic \cup RV32D_Arithmetic
SignNames == RV32F_Sign \cup RV32D_Sign
CompareNames == RV32F_Compare \cup RV32D_Compare
MoveNames == {"fmv_x_w", "fmv_w_x", "fmv_x_d", "fmv_d_x"}

ConstructorOf(name) ==
  CASE name \in RV64I_UpperAndJump \ {"jalr"} -> Jump
    [] name \in RV64I_Branch \cup RV64I_Store \cup {"fsw", "fsd"} -> TwoSources
    [] name \in RV64I_Load \cup RV64I_AluImm \cup {"jalr", "fence_i", "flw", "fld"} -> Immediate
    [] name \in RV64I_ShiftImm -> Shift
    [] name \in RV64I_Add \cup RV64I_Logic \cup RV64M_Classes \cup SignNames \cup CompareNames -> Three
    [] name \in MoveNames \cup {"fclass_s", "fclass_d"} -> Two
    [] name \in (RV64I_Privileged \ {"sfence_vma"}) \cup {"ecall", "ebreak", "nop"} -> NoParameters
    [] name = "fence" -> FenceBits
    [] name = "sfence_vma" -> <<"rs1", "rs2">>
    [] name \in RV64I_Csr -> CsrRegister
    [] name \in RV64I_CsrImm -> CsrImmediate
    [] name \in {"lr_w", "lr_d"} -> Reserved
    [] name \in {"sc_w", "sc_d"} \cup RV64A_Amo -> Ordered
    [] name \in FusedNames -> Fused
    [] name \in ArithmeticNames -> Rounded
    [] name \in RV64F_Conversion \cup RV64D_Conversion \cup {"fsqrt_s", "fsqrt_d"} -> Converted

Parameters32 == [name \in Classes32 |-> ConstructorOf(name)]
Parameters64 == [name \in Classes64 |-> ConstructorOf(name)]
Parameters(xlen) == IF xlen = 32 THEN Parameters32 ELSE Parameters64

\* What the constructor keeps: a member for each parameter.
Members(parameters, args) ==
  [p \in {parameters[i] : i \in DOMAIN parameters} |-> args[CHOOSE i \in DOMAIN parameters : parameters[i] = p]]

-----------------------------------------------------------------------------
(* A line: the mnemonic, and the registers and numbers after it. *)

X(n) == [kind |-> "x", n |-> n]
F(n) == [kind |-> "f", n |-> n]
Imm(n) == [kind |-> "imm", n |-> n]
CsrAt(n) == [kind |-> "csr", n |-> n]
Line(mnemonic, shown) == [mnemonic |-> mnemonic, shown |-> shown]

\* GetRoundingModeName: modes 5 to 7 have no name.
RoundingMode(rm) == IF rm < 5 THEN <<[kind |-> "rm", n |-> rm]>> ELSE <<>>

UpperAndJumpLine(name, m) ==
  CASE name \in {"lui", "auipc"} -> Line(name, <<X(m.rd), Imm(m.imm)>>)
    [] name = "jal" -> IF m.rd = 0 THEN Line("j", <<Imm(m.imm)>>) ELSE Line("jal", <<X(m.rd), Imm(m.imm)>>)
    [] name = "jalr" -> IF m.rd = 0 THEN Line("jr", <<X(m.rs1), Imm(m.imm)>>)
                        ELSE Line("jalr", <<X(m.rd), X(m.rs1), Imm(m.imm)>>)

\* beq shows nothing; the others leave a zero register out, whichever of the two it is.
BranchLine(name, m) ==
  LET zero == [bne |-> "bnez", blt |-> "bltz", bge |-> "bgez"] IN
  CASE name = "beq" -> Line("beq", <<>>)
    [] name \in DOMAIN zero /\ m.rs1 = 0 -> Line(zero[name], <<X(m.rs2), Imm(m.imm)>>)
    [] name \in DOMAIN zero /\ m.rs2 = 0 -> Line(zero[name], <<X(m.rs1), Imm(m.imm)>>)
    [] OTHER -> Line(name, <<X(m.rs1), X(m.rs2), Imm(m.imm)>>)

LoadLine(name, m) == Line(name, <<X(m.rd), Imm(m.imm), X(m.rs1)>>)
StoreLine(name, m) == Line(name, <<X(m.rs2), Imm(m.imm), X(m.rs1)>>)
AluImmLine(name, m) == Line(name, <<X(m.rd), X(m.rs1), Imm(m.imm)>>)
ShiftImmLine(name, m) == Line(name, <<X(m.rd), X(m.rs1), Imm(m.shamt)>>)
AddLine(name, m) == Line(name, <<X(m.rd), X(m.rs1), X(m.rs2)>>)
LogicLine(name, m) == AddLine(name, m)

\* csrrs with no destination prints the mnemonic of the read it is not.
CsrLine(name, m) ==
  CASE name = "csrrs" /\ m.rs1 = 0 -> Line("csrr", <<X(m.rd), CsrAt(m.csr)>>)
    [] m.rd = 0 /\ (name # "csrrs" \/ m.rs1 # 0) ->
         Line([csrrw |-> "csrw", csrrs |-> "csrr", csrrc |-> "csrc"][name], <<CsrAt(m.csr), X(m.rs1)>>)
    [] OTHER -> Line(name, <<X(m.rd), CsrAt(m.csr), X(m.rs1)>>)
CsrImmLine(name, m) ==
  IF m.rd = 0 THEN Line([csrrwi |-> "csrwi", csrrsi |-> "csrsi", csrrci |-> "csrci"][name], <<CsrAt(m.csr), Imm(m.uimm)>>)
  ELSE Line(name, <<X(m.rd), CsrAt(m.csr), Imm(m.uimm)>>)

FenceLine(name) == Line(name, <<>>)
PrivilegedLine(name, m) == IF name = "sfence_vma" THEN Line(name, <<X(m.rs1), X(m.rs2)>>) ELSE Line(name, <<>>)

MulDivLine(name, m) == AddLine(name, m)

\* aq and rl are not shown.
ReservationLine(name, m) ==
  Line(name, IF name \in {"lr_w", "lr_d"} THEN <<X(m.rd), X(m.rs1)>> ELSE <<X(m.rd), X(m.rs2), X(m.rs1)>>)
AmoLine(name, m) == Line(name, <<X(m.rd), X(m.rs2), X(m.rs1)>>)

-----------------------------------------------------------------------------
(* Floating point: which register file a name is from is written out in each class. *)

FloatMemoryLine(name, m) ==
  Line(name, <<F(IF name \in {"flw", "fld"} THEN m.rd ELSE m.rs2), Imm(m.imm), X(m.rs1)>>)
FusedLine(name, m) == Line(name, <<F(m.rd), F(m.rs1), F(m.rs2), F(m.rs3)>> \o RoundingMode(m.rm))
ArithmeticLine(name, m) == Line(name, <<F(m.rd), F(m.rs1), F(m.rs2)>> \o RoundingMode(m.rm))
SqrtLine(name, m) == Line(name, <<F(m.rd), F(m.rs1)>> \o RoundingMode(m.rm))
SignLine(name, m) == Line(name, <<F(m.rd), F(m.rs1), F(m.rs2)>>)

\* Mutant: the result of a comparison is named as a floating-point register.
MutCompareLine(name, m) == Line(name, <<F(m.rd), F(m.rs1), F(m.rs2)>>)

CompareLine(name, m) == Line(name, <<X(m.rd), F(m.rs1), F(m.rs2)>>)
ClassLine(name, m) == Line(name, <<X(m.rd), F(m.rs1)>>)
MoveLine(name, m) ==
  Line(name, IF name \in {"fmv_x_w", "fmv_x_d"} THEN <<X(m.rd), F(m.rs1)>> ELSE <<F(m.rd), X(m.rs1)>>)

FloatToInt == {"fcvt_w_s", "fcvt_wu_s", "fcvt_l_s", "fcvt_lu_s", "fcvt_w_d", "fcvt_wu_d", "fcvt_l_d", "fcvt_lu_d"}
FloatToFloat == {"fcvt_s_d", "fcvt_d_s"}

ToIntLine(name, m) == Line(name, <<X(m.rd), F(m.rs1)>> \o RoundingMode(m.rm))
ToFloatLine(name, m) == Line(name, <<F(m.rd), F(m.rs1)>> \o RoundingMode(m.rm))
\* With a rounding mode fcvt.d.lu goes by the name of fcvt.d.wu.
FromIntLine(name, m) ==
  Line(IF name = "fcvt_d_lu" /\ m.rm < 5 THEN "fcvt_d_wu" ELSE name,
       <<F(m.rd), X(m.rs1)>> \o RoundingMode(m.rm))

-----------------------------------------------------------------------------

\* The rows of op64, the classes of op32 among them.
FloatLine(name, m) ==
  CASE name \in {"flw", "fld", "fsw", "fsd"} -> FloatMemoryLine(name, m)
    [] name \in FusedNames -> FusedLine(name, m)
    [] name \in ArithmeticNames -> ArithmeticLine(name, m)
    [] name \in {"fsqrt_s", "fsqrt_d"} -> SqrtLine(name, m)
    [] name \in CompareNames -> CompareLine(name, m)
    [] name \in SignNames -> SignLine(name, m)
    [] name \in {"fclass_s", "fclass_d"} -> ClassLine(name, m)
    [] name \in MoveNames -> MoveLine(name, m)
    [] name \in FloatToInt -> ToIntLine(name, m)
    [] name \in FloatToFloat -> ToFloatLine(name, m)
    [] OTHER -> FromIntLine(name, m)

TextOf(xlen, op) ==
  LET name == op.name
      m == Members(Parameters(xlen)[name], op.args)
  IN
  CASE name \in RV64I_UpperAndJump -> UpperAndJumpLine(name, m)
    [] name \in RV64I_Branch -> BranchLine(name, m)
    [] name \in RV64I_Load -> LoadLine(name, m)
    [] name \in RV64I_Store -> StoreLine(name, m)
    [] name \in RV64I_AluImm -> AluImmLine(name, m)
    [] name \in RV64I_ShiftImm -> ShiftImmLine(name, m)
    [] name \in RV64I_Add -> AddLine(name, m)
    [] name \in RV64I_Logic -> LogicLine(name, m)
    [] name \in RV64I_Csr -> CsrLine(name, m)
    [] name \in RV64I_CsrImm -> CsrImmLine(name, m)
    [] name \in RV64I_Fence \cup {"nop"} -> FenceLine(name)
    [] name \in RV64I_Privileged -> PrivilegedLine(name, m)
    [] name \in RV64M_Classes -> MulDivLine(name, m)
    [] name \in RV64A_Reservation -> ReservationLine(name, m)
    [] name \in RV64A_Amo -> AmoLine(name, m)
    [] OTHER -> FloatLine(name, m)
=============================================================================
