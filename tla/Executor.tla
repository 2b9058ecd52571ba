------------------------------- MODULE Executor -------------------------------
(***************************************************************************)
(* cpu/Executor.cpp: what a decoded instruction does, as the checks made   *)
(* before it and its effect.  Values are symbolic: the function that       *)
(* computes them and the registers and numbers it is given.                *)
(***************************************************************************)
EXTENDS Integers, Sequences

\* Register 0 reads as the number 0, and a write to it is lost.
Imm(n) == [kind |-> "imm", n |-> n]
X(n) == IF n = 0 THEN Imm(0) ELSE [kind |-> "x", n |-> n]
F(n) == [kind |-> "f", n |-> n]
CsrAt(n) == [kind |-> "csr", n |-> n]
Pc == [kind |-> "pc", n |-> 0]
ReadStackPointer == X(2)

Value(f, args) == [f |-> f, args |-> args]
Copy(a) == Value("copy", <<a>>)
Add(a, b) == IF a = Imm(0) THEN Copy(b) ELSE IF b = Imm(0) THEN Copy(a) ELSE Value("add", <<a, b>>)
Loaded(size, extension) == Value(extension, <<Imm(size)>>)
Always == Value("always", <<>>)

\* cancel says when a reservation is lost: never, always, jumping, or jumping below the pc.
Idle == [handled |-> TRUE, access |-> {}, writes |-> {}, jump |-> {}, cancel |-> "never",
         reserves |-> {}, dirty |-> FALSE, flags |-> FALSE, returns |-> "no"]
Error == [Idle EXCEPT !.handled = FALSE]

Target(base, offset, when) == [base |-> base, offset |-> offset, when |-> when]
Access(kind, size, base, offset, data) ==
  [kind |-> kind, size |-> size, base |-> base, offset |-> offset, data |-> data]

WriteX(rd, value) == [Idle EXCEPT !.writes = {[to |-> X(rd), value |-> value]}]
WriteF(rd, value) == [Idle EXCEPT !.writes = {[to |-> F(rd), value |-> value]}]
Cancelled(effect) == [effect EXCEPT !.cancel = "always"]
NotifyFpDirty(effect) == [effect EXCEPT !.dirty = TRUE]
UpdateFpCsr(effect) == [effect EXCEPT !.flags = TRUE]
Loading(effect, size, base, offset) ==
  [effect EXCEPT !.access = {Access("Load", size, base, offset, Value("none", <<>>))}]
Storing(size, base, offset, data) == [Idle EXCEPT !.access = {Access("Store", size, base, offset, Copy(data))}]
WriteLinkRegister(effect) == [effect EXCEPT !.writes = {[to |-> X(1), value |-> Value("link", <<Imm(2)>>)]}]

-----------------------------------------------------------------------------
(* PreCheckTrap: what may still trap before anything has happened.           *)
(* An address is checked with its base, its offset and the kind of access.   *)

Check(kind, base, offset) == [kind |-> kind, base |-> base, offset |-> offset]
NoCheck == [fp |-> FALSE, memory |-> {}, csr |-> {}, priv |-> "any"]
Checks(memory) == [NoCheck EXCEPT !.memory = memory]

Loads == {"lb", "lh", "lw", "lbu", "lhu", "lwu", "ld", "flw", "fld"}

\* Mutant: the doubleword store is left out of the list of checks.
MutStores == {"sb", "sh", "sw", "fsw", "fsd"}

Stores == {"sb", "sh", "sw", "sd", "fsw", "fsd"}
LoadReserved == {"lr_w", "lr_d"}
StoreConditional == {"sc_w", "sc_d"}
Csrs == {"csrrw", "csrrs", "csrrc"}
CsrImms == {"csrrwi", "csrrsi", "csrrci"}

PreCheckTrapRV32_Memory(name, o) ==
  CASE name \in Loads -> {Check("Load", X(o.rs1), o.imm)}
    [] name \in LoadReserved -> {Check("Load", X(o.rs1), 0)}
    [] name \in Stores -> {Check("Store", X(o.rs1), o.imm)}
    [] name \in StoreConditional -> {Check("Store", X(o.rs1), 0)}
    [] OTHER -> {Check(kind, X(o.rs1), 0) : kind \in {"Load", "Store"}}
PreCheckTrapRV64_Memory(name, o) ==
  CASE name \in Loads -> {Check("Load", X(o.rs1), o.imm)}
    [] name \in LoadReserved -> {Check("Load", X(o.rs1), 0)}
    [] name \in Stores -> {Check("Store", X(o.rs1), o.imm)}
    [] name \in StoreConditional -> {Check("Store", X(o.rs1), 0)}
    [] OTHER -> {Check(kind, X(o.rs1), 0) : kind \in {"Load", "Store"}}

\* Only the register number says whether there is something to write.
PreCheckTrap_Csr(name, o) == {[csr |-> o.csr, write |-> (name = "csrrw" \/ o.rs1 # 0)]}
PreCheckTrap_CsrImm(name, o) == {[csr |-> o.csr, write |-> (name = "csrrwi" \/ o.zimm # 0)]}

PreCheckTrapRV32C_Memory(name, o) ==
  CASE name \in {"c_fld", "c_flw", "c_lw"} -> Check("Load", X(o.rs1), o.imm)
    [] name \in {"c_fldsp", "c_flwsp", "c_lwsp"} -> Check("Load", ReadStackPointer, o.imm)
    [] name \in {"c_fsd", "c_fsw", "c_sw"} -> Check("Store", X(o.rs1), o.imm)
    [] name \in {"c_fsdsp", "c_fswsp", "c_swsp"} -> Check("Store", ReadStackPointer, o.imm)
PreCheckTrapRV64C_Memory(name, o) ==
  CASE name \in {"c_fld", "c_ld", "c_lw"} -> Check("Load", X(o.rs1), o.imm)
    [] name \in {"c_fldsp", "c_ldsp", "c_lwsp"} -> Check("Load", ReadStackPointer, o.imm)
    [] name \in {"c_fsd", "c_sd", "c_sw"} -> Check("Store", X(o.rs1), o.imm)
    [] name \in {"c_fsdsp", "c_sdsp", "c_swsp"} -> Check("Store", ReadStackPointer, o.imm)

PreCheckTrapRV32C(op) ==
  IF op.name \in {"c_fld", "c_fldsp", "c_flw", "c_flwsp", "c_fsd", "c_fsdsp", "c_fsw", "c_fswsp",
                  "c_lw", "c_lwsp", "c_sw", "c_swsp"}
  THEN Checks({PreCheckTrapRV32C_Memory(op.name, op.operand)}) ELSE NoCheck
PreCheckTrapRV64C(op) ==
  IF op.name \in {"c_fld", "c_fldsp", "c_fsd", "c_fsdsp", "c_ld", "c_ldsp", "c_lw", "c_lwsp",
                  "c_sd", "c_sdsp", "c_sw", "c_swsp"}
  THEN Checks({PreCheckTrapRV64C_Memory(op.name, op.operand)}) ELSE NoCheck

\* The compressed instructions leave before the floating point unit is looked at.
PreCheckTrap(xlen, op) ==
  LET memory == IF xlen = 32 THEN PreCheckTrapRV32_Memory(op.name, op.operand)
                             ELSE PreCheckTrapRV64_Memory(op.name, op.operand)
      checked == IF op.name \in Loads \cup Stores \/ op.class = "A" THEN Checks(memory) ELSE NoCheck
  IN
  CASE op.class = "C" -> IF xlen = 32 THEN PreCheckTrapRV32C(op) ELSE PreCheckTrapRV64C(op)
    [] op.class \in {"F", "D"} -> [checked EXCEPT !.fp = TRUE]
    [] op.name \in Csrs -> [checked EXCEPT !.csr = PreCheckTrap_Csr(op.name, op.operand)]
    [] op.name \in CsrImms -> [checked EXCEPT !.csr = PreCheckTrap_CsrImm(op.name, op.operand)]
    [] op.name \in {"wfi", "sfence_vma", "mret", "sret", "uret"} -> [checked EXCEPT !.priv = op.name]
    [] OTHER -> checked

-----------------------------------------------------------------------------
(* RV32I *)

Tests == [beq |-> "eq", bne |-> "ne", blt |-> "lt", bge |-> "ge", bltu |-> "ltu", bgeu |-> "geu"]
LoadSizes == [lb |-> 1, lbu |-> 1, lh |-> 2, lhu |-> 2, lw |-> 4, lwu |-> 4, ld |-> 8]
StoreSizes == [sb |-> 1, sh |-> 2, sw |-> 4, sd |-> 8]
Extension(name) == IF name \in {"lbu", "lhu", "lwu"} THEN "unsigned" ELSE "signed"

RV32I_UpperOrJump(name, o) ==
  CASE name = "lui" -> WriteX(o.rd, Copy(Imm(o.imm)))
    [] name = "auipc" -> WriteX(o.rd, Value("add", <<Pc, Imm(o.imm)>>))
    [] name = "jal" -> [WriteX(o.rd, Value("link", <<Imm(4)>>)) EXCEPT !.jump = {Target(Pc, o.imm, Always)}]
    [] name = "jalr" -> [WriteX(o.rd, Value("link", <<Imm(4)>>)) EXCEPT !.jump = {Target(X(o.rs1), o.imm, Always)}]

RV32I_Branch(name, o) ==
  [Idle EXCEPT !.jump = {Target(Pc, o.imm, Value(Tests[name], <<X(o.rs1), X(o.rs2)>>))},
               !.cancel = IF o.imm < 0 THEN "jumping" ELSE "never"]
RV32I_Load(name, o) ==
  Cancelled(Loading(WriteX(o.rd, Loaded(LoadSizes[name], Extension(name))), LoadSizes[name], X(o.rs1), o.imm))
RV32I_Store(name, o) == Cancelled(Storing(StoreSizes[name], X(o.rs1), o.imm, X(o.rs2)))

RV32I_Alu(name, o) ==
  WriteX(o.rd, IF name = "add" THEN Add(X(o.rs1), X(o.rs2)) ELSE Value(name, <<X(o.rs1), X(o.rs2)>>))
RV32I_AluImm(name, o) ==
  LET f == [slti |-> "slt", sltiu |-> "sltu", xori |-> "xor", ori |-> "or", andi |-> "and"] IN
  WriteX(o.rd, IF name = "addi" THEN Add(X(o.rs1), Imm(o.imm)) ELSE Value(f[name], <<X(o.rs1), Imm(o.imm)>>))

\* The whole register is the amount.
RV32I_Shift(name, o) == WriteX(o.rd, Value(name, <<X(o.rs1), X(o.rs2)>>))
RV32I_ShiftImm(name, o) ==
  WriteX(o.rd, Value([slli |-> "sll", srli |-> "srl", srai |-> "sra"][name], <<X(o.rs1), Imm(o.shamt)>>))

Priv(name) ==
  Cancelled([Idle EXCEPT !.returns = IF name \in {"mret", "sret", "uret"} THEN name ELSE "no"])
RV32I_PrivOrFence(name) == Priv(name)

CsrValue(name, old, source) ==
  CASE name \in {"csrrw", "csrrwi"} -> Copy(source)
    [] name \in {"csrrs", "csrrsi"} -> Value("or", <<old, source>>)
    [] name \in {"csrrc", "csrrci"} -> Value("andnot", <<old, source>>)
\* The register is written back whatever there is to write.
Csr(name, o, source) ==
  [Idle EXCEPT !.writes = {[to |-> CsrAt(o.csr), value |-> CsrValue(name, CsrAt(o.csr), source)]}
                          \cup WriteX(o.rd, Copy(CsrAt(o.csr))).writes]
RV32I_Csr(name, o) == Csr(name, o, X(o.rs1))
RV32I_CsrImm(name, o) == Csr(name, o, Imm(o.zimm))

ProcessRV32I(name, o) ==
  CASE name \in {"lui", "auipc", "jal", "jalr"} -> RV32I_UpperOrJump(name, o)
    [] name \in {"beq", "bne", "blt", "bge", "bltu", "bgeu"} -> RV32I_Branch(name, o)
    [] name \in {"lb", "lh", "lw", "lbu", "lhu"} -> RV32I_Load(name, o)
    [] name \in {"sb", "sh", "sw"} -> RV32I_Store(name, o)
    [] name \in {"addi", "slti", "sltiu", "xori", "ori", "andi"} -> RV32I_AluImm(name, o)
    [] name \in {"sll", "srl", "sra"} -> RV32I_Shift(name, o)
    [] name \in {"slli", "srli", "srai"} -> RV32I_ShiftImm(name, o)
    [] name \in {"add", "sub", "slt", "sltu", "xor", "or", "and"} -> RV32I_Alu(name, o)
    [] name \in {"ecall", "ebreak", "mret", "sret", "uret", "wfi", "fence", "fence_i", "sfence_vma"} ->
         RV32I_PrivOrFence(name)
    [] name \in Csrs -> RV32I_Csr(name, o)
    [] name \in CsrImms -> RV32I_CsrImm(name, o)
    [] OTHER -> Error

-----------------------------------------------------------------------------
(* RV64I: only the branches and the CSR, privileged and fence instructions touch a reservation. *)

RV64I_UpperOrJump(name, o) ==
  CASE name = "lui" -> WriteX(o.rd, Copy(Imm(o.imm)))
    [] name = "auipc" -> WriteX(o.rd, Value("add", <<Pc, Imm(o.imm)>>))
    [] name = "jal" -> [WriteX(o.rd, Value("link", <<Imm(4)>>)) EXCEPT !.jump = {Target(Pc, o.imm, Always)}]
    [] name = "jalr" -> [WriteX(o.rd, Value("link", <<Imm(4)>>)) EXCEPT !.jump = {Target(X(o.rs1), o.imm, Always)}]
RV64I_Branch(name, o) ==
  [Idle EXCEPT !.jump = {Target(Pc, o.imm, Value(Tests[name], <<X(o.rs1), X(o.rs2)>>))},
               !.cancel = IF o.imm < 0 THEN "jumping" ELSE "never"]
RV64I_Load(name, o) ==
  Loading(WriteX(o.rd, Loaded(LoadSizes[name], Extension(name))), LoadSizes[name], X(o.rs1), o.imm)
RV64I_Store(name, o) == Storing(StoreSizes[name], X(o.rs1), o.imm, X(o.rs2))

\* addw and subw work on the low words.
RV64I_Alu(name, o) ==
  WriteX(o.rd, IF name = "add" THEN Add(X(o.rs1), X(o.rs2)) ELSE Value(name, <<X(o.rs1), X(o.rs2)>>))
RV64I_AluImm(name, o) ==
  LET f == [addiw |-> "addw", slti |-> "slt", sltiu |-> "sltu", xori |-> "xor", ori |-> "or", andi |-> "and"] IN
  WriteX(o.rd, IF name = "addi" THEN Add(X(o.rs1), Imm(o.imm)) ELSE Value(f[name], <<X(o.rs1), Imm(o.imm)>>))

\* Six bits of the register are the amount, of the shifts of words too.
RV64I_Shift(name, o) ==
  WriteX(o.rd, Value(name, <<X(o.rs1), X(o.rs2), Imm(63)>>))
RV64I_ShiftImm(name, o) ==
  LET f == [slli |-> "sll", slliw |-> "sllw", srli |-> "srl", srliw |-> "srlw", srai |-> "sra", sraiw |-> "sraw"] IN
  WriteX(o.rd, Value(f[name], <<X(o.rs1), Imm(o.shamt)>>))
RV64I_PrivOrFence(name) == Priv(name)
RV64I_Csr(name, o) == Cancelled(Csr(name, o, X(o.rs1)))
RV64I_CsrImm(name, o) == Cancelled(Csr(name, o, Imm(o.zimm)))

ProcessRV64I(name, o) ==
  CASE name \in {"lui", "auipc", "jal", "jalr"} -> RV64I_UpperOrJump(name, o)
    [] name \in {"beq", "bne", "blt", "bge", "bltu", "bgeu"} -> RV64I_Branch(name, o)
    [] name \in {"lb", "lh", "lw", "ld", "lbu", "lhu", "lwu"} -> RV64I_Load(name, o)
    [] name \in {"sb", "sh", "sw", "sd"} -> RV64I_Store(name, o)
    [] name \in {"addi", "addiw", "slti", "sltiu", "xori", "ori", "andi"} -> RV64I_AluImm(name, o)
    [] name \in {"sll", "sllw", "srl", "srlw", "sra", "sraw"} -> RV64I_Shift(name, o)
    [] name \in {"slli", "slliw", "srli", "srliw", "srai", "sraiw"} -> RV64I_ShiftImm(name, o)
    [] name \in {"add", "addw", "sub", "subw", "slt", "sltu", "xor", "or", "and"} -> RV64I_Alu(name, o)
    [] name \in {"ecall", "ebreak", "mret", "sret", "uret", "wfi", "fence", "fence_i", "sfence_vma"} ->
         RV64I_PrivOrFence(name)
    [] name \in Csrs -> RV64I_Csr(name, o)
    [] name \in CsrImms -> RV64I_CsrImm(name, o)
    [] OTHER -> Error

-----------------------------------------------------------------------------
(* Multiplication and division, atomic operations *)

MulDivs32 == {"mul", "mulh", "mulhsu", "mulhu", "div", "divu", "rem", "remu"}

\* Mutant: the instructions on words are not in the list of RV64M.
MutMulDivs64 == MulDivs32

MulDivs64 == MulDivs32 \cup {"mulw", "divw", "divuw", "remw", "remuw"}
ProcessRV32M(name, o) ==
  IF name \in MulDivs32 THEN Cancelled(WriteX(o.rd, Value(name, <<X(o.rs1), X(o.rs2)>>))) ELSE Error
ProcessRV64M(name, o) ==
  IF name \in MulDivs64 THEN Cancelled(WriteX(o.rd, Value(name, <<X(o.rs1), X(o.rs2)>>))) ELSE Error

AmoFunctions32 ==
  [amoswap_w |-> "copy", amoadd_w |-> "add", amoxor_w |-> "xor", amoand_w |-> "and", amoor_w |-> "or",
   amomax_w |-> "max", amomin_w |-> "min", amomaxu_w |-> "maxu", amominu_w |-> "minu"]
AmoFunctions64 ==
  [amoswap_d |-> "copy", amoadd_d |-> "add", amoxor_d |-> "xor", amoand_d |-> "and", amoor_d |-> "or",
   amomax_d |-> "max", amomin_d |-> "min", amomaxu_d |-> "maxu", amominu_d |-> "minu"]
\* The word read goes to rd and, combined with rs2, back to where it was.
Atomic(o, size, function) ==
  Cancelled([WriteX(o.rd, Loaded(size, "signed")) EXCEPT
               !.access = {Access("Load", size, X(o.rs1), 0, Value("none", <<>>)),
                           Access("Store", size, X(o.rs1), 0, Value(function, <<X(o.rs2)>>))}])
LoadAndReserve(o, size) ==
  [Loading(WriteX(o.rd, Loaded(size, "signed")), size, X(o.rs1), 0) EXCEPT !.reserves = {X(o.rs1)}]
\* The store happens when the address is the reserved one, and 0 or 1 tells.
StoreIfReserved(o, size) ==
  Cancelled([Storing(size, X(o.rs1), 0, X(o.rs2)) EXCEPT
               !.writes = WriteX(o.rd, Value("failed", <<X(o.rs1)>>)).writes])

RV32A_Atomic(name, o) == Atomic(o, 4, AmoFunctions32[name])
RV32A_Load(o) == LoadAndReserve(o, 4)
RV32A_Store(o) == StoreIfReserved(o, 4)
RV64A_Atomic32(name, o) == Atomic(o, 4, AmoFunctions32[name])
RV64A_Atomic64(name, o) == Atomic(o, 8, AmoFunctions64[name])
RV64A_Load32(o) == LoadAndReserve(o, 4)
RV64A_Load64(o) == LoadAndReserve(o, 8)

RV64A_Store32(o) == StoreIfReserved(o, 4)
RV64A_Store64(o) == StoreIfReserved(o, 8)

ProcessRV32A(name, o) ==
  CASE name = "lr_w" -> RV32A_Load(o)
    [] name = "sc_w" -> RV32A_Store(o)
    [] name \in DOMAIN AmoFunctions32 -> RV32A_Atomic(name, o)
    [] OTHER -> Error
ProcessRV64A(name, o) ==
  CASE name = "lr_w" -> RV64A_Load32(o)
    [] name = "lr_d" -> RV64A_Load64(o)
    [] name = "sc_w" -> RV64A_Store32(o)
    [] name = "sc_d" -> RV64A_Store64(o)
    [] name \in DOMAIN AmoFunctions32 -> RV64A_Atomic32(name, o)
    [] name \in DOMAIN AmoFunctions64 -> RV64A_Atomic64(name, o)
    [] OTHER -> Error

-----------------------------------------------------------------------------
(* Floating point.  rm is the rounding mode of the instruction. *)

Rm(o) == [kind |-> "rm", n |-> o.funct3]

RVF_MulAdd(name, o) ==
  UpdateFpCsr(NotifyFpDirty(WriteF(o.rd, Value(name, <<F(o.rs1), F(o.rs2), F(o.rs3), Rm(o)>>))))
\* The source is an integer, one float or two.
RVF_Compute(name, o) ==
  LET sources == CASE name \in {"fcvt_s_w", "fcvt_s_wu", "fcvt_s_l", "fcvt_s_lu"} -> <<X(o.rs1)>>
                   [] name = "fsqrt_s" -> <<F(o.rs1)>>
                   [] OTHER -> <<F(o.rs1), F(o.rs2)>>
  IN  UpdateFpCsr(NotifyFpDirty(WriteF(o.rd, Value(name, sources \o <<Rm(o)>>))))
RVF_Compare(name, o) == UpdateFpCsr(WriteX(o.rd, Value(name, <<F(o.rs1), F(o.rs2)>>)))
RVF_ClassOrMove(name, o) ==
  IF name = "fmv_w_x" THEN NotifyFpDirty(WriteF(o.rd, Copy(X(o.rs1)))) ELSE WriteX(o.rd, Value(name, <<F(o.rs1)>>))
RVF_ConvertToInt(name, o) == UpdateFpCsr(WriteX(o.rd, Value(name, <<F(o.rs1), Rm(o)>>)))
RVF_ConvertSign(name, o) == UpdateFpCsr(NotifyFpDirty(WriteF(o.rd, Value(name, <<F(o.rs1), F(o.rs2)>>))))
RV32F_Load(o) == NotifyFpDirty(Loading(WriteF(o.rd, Loaded(4, "float")), 4, X(o.rs1), o.imm))
RV32F_Store(o) == Storing(4, X(o.rs1), o.imm, F(o.rs2))
RV64F_Load(o) == NotifyFpDirty(Loading(WriteF(o.rd, Loaded(4, "float")), 4, X(o.rs1), o.imm))
RV64F_Store(o) == Storing(4, X(o.rs1), o.imm, F(o.rs2))

ProcessRVF(xlen, name, o) ==
  Cancelled(
    CASE name = "flw" -> IF xlen = 32 THEN RV32F_Load(o) ELSE RV64F_Load(o)
      [] name = "fsw" -> IF xlen = 32 THEN RV32F_Store(o) ELSE RV64F_Store(o)
      [] name \in {"fmadd_s", "fmsub_s", "fnmadd_s", "fnmsub_s"} -> RVF_MulAdd(name, o)
      [] name \in {"fadd_s", "fsub_s", "fmul_s", "fdiv_s", "fsqrt_s", "fmin_s", "fmax_s",
                   "fcvt_s_w", "fcvt_s_wu", "fcvt_s_l", "fcvt_s_lu"} -> RVF_Compute(name, o)
      [] name \in {"feq_s", "flt_s", "fle_s"} -> RVF_Compare(name, o)
      [] name \in {"fclass_s", "fmv_x_w", "fmv_w_x"} -> RVF_ClassOrMove(name, o)
      [] name \in {"fcvt_w_s", "fcvt_wu_s", "fcvt_l_s", "fcvt_lu_s"} -> RVF_ConvertToInt(name, o)
      [] name \in {"fsgnj_s", "fsgnjn_s", "fsgnjx_s"} -> RVF_ConvertSign(name, o)
      [] OTHER -> Error)

RVD_MulAdd(name, o) ==
  UpdateFpCsr(NotifyFpDirty(WriteF(o.rd, Value(name, <<F(o.rs1), F(o.rs2), F(o.rs3), Rm(o)>>))))
RVD_Compute(name, o) ==
  LET sources == CASE name \in {"fcvt_d_w", "fcvt_d_wu", "fcvt_d_l", "fcvt_d_lu"} -> <<X(o.rs1)>>
                   [] name = "fsqrt_d" -> <<F(o.rs1)>>
                   [] OTHER -> <<F(o.rs1), F(o.rs2)>>
  IN  UpdateFpCsr(NotifyFpDirty(WriteF(o.rd, Value(name, sources \o <<Rm(o)>>))))
RVD_Compare(name, o) == UpdateFpCsr(WriteX(o.rd, Value(name, <<F(o.rs1), F(o.rs2)>>)))
RVD_ClassOrMove(name, o) ==
  IF name = "fmv_d_x" THEN NotifyFpDirty(WriteF(o.rd, Copy(X(o.rs1)))) ELSE WriteX(o.rd, Value(name, <<F(o.rs1)>>))
RVD_ConvertToInt(name, o) == UpdateFpCsr(WriteX(o.rd, Value(name, <<F(o.rs1), Rm(o)>>)))
RVD_ConvertWidth(name, o) == UpdateFpCsr(NotifyFpDirty(WriteF(o.rd, Value(name, <<F(o.rs1)>>))))
RVD_ConvertSign(name, o) == UpdateFpCsr(NotifyFpDirty(WriteF(o.rd, Value(name, <<F(o.rs1), F(o.rs2)>>))))
RV32D_Load(o) == NotifyFpDirty(Loading(WriteF(o.rd, Loaded(8, "float")), 8, X(o.rs1), o.imm))
RV32D_Store(o) == Storing(8, X(o.rs1), o.imm, F(o.rs2))

\* Mutant: the load of a double leaves the floating-point state clean.
MutRV64D_Load(o) == Loading(WriteF(o.rd, Loaded(8, "float")), 8, X(o.rs1), o.imm)

RV64D_Load(o) == NotifyFpDirty(Loading(WriteF(o.rd, Loaded(8, "float")), 8, X(o.rs1), o.imm))
RV64D_Store(o) == Storing(8, X(o.rs1), o.imm, F(o.rs2))

\* The moves and conversions of 64-bit integers are executed in RV32 too.
ProcessRVD(xlen, name, o) ==
  Cancelled(
    CASE name = "fld" -> IF xlen = 32 THEN RV32D_Load(o) ELSE RV64D_Load(o)
      [] name = "fsd" -> IF xlen = 32 THEN RV32D_Store(o) ELSE RV64D_Store(o)
      [] name \in {"fmadd_d", "fmsub_d", "fnmadd_d", "fnmsub_d"} -> RVD_MulAdd(name, o)
      [] name \in {"fadd_d", "fsub_d", "fmul_d", "fdiv_d", "fsqrt_d", "fmin_d", "fmax_d",
                   "fcvt_d_w", "fcvt_d_wu", "fcvt_d_l", "fcvt_d_lu"} -> RVD_Compute(name, o)
      [] name \in {"feq_d", "flt_d", "fle_d"} -> RVD_Compare(name, o)
      [] name \in {"fclass_d", "fmv_x_d", "fmv_d_x"} -> RVD_ClassOrMove(name, o)
      [] name \in {"fcvt_w_d", "fcvt_wu_d", "fcvt_l_d", "fcvt_lu_d"} -> RVD_ConvertToInt(name, o)
      [] name \in {"fcvt_s_d", "fcvt_d_s"} -> RVD_ConvertWidth(name, o)
      [] name \in {"fsgnj_d", "fsgnjn_d", "fsgnjx_d"} -> RVD_ConvertSign(name, o)
      [] OTHER -> Error)

-----------------------------------------------------------------------------
(* RV32C: every instruction cancels a reservation. *)

AluC(name, o) ==
  LET f == [c_sub |-> "sub", c_and |-> "and", c_or |-> "or", c_xor |-> "xor", c_subw |-> "subw", c_addw |-> "addw"] IN
  WriteX(o.rd, CASE name = "c_mv" -> Copy(X(o.rs2))
                 [] name = "c_add" -> Add(X(o.rs1), X(o.rs2))
                 [] OTHER -> Value(f[name], <<X(o.rs1), X(o.rs2)>>))
AluImmC(name, o) ==
  LET f == [c_andi |-> "and", c_srli |-> "srl", c_srai |-> "sra", c_slli |-> "sll", c_addiw |-> "addw"] IN
  WriteX(o.rd, CASE name \in {"c_li", "c_lui"} -> Copy(Imm(o.imm))
                 [] name = "c_addi" -> Add(X(o.rs1), Imm(o.imm))
                 [] OTHER -> Value(f[name], <<X(o.rs1), Imm(o.imm)>>))
BranchC(name, o) ==
  [Idle EXCEPT !.jump = {Target(Pc, o.imm, Value(IF name = "c_beqz" THEN "eq" ELSE "ne", <<X(o.rs1), Imm(0)>>))},
               !.cancel = IF o.imm < 0 THEN "jumping" ELSE "never"]
JumpC(o) ==
  [Idle EXCEPT !.jump = {Target(Pc, o.imm, Always)}, !.cancel = IF o.imm < 0 THEN "jumping" ELSE "never"]
JumpRegisterC(o) == [Idle EXCEPT !.jump = {Target(X(o.rs1), 0, Always)}, !.cancel = "below"]

\* A load to an integer or a floating-point register, a store from one.
LoadC(o, base, size) == Cancelled(Loading(WriteX(o.rd, Loaded(size, "signed")), size, base, o.imm))
LoadFpC(o, base, size) == Cancelled(Loading(WriteF(o.rd, Loaded(size, "float")), size, base, o.imm))
StoreC(o, base, size) == Cancelled(Storing(size, base, o.imm, X(o.rs2)))
StoreFpC(o, base, size) == Cancelled(Storing(size, base, o.imm, F(o.rs2)))

RV32C_Alu(name, o) == AluC(name, o)
RV32C_AluImm(name, o) == AluImmC(name, o)
RV32C_Branch(name, o) == BranchC(name, o)
RV32C_AddSp(o) == WriteX(o.rd, Add(ReadStackPointer, Imm(o.imm)))
RV32C_LoadFp(name, o) ==
  CASE name = "c_fld" -> LoadFpC(o, X(o.rs1), 8)
    [] name = "c_fldsp" -> LoadFpC(o, ReadStackPointer, 8)
    [] name = "c_flw" -> LoadFpC(o, X(o.rs1), 4)
    [] name = "c_flwsp" -> LoadFpC(o, ReadStackPointer, 4)
RV32C_StoreFp(name, o) ==
  CASE name = "c_fsd" -> StoreFpC(o, X(o.rs1), 8)
    [] name = "c_fsdsp" -> StoreFpC(o, ReadStackPointer, 8)
    [] name = "c_fsw" -> StoreFpC(o, X(o.rs1), 4)
    [] name = "c_fswsp" -> StoreFpC(o, ReadStackPointer, 4)
RV32C_Jump(name, o) ==
  CASE name = "c_j" -> JumpC(o)
    [] name = "c_jal" -> WriteLinkRegister(JumpC(o))
    [] name = "c_jr" -> JumpRegisterC(o)
    [] name = "c_jalr" -> WriteLinkRegister(JumpRegisterC(o))
RV32C_LoadStore(name, o) ==
  CASE name = "c_lw" -> LoadC(o, X(o.rs1), 4)
    [] name = "c_lwsp" -> LoadC(o, ReadStackPointer, 4)
    [] name = "c_sw" -> StoreC(o, X(o.rs1), 4)
    [] name = "c_swsp" -> StoreC(o, ReadStackPointer, 4)

ProcessRV32C(name, o) ==
  Cancelled(
    CASE name = "c_nop" -> Idle
      [] name \in {"c_mv", "c_add", "c_sub", "c_and", "c_or", "c_xor"} -> RV32C_Alu(name, o)
      [] name \in {"c_li", "c_lui", "c_addi", "c_andi", "c_srli", "c_srai", "c_slli"} -> RV32C_AluImm(name, o)
      [] name \in {"c_beqz", "c_bnez"} -> RV32C_Branch(name, o)
      [] name \in {"c_addi4spn", "c_addi16sp"} -> RV32C_AddSp(o)
      [] name \in {"c_fld", "c_fldsp", "c_flw", "c_flwsp"} -> RV32C_LoadFp(name, o)
      [] name \in {"c_fsd", "c_fsdsp", "c_fsw", "c_fswsp"} -> RV32C_StoreFp(name, o)
      [] name \in {"c_j", "c_jal", "c_jr", "c_jalr"} -> RV32C_Jump(name, o)
      [] name \in {"c_lw", "c_lwsp", "c_sw", "c_swsp"} -> RV32C_LoadStore(name, o)
      [] OTHER -> Error)

-----------------------------------------------------------------------------
(* RV64C: loads and stores cancel a reservation, and jumps that go back. *)

RV64C_Alu(name, o) == AluC(name, o)
RV64C_AluImm(name, o) == AluImmC(name, o)
RV64C_Branch(name, o) == BranchC(name, o)
RV64C_AddSp(o) == WriteX(o.rd, Add(ReadStackPointer, Imm(o.imm)))
RV64C_Fp(name, o) ==
  CASE name = "c_fld" -> LoadFpC(o, X(o.rs1), 8)
    [] name = "c_fldsp" -> LoadFpC(o, ReadStackPointer, 8)
    [] name = "c_fsd" -> StoreFpC(o, X(o.rs1), 8)
    [] name = "c_fsdsp" -> StoreFpC(o, ReadStackPointer, 8)
RV64C_Jump(name, o) ==
  CASE name = "c_j" -> JumpC(o)
    [] name = "c_jr" -> JumpRegisterC(o)
    [] name = "c_jalr" -> WriteLinkRegister(JumpRegisterC(o))
RV64C_LoadStore(name, o) ==
  CASE name = "c_ld" -> LoadC(o, X(o.rs1), 8)
    [] name = "c_ldsp" -> LoadC(o, ReadStackPointer, 8)
    [] name = "c_lw" -> LoadC(o, X(o.rs1), 4)
    [] name = "c_lwsp" -> LoadC(o, ReadStackPointer, 4)
    [] name = "c_sd" -> StoreC(o, X(o.rs1), 8)
    [] name = "c_sdsp" -> StoreC(o, ReadStackPointer, 8)
    [] name = "c_sw" -> StoreC(o, X(o.rs1), 4)
    [] name = "c_swsp" -> StoreC(o, ReadStackPointer, 4)

ProcessRV64C(name, o) ==
  CASE name = "c_nop" -> Idle
    [] name \in {"c_mv", "c_add", "c_addw", "c_sub", "c_subw", "c_and", "c_or", "c_xor"} -> RV64C_Alu(name, o)
    [] name \in {"c_li", "c_lui", "c_addi", "c_addiw", "c_andi", "c_srli", "c_srai", "c_slli"} -> RV64C_AluImm(name, o)
    [] name \in {"c_beqz", "c_bnez"} -> RV64C_Branch(name, o)
    [] name \in {"c_addi4spn", "c_addi16sp"} -> RV64C_AddSp(o)
    [] name \in {"c_fld", "c_fldsp", "c_fsd", "c_fsdsp"} -> RV64C_Fp(name, o)
    [] name \in {"c_j", "c_jr", "c_jalr"} -> RV64C_Jump(name, o)
    [] name \in {"c_ld", "c_ldsp", "c_lw", "c_lwsp", "c_sd", "c_sdsp", "c_sw", "c_swsp"} -> RV64C_LoadStore(name, o)
    [] OTHER -> Error

-----------------------------------------------------------------------------

ProcessOp(xlen, op) ==
  LET name == op.name
      o == op.operand
  IN
  CASE op.class = "I" -> IF xlen = 32 THEN ProcessRV32I(name, o) ELSE ProcessRV64I(name, o)
    [] op.class = "M" -> IF xlen = 32 THEN ProcessRV32M(name, o) ELSE ProcessRV64M(name, o)
    [] op.class = "A" -> IF xlen = 32 THEN ProcessRV32A(name, o) ELSE ProcessRV64A(name, o)
    [] op.class = "F" -> ProcessRVF(xlen, name, o)
    [] op.class = "D" -> ProcessRVD(xlen, name, o)
    [] op.class = "C" -> IF xlen = 32 THEN ProcessRV32C(name, o) ELSE ProcessRV64C(name, o)

\* The cause of the trap after the effect.  The privilege level an ecall comes from is that of the hart.
PostCheckTrap(op, priv) ==
  CASE op.name = "ecall" -> [Machine |-> "EnvironmentCallFromMachine", Supervisor |-> "EnvironmentCallFromSupervisor",
                             User |-> "EnvironmentCallFromUser"][priv]
    [] op.name = "ebreak" -> "Breakpoint"
    [] OTHER -> "none"
=============================================================================
