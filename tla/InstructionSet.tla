---------------------------- MODULE InstructionSet ----------------------------
(***************************************************************************)
(* One cycle of cpu/Processor.cpp for every instruction word: fetched and  *)
(* decoded, checked, executed, trapped.  Beside it, what the printers of   *)
(* traces make of the same word with a decoder of their own.               *)
(***************************************************************************)
EXTENDS Encoding, FiniteSets

D == INSTANCE Decoder
O == INSTANCE OpDecoder
T == INSTANCE Operation
E == INSTANCE Executor

CONSTANTS FullWords,       \* the full words fetched
          CompressedWords  \* the compressed words fetched

ASSUME WordsAssumption == FullWords \subseteq Fulls /\ CompressedWords \subseteq Compresseds

VARIABLES
  xlen,    \* the width of the hart
  stage,   \* idle, decoded, executed or trapped
  insn,    \* the word: its length in bytes, and its bits as `full' or `short'
  op,      \* what the decoder made of it
  effect,  \* what executing it did
  cause    \* why it trapped

isaVars == <<xlen, stage, insn, op, effect, cause>>

NoInsn == [length |-> 0, full |-> {}, short |-> 0]
NoOp == D!Unknown("I")

IsaInit == /\ xlen \in Xlens
           /\ stage = "idle" /\ insn = NoInsn /\ op = NoOp /\ effect = E!Idle /\ cause = "none"

-----------------------------------------------------------------------------

Full(word) == [length |-> 4, full |-> {word}, short |-> 0]
Compressed(word) == [length |-> 2, full |-> {}, short |-> word]
TheFull(i) == CHOOSE word \in i.full : TRUE

Decode(i) == IF i.length = 4 THEN D!Decode(xlen, TheFull(i)) ELSE D!DecodeC(xlen, i.short)
DecodeOp(i) == IF i.length = 4 THEN O!Decode(xlen, TheFull(i)) ELSE O!DecodeC(xlen, i.short)

Trap(c) == stage' = "trapped" /\ cause' = c /\ insn' = NoInsn /\ op' = NoOp /\ effect' = E!Idle

FetchInsn ==
  /\ stage = "idle"
  /\ \E i \in {Full(word) : word \in FullWords} \cup {Compressed(word) : word \in CompressedWords} :
       IF Decode(i).name = "unknown"
       THEN Trap("IllegalInstruction")
       ELSE stage' = "decoded" /\ insn' = i /\ op' = Decode(i) /\ UNCHANGED <<effect, cause>>
  /\ UNCHANGED xlen

\* What the checks may find depends on the state of the hart.
Faults(checks) ==
  {check.kind : check \in checks.memory}
    \cup (IF checks.fp \/ checks.csr # {} \/ checks.priv # "any" THEN {"IllegalInstruction"} ELSE {})

CheckInsn ==
  /\ stage = "decoded"
  /\ \E fault \in Faults(E!PreCheckTrap(xlen, op)) : Trap(fault)
  /\ UNCHANGED xlen

\* The program counter moves on before the instruction runs; a jump overwrites it.
ProcessOp ==
  /\ stage = "decoded"
  /\ effect' = E!ProcessOp(xlen, op)
  /\ stage' = "executed"
  /\ UNCHANGED <<xlen, insn, op, cause>>

PostCheckTrap ==
  /\ stage = "executed"
  /\ \E priv \in {"Machine", "Supervisor", "User"} :
       LET trap == E!PostCheckTrap(op, priv) IN
       IF trap # "none" THEN Trap(trap)
       ELSE stage' = "idle" /\ insn' = NoInsn /\ op' = NoOp /\ effect' = E!Idle /\ cause' = "none"
  /\ UNCHANGED xlen

ProcessException ==
  /\ stage = "trapped"
  /\ stage' = "idle" /\ cause' = "none"
  /\ UNCHANGED <<xlen, insn, op, effect>>

IsaNext == FetchInsn \/ CheckInsn \/ ProcessOp \/ PostCheckTrap \/ ProcessException

IsaSpec == IsaInit /\ [][IsaNext]_isaVars

-----------------------------------------------------------------------------
(* What an operation of the printers says: the operands it would have in the *)
(* decoder, and the registers its line names.                                *)

Decoded == stage = "decoded"
Executed == stage = "executed"
Second == DecodeOp(insn)
SecondKnown == Second.name \in DOMAIN T!Parameters(xlen)

Argument(p) ==
  LET o == op.operand IN
  CASE p = "uimm" -> o.zimm
    [] p = "rm" -> o.funct3
    [] p = "aq" -> (TheFull(insn).funct7 \div 2) % 2
    [] p = "rl" -> TheFull(insn).funct7 % 2
    [] p \in DOMAIN o -> o[p]
    [] OTHER -> 0

SameArguments(p) == T!Members(T!Parameters(xlen)[Second.name], Second.args)[p] = Argument(p)

\* The registers an effect reads or writes, register 0 aside.
Registers(e) ==
  LET values == {w.value : w \in e.writes} \cup {a.data : a \in e.access} \cup {j.when : j \in e.jump}
      operands == (UNION {{v.args[n] : n \in DOMAIN v.args} : v \in values})
                    \cup {w.to : w \in e.writes} \cup {a.base : a \in e.access} \cup {j.base : j \in e.jump}
                    \cup e.reserves
  IN  {r \in operands : r.kind \in {"x", "f"}}
ShownRegisters(line) ==
  {line.shown[n] : n \in {m \in DOMAIN line.shown :
     line.shown[m].kind \in {"x", "f"} /\ line.shown[m] # [kind |-> "x", n |-> 0]}}

\* The operation a compressed word is short for, as an operation of the decoder.
BaseOp ==
  [class |-> IF Second.name \in {"flw", "fsw"} THEN "F" ELSE IF Second.name \in {"fld", "fsd"} THEN "D" ELSE "I",
   name |-> Second.name,
   operand |-> T!Members(T!Parameters(xlen)[Second.name], Second.args)]

\* An effect without what differs by the length of the word, or what is not there to be seen.
Linked(w) == IF w.value.f = "link" THEN [w EXCEPT !.value = E!Value("link", <<>>)] ELSE w
Visible(e) == [access |-> e.access, jump |-> e.jump,
               writes |-> {Linked(w) : w \in {v \in e.writes : v.to # E!Imm(0)}}]

-----------------------------------------------------------------------------
(* Where the printers are known to read a word in another way.               *)

\* Shifts of words lose their W, and RV32 has no 64-bit integers in D.
Renamed == {"slliw", "srliw", "sraiw"}
Wide == {"fmv_x_d", "fmv_d_x", "fcvt_l_d", "fcvt_lu_d", "fcvt_d_l", "fcvt_d_lu"}

\* Upper immediates are not shifted, the sign of jal is taken from the bit below it, stores print the immediate
\* of a load, those of floats other registers, and a conversion its own selector as rounding mode.
Misread(p) ==
  \/ p = "imm" /\ op.name \in {"lui", "auipc", "sb", "sh", "sw", "sd"}
  \/ p = "imm" /\ op.name = "jal" /\ (TheFull(insn).funct7 < 64 <=> TheFull(insn).rs1 >= 16)
  \/ p \in {"rs1", "rs2"} /\ op.name \in {"fsw", "fsd"}
  \/ p = "rm" /\ op.class \in {"F", "D"}

\* Compressed stores exchange base and source, c.addi4spn of RV64 forgets its destination, and
\* amounts of shifts that are 0 or above 31 are taken for another number.
Swapped == {"c_sw", "c_sd", "c_fsw", "c_fsd"}
DestinationLost == xlen = 64 /\ op.name = "c_addi4spn"
ShiftsFar == op.name \in {"c_slli", "c_srli", "c_srai"} /\ op.operand.imm \notin 1 .. 31

\* beq prints no operands; an sfence.vma prints those the emulator ignores.
Silent == {"beq", "c_beqz", "sfence_vma"}
WrongFile == {"fsw", "fsd", "c_fsw", "c_fsd"}

-----------------------------------------------------------------------------
(* Properties *)

\* Two decoders, written apart, take a full word for the same instruction, with the same operands,
\* but for the differences named above: a trace shows what the emulator ran.
SameInstruction ==
  Decoded /\ insn.length = 4 =>
    \/ /\ Second.name = op.name
       /\ \A n \in DOMAIN Second.args :
            LET p == T!Parameters(xlen)[op.name][n] IN SameArguments(p) \/ Misread(p)
    \/ op.name \in Renamed
    \/ xlen = 32 /\ op.name \in Wide /\ Second.name = "unknown"

\* Every instruction the decoder accepts has a handler: Executor::Error ends the emulator.  c.ebreak
\* has none, nor the word instructions of RV64C the decoder accepts for RV32.
DecodedIsExecuted ==
  Executed => \/ effect.handled
              \/ op.name = "c_ebreak"
              \/ xlen = 32 /\ op.name \in {"c_subw", "c_addw"}

\* A memory access was checked at its address, for its kind, before the instruction had any effect: the
\* handlers that follow the check have no way to trap.  An AMO is checked for both its accesses.
AccessIsChecked ==
  Executed => \A a \in effect.access :
                E!Check(a.kind, a.base, a.offset) \in E!PreCheckTrap(xlen, op).memory

\* The floating-point registers and flags are touched only behind the check that the unit is on, and a
\* write to a register marks the state dirty for whoever saves it.  The compressed instructions do neither.
FpIsGuarded ==
  Executed /\ op.class # "C" =>
    /\ (effect.flags \/ \E r \in Registers(effect) : r.kind = "f") => E!PreCheckTrap(xlen, op).fp
    /\ (\E w \in effect.writes : w.to.kind = "f") => effect.dirty

\* A compressed instruction does what the instruction it is short for does: the same access, the same
\* registers written with the same values, the same target.  The two have handlers of their own.
CompressedIsExpanded ==
  Executed /\ insn.length = 2 /\ effect.handled =>
    \/ SecondKnown /\ Visible(effect) = Visible(IF Second.name = "nop" THEN E!Idle ELSE E!ProcessOp(xlen, BaseOp))
    \/ op.name \in Swapped \/ DestinationLost \/ ShiftsFar

\* The line printed for an instruction names the registers it reads and writes, each in its file.
TextNamesRegisters ==
  Executed /\ effect.handled /\ SecondKnown =>
    \/ Registers(effect) = ShownRegisters(T!TextOf(xlen, Second))
    \/ op.name \in Silent \cup WrongFile \/ DestinationLost \/ ShiftsFar

=============================================================================
