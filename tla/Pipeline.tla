------------------------------ MODULE Pipeline ------------------------------
(***************************************************************************)
(* The main pipeline of the HDL core, from the decode stage's register on: *)
(* RegReadStage.sv, ExecuteStage.sv, RegWriteStage.sv with the register    *)
(* file, the bypass logic, the CSRs a trap touches and the pipeline        *)
(* controller.  An action is one clock edge.                               *)
(*                                                                         *)
(* The front end is what InsnStream promises.  How long the multi-cycle    *)
(* units take, what they and the memory answer, and whether a translation  *)
(* faults, is up to the environment.                                       *)
(***************************************************************************)
EXTENDS Isa

VARIABLES
  regs,                     \* IntRegFile.body
  csr,                      \* the registers of Csr.sv that a trap touches
  bypass,                   \* IntBypassLogic.pipeline, the youngest first
  id, ex, rw,               \* what the register behind the decode, the
                            \* register read and the execute stage holds
  reg_tlb_fault,            \* LoadStoreUnit: did the last translation fault
  pc,                       \* the front end's next instruction
  trapped,                  \* has the front end trapped since the last flush
  enabled                   \* were interrupts enabled in a fetch since then

stages == <<id, ex, rw>>
front == <<pc, trapped, enabled>>
vars == <<regs, csr, bypass, stages, reg_tlb_fault, front>>

-----------------------------------------------------------------------------

NoInsn == [kind |-> "alu", rd |-> 0, rs1 |-> 0, rs2 |-> 0,
           imm |-> 0, csr |-> "tvec", size |-> 2]

Bubble == [valid |-> FALSE, pc |-> 0, insn |-> NoInsn, trap |-> "none"]
ExBubble == [valid |-> FALSE, pc |-> 0, insn |-> NoInsn, trap |-> "none",
             src1 |-> 0, src2 |-> 0]
RwBubble == [valid |-> FALSE, pc |-> 0, insn |-> NoInsn, trap |-> "none", value |-> 0]

\* BYPASS_DEPTH is two.
Depths == {0, 1}
NoEntry == [valid |-> FALSE, addr |-> 0, value |-> 0]

Init ==
  /\ regs = [r \in Regs |-> 0]
  /\ csr = CsrReset
  /\ bypass = [i \in Depths |-> NoEntry]
  /\ id = Bubble /\ ex = ExBubble /\ rw = RwBubble
  /\ reg_tlb_fault = FALSE
  /\ pc = 0 /\ trapped = FALSE /\ enabled = FALSE

-----------------------------------------------------------------------------
(* The execute stage. *)

Matches(i, r) == bypass[i].valid /\ bypass[i].addr = r

Bypassed(r) == IF Matches(0, r) THEN bypass[0].value ELSE bypass[1].value

\* Mutant: a bypass of one entry.
MutHitYoungest(r) == Matches(0, r)

Hit(r) == \E i \in Depths : Matches(i, r)

\* The zero register reads as zero even when an instruction has written it.
Operand(r, latched) ==
  IF ~Hit(r) THEN latched ELSE IF r = 0 THEN 0 ELSE Bypassed(r)

Src1 == Operand(ex.insn.rs1, ex.src1)
Src2 == Operand(ex.insn.rs2, ex.src2)

\* loadStoreUnit.enable, with something to do
LoadStoreBusy == ex.valid /\ ex.trap = "none" /\ Accesses(ex.insn)

\* A cycle may stall in a unit that takes several.
MayStall == LoadStoreBusy \/ (ex.valid /\ ex.insn.kind = "muldiv")

\* The fault flag of the load/store unit is looked at by every instruction and
\* written by those that it translates an address for.
TrapOf(fault) ==
  IF ex.trap # "none" THEN ex.trap
  ELSE IF ex.valid /\ ex.insn.kind = "ecall" THEN "ecall"
  ELSE IF ex.valid /\ fault THEN "pagefault"
  ELSE "none"

Returning(stage, trap) == stage.valid /\ trap = "none" /\ stage.insn.kind = "mret"

CsrWritten(fault) == ex.valid /\ TrapOf(fault) = "none" /\ ex.insn.kind = "csrw"

\* Mutant: a return from a trap goes unnoticed until it is in the last stage.
MutFlushReqNotForReturn(stall, fault) ==
  /\ ex.valid
  /\ ~stall
  /\ \/ Taken(ex.insn, Src1, Src2)
     \/ ex.insn.kind \in {"csrw", "fence"}
     \/ TrapOf(fault) # "none"

\* Mutant: instructions fetched before a CSR write stay.
MutFlushReqNotForCsr(stall, fault) ==
  /\ ex.valid
  /\ ~stall
  /\ \/ Taken(ex.insn, Src1, Src2)
     \/ ex.insn.kind = "fence"
     \/ TrapOf(fault) # "none"
     \/ Returning(ex, TrapOf(fault))

\* Whether the instruction in the execute stage lets its followers be fetched anew.
FlushReq(stall, fault) ==
  /\ ex.valid
  /\ ~stall
  /\ \/ Taken(ex.insn, Src1, Src2)
     \/ ex.insn.kind \in {"csrw", "fence"}
     \/ TrapOf(fault) # "none"
     \/ Returning(ex, TrapOf(fault))

ExecuteResult(fault, value) ==
  IF ex.valid
  THEN [valid |-> TRUE, pc |-> ex.pc, insn |-> ex.insn, trap |-> TrapOf(fault),
        value |-> value]
  ELSE RwBubble

BypassEntry(value) ==
  IF ex.valid /\ WritesRd(ex.insn)
  THEN [valid |-> TRUE, addr |-> ex.insn.rd, value |-> value]
  ELSE NoEntry

-----------------------------------------------------------------------------
(* The register write stage and the pipeline controller. *)

RwTraps == rw.valid /\ rw.trap # "none"
RwReturns == Returning(rw, rw.trap)
RwCommits == rw.valid /\ rw.trap = "none" /\ WritesRd(rw.insn)

Flushes(stall, fault) == FlushReq(stall, fault) \/ RwTraps \/ RwReturns

RedirectPc ==
  IF RwTraps THEN csr.tvec
  ELSE IF RwReturns THEN csr.epc
  ELSE Follower(ex.insn, ex.pc, Src1, Src2)

NextRegs ==
  [r \in Regs |-> IF RwCommits /\ r = rw.insn.rd /\ r # 0 THEN rw.value ELSE regs[r]]

\* The register write stage and the execute stage write the CSRs in one cycle;
\* for a register that both write, the former wins.
NextCsr(fault) ==
  LET written == IF CsrWritten(fault) THEN WriteCsr(csr, ex.insn.csr, Src1) ELSE csr
      status == IF RwTraps THEN TrapCsr(csr, rw.pc)
                ELSE IF RwReturns THEN ReturnCsr(csr) ELSE written
  IN [tvec |-> written.tvec,
      epc |-> IF RwTraps THEN rw.pc ELSE written.epc,
      mie |-> status.mie,
      mpie |-> status.mpie]

-----------------------------------------------------------------------------
(* One clock edge. *)

\* Neither a stall nor a flush stops the back end.
BackEnd(stall, fault, value) ==
  /\ stall => MayStall
  /\ LoadStoreBusy \/ fault = reg_tlb_fault
  /\ value \in Results(ex.insn, ex.pc, csr, Src1, Src2)
  /\ reg_tlb_fault' = fault
  /\ regs' = NextRegs
  /\ csr' = NextCsr(fault)
  /\ rw' = IF stall THEN RwBubble ELSE ExecuteResult(fault, value)

Flush(stall, fault, value) ==
  /\ Flushes(stall, fault)
  /\ BackEnd(stall, fault, value)
  /\ id' = Bubble
  /\ ex' = ExBubble
  /\ bypass' = [i \in Depths |-> NoEntry]
  /\ pc' = RedirectPc
  /\ trapped' = FALSE
  /\ enabled' = FALSE

Hold(fault, value) ==
  /\ ~Flushes(TRUE, fault)
  /\ BackEnd(TRUE, fault, value)
  /\ enabled' = (enabled \/ csr.mie)
  /\ UNCHANGED <<id, ex, bypass, pc, trapped>>

Latched(stage) ==
  [valid |-> stage.valid, pc |-> stage.pc, insn |-> stage.insn, trap |-> stage.trap,
   src1 |-> regs[stage.insn.rs1], src2 |-> regs[stage.insn.rs2]]

Advance(fault, value) ==
  /\ ~Flushes(FALSE, fault)
  /\ BackEnd(FALSE, fault, value)
  /\ ex' = Latched(id)
  /\ bypass' = [i \in Depths |-> IF i = 0 THEN BypassEntry(value) ELSE bypass[i - 1]]
  /\ enabled' = (enabled \/ csr.mie)

DeliverNothing(fault, value) ==
  /\ Advance(fault, value)
  /\ id' = Bubble
  /\ UNCHANGED <<pc, trapped>>

\* Behind an instruction that traps, one may be delivered with its trap.
DeliveredTraps(insn) ==
  (IF insn.kind = "unknown" THEN {"illegal"} ELSE {"none"}) \union {"fault"}
    \union (IF trapped THEN FrontTraps ELSE IF enabled THEN {"interrupt"} ELSE {})

Deliver(insn, fault, value) ==
  /\ Advance(fault, value)
  /\ \E trap \in DeliveredTraps(insn) :
       /\ id' = [valid |-> TRUE, pc |-> pc, insn |-> insn, trap |-> trap]
       /\ trapped' = (trapped \/ trap # "none")
  /\ pc' = NextPc(pc, insn)

Reset ==
  /\ regs' = [r \in Regs |-> 0]
  /\ csr' = CsrReset
  /\ bypass' = [i \in Depths |-> NoEntry]
  /\ id' = Bubble /\ ex' = ExBubble /\ rw' = RwBubble
  /\ reg_tlb_fault' = FALSE
  /\ pc' = 0 /\ trapped' = FALSE /\ enabled' = FALSE

Next ==
  \/ \E fault \in BOOLEAN, value \in Words :
       \/ \E stall \in BOOLEAN : Flush(stall, fault, value)
       \/ Hold(fault, value)
       \/ DeliverNothing(fault, value)
       \/ \E insn \in Insns : Deliver(insn, fault, value)
  \/ Reset

Spec == Init /\ [][Next]_vars

-----------------------------------------------------------------------------
(* Properties. *)

StageType == [valid : BOOLEAN, pc : Words, insn : Insns \union {NoInsn},
              trap : Traps \union {"none"}]

\* Every register keeps its type.
TypeOK ==
  /\ regs \in [Regs -> Words]
  /\ csr \in CsrType
  /\ bypass \in [Depths -> [valid : BOOLEAN, addr : Regs, value : Words]]
  /\ id \in StageType
  /\ ex \in [valid : BOOLEAN, pc : Words, insn : Insns \union {NoInsn},
             trap : Traps \union {"none"}, src1 : Words, src2 : Words]
  /\ rw \in [valid : BOOLEAN, pc : Words, insn : Insns \union {NoInsn},
             trap : Traps \union {"none"}, value : Words]
  /\ reg_tlb_fault \in BOOLEAN
  /\ pc \in Words /\ trapped \in BOOLEAN /\ enabled \in BOOLEAN

\* The registers with what has left the execute stage written back.
ArchRegs == NextRegs

ArchCsr ==
  IF RwTraps THEN TrapCsr(csr, rw.pc)
  ELSE IF RwReturns THEN ReturnCsr(csr) ELSE csr

\* The address of the oldest instruction that has not left the execute stage.
ArchPc ==
  IF RwTraps THEN csr.tvec
  ELSE IF RwReturns THEN csr.epc
  ELSE IF ex.valid THEN ex.pc
  ELSE IF id.valid THEN id.pc
  ELSE pc

\* However long a stall lasts and however close the instructions that wrote them
\* are, the operands in the execute stage are the values their writers left: the
\* two bypass entries cover exactly the instructions whose results the register
\* read came too early for (BypassLogic.sv, RegReadStage.sv).
OperandsAreCurrent ==
  ex.valid => /\ Src1 = ArchRegs[ex.insn.rs1]
              /\ Src2 = ArchRegs[ex.insn.rs2]

\* Behind an instruction that takes a trap or returns from one, no instruction
\* gets as far as to change anything (MainPipeController.sv).
QuietBehindRedirect ==
  RwTraps \/ RwReturns =>
    ~id.valid /\ ~ex.valid /\ \A i \in Depths : ~bypass[i].valid

Core == INSTANCE SequentialCore WITH
          regs <- ArchRegs, pc <- ArchPc, csr <- ArchCsr, retired <- rw

\* With bypasses, stalls, flushes and traps, the pipeline executes one
\* instruction after the other.
ImplementsCore == Core!Spec

\* The emulator raises a data page fault where it translates the address of a
\* load, a store or a fetch; so should the pipeline.
PageFaultsOnAccesses == rw.trap = "pagefault" => Accesses(rw.insn)
=============================================================================
