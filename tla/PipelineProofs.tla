--------------------------- MODULE PipelineProofs ---------------------------
(***************************************************************************)
(* Proofs about Pipeline, for any registers, words, instructions and ALU,  *)
(* and about the multiplier and divider of its execute stage, MulDiv, for  *)
(* words of any width.                                                     *)
(***************************************************************************)
EXTENDS Pipeline, MulDiv, FiniteSetTheorems, FunctionTheorems, TLAPS

-----------------------------------------------------------------------------
(* Types of the operators of Isa. *)

LEMMA ZeroTypes == 0 \in Words /\ 0 \in Regs /\ NoInsn \in InsnType
  BY RegCountAssumption, WordCountAssumption DEF Words, Regs, NoInsn, InsnType, Kinds, Names

LEMMA InsnIsTyped ==
  ASSUME NEW insn \in Insns \union {NoInsn}
  PROVE  /\ insn.rd \in Regs /\ insn.rs1 \in Regs /\ insn.rs2 \in Regs
         /\ insn.imm \in Words /\ insn.size \in {1, 2}
         /\ insn.kind \in Kinds /\ insn.csr \in Names
<1>1. insn \in InsnType
  BY ZeroTypes, InsnsAssumption
<1> QED
  BY <1>1 DEF InsnType

LEMMA PlusType ==
  ASSUME NEW a \in Words, NEW b \in Words \union {1, 2}
  PROVE  Plus(a, b) \in Words
  BY WordCountAssumption, SMT DEF Plus, Words

LEMMA FollowerType ==
  ASSUME NEW insn \in Insns \union {NoInsn}, NEW p \in Words,
         NEW src1 \in Words, NEW src2 \in Words
  PROVE  /\ NextPc(p, insn) \in Words
         /\ Follower(insn, p, src1, src2) \in Words
  BY InsnIsTyped, PlusType DEF NextPc, Target, Follower

LEMMA CsrTypes ==
  ASSUME NEW c \in CsrType, NEW name \in Names, NEW value \in Words, NEW p \in Words
  PROVE  /\ ReadCsr(c, name) \in Words
         /\ WriteCsr(c, name, value) \in CsrType
         /\ TrapCsr(c, p) \in CsrType
         /\ ReturnCsr(c) \in CsrType
<1>1. ReadCsr(c, name) \in Words
  <2>1. c.tvec \in Words /\ c.epc \in Words
    BY DEF CsrType
  <2>2. Bit(c.mie) \in {0, 1} /\ Bit(c.mpie) \in {0, 1}
    BY DEF Bit
  <2>3. Bit(c.mie) + 2 * Bit(c.mpie) \in Words
    BY <2>2, WordCountAssumption, SMT DEF Words
  <2> QED
    BY <2>1, <2>3 DEF ReadCsr
<1>2. WriteCsr(c, name, value) \in CsrType
  <2>1. (value % 2 = 1) \in BOOLEAN /\ ((value \div 2) % 2 = 1) \in BOOLEAN
    OBVIOUS
  <2> QED
    BY <2>1 DEF WriteCsr, CsrType
<1>3. TrapCsr(c, p) \in CsrType /\ ReturnCsr(c) \in CsrType
  BY DEF TrapCsr, ReturnCsr, CsrType
<1> QED
  BY <1>1, <1>2, <1>3

LEMMA ResultTypes ==
  ASSUME NEW insn \in Insns \union {NoInsn}, NEW p \in Words, NEW c \in CsrType,
         NEW src1 \in Words, NEW src2 \in Words
  PROVE  Results(insn, p, c, src1, src2) \subseteq Words
<1>1. Alu[src1][src2] \in Words
  BY AluAssumption
<1>2. ReadCsr(c, insn.csr) \in Words
  BY CsrTypes, InsnIsTyped
<1> QED
  BY <1>1, <1>2, FollowerType, ZeroTypes DEF Results

-----------------------------------------------------------------------------
(* Type correctness. *)

LEMMA OperandTypes ==
  ASSUME TypeOK
  PROVE  Src1 \in Words /\ Src2 \in Words
<1>1. ASSUME NEW r \in Regs, NEW latched \in Words
      PROVE  Operand(r, latched) \in Words
  BY ZeroTypes DEF Operand, Bypassed, TypeOK, Depths
<1>2. ex.src1 \in Words /\ ex.src2 \in Words /\ ex.insn \in Insns \union {NoInsn}
  BY DEF TypeOK
<1> QED
  BY <1>1, <1>2, InsnIsTyped DEF Src1, Src2

LEMMA TrapOfType ==
  ASSUME TypeOK, NEW fault \in BOOLEAN
  PROVE  TrapOf(fault) \in Traps \union {"none"}
  BY DEF TypeOK, TrapOf, Traps

LEMMA RedirectType ==
  ASSUME TypeOK
  PROVE  RedirectPc \in Words
<1>1. ex.insn \in Insns \union {NoInsn} /\ ex.pc \in Words
  BY DEF TypeOK
<1>2. csr.tvec \in Words /\ csr.epc \in Words
  BY DEF TypeOK, CsrType
<1> QED
  BY <1>1, <1>2, OperandTypes, FollowerType DEF RedirectPc

LEMMA NextCsrType ==
  ASSUME TypeOK, NEW fault \in BOOLEAN
  PROVE  NextCsr(fault) \in CsrType
<1> DEFINE written == IF CsrWritten(fault) THEN WriteCsr(csr, ex.insn.csr, Src1) ELSE csr
           status == IF RwTraps THEN TrapCsr(csr, rw.pc)
                     ELSE IF RwReturns THEN ReturnCsr(csr) ELSE written
<1>1. csr \in CsrType /\ ex.insn \in Insns \union {NoInsn} /\ rw.pc \in Words
  BY DEF TypeOK
<1>2. written \in CsrType
  BY <1>1, OperandTypes, CsrTypes, InsnIsTyped
<1>3. status \in CsrType
  <2>1. TrapCsr(csr, rw.pc) \in CsrType /\ ReturnCsr(csr) \in CsrType
    BY <1>1, CsrTypes, ZeroTypes, InsnIsTyped
  <2> QED
    BY <1>2, <2>1
<1>4. NextCsr(fault) = [tvec |-> written.tvec,
                        epc |-> IF RwTraps THEN rw.pc ELSE written.epc,
                        mie |-> status.mie, mpie |-> status.mpie]
  BY DEF NextCsr
<1> HIDE DEF written, status
<1> QED
  BY <1>1, <1>2, <1>3, <1>4 DEF CsrType

LEMMA BackEndType ==
  ASSUME TypeOK, NEW stall \in BOOLEAN, NEW fault \in BOOLEAN, NEW value \in Words,
         BackEnd(stall, fault, value)
  PROVE  /\ regs' \in [Regs -> Words]
         /\ csr' \in CsrType
         /\ rw' \in [valid : BOOLEAN, pc : Words, insn : Insns \union {NoInsn},
                     trap : Traps \union {"none"}, value : Words]
         /\ reg_tlb_fault' \in BOOLEAN
<1>1. regs' \in [Regs -> Words]
  BY DEF BackEnd, NextRegs, TypeOK
<1>2. csr' \in CsrType
  BY NextCsrType DEF BackEnd
<1>3. rw' \in [valid : BOOLEAN, pc : Words, insn : Insns \union {NoInsn},
               trap : Traps \union {"none"}, value : Words]
  BY TrapOfType, ZeroTypes DEF BackEnd, ExecuteResult, RwBubble, TypeOK
<1>4. reg_tlb_fault' \in BOOLEAN
  BY DEF BackEnd
<1> QED
  BY <1>1, <1>2, <1>3, <1>4

\* A clock edge without flush or stall keeps the types behind the decode stage.
LEMMA AdvanceType ==
  ASSUME TypeOK, NEW fault \in BOOLEAN, NEW value \in Words, Advance(fault, value)
  PROVE  /\ ex' \in [valid : BOOLEAN, pc : Words, insn : Insns \union {NoInsn},
                     trap : Traps \union {"none"}, src1 : Words, src2 : Words]
         /\ bypass' \in [Depths -> [valid : BOOLEAN, addr : Regs, value : Words]]
         /\ enabled' \in BOOLEAN
<1>1. regs[id.insn.rs1] \in Words /\ regs[id.insn.rs2] \in Words
  BY InsnIsTyped DEF TypeOK, StageType
<1>2. ex' \in [valid : BOOLEAN, pc : Words, insn : Insns \union {NoInsn},
               trap : Traps \union {"none"}, src1 : Words, src2 : Words]
  BY <1>1 DEF Advance, Latched, TypeOK, StageType
<1>3. BypassEntry(value) \in [valid : BOOLEAN, addr : Regs, value : Words]
  BY InsnIsTyped, ZeroTypes DEF BypassEntry, NoEntry, TypeOK
<1>4. bypass' \in [Depths -> [valid : BOOLEAN, addr : Regs, value : Words]]
  BY <1>3 DEF Advance, TypeOK, Depths
<1>5. enabled' \in BOOLEAN
  BY DEF Advance, TypeOK
<1> QED
  BY <1>2, <1>4, <1>5

LEMMA InitTypeOK == Init => TypeOK
<1> SUFFICES ASSUME Init PROVE TypeOK
  OBVIOUS
<1>1. regs \in [Regs -> Words] /\ csr \in CsrType
  BY ZeroTypes DEF Init, CsrReset, CsrType
<1>2. bypass \in [Depths -> [valid : BOOLEAN, addr : Regs, value : Words]]
  BY ZeroTypes DEF Init, NoEntry
<1>3. id \in StageType
  BY ZeroTypes DEF Init, Bubble, StageType
<1>4. ex \in [valid : BOOLEAN, pc : Words, insn : Insns \union {NoInsn},
              trap : Traps \union {"none"}, src1 : Words, src2 : Words]
  BY ZeroTypes DEF Init, ExBubble
<1>5. rw \in [valid : BOOLEAN, pc : Words, insn : Insns \union {NoInsn},
              trap : Traps \union {"none"}, value : Words]
  BY ZeroTypes DEF Init, RwBubble
<1> QED
  BY <1>1, <1>2, <1>3, <1>4, <1>5, ZeroTypes DEF Init, TypeOK

LEMMA NextTypeOK == TypeOK /\ [Next]_vars => TypeOK'
<1> SUFFICES ASSUME TypeOK, [Next]_vars PROVE TypeOK'
  OBVIOUS
<1>1. ASSUME NEW stall \in BOOLEAN, NEW fault \in BOOLEAN, NEW value \in Words,
             Flush(stall, fault, value)
      PROVE  TypeOK'
  <2>1. BackEnd(stall, fault, value)
    BY <1>1 DEF Flush
  <2>2. id' \in StageType /\ pc' \in Words
    BY <1>1, ZeroTypes, RedirectType DEF Flush, StageType, Bubble
  <2>3. ex' = ExBubble /\ bypass' = [i \in Depths |-> NoEntry]
    BY <1>1 DEF Flush
  <2>4. trapped' = FALSE /\ enabled' = FALSE
    BY <1>1 DEF Flush
  <2> QED
    BY <2>1, <2>2, <2>3, <2>4, BackEndType, ZeroTypes DEF TypeOK, ExBubble, NoEntry
<1>2. ASSUME NEW fault \in BOOLEAN, NEW value \in Words, Hold(fault, value)
      PROVE  TypeOK'
  <2>1. BackEnd(TRUE, fault, value)
    BY <1>2 DEF Hold
  <2>2. enabled' \in BOOLEAN
    BY <1>2 DEF Hold, TypeOK
  <2> QED
    BY <1>2, <2>1, <2>2, BackEndType DEF TypeOK, Hold
<1>3. ASSUME NEW fault \in BOOLEAN, NEW value \in Words, Advance(fault, value),
             id' \in StageType, pc' \in Words, trapped' \in BOOLEAN
      PROVE  TypeOK'
  <2>1. BackEnd(FALSE, fault, value)
    BY <1>3 DEF Advance
  <2> QED
    BY <1>3, <2>1, BackEndType, AdvanceType DEF TypeOK
<1>4. ASSUME NEW fault \in BOOLEAN, NEW value \in Words, DeliverNothing(fault, value)
      PROVE  TypeOK'
  BY <1>3, <1>4, ZeroTypes DEF DeliverNothing, TypeOK, Bubble, StageType
<1>5. ASSUME NEW fault \in BOOLEAN, NEW value \in Words, NEW insn \in Insns,
             Deliver(insn, fault, value)
      PROVE  TypeOK'
  <2>1. PICK trap \in DeliveredTraps(insn) :
          /\ id' = [valid |-> TRUE, pc |-> pc, insn |-> insn, trap |-> trap]
          /\ trapped' = (trapped \/ trap # "none")
    BY <1>5 DEF Deliver
  <2>2. trap \in Traps \union {"none"}
    BY <2>1 DEF DeliveredTraps, FrontTraps, Traps
  <2>3. id' \in StageType
    BY <2>1, <2>2 DEF TypeOK, StageType
  <2>4. pc' \in Words
    BY <1>5, FollowerType, ZeroTypes DEF Deliver, TypeOK
  <2>5. trapped' \in BOOLEAN
    BY <2>1 DEF TypeOK
  <2> QED
    BY <1>3, <1>5, <2>3, <2>4, <2>5 DEF Deliver
<1>6. CASE Reset
  BY <1>6, ZeroTypes DEF Reset, TypeOK, CsrReset, CsrType, Bubble, ExBubble, RwBubble, NoEntry,
                         StageType
<1>7. CASE UNCHANGED vars
  BY <1>7 DEF vars, stages, front, TypeOK
<1> QED
  BY <1>1, <1>2, <1>4, <1>5, <1>6, <1>7 DEF Next

\* Every register of the pipeline keeps its type.
THEOREM TypeCorrectness == Spec => []TypeOK
  BY InitTypeOK, NextTypeOK, PTL DEF Spec

-----------------------------------------------------------------------------
(* The inductive invariant.  Bypass and latched operands: the youngest entry *)
(* that matches is current, a register that no entry matches was current     *)
(* when it was read, and a result on its way to the register file is in the  *)
(* youngest entry unless its instruction has flushed the stages behind it.   *)

BypassIsCurrent == \A r \in Regs : r # 0 /\ Hit(r) => Bypassed(r) = ArchRegs[r]

LatchedIsCurrent ==
  ex.valid => /\ ~Hit(ex.insn.rs1) => ex.src1 = ArchRegs[ex.insn.rs1]
              /\ ~Hit(ex.insn.rs2) => ex.src2 = ArchRegs[ex.insn.rs2]

WritesAreBypassed ==
  id.valid /\ RwCommits /\ rw.insn.rd # 0 => Matches(0, rw.insn.rd)

OperandInv ==
  regs[0] = 0 /\ BypassIsCurrent /\ LatchedIsCurrent /\ WritesAreBypassed

\* What is in the stages is a piece of the program, in its order.
InOrder ==
  /\ id.valid => id.insn \in Insns /\ pc = NextPc(id.pc, id.insn)
  /\ ex.valid => /\ ex.insn \in Insns
                 /\ NextPc(ex.pc, ex.insn) = (IF id.valid THEN id.pc ELSE pc)

Honest(stage) ==
  /\ stage.trap = "interrupt" => csr.mie
  /\ stage.trap = "illegal" => stage.insn.kind = "unknown"

FromFrontEnd(stage) ==
  /\ stage.trap \in FrontTraps \union {"none"}
  /\ stage.insn.kind = "unknown" => stage.trap # "none"

\* A trap of the front end is deserved, unless it is behind another trap.
TrapsAreDeserved ==
  /\ enabled => csr.mie
  /\ trapped => (id.valid /\ id.trap # "none") \/ (ex.valid /\ ex.trap # "none")
  /\ ex.valid => FromFrontEnd(ex) /\ Honest(ex)
  /\ id.valid => FromFrontEnd(id) /\ (Honest(id) \/ (ex.valid /\ ex.trap # "none"))

Inv ==
  /\ TypeOK
  /\ OperandInv
  /\ QuietBehindRedirect
  /\ InOrder
  /\ TrapsAreDeserved

-----------------------------------------------------------------------------
(* What the invariant says of the operands, and of the three kinds of edges. *)

LEMMA OperandsFollow == TypeOK /\ OperandInv => OperandsAreCurrent
<1> SUFFICES ASSUME TypeOK, OperandInv, ex.valid
             PROVE  /\ Src1 = ArchRegs[ex.insn.rs1]
                    /\ Src2 = ArchRegs[ex.insn.rs2]
  BY DEF OperandsAreCurrent
<1>1. ex.insn.rs1 \in Regs /\ ex.insn.rs2 \in Regs
  BY InsnIsTyped DEF TypeOK
<1>2. ArchRegs[0] = 0
  BY ZeroTypes DEF OperandInv, ArchRegs, NextRegs
<1>3. ASSUME NEW r \in Regs, NEW latched, ~Hit(r) => latched = ArchRegs[r]
      PROVE  Operand(r, latched) = ArchRegs[r]
  BY <1>2, <1>3 DEF Operand, OperandInv, BypassIsCurrent
<1> QED
  BY <1>1, <1>3 DEF Src1, Src2, OperandInv, LatchedIsCurrent

\* What is committed at an edge is what the registers held before, with the
\* result that leaves the execute stage on top.
LEMMA ArchRegsNext ==
  ASSUME TypeOK, NEW stall \in BOOLEAN, NEW fault \in BOOLEAN, NEW value \in Words,
         BackEnd(stall, fault, value), NEW r \in Regs
  PROVE  /\ regs'[r] = ArchRegs[r]
         /\ ArchRegs'[r] = (IF RwCommits' /\ r = rw'.insn.rd /\ r # 0
                            THEN rw'.value ELSE ArchRegs[r])
  BY DEF BackEnd, ArchRegs, NextRegs

\* Between two instructions of the program nothing else happens.
LEMMA AdvanceFacts ==
  ASSUME TypeOK, NEW fault \in BOOLEAN, ~Flushes(FALSE, fault)
  PROVE  /\ ~RwTraps /\ ~RwReturns
         /\ ex.valid => /\ TrapOf(fault) = "none" /\ ex.trap = "none"
                        /\ ex.insn.kind \notin {"csrw", "fence", "mret", "ecall"}
                        /\ ~Taken(ex.insn, Src1, Src2)
         /\ NextCsr(fault) = csr
<1>1. ~RwTraps /\ ~RwReturns /\ ~FlushReq(FALSE, fault)
  BY DEF Flushes
<1>2. ASSUME ex.valid
      PROVE  /\ TrapOf(fault) = "none" /\ ex.trap = "none"
             /\ ex.insn.kind \notin {"csrw", "fence", "mret", "ecall"}
             /\ ~Taken(ex.insn, Src1, Src2)
  <2>1. TrapOf(fault) = "none" /\ ex.insn.kind \notin {"csrw", "fence"}
        /\ ~Taken(ex.insn, Src1, Src2)
    BY <1>1, <1>2 DEF FlushReq
  <2>2. ex.trap = "none" /\ ex.insn.kind # "ecall"
    BY <1>2, <2>1 DEF TrapOf
  <2>3. ex.insn.kind # "mret"
    BY <1>1, <1>2, <2>1 DEF FlushReq, Returning
  <2> QED
    BY <2>1, <2>2, <2>3
<1>3. ~CsrWritten(fault)
  BY <1>2 DEF CsrWritten
<1>4. NextCsr(fault) = csr
  BY <1>1, <1>3 DEF NextCsr, TypeOK, CsrType
<1> QED
  BY <1>1, <1>2, <1>4

LEMMA HoldFacts ==
  ASSUME TypeOK, NEW fault \in BOOLEAN, NEW value \in Words, Hold(fault, value)
  PROVE  /\ ex.valid /\ ~RwTraps /\ ~RwReturns
         /\ csr' = csr /\ rw' = RwBubble /\ UNCHANGED <<id, ex, bypass, pc, trapped>>
<1>1. /\ BackEnd(TRUE, fault, value) /\ ~Flushes(TRUE, fault)
      /\ UNCHANGED <<id, ex, bypass, pc, trapped>>
  BY DEF Hold
<1>2. ex.valid /\ ex.insn.kind # "csrw"
  BY <1>1 DEF BackEnd, MayStall, LoadStoreBusy, Accesses
<1>3. ~RwTraps /\ ~RwReturns
  BY <1>1 DEF Flushes
<1>4. NextCsr(fault) = csr
  BY <1>2, <1>3 DEF NextCsr, CsrWritten, TypeOK, CsrType
<1> QED
  BY <1>1, <1>2, <1>3, <1>4 DEF BackEnd

\* Behind a redirection the execute stage is empty, so that nothing stalls.
LEMMA RedirectFacts ==
  ASSUME TypeOK, QuietBehindRedirect, RwTraps \/ RwReturns,
         NEW stall \in BOOLEAN, NEW fault \in BOOLEAN, NEW value \in Words,
         BackEnd(stall, fault, value)
  PROVE  ~ex.valid /\ ~stall /\ rw' = RwBubble /\ csr' = ArchCsr
<1>1. ~ex.valid
  BY DEF QuietBehindRedirect
<1>2. ~stall /\ rw' = RwBubble
  BY <1>1 DEF BackEnd, MayStall, LoadStoreBusy, ExecuteResult
<1>3. NextCsr(fault) = ArchCsr
  <2>1. ~CsrWritten(fault)
    BY <1>1 DEF CsrWritten
  <2> QED
    BY <2>1 DEF NextCsr, ArchCsr, TypeOK, CsrType, TrapCsr, ReturnCsr
<1> QED
  BY <1>1, <1>2, <1>3 DEF BackEnd

-----------------------------------------------------------------------------
(* The operands. *)

LEMMA FlushKeepsOperands ==
  ASSUME TypeOK, OperandInv, NEW stall \in BOOLEAN, NEW fault \in BOOLEAN,
         NEW value \in Words, Flush(stall, fault, value)
  PROVE  OperandInv'
<1>1. /\ BackEnd(stall, fault, value)
      /\ ~id'.valid /\ ~ex'.valid /\ \A i \in Depths : ~bypass'[i].valid
  BY DEF Flush, Bubble, ExBubble, NoEntry
<1>2. regs'[0] = 0
  BY <1>1, ZeroTypes DEF BackEnd, NextRegs, OperandInv
<1>3. \A r : ~Hit(r)'
  BY <1>1 DEF Hit, Matches
<1> QED
  BY <1>1, <1>2, <1>3 DEF OperandInv, BypassIsCurrent, LatchedIsCurrent, WritesAreBypassed

LEMMA HoldKeepsOperands ==
  ASSUME TypeOK, OperandInv, NEW fault \in BOOLEAN, NEW value \in Words,
         Hold(fault, value)
  PROVE  OperandInv'
<1>1. BackEnd(TRUE, fault, value) /\ ~RwCommits'
  <2>1. rw' = RwBubble
    BY HoldFacts
  <2>2. ~rw'.valid
    BY <2>1 DEF RwBubble
  <2> QED
    BY <2>2 DEF Hold, RwCommits
<1>2. \A r \in Regs : ArchRegs'[r] = ArchRegs[r]
  BY <1>1, ArchRegsNext
<1>3. regs'[0] = 0
  BY <1>1, ZeroTypes DEF BackEnd, NextRegs, OperandInv
<1>4. bypass' = bypass /\ ex' = ex /\ ex.insn.rs1 \in Regs /\ ex.insn.rs2 \in Regs
  BY HoldFacts, InsnIsTyped DEF TypeOK
<1>5. \A r : (Hit(r)' <=> Hit(r)) /\ Bypassed(r)' = Bypassed(r)
  BY <1>4 DEF Hit, Bypassed, Matches
<1>6. BypassIsCurrent'
  BY <1>2, <1>5 DEF BypassIsCurrent, OperandInv
<1>7. LatchedIsCurrent'
  BY <1>2, <1>4, <1>5 DEF LatchedIsCurrent, OperandInv
<1> QED
  BY <1>1, <1>3, <1>6, <1>7 DEF OperandInv, WritesAreBypassed

\* The entries move down by one, below that of the execute stage.
LEMMA AdvanceBypass ==
  ASSUME NEW fault \in BOOLEAN, NEW value \in Words, Advance(fault, value), NEW r
  PROVE  /\ Matches(0, r)' <=> ex.valid /\ WritesRd(ex.insn) /\ ex.insn.rd = r
         /\ Matches(0, r)' => Bypassed(r)' = value
         /\ Matches(1, r)' <=> Matches(0, r)
         /\ ~Matches(0, r)' => Bypassed(r)' = bypass[0].value
<1>1. bypass'[0] = BypassEntry(value) /\ bypass'[1] = bypass[0]
  BY DEF Advance, Depths
<1>2. Matches(0, r)' <=> ex.valid /\ WritesRd(ex.insn) /\ ex.insn.rd = r
  BY <1>1 DEF Matches, BypassEntry, NoEntry
<1>3. Matches(0, r)' => bypass'[0].value = value
  BY <1>1 DEF Matches, BypassEntry, NoEntry
<1>4. Matches(1, r)' <=> Matches(0, r)
  BY <1>1 DEF Matches
<1> QED
  BY <1>1, <1>2, <1>3, <1>4 DEF Bypassed

LEMMA AdvanceKeepsOperands ==
  ASSUME TypeOK, OperandInv, NEW fault \in BOOLEAN, NEW value \in Words,
         Advance(fault, value)
  PROVE  OperandInv'
<1>1. BackEnd(FALSE, fault, value) /\ ~Flushes(FALSE, fault) /\ ex' = Latched(id)
  BY DEF Advance
<1>2. rw' = ExecuteResult(fault, value)
  BY <1>1 DEF BackEnd
<1>3. RwCommits' <=> ex.valid /\ WritesRd(ex.insn)
  BY <1>1, <1>2, AdvanceFacts DEF RwCommits, ExecuteResult, RwBubble
<1>4. RwCommits' => rw'.insn.rd = ex.insn.rd /\ rw'.value = value
  BY <1>2, <1>3 DEF ExecuteResult
<1>5. \A r \in Regs : r # 0 =>
        ArchRegs'[r] = IF Matches(0, r)' THEN value ELSE ArchRegs[r]
  BY <1>1, <1>3, <1>4, ArchRegsNext, AdvanceBypass
<1>6. regs'[0] = 0 /\ ArchRegs'[0] = 0
  BY <1>1, ZeroTypes, ArchRegsNext DEF BackEnd, NextRegs, OperandInv, ArchRegs
<1>7. BypassIsCurrent'
  <2> SUFFICES ASSUME NEW r \in Regs, r # 0, Hit(r)'
               PROVE  Bypassed(r)' = ArchRegs'[r]
    BY DEF BypassIsCurrent
  <2>1. CASE Matches(0, r)'
    BY <1>5, <2>1, AdvanceBypass
  <2>2. CASE ~Matches(0, r)'
    <3>1. Matches(0, r)
      BY <2>2, AdvanceBypass DEF Hit, Depths
    <3>2. Hit(r) /\ Bypassed(r) = bypass[0].value
      BY <3>1 DEF Hit, Bypassed, Depths
    <3> QED
      BY <1>5, <2>2, <3>2, AdvanceBypass DEF OperandInv, BypassIsCurrent
  <2> QED
    BY <2>1, <2>2
<1>8. ASSUME NEW r \in Regs, ~Hit(r)', id.valid
      PROVE  regs[r] = ArchRegs'[r]
  <2>1. ~Matches(0, r)' /\ ~Matches(0, r)
    BY <1>8, AdvanceBypass DEF Hit, Depths
  <2>2. r # 0 => ArchRegs[r] = regs[r]
    BY <1>8, <2>1 DEF ArchRegs, NextRegs, OperandInv, WritesAreBypassed
  <2> QED
    BY <1>5, <1>6, <2>1, <2>2 DEF OperandInv
<1>9. LatchedIsCurrent'
  <2>1. id.insn.rs1 \in Regs /\ id.insn.rs2 \in Regs
    BY InsnIsTyped DEF TypeOK, StageType
  <2> QED
    BY <1>1, <1>8, <2>1 DEF LatchedIsCurrent, Latched
<1>10. WritesAreBypassed'
  BY <1>3, <1>4, AdvanceBypass DEF WritesAreBypassed
<1> QED
  BY <1>6, <1>7, <1>9, <1>10 DEF OperandInv

-----------------------------------------------------------------------------
(* The rest of the invariant. *)

LEMMA NextQuiet ==
  ASSUME TypeOK, [Next]_vars, QuietBehindRedirect
  PROVE  QuietBehindRedirect'
<1>1. ASSUME NEW stall \in BOOLEAN, NEW fault \in BOOLEAN, NEW value \in Words,
             Flush(stall, fault, value)
      PROVE  QuietBehindRedirect'
  BY <1>1 DEF Flush, QuietBehindRedirect, Bubble, ExBubble, NoEntry
<1>2. ASSUME NEW fault \in BOOLEAN, NEW value \in Words, Hold(fault, value)
      PROVE  QuietBehindRedirect'
  <2>1. rw' = RwBubble
    BY <1>2, HoldFacts
  <2>2. ~rw'.valid
    BY <2>1 DEF RwBubble
  <2> QED
    BY <2>2 DEF QuietBehindRedirect, RwTraps, RwReturns, Returning
<1>3. ASSUME NEW fault \in BOOLEAN, NEW value \in Words, Advance(fault, value)
      PROVE  QuietBehindRedirect'
  <2>1. ~Flushes(FALSE, fault) /\ rw' = ExecuteResult(fault, value)
    BY <1>3 DEF Advance, BackEnd
  <2>2. ~RwTraps' /\ ~RwReturns'
    <3>1. CASE ex.valid
      <4>1. rw'.trap = "none" /\ rw'.insn = ex.insn
        BY <2>1, <3>1, AdvanceFacts DEF ExecuteResult
      <4>2. rw'.insn.kind # "mret"
        BY <2>1, <3>1, <4>1, AdvanceFacts
      <4> QED
        BY <4>1, <4>2 DEF RwTraps, RwReturns, Returning
    <3>2. CASE ~ex.valid
      <4>1. ~rw'.valid
        BY <2>1, <3>2 DEF ExecuteResult, RwBubble
      <4> QED
        BY <4>1 DEF RwTraps, RwReturns, Returning
    <3> QED
      BY <3>1, <3>2
  <2> QED
    BY <2>2 DEF QuietBehindRedirect
<1>4. CASE Reset
  BY <1>4 DEF Reset, QuietBehindRedirect, Bubble, ExBubble, NoEntry
<1>5. CASE UNCHANGED vars
  BY <1>5 DEF vars, stages, QuietBehindRedirect, RwTraps, RwReturns, Returning
<1> QED
  BY <1>1, <1>2, <1>3, <1>4, <1>5 DEF Next, DeliverNothing, Deliver

LEMMA NextOperands ==
  ASSUME TypeOK, [Next]_vars, OperandInv
  PROVE  OperandInv'
<1>1. CASE Reset
  <2>1. ~id'.valid /\ ~ex'.valid /\ \A i \in Depths : ~bypass'[i].valid
    BY <1>1 DEF Reset, Bubble, ExBubble, NoEntry
  <2>2. regs'[0] = 0 /\ \A r : ~Hit(r)'
    BY <1>1, <2>1, ZeroTypes DEF Reset, Hit, Matches
  <2> QED
    BY <2>1, <2>2 DEF OperandInv, BypassIsCurrent, LatchedIsCurrent, WritesAreBypassed
<1>2. CASE UNCHANGED vars
  BY <1>2 DEF vars, stages, OperandInv, BypassIsCurrent, LatchedIsCurrent, WritesAreBypassed,
              Hit, Bypassed, Matches, ArchRegs, NextRegs, RwCommits
<1> QED
  BY <1>1, <1>2, FlushKeepsOperands, HoldKeepsOperands, AdvanceKeepsOperands
     DEF Next, DeliverNothing, Deliver

LEMMA NextInOrder ==
  ASSUME TypeOK, [Next]_vars, InOrder
  PROVE  InOrder'
<1>1. ASSUME NEW stall \in BOOLEAN, NEW fault \in BOOLEAN, NEW value \in Words,
             Flush(stall, fault, value)
      PROVE  InOrder'
  BY <1>1 DEF Flush, InOrder, Bubble, ExBubble
<1>2. ASSUME NEW fault \in BOOLEAN, NEW value \in Words, Hold(fault, value)
      PROVE  InOrder'
  BY <1>2 DEF Hold, InOrder
<1>3. ASSUME NEW fault \in BOOLEAN, NEW value \in Words, DeliverNothing(fault, value)
      PROVE  InOrder'
  <2>1. id' = Bubble /\ pc' = pc /\ ex' = Latched(id)
    BY <1>3 DEF DeliverNothing, Advance
  <2> QED
    BY <2>1 DEF InOrder, Bubble, Latched
<1>4. ASSUME NEW fault \in BOOLEAN, NEW value \in Words, NEW insn \in Insns,
             Deliver(insn, fault, value)
      PROVE  InOrder'
  <2>1. ex' = Latched(id) /\ pc' = NextPc(pc, insn)
        /\ id'.valid /\ id'.pc = pc /\ id'.insn = insn
    BY <1>4 DEF Deliver, Advance
  <2> QED
    BY <2>1 DEF InOrder, Latched
<1>5. CASE Reset
  BY <1>5 DEF Reset, InOrder, Bubble, ExBubble
<1>6. CASE UNCHANGED vars
  BY <1>6 DEF vars, stages, front, InOrder
<1> QED
  BY <1>1, <1>2, <1>3, <1>4, <1>5, <1>6 DEF Next

LEMMA NextDeserved ==
  ASSUME TypeOK, [Next]_vars, TrapsAreDeserved
  PROVE  TrapsAreDeserved'
<1>1. ASSUME NEW stall \in BOOLEAN, NEW fault \in BOOLEAN, NEW value \in Words,
             Flush(stall, fault, value)
      PROVE  TrapsAreDeserved'
  <2>1. ~id'.valid /\ ~ex'.valid /\ ~trapped' /\ ~enabled'
    BY <1>1 DEF Flush, Bubble, ExBubble
  <2> QED
    BY <2>1 DEF TrapsAreDeserved
<1>2. ASSUME NEW fault \in BOOLEAN, NEW value \in Words, Hold(fault, value)
      PROVE  TrapsAreDeserved'
  <2>1. csr' = csr /\ id' = id /\ ex' = ex /\ trapped' = trapped
    BY <1>2, HoldFacts
  <2>2. enabled' <=> enabled \/ csr.mie
    BY <1>2 DEF Hold, TypeOK, CsrType
  <2> QED
    BY <2>1, <2>2 DEF TrapsAreDeserved, FromFrontEnd, Honest
<1>3. ASSUME NEW fault \in BOOLEAN, NEW value \in Words, Advance(fault, value)
      PROVE  /\ csr' = csr /\ (enabled' => csr.mie)
             /\ trapped => id.valid /\ id.trap # "none"
             /\ ex'.valid <=> id.valid
             /\ ex'.trap = id.trap /\ ex'.insn = id.insn
             /\ id.valid => FromFrontEnd(id) /\ Honest(id)
  <2>1. ~Flushes(FALSE, fault) /\ csr' = NextCsr(fault) /\ ex' = Latched(id)
    BY <1>3 DEF Advance, BackEnd
  <2>2. csr' = csr /\ (ex.valid => ex.trap = "none")
    BY <2>1, AdvanceFacts
  <2>3. enabled' <=> enabled \/ csr.mie
    BY <1>3 DEF Advance, TypeOK, CsrType
  <2>4. (ex'.valid <=> id.valid) /\ ex'.trap = id.trap /\ ex'.insn = id.insn
    BY <2>1 DEF Latched
  <2> QED
    BY <2>2, <2>3, <2>4 DEF TrapsAreDeserved
<1>4. ASSUME NEW fault \in BOOLEAN, NEW value \in Words, DeliverNothing(fault, value)
      PROVE  TrapsAreDeserved'
  <2>1. Advance(fault, value) /\ ~id'.valid /\ trapped' = trapped
    BY <1>4 DEF DeliverNothing, Bubble
  <2> QED
    BY <1>3, <2>1 DEF TrapsAreDeserved, FromFrontEnd, Honest
<1>5. ASSUME NEW fault \in BOOLEAN, NEW value \in Words, NEW insn \in Insns,
             Deliver(insn, fault, value)
      PROVE  TrapsAreDeserved'
  <2>1. PICK trap \in DeliveredTraps(insn) :
          /\ id' = [valid |-> TRUE, pc |-> pc, insn |-> insn, trap |-> trap]
          /\ trapped' = (trapped \/ trap # "none")
    BY <1>5 DEF Deliver
  <2>2. Advance(fault, value)
    BY <1>5 DEF Deliver
  <2>3. id'.valid /\ id'.insn = insn /\ id'.trap = trap
    BY <2>1
  <2>4. trapped' <=> trapped \/ trap # "none"
    BY <2>1 DEF TypeOK
  <2>5. FromFrontEnd(id)'
    BY <2>1, <2>3 DEF FromFrontEnd, DeliveredTraps, FrontTraps
  <2>6. Honest(id)' \/ (ex'.valid /\ ex'.trap # "none")
    <3>1. CASE trapped
      BY <1>3, <2>2, <3>1
    <3>2. CASE ~trapped
      <4>1. (trap = "illegal" => insn.kind = "unknown") /\ (trap = "interrupt" => enabled)
        BY <2>1, <3>2 DEF DeliveredTraps
      <4> QED
        BY <1>3, <2>2, <2>3, <4>1 DEF Honest, TrapsAreDeserved
    <3> QED
      BY <3>1, <3>2
  <2>7. ex'.valid => FromFrontEnd(ex)' /\ Honest(ex)'
    BY <1>3, <2>2 DEF FromFrontEnd, Honest
  <2>8. (enabled' => csr'.mie)
    BY <1>3, <2>2
  <2>9. trapped' => (id'.valid /\ id'.trap # "none") \/ (ex'.valid /\ ex'.trap # "none")
    BY <1>3, <2>2, <2>3, <2>4
  <2> QED
    BY <2>5, <2>6, <2>7, <2>8, <2>9 DEF TrapsAreDeserved
<1>6. CASE Reset
  <2>1. ~id'.valid /\ ~ex'.valid /\ ~trapped' /\ ~enabled'
    BY <1>6 DEF Reset, Bubble, ExBubble
  <2> QED
    BY <2>1 DEF TrapsAreDeserved
<1>7. CASE UNCHANGED vars
  BY <1>7 DEF vars, stages, front, TrapsAreDeserved, FromFrontEnd, Honest
<1> QED
  BY <1>1, <1>2, <1>4, <1>5, <1>6, <1>7 DEF Next

LEMMA InitInv == Init => Inv
<1> SUFFICES ASSUME Init PROVE Inv
  OBVIOUS
<1>1. ~id.valid /\ ~ex.valid /\ ~rw.valid /\ ~trapped /\ ~enabled
      /\ \A i \in Depths : ~bypass[i].valid
  BY DEF Init, Bubble, ExBubble, RwBubble, NoEntry
<1>2. regs[0] = 0 /\ \A r : ~Hit(r)
  BY <1>1, ZeroTypes DEF Init, Hit, Matches
<1>3. OperandInv
  BY <1>1, <1>2 DEF OperandInv, BypassIsCurrent, LatchedIsCurrent, WritesAreBypassed
<1> QED
  BY <1>1, <1>3, InitTypeOK DEF Inv, QuietBehindRedirect, InOrder, TrapsAreDeserved

LEMMA NextInv == Inv /\ [Next]_vars => Inv'
  BY NextTypeOK, NextQuiet, NextOperands, NextInOrder, NextDeserved DEF Inv

\* The inductive invariant behind the theorems below holds.
THEOREM Invariance == Spec => []Inv
  BY InitInv, NextInv, PTL DEF Spec

\* In every cycle the execute stage works with the current values of its
\* operands, whatever stalls and flushes there have been.
THEOREM Bypassing == Spec => []OperandsAreCurrent
<1>1. Inv => OperandsAreCurrent
  BY OperandsFollow DEF Inv
<1> QED
  BY <1>1, Invariance, PTL

\* Nothing follows a trap or a return into the stages.
THEOREM Quietness == Spec => []QuietBehindRedirect
<1>1. Inv => QuietBehindRedirect
  BY DEF Inv
<1> QED
  BY <1>1, Invariance, PTL

-----------------------------------------------------------------------------
(* The pipeline implements the sequential core.                              *)

\* The core and the pipeline speak of the same instructions.
LEMMA SameIsa ==
  /\ Core!Regs = Regs /\ Core!Words = Words /\ Core!Traps = Traps
  /\ Core!FrontTraps = FrontTraps /\ Core!CsrReset = CsrReset
  /\ Core!Nothing = RwBubble
  /\ \A insn : Core!WritesRd(insn) <=> WritesRd(insn)
  /\ \A insn, p, c, a, b : /\ Core!Results(insn, p, c, a, b) = Results(insn, p, c, a, b)
                           /\ Core!Follower(insn, p, a, b) = Follower(insn, p, a, b)
  /\ \A c, name, value : Core!WriteCsr(c, name, value) = WriteCsr(c, name, value)
  /\ \A c, p : Core!TrapCsr(c, p) = TrapCsr(c, p)
  /\ \A c : Core!ReturnCsr(c) = ReturnCsr(c)
<1>1. /\ Core!Regs = Regs /\ Core!Words = Words /\ Core!Traps = Traps
      /\ Core!FrontTraps = FrontTraps /\ Core!CsrReset = CsrReset
  BY DEF Core!Regs, Core!Words, Core!Traps, Core!FrontTraps, Core!CsrReset,
         Regs, Words, Traps, FrontTraps, CsrReset
<1>2. Core!Nothing = RwBubble
  BY DEF Core!Nothing, Core!NoInsn, RwBubble, NoInsn
<1>3. \A insn : Core!WritesRd(insn) <=> WritesRd(insn)
  BY DEF Core!WritesRd, WritesRd
<1>4. \A a, b : Core!Plus(a, b) = Plus(a, b)
  BY DEF Core!Plus, Plus
<1>5. \A insn, p, a, b : /\ Core!Follower(insn, p, a, b) = Follower(insn, p, a, b)
                         /\ Core!NextPc(p, insn) = NextPc(p, insn)
  BY <1>4 DEF Core!Follower, Core!Taken, Core!Target, Core!NextPc, Follower, Taken, Target, NextPc
<1>6. \A insn, p, c, a, b : Core!Results(insn, p, c, a, b) = Results(insn, p, c, a, b)
  BY <1>1, <1>5 DEF Core!Results, Core!ReadCsr, Core!Bit, Results, ReadCsr, Bit
<1>7. \A c, name, value : Core!WriteCsr(c, name, value) = WriteCsr(c, name, value)
  BY DEF Core!WriteCsr, WriteCsr
<1>8. \A c, p : Core!TrapCsr(c, p) = TrapCsr(c, p)
  BY DEF Core!TrapCsr, TrapCsr
<1>9. \A c : Core!ReturnCsr(c) = ReturnCsr(c)
  BY DEF Core!ReturnCsr, ReturnCsr
<1> QED
  BY <1>1, <1>2, <1>3, <1>5, <1>6, <1>7, <1>8, <1>9

LEMMA InitRefines == Init => Core!Init
<1> SUFFICES ASSUME Init PROVE Core!Init
  OBVIOUS
<1>1. ~rw.valid /\ ~ex.valid /\ ~id.valid /\ pc = 0 /\ rw = RwBubble
  BY DEF Init, Bubble, ExBubble, RwBubble
<1>2. ~RwTraps /\ ~RwReturns /\ ~RwCommits
  BY <1>1 DEF RwTraps, RwReturns, RwCommits, Returning
<1>3. ArchRegs = [r \in Regs |-> 0]
  BY <1>2 DEF Init, ArchRegs, NextRegs
<1>4. ArchCsr = CsrReset /\ ArchPc = 0
  BY <1>1, <1>2 DEF Init, ArchCsr, ArchPc
<1> QED
  BY <1>1, <1>3, <1>4, SameIsa DEF Core!Init

\* In a cycle in which nothing leaves the execute stage the core waits.
LEMMA BubbleRefines ==
  ASSUME TypeOK, NEW stall \in BOOLEAN, NEW fault \in BOOLEAN, NEW value \in Words,
         BackEnd(stall, fault, value), rw' = RwBubble, csr' = ArchCsr,
         (IF ex'.valid THEN ex'.pc ELSE IF id'.valid THEN id'.pc ELSE pc') = ArchPc
  PROVE  Core!Wait
<1>1. ~rw'.valid
  BY DEF RwBubble
<1>2. ~RwTraps' /\ ~RwReturns' /\ ~RwCommits'
  BY <1>1 DEF RwTraps, RwReturns, RwCommits, Returning
<1>3. ArchRegs' = ArchRegs
  BY <1>2 DEF BackEnd, ArchRegs, NextRegs
<1>4. ArchCsr' = ArchCsr /\ ArchPc' = ArchPc
  BY <1>2 DEF ArchCsr, ArchPc
<1> QED
  BY <1>3, <1>4, SameIsa DEF Core!Wait

\* When an instruction leaves the execute stage, the core executes it: with the
\* operands of the core and, when the register write stage does not redirect the
\* front end, to the pc of what follows.
LEMMA RetireRefines ==
  ASSUME Inv, NEW stall \in BOOLEAN, NEW fault \in BOOLEAN, NEW value \in Words,
         BackEnd(stall, fault, value), ex.valid, ~stall,
         TrapOf(fault) = "none" /\ ex.insn.kind # "mret" =>
           (IF ex'.valid THEN ex'.pc ELSE IF id'.valid THEN id'.pc ELSE pc')
             = Follower(ex.insn, ex.pc, Src1, Src2)
  PROVE  Core!Execute(ex.insn) \/ Core!Return(ex.insn) \/ Core!Trap(ex.insn)
<1> DEFINE trap == TrapOf(fault)
<1>1. ~RwTraps /\ ~RwReturns
  BY DEF Inv, QuietBehindRedirect
<1>2. ArchPc = ex.pc /\ ArchCsr = csr
  BY <1>1 DEF ArchPc, ArchCsr
<1>3. Src1 = ArchRegs[ex.insn.rs1] /\ Src2 = ArchRegs[ex.insn.rs2]
  BY OperandsFollow DEF Inv, OperandsAreCurrent
<1>4. rw' = [valid |-> TRUE, pc |-> ex.pc, insn |-> ex.insn, trap |-> trap, value |-> value]
  BY DEF BackEnd, ExecuteResult
<1>5. rw'.valid /\ rw'.pc = ex.pc /\ rw'.insn = ex.insn /\ rw'.trap = trap /\ rw'.value = value
  BY <1>4
<1>6. csr' = IF CsrWritten(fault) THEN WriteCsr(csr, ex.insn.csr, Src1) ELSE csr
  <2>1. CASE CsrWritten(fault)
    <3>1. WriteCsr(csr, ex.insn.csr, Src1) \in CsrType
      BY CsrTypes, OperandTypes, InsnIsTyped, ZeroTypes DEF Inv, TypeOK
    <3> QED
      BY <1>1, <2>1, <3>1 DEF BackEnd, NextCsr, CsrType
  <2>2. CASE ~CsrWritten(fault)
    BY <1>1, <2>2 DEF BackEnd, NextCsr, CsrType, Inv, TypeOK
  <2> QED
    BY <2>1, <2>2
<1>7. ArchRegs' = [r \in Regs |-> IF trap = "none" /\ WritesRd(ex.insn) /\ r = ex.insn.rd /\ r # 0
                                  THEN value ELSE ArchRegs[r]]
  BY <1>5 DEF BackEnd, ArchRegs, NextRegs, RwCommits
<1>8. ex.trap \in FrontTraps \union {"none"}
      /\ (ex.insn.kind = "unknown" => trap \in FrontTraps)
      /\ (ex.trap = "interrupt" => csr.mie)
      /\ (ex.trap = "illegal" => ex.insn.kind = "unknown")
  BY DEF Inv, TrapsAreDeserved, FromFrontEnd, Honest, TrapOf
<1>9. CASE trap # "none"
  <2>1. RwTraps' /\ ~CsrWritten(fault)
    BY <1>5, <1>9 DEF RwTraps, CsrWritten
  <2>2. csr' = csr
    BY <1>6, <2>1
  <2>3. ArchPc' = csr.tvec /\ ArchCsr' = TrapCsr(csr, ex.pc)
    BY <1>5, <2>1, <2>2 DEF ArchPc, ArchCsr
  <2>4. ArchRegs' = ArchRegs
    BY <1>7, <1>9 DEF ArchRegs, NextRegs
  <2>5. trap \in Traps /\ Core!Deserves(ex.insn, trap)
    <3>1. trap = "ecall" => ex.insn.kind = "ecall"
      BY <1>8, <1>9 DEF TrapOf, FrontTraps
    <3>2. (trap = "interrupt" => csr.mie) /\ (trap = "illegal" => ex.insn.kind = "unknown")
      BY <1>8, <1>9 DEF TrapOf, FrontTraps
    <3>3. trap \in Traps
      BY <1>9, TrapOfType DEF Inv
    <3> QED
      BY <1>2, <1>8, <3>1, <3>2, <3>3, SameIsa DEF Core!Deserves
  <2> HIDE DEF trap
  <2>6. Core!Retire(ex.insn, trap, value)
    BY <1>2, <1>4 DEF Core!Retire
  <2> QED
    BY <1>2, <2>3, <2>4, <2>5, <2>6, SameIsa DEF Core!Trap
<1>10. CASE trap = "none" /\ ex.insn.kind = "mret"
  <2>1. RwReturns' /\ ~RwTraps'
    BY <1>5, <1>10 DEF RwReturns, RwTraps, Returning
  <2>2. csr' = csr
    BY <1>6, <1>10 DEF CsrWritten
  <2>3. ArchPc' = csr.epc /\ ArchCsr' = ReturnCsr(csr)
    BY <2>1, <2>2 DEF ArchPc, ArchCsr
  <2>4. ArchRegs' = ArchRegs
    BY <1>7, <1>10 DEF WritesRd, ArchRegs, NextRegs
  <2>5. value = 0
    BY <1>10 DEF BackEnd, Results
  <2>6. Core!Retire(ex.insn, "none", 0)
    BY <1>2, <1>4, <1>10, <2>5 DEF Core!Retire
  <2> QED
    BY <1>2, <1>10, <2>3, <2>4, <2>6, SameIsa DEF Core!Return
<1>11. CASE trap = "none" /\ ex.insn.kind # "mret"
  <2>1. ~RwReturns' /\ ~RwTraps'
    BY <1>5, <1>11 DEF RwReturns, RwTraps, Returning
  <2>2. ex.insn.kind \notin {"ecall", "mret", "unknown"}
    BY <1>8, <1>11 DEF TrapOf, FrontTraps
  <2>3. ArchPc' = Follower(ex.insn, ex.pc, Src1, Src2) /\ ArchCsr' = csr'
    BY <1>11, <2>1 DEF ArchPc, ArchCsr
  <2>4. csr' = IF ex.insn.kind = "csrw" THEN WriteCsr(csr, ex.insn.csr, Src1) ELSE csr
    BY <1>6, <1>11 DEF CsrWritten
  <2>5. value \in Results(ex.insn, ex.pc, csr, Src1, Src2)
    BY DEF BackEnd
  <2>6. Core!Retire(ex.insn, "none", value)
    BY <1>2, <1>4, <1>11 DEF Core!Retire
  <2>7. ArchRegs' = [r \in Regs |-> IF WritesRd(ex.insn) /\ r = ex.insn.rd /\ r # 0
                                    THEN value ELSE ArchRegs[r]]
    BY <1>7, <1>11
  <2> QED
    BY <1>2, <1>3, <2>2, <2>3, <2>4, <2>5, <2>6, <2>7, SameIsa DEF Core!Execute
<1> QED
  BY <1>9, <1>10, <1>11

LEMMA AdvanceRefines ==
  ASSUME Inv, NEW fault \in BOOLEAN, NEW value \in Words, Advance(fault, value),
         IF id'.valid THEN id'.pc = pc ELSE pc' = pc
  PROVE  Core!Next
<1>1. BackEnd(FALSE, fault, value) /\ ~Flushes(FALSE, fault) /\ ex' = Latched(id)
  BY DEF Advance
<1>2. (ex'.valid <=> id.valid) /\ ex'.pc = id.pc
  BY <1>1 DEF Latched
<1>3. ~RwTraps /\ ~RwReturns /\ csr' = csr
  BY <1>1, AdvanceFacts DEF Inv, BackEnd
<1> DEFINE oldest == IF ex'.valid THEN ex'.pc ELSE IF id'.valid THEN id'.pc ELSE pc'
<1>4. oldest = IF id.valid THEN id.pc ELSE pc
  BY <1>2
<1>5. CASE ex.valid
  <2>1. oldest = NextPc(ex.pc, ex.insn) /\ ex.insn \in Insns
    BY <1>4, <1>5 DEF Inv, InOrder
  <2>2. Follower(ex.insn, ex.pc, Src1, Src2) = NextPc(ex.pc, ex.insn)
    BY <1>1, <1>5, AdvanceFacts DEF Inv, Follower
  <2>3. Core!Execute(ex.insn) \/ Core!Return(ex.insn) \/ Core!Trap(ex.insn)
    BY <1>1, <1>5, <2>1, <2>2, RetireRefines
  <2> QED
    BY <2>1, <2>3 DEF Core!Next
<1>6. CASE ~ex.valid
  <2>1. rw' = RwBubble
    BY <1>1, <1>6 DEF BackEnd, ExecuteResult
  <2>2. csr' = ArchCsr /\ oldest = ArchPc
    BY <1>3, <1>4, <1>6 DEF ArchCsr, ArchPc
  <2>3. Core!Wait
    BY <1>1, <2>1, <2>2, BubbleRefines DEF Inv
  <2> QED
    BY <2>3 DEF Core!Next
<1> QED
  BY <1>5, <1>6

LEMMA NextRefines == Inv /\ [Next]_vars => [Core!Next]_(Core!vars)
<1> SUFFICES ASSUME Inv, [Next]_vars PROVE [Core!Next]_(Core!vars)
  OBVIOUS
<1>1. ASSUME NEW stall \in BOOLEAN, NEW fault \in BOOLEAN, NEW value \in Words,
             Flush(stall, fault, value)
      PROVE  Core!Next
  <2>1. BackEnd(stall, fault, value) /\ Flushes(stall, fault) /\ pc' = RedirectPc
    BY <1>1 DEF Flush
  <2>2. ~ex'.valid /\ ~id'.valid
    BY <1>1 DEF Flush, Bubble, ExBubble
  <2>3. CASE RwTraps \/ RwReturns
    <3>1. rw' = RwBubble /\ csr' = ArchCsr
      BY <2>1, <2>3, RedirectFacts DEF Inv
    <3>2. pc' = ArchPc
      BY <2>1, <2>3 DEF RedirectPc, ArchPc
    <3>3. Core!Wait
      BY <2>1, <2>2, <3>1, <3>2, BubbleRefines DEF Inv
    <3> QED
      BY <3>3 DEF Core!Next
  <2>4. CASE ~RwTraps /\ ~RwReturns
    <3>1. ex.valid /\ ~stall
      BY <2>1, <2>4 DEF Flushes, FlushReq
    <3>2. pc' = Follower(ex.insn, ex.pc, Src1, Src2)
      BY <2>1, <2>4 DEF RedirectPc
    <3>3. Core!Execute(ex.insn) \/ Core!Return(ex.insn) \/ Core!Trap(ex.insn)
      BY <2>1, <2>2, <3>1, <3>2, RetireRefines
    <3>4. ex.insn \in Insns
      BY <3>1 DEF Inv, InOrder
    <3> QED
      BY <3>3, <3>4 DEF Core!Next
  <2> QED
    BY <2>3, <2>4
<1>2. ASSUME NEW fault \in BOOLEAN, NEW value \in Words, Hold(fault, value)
      PROVE  Core!Next
  <2>1. BackEnd(TRUE, fault, value)
    BY <1>2 DEF Hold
  <2>2. /\ ex.valid /\ ~RwTraps /\ ~RwReturns
        /\ csr' = csr /\ rw' = RwBubble /\ UNCHANGED <<id, ex, bypass, pc, trapped>>
    BY <1>2, HoldFacts DEF Inv
  <2>3. csr' = ArchCsr /\ ArchPc = ex.pc /\ ex'.valid /\ ex'.pc = ex.pc
    BY <2>2 DEF ArchCsr, ArchPc
  <2>4. Core!Wait
    BY <2>1, <2>2, <2>3, BubbleRefines DEF Inv
  <2> QED
    BY <2>4 DEF Core!Next
<1>3. ASSUME NEW fault \in BOOLEAN, NEW value \in Words, DeliverNothing(fault, value)
      PROVE  Core!Next
  <2>1. Advance(fault, value) /\ ~id'.valid /\ pc' = pc
    BY <1>3 DEF DeliverNothing, Bubble
  <2> QED
    BY <2>1, AdvanceRefines
<1>4. ASSUME NEW fault \in BOOLEAN, NEW value \in Words, NEW insn \in Insns,
             Deliver(insn, fault, value)
      PROVE  Core!Next
  <2>1. Advance(fault, value) /\ id'.valid /\ id'.pc = pc
    BY <1>4 DEF Deliver
  <2> QED
    BY <2>1, AdvanceRefines
<1>5. CASE Reset
  <2>1. ~rw'.valid /\ ~ex'.valid /\ ~id'.valid /\ pc' = 0 /\ rw' = RwBubble
    BY <1>5 DEF Reset, Bubble, ExBubble, RwBubble
  <2>2. ~RwTraps' /\ ~RwReturns' /\ ~RwCommits'
    BY <2>1 DEF RwTraps, RwReturns, RwCommits, Returning
  <2>3. ArchRegs' = [r \in Regs |-> 0]
    BY <1>5, <2>2 DEF Reset, ArchRegs, NextRegs
  <2>4. ArchCsr' = CsrReset /\ ArchPc' = 0
    BY <1>5, <2>1, <2>2 DEF Reset, ArchCsr, ArchPc
  <2>5. Core!Reset
    BY <2>1, <2>3, <2>4, SameIsa DEF Core!Reset
  <2> QED
    BY <2>5 DEF Core!Next
<1>6. CASE UNCHANGED vars
  BY <1>6 DEF vars, stages, front, Core!vars, ArchRegs, ArchCsr, ArchPc, NextRegs,
              RwTraps, RwReturns, RwCommits, Returning
<1> QED
  BY <1>1, <1>2, <1>3, <1>4, <1>5, <1>6 DEF Next

\* The pipeline executes one instruction after the other, each with the values
\* its predecessors left and each completely or, when it traps, not at all.
THEOREM Refinement == Spec => ImplementsCore
<1>1. Init => Core!Init
  BY InitRefines
<1>2. Inv /\ [Next]_vars => [Core!Next]_(Core!vars)
  BY NextRefines
<1> QED
  BY <1>1, <1>2, Invariance, PTL DEF Spec, ImplementsCore, Core!Spec

-----------------------------------------------------------------------------
(* MulDiv: powers of two, by counting subsets. *)

LEMMA PowerCounts ==
  ASSUME NEW n \in Nat
  PROVE  /\ IsFiniteSet(SUBSET (1 .. n)) /\ Cardinality(SUBSET (1 .. n)) = 2 ^ n
         /\ 2 ^ n \in Nat \ {0}
<1>1. IsFiniteSet(1 .. n) /\ Cardinality(1 .. n) = n
  BY FS_Interval
<1>2. IsFiniteSet(SUBSET (1 .. n)) /\ Cardinality(SUBSET (1 .. n)) = 2 ^ n
  BY <1>1, FS_SUBSET
<1>3. SUBSET (1 .. n) # {}
  OBVIOUS
<1>4. QED
  BY <1>2, <1>3, FS_EmptySet, FS_CardinalityType

LEMMA PowerSum ==
  ASSUME NEW m \in Nat, NEW n \in Nat
  PROVE  2 ^ (m + n) = 2 ^ m * 2 ^ n
<1> DEFINE S == SUBSET (1 .. m)
           T == SUBSET (1 .. n)
           U == SUBSET (1 .. m + n)
           Moved(B) == {m + j : j \in B}
           f == [p \in S \X T |-> p[1] \cup Moved(p[2])]
<1>1. f \in [S \X T -> U]
  <2>1. ASSUME NEW p \in S \X T
        PROVE  p[1] \cup Moved(p[2]) \in U
    <3>1. p[1] \subseteq 1 .. m + n
      OBVIOUS
    <3>2. Moved(p[2]) \subseteq 1 .. m + n
      OBVIOUS
    <3>3. QED
      BY <3>1, <3>2
  <2> HIDE DEF S, T, U, Moved
  <2>2. QED
    BY <2>1
<1>2. ASSUME NEW p \in S \X T
      PROVE  /\ p[1] = {i \in f[p] : i <= m}
             /\ p[2] = {j \in 1 .. n : m + j \in f[p]}
  <2>1. f[p] = p[1] \cup Moved(p[2])
    OBVIOUS
  <2>2. p[1] \subseteq 1 .. m /\ p[2] \subseteq 1 .. n
    OBVIOUS
  <2>3. p[1] = {i \in f[p] : i <= m}
    BY <2>1, <2>2
  <2>4. p[2] = {j \in 1 .. n : m + j \in f[p]}
    BY <2>1, <2>2
  <2>5. QED
    BY <2>3, <2>4
<1>3. ASSUME NEW p \in S \X T, NEW q \in S \X T, f[p] = f[q]
      PROVE  p = q
  <2>1. p[1] = q[1] /\ p[2] = q[2]
    <3> HIDE DEF S, T, f
    <3>1. QED
      BY <1>2, <1>3
  <2>2. p = <<p[1], p[2]>> /\ q = <<q[1], q[2]>>
    OBVIOUS
  <2>3. QED
    BY <2>1, <2>2
<1>4. ASSUME NEW C \in U
      PROVE  \E p \in S \X T : f[p] = C
  <2> DEFINE A == {i \in C : i <= m}
             B == {j \in 1 .. n : m + j \in C}
  <2>1. A \in S /\ B \in T
    <3>1. C \subseteq 1 .. m + n
      OBVIOUS
    <3>2. A \subseteq 1 .. m /\ B \subseteq 1 .. n
      <4>1. ASSUME NEW i \in A
            PROVE  i \in 1 .. m
        <5>1. i \in 1 .. m + n /\ i <= m
          BY <3>1
        <5>2. QED
          BY <5>1
      <4>2. QED
        BY <4>1
    <3>3. QED
      BY <3>2
  <2>2. A \cup Moved(B) = C
    <3>1. ASSUME NEW i \in C, i > m
          PROVE  i \in Moved(B)
      <4>1. i - m \in 1 .. n /\ m + (i - m) = i
        BY <3>1
      <4>2. i - m \in B
        BY <4>1
      <4>3. QED
        BY <4>1, <4>2
    <3>2. \A i \in C : i \in A \/ i > m
      OBVIOUS
    <3>3. A \subseteq C /\ Moved(B) \subseteq C
      OBVIOUS
    <3> HIDE DEF A, B, Moved
    <3>4. QED
      BY <3>1, <3>2, <3>3
  <2> HIDE DEF A, B, S, T, Moved
  <2>3. f[<<A, B>>] = A \cup Moved(B)
    BY <2>1
  <2>4. QED
    BY <2>1, <2>2, <2>3
<1> HIDE DEF f
<1>5. f \in Bijection(S \X T, U)
  BY <1>1, <1>3, <1>4, Fun_IsBij
<1>6. ExistsBijection(S \X T, U)
  BY <1>5 DEF ExistsBijection
<1>7. /\ IsFiniteSet(S) /\ Cardinality(S) = 2 ^ m /\ IsFiniteSet(T) /\ Cardinality(T) = 2 ^ n
      /\ Cardinality(U) = 2 ^ (m + n)
  <2>1. m + n \in Nat
    OBVIOUS
  <2>2. QED
    BY <2>1, PowerCounts
<1> HIDE DEF S, T, U
<1>8. IsFiniteSet(S \X T) /\ Cardinality(S \X T) = 2 ^ m * 2 ^ n
  BY <1>7, FS_Product
<1>9. QED
  BY <1>6, <1>7, <1>8, FS_Bijection

LEMMA SmallPowers == 2 ^ 0 = 1 /\ 2 ^ 1 = 2
<1>1. SUBSET (1 .. 0) = {{}} /\ SUBSET (1 .. 1) = {{}} \cup {{1}}
  <2>1. 1 .. 0 = {} /\ 1 .. 1 = {1}
    OBVIOUS
  <2>2. QED
    BY <2>1
<1> DEFINE E == {{}}
<1>2. Cardinality(E) = 1 /\ IsFiniteSet(E) /\ {1} \notin E
  BY FS_Singleton
<1>3. Cardinality(E \cup {{1}}) = 2
  <2> HIDE DEF E
  <2>1. Cardinality(E \cup {{1}}) = Cardinality(E) + 1
    BY <1>2, FS_AddElement
  <2>2. QED
    BY <1>2, <2>1
<1>4. QED
  BY <1>1, <1>2, <1>3, PowerCounts

-----------------------------------------------------------------------------
(* Division of integers. *)

LEMMA DivisionTheorem ==
  ASSUME NEW x \in Int, NEW d \in Nat \ {0}
  PROVE  x \div d \in Int /\ x % d \in 0 .. d - 1 /\ x = d * (x \div d) + (x % d)
  OBVIOUS

LEMMA MultipleIsLarger ==
  ASSUME NEW d \in Nat, NEW e \in Int, e >= 1
  PROVE  d * e >= d
  OBVIOUS

LEMMA QuotientIsUnique ==
  ASSUME NEW x \in Int, NEW d \in Nat \ {0}, NEW q \in Int, NEW r \in 0 .. d - 1, x = d * q + r
  PROVE  x \div d = q /\ x % d = r
<1> DEFINE p == x \div d
           s == x % d
<1>1. p \in Int /\ s \in 0 .. d - 1 /\ d \in Nat /\ x = d * p + s
  BY DivisionTheorem
<1> HIDE DEF p, s
<1>2. d * (q - p) = s - r /\ d * (p - q) = r - s
  BY <1>1
<1>3. ~(q - p >= 1)
  <2> SUFFICES ASSUME q - p >= 1
               PROVE  FALSE
    OBVIOUS
  <2>1. d * (q - p) >= d
    BY <1>1, q - p \in Int, MultipleIsLarger
  <2> QED
    BY <1>1, <1>2, <2>1
<1>4. ~(p - q >= 1)
  <2> SUFFICES ASSUME p - q >= 1
               PROVE  FALSE
    OBVIOUS
  <2>1. d * (p - q) >= d
    BY <1>1, p - q \in Int, MultipleIsLarger
  <2> QED
    BY <1>1, <1>2, <2>1
<1>5. q = p
  BY <1>1, <1>3, <1>4
<1>6. r = s
  BY <1>1, <1>5
<1> QED
  BY <1>5, <1>6 DEF p, s

LEMMA TimesGrows ==
  ASSUME NEW a \in Nat, NEW b \in Nat \ {0}
  PROVE  a * b \in Nat /\ a <= a * b
<1>1. a * b \in Nat /\ a * b = b * a
  OBVIOUS
<1>2. CASE a = 0
  BY <1>2
<1>3. b >= 1 /\ b \in Int
  OBVIOUS
<1>4. a * b >= a
  BY MultipleIsLarger, <1>3
<1> QED
  BY <1>1, <1>4

LEMMA TimesLess ==
  ASSUME NEW a \in Nat, NEW b \in Nat, a < b, NEW h \in Nat \ {0}
  PROVE  a * h \in Nat /\ a * h < b * h
<1>1. (b - a) * h >= h
  <2>1. b - a \in Int /\ b - a >= 1 /\ h * (b - a) = (b - a) * h
    OBVIOUS
  <2> QED
    BY <2>1, MultipleIsLarger
<1>2. (b - a) * h = (b * h) - (a * h) /\ a * h \in Nat /\ b * h \in Nat
  OBVIOUS
<1> QED
  BY <1>1, <1>2

LEMMA SmallQuotients ==
  ASSUME NEW d \in Nat \ {0}, NEW r \in 0 .. d - 1
  PROVE  r \div d = 0 /\ r % d = r /\ (d + r) \div d = 1 /\ (d + r) % d = r
<1>1. r = (d * 0) + r /\ d + r = (d * 1) + r /\ r \in Int /\ d + r \in Int /\ 0 \in Int /\ 1 \in Int
  OBVIOUS
<1> QED
  BY <1>1, QuotientIsUnique

\* Shifting `low', which is below 2 * V and scaled by h, moves its top bit out.
ShiftsOut(h, V, low, half) ==
  \E b \in {0, 1}, rest \in 0 .. V - 1 :
    /\ low = b * V + rest
    /\ (low * h) \div half = b
    /\ (2 * (low * h)) % (2 * half) = rest * (2 * h)

LEMMA ShiftOut ==
  ASSUME NEW h \in Nat \ {0}, NEW V \in Nat \ {0}, NEW low \in 0 .. 2 * V - 1,
         NEW half, half = h * V
  PROVE  ShiftsOut(h, V, low, half)
<1>1. half \in Nat \ {0} /\ 2 * half \in Nat \ {0}
  BY TimesGrows
<1> DEFINE x == low * h
<1>2. CASE low < V
  <2>1. x \in Nat /\ x < half
    BY <1>2, TimesLess
  <2>2. 2 * x = low * (2 * h) /\ low = 0 * V + low /\ low \in 0 .. V - 1
    BY <1>2
  <2> HIDE DEF x
  <2>3. x \in 0 .. half - 1 /\ 2 * x \in 0 .. (2 * half) - 1
    BY <2>1, <1>1
  <2>4. x \div half = 0 /\ (2 * x) % (2 * half) = 2 * x
    BY <2>3, SmallQuotients, <1>1
  <2> QED
    BY <2>2, <2>4 DEF x, ShiftsOut
<1>3. CASE low >= V
  <2> DEFINE rest == low - V
             y == rest * h
  <2>1. rest \in 0 .. V - 1 /\ rest \in Nat /\ rest < V /\ low = 1 * V + rest
    BY <1>3
  <2>2. y \in Nat /\ y < half
    BY <2>1, TimesLess
  <2>3. x = half + y /\ 2 * y = rest * (2 * h)
    BY <2>1
  <2> HIDE DEF rest, y, x
  <2>4. y \in 0 .. half - 1 /\ 2 * y \in 0 .. (2 * half) - 1 /\ 2 * x = (2 * half) + 2 * y
    BY <2>2, <2>3, <1>1
  <2>5. (half + y) \div half = 1 /\ ((2 * half) + 2 * y) % (2 * half) = 2 * y
    BY <2>4, SmallQuotients, <1>1
  <2>6. x \div half = 1 /\ (2 * x) % (2 * half) = rest * (2 * h)
    BY <2>3, <2>4, <2>5
  <2> QED
    BY <2>1, <2>6 DEF x, ShiftsOut
<1> QED
  BY <1>2, <1>3

LEMMA NextBit ==
  ASSUME NEW D \in Nat, NEW q \in Nat, NEW diff \in Nat, NEW V \in Nat, NEW rest \in Nat,
         NEW b \in {0, 1}, NEW c \in {0, 1}, NEW r, r = c * D + diff
  PROVE  ((2 * (q * D) + r) * (2 * V)) + (b * V + rest)
           = ((2 * ((2 * q + c) * D) + (2 * diff + b)) * V) + rest
  OBVIOUS

LEMMA Bounded ==
  ASSUME NEW D \in Nat \ {0}, NEW q \in Nat, NEW c \in {0, 1}, NEW diff \in Nat, NEW r, r = c * D + diff,
         NEW W \in Nat \ {0}, NEW low \in Nat, NEW A \in Nat, A = ((2 * (q * D) + r) * W) + low
  PROVE  2 * q + c <= A
<1> DEFINE n == 2 * q + c
           P == 2 * (q * D) + r
<1>1. P = n * D + diff /\ n \in Nat
  OBVIOUS
<1>2. n * D \in Nat /\ n <= n * D
  BY <1>1, TimesGrows
<1>3. P \in Nat /\ n <= P
  BY <1>1, <1>2
<1>4. P * W \in Nat /\ P <= P * W /\ A = P * W + low
  BY <1>3, TimesGrows
<1> HIDE DEF n, P
<1>5. n <= A
  BY <1>1, <1>3, <1>4
<1> QED
  BY <1>5 DEF n

LEMMA Halves ==
  ASSUME NEW x \in Int, NEW M \in Nat \ {0}
  PROVE  (x % (M * M)) % M = x % M /\ (x % (M * M)) \div M = (x \div M) % M
<1> DEFINE y == x \div M
           v == x % M
           u == y \div M
           w == y % M
           s == M * w + v
<1>1. y \in Int /\ v \in 0 .. M - 1 /\ x = M * y + v
  BY DivisionTheorem
<1>2. u \in Int /\ w \in 0 .. M - 1 /\ y = M * u + w
  BY DivisionTheorem, <1>1
<1> HIDE DEF y, v, u, w
<1>3. M * M \in Nat \ {0}
  BY TimesGrows
<1>4. s \in 0 .. (M * M) - 1
  <2>1. w \in Nat /\ w + 1 \in Nat /\ M - (w + 1) \in Nat
    BY <1>2
  <2>2. (M - (w + 1)) * M \in Nat /\ w * M \in Nat
    BY <2>1
  <2>3. (M - (w + 1)) * M = (M * M) - (M * w + M)
    BY <2>1
  <2>4. M * w + M <= M * M /\ M * w \in Nat
    BY <2>1, <2>2, <2>3, <1>3
  <2> QED
    BY <1>1, <1>3, <2>4
<1>5. x = ((M * M) * u) + s
  BY <1>1, <1>2
<1>6. s \div M = w /\ s % M = v
  <2>1. s \in Int /\ w \in Int /\ v \in 0 .. M - 1 /\ s = M * w + v
    BY <1>1, <1>2
  <2> HIDE DEF s
  <2> QED
    BY <2>1, QuotientIsUnique
<1> HIDE DEF s
<1>7. x % (M * M) = s
  <2> DEFINE Q == M * M
  <2>1. Q \in Nat \ {0} /\ s \in 0 .. Q - 1 /\ x = (Q * u) + s
    BY <1>3, <1>4, <1>5
  <2> HIDE DEF Q
  <2>2. x % Q = s
    BY <2>1, <1>2, QuotientIsUnique
  <2> QED
    BY <2>2 DEF Q
<1> QED
  BY <1>6, <1>7 DEF w, y, v


-----------------------------------------------------------------------------
(* The invariant of the units. *)

Skips == request.src2 = 0 \/ Overflows

\* What DivUnit has taken for the instruction in the execute stage.
Latches ==
  /\ ~Skips /\ divisor = Abs(request.src2)
  /\ quotient_negative = (IsSigned /\ (Negative(request.src1) # Negative(request.src2)))
  /\ remnant_negative = (IsSigned /\ Negative(request.src1))

\* The loop has divided the first `counter' bits of the dividend, but for the last comparison; the other
\* bits, `low', are at the upper end of the shifter.
LoopInv ==
  /\ counter \in 0 .. Bits
  /\ quotient \in Nat /\ dividend \in 0 .. 2 * divisor - 1
  /\ \E low \in 0 .. 2^(Bits - counter) - 1 :
       /\ Abs(request.src1) = ((2 * (quotient * divisor) + dividend) * 2^(Bits - counter)) + low
       /\ dividend_shifter = low * 2^counter

\* What the divider holds when it is done.
Answered ==
  IF Skips
  THEN /\ quotient = (IF request.src2 = 0 THEN 2^Bits - 1 ELSE request.src1)
       /\ dividend = (IF request.src2 = 0 THEN Abs(request.src1) ELSE 0)
       /\ ~quotient_negative /\ ~remnant_negative
  ELSE /\ Latches
       /\ quotient = Abs(request.src1) \div divisor
       /\ dividend = Abs(request.src1) % divisor

\* The unit of an instruction that found it idle has the answer when it is done, and is on the way to it
\* before.
MulInv ==
  fresh /\ request.valid /\ request.command \in MulCommands /\ mul_state = "Done" =>
    mul_result = Product
DivInv ==
  fresh /\ request.valid /\ request.command \in DivCommands =>
    /\ div_state = "Process" => Latches /\ LoopInv
    /\ div_state = "Done" => Answered
Typed == request \in MulDivInsns \cup {NoMulDiv}
MulDivInv == Typed /\ MulInv /\ DivInv

-----------------------------------------------------------------------------
(* The divider keeps it. *)

LEMMA Sizes ==
  /\ Bits \in Nat /\ Bits >= 2 /\ Bits - 1 \in Nat
  /\ 2^Bits \in Nat \ {0} /\ 2^(Bits - 1) \in Nat \ {0}
  /\ 2^Bits = 2 * 2^(Bits - 1)
  /\ 2^(2 * Bits) = 2^Bits * 2^Bits
<1>1. Bits \in Nat /\ Bits - 1 \in Nat /\ 1 \in Nat /\ Bits = 1 + (Bits - 1) /\ 2 * Bits = Bits + Bits
  BY BitsAssumption
<1>2. 2^(1 + (Bits - 1)) = 2^1 * 2^(Bits - 1) /\ 2^(Bits + Bits) = 2^Bits * 2^Bits
  BY <1>1, PowerSum
<1>3. 2^Bits \in Nat \ {0} /\ 2^(Bits - 1) \in Nat \ {0}
  BY <1>1, PowerCounts
<1> QED
  BY <1>1, <1>2, <1>3, SmallPowers, BitsAssumption

LEMMA Splits ==
  ASSUME NEW k \in 0 .. Bits - 1
  PROVE  /\ 2^k \in Nat \ {0} /\ 2^(Bits - k) \in Nat \ {0} /\ 2^(Bits - (k + 1)) \in Nat \ {0}
         /\ 2^(k + 1) = 2 * 2^k
         /\ 2^(Bits - k) = 2 * 2^(Bits - (k + 1))
         /\ 2^(Bits - 1) = 2^k * 2^(Bits - (k + 1))
<1> DEFINE j == Bits - (k + 1)
<1>1. /\ k \in Nat /\ j \in Nat /\ Bits - k \in Nat /\ 1 \in Nat
      /\ k + 1 = 1 + k /\ Bits - k = 1 + j /\ Bits - 1 = k + j
  BY BitsAssumption
<1> HIDE DEF j
<1>2. 2^(1 + k) = 2^1 * 2^k /\ 2^(1 + j) = 2^1 * 2^j /\ 2^(k + j) = 2^k * 2^j
  BY <1>1, PowerSum
<1>3. 2^k \in Nat \ {0} /\ 2^(Bits - k) \in Nat \ {0} /\ 2^j \in Nat \ {0}
  BY <1>1, PowerCounts
<1>4. 2^(k + 1) = 2 * 2^k /\ 2^(Bits - k) = 2 * 2^j /\ 2^(Bits - 1) = 2^k * 2^j
  BY <1>1, <1>2, SmallPowers
<1> QED
  BY <1>3, <1>4 DEF j

LEMMA RequestTypes ==
  ASSUME Typed
  PROVE  request.src1 \in MulDivWords /\ request.src2 \in MulDivWords
<1>1. 0 \in MulDivWords
  BY Sizes DEF MulDivWords
<1>2. CASE request \in MulDivInsns
  <2>1. request.src1 \in Operands /\ request.src2 \in Operands
    BY <1>2 DEF MulDivInsns
  <2> QED
    BY <2>1, OperandsAssumption
<1>3. CASE request = NoMulDiv
  BY <1>1, <1>3 DEF NoMulDiv
<1> QED
  BY <1>2, <1>3 DEF Typed

LEMMA AbsTypes ==
  ASSUME NEW x \in MulDivWords
  PROVE  Abs(x) \in 0 .. 2^Bits - 1 /\ (Abs(x) = 0 <=> x = 0)
  BY Sizes DEF MulDivWords, Abs, Negative

LEMMA StartsDividing ==
  ASSUME Typed, DivStart, request' = request
  PROVE  (div_state' = "Process" => (Latches /\ LoopInv)') /\ (div_state' = "Done" => Answered')
<1>1. /\ IsSigned' = IsSigned /\ Skips' = Skips
      /\ \A x : Abs(x)' = Abs(x) /\ Negative(x)' = Negative(x)
  BY DEF DivStart, IsSigned, Skips, Overflows, Abs, Negative
<1>2. CASE Skips
  <2>1. div_state' = "Done" /\ Answered'
    BY <1>1, <1>2 DEF DivStart, Answered, Skips
  <2> QED
    BY <2>1
<1>3. CASE ~Skips
  <2> DEFINE A == Abs(request.src1)
             D == Abs(request.src2)
  <2>1. A \in 0 .. 2^Bits - 1 /\ D \in 1 .. 2^Bits - 1 /\ A \div 2^Bits = 0 /\ A % 2^Bits = A
    <3>1. A \in 0 .. 2^Bits - 1 /\ D \in 0 .. 2^Bits - 1 /\ D # 0
      BY <1>3, RequestTypes, AbsTypes DEF Skips
    <3> HIDE DEF A, D
    <3> QED
      BY <3>1, Sizes, SmallQuotients
  <2>2. /\ div_state' = "Process" /\ counter' = 0 /\ quotient' = 0
        /\ dividend' = A \div 2^Bits /\ dividend_shifter' = A % 2^Bits /\ divisor' = D
    BY <1>3 DEF DivStart, Skips, Wrap
  <2>3. Latches'
    BY <1>1, <1>3, <2>2 DEF DivStart, Latches, Skips
  <2>4. Abs(request.src1)' = A
    BY <1>1
  <2>5. LoopInv'
    <3> HIDE DEF A, D
    <3>1. 0 \in 0 .. Bits /\ Bits - 0 = Bits
      BY Sizes
    <3>2. quotient' \in Nat /\ dividend' \in 0 .. 2 * divisor' - 1
      BY <2>1, <2>2
    <3>3. A = ((2 * (quotient' * divisor') + dividend') * 2^(Bits - 0)) + A /\ dividend_shifter' = A * 2^0
      BY <2>1, <2>2, SmallPowers, Sizes
    <3> QED
      BY <2>1, <2>2, <2>4, <3>1, <3>2, <3>3 DEF LoopInv
  <2> QED
    BY <2>2, <2>3, <2>5
<1> QED
  BY <1>2, <1>3

LEMMA KeepsDividing ==
  ASSUME Typed, Latches, LoopInv, DivStep, request' = request
  PROVE  (div_state' = "Process" => (Latches /\ LoopInv)') /\ (div_state' = "Done" => Answered')
<1> DEFINE A == Abs(request.src1)
           D == divisor
           c == IF Fits THEN 1 ELSE 0
           next == 2 * quotient + c
<1>1. /\ IsSigned' = IsSigned /\ Skips' = Skips
      /\ \A x : Abs(x)' = Abs(x) /\ Negative(x)' = Negative(x)
  BY DEF IsSigned, Skips, Overflows, Abs, Negative
<1>2. Latches'
  BY <1>1 DEF DivStep, Latches
<1>3. A \in 0 .. 2^Bits - 1 /\ D \in 1 .. 2^Bits - 1
  BY RequestTypes, AbsTypes DEF Latches, Skips
<1>4. PICK low \in 0 .. 2^(Bits - counter) - 1 :
        /\ A = ((2 * (quotient * D) + dividend) * 2^(Bits - counter)) + low
        /\ dividend_shifter = low * 2^counter
  BY DEF LoopInv
<1>5. quotient \in Nat /\ dividend \in 0 .. 2 * D - 1 /\ counter \in 0 .. Bits
  BY DEF LoopInv
<1>6. /\ c \in {0, 1} /\ Difference \in 0 .. D - 1 /\ dividend = c * D + Difference
      /\ next \in Nat
  <2>1. CASE Fits
    BY <1>3, <1>5, <2>1 DEF Fits, Difference
  <2>2. CASE ~Fits
    BY <1>3, <1>5, <2>2 DEF Fits, Difference
  <2> QED
    BY <2>1, <2>2
<1> HIDE DEF A, D, c
<1>7. next \in 0 .. 2^Bits - 1 /\ quotient' = next
  <2>1. 2^(Bits - counter) \in Nat \ {0}
    BY <1>5, Sizes, PowerCounts
  <2>2. next <= A
    BY <1>3, <1>4, <1>5, <1>6, <2>1, Bounded
  <2>3. next \in 0 .. 2^Bits - 1
    <3> HIDE DEF next
    <3> QED
      BY <1>3, <1>6, <2>2, Sizes
  <2>4. quotient' = next % 2^Bits
    BY DEF DivStep, Wrap, c
  <2> HIDE DEF next
  <2> QED
    BY <2>3, <2>4, Sizes, SmallQuotients
<1>8. CASE IsLastStep
  <2>1. counter = Bits /\ Bits - counter = 0 /\ div_state' = "Done" /\ dividend' = Difference /\ divisor' = D
    BY <1>5, <1>8, Sizes DEF IsLastStep, DivStep, D
  <2>2. A = 2 * (quotient * D) + dividend
    BY <1>3, <1>4, <1>5, <2>1, SmallPowers
  <2>3. A = D * next + Difference
    BY <1>3, <1>5, <1>6, <2>2
  <2> HIDE DEF next
  <2>4. next = A \div D /\ Difference = A % D
    BY <1>3, <1>6, <1>7, <2>3, QuotientIsUnique
  <2>5. ~Skips' /\ Abs(request.src1)' = A
    BY <1>1 DEF Latches, A
  <2> QED
    BY <1>2, <1>7, <2>1, <2>4, <2>5 DEF Answered
<1>9. CASE ~IsLastStep
  <2> DEFINE V == 2^(Bits - (counter + 1))
             half == 2^(Bits - 1)
  <2>1. counter \in 0 .. Bits - 1 /\ counter + 1 \in 0 .. Bits
    BY <1>5, <1>9, Sizes DEF IsLastStep
  <2>2. /\ 2^counter \in Nat \ {0} /\ V \in Nat \ {0} /\ 2^(counter + 1) = 2 * 2^counter
        /\ 2^(Bits - counter) = 2 * V /\ half = 2^counter * V
    BY <2>1, Splits
  <2>3. 2^Bits = 2 * half
    BY Sizes
  <2> HIDE DEF V, half
  <2>4. PICK b \in {0, 1}, rest \in 0 .. V - 1 :
          /\ low = b * V + rest
          /\ (low * 2^counter) \div half = b
          /\ (2 * (low * 2^counter)) % (2 * half) = rest * (2 * 2^counter)
    <3> DEFINE h == 2^counter
    <3>1. h \in Nat \ {0} /\ V \in Nat \ {0} /\ low \in 0 .. 2 * V - 1 /\ half = h * V
      BY <1>4, <2>2
    <3> HIDE DEF h
    <3>2. ShiftsOut(h, V, low, half)
      BY <3>1, ShiftOut
    <3> QED
      BY <3>2 DEF h, ShiftsOut
  <2>5. Wrap(Difference) = Difference
    BY <1>3, <1>6, Sizes, SmallQuotients DEF Wrap
  <2>6. /\ div_state' = "Process" /\ counter' = counter + 1 /\ divisor' = D
        /\ dividend_shifter' = rest * 2^(counter + 1)
        /\ dividend' = 2 * Difference + b
    BY <1>4, <1>9, <2>2, <2>3, <2>4, <2>5 DEF DivStep, Wrap, D, half
  <2>7. A = ((2 * (next * D) + dividend') * V) + rest
    <3>1. A = ((2 * (quotient * D) + dividend) * (2 * V)) + (b * V + rest)
      BY <1>4, <2>2, <2>4
    <3>2. D \in Nat /\ V \in Nat /\ rest \in Nat /\ Difference \in Nat
      BY <1>3, <1>6, <2>2
    <3>3. (2 * (quotient * D) + dividend) * (2 * V) + (b * V + rest)
            = ((2 * (next * D) + (2 * Difference + b)) * V) + rest
      BY <1>5, <1>6, <3>2, NextBit
    <3> HIDE DEF next
    <3> QED
      BY <2>6, <3>1, <3>3
  <2>8. dividend' \in 0 .. 2 * D - 1
    BY <1>3, <1>6, <2>6
  <2>9. Abs(request.src1)' = A
    BY <1>1 DEF A
  <2>10. LoopInv'
    <3> HIDE DEF next
    <3>1. /\ rest \in 0 .. 2^(Bits - counter') - 1
          /\ A = ((2 * (quotient' * divisor') + dividend') * 2^(Bits - counter')) + rest
          /\ dividend_shifter' = rest * 2^counter'
      BY <1>7, <2>6, <2>7 DEF V
    <3> QED
      BY <1>7, <2>1, <2>6, <2>8, <2>9, <3>1 DEF LoopInv
  <2> QED
    BY <1>2, <2>6, <2>10
<1> QED
  BY <1>8, <1>9

-----------------------------------------------------------------------------
(* What the invariant says of the results. *)

LEMMA ValueTypes ==
  ASSUME NEW x \in MulDivWords
  PROVE  x \in Int /\ Value(x, TRUE) \in Int
  BY Sizes DEF Value, MulDivWords

LEMMA Multiplies ==
  ASSUME Typed, request.command \in MulCommands, mul_result = Product
  PROVE  Result = Meaning(request.command, request.src1, request.src2)
<1> DEFINE a == request.src1
           b == request.src2
           M == 2^Bits
           va == Value(a, request.command \in {"mulh", "mulhsu"})
           vb == Value(b, request.command = "mulh")
           x == va * vb
<1>1. a \in MulDivWords /\ b \in MulDivWords
  BY RequestTypes
<1>2. va \in Int /\ vb \in Int /\ x \in Int /\ M \in Nat \ {0}
  <2>1. va \in Int /\ vb \in Int
    <3>1. /\ va = (IF request.command \in {"mulh", "mulhsu"} THEN Value(a, TRUE) ELSE a)
          /\ vb = (IF request.command = "mulh" THEN Value(b, TRUE) ELSE b)
      BY DEF Value
    <3>2. Value(a, TRUE) \in Int /\ Value(b, TRUE) \in Int /\ a \in Int /\ b \in Int
      BY <1>1, ValueTypes
    <3> HIDE DEF a, b, va, vb
    <3> QED
      BY <3>1, <3>2
  <2> HIDE DEF va, vb
  <2> QED
    BY <2>1, Sizes
<1>3. mul_result = x % (M * M)
  BY Sizes DEF Product
<1>4. MulResult = IF request.command = "mul" THEN x % M ELSE (x \div M) % M
  <2> HIDE DEF x, M
  <2>1. (x % (M * M)) % M = x % M /\ (x % (M * M)) \div M = (x \div M) % M
    BY <1>2, Halves
  <2> QED
    BY <1>3, <2>1 DEF MulResult, Wrap, M
<1>5. /\ va = (IF request.command \in {"mulh", "mulhsu"} THEN Value(a, TRUE) ELSE a)
      /\ vb = (IF request.command = "mulh" THEN Value(b, TRUE) ELSE b)
  BY DEF Value
<1>6. Result = MulResult
  BY DEF Result
<1> HIDE DEF va, vb
<1>7. CASE request.command = "mul"
  BY <1>4, <1>5, <1>6, <1>7 DEF Meaning, Wrap
<1>8. CASE request.command = "mulh"
  BY <1>4, <1>5, <1>6, <1>8 DEF Meaning, Wrap, High
<1>9. CASE request.command = "mulhsu"
  BY <1>4, <1>5, <1>6, <1>9 DEF Meaning, Wrap, High
<1>10. CASE request.command = "mulhu"
  BY <1>4, <1>5, <1>6, <1>10 DEF Meaning, Wrap, High
<1> QED
  BY <1>7, <1>8, <1>9, <1>10 DEF MulCommands

\* The signs of division, without the widths of words.
LEMMA SignsOfDivision ==
  ASSUME NEW sa \in Int, NEW sb \in Int, sb # 0
  PROVE  LET q == Magnitude(sa) \div Magnitude(sb)
             r == Magnitude(sa) % Magnitude(sb)
         IN  /\ q \in Nat /\ r \in Nat /\ q <= Magnitude(sa) /\ r < Magnitude(sb)
             /\ Truncated(sa, sb) = IF (sa < 0) = (sb < 0) THEN q ELSE -q
             /\ sa - sb * Truncated(sa, sb) = IF sa < 0 THEN -r ELSE r
<1> DEFINE A == Magnitude(sa)
           D == Magnitude(sb)
           q == A \div D
           r == A % D
<1>1. A \in Nat /\ D \in Nat \ {0}
  BY DEF Magnitude
<1>2. /\ sa = (IF sa < 0 THEN -A ELSE A) /\ sb = (IF sb < 0 THEN -D ELSE D)
      /\ Truncated(sa, sb) = IF (sa < 0) = (sb < 0) THEN q ELSE -q
  BY DEF Magnitude, Truncated
<1> HIDE DEF A, D
<1>3. q \in Int /\ r \in 0 .. D - 1 /\ A = D * q + r
  BY <1>1, DivisionTheorem
<1> HIDE DEF q, r
<1>4. q \in Nat /\ q <= A
  <2>1. CASE q < 0
    <3>1. D * (-q) >= D
      BY <2>1, <1>1, <1>3, MultipleIsLarger
    <3>2. D * (-q) = -(D * q)
      BY <1>1, <1>3
    <3> QED
      BY <3>1, <3>2, <1>1, <1>3
  <2>2. CASE q >= 0
    <3>1. q \in Nat
      BY <2>2, <1>3
    <3>2. q <= q * D /\ q * D = D * q /\ q * D \in Nat
      BY <3>1, <1>1, TimesGrows
    <3> QED
      BY <3>1, <3>2, <1>1, <1>3
  <2> QED
    BY <2>1, <2>2, <1>3
<1>5. sa - sb * Truncated(sa, sb) = IF sa < 0 THEN -r ELSE r
  <2>1. CASE sa < 0 /\ sb < 0
    <3>1. sa = -A /\ sb = -D /\ Truncated(sa, sb) = q
      BY <1>2, <2>1
    <3> QED
      BY <1>1, <1>3, <2>1, <3>1
  <2>2. CASE sa < 0 /\ ~(sb < 0)
    <3>1. sa = -A /\ sb = D /\ Truncated(sa, sb) = -q
      BY <1>2, <2>2
    <3> QED
      BY <1>1, <1>3, <2>2, <3>1
  <2>3. CASE ~(sa < 0) /\ sb < 0
    <3>1. sa = A /\ sb = -D /\ Truncated(sa, sb) = -q
      BY <1>2, <2>3
    <3> QED
      BY <1>1, <1>3, <2>3, <3>1
  <2>4. CASE ~(sa < 0) /\ ~(sb < 0)
    <3>1. sa = A /\ sb = D /\ Truncated(sa, sb) = q
      BY <1>2, <2>4
    <3> QED
      BY <1>1, <1>3, <2>4, <3>1
  <2> QED
    BY <2>1, <2>2, <2>3, <2>4
<1> QED
  BY <1>1, <1>2, <1>3, <1>4, <1>5 DEF q, r, A, D

LEMMA SignedValues ==
  ASSUME Typed, NEW x \in MulDivWords
  PROVE  /\ IsSigned => Abs(x) = Magnitude(Value(x, TRUE))
         /\ ~IsSigned => Abs(x) = x
         /\ (Value(x, TRUE) < 0) <=> Negative(x)
         /\ x # 0 => Value(x, TRUE) # 0
         /\ x \in Int /\ Value(x, TRUE) \in Int
         /\ x % 2^Bits = x
<1>1. x \in 0 .. 2^Bits - 1 /\ x \in Int
  BY Sizes DEF MulDivWords
<1>2. x % 2^Bits = x
  BY <1>1, Sizes, SmallQuotients
<1>3. 2^(Bits - 1) \in Nat \ {0} /\ 2^Bits = 2 * 2^(Bits - 1)
  BY Sizes
<1>4. CASE Negative(x)
  <2>1. Value(x, TRUE) = x - 2^Bits /\ x >= 2^(Bits - 1)
    BY <1>4 DEF Value, Negative
  <2>2. Magnitude(Value(x, TRUE)) = 2^Bits - x /\ Value(x, TRUE) < 0 /\ Value(x, TRUE) \in Int
    <3> DEFINE M == 2^Bits
               v == Value(x, TRUE)
    <3>1. v < 0 /\ v \in Int /\ v = x - M /\ x \in Int /\ M \in Int
      <4>1. v = x - M /\ x \in 0 .. M - 1 /\ M \in Nat
        BY <1>1, <2>1, Sizes
      <4> HIDE DEF M, v
      <4> QED
        BY <4>1
    <3> HIDE DEF M, v
    <3>2. Magnitude(v) = M - x
      BY <3>1 DEF Magnitude
    <3> QED
      BY <3>1, <3>2 DEF M, v
  <2>3. Abs(x) = IF IsSigned THEN 2^Bits - x ELSE x
    BY <1>4 DEF Abs
  <2>4. Value(x, TRUE) # 0
    <3> DEFINE v == Value(x, TRUE)
    <3>1. v < 0 /\ v \in Int
      BY <2>2
    <3> HIDE DEF v
    <3>2. v # 0
      BY <3>1
    <3> QED
      BY <3>2 DEF v
  <2>5. IsSigned => Abs(x) = Magnitude(Value(x, TRUE))
    BY <2>2, <2>3
  <2>6. ~IsSigned => Abs(x) = x
    BY <2>3
  <2> QED
    BY <1>1, <1>2, <1>4, <2>2, <2>4, <2>5, <2>6
<1>5. CASE ~Negative(x)
  <2>1. Value(x, TRUE) = x /\ Abs(x) = x /\ Magnitude(x) = x /\ ~(x < 0)
    BY <1>1, <1>5 DEF Value, Abs, Magnitude
  <2> QED
    BY <1>1, <1>2, <1>5, <2>1
<1> QED
  BY <1>4, <1>5

LEMMA AnswersSkipped ==
  ASSUME Typed, request.command \in DivCommands, Answered, ~NegativeByZero, Skips
  PROVE  Result = Meaning(request.command, request.src1, request.src2)
<1> DEFINE a == request.src1
           b == request.src2
           M == 2^Bits
           half == 2^(Bits - 1)
<1>1. a \in MulDivWords /\ b \in MulDivWords
  BY RequestTypes
<1>2. /\ quotient = (IF b = 0 THEN M - 1 ELSE a)
      /\ dividend = (IF b = 0 THEN Abs(a) ELSE 0)
      /\ DivQuotient = quotient /\ DivRemnant = Wrap(dividend)
  BY DEF Answered, DivQuotient, DivRemnant
<1>3. Result = IF request.command \in {"div", "divu"} THEN quotient ELSE Wrap(dividend)
  BY <1>2 DEF Result, DivCommands, MulCommands
<1>4. CASE b = 0
  <2>1. request.command \in {"rem", "remu"} => Abs(a) = a
    BY <1>4 DEF NegativeByZero, Abs, IsSigned
  <2>2. Wrap(a) = a
    BY <1>1, SignedValues DEF Wrap
  <2>3. Result = IF request.command \in {"div", "divu"} THEN M - 1 ELSE a
    BY <1>2, <1>3, <1>4, <2>1, <2>2 DEF DivCommands
  <2> QED
    BY <1>4, <2>3 DEF Meaning, DivCommands
<1>5. CASE b # 0
  <2>1. IsSigned /\ a = half /\ b = M - 1 /\ M = 2 * half /\ half \in Nat \ {0}
    BY <1>5, Sizes DEF Skips, Overflows
  <2> DEFINE sa == Value(a, TRUE)
             sb == Value(b, TRUE)
  <2>2. sa = -half /\ sb = -1
    BY <2>1 DEF Value, Negative
  <2>3. Truncated(sa, sb) = half
    <3>1. Magnitude(sa) = half /\ Magnitude(sb) = 1 /\ (sa < 0) = (sb < 0)
      <4> HIDE DEF half, sa, sb
      <4>1. half \in Int /\ half > 0 /\ sa = -half /\ sb = -1
        <5>1. half \in Nat \ {0} /\ sa = -half /\ sb = -1
          BY <2>1, <2>2
        <5> QED
          BY <5>1
      <4>2. sb < 0 /\ Magnitude(sb) = 1
        <5>1. sb \in Int /\ sb + 1 = 0
          BY <4>1
        <5>2. sb < 0 /\ 0 - sb = 1
          BY <5>1
        <5> QED
          BY <5>1, <5>2 DEF Magnitude
      <4>3. sa < 0
        BY <4>1
      <4>4. Magnitude(sa) = half
        BY <4>1, <4>3 DEF Magnitude
      <4> QED
        BY <4>2, <4>3, <4>4
    <3>2. half \div 1 = half
      <4>1. half \in Int /\ 1 \in Nat \ {0} /\ 0 \in 0 .. 1 - 1 /\ half = (1 * half) + 0
        BY <2>1
      <4> HIDE DEF half
      <4> QED
        BY <4>1, QuotientIsUnique
    <3> HIDE DEF half, sa, sb
    <3> QED
      BY <3>1, <3>2 DEF Truncated
  <2>4. sa - sb * Truncated(sa, sb) = 0 /\ Wrap(half) = half /\ Wrap(0) = 0
    <3>1. half \in 0 .. M - 1 /\ 0 \in 0 .. M - 1 /\ M \in Nat \ {0}
      BY <2>1
    <3>2. half % M = half /\ 0 % M = 0
      <4> HIDE DEF half, M
      <4> QED
        BY <3>1, SmallQuotients
    <3>3. sa - sb * half = 0
      <4> HIDE DEF half, sa, sb
      <4> QED
        BY <2>1, <2>2
    <3> QED
      BY <2>3, <3>2, <3>3 DEF Wrap
  <2>5. Result = IF request.command = "div" THEN half ELSE 0
    BY <1>2, <1>3, <1>5, <2>1, <2>4 DEF IsSigned
  <2> HIDE DEF half, M, sa, sb
  <2>6. CASE request.command = "div"
    BY <1>5, <2>3, <2>4, <2>5, <2>6 DEF Meaning, sa, sb
  <2>7. CASE request.command = "rem"
    BY <1>5, <2>3, <2>4, <2>5, <2>7 DEF Meaning, sa, sb
  <2> QED
    BY <2>1, <2>6, <2>7 DEF IsSigned
<1> QED
  BY <1>4, <1>5

LEMMA AnswersDivided ==
  ASSUME Typed, request.command \in DivCommands, Answered, ~Skips
  PROVE  Result = Meaning(request.command, request.src1, request.src2)
<1> DEFINE a == request.src1
           b == request.src2
           sa == Value(a, TRUE)
           sb == Value(b, TRUE)
           q == quotient
           r == dividend
<1>1. a \in MulDivWords /\ b \in MulDivWords /\ b # 0
  BY RequestTypes DEF Skips
<1>2. /\ Latches
      /\ q = Abs(a) \div Abs(b) /\ r = Abs(a) % Abs(b)
  BY DEF Answered, Latches
<1>3. Abs(a) \in 0 .. 2^Bits - 1 /\ Abs(b) \in 1 .. 2^Bits - 1
  BY <1>1, AbsTypes
<1>4. r \in 0 .. 2^Bits - 1 /\ Wrap(r) = r
  <2>1. Abs(a) \in Int /\ Abs(b) \in Nat \ {0}
    BY <1>3, Sizes
  <2>2. r \in 0 .. Abs(b) - 1
    BY <1>2, <2>1, DivisionTheorem
  <2>3. r \in 0 .. 2^Bits - 1
    BY <1>3, <2>2, Sizes
  <2> QED
    BY <2>3, Sizes, SmallQuotients DEF Wrap
<1>5. Result = IF request.command \in {"div", "divu"} THEN DivQuotient ELSE DivRemnant
  BY DEF Result, DivCommands, MulCommands
<1>6. CASE ~IsSigned
  <2>1. Abs(a) = a /\ Abs(b) = b /\ ~quotient_negative /\ ~remnant_negative
    BY <1>1, <1>2, <1>6, SignedValues DEF Latches
  <2>2. Result = IF request.command = "divu" THEN a \div b ELSE a % b
    BY <1>2, <1>4, <1>5, <1>6, <2>1 DEF IsSigned, DivQuotient, DivRemnant, DivCommands
  <2> QED
    BY <1>1, <1>6, <2>2 DEF Meaning, IsSigned, DivCommands
<1>7. CASE IsSigned
  <2>1. /\ Abs(a) = Magnitude(sa) /\ Abs(b) = Magnitude(sb) /\ sa \in Int /\ sb \in Int /\ sb # 0
        /\ (sa < 0) <=> Negative(a)
        /\ (sb < 0) <=> Negative(b)
    BY <1>1, <1>7, SignedValues
  <2>2. /\ quotient_negative <=> ~(Negative(a) <=> Negative(b))
        /\ remnant_negative <=> Negative(a)
    <3>1. /\ quotient_negative = (IsSigned /\ (Negative(a) # Negative(b)))
          /\ remnant_negative = (IsSigned /\ Negative(a))
      BY <1>2 DEF Latches
    <3>2. Negative(a) \in BOOLEAN /\ Negative(b) \in BOOLEAN
      BY DEF Negative
    <3> QED
      BY <1>7, <3>1, <3>2
  <2> HIDE DEF a, b, sa, sb, q, r
  <2>3. /\ q \in Nat /\ q <= Abs(a)
        /\ Truncated(sa, sb) = IF (sa < 0) = (sb < 0) THEN q ELSE -q
        /\ sa - sb * Truncated(sa, sb) = IF sa < 0 THEN -r ELSE r
    BY <1>2, <2>1, SignsOfDivision
  <2>4. Wrap(q) = q
    <3>1. q \in 0 .. 2^Bits - 1
      <4> DEFINE M == 2^Bits
      <4>1. Abs(a) \in 0 .. M - 1 /\ M \in Nat
        BY <1>3, Sizes DEF a
      <4> HIDE DEF M
      <4>2. q \in 0 .. M - 1
        BY <2>3, <4>1
      <4> QED
        BY <4>2 DEF M
    <3> QED
      BY <3>1, Sizes, SmallQuotients DEF Wrap
  <2>5. DivQuotient = Wrap(Truncated(sa, sb))
    <3>1. CASE (sa < 0) <=> (sb < 0)
      BY <2>1, <2>2, <2>3, <2>4, <3>1 DEF DivQuotient, q
    <3>2. CASE ~((sa < 0) <=> (sb < 0))
      BY <2>1, <2>2, <2>3, <3>2 DEF DivQuotient, q
    <3> QED
      BY <3>1, <3>2
  <2>6. DivRemnant = Wrap(sa - sb * Truncated(sa, sb))
    BY <1>4, <2>1, <2>2, <2>3 DEF DivRemnant, r
  <2>7. CASE request.command = "div"
    BY <1>1, <1>5, <2>5, <2>7 DEF Meaning, sa, sb, a, b
  <2>8. CASE request.command = "rem"
    BY <1>1, <1>5, <2>6, <2>8 DEF Meaning, sa, sb, a, b
  <2> QED
    BY <1>7, <2>7, <2>8 DEF IsSigned
<1> QED
  BY <1>6, <1>7

LEMMA MulDivInvStarts ==
  request = NoMulDiv => MulDivInv
  BY DEF MulDivInv, Typed, MulInv, DivInv, NoMulDiv

LEMMA MulDivInvStays ==
  ASSUME MulDivInv, [MulDivNext]_mulDivVars
  PROVE  MulDivInv'
<1>1. CASE MulDivReset
  <2>1. (request = NoMulDiv)'
    BY <1>1 DEF MulDivReset, NoMulDiv
  <2>2. (request = NoMulDiv => MulDivInv)'
    BY MulDivInvStarts, PTL
  <2> QED
    BY <2>1, <2>2
<1>2. CASE Clock /\ request.valid /\ ~Done
  <2>1. request' = request /\ fresh' = fresh
    BY <1>2 DEF Clock
  <2>2. Typed /\ MulInv /\ DivInv
    BY DEF MulDivInv, Typed
  <2>3. MulInv'
    BY <1>2, <2>1, <2>2 DEF MulInv, Clock, MulStep, Product
  <2>4. ASSUME fresh, request.command \in DivCommands
        PROVE  (div_state' = "Process" => (Latches /\ LoopInv)') /\ (div_state' = "Done" => Answered')
    <3>1. (div_state = "Process" => Latches /\ LoopInv)
      BY <1>2, <2>2, <2>4 DEF DivInv
    <3>2. CASE DivStart
      BY <2>1, <2>2, <3>2, StartsDividing
    <3>3. CASE DivStep
      <4>1. div_state = "Process"
        BY <3>3 DEF DivStep
      <4> QED
        BY <2>1, <2>2, <3>1, <3>3, <4>1, KeepsDividing
    <3>4. CASE DivEnd
      BY <3>4 DEF DivEnd
    <3> QED
      BY <1>2, <3>2, <3>3, <3>4 DEF Clock
  <2>5. DivInv'
    BY <2>1, <2>4 DEF DivInv
  <2> QED
    BY <2>1, <2>2, <2>3, <2>5 DEF MulDivInv, Typed
<1>3. CASE Clock /\ ~(request.valid /\ ~Done)
  <2>1. request' \in MulDivInsns \cup {NoMulDiv}
    BY <1>3 DEF Clock
  <2>2. fresh' = IF request'.command \in MulCommands THEN mul_state' = "Init" ELSE div_state' = "Init"
    BY <1>3 DEF Clock
  <2>3. MulInv'
    BY <2>2 DEF MulInv
  <2>4. DivInv'
    BY <2>2 DEF DivInv, MulCommands, DivCommands
  <2> QED
    BY <2>1, <2>3, <2>4 DEF MulDivInv, Typed
<1>4. CASE UNCHANGED mulDivVars
  BY <1>4 DEF mulDivVars, mul, div, MulDivInv, Typed, MulInv, DivInv, Latches, LoopInv, Answered,
              Skips, Overflows, IsSigned, Abs, Negative, Product
<1> QED
  BY <1>1, <1>2, <1>3, <1>4 DEF MulDivNext

LEMMA MulDivInvSuffices ==
  ASSUME MulDivInv
  PROVE  RightWhenFresh
<1> SUFFICES ASSUME Done, fresh, ~NegativeByZero
             PROVE  Result = Meaning(request.command, request.src1, request.src2)
  BY DEF RightWhenFresh
<1>1. Typed /\ request.valid /\ request.command \in MulCommands \cup DivCommands
  <2>1. Typed /\ request.valid
    BY DEF MulDivInv, Typed, Done
  <2>2. request \in MulDivInsns
    BY <2>1 DEF Typed, NoMulDiv
  <2>3. request.command \in Commands
    BY <2>2 DEF MulDivInsns
  <2> QED
    BY <2>1, <2>3, CommandsAssumption
<1>2. CASE request.command \in MulCommands
  BY <1>1, <1>2, Multiplies DEF MulDivInv, MulInv, Done, UnitState
<1>3. CASE request.command \in DivCommands
  <2>1. Answered
    BY <1>1, <1>3 DEF MulDivInv, DivInv, Done, UnitState, MulCommands, DivCommands
  <2> QED
    BY <1>1, <1>3, <2>1, AnswersSkipped, AnswersDivided
<1> QED
  BY <1>1, <1>2, <1>3

\* MulDivUnit: an instruction that finds its unit idle gets what integer arithmetic says, for words of any
\* width, whatever ran before it and whatever the other unit is doing.
THEOREM AnswersAreRight == MulDivSpec => []RightWhenFresh
<1>1. MulDivInit => MulDivInv
  BY MulDivInvStarts DEF MulDivInit
<1>2. MulDivInv /\ [MulDivNext]_mulDivVars => MulDivInv'
  BY MulDivInvStays
<1>3. MulDivInv => RightWhenFresh
  BY MulDivInvSuffices
<1> QED
  BY <1>1, <1>2, <1>3, PTL DEF MulDivSpec
=============================================================================
