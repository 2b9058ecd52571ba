-------------------------------- MODULE Csr --------------------------------
(***************************************************************************)
(* Privilege levels, traps and interrupts of the HDL core: Csr.sv and      *)
(* InterruptController.sv with the parts of the pipeline that use them.    *)
(* The fetch stage samples the interrupt controller with every word, the   *)
(* execute stage writes CSRs, and a trap or a return takes effect a cycle  *)
(* later in the register write stage.                                      *)
(*                                                                         *)
(* The program is arbitrary at every level; the core does not look at the  *)
(* level of a CSR access.  Programs that put the reserved level into MPP   *)
(* are left out, and so are registers that are only read by programs.      *)
(***************************************************************************)
EXTENDS Naturals, Sequences

CONSTANTS Codes,         \* addresses of instructions
          Exceptions,    \* exceptions other than environment calls
          Writes,        \* [register |-> the values a program writes to it]
          Vectors,       \* [level |-> the address in its trap vector register]
          Depth          \* instructions in front of the execute stage

User == 0
Supervisor == 1
Machine == 3
Levels == {User, Supervisor, Machine}

\* Interrupts and exceptions have the numbers of their bits in the registers.
Interrupts == {0, 1, 3, 4, 5, 7, 8, 9, 11}
SupervisorInterrupts == {0, 1, 4, 5, 8, 9}
None == 16

StatusBits == {"UIE", "UPIE", "SIE", "SPIE", "SPP", "MIE", "MPIE", "MPP", "TSR"}
StatusMask(level) ==
  CASE level = Machine -> StatusBits
    [] level = Supervisor -> {"UIE", "UPIE", "SIE", "SPIE", "SPP"}
    [] level = User -> {"UIE", "UPIE"}
\* The reserved level 2 is left out.
ValuesOf(bit) == IF bit = "MPP" THEN Levels ELSE 0 .. 1

VARIABLES
  pc,         \* of the fetch unit
  front,      \* the instructions fetched and not yet executed
  rw,         \* the register behind the execute stage
  reg_priv, reg_status,
  reg_epc,    \* reg_mepc, reg_sepc, reg_uepc
  vectored,   \* the mode of reg_mtvec, reg_stvec, reg_utvec
  reg_medeleg, reg_sedeleg, reg_xie, reg_xip,
  entered     \* history: what the last trap into a level interrupted, until a program overwrites it

delegation == <<reg_medeleg, reg_sedeleg>>
plain == <<vectored, delegation, reg_xie, reg_xip>>
vars == <<pc, front, rw, reg_priv, reg_status, reg_epc, plain, entered>>

Bubble == [kind |-> "none"]
Trap(insn, interrupt, code) == [kind |-> "trap", pc |-> insn.pc, interrupt |-> interrupt, code |-> code]
Return(level) == [kind |-> "return", level |-> level]
Nothing == [priv |-> User, pc |-> 0, enable |-> 0, intact |-> FALSE]

Init ==
  /\ pc \in Codes
  /\ front = <<>> /\ rw = Bubble
  /\ reg_priv = Machine
  /\ reg_status = [bit \in StatusBits |-> 0]
  /\ reg_epc = [level \in Levels |-> 0]
  /\ vectored = [level \in Levels |-> FALSE]
  /\ reg_medeleg = {} /\ reg_sedeleg = {} /\ reg_xie = {} /\ reg_xip = {}
  /\ entered = [level \in {Supervisor, Machine} |-> Nothing]

-----------------------------------------------------------------------------
(* InterruptController.sv *)

InterruptEnable(status, level) ==
  status[IF level = Machine THEN "MIE" ELSE IF level = Supervisor THEN "SIE" ELSE "UIE"]

\* Machine level first, and at each level external, timer, software.
Precedes(i, j) == \/ i % 4 > j % 4
                  \/ i % 4 = j % 4 /\ i > j
irq == reg_xip \cap reg_xie
GetInterruptCode == CHOOSE i \in irq : \A j \in irq \ {i} : Precedes(i, j)

\* What the fetch stage attaches to a word.  Only the enable bit of the current level counts.
Sampled == IF InterruptEnable(reg_status, reg_priv) = 1 /\ irq # {} THEN GetInterruptCode ELSE None

-----------------------------------------------------------------------------
(* Csr.sv *)

\* The bits of medeleg and sedeleg are used for interrupts as well.
calc_next_priv(code) ==
  IF code \notin reg_medeleg THEN Machine
  ELSE IF code \notin reg_sedeleg THEN Supervisor
  ELSE User

\* Mutant: the mask is applied to the value only.
write_status_cleared(level, value) ==
  [bit \in StatusBits |-> IF bit \in StatusMask(level) THEN value[bit] ELSE 0]
write_status(level, value) ==
  [bit \in StatusBits |-> IF bit \in StatusMask(level) THEN value[bit] ELSE reg_status[bit]]

UpdateStatusForTrap(level) ==
  CASE level = Machine ->
         [reg_status EXCEPT !["MPIE"] = reg_status["MIE"], !["MIE"] = 0, !["MPP"] = reg_priv]
    [] level = Supervisor ->
         [reg_status EXCEPT !["SPIE"] = reg_status["SIE"], !["SIE"] = 0, !["SPP"] = reg_priv % 2]
    [] level = User -> [reg_status EXCEPT !["UPIE"] = reg_status["UIE"], !["UIE"] = 0]

ReturnLevel(level) ==
  CASE level = Machine -> reg_status["MPP"]
    [] level = Supervisor -> reg_status["SPP"]
    [] level = User -> User

\* The second case looks at the level returned to, so that a return of supervisor mode to user mode
\* restores nothing, and so does any return of user mode.
UpdateStatusForTrapReturn(level) ==
  IF level = Machine
    THEN [reg_status EXCEPT !["MPP"] = User, !["MIE"] = reg_status["MPIE"]]
  ELSE IF ReturnLevel(level) = Supervisor
    THEN [reg_status EXCEPT !["SPP"] = User, !["SIE"] = reg_status["SPIE"]]
  ELSE reg_status

-----------------------------------------------------------------------------
(* The register write stage, MainPipeController.sv *)

TrapVector(level) == Vectors[level] + IF vectored[level] /\ rw.interrupt THEN 4 * rw.code ELSE 0

TakeTrap ==
  /\ rw.kind = "trap"
  /\ LET level == calc_next_priv(rw.code) IN
       /\ reg_priv' = level
       /\ reg_status' = UpdateStatusForTrap(level)
       /\ reg_epc' = [reg_epc EXCEPT ![level] = rw.pc]
       /\ pc' = TrapVector(level)
       /\ entered' = [l \in {Supervisor, Machine} |->
            IF l = level THEN [priv |-> reg_priv, pc |-> rw.pc, intact |-> TRUE,
                               enable |-> InterruptEnable(reg_status, level)]
                         ELSE entered[l]]
  /\ front' = <<>> /\ rw' = Bubble
  /\ UNCHANGED plain

TakeReturn ==
  /\ rw.kind = "return"
  /\ reg_priv' = ReturnLevel(rw.level)
  /\ reg_status' = UpdateStatusForTrapReturn(rw.level)
  /\ pc' = reg_epc[rw.level]
  /\ entered' = [l \in {Supervisor, Machine} |-> IF l = rw.level THEN Nothing ELSE entered[l]]
  /\ front' = <<>> /\ rw' = Bubble
  /\ UNCHANGED <<reg_epc, plain>>

-----------------------------------------------------------------------------
(* The execute stage *)

\* The front end goes on behind `rest', or from another address.
Fetch(rest) ==
  \/ front' = rest /\ UNCHANGED pc
  \/ /\ Len(rest) < Depth
     /\ front' = Append(rest, [pc |-> pc, interrupt |-> Sampled])
     /\ pc' \in Codes
Flush == front' = <<>> /\ pc' \in Codes

Wait ==
  /\ rw.kind = "none"
  /\ Fetch(front)
  /\ UNCHANGED <<rw, reg_priv, reg_status, reg_epc, plain, entered>>

\* The oldest instruction is executed; it brings no interrupt.
Executes ==
  /\ rw.kind = "none"
  /\ front # <<>>
  /\ front[1].interrupt = None
unchanged == <<reg_priv, reg_status, reg_epc, plain, entered>>

Interrupt ==
  /\ rw.kind = "none"
  /\ front # <<>>
  /\ front[1].interrupt # None
  /\ rw' = Trap(front[1], TRUE, front[1].interrupt)
  /\ Flush
  /\ UNCHANGED unchanged

Exception(code) ==
  /\ Executes
  /\ rw' = Trap(front[1], FALSE, code)
  /\ Flush
  /\ UNCHANGED unchanged

\* EXCEPTION_CODE_ECALL_FROM_U, _S and _M.
EcallFrom(level) == 8 + level
\* The stage gives machine mode the code of user mode and the other way round.
EcallCode ==
  CASE reg_priv = Machine -> EcallFrom(User)
    [] reg_priv = Supervisor -> EcallFrom(Supervisor)
    [] reg_priv = User -> EcallFrom(Machine)

ExecuteReturn(level) ==
  /\ Executes
  /\ level = Supervisor => reg_status["TSR"] = 0
  /\ rw' = Return(level)
  /\ Flush
  /\ UNCHANGED unchanged

\* Mutant: the instructions behind it stay.
WritesCsrUnflushed == Executes /\ rw' = Bubble /\ Fetch(Tail(front))
\* A write to a CSR flushes the instructions behind it.
WritesCsr == Executes /\ rw' = Bubble /\ Flush

\* The bits that hold the context of a trap.
ContextBits(level) == IF level = Machine THEN {"MPIE", "MPP"} ELSE {"SPIE", "SPP"}

WriteStatus(level) ==
  /\ WritesCsr
  /\ \E w \in Writes.status :
       LET value == [reg_status EXCEPT ![w.bit] = w.value] IN
       /\ w.value \in ValuesOf(w.bit)
       /\ reg_status' = write_status(level, value)
       /\ entered' = [l \in {Supervisor, Machine} |->
            IF l <= level /\ (\E bit \in ContextBits(l) : value[bit] # reg_status[bit]) THEN Nothing ELSE entered[l]]
  /\ UNCHANGED <<reg_priv, reg_epc, plain>>

WriteEpc(level) ==
  /\ WritesCsr
  /\ \E value \in Codes : reg_epc' = [reg_epc EXCEPT ![level] = value]
  /\ entered' = [l \in {Supervisor, Machine} |-> IF l = level THEN Nothing ELSE entered[l]]
  /\ UNCHANGED <<reg_priv, reg_status, plain>>

WriteVector(level) ==
  /\ WritesCsr
  /\ \E mode \in Writes.tvec[level] : vectored' = [vectored EXCEPT ![level] = mode]
  /\ UNCHANGED <<reg_priv, reg_status, reg_epc, delegation, reg_xie, reg_xip, entered>>

WriteDelegation ==
  /\ WritesCsr
  /\ \/ reg_medeleg' \in Writes.medeleg /\ UNCHANGED reg_sedeleg
     \/ reg_sedeleg' \in Writes.sedeleg /\ UNCHANGED reg_medeleg
  /\ UNCHANGED <<reg_priv, reg_status, reg_epc, vectored, reg_xie, reg_xip, entered>>

\* mie and mip take the value, sie and sip clear the bits they do not show, and uie and uip are
\* never written: their tests repeat the address of sie and sip.
Masks == {Interrupts, SupervisorInterrupts}
WriteEnable ==
  /\ WritesCsr
  /\ \E value \in Writes.ie, mask \in Masks : reg_xie' = value \cap mask
  /\ UNCHANGED <<reg_priv, reg_status, reg_epc, vectored, delegation, reg_xip, entered>>

WritePending ==
  /\ WritesCsr
  /\ \E value \in Writes.ip, mask \in Masks : reg_xip' = value \cap mask
  /\ UNCHANGED <<reg_priv, reg_status, reg_epc, vectored, delegation, reg_xie, entered>>

\* Any other instruction; a write to a register that is not modelled, a taken branch and a
\* fence flush the front end as well.
Other ==
  /\ Executes
  /\ rw' = Bubble
  /\ Fetch(Tail(front)) \/ Flush
  /\ UNCHANGED unchanged

Reset ==
  /\ pc' \in Codes
  /\ front' = <<>> /\ rw' = Bubble
  /\ reg_priv' = Machine
  /\ reg_status' = [bit \in StatusBits |-> 0]
  /\ reg_epc' = [level \in Levels |-> 0]
  /\ vectored' = [level \in Levels |-> FALSE]
  /\ reg_medeleg' = {} /\ reg_sedeleg' = {} /\ reg_xie' = {} /\ reg_xip' = {}
  /\ entered' = [level \in {Supervisor, Machine} |-> Nothing]

Next ==
  \/ TakeTrap
  \/ TakeReturn
  \/ Wait
  \/ Interrupt
  \/ \E code \in Exceptions : Exception(code)
  \/ Exception(EcallCode)
  \/ \E level \in Levels : ExecuteReturn(level) \/ WriteStatus(level) \/ WriteEpc(level) \/ WriteVector(level)
  \/ WriteDelegation
  \/ WriteEnable
  \/ WritePending
  \/ Other
  \/ Reset

Spec == Init /\ [][Next]_vars

-----------------------------------------------------------------------------
(* Properties *)

\* An interrupt is sampled with a word and taken cycles later: everything under way carries what the
\* controller would say now, so that no interrupt is taken that has been disabled, withdrawn or overtaken
\* by one of a higher priority meanwhile, and none is missed by an instruction that should bring it.
SampledIsCurrent ==
  /\ \A i \in 1 .. Len(front) : front[i].interrupt = Sampled
  /\ rw.kind = "trap" /\ rw.interrupt => rw.code = Sampled

\* A return ends where the trap began: at its level and instruction, with its interrupt enable, whatever
\* traps of other levels have come and gone.  Not so for a trap of machine mode delegated to supervisor mode,
\* of which SPP keeps one bit; and a return of supervisor mode to user mode does not restore SIE.
Restores(level, context) ==
  context.intact /\ context.priv <= level =>
    /\ reg_priv' = context.priv /\ pc' = context.pc
    /\ level = Machine \/ context.priv = Supervisor =>
         InterruptEnable(reg_status', level) = context.enable
ReturnsRestore ==
  [][\A level \in {Supervisor, Machine} :
       TakeReturn /\ rw.level = level => Restores(level, entered[level])]_vars
=============================================================================
