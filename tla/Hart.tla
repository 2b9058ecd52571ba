-------------------------------- MODULE Hart --------------------------------
(***************************************************************************)
(* Privilege levels, traps and interrupts of the emulated hart: Csr.cpp,   *)
(* TrapProcessor.cpp, InterruptController.cpp, and the cycle of            *)
(* Processor.cpp that ties them together.  Each step is one cycle: the     *)
(* pending bits are updated, then an interrupt is taken or an instruction  *)
(* is executed, which may trap.                                            *)
(*                                                                         *)
(* The program is arbitrary at every level.  It ends in an exception of    *)
(* the emulator when it executes uret or puts the reserved level into MPP; *)
(* such programs are left out.  Causes, trap values and scratch registers  *)
(* are written here and read by programs only.                             *)
(***************************************************************************)
EXTENDS Naturals

User == 0
Supervisor == 1
Machine == 3
Levels == {User, Supervisor, Machine}

\* Interrupts and exceptions have the numbers of their bits in the registers.
Software == {0, 1, 3}
Timers == {4, 5, 7}
External == {8, 9, 11}
Interrupts == Software \cup Timers \cup External
OfLevel(level) == {level, 4 + level, 8 + level}

CONSTANTS Codes,         \* addresses of instructions
          Exceptions,    \* exceptions other than environment calls
          Writes         \* [register |-> the values a program writes to it]

VectorBase(level) == 1000 * (level + 1)
Pcs == Codes \cup {0} \cup {VectorBase(level) + 4 * n : level \in Levels, n \in {0} \cup Interrupts}
EnvironmentCall(level) == 8 + level
Causes == Exceptions \cup {EnvironmentCall(level) : level \in Levels}

UserBits == {"UIE", "UPIE"}
SupervisorBits == UserBits \cup {"SIE", "SPIE", "SPP"}
MachineBits == {"MIE", "MPIE", "MPP", "TSR", "TW", "TVM", "MPRV"}
StatusBits == SupervisorBits \cup MachineBits
ValuesOf(bit) == IF bit = "MPP" THEN Levels ELSE 0 .. 1
Statuses == {s \in [StatusBits -> 0 .. 3] : \A bit \in StatusBits : s[bit] \in ValuesOf(bit)}

ASSUME CodesAssumption == Codes \subseteq Nat
ASSUME ExceptionsAssumption == Exceptions \subseteq Nat \ {8, 9, 11}
ASSUME WritesAssumption ==
  /\ \A w \in Writes.status : w.bit \in StatusBits /\ w.value \in ValuesOf(w.bit)
  /\ Writes.mideleg \subseteq SUBSET Interrupts /\ Writes.sideleg \subseteq SUBSET Interrupts
  /\ Writes.medeleg \subseteq SUBSET Causes /\ Writes.sedeleg \subseteq SUBSET Causes
  /\ Writes.tvec \in [Levels -> SUBSET BOOLEAN]
  /\ Writes.ie \subseteq SUBSET Interrupts /\ Writes.ip \subseteq SUBSET Interrupts

VARIABLES
  priv, pc, status,
  epc,        \* mepc, sepc, uepc
  vectored,   \* the mode of mtvec, stvec, utvec
  deleg,      \* medeleg, sedeleg, mideleg, sideleg
  ie, ip,     \* mie and mip; the other levels see parts of them
  timer,      \* mtime >= mtimecmp, as the CLINT compares them
  entered,    \* history: what the last trap into a level interrupted, until the program or another trap overwrites it
  masked      \* history: the levels whose handler runs with interrupts off since its entry

registers == <<status, epc, vectored, deleg, ie>>
vars == <<priv, pc, registers, ip, timer, entered, masked>>

Nothing == [priv |-> User, pc |-> 0, enable |-> 0, intact |-> FALSE]

Init ==
  /\ priv = Machine
  /\ pc \in Codes
  /\ status = [bit \in StatusBits |-> 0]
  /\ epc = [level \in Levels |-> 0]
  /\ vectored = [level \in Levels |-> FALSE]
  /\ deleg = [medeleg |-> {}, sedeleg |-> {}, mideleg |-> {}, sideleg |-> {}]
  /\ ie = {} /\ ip = {}
  /\ timer \in BOOLEAN
  /\ entered = [level \in {Supervisor, Machine} |-> Nothing]
  /\ masked = {}

-----------------------------------------------------------------------------
(* Csr.cpp *)

Masked(value, bits) == [bit \in StatusBits |-> IF bit \in bits THEN value[bit] ELSE 0]

\* A write to a view of the status keeps the bits of the view and clears all others: the mask
\* of the view is applied to the value, but not to the register.
StatusSeen(level) ==
  CASE level = Machine -> status
    [] level = Supervisor -> Masked(status, SupervisorBits)
    [] level = User -> Masked(status, UserBits)
WrittenStatus(level, value) ==
  CASE level = Machine -> value
    [] level = Supervisor -> Masked(value, SupervisorBits)
    [] level = User -> Masked(value, UserBits)

\* mie, sie and uie; mip, sip and uip, where the timers are read-only.
\* Mutant: sie and uie are mie.
ViewOfAll(level) == Interrupts
View(level) == UNION {OfLevel(l) : l \in {m \in Levels : m <= level}}
\* Mutant: the timers' bits are written too.
WriteMaskWithTimers(level) == View(level)
WriteMask(level) == View(level) \ Timers
SetWithMask(bits, value, mask) == (bits \ mask) \cup (value \cap mask)

\* Which registers an access may touch.
Accessible(level) == level <= priv

-----------------------------------------------------------------------------
(* InterruptController.cpp *)

\* Time goes on.
Tick == timer' \in {timer, TRUE}

InterruptEnable(value, level) ==
  value[IF level = Machine THEN "MIE" ELSE IF level = Supervisor THEN "SIE" ELSE "UIE"]
IE(level) == InterruptEnable(status, level)

\* The delegation registers are shifted by the number of an interrupt and compared with zero:
\* all the bits above count too.
Above(interrupts, n) == {i \in interrupts : i >= n} # {}
PendingLevel(kind) ==
  IF ~Above(deleg.mideleg, kind + Machine) THEN Machine
  ELSE IF ~Above(deleg.sideleg, kind + Supervisor) THEN Supervisor
  ELSE User

\* The external interrupt follows the source of the timer's.
Updated ==
  (ip \cap Software) \cup (IF timer THEN {4 + PendingLevel(4), 8 + PendingLevel(8)} ELSE {})

\* Only the enable bit of the level the hart is in counts.
Candidates == IF IE(priv) = 1 THEN ie \cap Updated ELSE {}

\* Machine level first, and at each level external, timer, software.
Precedes(i, j) == \/ i % 4 > j % 4
                  \/ i % 4 = j % 4 /\ i > j
InterruptType == CHOOSE i \in Candidates : \A j \in Candidates \ {i} : Precedes(i, j)

-----------------------------------------------------------------------------
(* TrapProcessor.cpp *)

NextPriv(cause, byMachine, bySupervisor) ==
  IF cause \notin byMachine THEN Machine
  ELSE IF cause \notin bySupervisor THEN Supervisor
  ELSE User

\* Mutant: the enable bit is cleared before it is saved.
EnteredClearsFirst(level) ==
  LET seen == StatusSeen(level) IN
  CASE level = Machine -> [seen EXCEPT !["MPIE"] = 0, !["MIE"] = 0, !["MPP"] = priv]
    [] level = Supervisor -> [seen EXCEPT !["SPIE"] = 0, !["SIE"] = 0, !["SPP"] = priv % 2]
    [] level = User -> [seen EXCEPT !["UPIE"] = 0, !["UIE"] = 0]
\* Mutant: the enable bit is saved and left on.
EnteredUnmasked(level) ==
  LET seen == StatusSeen(level) IN
  CASE level = Machine -> [seen EXCEPT !["MPIE"] = seen["MIE"], !["MPP"] = priv]
    [] level = Supervisor -> [seen EXCEPT !["SPIE"] = seen["SIE"], !["SPP"] = priv % 2]
    [] level = User -> [seen EXCEPT !["UPIE"] = seen["UIE"]]
\* Mutant: SPP takes both bits of the level.
EnteredWholeLevel(level) ==
  LET seen == StatusSeen(level) IN
  CASE level = Machine -> [seen EXCEPT !["MPIE"] = seen["MIE"], !["MIE"] = 0, !["MPP"] = priv]
    [] level = Supervisor -> [seen EXCEPT !["SPIE"] = seen["SIE"], !["SIE"] = 0, !["SPP"] = priv]
    [] level = User -> [seen EXCEPT !["UPIE"] = seen["UIE"], !["UIE"] = 0]
Entered(level) ==
  LET seen == StatusSeen(level) IN
  CASE level = Machine -> [seen EXCEPT !["MPIE"] = seen["MIE"], !["MIE"] = 0, !["MPP"] = priv]
    [] level = Supervisor -> [seen EXCEPT !["SPIE"] = seen["SIE"], !["SIE"] = 0, !["SPP"] = priv % 2]
    [] level = User -> [seen EXCEPT !["UPIE"] = seen["UIE"], !["UIE"] = 0]

\* The handlers whose context a write to the status through a view destroys; a program that only
\* reads its view destroys that of the levels above.
Overwritten(level, value) ==
  IF value = StatusSeen(level) THEN {l \in {Supervisor, Machine} : l > level} ELSE {Supervisor, Machine}
AfterWrite(levels) ==
  [level \in {Supervisor, Machine} |-> IF level \in levels THEN Nothing ELSE entered[level]]

TrapEnter(level, offset) ==
  /\ priv' = level
  /\ status' = WrittenStatus(level, Entered(level))
  /\ epc' = [epc EXCEPT ![level] = pc]
  /\ pc' = VectorBase(level) + offset
  /\ ip' = Updated
  /\ entered' = [l \in {Supervisor, Machine} |->
       IF l = level THEN [priv |-> priv, pc |-> pc, enable |-> IE(level), intact |-> TRUE]
       ELSE IF level < l THEN Nothing ELSE entered[l]]
  /\ masked' = masked \cup {level}
  /\ Tick
  /\ UNCHANGED <<vectored, deleg, ie>>

Interrupt ==
  /\ Candidates # {}
  /\ LET level == NextPriv(InterruptType, deleg.mideleg, deleg.sideleg) IN
       TrapEnter(level, IF vectored[level] THEN 4 * InterruptType ELSE 0)

Exception(cause) ==
  /\ Candidates = {}
  /\ TrapEnter(NextPriv(cause, deleg.medeleg, deleg.sedeleg), 0)

Returned(level) ==
  LET seen == StatusSeen(level) IN
  IF level = Machine THEN [seen EXCEPT !["MPP"] = 0, !["MIE"] = seen["MPIE"]]
                     ELSE [seen EXCEPT !["SPP"] = 0, !["SIE"] = seen["SPIE"]]

TrapReturn(level) ==
  /\ Candidates = {}
  /\ priv >= level
  /\ level = Supervisor /\ priv = Supervisor => status["TSR"] = 0
  /\ priv' = IF level = Machine THEN status["MPP"] ELSE status["SPP"]
  /\ status' = WrittenStatus(level, Returned(level))
  /\ pc' = epc[level]
  /\ ip' = Updated
  /\ entered' = AfterWrite({level, Machine})
  /\ masked' = masked \ {level}
  /\ Tick
  /\ UNCHANGED <<epc, vectored, deleg, ie>>

-----------------------------------------------------------------------------
(* Processor.cpp: a cycle without an interrupt executes an instruction. *)

Executes ==
  /\ Candidates = {}
  /\ pc' \in Codes
  /\ UNCHANGED priv

\* An access to a CSR always writes, csrrs and csrrc of register 0 included: what they write
\* back is what they have read.
WriteStatus(level) ==
  /\ Executes /\ Accessible(level)
  /\ \E value \in {StatusSeen(level)}
                  \cup {[StatusSeen(level) EXCEPT ![w.bit] = w.value] : w \in Writes.status} :
       /\ status' = WrittenStatus(level, value)
       /\ masked' = {l \in masked : l <= level => InterruptEnable(value, l) = 0}
       /\ entered' = AfterWrite(Overwritten(level, value))
  /\ ip' = Updated
  /\ Tick
  /\ UNCHANGED <<epc, vectored, deleg, ie>>

WriteEpc(level) ==
  /\ Executes /\ Accessible(level)
  /\ \E value \in Codes : epc' = [epc EXCEPT ![level] = value]
  /\ ip' = Updated
  /\ entered' = AfterWrite({level})
  /\ Tick
  /\ UNCHANGED <<status, vectored, deleg, ie, masked>>

WriteVector(level) ==
  /\ Executes /\ Accessible(level)
  /\ \E mode \in Writes.tvec[level] : vectored' = [vectored EXCEPT ![level] = mode]
  /\ ip' = Updated
  /\ Tick
  /\ UNCHANGED <<status, epc, deleg, ie, entered, masked>>

WriteDelegation(level) ==
  /\ Executes /\ Accessible(level)
  /\ \/ level = Machine /\ \E v \in Writes.medeleg : deleg' = [deleg EXCEPT !.medeleg = v]
     \/ level = Machine /\ \E v \in Writes.mideleg : deleg' = [deleg EXCEPT !.mideleg = v]
     \/ level = Supervisor /\ \E v \in Writes.sedeleg : deleg' = [deleg EXCEPT !.sedeleg = v]
     \/ level = Supervisor /\ \E v \in Writes.sideleg : deleg' = [deleg EXCEPT !.sideleg = v]
  /\ ip' = Updated
  /\ Tick
  /\ UNCHANGED <<status, epc, vectored, ie, entered, masked>>

WriteEnable(level) ==
  /\ Executes /\ Accessible(level)
  /\ \E value \in Writes.ie : ie' = SetWithMask(ie, value, View(level))
  /\ ip' = Updated
  /\ Tick
  /\ UNCHANGED <<status, epc, vectored, deleg, entered, masked>>

WritePending(level) ==
  /\ Executes /\ Accessible(level)
  /\ \E value \in Writes.ip : ip' = SetWithMask(Updated, value, WriteMask(level))
  /\ Tick
  /\ UNCHANGED <<registers, entered, masked>>

\* A store to the CLINT: msip, or mtime and mtimecmp.
StoreToClint ==
  /\ Executes
  /\ \/ \E bit \in {{}, {Machine}} : ip' = SetWithMask(Updated, bit, {Machine}) /\ Tick
     \/ ip' = Updated /\ timer' \in BOOLEAN
  /\ UNCHANGED <<registers, entered, masked>>

Other ==
  /\ Executes
  /\ ip' = Updated
  /\ Tick
  /\ UNCHANGED <<registers, entered, masked>>

\* An access to a CSR that is not accessible, mret, sret, wfi or sfence.vma where the level or TSR, TW
\* or TVM forbid them, is among the exceptions; the rest are ecall, ebreak and faults.
Next ==
  \/ Interrupt
  \/ Exception(EnvironmentCall(priv))
  \/ \E cause \in Exceptions : Exception(cause)
  \/ \E level \in {Supervisor, Machine} : TrapReturn(level)
  \/ \E level \in Levels : WriteStatus(level) \/ WriteEpc(level) \/ WriteVector(level)
                             \/ WriteEnable(level) \/ WritePending(level)
  \/ \E level \in {Supervisor, Machine} : WriteDelegation(level)
  \/ StoreToClint
  \/ Other

Spec == Init /\ [][Next]_vars

-----------------------------------------------------------------------------
(* Properties *)

\* Every register keeps to its bits, whoever writes it; SPP is one bit although three levels trap.
TypeOK ==
  /\ priv \in Levels
  /\ pc \in Pcs
  /\ status \in Statuses
  /\ epc \in [Levels -> Pcs]
  /\ vectored \in [Levels -> BOOLEAN]
  /\ deleg \in [medeleg : SUBSET Causes, sedeleg : SUBSET Causes,
                mideleg : SUBSET Interrupts, sideleg : SUBSET Interrupts]
  /\ ie \subseteq Interrupts /\ ip \subseteq Interrupts
  /\ timer \in BOOLEAN
  /\ entered \in [{Supervisor, Machine} -> [priv : Levels, pc : Pcs, enable : 0 .. 1, intact : BOOLEAN]]
  /\ masked \subseteq Levels

\* A handler runs with the interrupts of its level off, through traps into other levels and returns
\* from them, until it returns or turns them on itself.
HandlersAreMasked == \A level \in masked : IE(level) = 0

\* A return ends where the trap began: at its level and instruction, with its interrupt enable, whatever
\* traps into the level above have come and gone.  Not so if a write to the status through a lower view
\* came between, nor for a trap of machine mode delegated to supervisor mode, of which SPP keeps one bit.
Restores(level) ==
  LET context == entered[level] IN
  TrapReturn(level) /\ context.intact /\ context.priv <= level =>
    /\ priv' = context.priv /\ pc' = context.pc
    /\ InterruptEnable(status', level) = context.enable
ReturnsRestore == [][\A level \in {Supervisor, Machine} : Restores(level)]_vars

\* What belongs to a level changes only at that level or above.  The code does not keep this for the
\* bits of the status, but they are only ever cleared.
BitsOf(level) ==
  CASE level = Machine -> MachineBits [] level = Supervisor -> SupervisorBits \ UserBits [] level = User -> UserBits
Undisturbed(level) ==
  /\ \A bit \in BitsOf(level) : status'[bit] \in {status[bit], 0}
  /\ epc'[level] = epc[level] /\ vectored'[level] = vectored[level]
  /\ level = Machine => (deleg'.medeleg = deleg.medeleg /\ deleg'.mideleg = deleg.mideleg)
  /\ level = Supervisor => (deleg'.sedeleg = deleg.sedeleg /\ deleg'.sideleg = deleg.sideleg)
  /\ ie' \cap OfLevel(level) = ie \cap OfLevel(level)
  /\ ip' \cap (OfLevel(level) \ {Machine}) = Updated \cap (OfLevel(level) \ {Machine})
LevelsAreSeparate ==
  [][\A level \in {Supervisor, Machine} : priv < level /\ priv' < level => Undisturbed(level)]_vars

\* After every cycle one timer interrupt is pending if the timer asked for one, and none otherwise: no
\* write of a program to mip, sip, uip or the CLINT hides or fakes one.
PendingFollowsTimer ==
  [][\E level \in Levels : ip' \cap Timers = IF timer THEN {4 + level} ELSE {}]_vars
=============================================================================
