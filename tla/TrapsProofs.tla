----------------------------- MODULE TrapsProofs -----------------------------
(***************************************************************************)
(* What holds of traps for every program, in the emulator (Hart) and in    *)
(* the HDL core (Csr, here HDL).  The emulator's theorems are about Spec   *)
(* of Hart, the HDL core's lemmas about HDL!Spec; TrapsSpec implies both.  *)
(***************************************************************************)
EXTENDS Traps, Sequences, TLAPS

-----------------------------------------------------------------------------
(* Operators *)

LEMMA LevelFacts ==
  /\ Levels = {0, 1, 3} /\ Machine \in Levels /\ Supervisor \in Levels /\ User \in Levels
  /\ \A level \in Levels : OfLevel(level) \subseteq Interrupts
  /\ Timers \subseteq Interrupts /\ Software \subseteq Interrupts
  /\ Machine # Supervisor /\ Machine # User /\ Supervisor # User
  BY DEF Levels, Machine, Supervisor, User, OfLevel, Interrupts, Timers, Software, External

\* The bits of a status, and what their values are.
LEMMA StatusFacts ==
  ASSUME NEW value \in Statuses, NEW bit \in StatusBits
  PROVE  value \in [StatusBits -> 0 .. 3] /\ value[bit] \in ValuesOf(bit)
  BY DEF Statuses

LEMMA StatusValues ==
  ASSUME NEW value \in [StatusBits -> 0 .. 3], \A bit \in StatusBits : value[bit] \in ValuesOf(bit)
  PROVE  value \in Statuses
  BY DEF Statuses

\* A view of a status is a status.
LEMMA MaskedType ==
  ASSUME NEW value \in Statuses, NEW bits
  PROVE  Masked(value, bits) \in Statuses
  <1> DEFINE new == Masked(value, bits)
  <1>1. new \in [StatusBits -> 0 .. 3]
    BY DEF Masked, Statuses
  <1>2. ASSUME NEW bit \in StatusBits PROVE new[bit] \in ValuesOf(bit)
    <2>1. value[bit] \in ValuesOf(bit)
      BY DEF Statuses
    <2>2. 0 \in ValuesOf(bit)
      BY DEF ValuesOf, Levels, User
    <2>3. QED
      BY <2>1, <2>2 DEF Masked
  <1>3. QED
    BY <1>1, <1>2, StatusValues

LEMMA SeenType ==
  ASSUME status \in Statuses, NEW level \in Levels
  PROVE  StatusSeen(level) \in Statuses
  BY MaskedType, LevelFacts DEF StatusSeen, Machine, Supervisor, User

LEMMA WrittenType ==
  ASSUME NEW value \in Statuses, NEW level \in Levels
  PROVE  WrittenStatus(level, value) \in Statuses
  BY MaskedType, LevelFacts DEF WrittenStatus, Machine, Supervisor, User

\* One bit of a status is set.
LEMMA BitSet ==
  ASSUME NEW value \in Statuses, NEW bit \in StatusBits, NEW new \in ValuesOf(bit)
  PROVE  [value EXCEPT ![bit] = new] \in Statuses
  <1>1. new \in 0 .. 3
    BY DEF ValuesOf, Levels, Machine, Supervisor, User
  <1>2. [value EXCEPT ![bit] = new] \in [StatusBits -> 0 .. 3]
    BY <1>1 DEF Statuses
  <1>3. ASSUME NEW b \in StatusBits PROVE [value EXCEPT ![bit] = new][b] \in ValuesOf(b)
    BY DEF Statuses
  <1>4. QED
    BY <1>2, <1>3, StatusValues

LEMMA OneBit ==
  ASSUME NEW bit \in StatusBits, bit # "MPP"
  PROVE  ValuesOf(bit) = 0 .. 1
  BY DEF ValuesOf

LEMMA BitNames ==
  /\ {"MPIE", "MIE", "SPIE", "SIE", "SPP", "UPIE", "UIE", "MPP", "TSR"} \subseteq StatusBits
  /\ ValuesOf("MPP") = Levels
  BY DEF StatusBits, SupervisorBits, MachineBits, UserBits, ValuesOf

LEMMA EnteredType ==
  ASSUME status \in Statuses, priv \in Levels, NEW level \in Levels
  PROVE  Entered(level) \in Statuses
  <1> DEFINE seen == StatusSeen(level)
  <1>1. seen \in Statuses
    BY SeenType
  <1> HIDE DEF seen
  <1>2. ASSUME NEW previous \in StatusBits, NEW enable \in StatusBits, previous # "MPP", enable # "MPP"
        PROVE  [seen EXCEPT ![previous] = seen[enable], ![enable] = 0] \in Statuses
    <2>1. seen[enable] \in ValuesOf(previous)
      BY <1>1, <1>2, OneBit DEF Statuses
    <2>2. [seen EXCEPT ![previous] = seen[enable]] \in Statuses
      BY <1>1, <2>1, BitSet
    <2>3. 0 \in ValuesOf(enable)
      BY <1>2, OneBit
    <2>4. [[seen EXCEPT ![previous] = seen[enable]] EXCEPT ![enable] = 0] \in Statuses
      BY <2>2, <2>3, BitSet
    <2>5. QED
      BY <2>4
  <1>3. CASE level = Machine
    <2>1. [seen EXCEPT !["MPIE"] = seen["MIE"], !["MIE"] = 0] \in Statuses
      BY <1>2, BitNames
    <2>2. [[seen EXCEPT !["MPIE"] = seen["MIE"], !["MIE"] = 0] EXCEPT !["MPP"] = priv] \in Statuses
      BY <2>1, BitSet, BitNames
    <2>3. QED
      BY <1>3, <2>2, LevelFacts DEF Entered, seen
  <1>4. CASE level = Supervisor
    <2>1. [seen EXCEPT !["SPIE"] = seen["SIE"], !["SIE"] = 0] \in Statuses
      BY <1>2, BitNames
    <2>2. priv % 2 \in ValuesOf("SPP")
      BY OneBit, BitNames DEF Levels, Machine, Supervisor, User
    <2>3. [[seen EXCEPT !["SPIE"] = seen["SIE"], !["SIE"] = 0] EXCEPT !["SPP"] = priv % 2] \in Statuses
      BY <2>1, <2>2, BitSet, BitNames
    <2>4. QED
      BY <1>4, <2>3, LevelFacts DEF Entered, seen
  <1>5. CASE level = User
    <2>1. [seen EXCEPT !["UPIE"] = seen["UIE"], !["UIE"] = 0] \in Statuses
      BY <1>2, BitNames
    <2>2. QED
      BY <1>5, <2>1, LevelFacts DEF Entered, seen
  <1>6. QED
    BY <1>3, <1>4, <1>5 DEF Levels

LEMMA ReturnedType ==
  ASSUME status \in Statuses, NEW level \in {Supervisor, Machine}
  PROVE  Returned(level) \in Statuses
  <1> DEFINE seen == StatusSeen(level)
  <1>1. seen \in Statuses
    BY SeenType, LevelFacts
  <1> HIDE DEF seen
  <1>2. ASSUME NEW before \in StatusBits, NEW enable \in StatusBits, NEW previous \in StatusBits,
               0 \in ValuesOf(before), previous # "MPP", enable # "MPP"
        PROVE  [seen EXCEPT ![before] = 0, ![enable] = seen[previous]] \in Statuses
    <2>1. seen[previous] \in ValuesOf(enable)
      BY <1>1, <1>2, OneBit DEF Statuses
    <2>2. [seen EXCEPT ![before] = 0] \in Statuses
      BY <1>1, <1>2, BitSet
    <2>3. [[seen EXCEPT ![before] = 0] EXCEPT ![enable] = seen[previous]] \in Statuses
      BY <2>1, <2>2, BitSet
    <2>4. QED
      BY <2>3
  <1>3. 0 \in ValuesOf("MPP") /\ 0 \in ValuesOf("SPP")
    BY BitNames, OneBit DEF Levels, User
  <1>4. CASE level = Machine
    <2>1. [seen EXCEPT !["MPP"] = 0, !["MIE"] = seen["MPIE"]] \in Statuses
      BY <1>2, <1>3, BitNames
    <2>2. QED
      BY <1>4, <2>1 DEF Returned, seen
  <1>5. CASE level = Supervisor
    <2>1. [seen EXCEPT !["SPP"] = 0, !["SIE"] = seen["SPIE"]] \in Statuses
      BY <1>2, <1>3, BitNames
    <2>2. QED
      BY <1>5, <2>1 DEF Returned, seen, Machine, Supervisor
  <1>6. QED
    BY <1>4, <1>5

\* Where the controller puts the pending bits.
LEMMA PendingLevels ==
  ASSUME NEW kind
  PROVE  PendingLevel(kind) \in Levels
  BY LevelFacts DEF PendingLevel

LEMMA UpdatedFacts ==
  /\ Updated \subseteq Interrupts
  /\ Updated \cap Timers = IF timer THEN {4 + PendingLevel(4)} ELSE {}
  BY PendingLevels, LevelFacts DEF Updated, Interrupts, Software, Timers, External

\* An interrupt of the highest priority exists among any.
LEMMA Highest ==
  ASSUME Candidates # {}
  PROVE  InterruptType \in Candidates
  <1>1. Candidates \subseteq Interrupts
    BY UpdatedFacts DEF Candidates
  <1>2. ASSUME NEW i \in Candidates, \A j \in Candidates \ {i} : Precedes(i, j)
        PROVE  InterruptType \in Candidates
    BY <1>2 DEF InterruptType
  <1>3. Candidates \subseteq {11, 7, 3, 9, 5, 1, 8, 4, 0}
    BY <1>1 DEF Interrupts, Software, Timers, External
  <1>4. \E i \in Candidates : \A j \in Candidates \ {i} : Precedes(i, j)
    <2> DEFINE C == Candidates
    <2> HIDE DEF C
    <2>0. C # {} /\ C \subseteq {11, 7, 3, 9, 5, 1, 8, 4, 0}
      BY <1>3 DEF C
    <2>1. CASE 11 \in C
      <3>1. \A j \in C \ {11} : Precedes(11, j)
        BY <2>0 DEF Precedes
      <3>2. QED
        BY <2>1, <3>1 DEF C
    <2>2. CASE 11 \notin C /\ 7 \in C
      <3>1. \A j \in C \ {7} : Precedes(7, j)
        BY <2>0, <2>2 DEF Precedes
      <3>2. QED
        BY <2>2, <3>1 DEF C
    <2>3. CASE {11, 7} \cap C = {} /\ 3 \in C
      <3>1. \A j \in C \ {3} : Precedes(3, j)
        BY <2>0, <2>3 DEF Precedes
      <3>2. QED
        BY <2>3, <3>1 DEF C
    <2>4. CASE {11, 7, 3} \cap C = {} /\ 9 \in C
      <3>1. \A j \in C \ {9} : Precedes(9, j)
        BY <2>0, <2>4 DEF Precedes
      <3>2. QED
        BY <2>4, <3>1 DEF C
    <2>5. CASE {11, 7, 3, 9} \cap C = {} /\ 5 \in C
      <3>1. \A j \in C \ {5} : Precedes(5, j)
        BY <2>0, <2>5 DEF Precedes
      <3>2. QED
        BY <2>5, <3>1 DEF C
    <2>6. CASE {11, 7, 3, 9, 5} \cap C = {} /\ 1 \in C
      <3>1. \A j \in C \ {1} : Precedes(1, j)
        BY <2>0, <2>6 DEF Precedes
      <3>2. QED
        BY <2>6, <3>1 DEF C
    <2>7. CASE {11, 7, 3, 9, 5, 1} \cap C = {} /\ 8 \in C
      <3>1. \A j \in C \ {8} : Precedes(8, j)
        BY <2>0, <2>7 DEF Precedes
      <3>2. QED
        BY <2>7, <3>1 DEF C
    <2>8. CASE {11, 7, 3, 9, 5, 1, 8} \cap C = {} /\ 4 \in C
      <3>1. \A j \in C \ {4} : Precedes(4, j)
        BY <2>0, <2>8 DEF Precedes
      <3>2. QED
        BY <2>8, <3>1 DEF C
    <2>9. CASE C \subseteq {0}
      <3>1. \A j \in C \ {0} : Precedes(0, j)
        BY <2>9
      <3>2. QED
        BY <2>0, <2>9, <3>1 DEF C
    <2>10. QED
      BY <2>0, <2>1, <2>2, <2>3, <2>4, <2>5, <2>6, <2>7, <2>8, <2>9
  <1>5. QED
    BY <1>2, <1>4

-----------------------------------------------------------------------------
(* Types *)

Contexts == [priv : Levels, pc : Pcs, enable : 0 .. 1, intact : BOOLEAN]

LEMMA NothingType == Nothing \in Contexts
  BY DEF Nothing, Contexts, Pcs, Levels, User

LEMMA AfterWriteType ==
  ASSUME entered \in [{Supervisor, Machine} -> Contexts], NEW levels
  PROVE  AfterWrite(levels) \in [{Supervisor, Machine} -> Contexts]
  BY NothingType DEF AfterWrite

LEMMA EnableType ==
  ASSUME NEW value \in Statuses, NEW level \in Levels
  PROVE  InterruptEnable(value, level) \in 0 .. 1
  <1>1. {"MIE", "SIE", "UIE"} \subseteq StatusBits
    BY BitNames
  <1>2. \A bit \in {"MIE", "SIE", "UIE"} : value[bit] \in 0 .. 1
    BY <1>1, OneBit DEF Statuses
  <1>3. QED
    BY <1>2 DEF InterruptEnable

LEMMA TickType ==
  ASSUME timer \in BOOLEAN, Tick
  PROVE  timer' \in BOOLEAN
  BY DEF Tick

LEMMA EnterType ==
  ASSUME TypeOK, NEW level \in Levels, NEW n \in {0} \union Interrupts, TrapEnter(level, 4 * n)
  PROVE  TypeOK'
  <1>1. priv' \in Levels
    BY DEF TrapEnter
  <1>2. pc' \in Pcs
    BY DEF TrapEnter, Pcs
  <1>3. status' \in Statuses
    BY EnteredType, WrittenType DEF TrapEnter, TypeOK
  <1>4. epc' \in [Levels -> Pcs]
    BY DEF TrapEnter, TypeOK
  <1>5. ip' \subseteq Interrupts
    BY UpdatedFacts DEF TrapEnter
  <1>6. timer' \in BOOLEAN
    BY TickType DEF TrapEnter, TypeOK
  <1>7. entered' \in [{Supervisor, Machine} -> Contexts]
    <2>1. [priv |-> priv, pc |-> pc, enable |-> IE(level), intact |-> TRUE] \in Contexts
      BY EnableType DEF TypeOK, IE, Contexts
    <2>2. entered \in [{Supervisor, Machine} -> Contexts]
      BY DEF TypeOK, Contexts
    <2>3. QED
      BY <2>1, <2>2, NothingType DEF TrapEnter
  <1>8. masked' \subseteq Levels
    BY DEF TrapEnter, TypeOK
  <1>9. UNCHANGED <<vectored, deleg, ie>>
    BY DEF TrapEnter
  <1>10. QED
    BY <1>1, <1>2, <1>3, <1>4, <1>5, <1>6, <1>7, <1>8, <1>9 DEF TypeOK, Contexts

LEMMA InterruptStep ==
  ASSUME TypeOK, Interrupt
  PROVE  \E level \in Levels, n \in {0} \union Interrupts : TrapEnter(level, 4 * n)
  <1> DEFINE level == NextPriv(InterruptType, deleg.mideleg, deleg.sideleg)
             offset == IF vectored[level] THEN 4 * InterruptType ELSE 0
  <1>1. level \in Levels
    BY LevelFacts DEF NextPriv
  <1>2. InterruptType \in Interrupts
    BY Highest, UpdatedFacts DEF Interrupt, Candidates
  <1>3. \E n \in {0} \union Interrupts : offset = 4 * n
    <2>1. offset = 4 * InterruptType \/ offset = 4 * 0
      OBVIOUS
    <2> HIDE DEF offset
    <2>2. QED
      BY <1>2, <2>1
  <1>4. TrapEnter(level, offset)
    BY DEF Interrupt
  <1> HIDE DEF level, offset
  <1>5. QED
    BY <1>1, <1>3, <1>4

LEMMA ExceptionStep ==
  ASSUME NEW cause, Exception(cause)
  PROVE  \E level \in Levels : TrapEnter(level, 4 * 0)
  <1> DEFINE level == NextPriv(cause, deleg.medeleg, deleg.sedeleg)
  <1>1. level \in Levels
    BY LevelFacts DEF NextPriv
  <1>2. TrapEnter(level, 0)
    BY DEF Exception
  <1>3. TrapEnter(level, 4 * 0)
    BY <1>2
  <1>4. QED
    BY <1>1, <1>3

\* An interrupt or an exception enters some level.
LEMMA TrapStep ==
  ASSUME TypeOK, Interrupt \/ Exception(EnvironmentCall(priv)) \/ \E cause \in Exceptions : Exception(cause)
  PROVE  \E level \in Levels, n \in {0} \union Interrupts : TrapEnter(level, 4 * n)
  BY InterruptStep, ExceptionStep

LEMMA ReturnType ==
  ASSUME TypeOK, NEW level \in {Supervisor, Machine}, TrapReturn(level)
  PROVE  TypeOK'
  <1>1. status' \in Statuses
    BY ReturnedType, WrittenType, LevelFacts DEF TrapReturn, TypeOK
  <1>2. priv' \in Levels
    <2>1. status["MPP"] \in Levels
      BY BitNames DEF TypeOK, Statuses
    <2>2. status["SPP"] \in {User, Supervisor}
      BY BitNames, OneBit DEF TypeOK, Statuses, User, Supervisor
    <2>3. QED
      BY <2>1, <2>2, LevelFacts DEF TrapReturn
  <1>3. pc' \in Pcs
    BY LevelFacts DEF TrapReturn, TypeOK
  <1>4. ip' \subseteq Interrupts
    BY UpdatedFacts DEF TrapReturn
  <1>5. timer' \in BOOLEAN
    BY TickType DEF TrapReturn, TypeOK
  <1>6. entered' \in [{Supervisor, Machine} -> Contexts]
    BY AfterWriteType DEF TrapReturn, TypeOK, Contexts
  <1>7. masked' \subseteq Levels
    BY DEF TrapReturn, TypeOK
  <1>8. UNCHANGED <<epc, vectored, deleg, ie>>
    BY DEF TrapReturn
  <1>9. QED
    BY <1>1, <1>2, <1>3, <1>4, <1>5, <1>6, <1>7, <1>8 DEF TypeOK, Contexts

LEMMA ExecutesType ==
  ASSUME TypeOK, Executes
  PROVE  priv' \in Levels /\ pc' \in Pcs
  BY DEF Executes, TypeOK, Pcs

\* What a program may write to a view.
LEMMA WriteValue ==
  ASSUME TypeOK, NEW level \in Levels,
         NEW value \in {StatusSeen(level)}
                         \union {[StatusSeen(level) EXCEPT ![w.bit] = w.value] : w \in Writes.status}
  PROVE  value \in Statuses
  <1>1. StatusSeen(level) \in Statuses
    BY SeenType DEF TypeOK
  <1>2. ASSUME NEW w \in Writes.status
        PROVE  [StatusSeen(level) EXCEPT ![w.bit] = w.value] \in Statuses
    BY <1>1, BitSet, WritesAssumption
  <1>3. QED
    BY <1>1, <1>2

LEMMA WriteStatusType ==
  ASSUME TypeOK, NEW level \in Levels, WriteStatus(level)
  PROVE  TypeOK'
  <1>1. PICK value \in {StatusSeen(level)}
                         \union {[StatusSeen(level) EXCEPT ![w.bit] = w.value] : w \in Writes.status} :
          /\ status' = WrittenStatus(level, value)
          /\ masked' = {l \in masked : l <= level => InterruptEnable(value, l) = 0}
          /\ entered' = AfterWrite(Overwritten(level, value))
    BY DEF WriteStatus
  <1>2. status' \in Statuses
    BY <1>1, WriteValue, WrittenType
  <1>3. masked' \subseteq Levels
    BY <1>1 DEF TypeOK
  <1>4. entered' \in [{Supervisor, Machine} -> Contexts]
    BY <1>1, AfterWriteType DEF TypeOK, Contexts
  <1>5. ip' \subseteq Interrupts /\ timer' \in BOOLEAN
    BY UpdatedFacts, TickType DEF WriteStatus, TypeOK
  <1>6. UNCHANGED <<epc, vectored, deleg, ie>> /\ Executes
    BY DEF WriteStatus
  <1>7. QED
    BY <1>2, <1>3, <1>4, <1>5, <1>6, ExecutesType DEF TypeOK, Contexts

LEMMA OtherWritesType ==
  ASSUME TypeOK, NEW level \in Levels, WriteEpc(level) \/ WriteVector(level) \/ WriteEnable(level) \/ WritePending(level)
  PROVE  TypeOK'
  <1>0. ASSUME Executes, Tick, ip' \subseteq Interrupts
        PROVE  priv' \in Levels /\ pc' \in Pcs /\ timer' \in BOOLEAN
    BY <1>0, ExecutesType, TickType DEF TypeOK
  <1>1. CASE WriteEpc(level)
    <2>1. epc' \in [Levels -> Pcs]
      BY <1>1 DEF WriteEpc, TypeOK, Pcs
    <2>2. entered' \in [{Supervisor, Machine} -> Contexts]
      BY <1>1, AfterWriteType DEF WriteEpc, TypeOK, Contexts
    <2>3. QED
      BY <1>0, <1>1, <2>1, <2>2, UpdatedFacts DEF WriteEpc, TypeOK, Contexts
  <1>2. CASE WriteVector(level)
    <2>1. vectored' \in [Levels -> BOOLEAN]
      BY <1>2, WritesAssumption DEF WriteVector, TypeOK
    <2>2. QED
      BY <1>0, <1>2, <2>1, UpdatedFacts DEF WriteVector, TypeOK
  <1>3. CASE WriteEnable(level)
    <2>1. ie' \subseteq Interrupts
      BY <1>3, WritesAssumption DEF WriteEnable, TypeOK, SetWithMask
    <2>2. QED
      BY <1>0, <1>3, <2>1, UpdatedFacts DEF WriteEnable, TypeOK
  <1>4. CASE WritePending(level)
    <2>1. ip' \subseteq Interrupts
      BY <1>4, WritesAssumption, UpdatedFacts DEF WritePending, SetWithMask
    <2>2. QED
      BY <1>0, <1>4, <2>1 DEF WritePending, registers, TypeOK
  <1>5. QED
    BY <1>1, <1>2, <1>3, <1>4

LEMMA WriteDelegationType ==
  ASSUME TypeOK, NEW level \in {Supervisor, Machine}, WriteDelegation(level)
  PROVE  TypeOK'
  <1> DEFINE Delegations == [medeleg : SUBSET Causes, sedeleg : SUBSET Causes,
                             mideleg : SUBSET Interrupts, sideleg : SUBSET Interrupts]
  <1>1. deleg' \in Delegations
    <2>1. deleg \in Delegations
      BY DEF TypeOK
    <2>2. \/ \E v \in SUBSET Causes : \/ deleg' = [deleg EXCEPT !.medeleg = v]
                                     \/ deleg' = [deleg EXCEPT !.sedeleg = v]
          \/ \E v \in SUBSET Interrupts : \/ deleg' = [deleg EXCEPT !.mideleg = v]
                                         \/ deleg' = [deleg EXCEPT !.sideleg = v]
      BY WritesAssumption DEF WriteDelegation
    <2>3. QED
      BY <2>1, <2>2
  <1>2. priv' \in Levels /\ pc' \in Pcs /\ timer' \in BOOLEAN /\ ip' \subseteq Interrupts
    BY ExecutesType, TickType, UpdatedFacts DEF WriteDelegation, TypeOK
  <1>3. UNCHANGED <<status, epc, vectored, ie, entered, masked>>
    BY DEF WriteDelegation
  <1>4. QED
    BY <1>1, <1>2, <1>3 DEF TypeOK

LEMMA PlainType ==
  ASSUME TypeOK, StoreToClint \/ Other
  PROVE  TypeOK'
  <1>1. priv' \in Levels /\ pc' \in Pcs
    BY ExecutesType DEF StoreToClint, Other
  <1>2. timer' \in BOOLEAN
    BY TickType DEF StoreToClint, Other, TypeOK
  <1>3. ip' \subseteq Interrupts
    <2>1. Machine \in Interrupts
      BY DEF Machine, Interrupts, Software
    <2>2. QED
      BY <2>1, UpdatedFacts DEF StoreToClint, Other, SetWithMask
  <1>4. UNCHANGED <<registers, entered, masked>>
    BY DEF StoreToClint, Other
  <1>5. QED
    BY <1>1, <1>2, <1>3, <1>4 DEF TypeOK, registers

\* Every register of the hart keeps to its bits, whatever the program (Csr.cpp, TrapProcessor.cpp,
\* InterruptController.cpp).
THEOREM TypeCorrectness == Spec => []TypeOK
  <1>1. Init => TypeOK
    <2> SUFFICES ASSUME Init PROVE TypeOK
      OBVIOUS
    <2>1. status \in Statuses
      <3>1. \A bit \in StatusBits : 0 \in ValuesOf(bit)
        BY DEF ValuesOf, Levels, User
      <3>2. QED
        BY <3>1, StatusValues DEF Init
    <2>2. entered \in [{Supervisor, Machine} -> Contexts]
      BY NothingType DEF Init
    <2>3. QED
      BY <2>1, <2>2, LevelFacts DEF Init, TypeOK, Contexts, Pcs
  <1>2. TypeOK /\ [Next]_vars => TypeOK'
    <2> SUFFICES ASSUME TypeOK, [Next]_vars PROVE TypeOK'
      OBVIOUS
    <2>1. CASE Interrupt \/ Exception(EnvironmentCall(priv)) \/ \E cause \in Exceptions : Exception(cause)
      BY <2>1, TrapStep, EnterType
    <2>2. CASE \E level \in {Supervisor, Machine} : TrapReturn(level)
      BY <2>2, ReturnType
    <2>3. CASE \E level \in Levels : WriteStatus(level)
      BY <2>3, WriteStatusType
    <2>4. CASE \E level \in Levels : WriteEpc(level) \/ WriteVector(level) \/ WriteEnable(level) \/ WritePending(level)
      BY <2>4, OtherWritesType
    <2>5. CASE \E level \in {Supervisor, Machine} : WriteDelegation(level)
      BY <2>5, WriteDelegationType
    <2>6. CASE StoreToClint \/ Other
      BY <2>6, PlainType
    <2>7. CASE UNCHANGED vars
      BY <2>7 DEF TypeOK, vars, registers
    <2>8. QED
      BY <2>1, <2>2, <2>3, <2>4, <2>5, <2>6, <2>7 DEF Next
  <1>3. QED
    BY <1>1, <1>2, PTL DEF Spec

-----------------------------------------------------------------------------
(* Timer interrupts *)

\* What the steps leave of the timers' pending bits is what the controller put there.
LEMMA TimersPending ==
  ASSUME Next
  PROVE  ip' \cap Timers = Updated \cap Timers
  <1>1. CASE ip' = Updated
    BY <1>1
  <1>2. CASE \E level \in Levels : WritePending(level)
    BY <1>2 DEF WritePending, SetWithMask, WriteMask
  <1>3. CASE StoreToClint
    <2>1. Machine \notin Timers
      BY DEF Machine, Timers
    <2>2. QED
      BY <1>3, <2>1 DEF StoreToClint, SetWithMask
  <1>4. QED
    BY <1>1, <1>2, <1>3
    DEF Next, Interrupt, Exception, TrapEnter, TrapReturn, WriteStatus, WriteEpc, WriteVector,
        WriteDelegation, WriteEnable, Other

\* No write of a program hides a timer interrupt or fakes one (InterruptController::Update, mip and mtimecmp).
THEOREM TimerIsNotFaked == Spec => PendingFollowsTimer
  <1>1. Next => \E level \in Levels : ip' \cap Timers = IF timer THEN {4 + level} ELSE {}
    BY TimersPending, UpdatedFacts, PendingLevels
  <1>2. QED
    BY <1>1, PTL DEF Spec, PendingFollowsTimer

-----------------------------------------------------------------------------
(* Masked handlers *)

\* A view is written with the bits of its level from the value, and with no enable bit of a higher level set.
LEMMA WrittenEnable ==
  ASSUME NEW level \in Levels, NEW l \in Levels, NEW value
  PROVE  InterruptEnable(WrittenStatus(level, value), l) =
           IF l <= level THEN InterruptEnable(value, l) ELSE 0
  BY DEF InterruptEnable, WrittenStatus, Masked, Levels, Machine, Supervisor, User, StatusBits,
         MachineBits, SupervisorBits, UserBits

LEMMA SeenEnable ==
  ASSUME NEW level \in Levels, NEW l \in Levels
  PROVE  InterruptEnable(StatusSeen(level), l) = IF l <= level THEN IE(l) ELSE 0
  BY DEF InterruptEnable, IE, StatusSeen, Masked, Levels, Machine, Supervisor, User, StatusBits,
         MachineBits, SupervisorBits, UserBits

LEMMA EnteredEnable ==
  ASSUME TypeOK, NEW level \in Levels, NEW l \in Levels
  PROVE  InterruptEnable(Entered(level), l) =
           IF l = level THEN 0 ELSE InterruptEnable(StatusSeen(level), l)
  <1> DEFINE seen == StatusSeen(level)
  <1>1. seen \in [StatusBits -> 0 .. 3]
    BY SeenType DEF TypeOK, Statuses
  <1> HIDE DEF seen
  <1>2. InterruptEnable(Entered(level), l) = IF l = level THEN 0 ELSE InterruptEnable(seen, l)
    <2>1. {"MIE", "SIE", "UIE", "MPIE", "SPIE", "UPIE", "MPP", "SPP"} \subseteq StatusBits
      BY BitNames
    <2>2. CASE level = Machine
      <3>1. Entered(level) = [seen EXCEPT !["MPIE"] = seen["MIE"], !["MIE"] = 0, !["MPP"] = priv]
        BY <2>2, LevelFacts DEF Entered, seen
      <3>2. QED
        BY <1>1, <2>1, <2>2, <3>1, LevelFacts DEF InterruptEnable
    <2>3. CASE level = Supervisor
      <3>1. Entered(level) = [seen EXCEPT !["SPIE"] = seen["SIE"], !["SIE"] = 0, !["SPP"] = priv % 2]
        BY <2>3, LevelFacts DEF Entered, seen
      <3>2. QED
        BY <1>1, <2>1, <2>3, <3>1, LevelFacts DEF InterruptEnable
    <2>4. CASE level = User
      <3>1. Entered(level) = [seen EXCEPT !["UPIE"] = seen["UIE"], !["UIE"] = 0]
        BY <2>4, LevelFacts DEF Entered, seen
      <3>2. QED
        BY <1>1, <2>1, <2>4, <3>1, LevelFacts DEF InterruptEnable, Levels
    <2>5. QED
      BY <2>2, <2>3, <2>4 DEF Levels
  <1>3. QED
    BY <1>2 DEF seen

\* A return gives the level its previous enable bit and leaves those of the other levels to the view.
LEMMA ReturnedEnable ==
  ASSUME TypeOK, NEW level \in {Supervisor, Machine}, NEW l \in Levels
  PROVE  InterruptEnable(Returned(level), l) =
           IF l = level THEN status[IF level = Machine THEN "MPIE" ELSE "SPIE"]
                        ELSE InterruptEnable(StatusSeen(level), l)
  <1> DEFINE seen == StatusSeen(level)
  <1>1. seen \in [StatusBits -> 0 .. 3]
    BY SeenType, LevelFacts DEF TypeOK, Statuses
  <1>2. seen[IF level = Machine THEN "MPIE" ELSE "SPIE"] = status[IF level = Machine THEN "MPIE" ELSE "SPIE"]
    BY LevelFacts DEF StatusSeen, Masked, StatusBits, MachineBits, SupervisorBits
  <1> HIDE DEF seen
  <1>3. {"MIE", "SIE", "UIE", "MPIE", "SPIE", "UPIE", "MPP", "SPP"} \subseteq StatusBits
    BY BitNames
  <1>4. CASE level = Machine
    <2>1. Returned(level) = [seen EXCEPT !["MPP"] = 0, !["MIE"] = seen["MPIE"]]
      BY <1>4, LevelFacts DEF Returned, seen
    <2>2. InterruptEnable(Returned(level), l) = IF l = level THEN seen["MPIE"] ELSE InterruptEnable(seen, l)
      BY <1>1, <1>3, <1>4, <2>1, LevelFacts DEF InterruptEnable
    <2>3. QED
      BY <1>2, <1>4, <2>2 DEF seen
  <1>5. CASE level = Supervisor
    <2>1. Returned(level) = [seen EXCEPT !["SPP"] = 0, !["SIE"] = seen["SPIE"]]
      BY <1>5, LevelFacts DEF Returned, seen
    <2>2. InterruptEnable(Returned(level), l) = IF l = level THEN seen["SPIE"] ELSE InterruptEnable(seen, l)
      BY <1>1, <1>3, <1>5, <2>1, LevelFacts DEF InterruptEnable
    <2>3. QED
      BY <1>2, <1>5, <2>2, LevelFacts DEF seen
  <1>6. QED
    BY <1>4, <1>5

LEMMA EnterMasked ==
  ASSUME TypeOK, HandlersAreMasked, NEW level \in Levels, NEW offset, TrapEnter(level, offset)
  PROVE  HandlersAreMasked'
  <1> SUFFICES ASSUME NEW l \in masked' PROVE InterruptEnable(status', l) = 0
    BY DEF HandlersAreMasked, IE, InterruptEnable
  <1>1. l \in Levels /\ (l = level \/ l \in masked)
    BY DEF TrapEnter, TypeOK
  <1>2. InterruptEnable(status', l) = IF l <= level THEN InterruptEnable(Entered(level), l) ELSE 0
    BY <1>1, WrittenEnable DEF TrapEnter
  <1>3. InterruptEnable(Entered(level), l) = IF l = level THEN 0 ELSE InterruptEnable(StatusSeen(level), l)
    BY <1>1, EnteredEnable
  <1>4. InterruptEnable(StatusSeen(level), l) = IF l <= level THEN IE(l) ELSE 0
    BY <1>1, SeenEnable
  <1>5. l \in masked => IE(l) = 0
    BY DEF HandlersAreMasked
  <1>6. QED
    BY <1>1, <1>2, <1>3, <1>4, <1>5

LEMMA ReturnMasked ==
  ASSUME TypeOK, HandlersAreMasked, NEW level \in {Supervisor, Machine}, TrapReturn(level)
  PROVE  HandlersAreMasked'
  <1> SUFFICES ASSUME NEW l \in masked' PROVE InterruptEnable(status', l) = 0
    BY DEF HandlersAreMasked, IE, InterruptEnable
  <1>1. l \in Levels /\ l # level /\ l \in masked /\ level \in Levels
    BY LevelFacts DEF TrapReturn, TypeOK
  <1>2. InterruptEnable(status', l) = IF l <= level THEN InterruptEnable(Returned(level), l) ELSE 0
    BY <1>1, WrittenEnable DEF TrapReturn
  <1>3. InterruptEnable(Returned(level), l) = InterruptEnable(StatusSeen(level), l)
    BY <1>1, ReturnedEnable
  <1>4. InterruptEnable(StatusSeen(level), l) = IF l <= level THEN IE(l) ELSE 0
    BY <1>1, SeenEnable
  <1>5. IE(l) = 0
    BY <1>1 DEF HandlersAreMasked
  <1>6. QED
    BY <1>2, <1>3, <1>4, <1>5

LEMMA WriteMasked ==
  ASSUME TypeOK, NEW level \in Levels, WriteStatus(level)
  PROVE  HandlersAreMasked'
  <1> SUFFICES ASSUME NEW l \in masked' PROVE InterruptEnable(status', l) = 0
    BY DEF HandlersAreMasked, IE, InterruptEnable
  <1>1. PICK value :
          /\ status' = WrittenStatus(level, value)
          /\ masked' = {m \in masked : m <= level => InterruptEnable(value, m) = 0}
    BY DEF WriteStatus
  <1>2. l \in Levels /\ (l <= level => InterruptEnable(value, l) = 0)
    BY <1>1 DEF TypeOK
  <1>3. QED
    BY <1>1, <1>2, WrittenEnable

\* No handler is interrupted at its own level before it returns or asks for it, however traps into
\* other levels and returns from them change the status (TrapProcessor.cpp, Csr.cpp).
THEOREM HandlersStayMasked == Spec => []HandlersAreMasked
  <1>1. Init => HandlersAreMasked
    BY DEF Init, HandlersAreMasked
  <1>2. TypeOK /\ HandlersAreMasked /\ [Next]_vars => HandlersAreMasked'
    <2> SUFFICES ASSUME TypeOK, HandlersAreMasked, [Next]_vars PROVE HandlersAreMasked'
      OBVIOUS
    <2>1. CASE Interrupt \/ Exception(EnvironmentCall(priv)) \/ \E cause \in Exceptions : Exception(cause)
      BY <2>1, TrapStep, EnterMasked
    <2>2. CASE \E level \in {Supervisor, Machine} : TrapReturn(level)
      BY <2>2, ReturnMasked
    <2>3. CASE \E level \in Levels : WriteStatus(level)
      BY <2>3, WriteMasked
    <2>4. CASE UNCHANGED <<status, masked>>
      BY <2>4 DEF HandlersAreMasked, IE, InterruptEnable
    <2>5. QED
      BY <2>1, <2>2, <2>3, <2>4
      DEF Next, vars, registers, WriteEpc, WriteVector, WriteEnable, WritePending, WriteDelegation, StoreToClint, Other
  <1>3. QED
    BY <1>1, <1>2, TypeCorrectness, PTL DEF Spec

-----------------------------------------------------------------------------
(* Returns *)

\* What ReturnsRestore rests on: the context of a trap is where the trap put it.
ContextHolds ==
  \A level \in {Supervisor, Machine} :
    LET context == entered[level] IN
    context.intact =>
      /\ epc[level] = context.pc
      /\ level = Machine => status["MPIE"] = context.enable /\ status["MPP"] = context.priv
      /\ level = Supervisor => status["SPIE"] = context.enable /\ status["SPP"] = context.priv % 2

ContextOf(level) == IF level = Machine THEN {"MPIE", "MPP"} ELSE {"SPIE", "SPP"}

\* The bits of a context in the views of its level and of those above.
LEMMA ContextSeen ==
  ASSUME NEW level \in {Supervisor, Machine}, NEW l \in {Supervisor, Machine}, l <= level,
         NEW bit \in ContextOf(l), NEW value
  PROVE  StatusSeen(level)[bit] = status[bit] /\ WrittenStatus(level, value)[bit] = value[bit]
  BY DEF ContextOf, StatusSeen, WrittenStatus, Masked, Machine, Supervisor, User,
         StatusBits, MachineBits, SupervisorBits, UserBits

LEMMA EnterContext ==
  ASSUME TypeOK, ContextHolds, NEW level \in Levels, NEW offset, TrapEnter(level, offset)
  PROVE  ContextHolds'
  <1> DEFINE seen == StatusSeen(level)
  <1>0. seen \in [StatusBits -> 0 .. 3] /\ {"MIE", "SIE", "MPIE", "SPIE", "MPP", "SPP"} \subseteq StatusBits
    BY SeenType, BitNames DEF TypeOK, Statuses
  <1>1. epc' = [epc EXCEPT ![level] = pc] /\ status' = WrittenStatus(level, Entered(level)) /\ epc \in [Levels -> Pcs]
    BY DEF TrapEnter, TypeOK
  <1>2. entered' = [l \in {Supervisor, Machine} |->
          IF l = level THEN [priv |-> priv, pc |-> pc, enable |-> IE(level), intact |-> TRUE]
          ELSE IF level < l THEN Nothing ELSE entered[l]]
    BY DEF TrapEnter
  <1>3. CASE level = Machine
    <2>1. Entered(level) = [seen EXCEPT !["MPIE"] = seen["MIE"], !["MIE"] = 0, !["MPP"] = priv] /\ seen = status
      BY <1>3, LevelFacts DEF Entered, StatusSeen
    <2> HIDE DEF seen
    <2>2. status' = Entered(level)
      BY <1>1, <1>3, LevelFacts DEF WrittenStatus
    <2>3. status'["MPIE"] = IE(Machine) /\ status'["MPP"] = priv
          /\ status'["SPIE"] = status["SPIE"] /\ status'["SPP"] = status["SPP"]
      BY <1>0, <2>1, <2>2, LevelFacts DEF IE, InterruptEnable
    <2>4. entered'[Machine] = [priv |-> priv, pc |-> pc, enable |-> IE(Machine), intact |-> TRUE]
          /\ entered'[Supervisor] = entered[Supervisor]
      BY <1>2, <1>3 DEF Machine, Supervisor
    <2>5. epc'[Machine] = pc /\ epc'[Supervisor] = epc[Supervisor]
      BY <1>1, <1>3, LevelFacts
    <2>6. QED
      BY <2>3, <2>4, <2>5, LevelFacts DEF ContextHolds
  <1>4. CASE level = Supervisor
    <2>1. Entered(level) = [seen EXCEPT !["SPIE"] = seen["SIE"], !["SIE"] = 0, !["SPP"] = priv % 2]
          /\ seen["SIE"] = IE(Supervisor)
      BY <1>4, LevelFacts, SeenEnable DEF Entered, InterruptEnable
    <2> HIDE DEF seen
    <2>2. status'["SPIE"] = Entered(level)["SPIE"] /\ status'["SPP"] = Entered(level)["SPP"]
      BY <1>1, <1>4, ContextSeen, LevelFacts DEF ContextOf, Supervisor, Machine
    <2>3. status'["SPIE"] = IE(Supervisor) /\ status'["SPP"] = priv % 2
      BY <1>0, <2>1, <2>2
    <2>4. entered'[Supervisor] = [priv |-> priv, pc |-> pc, enable |-> IE(Supervisor), intact |-> TRUE]
          /\ entered'[Machine].intact = FALSE
      BY <1>2, <1>4 DEF Machine, Supervisor, Nothing
    <2>5. epc'[Supervisor] = pc
      BY <1>1, <1>4, LevelFacts
    <2>6. QED
      BY <2>3, <2>4, <2>5, LevelFacts DEF ContextHolds
  <1>5. CASE level = User
    <2>1. \A l \in {Supervisor, Machine} : entered'[l].intact = FALSE
      BY <1>2, <1>5 DEF Machine, Supervisor, User, Nothing
    <2>2. QED
      BY <2>1 DEF ContextHolds
  <1>6. QED
    BY <1>3, <1>4, <1>5 DEF Levels

LEMMA ReturnContext ==
  ASSUME TypeOK, ContextHolds, NEW level \in {Supervisor, Machine}, TrapReturn(level)
  PROVE  ContextHolds'
  <1>1. entered' = AfterWrite({level, Machine}) /\ epc' = epc /\ status' = WrittenStatus(level, Returned(level))
    BY DEF TrapReturn
  <1>2. entered'[Machine].intact = FALSE
    BY <1>1 DEF AfterWrite, Nothing
  <1>3. CASE level = Supervisor
    <2>1. entered'[Supervisor].intact = FALSE
      BY <1>1, <1>3 DEF AfterWrite, Nothing
    <2>2. QED
      BY <1>2, <2>1 DEF ContextHolds
  <1>4. CASE level = Machine
    <2>1. status' = [status EXCEPT !["MPP"] = 0, !["MIE"] = status["MPIE"]]
      BY <1>1, <1>4, LevelFacts DEF Returned, WrittenStatus, StatusSeen
    <2>2. status'["SPIE"] = status["SPIE"] /\ status'["SPP"] = status["SPP"]
      BY <2>1, BitNames DEF TypeOK, Statuses
    <2>3. entered'[Supervisor] = entered[Supervisor]
      BY <1>1, <1>4, LevelFacts DEF AfterWrite
    <2>4. QED
      BY <1>1, <1>2, <2>2, <2>3, LevelFacts DEF ContextHolds
  <1>5. QED
    BY <1>3, <1>4

\* A write that leaves a context intact writes back what it has read.
LEMMA WriteContext ==
  ASSUME TypeOK, ContextHolds, NEW level \in Levels, WriteStatus(level)
  PROVE  ContextHolds'
  <1>1. PICK value : status' = WrittenStatus(level, value) /\ entered' = AfterWrite(Overwritten(level, value)) /\ epc' = epc
    BY DEF WriteStatus
  <1>2. ASSUME NEW l \in {Supervisor, Machine}, entered'[l].intact
        PROVE  entered'[l] = entered[l] /\ \A bit \in ContextOf(l) : status'[bit] = status[bit]
    <2>1. l \notin Overwritten(level, value) /\ entered'[l] = entered[l]
      BY <1>1, <1>2 DEF AfterWrite, Nothing
    <2>2. value = StatusSeen(level) /\ l <= level
      BY <2>1 DEF Overwritten, Machine, Supervisor, User, Levels
    <2>3. level \in {Supervisor, Machine}
      BY <2>2 DEF Machine, Supervisor, User, Levels
    <2>4. QED
      BY <1>1, <2>1, <2>2, <2>3, ContextSeen
  <1>3. ASSUME entered'[Machine].intact
        PROVE  entered'[Machine] = entered[Machine] /\ status'["MPIE"] = status["MPIE"] /\ status'["MPP"] = status["MPP"]
    BY <1>2, <1>3 DEF ContextOf
  <1>4. ASSUME entered'[Supervisor].intact
        PROVE  entered'[Supervisor] = entered[Supervisor] /\ status'["SPIE"] = status["SPIE"] /\ status'["SPP"] = status["SPP"]
    BY <1>2, <1>4, LevelFacts DEF ContextOf
  <1>5. QED
    BY <1>1, <1>3, <1>4, LevelFacts DEF ContextHolds

LEMMA WriteEpcContext ==
  ASSUME TypeOK, ContextHolds, NEW level \in Levels, WriteEpc(level)
  PROVE  ContextHolds'
  <1>1. status' = status /\ entered' = AfterWrite({level}) /\ \A l \in {Supervisor, Machine} \ {level} : epc'[l] = epc[l]
    BY LevelFacts DEF WriteEpc, TypeOK
  <1>2. \A l \in {Supervisor, Machine} : entered'[l].intact => l # level /\ entered'[l] = entered[l]
    BY <1>1 DEF AfterWrite, Nothing
  <1>3. QED
    BY <1>1, <1>2 DEF ContextHolds

LEMMA ContextsHold == Spec => []ContextHolds
  <1>1. Init => ContextHolds
    BY DEF Init, ContextHolds, Nothing
  <1>2. TypeOK /\ ContextHolds /\ [Next]_vars => ContextHolds'
    <2> SUFFICES ASSUME TypeOK, ContextHolds, [Next]_vars PROVE ContextHolds'
      OBVIOUS
    <2>1. CASE Interrupt \/ Exception(EnvironmentCall(priv)) \/ \E cause \in Exceptions : Exception(cause)
      BY <2>1, TrapStep, EnterContext
    <2>2. CASE \E level \in {Supervisor, Machine} : TrapReturn(level)
      BY <2>2, ReturnContext
    <2>3. CASE \E level \in Levels : WriteStatus(level) \/ WriteEpc(level)
      BY <2>3, WriteContext, WriteEpcContext
    <2>4. CASE UNCHANGED <<status, epc, entered>>
      BY <2>4 DEF ContextHolds
    <2>5. QED
      BY <2>1, <2>2, <2>3, <2>4
      DEF Next, vars, registers, WriteVector, WriteEnable, WritePending, WriteDelegation, StoreToClint, Other
  <1>3. QED
    BY <1>1, <1>2, TypeCorrectness, PTL DEF Spec

LEMMA ReturnRestores ==
  ASSUME TypeOK, ContextHolds, NEW level \in {Supervisor, Machine}
  PROVE  Restores(level)
  <1> SUFFICES ASSUME TrapReturn(level), entered[level].intact, entered[level].priv <= level
               PROVE  /\ priv' = entered[level].priv /\ pc' = entered[level].pc
                      /\ InterruptEnable(status', level) = entered[level].enable
    BY DEF Restores
  <1>1. pc' = entered[level].pc
    BY DEF TrapReturn, ContextHolds
  <1>2. priv' = entered[level].priv
    <2>1. CASE level = Machine
      BY <2>1 DEF TrapReturn, ContextHolds
    <2>2. CASE level = Supervisor
      <3>1. priv' = entered[level].priv % 2
        BY <2>2, LevelFacts DEF TrapReturn, ContextHolds
      <3>2. entered[level].priv \in {0, 1}
        BY <2>2 DEF TypeOK, Levels, Machine, Supervisor, User
      <3>3. QED
        BY <3>1, <3>2
    <2>3. QED
      BY <2>1, <2>2
  <1>3. InterruptEnable(status', level) = InterruptEnable(Returned(level), level)
    BY WrittenEnable, LevelFacts DEF TrapReturn, Machine, Supervisor
  <1>4. InterruptEnable(Returned(level), level) = status[IF level = Machine THEN "MPIE" ELSE "SPIE"]
    BY ReturnedEnable, LevelFacts
  <1>5. QED
    BY <1>1, <1>2, <1>3, <1>4, LevelFacts DEF ContextHolds

\* mret and sret resume what the trap interrupted, at its level and with its interrupt enable
\* (TrapProcessor::ProcessTrapReturn), with any traps and programs in between.
THEOREM ReturnsAreRestored == Spec => ReturnsRestore
  <1>1. TypeOK /\ ContextHolds => \A level \in {Supervisor, Machine} : Restores(level)
    BY ReturnRestores
  <1>2. QED
    BY <1>1, TypeCorrectness, ContextsHold, PTL DEF ReturnsRestore

-----------------------------------------------------------------------------
(* Levels *)

\* A view of a lower level shows no bit of a higher one.
LEMMA ViewsAreLow ==
  ASSUME NEW level \in {Supervisor, Machine}, NEW l \in Levels, l < level
  PROVE  View(l) \cap OfLevel(level) = {} /\ WriteMask(l) \cap OfLevel(level) = {}
  <1>1. View(l) \cap OfLevel(level) = {}
    BY DEF View, OfLevel, Levels, Machine, Supervisor, User
  <1>2. QED
    BY <1>1 DEF WriteMask

LEMMA LowStatus ==
  ASSUME NEW level \in {Supervisor, Machine}, NEW l \in Levels, l < level, NEW value, NEW bit \in BitsOf(level)
  PROVE  WrittenStatus(l, value)[bit] = 0
  <1>1. CASE level = Machine
    <2>1. bit \in StatusBits /\ bit \notin SupervisorBits /\ bit \notin UserBits
      BY <1>1, LevelFacts DEF BitsOf, StatusBits, MachineBits, SupervisorBits, UserBits
    <2>2. QED
      BY <1>1, <2>1, LevelFacts DEF WrittenStatus, Masked, Levels, Machine, Supervisor, User
  <1>2. CASE level = Supervisor
    <2>1. bit \in StatusBits /\ bit \notin UserBits
      BY <1>2, LevelFacts DEF BitsOf, StatusBits, SupervisorBits, UserBits
    <2>2. l = User
      BY <1>2 DEF Levels, Machine, Supervisor, User
    <2>3. QED
      BY <2>1, <2>2, LevelFacts DEF WrittenStatus, Masked
  <1>3. QED
    BY <1>1, <1>2

\* A step of a lower level that stays below acts through the views and registers of the levels below.
LEMMA LowStep ==
  ASSUME TypeOK, Next, NEW level \in {Supervisor, Machine}, priv < level, priv' < level
  PROVE  Undisturbed(level)
  <1> DEFINE StatusKept == \A bit \in BitsOf(level) : status'[bit] \in {status[bit], 0}
             EpcKept == epc'[level] = epc[level]
             VectorKept == vectored'[level] = vectored[level]
             DelegationKept ==
               /\ level = Machine => (deleg'.medeleg = deleg.medeleg /\ deleg'.mideleg = deleg.mideleg)
               /\ level = Supervisor => (deleg'.sedeleg = deleg.sedeleg /\ deleg'.sideleg = deleg.sideleg)
             EnableKept == ie' \cap OfLevel(level) = ie \cap OfLevel(level)
             PendingKept == ip' \cap (OfLevel(level) \ {Machine}) = Updated \cap (OfLevel(level) \ {Machine})
  <1>0. SUFFICES StatusKept /\ EpcKept /\ VectorKept /\ DelegationKept /\ EnableKept /\ PendingKept
    BY DEF Undisturbed
  <1>1. /\ status' = status => StatusKept
        /\ epc' = epc => EpcKept
        /\ vectored' = vectored => VectorKept
        /\ deleg' = deleg => DelegationKept
        /\ ie' = ie => EnableKept
        /\ ip' = Updated => PendingKept
    OBVIOUS
  <1>2. ASSUME NEW l \in Levels, l < level, NEW value, status' = WrittenStatus(l, value)
        PROVE  StatusKept
    BY <1>2, LowStatus
  <1>3. ASSUME NEW l \in Levels, l < level, NEW value, epc' = [epc EXCEPT ![l] = value]
        PROVE  EpcKept
    BY <1>3 DEF TypeOK, Levels, Machine, Supervisor, User
  <1> HIDE DEF StatusKept, EpcKept, VectorKept, DelegationKept, EnableKept, PendingKept
  <1>4. CASE Interrupt \/ Exception(EnvironmentCall(priv)) \/ \E cause \in Exceptions : Exception(cause)
    <2>1. PICK l \in Levels, n \in {0} \union Interrupts : TrapEnter(l, 4 * n)
      BY <1>4, TrapStep
    <2>2. l < level
      BY <2>1 DEF TrapEnter
    <2>3. StatusKept
      BY <1>2, <2>1, <2>2 DEF TrapEnter
    <2>4. EpcKept
      BY <1>3, <2>1, <2>2 DEF TrapEnter
    <2>5. QED
      BY <1>1, <2>1, <2>3, <2>4 DEF TrapEnter
  <1>5. CASE \E l \in {Supervisor, Machine} : TrapReturn(l)
    <2>1. PICK l \in {Supervisor, Machine} : TrapReturn(l)
      BY <1>5
    <2>2. l \in Levels /\ l < level
      BY <2>1, LevelFacts DEF TrapReturn, TypeOK, Levels, Machine, Supervisor, User
    <2>3. StatusKept
      BY <1>2, <2>1, <2>2 DEF TrapReturn
    <2>4. QED
      BY <1>1, <2>1, <2>3 DEF TrapReturn
  <1>6. ASSUME NEW l \in Levels, Accessible(l) PROVE l < level
    BY <1>6 DEF Accessible, TypeOK, Levels, Machine, Supervisor, User
  <1>7. ASSUME NEW l \in Levels, WriteStatus(l)
        PROVE  StatusKept /\ EpcKept /\ VectorKept /\ DelegationKept /\ EnableKept /\ PendingKept
    <2>1. StatusKept
      BY <1>2, <1>6, <1>7 DEF WriteStatus
    <2>2. QED
      BY <1>1, <1>7, <2>1 DEF WriteStatus
  <1>8. ASSUME NEW l \in Levels, WriteEpc(l)
        PROVE  StatusKept /\ EpcKept /\ VectorKept /\ DelegationKept /\ EnableKept /\ PendingKept
    <2>1. EpcKept
      BY <1>3, <1>6, <1>8 DEF WriteEpc
    <2>2. QED
      BY <1>1, <1>8, <2>1 DEF WriteEpc
  <1>9. ASSUME NEW l \in Levels, WriteVector(l)
        PROVE  StatusKept /\ EpcKept /\ VectorKept /\ DelegationKept /\ EnableKept /\ PendingKept
    <2>1. VectorKept
      <3>1. PICK mode : vectored' = [vectored EXCEPT ![l] = mode]
        BY <1>9 DEF WriteVector
      <3>2. l # level
        BY <1>6, <1>9 DEF WriteVector, Levels, Machine, Supervisor, User
      <3>3. QED
        BY <3>1, <3>2, LevelFacts DEF TypeOK, VectorKept
    <2>2. QED
      BY <1>1, <1>9, <2>1 DEF WriteVector
  <1>10. ASSUME NEW l \in Levels, WriteEnable(l)
         PROVE  StatusKept /\ EpcKept /\ VectorKept /\ DelegationKept /\ EnableKept /\ PendingKept
    <2>1. EnableKept
      BY <1>6, <1>10, ViewsAreLow DEF WriteEnable, SetWithMask, EnableKept
    <2>2. QED
      BY <1>1, <1>10, <2>1 DEF WriteEnable
  <1>11. ASSUME NEW l \in Levels, WritePending(l)
         PROVE  StatusKept /\ EpcKept /\ VectorKept /\ DelegationKept /\ EnableKept /\ PendingKept
    <2>1. PendingKept
      BY <1>6, <1>11, ViewsAreLow DEF WritePending, SetWithMask, PendingKept
    <2>2. QED
      BY <1>1, <1>11, <2>1 DEF WritePending, registers
  <1>12. ASSUME NEW l \in {Supervisor, Machine}, WriteDelegation(l)
         PROVE  StatusKept /\ EpcKept /\ VectorKept /\ DelegationKept /\ EnableKept /\ PendingKept
    <2>1. l = Supervisor /\ level = Machine
      BY <1>6, <1>12, LevelFacts DEF WriteDelegation, Machine, Supervisor
    <2>2. \/ \E v : deleg' = [deleg EXCEPT !.sedeleg = v]
          \/ \E v : deleg' = [deleg EXCEPT !.sideleg = v]
      BY <1>12, <2>1, LevelFacts DEF WriteDelegation
    <2>3. DelegationKept
      BY <2>1, <2>2, LevelFacts DEF TypeOK, DelegationKept
    <2>4. QED
      BY <1>1, <1>12, <2>3 DEF WriteDelegation
  <1>13. CASE StoreToClint
    <2>1. PendingKept
      BY <1>13 DEF StoreToClint, SetWithMask, PendingKept
    <2>2. QED
      BY <1>1, <1>13, <2>1 DEF StoreToClint, registers
  <1>14. CASE Other
    BY <1>1, <1>14 DEF Other, registers
  <1>15. QED
    BY <1>4, <1>5, <1>7, <1>8, <1>9, <1>10, <1>11, <1>12, <1>13, <1>14 DEF Next

\* A program of a lower level reaches nothing of a higher one but through a trap (Csr.cpp), whatever it
\* writes to the views of its own level.
THEOREM LowerLevelsAreConfined == Spec => LevelsAreSeparate
  <1>1. TypeOK /\ [Next]_vars =>
          [\A level \in {Supervisor, Machine} : priv < level /\ priv' < level => Undisturbed(level)]_vars
    BY LowStep
  <1>2. QED
    BY <1>1, TypeCorrectness, PTL DEF Spec, LevelsAreSeparate

-----------------------------------------------------------------------------
(* The HDL core *)

LEMMA HdlLevelFacts ==
  /\ HDL!Levels = {0, 1, 3} /\ HDL!User = 0 /\ HDL!Supervisor = 1 /\ HDL!Machine = 3
  BY DEF HDL!Levels, HDL!Machine, HDL!Supervisor, HDL!User

-----------------------------------------------------------------------------
(* The words in front of the execute stage *)

\* A sequence, of whatever it holds.
IsSeq(s) == s \in Seq({s[i] : i \in 1 .. Len(s)})

LEMMA AppendFacts ==
  ASSUME NEW s, IsSeq(s), NEW e
  PROVE  /\ IsSeq(Append(s, e))
         /\ \A i \in 1 .. Len(Append(s, e)) : Append(s, e)[i] = e \/ (i \in 1 .. Len(s) /\ Append(s, e)[i] = s[i])
  <1> DEFINE S == {s[i] : i \in 1 .. Len(s)} \union {e}
             t == Append(s, e)
  <1>1. s \in Seq(S) /\ e \in S
    BY DEF IsSeq
  <1> HIDE DEF S
  <1>2. t \in Seq(S) /\ Len(t) = Len(s) + 1 /\ Len(s) \in Nat
    BY <1>1
  <1>3. \A i \in 1 .. Len(t) : t[i] = IF i <= Len(s) THEN s[i] ELSE e
    BY <1>1, <1>2
  <1> HIDE DEF t
  <1>4. t \in Seq({t[i] : i \in 1 .. Len(t)})
    BY <1>2
  <1>5. \A i \in 1 .. Len(t) : t[i] = e \/ (i \in 1 .. Len(s) /\ t[i] = s[i])
    BY <1>2, <1>3
  <1>6. QED
    BY <1>4, <1>5 DEF IsSeq, t

LEMMA TailFacts ==
  ASSUME NEW s, IsSeq(s), s # <<>>
  PROVE  /\ IsSeq(Tail(s))
         /\ 1 \in 1 .. Len(s)
         /\ \A i \in 1 .. Len(Tail(s)) : i + 1 \in 1 .. Len(s) /\ Tail(s)[i] = s[i + 1]
  <1> DEFINE S == {s[i] : i \in 1 .. Len(s)}
             t == Tail(s)
  <1>1. s \in Seq(S)
    BY DEF IsSeq
  <1> HIDE DEF S
  <1>2. t \in Seq(S) /\ Len(t) = Len(s) - 1 /\ Len(s) \in Nat \ {0}
    BY <1>1
  <1>3. \A i \in 1 .. Len(t) : t[i] = s[i + 1]
    BY <1>1, <1>2
  <1> HIDE DEF t
  <1>4. t \in Seq({t[i] : i \in 1 .. Len(t)})
    BY <1>2
  <1>5. QED
    BY <1>2, <1>3, <1>4 DEF IsSeq, t

LEMMA EmptyFacts == IsSeq(<<>>) /\ Len(<<>>) = 0
  BY DEF IsSeq

-----------------------------------------------------------------------------
(* Interrupts under way *)

Sequential == IsSeq(front)
FrontIsCurrent(words) == \A i \in 1 .. Len(words) : words[i].interrupt = HDL!Sampled
SampledInv == Sequential /\ HDL!SampledIsCurrent

LEMMA SampledSame ==
  ASSUME UNCHANGED <<reg_status, reg_priv, reg_xie, reg_xip>>
  PROVE  HDL!Sampled' = HDL!Sampled
  BY DEF HDL!Sampled, HDL!InterruptEnable, HDL!irq, HDL!GetInterruptCode

LEMMA FetchStep ==
  ASSUME NEW rest, IsSeq(rest), FrontIsCurrent(rest), HDL!Fetch(rest)
  PROVE  IsSeq(front') /\ FrontIsCurrent(front')
  <1>1. CASE front' = rest
    BY <1>1 DEF FrontIsCurrent
  <1>2. CASE front' = Append(rest, [pc |-> fetch_pc, interrupt |-> HDL!Sampled])
    BY <1>2, AppendFacts DEF FrontIsCurrent
  <1>3. QED
    BY <1>1, <1>2 DEF HDL!Fetch

\* A step after which nothing is under way.
LEMMA FlushStep ==
  ASSUME front' = <<>>, rw'.kind # "trap"
  PROVE  SampledInv'
  BY EmptyFacts DEF SampledInv, Sequential, HDL!SampledIsCurrent

LEMMA BubbleKind == HDL!Bubble.kind = "none"
  BY DEF HDL!Bubble

\* A step that changes no register: words move, and the execute stage hands on a trap or none.
LEMMA MoveStep ==
  ASSUME UNCHANGED HDL!unchanged,
         front' = <<>> \/ (IsSeq(front') /\ FrontIsCurrent(front')),
         rw'.kind = "trap" /\ rw'.interrupt => rw'.code = HDL!Sampled
  PROVE  SampledInv'
  <1>1. HDL!Sampled' = HDL!Sampled
    BY SampledSame DEF HDL!unchanged, HDL!plain
  <1>2. CASE front' = <<>>
    BY <1>1, <1>2, EmptyFacts DEF SampledInv, Sequential, HDL!SampledIsCurrent
  <1>3. CASE IsSeq(front') /\ FrontIsCurrent(front')
    BY <1>1, <1>3 DEF SampledInv, Sequential, HDL!SampledIsCurrent, FrontIsCurrent
  <1>4. QED
    BY <1>2, <1>3

LEMMA HdlInterruptStep ==
  ASSUME SampledInv, HDL!Interrupt
  PROVE  SampledInv'
  <1>1. front[1].interrupt = HDL!Sampled
    BY TailFacts DEF HDL!Interrupt, SampledInv, Sequential, HDL!SampledIsCurrent
  <1>2. rw'.code = HDL!Sampled
    BY <1>1 DEF HDL!Interrupt, HDL!Trap
  <1>3. QED
    BY <1>2, MoveStep DEF HDL!Interrupt, HDL!Flush

LEMMA OtherStep ==
  ASSUME SampledInv, HDL!Other
  PROVE  SampledInv'
  <1>1. IsSeq(Tail(front)) /\ FrontIsCurrent(Tail(front))
    BY TailFacts DEF HDL!Other, HDL!Executes, SampledInv, Sequential, HDL!SampledIsCurrent, FrontIsCurrent
  <1>2. front' = <<>> \/ (IsSeq(front') /\ FrontIsCurrent(front'))
    BY <1>1, FetchStep DEF HDL!Other, HDL!Flush
  <1>3. QED
    BY <1>2, MoveStep, BubbleKind DEF HDL!Other

LEMMA WaitStep ==
  ASSUME SampledInv, HDL!Wait
  PROVE  SampledInv'
  <1>1. IsSeq(front) /\ FrontIsCurrent(front)
    BY DEF SampledInv, Sequential, HDL!SampledIsCurrent, FrontIsCurrent
  <1>2. IsSeq(front') /\ FrontIsCurrent(front')
    BY <1>1, FetchStep DEF HDL!Wait
  <1>3. UNCHANGED HDL!unchanged /\ rw'.kind = "none"
    BY DEF HDL!Wait, HDL!unchanged
  <1>4. QED
    BY <1>2, <1>3, MoveStep

\* No interrupt under way is stale: whatever changes what the controller says leaves nothing behind it.
LEMMA SampledHolds == HDL!Spec => []HDL!SampledIsCurrent
  <1>1. HDL!Init => SampledInv
    BY EmptyFacts DEF HDL!Init, SampledInv, Sequential, HDL!SampledIsCurrent, HDL!Bubble
  <1>2. ASSUME SampledInv, [HDL!Next]_(HDL!vars)
        PROVE  SampledInv'
    <2>1. CASE HDL!TakeTrap \/ HDL!TakeReturn \/ HDL!Reset
      BY <2>1, FlushStep, BubbleKind DEF HDL!TakeTrap, HDL!TakeReturn, HDL!Reset
    <2>2. CASE HDL!Wait
      BY <1>2, <2>2, WaitStep
    <2>3. CASE HDL!Interrupt
      BY <1>2, <2>3, HdlInterruptStep
    <2>4. ASSUME NEW code, HDL!Exception(code)
          PROVE  SampledInv'
      BY <2>4, MoveStep DEF HDL!Exception, HDL!Flush, HDL!Trap
    <2>5. ASSUME NEW level \in HDL!Levels, HDL!ExecuteReturn(level)
          PROVE  SampledInv'
      BY <2>5, MoveStep DEF HDL!ExecuteReturn, HDL!Flush, HDL!Return
    <2>6. CASE HDL!WritesCsr
      BY <2>6, FlushStep, BubbleKind DEF HDL!WritesCsr, HDL!Flush
    <2>7. CASE HDL!Other
      BY <1>2, <2>7, OtherStep
    <2>8. CASE UNCHANGED HDL!vars
      BY <1>2, <2>8 DEF HDL!vars, HDL!plain, HDL!delegation, SampledInv, Sequential, HDL!SampledIsCurrent, HDL!Sampled, HDL!InterruptEnable, HDL!irq, HDL!GetInterruptCode
    <2>9. QED
      BY <1>2, <2>1, <2>2, <2>3, <2>4, <2>5, <2>6, <2>7, <2>8
         DEF HDL!Next, HDL!WriteStatus, HDL!WriteEpc, HDL!WriteVector, HDL!WriteDelegation, HDL!WriteEnable, HDL!WritePending
  <1>3. SampledInv => HDL!SampledIsCurrent
    BY DEF SampledInv
  <1>4. QED
    BY <1>1, <1>2, <1>3, PTL DEF HDL!Spec

-----------------------------------------------------------------------------
(* Types *)

HdlStatuses == {value \in [HDL!StatusBits -> 0 .. 3] : \A bit \in HDL!StatusBits : value[bit] \in HDL!ValuesOf(bit)}

LEMMA BitFacts ==
  /\ HDL!StatusBits = {"UIE", "UPIE", "SIE", "SPIE", "SPP", "MIE", "MPIE", "MPP", "TSR"}
  /\ \A bit \in HDL!StatusBits : bit # "MPP" => HDL!ValuesOf(bit) = 0 .. 1
  /\ HDL!ValuesOf("MPP") = HDL!Levels
  /\ \A bit \in HDL!StatusBits : HDL!ValuesOf(bit) \subseteq 0 .. 3 /\ 0 \in HDL!ValuesOf(bit)
  BY DEF HDL!StatusBits, HDL!ValuesOf, HDL!Levels, HDL!User, HDL!Supervisor, HDL!Machine

LEMMA HdlBitSet ==
  ASSUME NEW value \in HdlStatuses, NEW bit, NEW new \in HDL!ValuesOf(bit)
  PROVE  [value EXCEPT ![bit] = new] \in HdlStatuses
  <1> DEFINE changed == [value EXCEPT ![bit] = new]
  <1>1. \A b \in HDL!StatusBits : changed[b] = IF b = bit THEN new ELSE value[b]
    BY DEF HdlStatuses
  <1>2. \A b \in HDL!StatusBits : changed[b] \in HDL!ValuesOf(b)
    BY <1>1 DEF HdlStatuses
  <1>3. changed \in [HDL!StatusBits -> 0 .. 3]
    BY <1>2, BitFacts DEF HdlStatuses
  <1>4. QED
    BY <1>2, <1>3 DEF HdlStatuses

\* A trap saves an enable bit and clears it.
LEMMA SaveBit ==
  ASSUME NEW value \in HdlStatuses, NEW saved \in HDL!StatusBits \ {"MPP"}, NEW enable \in HDL!StatusBits \ {"MPP"}
  PROVE  [[value EXCEPT ![saved] = value[enable]] EXCEPT ![enable] = 0] \in HdlStatuses
  <1>1. value[enable] \in HDL!ValuesOf(saved) /\ 0 \in HDL!ValuesOf(enable)
    BY BitFacts DEF HdlStatuses
  <1>2. [value EXCEPT ![saved] = value[enable]] \in HdlStatuses
    BY <1>1, HdlBitSet
  <1>3. QED
    BY <1>1, <1>2, HdlBitSet

\* A return clears a level and restores an enable bit.
LEMMA RestoreBit ==
  ASSUME NEW value \in HdlStatuses, NEW previous \in HDL!StatusBits, NEW enable \in HDL!StatusBits \ {"MPP"}, NEW saved \in HDL!StatusBits \ {"MPP"}
  PROVE  [[value EXCEPT ![previous] = 0] EXCEPT ![enable] = value[saved]] \in HdlStatuses
  <1>1. value[saved] \in HDL!ValuesOf(enable) /\ 0 \in HDL!ValuesOf(previous)
    BY BitFacts DEF HdlStatuses
  <1>2. [value EXCEPT ![previous] = 0] \in HdlStatuses
    BY <1>1, HdlBitSet
  <1>3. QED
    BY <1>1, <1>2, HdlBitSet

TypeInv ==
  /\ reg_status \in HdlStatuses
  /\ reg_priv \in HDL!Levels
  /\ reg_epc \in [HDL!Levels -> {reg_epc[level] : level \in HDL!Levels}]
  /\ rw.kind = "return" => rw.level \in HDL!Levels

LEMMA TrapLevel ==
  ASSUME NEW code
  PROVE  HDL!calc_next_priv(code) \in HDL!Levels
  BY HdlLevelFacts DEF HDL!calc_next_priv

\* A trap saves the level and the interrupt enable, at its level only.
LEMMA TrapStatus ==
  ASSUME reg_status \in HdlStatuses, reg_priv \in HDL!Levels, NEW level \in HDL!Levels
  PROVE  LET new == HDL!UpdateStatusForTrap(level) IN
         /\ new \in HdlStatuses
         /\ IF level = HDL!Machine THEN new["MPP"] = reg_priv /\ new["MPIE"] = reg_status["MIE"]
                               ELSE new["MPP"] = reg_status["MPP"] /\ new["MPIE"] = reg_status["MPIE"]
         /\ IF level = HDL!Supervisor THEN new["SPP"] = reg_priv % 2 /\ new["SPIE"] = reg_status["SIE"]
                                  ELSE new["SPP"] = reg_status["SPP"] /\ new["SPIE"] = reg_status["SPIE"]
  <1> DEFINE new == HDL!UpdateStatusForTrap(level)
  <1>1. \A bit \in HDL!StatusBits \ {"MPP"} : reg_status[bit] \in 0 .. 1
    BY BitFacts DEF HdlStatuses
  <1>2. CASE level = HDL!Machine
    <2>1. new = [[[reg_status EXCEPT !["MPIE"] = reg_status["MIE"]] EXCEPT !["MIE"] = 0] EXCEPT !["MPP"] = reg_priv]
      BY <1>2, HdlLevelFacts DEF HDL!UpdateStatusForTrap
    <2>2. new \in HdlStatuses
      <3>1. [[reg_status EXCEPT !["MPIE"] = reg_status["MIE"]] EXCEPT !["MIE"] = 0] \in HdlStatuses
        BY SaveBit, BitFacts
      <3>2. reg_priv \in HDL!ValuesOf("MPP")
        BY BitFacts
      <3>3. [[[reg_status EXCEPT !["MPIE"] = reg_status["MIE"]] EXCEPT !["MIE"] = 0] EXCEPT !["MPP"] = reg_priv] \in HdlStatuses
        BY <3>1, <3>2, HdlBitSet
      <3>4. QED
        BY <2>1, <3>3
    <2>3. new["MPP"] = reg_priv /\ new["MPIE"] = reg_status["MIE"] /\ new["SPP"] = reg_status["SPP"] /\ new["SPIE"] = reg_status["SPIE"]
      BY <2>1, BitFacts DEF HdlStatuses
    <2>4. QED
      BY <1>2, <2>2, <2>3, HdlLevelFacts
  <1>3. CASE level = HDL!Supervisor
    <2>1. new = [[[reg_status EXCEPT !["SPIE"] = reg_status["SIE"]] EXCEPT !["SIE"] = 0] EXCEPT !["SPP"] = reg_priv % 2]
      BY <1>3, HdlLevelFacts DEF HDL!UpdateStatusForTrap
    <2>2. reg_priv % 2 \in 0 .. 1
      BY HdlLevelFacts
    <2>3. new \in HdlStatuses
      <3>1. [[reg_status EXCEPT !["SPIE"] = reg_status["SIE"]] EXCEPT !["SIE"] = 0] \in HdlStatuses
        BY SaveBit, BitFacts
      <3>2. reg_priv % 2 \in HDL!ValuesOf("SPP")
        BY <2>2, BitFacts
      <3>3. [[[reg_status EXCEPT !["SPIE"] = reg_status["SIE"]] EXCEPT !["SIE"] = 0] EXCEPT !["SPP"] = reg_priv % 2] \in HdlStatuses
        BY <3>1, <3>2, HdlBitSet
      <3>4. QED
        BY <2>1, <3>3
    <2>4. new["SPP"] = reg_priv % 2 /\ new["SPIE"] = reg_status["SIE"] /\ new["MPP"] = reg_status["MPP"] /\ new["MPIE"] = reg_status["MPIE"]
      BY <2>1, BitFacts DEF HdlStatuses
    <2>5. QED
      BY <1>3, <2>3, <2>4, HdlLevelFacts
  <1>4. CASE level = HDL!User
    <2>1. new = [[reg_status EXCEPT !["UPIE"] = reg_status["UIE"]] EXCEPT !["UIE"] = 0]
      BY <1>4, HdlLevelFacts DEF HDL!UpdateStatusForTrap
    <2>2. new \in HdlStatuses
      <3>1. [[reg_status EXCEPT !["UPIE"] = reg_status["UIE"]] EXCEPT !["UIE"] = 0] \in HdlStatuses
        BY SaveBit, BitFacts
      <3>2. QED
        BY <2>1, <3>1
    <2>3. \A bit \in {"MPP", "MPIE", "SPP", "SPIE"} : new[bit] = reg_status[bit]
      BY <2>1, BitFacts DEF HdlStatuses
    <2>4. QED
      BY <1>4, <2>2, <2>3, HdlLevelFacts
  <1>5. QED
    BY <1>2, <1>3, <1>4, HdlLevelFacts

\* A return changes the context of its own level only, and restores its interrupt enable.
LEMMA ReturnStatus ==
  ASSUME reg_status \in HdlStatuses, NEW level \in HDL!Levels
  PROVE  LET new == HDL!UpdateStatusForTrapReturn(level) IN
         /\ new \in HdlStatuses
         /\ HDL!ReturnLevel(level) \in HDL!Levels
         /\ level = HDL!Machine => new["MIE"] = reg_status["MPIE"]
         /\ level = HDL!Supervisor /\ HDL!ReturnLevel(level) = HDL!Supervisor => new["SIE"] = reg_status["SPIE"]
         /\ level # HDL!Machine => new["MPP"] = reg_status["MPP"] /\ new["MPIE"] = reg_status["MPIE"]
         /\ level # HDL!Supervisor => new["SPP"] = reg_status["SPP"] /\ new["SPIE"] = reg_status["SPIE"]
  <1> DEFINE new == HDL!UpdateStatusForTrapReturn(level)
  <1>1. \A bit \in HDL!StatusBits \ {"MPP"} : reg_status[bit] \in 0 .. 1
    BY BitFacts DEF HdlStatuses
  <1>2. HDL!ReturnLevel(level) \in HDL!Levels
    BY <1>1, BitFacts, HdlLevelFacts DEF HDL!ReturnLevel, HdlStatuses
  <1>3. CASE level = HDL!Machine
    <2>1. new = [[reg_status EXCEPT !["MPP"] = HDL!User] EXCEPT !["MIE"] = reg_status["MPIE"]]
      BY <1>3, HdlLevelFacts DEF HDL!UpdateStatusForTrapReturn
    <2>2. new \in HdlStatuses
      <3>1. [[reg_status EXCEPT !["MPP"] = HDL!User] EXCEPT !["MIE"] = reg_status["MPIE"]] \in HdlStatuses
        BY RestoreBit, BitFacts, HdlLevelFacts
      <3>2. QED
        BY <2>1, <3>1
    <2>3. new["MIE"] = reg_status["MPIE"] /\ new["SPP"] = reg_status["SPP"] /\ new["SPIE"] = reg_status["SPIE"]
      BY <2>1, BitFacts DEF HdlStatuses
    <2>4. QED
      BY <1>2, <1>3, <2>2, <2>3, HdlLevelFacts
  <1>4. CASE level = HDL!Supervisor /\ HDL!ReturnLevel(level) = HDL!Supervisor
    <2>1. new = [[reg_status EXCEPT !["SPP"] = HDL!User] EXCEPT !["SIE"] = reg_status["SPIE"]]
      BY <1>4, HdlLevelFacts DEF HDL!UpdateStatusForTrapReturn
    <2>2. new \in HdlStatuses
      <3>1. [[reg_status EXCEPT !["SPP"] = HDL!User] EXCEPT !["SIE"] = reg_status["SPIE"]] \in HdlStatuses
        BY RestoreBit, BitFacts, HdlLevelFacts
      <3>2. QED
        BY <2>1, <3>1
    <2>3. new["SIE"] = reg_status["SPIE"] /\ new["MPP"] = reg_status["MPP"] /\ new["MPIE"] = reg_status["MPIE"]
      BY <2>1, BitFacts DEF HdlStatuses
    <2>4. QED
      BY <1>2, <1>4, <2>2, <2>3, HdlLevelFacts
  <1>5. CASE level # HDL!Machine /\ HDL!ReturnLevel(level) # HDL!Supervisor
    BY <1>2, <1>5, HdlLevelFacts DEF HDL!UpdateStatusForTrapReturn
  <1>6. CASE level = HDL!User
    BY <1>2, <1>6, HdlLevelFacts DEF HDL!UpdateStatusForTrapReturn, HDL!ReturnLevel
  <1>7. QED
    BY <1>3, <1>4, <1>5, <1>6, HdlLevelFacts

-----------------------------------------------------------------------------
(* Where returns end *)

\* What a trap interrupted is still in the registers of its level.
Holds(level, context, bits, epcs) ==
  /\ context.priv \in HDL!Levels
  /\ epcs[level] = context.pc
  /\ level = HDL!Machine => bits["MPP"] = context.priv /\ bits["MPIE"] = context.enable
  /\ level = HDL!Supervisor => bits["SPP"] = context.priv % 2 /\ bits["SPIE"] = context.enable
HdlContextHolds ==
  /\ reg_entered \in [{HDL!Supervisor, HDL!Machine} -> {reg_entered[level] : level \in {HDL!Supervisor, HDL!Machine}}]
  /\ \A level \in {HDL!Supervisor, HDL!Machine} :
       reg_entered[level].intact => Holds(level, reg_entered[level], reg_status, reg_epc)
ReturnInv == TypeInv /\ HdlContextHolds

\* It is enough that every level that is intact after a step holds what it says.
LEMMA HoldsStep ==
  ASSUME NEW new, reg_entered' = [level \in {HDL!Supervisor, HDL!Machine} |-> new[level]],
         \A level \in {HDL!Supervisor, HDL!Machine} :
           new[level].intact => Holds(level, new[level], reg_status', reg_epc')
  PROVE  HdlContextHolds'
  BY DEF HdlContextHolds

LEMMA NothingIsNotIntact == ~ HDL!Nothing.intact
  BY DEF HDL!Nothing

LEMMA TrapReturnInv ==
  ASSUME ReturnInv, HDL!TakeTrap
  PROVE  ReturnInv'
  <1> DEFINE level == HDL!calc_next_priv(rw.code)
             saved == [priv |-> reg_priv, pc |-> rw.pc, intact |-> TRUE, enable |-> HDL!InterruptEnable(reg_status, level)]
             new == [l \in {HDL!Supervisor, HDL!Machine} |-> IF l = level THEN saved ELSE reg_entered[l]]
  <1>1. level \in HDL!Levels
    BY TrapLevel
  <1>2. reg_status' = HDL!UpdateStatusForTrap(level) /\ reg_priv' = level /\ reg_epc' = [reg_epc EXCEPT ![level] = rw.pc]
        /\ reg_entered' = new /\ rw' = HDL!Bubble
    BY DEF HDL!TakeTrap
  <1> HIDE DEF level
  <1>3. TypeInv'
    BY <1>1, <1>2, TrapStatus, BubbleKind DEF TypeInv, ReturnInv
  <1>4. ASSUME NEW l \in {HDL!Supervisor, HDL!Machine}, new[l].intact
        PROVE  Holds(l, new[l], reg_status', reg_epc')
    <2>1. reg_epc \in [HDL!Levels -> {reg_epc[k] : k \in HDL!Levels}] /\ reg_status \in HdlStatuses /\ reg_priv \in HDL!Levels /\ l \in HDL!Levels
      BY HdlLevelFacts DEF ReturnInv, TypeInv
    <2>2. CASE l = level
      <3>1. new[l] = saved
        BY <2>2
      <3>2. reg_epc'[l] = rw.pc
        BY <1>2, <2>1, <2>2
      <3>3. level = HDL!Machine => HDL!InterruptEnable(reg_status, level) = reg_status["MIE"]
        BY DEF HDL!InterruptEnable
      <3>4. level = HDL!Supervisor => HDL!InterruptEnable(reg_status, level) = reg_status["SIE"]
        BY HdlLevelFacts DEF HDL!InterruptEnable
      <3>5. QED
        BY <1>1, <1>2, <2>1, <2>2, <3>1, <3>2, <3>3, <3>4, TrapStatus DEF Holds
    <2>3. CASE l # level
      <3>1. new[l] = reg_entered[l] /\ reg_epc'[l] = reg_epc[l]
        BY <1>2, <2>1, <2>3
      <3>2. Holds(l, reg_entered[l], reg_status, reg_epc)
        BY <1>4, <3>1 DEF ReturnInv, HdlContextHolds
      <3>3. QED
        BY <1>1, <1>2, <2>1, <2>3, <3>1, <3>2, TrapStatus DEF Holds
    <2>4. QED
      BY <2>2, <2>3
  <1>5. HdlContextHolds'
    <2>1. new = [l \in {HDL!Supervisor, HDL!Machine} |-> new[l]]
      OBVIOUS
    <2> HIDE DEF new
    <2>2. QED
      BY <1>2, <1>4, <2>1, HoldsStep
  <1>6. QED
    BY <1>3, <1>5 DEF ReturnInv

LEMMA TakeReturnInv ==
  ASSUME ReturnInv, HDL!TakeReturn
  PROVE  ReturnInv'
  <1> DEFINE level == rw.level
             new == [l \in {HDL!Supervisor, HDL!Machine} |-> IF l = level THEN HDL!Nothing ELSE reg_entered[l]]
  <1>1. level \in HDL!Levels
    BY DEF HDL!TakeReturn, ReturnInv, TypeInv
  <1>2. reg_status' = HDL!UpdateStatusForTrapReturn(level) /\ reg_priv' = HDL!ReturnLevel(level) /\ reg_epc' = reg_epc
        /\ reg_entered' = new /\ rw' = HDL!Bubble
    BY DEF HDL!TakeReturn
  <1> HIDE DEF level
  <1>3. TypeInv'
    BY <1>1, <1>2, ReturnStatus, BubbleKind DEF TypeInv, ReturnInv
  <1>4. ASSUME NEW l \in {HDL!Supervisor, HDL!Machine}, new[l].intact
        PROVE  Holds(l, new[l], reg_status', reg_epc')
    <2>1. l # level /\ new[l] = reg_entered[l]
      BY <1>4, NothingIsNotIntact
    <2>2. Holds(l, reg_entered[l], reg_status, reg_epc)
      BY <1>4, <2>1 DEF ReturnInv, HdlContextHolds
    <2>3. reg_status \in HdlStatuses
      BY DEF ReturnInv, TypeInv
    <2>4. QED
      BY <1>1, <1>2, <2>1, <2>2, <2>3, ReturnStatus DEF Holds
  <1>5. HdlContextHolds'
    <2>1. new = [l \in {HDL!Supervisor, HDL!Machine} |-> new[l]]
      OBVIOUS
    <2> HIDE DEF new
    <2>2. QED
      BY <1>2, <1>4, <2>1, HoldsStep
  <1>6. QED
    BY <1>3, <1>5 DEF ReturnInv

LEMMA WriteStatusInv ==
  ASSUME ReturnInv, NEW level \in HDL!Levels, HDL!WriteStatus(level)
  PROVE  ReturnInv'
  <1>1. PICK w \in HdlWrites.status :
          LET value == [reg_status EXCEPT ![w.bit] = w.value] IN
          /\ w.value \in HDL!ValuesOf(w.bit)
          /\ reg_status' = HDL!write_status(level, value)
          /\ reg_entered' = [l \in {HDL!Supervisor, HDL!Machine} |->
               IF l <= level /\ (\E bit \in HDL!ContextBits(l) : value[bit] # reg_status[bit]) THEN HDL!Nothing ELSE reg_entered[l]]
    BY DEF HDL!WriteStatus
  <1> DEFINE value == [reg_status EXCEPT ![w.bit] = w.value]
             new == [l \in {HDL!Supervisor, HDL!Machine} |->
               IF l <= level /\ (\E bit \in HDL!ContextBits(l) : value[bit] # reg_status[bit]) THEN HDL!Nothing ELSE reg_entered[l]]
  <1>2. value \in HdlStatuses /\ reg_status \in HdlStatuses
    BY <1>1, HdlBitSet DEF ReturnInv, TypeInv
  <1>3. reg_status' = HDL!write_status(level, value) /\ reg_entered' = new /\ UNCHANGED <<reg_priv, reg_epc>> /\ rw' = HDL!Bubble
    BY <1>1 DEF HDL!WriteStatus, HDL!WritesCsr
  <1> HIDE DEF value
  <1>4. \A bit \in HDL!StatusBits : reg_status'[bit] = IF bit \in HDL!StatusMask(level) THEN value[bit] ELSE reg_status[bit]
    BY <1>3 DEF HDL!write_status
  <1>5. reg_status' \in HdlStatuses
    <2>1. \A bit \in HDL!StatusBits : reg_status'[bit] \in HDL!ValuesOf(bit) /\ reg_status'[bit] \in 0 .. 3
      BY <1>2, <1>4 DEF HdlStatuses
    <2>2. reg_status' = [bit \in HDL!StatusBits |-> reg_status'[bit]]
      BY <1>3 DEF HDL!write_status
    <2>3. reg_status' \in [HDL!StatusBits -> 0 .. 3]
      BY <2>1, <2>2
    <2>4. QED
      BY <2>1, <2>3 DEF HdlStatuses
  <1>6. TypeInv'
    BY <1>3, <1>5, BubbleKind DEF TypeInv, ReturnInv
  <1>7. ASSUME NEW l \in {HDL!Supervisor, HDL!Machine}, new[l].intact
        PROVE  Holds(l, new[l], reg_status', reg_epc')
    <2>1. new[l] = reg_entered[l] /\ ~(l <= level /\ (\E bit \in HDL!ContextBits(l) : value[bit] # reg_status[bit]))
      BY <1>7, NothingIsNotIntact
    <2>2. Holds(l, reg_entered[l], reg_status, reg_epc)
      BY <1>7, <2>1 DEF ReturnInv, HdlContextHolds
    <2>3. HDL!ContextBits(l) \subseteq HDL!StatusBits
      BY BitFacts DEF HDL!ContextBits
    <2>4. \A bit \in HDL!ContextBits(l) : reg_status'[bit] = reg_status[bit]
      <3>1. CASE l <= level
        BY <1>4, <2>1, <2>3, <3>1
      <3>2. CASE ~(l <= level)
        <4>1. \A bit \in HDL!ContextBits(l) : bit \notin HDL!StatusMask(level)
          BY <3>2, HdlLevelFacts DEF HDL!ContextBits, HDL!StatusMask
        <4>2. QED
          BY <1>4, <2>3, <4>1
      <3>3. QED
        BY <3>1, <3>2
    <2>5. l = HDL!Machine => HDL!ContextBits(l) = {"MPIE", "MPP"}
      BY DEF HDL!ContextBits
    <2>6. l = HDL!Supervisor => HDL!ContextBits(l) = {"SPIE", "SPP"}
      BY HdlLevelFacts DEF HDL!ContextBits
    <2>7. QED
      BY <1>3, <2>1, <2>2, <2>4, <2>5, <2>6 DEF Holds
  <1>8. HdlContextHolds'
    <2>1. new = [l \in {HDL!Supervisor, HDL!Machine} |-> new[l]]
      OBVIOUS
    <2> HIDE DEF new
    <2>2. QED
      BY <1>3, <1>7, <2>1, HoldsStep
  <1>9. QED
    BY <1>6, <1>8 DEF ReturnInv

LEMMA WriteEpcInv ==
  ASSUME ReturnInv, NEW level \in HDL!Levels, HDL!WriteEpc(level)
  PROVE  ReturnInv'
  <1> DEFINE new == [l \in {HDL!Supervisor, HDL!Machine} |-> IF l = level THEN HDL!Nothing ELSE reg_entered[l]]
  <1>1. PICK value \in Codes : reg_epc' = [reg_epc EXCEPT ![level] = value]
    BY DEF HDL!WriteEpc
  <1>2. reg_entered' = new /\ UNCHANGED <<reg_priv, reg_status>> /\ rw' = HDL!Bubble
    BY DEF HDL!WriteEpc, HDL!WritesCsr
  <1>3. reg_epc \in [HDL!Levels -> {reg_epc[l] : l \in HDL!Levels}]
    BY DEF ReturnInv, TypeInv
  <1>4. TypeInv'
    BY <1>1, <1>2, <1>3, BubbleKind DEF TypeInv, ReturnInv
  <1>5. ASSUME NEW l \in {HDL!Supervisor, HDL!Machine}, new[l].intact
        PROVE  Holds(l, new[l], reg_status', reg_epc')
    <2>1. l # level /\ new[l] = reg_entered[l] /\ l \in HDL!Levels
      BY <1>5, NothingIsNotIntact, HdlLevelFacts
    <2>2. Holds(l, reg_entered[l], reg_status, reg_epc)
      BY <1>5, <2>1 DEF ReturnInv, HdlContextHolds
    <2>3. reg_epc'[l] = reg_epc[l]
      BY <1>1, <1>3, <2>1
    <2>4. QED
      BY <1>2, <2>1, <2>2, <2>3 DEF Holds
  <1>6. HdlContextHolds'
    <2>1. new = [l \in {HDL!Supervisor, HDL!Machine} |-> new[l]]
      OBVIOUS
    <2> HIDE DEF new
    <2>2. QED
      BY <1>2, <1>5, <2>1, HoldsStep
  <1>7. QED
    BY <1>4, <1>6 DEF ReturnInv

\* A step that neither enters nor leaves a level and writes no register of one.
LEMMA PlainInv ==
  ASSUME ReturnInv, UNCHANGED <<reg_priv, reg_status, reg_epc, reg_entered>>,
         rw'.kind = "return" => rw'.level \in HDL!Levels
  PROVE  ReturnInv'
  BY DEF ReturnInv, TypeInv, HdlContextHolds, Holds

LEMMA HdlContextsHold == HDL!Spec => []ReturnInv
  <1>1. ASSUME HDL!Init PROVE ReturnInv
    <2>1. reg_status \in HdlStatuses
      BY <1>1, BitFacts DEF HDL!Init, HdlStatuses
    <2>2. TypeInv
      BY <1>1, <2>1, HdlLevelFacts, BubbleKind DEF HDL!Init, TypeInv
    <2>3. HdlContextHolds
      BY <1>1, NothingIsNotIntact DEF HDL!Init, HdlContextHolds
    <2>4. QED
      BY <2>2, <2>3 DEF ReturnInv
  <1>2. ASSUME ReturnInv, [HDL!Next]_(HDL!vars)
        PROVE  ReturnInv'
    <2>1. CASE HDL!TakeTrap
      BY <1>2, <2>1, TrapReturnInv
    <2>2. CASE HDL!TakeReturn
      BY <1>2, <2>2, TakeReturnInv
    <2>3. CASE HDL!Wait \/ UNCHANGED HDL!vars
      BY <1>2, <2>3, PlainInv DEF HDL!Wait, HDL!vars, ReturnInv, TypeInv
    <2>4. CASE HDL!Interrupt
      BY <1>2, <2>4, PlainInv DEF HDL!Interrupt, HDL!Trap, HDL!unchanged
    <2>5. ASSUME NEW code, HDL!Exception(code)
          PROVE  ReturnInv'
      BY <1>2, <2>5, PlainInv DEF HDL!Exception, HDL!Trap, HDL!unchanged
    <2>6. ASSUME NEW level \in HDL!Levels, HDL!ExecuteReturn(level)
          PROVE  ReturnInv'
      BY <1>2, <2>6, PlainInv DEF HDL!ExecuteReturn, HDL!Return, HDL!unchanged
    <2>7. ASSUME NEW level \in HDL!Levels, HDL!WriteStatus(level) \/ HDL!WriteEpc(level)
          PROVE  ReturnInv'
      BY <1>2, <2>7, WriteStatusInv, WriteEpcInv
    <2>8. ASSUME NEW level \in HDL!Levels, HDL!WriteVector(level)
          PROVE  ReturnInv'
      BY <1>2, <2>8, PlainInv, BubbleKind DEF HDL!WriteVector, HDL!WritesCsr
    <2>9. CASE HDL!WriteDelegation \/ HDL!WriteEnable \/ HDL!WritePending
      BY <1>2, <2>9, PlainInv, BubbleKind DEF HDL!WriteDelegation, HDL!WriteEnable, HDL!WritePending, HDL!WritesCsr
    <2>10. CASE HDL!Other
      BY <1>2, <2>10, PlainInv, BubbleKind DEF HDL!Other, HDL!unchanged
    <2>11. CASE HDL!Reset
      <3>1. reg_status' \in HdlStatuses
        BY <2>11, BitFacts DEF HDL!Reset, HdlStatuses
      <3>2. TypeInv'
        BY <2>11, <3>1, HdlLevelFacts, BubbleKind DEF HDL!Reset, TypeInv
      <3>3. HdlContextHolds'
        BY <2>11, NothingIsNotIntact DEF HDL!Reset, HdlContextHolds
      <3>4. QED
        BY <3>2, <3>3 DEF ReturnInv
    <2>12. QED
      BY <1>2, <2>1, <2>2, <2>3, <2>4, <2>5, <2>6, <2>7, <2>8, <2>9, <2>10, <2>11 DEF HDL!Next
  <1>3. QED
    BY <1>1, <1>2, PTL DEF HDL!Spec

\* mret and sret resume what the trap interrupted, as long as no program has overwritten its context.
LEMMA HdlReturnsHold == HDL!Spec => HDL!ReturnsRestore
  <1>1. ASSUME ReturnInv, NEW level \in {HDL!Supervisor, HDL!Machine}, HDL!TakeReturn, rw.level = level
        PROVE  HDL!Restores(level, reg_entered[level])
    <2> DEFINE context == reg_entered[level]
    <2>1. SUFFICES ASSUME context.intact, context.priv <= level
                   PROVE  /\ reg_priv' = context.priv /\ fetch_pc' = context.pc
                          /\ level = HDL!Machine \/ context.priv = HDL!Supervisor =>
                               HDL!InterruptEnable(reg_status', level) = context.enable
      BY DEF HDL!Restores
    <2>2. Holds(level, context, reg_status, reg_epc)
      BY <1>1, <2>1 DEF ReturnInv, HdlContextHolds
    <2>3. reg_status \in HdlStatuses /\ level \in HDL!Levels
      BY <1>1, HdlLevelFacts DEF ReturnInv, TypeInv
    <2>4. reg_status' = HDL!UpdateStatusForTrapReturn(level) /\ reg_priv' = HDL!ReturnLevel(level) /\ fetch_pc' = reg_epc[level]
      BY <1>1 DEF HDL!TakeReturn
    <2> HIDE DEF context
    <2>5. HDL!ReturnLevel(level) = context.priv
      <3>1. level = HDL!Supervisor => context.priv % 2 = context.priv
        BY <2>1, <2>2, HdlLevelFacts DEF Holds
      <3>2. QED
        BY <2>2, <3>1, HdlLevelFacts DEF Holds, HDL!ReturnLevel
    <2>6. level = HDL!Machine => HDL!InterruptEnable(reg_status', level) = context.enable
      BY <2>2, <2>3, <2>4, ReturnStatus DEF Holds, HDL!InterruptEnable
    <2>7. level = HDL!Supervisor /\ context.priv = HDL!Supervisor => HDL!InterruptEnable(reg_status', level) = context.enable
      BY <2>2, <2>3, <2>4, <2>5, ReturnStatus, HdlLevelFacts DEF Holds, HDL!InterruptEnable
    <2>8. QED
      BY <2>2, <2>4, <2>5, <2>6, <2>7 DEF Holds
  <1>2. ReturnInv => [\A level \in {HDL!Supervisor, HDL!Machine} :
                       HDL!TakeReturn /\ rw.level = level => HDL!Restores(level, reg_entered[level])]_(HDL!vars)
    BY <1>1
  <1>3. QED
    BY <1>2, HdlContextsHold, PTL DEF HDL!ReturnsRestore

-----------------------------------------------------------------------------
(* Both *)

\* What runs is one of the two, and the other stutters.
LEMMA RunsBoth == TrapsSpec => Spec /\ HDL!Spec
  <1>1. TrapsInit => Init /\ HDL!Init
    BY DEF TrapsInit
  <1>2. [TrapsNext]_<<core, vars, hdl>> => [Next]_vars
    BY DEF TrapsNext
  <1>3. UNCHANGED hdl => UNCHANGED HDL!vars
    BY DEF hdl, HDL!vars, HDL!plain, HDL!delegation
  <1>4. [TrapsNext]_<<core, vars, hdl>> => [HDL!Next]_(HDL!vars)
    BY <1>3 DEF TrapsNext
  <1>5. QED
    BY <1>1, <1>2, <1>4, PTL DEF TrapsSpec, Spec, HDL!Spec

\* Every interrupt under way in the HDL core is the one its controller would say now: whatever changes what
\* the controller says leaves nothing behind it (the flushes of ExecuteStage.sv and MainStageController.sv).
THEOREM InterruptsAreCurrent == TrapsSpec => []SampledIsCurrent
  BY RunsBoth, SampledHolds, PTL DEF SampledIsCurrent

\* mret and sret of the HDL core (Csr.sv) resume what the trap interrupted, at its level and with its
\* interrupt enable, as long as no program has overwritten its context.
THEOREM HdlReturnsAreRestored == TrapsSpec => ReturnsResume
  BY RunsBoth, HdlReturnsHold, PTL DEF ReturnsResume
=============================================================================
