---------------------------- MODULE LoadStoreUnit ----------------------------
(***************************************************************************)
(* The load/store unit of the HDL core (core/LoadStoreUnit.sv) with its    *)
(* TLB, over the data cache as AtomicMemory promises it.  An instruction   *)
(* of the execute stage is translated, accesses the cache once or, for an  *)
(* atomic memory operation, twice, and is answered with a value and a page *)
(* fault.                                                                  *)
(*                                                                         *)
(* A page is one line of LineSize bytes; a byte is a digit of two values   *)
(* and its sign.  The page tables lie in pages of their own.               *)
(***************************************************************************)
EXTENDS Tlb

CONSTANTS LineSize,     \* DCACHE_LINE_SIZE
          WordCount,    \* DCACHE_WORD_COUNT
          WordOf,       \* the word of the line that a byte is in
          Insns,        \* what the execute stage issues
          Memories      \* contents of memory to start with

Commands == {"Load", "Store", "Invalidate", "AtomicMemOp", "LoadReserved", "StoreConditional"}
Lanes == 0 .. LineSize - 1
Bytes == 0 .. 1
Words == 0 .. 2 ^ LineSize - 1
AtomicTypes == {"Swap", "Add", "Xor", "And", "Or", "Min", "Max", "Minu", "Maxu"}
LoadStoreTypes == [size : 1 .. LineSize, signed : BOOLEAN]

ASSUME LineSizeAssumption == LineSize \in Nat \ {0}
ASSUME WordsAssumption == WordCount \in Nat \ {0} /\ WordOf \in [Lanes -> 0 .. WordCount - 1]
ASSUME InsnsAssumption ==
  Insns \subseteq [command : Commands, vaddr : Vaddrs, offset : Lanes, type : LoadStoreTypes,
                   value : Words, atomic : AtomicTypes]
ASSUME MemoriesAssumption == Memories \subseteq [Pages -> [Lanes -> Bytes]]

VARIABLES
  insn,         \* the instruction in the execute stage; command "None" when there is no memory instruction
  reg_state, reg_vaddr, reg_paddr, reg_tlb_fault, reg_access_type, reg_load_result, reg_store_value,
  memory, reservation, request, result      \* those of the data cache

registers == <<reg_state, reg_vaddr, reg_paddr, reg_tlb_fault, reg_access_type, reg_load_result, reg_store_value>>
cache == <<memory, reservation, request, result>>
vars == <<insn, tlb, table, csr, registers, cache>>

NoInsn == [command |-> "None", vaddr |-> TlbReset.vaddr, offset |-> 0, type |-> [size |-> 1, signed |-> FALSE],
           value |-> 0, atomic |-> "Swap"]

\* Lines of two sets: a miss may replace any other line.
SameSet(a, b) == TRUE
Cache == INSTANCE AtomicMemory WITH Addrs <- Pages

-----------------------------------------------------------------------------
(* LoadValueUnit.sv, StoreValueUnit.sv, AtomicAlu *)

Number(line) == LET Sum[i \in 0 .. LineSize] == IF i = 0 THEN 0 ELSE Sum[i - 1] + line[i - 1] * 2 ^ (i - 1)
                IN Sum[LineSize]
Byte(word, i) == (word \div 2 ^ i) % 2
Negative(word, size) == Byte(word, size - 1) = 1

RightShift(line, shift) == Number(line) \div 2 ^ shift
Extend(word, type) ==
  LET part == word % 2 ^ type.size IN
  IF type.signed /\ Negative(part, type.size) THEN part + 2 ^ LineSize - 2 ^ type.size ELSE part
LoadValue(line, offset, type) == Extend(RightShift(line, offset), type)

LeftShift(word, shift) == [i \in Lanes |-> IF shift <= i THEN Byte(word, i - shift) ELSE 0]
WriteMask(offset, type) == {i \in Lanes : offset <= i /\ i < offset + type.size}

\* Words are compared with their signs or without.
Signed(word) == IF Negative(word, LineSize) THEN word - 2 ^ LineSize ELSE word
Digitwise(Op(_, _), a, b) == Number([i \in Lanes |-> Op(Byte(a, i), Byte(b, i))])

AtomicAlu(atomic, reg, mem) ==
  CASE atomic = "Swap" -> reg
    [] atomic = "Add" -> (reg + mem) % 2 ^ LineSize
    [] atomic = "Xor" -> Digitwise(LAMBDA a, b : (a + b) % 2, reg, mem)
    [] atomic = "And" -> Digitwise(LAMBDA a, b : a * b, reg, mem)
    [] atomic = "Or" -> Digitwise(LAMBDA a, b : IF a + b = 0 THEN 0 ELSE 1, reg, mem)
    [] atomic = "Min" -> IF Signed(reg) < Signed(mem) THEN reg ELSE mem
    [] atomic = "Max" -> IF Signed(reg) > Signed(mem) THEN reg ELSE mem
    [] atomic = "Minu" -> IF reg < mem THEN reg ELSE mem
    [] atomic = "Maxu" -> IF reg > mem THEN reg ELSE mem

-----------------------------------------------------------------------------
(* Wires *)

tlb_enable == reg_state = "Translate"
tlb_done == TlbDone(tlb_enable, "Translate", reg_vaddr)

CacheStates == {"CacheRead", "CacheWrite", "CacheInvalidate"}
CacheCommand(state) ==
  IF insn.command = "AtomicMemOp" THEN (IF state = "CacheRead" THEN "Load" ELSE "Store") ELSE insn.command
\* Mutant: an invalidation is not passed on to the cache.
FirstAccessForgets ==
  CASE insn.command \in {"Load", "AtomicMemOp", "LoadReserved"} -> "CacheRead"
    [] insn.command \in {"Store", "StoreConditional"} -> "CacheWrite"
    [] OTHER -> "Translate"
FirstAccess ==
  CASE insn.command \in {"Load", "AtomicMemOp", "LoadReserved"} -> "CacheRead"
    [] insn.command \in {"Store", "StoreConditional"} -> "CacheWrite"
    [] insn.command = "Invalidate" -> "CacheInvalidate"

\* A store-conditional is translated as a load.
AccessType(command) == IF command \in {"Store", "AtomicMemOp"} THEN "Store" ELSE "Load"

\* The cache's enable, command, address and value in the next cycle.
DriveCache ==
  request' = [enable |-> reg_state' \in CacheStates,
              command |-> CacheCommand(reg_state'),
              addr |-> reg_paddr',
              writeValue |-> LeftShift(reg_store_value', insn.offset),
              writeMask |-> WriteMask(insn.offset, insn.type)]

-----------------------------------------------------------------------------
(* Steps.  The TLB goes on in every cycle; the bus may grant its request.     *)

Init ==
  /\ insn = NoInsn
  /\ tlb = TlbReset /\ table \in PageTables /\ csr \in Contexts
  /\ reg_state = "AddrGen" /\ reg_vaddr = TlbReset.vaddr /\ reg_paddr = SamePage[TlbReset.vaddr]
  /\ reg_tlb_fault = FALSE /\ reg_access_type = "Load" /\ reg_load_result = 0 /\ reg_store_value = 0
  /\ memory \in Memories /\ reservation = {}
  /\ request = [enable |-> FALSE, command |-> "None", addr |-> reg_paddr, writeValue |-> LeftShift(0, 0), writeMask |-> {}]
  /\ result = [command |-> "None", value |-> LeftShift(0, 0), failed |-> FALSE]

TlbGoesOn == \E granted \in BOOLEAN : TlbCycle(tlb_enable, "Translate", reg_vaddr, granted)

\* The pipeline moves only while no memory instruction is in progress: the next instruction comes,
\* perhaps in another context.
NewInsn ==
  /\ reg_state = "AddrGen"
  /\ insn.command = "None"
  /\ insn' \in Insns
  /\ csr' \in Contexts
  /\ TlbGoesOn
  /\ UNCHANGED <<registers, cache>>

AddrGen ==
  /\ reg_state = "AddrGen"
  /\ insn.command # "None"
  /\ reg_state' = "Translate"
  /\ reg_vaddr' = insn.vaddr
  /\ reg_access_type' = AccessType(insn.command)
  /\ reg_store_value' = insn.value
  /\ reg_paddr' = TlbPage(reg_vaddr)
  /\ reg_load_result' = IF insn.command = "StoreConditional" THEN 0 ELSE reg_load_result
  /\ TlbGoesOn
  /\ UNCHANGED <<insn, csr, reg_tlb_fault, cache>>

\* The fault is taken note of and does not stop the access.
Translate ==
  /\ reg_state = "Translate"
  /\ reg_state' = IF tlb_done THEN FirstAccess ELSE reg_state
  /\ reg_paddr' = TlbPage(reg_vaddr)
  /\ reg_tlb_fault' = TlbFault(reg_access_type)
  /\ reg_load_result' = IF insn.command = "StoreConditional" THEN 0 ELSE reg_load_result
  /\ TlbGoesOn
  /\ UNCHANGED <<insn, csr, reg_vaddr, reg_access_type, reg_store_value, memory, reservation, result>>
  /\ DriveCache

cacheDone == Cache!DoLoad \/ Cache!DoStore \/ Cache!DoFail \/ Cache!DoInvalidate

NextLoadResult ==
  CASE insn.command = "StoreConditional" -> IF result'.failed THEN 1 ELSE 0
    [] reg_state = "CacheRead" -> LoadValue(result'.value, insn.offset, insn.type)
    [] OTHER -> reg_load_result

AccessCache ==
  /\ reg_state \in CacheStates
  /\ cacheDone
  /\ reg_state' = IF reg_state = "CacheRead" /\ insn.command = "AtomicMemOp" THEN "AtomicCalc" ELSE "Done"
  /\ reg_load_result' = NextLoadResult
  /\ reg_paddr' = TlbPage(reg_vaddr)
  /\ TlbGoesOn
  /\ UNCHANGED <<insn, csr, reg_vaddr, reg_tlb_fault, reg_access_type, reg_store_value>>

WaitForCache ==
  /\ reg_state \in CacheStates
  /\ Cache!Evict
  /\ reg_paddr' = TlbPage(reg_vaddr)
  /\ TlbGoesOn
  /\ UNCHANGED <<insn, csr, reg_state, reg_vaddr, reg_tlb_fault, reg_access_type, reg_load_result, reg_store_value>>

AtomicCalc ==
  /\ reg_state = "AtomicCalc"
  /\ reg_state' = "CacheWrite"
  /\ reg_store_value' = AtomicAlu(insn.atomic, insn.value, reg_load_result)
  /\ reg_paddr' = TlbPage(reg_vaddr)
  /\ TlbGoesOn
  /\ UNCHANGED <<insn, csr, reg_vaddr, reg_tlb_fault, reg_access_type, reg_load_result, memory, reservation, result>>
  /\ DriveCache

\* The answer is on the wires and the instruction leaves.
Done ==
  /\ reg_state = "Done"
  /\ reg_state' = "AddrGen"
  /\ insn' = NoInsn
  /\ reg_load_result' = IF insn.command = "StoreConditional" THEN 0 ELSE reg_load_result
  /\ reg_paddr' = TlbPage(reg_vaddr)
  /\ TlbGoesOn
  /\ UNCHANGED <<csr, reg_vaddr, reg_tlb_fault, reg_access_type, reg_store_value, cache>>

Reset ==
  /\ insn' = NoInsn
  /\ tlb' = TlbReset
  /\ csr' \in {c \in Contexts : c.priv = Machine}
  /\ reg_state' = "AddrGen" /\ reg_vaddr' = TlbReset.vaddr /\ reg_tlb_fault' = FALSE
  /\ reg_access_type' = "Load" /\ reg_load_result' = 0 /\ reg_store_value' = 0
  /\ result' = [result EXCEPT !.command = "None"]
  /\ Cache!Abort
  /\ reg_paddr' = SamePage[TlbReset.vaddr]
  /\ UNCHANGED table

Next ==
  \/ NewInsn
  \/ AddrGen
  \/ Translate
  \/ AccessCache
  \/ WaitForCache
  \/ AtomicCalc
  \/ Done
  \/ Reset

Spec == Init /\ [][Next]_vars

\* The clock does not stop, the bus grants every request and the cache answers every access.
Granted == tlb' # tlb
Fairness ==
  /\ WF_vars(AddrGen) /\ WF_vars(AtomicCalc) /\ WF_vars(Done) /\ WF_vars(AccessCache)
  /\ WF_vars(Translate /\ (Granted \/ reg_state' # reg_state))

FairSpec == Spec /\ Fairness

-----------------------------------------------------------------------------
(* Properties *)

\* Writing back the entry that is replaced never changes where an address is mapped or who may
\* access it: the copy in the TLB goes back to where it was read.
TablesKeepMappings == [][\A a \in EntryAddrs : Mapping(table'[a]) = Mapping(table[a])]_vars

\* Each instruction reads and writes once, all at one instant, at the page the page tables map its
\* address to, and its fault is that of its own access to this page; only a reset may leave a store
\* half done.
PageOf(vaddr) == IF enable_translation THEN Walk(vaddr).page ELSE SamePage[vaddr]
Forbidden == enable_translation /\ IsFault(Walk(insn.vaddr), AccessType(insn.command))
PortInsn ==
  IF insn.command # "None" /\ reg_state # "Done"
  THEN [valid |-> TRUE, command |-> insn.command, page |-> PageOf(insn.vaddr), offset |-> insn.offset,
        type |-> insn.type, value |-> insn.value, atomic |-> insn.atomic, fault |-> Forbidden]
  ELSE [valid |-> FALSE]
PortAnswer ==
  [valid |-> reg_state = "Done",
   value |-> IF reg_state = "Done" /\ insn.command \notin {"Store", "Invalidate"} THEN reg_load_result ELSE 0,
   fault |-> reg_state = "Done" /\ reg_tlb_fault]
Insert(line, offset, type, value) == Cache!Merge(line, LeftShift(value, offset), WriteMask(offset, type))
Port == INSTANCE MemoryPort
          WITH insn <- PortInsn, answer <- PortAnswer, Extract <- LoadValue, Alu <- AtomicAlu
ImplementsMemoryPort == Port!Spec

\* Every memory instruction is answered, or lost in a reset.
EveryAccessEnds == insn.command # "None" ~> insn.command = "None"
==============================================================================
