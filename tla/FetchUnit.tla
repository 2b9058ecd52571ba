------------------------------ MODULE FetchUnit ------------------------------
(***************************************************************************)
(* The fetch unit of the HDL core (core/FetchUnit.sv) with its TLB, its    *)
(* instruction cache, and the two machines that write the cache:           *)
(* cache/ICacheReplacer.sv and core/FetchUnitInvalidater.sv.  One step is  *)
(* one cycle, whose inputs come from the fetch stage (flush, stall), from  *)
(* the execute stage (the fences) and from the bus (grants).               *)
(*                                                                         *)
(* A line holds one instruction; a page has one line for each index of the *)
(* cache, so that the page is the tag.                                     *)
(***************************************************************************)
EXTENDS Tlb

CONSTANTS IndexCount,   \* 2 ^ ICACHE_INDEX_WIDTH
          ZeroPage,     \* the physical page of tag 0
          Requests,     \* of the execute stage: a fence of either kind asks for the instruction cache,
                        \* sfence.vma for the TLB too
          Values,       \* contents of a line
          Memories,     \* contents of memory to start with
          Stores,       \* the stores that change instructions: [line, value]
          Targets,      \* where the pipeline is redirected to; INITIAL_PC is one of them
          InitialPc,
          Following     \* the program counter after the next instruction

LineIndices == 0 .. IndexCount - 1
Pcs == [vaddr : Vaddrs, index : LineIndices]
Lines == [page : Pages \cup {ZeroPage}, index : LineIndices]
StallCycleAfterFlush == 2

ASSUME IndexCountAssumption == IndexCount \in Nat \ {0}
ASSUME RequestsAssumption == "none" \in Requests /\ Requests \subseteq {"none", "fence.i", "sfence.vma"}
ASSUME MemoriesAssumption == Memories \subseteq [Lines -> Values]
ASSUME StoresAssumption == Stores \subseteq [line : Lines, value : Values]
ASSUME PcsAssumption == InitialPc \in Pcs /\ Targets \subseteq Pcs /\ Following \in [Pcs -> Pcs]
\* Nothing is fetched from the lowest page of physical memory: an invalidated line of the cache is
\* one of this page, and valid.
ASSUME ZeroPageAssumption == ZeroPage \notin Pages

VARIABLES
  reg_state, reg_pc, reg_paddr, reg_cache_read, reg_tlb_fault, reg_stall_counter,
  tagArray, tagRead,    \* the tag array and its output
  dataArray, dataRead,  \* the data array and its output
  replacer, invalidater,
  memory,               \* as seen from the bus
  calm,                 \* the pipeline wants nothing but instructions from now on
  fresh                 \* the values each line has had since the last fence took effect

fetch == <<reg_state, reg_pc, reg_paddr, reg_cache_read, reg_tlb_fault, reg_stall_counter>>
arrays == <<tagArray, tagRead, dataArray, dataRead>>
vars == <<tlb, table, csr, fetch, arrays, replacer, invalidater, memory, calm, fresh>>

NoFlush == {}
Stalls == IF reg_state = "Default" /\ reg_stall_counter = 0 THEN BOOLEAN ELSE {FALSE}    \* no difference elsewhere
AllInputs == [flush : {NoFlush}, stall : Stalls, request : Requests]
             \cup [flush : {{t} : t \in Targets}, stall : {FALSE}, request : Requests]
Inputs == IF calm THEN {[flush |-> NoFlush, stall |-> FALSE, request |-> "none"]} ELSE AllInputs
flushed(in) == in.flush # NoFlush

-----------------------------------------------------------------------------
(* FetchUnitInvalidater.sv *)

InvalidaterReset ==
  [state |-> "None", index |-> 0, wait_icache |-> FALSE, wait_tlb |-> FALSE, do_icache |-> FALSE, do_tlb |-> FALSE]

waitInvalidate == invalidater.wait_icache \/ invalidater.wait_tlb
InvalidaterNextIndex == IF invalidater.state = "Invalidate" THEN (invalidater.index + 1) % IndexCount ELSE 0
\* Mutant: the last line is left out.
InvalidaterNextStateEarly ==
  IF invalidater.state = "Invalidate"
  THEN (IF InvalidaterNextIndex = IndexCount - 1 THEN "None" ELSE "Invalidate")
  ELSE IF reg_state = "Invalidate" THEN "Invalidate" ELSE "None"
InvalidaterNextState ==
  IF invalidater.state = "Invalidate" THEN (IF InvalidaterNextIndex = 0 THEN "None" ELSE "Invalidate")
  ELSE IF reg_state = "Invalidate" THEN "Invalidate" ELSE "None"
invalidaterDone == invalidater.state = "Invalidate" /\ InvalidaterNextState = "None"

\* A request that comes while the lines are being invalidated is kept for another round.
InvalidaterNext(in) ==
  LET icache == invalidater.wait_icache \/ in.request # "none"
      both == invalidater.wait_tlb \/ in.request = "sfence.vma"
      starts == invalidater.state = "None" /\ InvalidaterNextState = "Invalidate"
      ends == invalidater.state = "Invalidate" /\ InvalidaterNextState = "None"
  IN [state |-> InvalidaterNextState,
      index |-> InvalidaterNextIndex,
      wait_icache |-> ~starts /\ icache,
      wait_tlb |-> ~starts /\ both,
      do_icache |-> IF starts THEN icache ELSE ~ends /\ invalidater.do_icache,
      do_tlb |-> IF starts THEN both ELSE ~ends /\ invalidater.do_tlb]

-----------------------------------------------------------------------------
(* ICacheReplacer.sv *)

ReplacerReset(line) == [state |-> "None", line |-> line, miss_addr |-> [page |-> ZeroPage, index |-> 0]]

replacerDone == replacer.state = "WriteCache"
ReplacerNextState(granted) ==
  CASE replacer.state = "None" -> IF reg_state = "ReplaceCache" THEN "InvalidateCache" ELSE "None"
    [] replacer.state = "InvalidateCache" -> "ReadMemory"
    [] replacer.state = "ReadMemory" -> IF granted THEN "WriteCache" ELSE "ReadMemory"
    [] replacer.state = "WriteCache" -> "None"
ReplacerNext(miss, granted) ==
  [state |-> ReplacerNextState(granted),
   line |-> IF replacer.state = "ReadMemory" /\ granted THEN memory[replacer.miss_addr] ELSE replacer.line,
   miss_addr |-> IF miss THEN reg_paddr ELSE replacer.miss_addr]

-----------------------------------------------------------------------------
(* FetchUnit.sv: wires *)

tlb_enable == reg_state = "Default" \/ (reg_state = "Invalidate" /\ invalidater.do_tlb)
tlb_command ==
  IF reg_state = "Invalidate" /\ invalidater.do_tlb THEN "Invalidate"
  ELSE IF reg_state = "Default" THEN "Translate" ELSE "None"

cache_miss == reg_cache_read /\ (~tagRead.valid \/ tagRead.tag # reg_paddr.page)
stalled(in) == in.stall \/ reg_stall_counter # 0

\* What the fetch stage gets.
valid == reg_cache_read /\ (reg_tlb_fault \/ ~cache_miss)
fault == reg_cache_read /\ reg_tlb_fault

next_pc(in) ==
  IF flushed(in) THEN CHOOSE t \in Pcs : t \in in.flush
  ELSE IF stalled(in) \/ ~valid \/ reg_state # "Default" THEN reg_pc
  ELSE Following[reg_pc]

\* Mutant: the unit goes on replacing while an invalidation waits.
NextFetchStateStays ==
  CASE reg_state = "Invalidate" -> IF invalidaterDone /\ ~waitInvalidate THEN "Default" ELSE "Invalidate"
    [] reg_state = "ReplaceCache" -> IF ~replacerDone \/ waitInvalidate THEN "ReplaceCache" ELSE "Default"
    [] OTHER -> IF waitInvalidate THEN "Invalidate" ELSE IF cache_miss THEN "ReplaceCache" ELSE "Default"
NextFetchState ==
  CASE reg_state = "Invalidate" -> IF invalidaterDone /\ ~waitInvalidate THEN "Default" ELSE "Invalidate"
    [] reg_state = "ReplaceCache" ->
         IF ~replacerDone THEN "ReplaceCache" ELSE IF waitInvalidate THEN "Invalidate" ELSE "Default"
    [] OTHER -> IF waitInvalidate THEN "Invalidate" ELSE IF cache_miss THEN "ReplaceCache" ELSE "Default"

\* Mutant: a read is started although an invalidation waits.
NextCacheReadWhileWaiting(in) ==
  /\ reg_state = "Default"
  /\ TlbDone(tlb_enable, tlb_command, next_pc(in).vaddr)
  /\ ~TlbFault("Instruction")
  /\ ~flushed(in) /\ ~stalled(in)
\* A read is started once the address is translated without a fault.
NextCacheRead(in) ==
  /\ reg_state = "Default"
  /\ TlbDone(tlb_enable, tlb_command, next_pc(in).vaddr)
  /\ ~TlbFault("Instruction")
  /\ ~flushed(in) /\ ~stalled(in) /\ ~waitInvalidate

\* The tag array is written by the invalidater or the replacer and otherwise read; the arrays put
\* out what they held before the write.
TagIndex(paddr) ==
  CASE reg_state = "Invalidate" -> invalidater.index
    [] reg_state = "ReplaceCache" -> replacer.miss_addr.index
    [] OTHER -> paddr.index
TagWrite ==
  CASE reg_state = "Invalidate" /\ invalidater.state = "Invalidate" ->
         {[valid |-> invalidater.do_icache, tag |-> ZeroPage]}
    [] reg_state = "ReplaceCache" /\ replacerDone -> {[valid |-> TRUE, tag |-> replacer.miss_addr.page]}
    [] OTHER -> {}
DataIndex(paddr) == IF reg_state = "ReplaceCache" THEN replacer.miss_addr.index ELSE paddr.index
DataWrite == IF reg_state = "ReplaceCache" /\ replacerDone THEN {replacer.line} ELSE {}
Written(array, index, write) == [array EXCEPT ![index] = IF write = {} THEN @ ELSE CHOOSE w \in write : TRUE]

-----------------------------------------------------------------------------
(* Steps *)

Empty == [i \in LineIndices |-> [valid |-> FALSE, tag |-> ZeroPage]]
ZeroLine == [page |-> ZeroPage, index |-> 0]

Init ==
  /\ tlb = TlbReset /\ csr \in {c \in Contexts : c.priv = Machine}
  /\ table \in PageTables
  /\ reg_state = "Default" /\ reg_pc = InitialPc /\ reg_paddr = ZeroLine
  /\ reg_cache_read = FALSE /\ reg_tlb_fault = FALSE /\ reg_stall_counter = 0
  /\ memory \in Memories /\ calm = FALSE
  /\ tagArray = Empty /\ tagRead = Empty[0]
  /\ dataRead = memory[ZeroLine] /\ dataArray = [i \in LineIndices |-> dataRead]
  /\ replacer = ReplacerReset(dataRead) /\ invalidater = InvalidaterReset
  /\ fresh = [l \in Lines |-> {memory[l]}]

\* One cycle: the inputs and the grants of the bus.  Translation is turned on or off with a flush (a trap)
\* or in the cycle after it (the write of a CSR).
Cycle(in, tlbGranted, memGranted) ==
  LET pc == next_pc(in)
      paddr == [page |-> TlbPage(pc.vaddr), index |-> pc.index]
  IN /\ reg_state' = NextFetchState
     /\ reg_pc' = pc
     /\ reg_paddr' = paddr
     /\ reg_cache_read' = NextCacheRead(in)
     /\ reg_tlb_fault' = TlbFault("Instruction")
     /\ reg_stall_counter' = IF flushed(in) THEN StallCycleAfterFlush
                             ELSE IF reg_stall_counter # 0 THEN reg_stall_counter - 1 ELSE 0
     /\ tagRead' = tagArray[TagIndex(paddr)]
     /\ tagArray' = Written(tagArray, TagIndex(paddr), TagWrite)
     /\ dataRead' = dataArray[DataIndex(paddr)]
     /\ dataArray' = Written(dataArray, DataIndex(paddr), DataWrite)
     /\ replacer' = ReplacerNext(cache_miss, memGranted)
     /\ invalidater' = InvalidaterNext(in)
     /\ TlbCycle(tlb_enable, tlb_command, pc.vaddr, tlbGranted)
     /\ csr' \in IF flushed(in) \/ reg_stall_counter = StallCycleAfterFlush THEN Contexts ELSE {csr}
     /\ UNCHANGED <<memory, calm>>
     /\ fresh' = IF flushed(in) /\ in.request # "none" THEN [l \in Lines |-> {memory[l]}] ELSE fresh

TlbGrants == IF memReadEnable \/ memWriteEnable THEN BOOLEAN ELSE {FALSE}
MemGrants == IF replacer.state = "ReadMemory" THEN BOOLEAN ELSE {FALSE}

\* The fetch stage takes the instruction.
Take == /\ valid
        /\ \E in \in Inputs, t \in TlbGrants, m \in MemGrants :
             /\ ~flushed(in) /\ ~in.stall
             /\ Cycle(in, t, m)
\* It waits for one, or does not want one.
Wait == \E in \in Inputs, t \in TlbGrants, m \in MemGrants :
          /\ ~flushed(in) /\ (~valid \/ in.stall)
          /\ Cycle(in, t, m)
Redirect == /\ ~calm
            /\ \E in \in Inputs, t \in TlbGrants, m \in MemGrants :
                 /\ flushed(in)
                 /\ Cycle(in, t, m)

\* A store reaches memory.
Store ==
  /\ ~calm
  /\ \E s \in Stores :
    /\ memory' = [memory EXCEPT ![s.line] = s.value]
    /\ fresh' = [fresh EXCEPT ![s.line] = @ \cup {s.value}]
    /\ UNCHANGED <<tlb, table, csr, fetch, arrays, replacer, invalidater, calm>>

\* The pipeline comes to rest after a redirection.
Settle ==
  /\ ~calm /\ reg_stall_counter = StallCycleAfterFlush
  /\ calm' = TRUE
  /\ UNCHANGED <<tlb, table, csr, fetch, arrays, replacer, invalidater, memory, fresh>>

\* The reset sequencer holds the reset until all of the tag array is cleared.  The replacer's line and
\* the fault flag are not kept as they are, but nothing looks at them before they are written.
Reset ==
  /\ ~calm
  /\ tlb' = TlbReset /\ csr' \in {c \in Contexts : c.priv = Machine}
  /\ reg_state' = "Default" /\ reg_pc' = InitialPc /\ reg_paddr' = ZeroLine
  /\ reg_cache_read' = FALSE /\ reg_tlb_fault' = FALSE /\ reg_stall_counter' = 0
  /\ tagArray' = Empty /\ tagRead' = Empty[0]
  /\ replacer' = ReplacerReset(replacer.line) /\ invalidater' = InvalidaterReset
  /\ fresh' = [l \in Lines |-> {memory[l]}]
  /\ UNCHANGED <<table, dataArray, dataRead, memory, calm>>

Next == Take \/ Wait \/ Redirect \/ Store \/ Settle \/ Reset

Spec == Init /\ [][Next]_vars

\* The clock does not stop, and the bus grants what it is asked for: a cycle that changes nothing,
\* while all wait for a grant, does not count.
Fairness == WF_vars(calm /\ (Take \/ Wait))

FairSpec == Spec /\ Fairness

-----------------------------------------------------------------------------
(* Properties *)

\* An instruction is the one memory held at its physical address at some time since the last
\* fence: what was stored before a fence is fetched after it.
FetchedIsFresh == valid => dataRead \in fresh[reg_paddr]

\* The unit goes on to the next instruction in the cycle in which one is taken, and in no other without
\* a redirection: no instruction goes into the buffer twice and none is skipped.
MovesOnWhenTaken ==
  /\ Take => reg_pc' = Following[reg_pc]
  /\ Wait => reg_pc' = reg_pc

TakenOnce == [][MovesOnWhenTaken]_vars

\* When the pipeline wants nothing else, instructions keep coming.
KeepsFetching == calm ~> valid

\* An instruction comes from the page the page tables map its address to.
FetchesItsPage == valid /\ enable_translation => reg_paddr.page = Walk(reg_pc.vaddr).page
=============================================================================
