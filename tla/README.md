# Verification of rafi

rafi is a RISC-V processor twice over: an emulator in C++ (`src/bin/rafi-emu`) and
a core in SystemVerilog (`src/hw`), with tools that trace both and compare the
traces. This directory holds TLA+ models of the parts whose correctness depends on
what happens over several cycles, TLC configurations that check the models on small
instances, and proofs that TLAPS checks for instances of any size.

## 1. The system

### 1.1 The HDL core (`src/hw`)

`Core.sv` wires the following units to one clock and one reset. They share no
state but the wires between them: a unit sees the registers of the others as they
were after the last clock edge.

| Part | State | Operations | Talks to |
|---|---|---|---|
| Fetch unit (`FetchUnit.sv`, `FetchUnitInvalidater.sv`, `ICacheReplacer.sv`) | pc, instruction cache arrays, a one-entry TLB, the state of a miss, of an invalidation | fetch a word, fill a line, walk the page table, invalidate, move to a new pc | bus access unit, fetch stage, execute stage (`invalidateICache`, `invalidateTlb`), pipeline control (`flush`, `nextPc`) |
| Fetch stage, instruction buffer, decode stage | ring of four halfwords with two indices and two counts; a latch for trap information; the register behind the stage | write a word or its half, read an instruction of one or two halfwords, flush, stall | fetch unit, interrupt controller, register read stage |
| Register read, execute and register write stage; pipeline control | a register behind each stage | latch operands, execute, commit, trap, return from a trap, redirect the front end | register files, bypass, CSRs, load/store unit, multiplier/divider, FPU |
| Register files and bypass | 32 registers each; two youngest results | read, write, forward | pipeline |
| CSRs and interrupt controller | privilege level, status, trap registers of three levels, pending and enabled interrupts, FP flags | CSR instructions, trap entry and return | pipeline, fetch stage, TLBs |
| Multiplier, divider | a product; quotient, remainder and counter of a division in progress | start, step, done | execute stage |
| Floating point units | registers of the iterative divider and square root; pipeline of the multiplier-adder | start, step, round | execute stage |
| Load/store unit | address, value, fault flag, state of the access | translate, read, modify, write | TLB, data cache, execute stage |
| TLB (one per side) | one page table entry, walk state | translate, walk two levels, write back accessed/dirty bits, invalidate | bus access unit |
| Data cache | tag and data arrays with output registers, the line in progress | load, store, load-reserved, store-conditional, invalidate | load/store unit, bus access unit |
| Bus access unit | transfer in progress, word index, value | choose a client, move words, grant | TLBs, caches, bus |
| Block RAMs, reset sequencer, timer | arrays; a counter that clears them one entry per cycle; a time and a comparison | read, write, clear | caches |

A second fetch pipeline (`FetchAddrGenerateStage.sv` and its neighbours) is not
instantiated and consists of stubs.

What is hard here: an instruction takes one to dozens of cycles and up to six
instructions are under way; data read from a block RAM come a cycle late; four
clients compete for a bus; a redirection or a reset may come in any cycle; units
start on their own and are stopped by nobody.

### 1.2 The emulator (`src/bin/rafi-emu`, `src/lib`)

One thread. `Emulator::Process` runs cycles until a limit, a breakpoint or a host
I/O condition; a cycle (`Processor::ProcessCycle`) checks interrupts, fetches,
decodes, executes and takes a trap if any step asks for one, and the bus moves the
devices on.

| Part | State | Operations |
|---|---|---|
| Processor, trap processor, interrupt controller, CSRs | pc, privilege level, CSRs, pending interrupts | cycle, trap entry with delegation, return |
| Memory access unit | none of its own; page tables in memory | translate for fetch, load and store in Sv32, Sv39 and Sv48, set accessed and dirty bits |
| Executor, register files, atomic manager | registers; one reservation | one operation per instruction |
| Bus, RAM, ROM | contents; address ranges | read, write, look up a device |
| Devices: CLINT, PLIC, timer, two UARTs, virtio stub | registers, queues | register access, cycle, interrupt line |
| gdb server | socket, packet buffer, breakpoints | handshake, receive, execute, reply |

What is hard here: precise traps with delegation between privilege levels, page
walks with side effects, long sequences of legal calls, arithmetic at the
boundaries of the word.

### 1.3 Tools and libraries

`src/lib/trace` writes and reads traces in several formats, `rafi-diff` compares the
traces of the emulator and of the HDL simulation, `rafi-sim` drives the HDL core with
a memory, `rafi-dump`, `rafi-conv` and `rafi-check-io` print and filter, `src/lib/op`
and `src/lib/common` decode instructions. They are sequential programs over files.

`PROJECT.json` lists the components with their files, and under `hazards` the places
where each can go wrong in a way that a test would hardly reach.

## 2. Modules

| Module | Models | Composed of / implements |
|---|---|---|
| `DCache` | `cache/DCache.sv`, the block RAMs, the requests of `LoadStoreUnit.sv` | implements `AtomicMemory` |
| `AtomicMemory` | nothing in the code: what a data cache promises | |
| `InsnBuffer` | `FetchStage.sv`, `InsnBuffer.sv`, `DecodeStage.sv`, the pc of `FetchUnit.sv` | implements `InsnStream` |
| `InsnStream` | nothing in the code: what a front end promises | assumed by `Pipeline` |
| `BusAccessUnit` | `BusAccessUnit.sv` with its four clients | |
| `Isa` | operators: what the pipeline needs to know of an instruction, the CSRs a trap touches | |
| `Pipeline` | `RegReadStage.sv`, `ExecuteStage.sv`, `RegWriteStage.sv`, `BypassLogic.sv`, `RegFile.sv`, `MainPipeController.sv`, `BranchUnit.sv`, part of `Csr.sv` and `InterruptController.sv` | extends `Isa`; implements `SequentialCore` |
| `SequentialCore` | nothing in the code: one instruction at a time | extends `Isa` |
| `MulDiv` | `MulDivUnit.sv`, `MulUnit.sv`, `DivUnit.sv` | checked and proved against integer arithmetic |
| `Tlb` | `cache/Tlb.sv`: operators and one cycle of the walk, for its two clients | |
| `LoadStoreUnit` | `LoadStoreUnit.sv`, `LoadValueUnit.sv`, `StoreValueUnit.sv` with the data TLB | extends `Tlb`; uses `AtomicMemory` for the cache; implements `MemoryPort` |
| `MemoryPort` | nothing in the code: what a load/store unit promises | |
| `FetchUnit` | `FetchUnit.sv`, `FetchUnitInvalidater.sv`, `ICacheReplacer.sv`, the block RAMs, with the instruction TLB | extends `Tlb` |
| `Hart` | the emulator's `TrapProcessor`, `InterruptController`, `Csr`, the CLINT's timer and the order of `Processor::ProcessCycle` | |
| `Csr` | `Csr.sv`, `InterruptController.sv`, and what the fetch, execute and register write stages and `MainPipeController.sv` do with them, at all levels | |
| `Traps` | nothing more: either `Hart` or `Csr` runs | extends `Hart`, instantiates `Csr` |
| `Encoding` | the fields of an instruction word and the ways to take them apart | |
| `Decoder` | `lib/common/Decoder.cpp`, the emulator's decoder | extends `Encoding` |
| `OpDecoder`, `Operation` | `lib/op`, `rafi/op`: the trace printers' decoder, the classes of operations and the lines they print | the former extends `Encoding` |
| `Executor` | `cpu/Executor.cpp`: checks and effect of every operation | |
| `InstructionSet` | one cycle of `Processor.cpp` for every instruction word, beside `TraceShortPrinter.cpp` | instances of the four before |
| `MemoryAccessUnit` | the emulator's `MemoryAccessUnit`, `AtomicManager`, the memory side of `Executor` and the order of `Processor::ProcessCycle` | |
| `MC...` | instances for TLC | extend the module they are named after; `MCTraps` that of `Traps` |
| `...Proofs` | theorems and proofs | extend the module they are named after, `PipelineProofs` also `MulDiv`, `MemoryAccessUnitProofs` also `InstructionSet`, and `TLAPS` |

In every HDL module an action is a clock edge, or the part of an edge that one state
of a state machine takes; combinational logic is an operator named after the wire.
Registers keep their names. Wires that a neighbour drives are existentially
quantified, or variables of the environment when the neighbour holds them over
several cycles.

### 2.1 Data cache

A request is on the port until it is done. `Accept` reads the arrays into the output
registers of the block RAMs (`tagArrayReadValue`, `dataArrayReadValue`), the
following actions are the states of `State`, and `memory` is what the bus has
written. Bytes of a line are `Lanes`, so that a masked store leaves a neighbour
alone, and `WordOf` says which word of the line a byte is in: the bus unit writes the line word by
word (`WriteMemoryWord`) and grants the write after the last one (`WriteMemoryDone`). `Reset` clears the tags in one step: the core is held in reset while
`BlockRamWithReset` clears one entry per cycle, and no request is accepted before. It takes back
nothing that is in memory, so that a store it interrupts may be there as a whole or in its first words, half
an `fsd` for instance.

`AtomicMemory` has a memory, a set of reserved lines and a request; a load, a
store, a store-conditional or an invalidation takes effect at one instant. Only a reset (`Abort`) shows the
words: it may leave the first words of the line that a store may change, and of no other request anything. The
mapping gives it the memory of the cache model with the line that is being written as it was before its first word
(`MemoryBefore`, from the history variable `before`), so that a store happens at the grant, and as reservations the
reserved lines of the cache plus the line a store-conditional is writing through
(its tag is cleared before the bus has written).

### 2.2 Instruction buffer

`Step(stall, fetched, flag)` is an edge without flush: whether the back end stalls,
whether the fetch unit has the word at its pc, and whether the word comes with a
fault or an interrupt. The three always blocks (what fetch writes, what decode
reads, what the ring keeps) all happen in it. Addresses count halfwords and wrap
around. The latch that the synthesis of `DecodeStage.sv:60-91` infers is the
variable `trap_info`. `flushes` bounds how many flushes in a row the instructions
already decoded can cause: it matters to liveness only.

### 2.3 Bus access unit

The clients raise requests between edges (`Raise`) and hold them until the grant;
`Move` is the one exception, the instruction TLB, whose address follows the pc.
`Setup`, `AccessWait`, `Access` are the bus phases, `Grant` the cycle in which a client is
answered.

### 2.4 Pipeline

`id`, `ex` and `rw` are the registers behind decode, register read and execute.
`Flush`, `Hold`, `DeliverNothing` and `Deliver` are the four things an edge can be;
`BackEnd`, common to them, is what the execute and the register write stage do in any
of them, because neither stall nor flush stops those. How long a unit stalls, what the
memory or a multiplier answers, and whether a translation faults is quantified. The
ALU is a constant function and the program any sequence of `Insns`. The front end
delivers what `InsnStream` promises: consecutive instructions from the last
redirection on, with traps only where deserved until one has trapped. There is one
privilege level. Addresses and values are the same small numbers.

`SequentialCore` has registers, a pc and CSRs and executes, traps, returns or waits.
The mapping takes for its registers those of the register file with the result in `rw`
written, for its pc the oldest instruction not yet past the execute stage or where the
pipeline is about to be redirected to, and for what it retires the register `rw`.

### 2.5 Multiplier and divider

`insn` is the instruction in the execute stage, which stays until its unit is done and
is then followed by any other. Both units see it. `fresh` is a history variable: was the
unit that the instruction needs idle when it came.

### 2.6 Memory accesses of the emulator

`memory` is an array of words, all of which can be page table entries. An instruction is
two actions: `Fetch` or `FetchSplit` and then one of `RefusedAccess` (the check before
the instruction traps), `Access`, `Other`, `OtherTrap`; the emulator has one thread and
nothing comes between them, but the state in between is where the check reads memory.
An address is a virtual page, the offset of a word in it and a byte of that word. Nothing in the code asks
an access to be aligned: `Translate` is called for the first byte (`MemoryAccessUnit.cpp:48-116`), and the bus moves the
rest from where that one is. `Lengths` says how many words an access can touch, and `Span` which: behind the last word
of a page comes the first one of the `NextPage` in physical memory, and there is none behind the last page, where the
emulator stops. What part of a word is written is left out: a store leaves any of `Entries` in each word it touches.
An entry of a page table holds any of `Ppns`. `Truncated` is `ZeroExtend` of the translated
address to 32, 39 or 48 bits, which leaves the first field of a page number modulo the number of VPNs; the address of the next table is not
cut, and may be outside memory, where the emulator stops too (`WalkStaysInMemory`).
`Walk` serves the four functions for each of Sv32, Sv39 and Sv48: they differ in the
number of levels, and `CheckTrapSv48` in one index (`CheckedField`). `Targets` is where
the accessors of `MemoryAccessUnit.cpp:38-116` may go: they ignore a failed translation
and use an address that was never assigned. `reserved` and `unchecked` are history
variables: the words that the reserved address stood for, and whether an access has gone on
after its translation failed. `Statuses` is what CSR writes and returns may leave behind
and is not derived from the CSRs here.

### 2.7 TLB, load/store unit, fetch unit

`Tlb` has the registers of the one-entry TLB in the record `tlb`, the page tables in `table` and
the mode of translation in `csr`. `TlbCycle(enable, command, vaddr, granted)` is one edge; its
clients conjoin it with theirs. The bus grants a read or a write after any number of cycles.
`Walk` is the reference: the page and the permissions the tables give an address now.

`LoadStoreUnit` has an action for each state of the unit (`AddrGen`, `Translate`, `AccessCache`
with the answer of `AtomicMemory`, `AtomicCalc`, `Done`). `insn` is what the execute stage
holds. Translation is turned on and off, and the level changed, only between instructions, by
`NewInsn`. `MemoryPort` has the same memory and reservation: an instruction happens at one
instant, on the page its address is mapped to, and its fault is that of its own access. As the
code does, it happens even if it faults (see 6.2). Its reset, like that of `AtomicMemory`, on which it rests, may leave the first words
of a store.

`FetchUnit` is one action per edge, split by what the neighbours see of it: `Take` (the fetch
stage takes the instruction), `Wait`, `Redirect`. `Store` is a store of the data side that
reaches memory. `fresh` is a history variable: the contents each line has had since the last
fence took effect. A line holds one instruction and a page has a line for each index of the
cache. `calm` says that the pipeline wants nothing but instructions from now on; it can become
true two cycles after a redirection and matters to liveness only.

### 2.8 The emulated hart

A step of `Hart` is one cycle of `Processor`: `Updated` is what `InterruptController::UpdateCsr`
makes of the pending bits, then an interrupt is taken or an instruction runs, which may trap, return, write a
CSR or store to the CLINT. `status` has a field for each bit of `xstatus_t`; the views of the lower
levels are `StatusSeen` and `WrittenStatus`. `entered` and `masked` are history variables: what
the last trap into a level interrupted, and which handlers have not enabled their interrupts
since. The program is arbitrary. It ends the emulation by `uret` or by putting the reserved level
into MPP; both are left out.

### 2.9 Traps in the HDL core

`Csr` has the registers of `Csr.sv` at three levels, and of the pipeline as much as an interrupt needs: `front` holds
the instructions between fetch and execute stage, each with what `InterruptController` said when it was fetched
(`Sampled`), and `rw` is the register behind the execute stage, from which a trap or a return takes
effect (`TakeTrap`, `TakeReturn`). The program is arbitrary: every instruction may be a write to a
register of any level, an exception, an ecall, a return or something else. `Pipeline` has the whole pipeline around
machine mode alone; here it is the other way round. `entered` is the history variable it is in `Hart`.

### 2.10 The instruction set

A full word is the record of its six fields, a compressed one a number. `Decoder` gives class, name and
operands; `OpDecoder` the constructor and its arguments; `Operation` which parameter becomes which
member and what a line shows, in order. Lines of `op32` and `op64` have the same text for the classes both have.
`Executor` describes a handler by its effect: accesses, writes with symbolic values, the jump and its
condition, what it does to the reservation and to the floating point state. A value is the name of the
function with what it is applied to, and the casts and extensions of the handler are part of the name,
so that two handlers with different casts differ. `InstructionSet` runs one word per cycle through the steps of
`Processor::ProcessCycle`, `FetchInsn` (with decoding), `CheckInsn`, `ProcessOp`, `PostCheckTrap` and `ProcessException`,
and compares with the printers. Which words may be fetched is a parameter.

## 3. Runs

| Run | Instance | What it shows |
|---|---|---|
| `mc_dcache` | one set, two tags, lines of two words of one byte of two values | coherence, refinement of `AtomicMemory` with stores cut short by resets; every request ends |
| `mc_insn_buffer` | the ring of four entries of the source, six addresses, programs that repeat after three halfwords | order, refinement of `InsnStream`; instructions keep coming |
| `mc_bus` | one line of three words of two values, four clients | whole reads, landed writes; who starves, starves for a port above it |
| `mc_pipeline` | two registers, four words; status writes, ecall, mret, memory accesses | quiet behind redirections, current operands, refinement of `SequentialCore` |
| `mc_pipeline_page_fault` | a multiplication, a fence, a jump | *violation*: finding 1 |
| `mc_muldiv` | all eight instructions, four-bit words, operands 0, 1, 6, -8 and -1 | results against integer arithmetic; every instruction ends |
| `mc_load_store` | two contexts; a table of two levels with a read-write page, an invalid entry and a megapage; seven instructions, words of two bytes | the tables keep what they map, refinement of `MemoryPort`; every access ends |
| `mc_fetch` | a cache of two lines; two pages exchanged by translation; one line stored to | fences take effect, the unit moves on when an instruction is taken and only then; instructions keep coming |
| `mc_fetch_pages` | the same, following the program from page to page | *violation*: finding 2 |
| `mc_memory_access` | Sv32, two pages of two words that hold any of three entries or none, accesses of up to three words, three privileges of data, traps to machine mode | checks suffice, page tables only change by stores and marks, stores begin where a mapping leads, reserved words stay |
| `mc_traps` | either implementation. `Hart`: three levels, timer interrupts of two of them, delegated ecalls and interrupts. `Csr`: three levels, two interrupts of which one is delegated, delegated ecalls, two instructions in front | handlers stay masked, returns restore, levels are separate, the timer's bit is true; in the HDL core interrupts under way are current and returns restore |
| `mc_isa` | every compressed word, full words of every opcode and function, both widths | decoders, checks, handlers and lines agree |

Bounds. In the cache two tags are enough to evict a reserved line and to bring it back; a line is two words of a byte here,
so that a store masks one word or both and a reset finds one of two written. That a store spares the bytes it does not mask is
also proved (`WritesAreMasked`) for lines of any size. The run has one set: sets interact only through the
output registers of the arrays, which hold the old set in the first cycle of a
request, and coherence and the refinement are proved for any number of sets.
The ring has its real size; six addresses are more than it
holds, so that a stale entry is never the expected one. On the bus three words make the
index move past a middle and wrap, and the four clients are the real
ones; one line is enough because the address is not looked at in a transfer, and the proofs have any number. In the
pipeline four words are the fewest that tell the addresses of two
consecutive long instructions and a target apart, and one register besides the zero
register is what two instructions can depend on; the run has one instruction of each way to redirect
the front end or to stall, because all eleven kinds together exceed what can be enumerated; the
proofs do not leave any out. Division at four bits takes five steps; the operands are those where signs,
zero divisors and the one overflow are decided, in every order and combination, and
every pair of instructions follows each other.
In the emulator's memory four words are enough for a table, a table below it that may be
the table itself, and the word accessed; every word may be a pointer, a leaf that a user may
write, read-only code or nothing yet. The leaf's page number is one that an address cannot hold, and leaves the second page. In
the root table it is a misaligned superpage. With two words in a page, half of the accesses that are not aligned run over its end,
and one of three words always does. The statuses are a machine without translation and a program whose data is
accessed with the privileges of a user, of itself or of the machine, by MPRV and the traps it takes. Two levels are the fewest with a pointer; the proofs hold for up
to four.
For the TLBs two indices in each of the two levels give every kind of walk: two steps, one step to a megapage,
and one that ends at an invalid entry; two pages tell a right translation from a wrong one. The load/store
unit's words have two bytes of one bit, enough for a byte beside a word and for signs. The fetch unit's
cache of two lines makes an invalidation take more than one cycle and lets a replacement meet it.
In `Hart` one instruction address besides the vectors suffices, since addresses are only copied, and the delegations are
all or nothing for what the run raises; no handler is vectored, which only adds to an address.
In `Csr` two instructions in front are one that writes and one that it must flush. Of two interrupts one overtakes the
other. A behaviour of `mc_traps` runs one implementation and leaves the other in its initial state.
The compressed words of `mc_isa` are all there are. Its full words have base registers 0, 1, 8 and 16, one or two of the others, and immediates
with the sign and without; opcodes and functions are complete. 16 is there because the register field is part of the
immediate of `jal`, whose sign the printers take from its uppermost bit.

Deadlock checking is on in every run.


## 4. Fairness

Safety needs none. For liveness the clock is assumed to run, and of the environment:

- `DCache!FairSpec`: the bus answers (`Progress` is continuously enabled while it waits);
- `InsnBuffer!FairSpec`: again and again the back end does not stall in a cycle in
  which a word is there. The fetch unit keeps a word until the fetch stage takes it,
  and every stall of the back end is the wait for a unit that ends;
- `BusAccessUnit!FairSpec`: the slave answers. The arbiter has a fixed priority, so
  what is claimed is that a port waits for ever only if ports above it ask for ever;
- `MulDiv!MulDivFairSpec`: the clock, and no reset;
- `LoadStoreUnit!FairSpec`: the clock, the bus grants the TLB's requests and the cache answers. This is
  what `EveryPortServed` gives the data side, whose ports come first, and `EveryRequestEnds` gives of the cache;
- `FetchUnit!FairSpec`: weak fairness of `Take \/ Wait` once `calm`. A cycle in which everything waits for a
  grant changes nothing and does not count, so that this is the assumption that the bus grants. `calm` is needed because redirections,
  stalls and fences may come for ever, and `EveryPortServed` promises the instruction side
  a grant only if the data side stops asking.

## 5. Proofs

All theorems hold for every value of the constants that the named assumptions allow:
a cache of any geometry with a zero among tags and bytes; a ring of more than two
entries; lines of any positive number of words; any registers, any width of at least
two bits, any set of instructions, any ALU; operands of any width of at least two bits in `MulDiv`; any program; page tables of any shape whose first level leads to
tables and whose others lead to pages (`PageTablesAssumption`); data lines of any length; an instruction cache of any
number of lines.

- `DCacheProofs`. The inductive invariant is `TypeOK /\ InStep /\ Coherent`. `Coherent` alone is
  not inductive: that the line being written is what was in memory with the masked bytes
  applied, that memory has its words up to `written` and the old ones behind (`LineOnItsWay` draws the conclusions), and that the output
  registers are current when hit or miss is decided, is
  what `InStep` adds. The masks and the refinement follow from it, one lemma per action. A cycle that writes a word is a stutter of
  `AtomicMemory`, and a reset after it is its `Abort` with as many words (`Reached`).
- `InsnBufferProofs`. `TypeOK /\ CountsAgree` gives that neither side overruns; with
  `Consecutive` the ring's contents are reindexed by `Moves`: what an edge leaves at
  position k was at position k plus the halfwords read. For the refinement `LatchInv`
  says where a trap in the latch can have come from.
- `BusAccessUnitProofs`. `OneOwner`, and `Driven`: while writing, the value register is
  the value of the client.
- `PipelineProofs`. The inductive invariant has a part per mechanism: each bypass entry
  is the result of the instruction it stands for, what was latched at register read is
  stale exactly for registers in the bypass, everything still to be written is in the
  bypass (`OperandInv`); nothing is behind an instruction that redirects
  (`QuietBehindRedirect`); the stages hold consecutive instructions (`InOrder`) with
  traps they deserve (`TrapsAreDeserved`). Each clock edge then is a step of `SequentialCore`.
- `PipelineProofs`, last part, about `MulDiv`: `RightWhenFresh` for words of any width. An instruction that found its
  unit idle finds it on the way to its own answer (`MulDivInv`). In the divider that is the invariant of the loop
  (`LoopInv`): the first `counter` bits of the dividend are divided but for the last comparison, and the
  others are at the upper end of the shifter; one step is `ShiftOut` and
  `NextBit`, and the last one, the step more than the word has bits, leaves quotient and remainder. What the
  loop skips (`AnswersSkipped`), signs (`SignsOfDivision`) and the two halves of a product (`Halves`) are the other lemmas.
  Powers of two come from counting subsets (`PowerSum`), since the provers have no induction.
- `MemoryAccessUnitProofs`. For a part of it, where a walk ends does not matter: an entry is only updated in
  place (`Translation`), an access that runs over the end of a page only reaches words (`SpanIsWords`), and on RV32 everything that stores
  cancels. `TypeOK` is inductive, and `OnlyMarksOrStores` and `ReservationProtects` follow from it, one lemma
  per action that translates. For `CheckSuffices` and `StoresAreMapped` it does matter: `WalkEnds` shows that a walk
  ends where it did after the entry at its end has been marked, even when the table contains itself, because the
  entry keeps its page and stays a leaf, and wherever outside memory the walk may lead (`MarkedEntryAt`); so the check's walk is that of the access (`CheckCovers`), twice for an atomic
  operation. `StoresAreMapped` then is about the first word of a store; `StoreMarks` shows that its entry is dirty, unless the store itself
  overwrote it. Both theorems have the hypothesis `Levels # 4`: with four levels they are false, as 6.2 tells.
- `FetchUnitProofs`. The inductive invariant `FetchInv` has a part for each thing that could go stale: the TLB's entry
  maps as the one in the table it was read from (`TlbInv`, without which a write-back would move a page); replacer,
  invalidater and unit take turns (`TurnInv`); what has been read is in step with arrays and translation, and misses
  again when the unit waits (`ReadInv`); a line is of page 0 or has been memory since the last fence, except while a
  fence waits or takes effect, when the lines below the invalidater's index are dead (`FreshInv`). `FetchedIsFresh` is a
  part of it, and `TakenOnce` follows from `ReadInv`. It assumes `ZeroPageAssumption`: programs are not fetched
  from page 0 (6.2).
- `LoadStoreUnitProofs`. Besides `TlbInv`, `WalkInv` says where the walker is: its address is the first or the last of
  the walk for the register `reg_vaddr`, and what it rests on is where the walk for `tlb.vaddr` ends (`EndAddr`, which
  write-backs leave alone: `EndHeld`). `AccessInv` says what an instruction keeps: its request is for the page the
  tables name, its fault flag is that of its own access, and between the two accesses of an atomic operation the
  register holds what is in memory. `EnableInv` says that a request is up only while an instruction waits for the cache, so that what a reset
  leaves of it is of the instruction's store, which it may make (`StoreCutShort`). Each step then is a step of `MemoryPort` or none; the answer of the cache is the
  instant an instruction happens.
- `TrapsProofs`, first part. Every interrupt and exception is a `TrapEnter` of some level (`TrapStep`; `Highest` shows
  that the priorities leave one interrupt to choose), so that each property has one lemma for traps,
  one for returns and one for writes. `TypeOK` and `HandlersAreMasked` are inductive, the latter because a
  view is written with no enable bit of a higher level set (`WrittenEnable`). `ReturnsRestore` needs
  `ContextHolds`: while the history says that a context is intact, it is in epc and the status, where the trap put it.
  The programs are any, with any addresses, exceptions and written values; the assumption says only that
  values have the width of their register.
- `TrapsProofs`, second part, about `HDL`. `SampledIsCurrent` is inductive but for the words being a sequence: a step that changes what the controller
  says leaves nothing in front (`FlushStep`), and all others add a word sampled now (`MoveStep`). `ReturnsRestore` follows
  from `ContextHolds`, as for the hart, and is simpler here: `write_status` leaves the bits of the other levels
  alone. There are no assumptions; `WriteStatus` excludes the reserved level. A behaviour of `TrapsSpec` is one of
  `Hart` and one of `Csr` (`RunsBoth`), of which one stutters.
- `MemoryAccessUnitProofs`, third part, about `InstructionSet`, for any set of fetched words among the 2^32 full and 2^16
  compressed ones (`WordsAssumption`). The inductive invariant `IsaInv` says no more than that what is decoded is the
  decoder's answer for the word kept beside it and the effect that of its handler; all else is about one word. A decoded
  operation has a class, a name of that class and the operands of its format (`DecodesFull`; `DecodesCompressed`, by
  quadrant). Over these, one lemma per handler: it is there (`DecodedIsHandled`), the access it makes
  is one of those its check is made for (`AccessesAreChecked`), and it touches nothing of the floating point state without the check
  (`FpStateIsGuarded`). For `DecodersAgree` the two decoders are taken opcode by opcode and each format's operands are compared
  with the arguments of the other's class. For `CompressedMatchesBase` the compressed words are taken apart by quadrant
  and function, and the effect of each is compared with that of the base operation whose operands the trace's decoder found.
  An attempt to prove `SameInstruction` as it was first stated failed at `jal`: the exception named was wrong for
  words with `rs1` above 15, which no word of the run had then. `Misread` says now what the code does, and the run has such words.
  For `TextMatchesEffect` an instruction belongs to one of thirteen kinds by the registers it names and their files
  (`NamedBy`), but for beq and sfence.vma, which the property leaves out (`AllGrouped`): each handler's effect names those
  of its kind (`EffectNamed`), and so does each class's line (`TextNamed`), whatever the operands. The
  operands are then the same by `SameDecode` for a full word (`FullNamed`), and by `ExpandedWord` for a compressed one
  (`ShortNamed`), whose comparison counts the registers named beside what can be seen (`Seen`), since a write to
  register 0 shows nothing but its operands are printed.

Model-checked only, besides: liveness, which needs ENABLED.

## 6. Findings

### 6.1 With a run

1. A data page fault sticks: `ExecuteStage.sv:417-428` traps any instruction while the
   load/store unit's fault flag is set, and only the next translation clears it.
2. A redirection in the middle of a page table walk of the instruction side leaves the entry of the old
   address valid for the new one: `Tlb.sv:192` takes the address of the entry from its input in the
   cycle it finishes, and `FetchUnit.sv:110` drives that input with the next pc. `mc_fetch_pages` takes
   17 steps to fetch from a page that its address is not mapped to. `mc_fetch` follows a program in one page, so
   that its properties are about everything else.

### 6.2 Named in the models

The models do what the code does in these places, and the properties either hold nevertheless or
name the exception, without which TLC finds it.

HDL:

- The write of an instruction TLB entry is never put on the bus: `BusAccessUnit.sv:138` lists
  `State_DTlbWrite` twice. `DataWritesLand` is about the data side. `FetchUnit` has the tables as the TLB
  asks for them, with the accessed bits set beforehand, so that there is nothing to write back.
- Multiplications start the divider and the other way round (`MulDivUnit.sv:51`, `:73`),
  so that an instruction may be answered for another one's operands. `RightWhenFresh` shows
  that this is the only cause of wrong results besides the remainder of a negative number by zero,
  which loses its sign (`DivUnit.sv:97-105`).
- A translation that faults does not stop the access (`LoadStoreUnit.sv:216`): the store of a faulting
  instruction lands on whatever page the walk has come to. `MemoryPort` says so. A store-conditional is translated as a
  load, and the fault of an atomic operation is reported as one of a load. A megapage's leaf leaves VPN0 out of
  the physical page, and the TLB writes back D as it was when the entry was read, cleared where
  software has set it since: nobody issues `MarkDirty`. The model's tables are not rewritten by software during a walk.
- `sfence.vma` does not invalidate the data TLB (a TODO at `LoadStoreUnit.sv:111`); it translates the address in rs1
  and may fault for it.
- A page fault of the fetch is never delivered: no read is started when the translation faults
  (`FetchUnit.sv:319`), and the fault is only given with a read (`:260`). The instances have executable pages only;
  `KeepsFetching` fails otherwise.
- Invalidating writes `reg_do_icahe_invalidate` into the valid bits (`FetchUnitInvalidater.sv:81`), which is set:
  the lines become valid lines of physical page 0. `ZeroPageAssumption` keeps programs away from it.
- The end of a walk makes the TLB valid again behind an invalidation (`Tlb.sv:171`), with the entry read before it.
- An ecall of machine mode gets the cause of user mode and the other way round (`ExecuteStage.sv:393-397`; the causes are named
  at `RvTypes.sv:49-51`, and the emulator gives them as they are named, `Executor.cpp:715-716`). `EcallCode` does what the code does.
- Interrupts are delegated by the bits of `medeleg` and `sedeleg` (`Csr.sv:47-63`); `mideleg` and `sideleg` are stored only.
- A write to `sie` or `sip` clears the machine's bits, and one to `uie` or `uip` does nothing because its test names the
  address of the supervisor's register (`Csr.sv:493-517`).
- A return of supervisor mode to user mode restores neither SIE nor SPP, since the case looks at the level returned to
  (`Csr.sv:303`); nor does any `uret`. `ReturnsRestore` of `Csr` claims the level and the address for such a return, not the enable bit.
- The level of an access to a CSR is not looked at, and only the enable bit of the current level counts.

Emulator:

- `CheckTrapSv48` indexes the last table with VPN1 (`MemoryAccessUnit.cpp:360`),
  `TranslateSv48` with VPN0 (`:617`). With `Xlen = 64` and `Levels = 4` TLC violates
  `CheckSuffices` in eleven steps: a load is let through on the strength of another page's entry and
  then uses an unassigned address.
- No access has to be aligned, and only the address of its first byte is translated
  (`MemoryAccessUnit.cpp:48-116`): at the end of a page it goes on in the physically next one, which need not be mapped
  for the program, or at all. `StoresAreMapped` therefore is about the word a store begins in; claimed of every word it fails
  in the run, by a store of two words whose second is in the page behind. The fetch does split an instruction there (`Processor.cpp:167`).
- A translated address is cut to the width of a virtual one (`MemoryAccessUnit.cpp:443` and five lines like it), so that an entry
  whose page number is larger maps some lower page, which another entry may map with other permissions; nothing traps. Only the
  addresses of tables are used whole. "Where a mapping leads" in `StoresAreMapped` is after the cut.
- A write to `sstatus` or `ustatus` clears the bits of the levels above (`Csr.cpp:669-680`, `:725`):
  the mask is applied to the value but not to the register. `LevelsAreSeparate` allows clearing them.
- The external interrupt's pending bit is driven by the timer's source (`InterruptController.cpp:198`).
- Whether an interrupt is delegated is decided by shifting the register and comparing with zero
  (`InterruptController.cpp:184-188`): all bits above count.
- Only the enable bit of the current level is looked at, so that an interrupt for a higher level waits
  while the level below has disabled its own, and one delegated to supervisor mode may be taken in machine
  mode; SPP then keeps one bit of the level. `ReturnsRestore` leaves such a trap out.
- `uret` ends the emulation, and 2 is accepted in MPP. `time` is always illegal to read.
- `c.ebreak` has no handler, and `c.subw` and `c.addw` are decoded for RV32, where they have none:
  the emulation ends.
- The compressed floating point loads and stores neither check that the unit is on nor mark its state dirty
  (`Executor.cpp:257`, `:290`). `FpIsGuarded` is about the others.
- RV32 shifts by a register do not mask the amount; those of RV64 do.

Trace printers, against the emulator's decoder (`InstructionSet`, second part):

- `jal` is extended from bit 19 of the word instead of bit 31, and printed right where the two agree; upper immediates are not shifted; stores print the immediate of a load; floating point
  stores print other registers; a conversion prints its selector as the rounding mode.
- `slliw`, `srliw` and `sraiw` lose the `w`; RV32 does not know the conversions between D and 64-bit integers.
- Compressed stores exchange base and source; `c.addi4spn` of RV64 always prints the stack pointer as destination; compressed
  shifts of 0 or by more than 31 print another amount; `beq` prints no operands.
- `fcvt.d.lu` prints as `fcvt.d.wu` when it has a rounding mode (`RV64D.cpp:851-878`).

The pipeline model lets the multiplier answer anything and the front end attach any
deserved trap, so its results do not depend on the findings about them; it contains finding 1.

## 7. Not modelled, and the plan

Next, the most intricate first:

1. The emulator's run loop with its breakpoints, and the gdb server; the UARTs and the timer of the HDL core.
2. Trace readers and writers and the comparison of `rafi-diff`; `FpRounder`, the
   divider and square root of the FPU; the HDL decoders.
3. `MemoryAccessUnit` composed with `Hart` in the place of `Statuses`; what a reservation means on RV64.

Left out for good: the second fetch pipeline (stubs), command lines, printing other than that of
instructions, the host floating point library, scripts.
