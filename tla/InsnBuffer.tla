----------------------------- MODULE InsnBuffer -----------------------------
(***************************************************************************)
(* The instruction buffer of the HDL core with the stages on both sides:   *)
(* FetchStage.sv writes one or two halfwords per cycle, InsnBuffer.sv is a *)
(* ring of halfwords, DecodeStage.sv takes one instruction, compressed or  *)
(* not, per cycle.  An action is one clock edge.                           *)
(*                                                                         *)
(* Addresses count halfwords.  The fetch unit and the execute stage are    *)
(* the environment: the one has or has not a word at its pc in a cycle,    *)
(* the other stalls the pipeline or flushes it to a new pc.                *)
(***************************************************************************)
EXTENDS Naturals

CONSTANTS EntryCount,       \* INSN_BUFFER_ENTRY_COUNT, a power of two
          PcCount,          \* halfword addresses, which wrap around
          Programs          \* what memory may hold

\* With two entries a full instruction and a word would wait for each other.
ASSUME EntryCountAssumption == EntryCount \in Nat /\ EntryCount > 2
ASSUME PcCountAssumption == PcCount \in Nat /\ PcCount >= 2 /\ PcCount % 2 = 0

Pcs == 0 .. PcCount - 1
Indices == 0 .. EntryCount - 1
Insns == {"compressed", "full", "unknown"}
ASSUME ProgramsAssumption == Programs \subseteq [Pcs -> Insns]

Flags == {"none", "fault", "interrupt"}
Traps == {"none", "fault", "interrupt", "illegal"}

VARIABLES
  code,                     \* memory: what a halfword is when decoded first;
                            \* "unknown" is a compressed one without meaning
  fetch_pc,                 \* FetchUnit.reg_pc
  reg_entries, reg_head, reg_tail,
  reg_readable_entry_count, reg_writable_entry_count,
  trap_info,                \* DecodeStage: the latch behind trap_info
  next_stage,               \* DecodeStage: the register to the next stage
  trapped,                  \* history: a trap was decoded since the last flush
  flushes                   \* how many flushes in a row the decoded
                            \* instructions can still cause

buffer == <<reg_entries, reg_head, reg_tail,
            reg_readable_entry_count, reg_writable_entry_count>>
vars == <<code, fetch_pc, buffer, trap_info, next_stage, trapped, flushes>>

-----------------------------------------------------------------------------
(* FetchStage: what it writes.  Interrupt and fault are those of the cycle. *)

Index(n) == n % EntryCount             \* insn_buffer_index_t
Count(n) == n % (2 * EntryCount)       \* insn_buffer_entry_count_t

FetchStall(stall) == stall \/ reg_writable_entry_count < 2

WriteHigh(stall, fetched) == ~FetchStall(stall) /\ fetched

\* The low half of a word is not written when the fetch starts at its high half.
WriteLow(stall, fetched) == WriteHigh(stall, fetched) /\ fetch_pc % 2 = 0

Entry(pc, flag) == [pc |-> pc, insn |-> code[pc], flag |-> flag]
WriteEntryLow(flag) == Entry(fetch_pc, flag)
WriteEntryHigh(flag) ==
  Entry(IF fetch_pc % 2 = 0 THEN fetch_pc + 1 ELSE fetch_pc, flag)

\* FetchUnit: the pc moves to the next word, whatever half it was in.
NextFetchPc(stall, fetched) ==
  IF WriteHigh(stall, fetched)
  THEN (fetch_pc + (IF fetch_pc % 2 = 0 THEN 2 ELSE 1)) % PcCount
  ELSE fetch_pc

-----------------------------------------------------------------------------
(* DecodeStage: what it reads. *)

ReadEntryLow == reg_entries[reg_head]
ReadEntryHigh == reg_entries[Index(reg_head + 1)]

IsCompressed == ReadEntryLow.insn # "full"

\* Mutant: the second half of an instruction is not waited for.
MutDecodesHalf == reg_readable_entry_count >= 1

Valid == \/ reg_readable_entry_count = 1 /\ IsCompressed
         \/ reg_readable_entry_count >= 2

ReadLow(stall) == ~stall /\ Valid
ReadHigh(stall) == ReadLow(stall) /\ ~IsCompressed

Flagged(flag) == ReadEntryLow.flag = flag \/ (~IsCompressed /\ ReadEntryHigh.flag = flag)

OwnTrap == IF Flagged("interrupt") THEN "interrupt"
           ELSE IF Flagged("fault") THEN "fault"
           ELSE IF ReadEntryLow.insn = "unknown" THEN "illegal"
           ELSE "none"

\* Mutant: an invalid cycle does not clear the latch either.
MutTrapInfoNeverCleared == IF Valid /\ OwnTrap # "none" THEN OwnTrap ELSE trap_info

\* The always_comb block assigns trap_info in a valid cycle only if there is a
\* trap: without one the latch keeps the trap of the cycle before.
TrapInfo == IF ~Valid THEN "none"
            ELSE IF OwnTrap # "none" THEN OwnTrap
            ELSE trap_info

-----------------------------------------------------------------------------
(* Clock edges *)

Bubble == [valid |-> FALSE, pc |-> 0, compressed |-> FALSE, trap |-> "none"]
ZeroEntry == [pc |-> 0, insn |-> "unknown", flag |-> "none"]

Empty ==
  /\ reg_entries = [i \in Indices |-> ZeroEntry]
  /\ reg_head = 0 /\ reg_tail = 0
  /\ reg_readable_entry_count = 0
  /\ reg_writable_entry_count = EntryCount

Init ==
  /\ code \in Programs
  /\ fetch_pc \in Pcs
  /\ Empty
  /\ trap_info = "none"
  /\ next_stage = Bubble
  /\ trapped = FALSE
  /\ flushes = 0

\* ctrl.flush: an instruction flushes when it is executed (a taken branch, a CSR
\* write, a fence, a trap, a trap return) and, if it traps or returns, in the
\* next cycle again, when it is in the write stage.
Flush(nextPc) ==
  /\ flushes > 0
  /\ flushes' = flushes - 1
  /\ fetch_pc' = nextPc
  /\ reg_entries' = [i \in Indices |-> ZeroEntry]
  /\ reg_head' = 0 /\ reg_tail' = 0
  /\ reg_readable_entry_count' = 0
  /\ reg_writable_entry_count' = EntryCount
  /\ trap_info' = TrapInfo
  /\ next_stage' = Bubble
  /\ trapped' = FALSE
  /\ UNCHANGED code

\* Mutant: the two halves of a fetched word are swapped in the ring.
MutTransferSwapped(writeLow, writeHigh, readCount, flag) ==
  LET writeCount == (IF writeLow THEN 1 ELSE 0) + (IF writeHigh THEN 1 ELSE 0)
      high == IF writeLow THEN Index(reg_tail + 1) ELSE reg_tail
  IN
  /\ reg_entries' = [i \in Indices |->
       IF writeLow /\ i = reg_tail THEN WriteEntryHigh(flag)
       ELSE IF writeHigh /\ i = high THEN WriteEntryLow(flag)
       ELSE reg_entries[i]]
  /\ reg_head' = Index(reg_head + readCount)
  /\ reg_tail' = Index(reg_tail + writeCount)
  /\ reg_readable_entry_count' = Count(reg_readable_entry_count + writeCount - readCount)
  /\ reg_writable_entry_count' = Count(reg_writable_entry_count + readCount - writeCount)

\* Mutant: a cycle that writes and reads at once forgets the entries it read.
MutTransferCountsWritesOnly(writeLow, writeHigh, readCount, flag) ==
  LET writeCount == (IF writeLow THEN 1 ELSE 0) + (IF writeHigh THEN 1 ELSE 0)
      high == IF writeLow THEN Index(reg_tail + 1) ELSE reg_tail
      freed == IF writeCount > 0 THEN 0 ELSE readCount
  IN
  /\ reg_entries' = [i \in Indices |->
       IF writeLow /\ i = reg_tail THEN WriteEntryLow(flag)
       ELSE IF writeHigh /\ i = high THEN WriteEntryHigh(flag)
       ELSE reg_entries[i]]
  /\ reg_head' = Index(reg_head + readCount)
  /\ reg_tail' = Index(reg_tail + writeCount)
  /\ reg_readable_entry_count' = Count(reg_readable_entry_count + writeCount - readCount)
  /\ reg_writable_entry_count' = Count(reg_writable_entry_count + freed - writeCount)

\* InsnBuffer: next_entries, next_head, next_tail and the two counts.
Transfer(writeLow, writeHigh, readCount, flag) ==
  LET writeCount == (IF writeLow THEN 1 ELSE 0) + (IF writeHigh THEN 1 ELSE 0)
      high == IF writeLow THEN Index(reg_tail + 1) ELSE reg_tail
  IN
  /\ reg_entries' = [i \in Indices |->
       IF writeLow /\ i = reg_tail THEN WriteEntryLow(flag)
       ELSE IF writeHigh /\ i = high THEN WriteEntryHigh(flag)
       ELSE reg_entries[i]]
  /\ reg_head' = Index(reg_head + readCount)
  /\ reg_tail' = Index(reg_tail + writeCount)
  /\ reg_readable_entry_count' = Count(reg_readable_entry_count + writeCount - readCount)
  /\ reg_writable_entry_count' = Count(reg_writable_entry_count + readCount - writeCount)

\* An edge without flush.  `stall' is ctrl.ifStall and ctrl.idStall, which are
\* both exStallReq; `fetched' is fetchUnit.valid.
Step(stall, fetched, flag) ==
  /\ Transfer(WriteLow(stall, fetched), WriteHigh(stall, fetched),
              (IF ReadLow(stall) THEN 1 ELSE 0) + (IF ReadHigh(stall) THEN 1 ELSE 0),
              flag)
  /\ fetch_pc' = NextFetchPc(stall, fetched)
  /\ trap_info' = TrapInfo
  /\ next_stage' =
       IF stall THEN next_stage
       ELSE IF ~Valid THEN Bubble
       ELSE [valid |-> TRUE, pc |-> ReadEntryLow.pc,
             compressed |-> IsCompressed, trap |-> TrapInfo]
  /\ trapped' = (trapped \/ (ReadLow(stall) /\ TrapInfo # "none"))
  /\ flushes' = IF ReadLow(stall) THEN 2 ELSE IF flushes = 1 THEN 0 ELSE flushes
  /\ UNCHANGED code

Next ==
  \/ \E nextPc \in Pcs : Flush(nextPc)
  \/ \E stall \in BOOLEAN, fetched \in BOOLEAN, flag \in Flags : Step(stall, fetched, flag)

Spec == Init /\ [][Next]_vars

\* The clock runs, the execute stage does not stall for ever, and the fetch unit
\* delivers again and again; it keeps a word until the fetch stage takes it, so
\* that a word is there in a cycle without stall.
FairSpec ==
  /\ Spec
  /\ WF_vars(\E flag \in Flags : Step(FALSE, TRUE, flag))

-----------------------------------------------------------------------------
(* Properties *)

Entries == [pc : Pcs, insn : Insns, flag : Flags]

\* Every register of the ring keeps to its range: no count grows beyond the ring
\* or below zero (InsnBuffer.sv).
TypeOK ==
  /\ code \in [Pcs -> Insns]
  /\ fetch_pc \in Pcs
  /\ reg_entries \in [Indices -> Entries]
  /\ reg_head \in Indices /\ reg_tail \in Indices
  /\ reg_readable_entry_count \in 0 .. EntryCount
  /\ reg_writable_entry_count \in 0 .. EntryCount
  /\ trap_info \in Traps
  /\ next_stage \in [valid : BOOLEAN, pc : Pcs, compressed : BOOLEAN, trap : Traps]
  /\ trapped \in BOOLEAN
  /\ flushes \in 0 .. 2

\* The two counts and the two indices, each kept on its own, tell one story.
CountsAgree ==
  /\ reg_readable_entry_count + reg_writable_entry_count = EntryCount
  /\ Index(reg_head + reg_readable_entry_count) = reg_tail

\* The k-th halfword of the ring, and the address of the k-th halfword from the
\* oldest one on: the last of them is still to be fetched.
Nth(k) == reg_entries[Index(reg_head + k)]
PcAt(k) == IF k = reg_readable_entry_count THEN fetch_pc ELSE Nth(k).pc

\* The ring holds consecutive halfwords of the program, and the fetch unit is
\* about to fetch the one that follows: nothing is lost, repeated or reordered,
\* however writes of one or two and reads of one or two alternate.
Consecutive ==
  /\ \A k \in 0 .. reg_readable_entry_count - 1 : Nth(k).insn = code[Nth(k).pc]
  /\ \A k \in 1 .. reg_readable_entry_count : PcAt(k) = (PcAt(k - 1) + 1) % PcCount

\* Either the fetch stage has room for a word or the decode stage has a whole
\* instruction: the two never wait for each other.
SomeoneCanMove == reg_writable_entry_count >= 2 \/ Valid

Stream == INSTANCE InsnStream WITH pc <- PcAt(0), out <- next_stage

\* The front end delivers the program, and what the latch leaks into an
\* instruction without a trap is always behind an instruction with one.
ImplementsInsnStream == Stream!Spec

\* If the fetch unit keeps delivering, so does the decode stage, whatever the
\* instructions flush.
KeepsDelivering == []<>next_stage.valid
=============================================================================
