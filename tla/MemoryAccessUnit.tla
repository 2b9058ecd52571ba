-------------------------- MODULE MemoryAccessUnit --------------------------
(***************************************************************************)
(* How the emulator accesses memory: the page walks of MemoryAccessUnit,   *)
(* the checks the executor makes before an instruction (PreCheckTrap), the *)
(* accesses it makes while executing one, and AtomicManager's reservation. *)
(*                                                                         *)
(* Memory is an array of words; any word can be a page table entry, so     *)
(* that a program may store into its own page tables.  An address is a     *)
(* page, the offset of a word in it and a byte of that word; an offset is  *)
(* also the index of an entry in a table.  No access has to be aligned: a  *)
(* load or a store translates the address of its first byte only, and runs *)
(* on through physical memory.                                             *)
(***************************************************************************)
EXTENDS Integers, FiniteSets

CONSTANTS Xlen,          \* 32 or 64
          Levels,        \* of the page table: Sv32 2, Sv39 3, Sv48 4
          VpnCount,      \* values of a field of a virtual page number
          Bytes,         \* of a word; an aligned address has byte 0
          Pages,         \* the physical pages that exist
          NextPage,      \* the page after each, if memory goes on
          Ppns,          \* the page numbers an entry can hold
          Entries,       \* the words a program stores
          Statuses,      \* what CSR writes and trap returns leave behind
          TrapLevels     \* the privilege levels traps are delegated to

Fields == 1 .. Levels
Privs == {"Machine", "Supervisor", "User"}
Types == {"Instruction", "Load", "Store"}
Bits == {"V", "R", "W", "X", "U", "A", "D"}
Vpns == 0 .. VpnCount - 1
VAddrs == [vpn : [Fields -> Vpns], offset : Vpns, byte : Bytes]
Words == [page : Pages, offset : Vpns]
PageTableEntries == [bits : SUBSET Bits, ppn : Ppns]
XStatus == [priv : Privs, MPP : Privs, MPRV : BOOLEAN, SUM : BOOLEAN, MXR : BOOLEAN,
            bare : BOOLEAN, root : Pages]

Zero == [i \in Fields |-> 0]
ZeroEntry == [bits |-> {}, ppn |-> Zero]

ASSUME XlenAssumption == Xlen \in {32, 64}
ASSUME LevelsAssumption == Levels \in 2 .. 4 /\ (Xlen = 32 <=> Levels = 2)
ASSUME VpnsAssumption == VpnCount \in Nat \ {0} /\ 0 \in Bytes
ASSUME PagesAssumption ==
  /\ Zero \in Pages /\ Pages \subseteq [Fields -> Vpns]
  /\ NextPage \in [Pages -> SUBSET Pages]
  /\ Pages \subseteq Ppns /\ Ppns \subseteq [Fields -> Nat]
ASSUME EntriesAssumption == Entries \subseteq PageTableEntries
ASSUME StatusesAssumption == Statuses \subseteq XStatus /\ TrapLevels \subseteq Privs

VARIABLES
  memory,
  status,                \* privilege level, the bits of mstatus, and satp
  phase,                 \* where ProcessCycle is: before the fetch or after it
  reservation,           \* AtomicManager: the virtual address, if one is reserved
  reserved,              \* history: the words that address stood for
  unchecked              \* history: an access went on after its translation failed

vars == <<memory, status, phase, reservation, reserved, unchecked>>

-----------------------------------------------------------------------------
(* Page walks.  They read `mem', which may be ahead of `memory' within an   *)
(* instruction.                                                             *)

EffectivePriv(type) ==
  IF status.MPRV /\ type # "Instruction" THEN status.MPP ELSE status.priv

Translated(type) == EffectivePriv(type) # "Machine" /\ ~status.bare

IsInvalid(entry) == "V" \notin entry.bits \/ ("W" \in entry.bits /\ "R" \notin entry.bits)
IsLeaf(entry) == entry.bits \intersect {"R", "X"} # {}

Forbids(entry, type) ==
  \/ EffectivePriv(type) = "Supervisor" /\ ~status.SUM /\ "U" \in entry.bits
  \/ EffectivePriv(type) = "User" /\ "U" \notin entry.bits
  \/ type = "Instruction" /\ "X" \notin entry.bits
  \/ type = "Load" /\ "R" \notin entry.bits /\ ~(status.MXR /\ "X" \in entry.bits)
  \/ type = "Store" /\ "W" \notin entry.bits

\* An entry may point to a table outside memory; the walk ends there.
EntryAt(mem, addr) == IF addr \in Words THEN mem[addr] ELSE ZeroEntry

\* Where the walk ends.  `last' is the field that indexes the last table.
Walk(mem, va, last) ==
  LET addr[n \in Fields] ==
        [page |-> IF n = 1 THEN status.root ELSE EntryAt(mem, addr[n - 1]).ppn,
         offset |-> va.vpn[IF n = Levels THEN last ELSE n]]
      entry(n) == EntryAt(mem, addr[n])
      ends == {n \in Fields : n = Levels \/ IsInvalid(entry(n)) \/ IsLeaf(entry(n))}
      level == CHOOSE n \in ends : \A m \in ends : n <= m
  IN  [addr |-> addr[level], entry |-> entry(level), level |-> level]

\* Where it does not, the bus throws and the emulator stops.
WalkStaysInMemory(mem, type, va, last) ==
  Translated(type) => Walk(mem, va, last).addr \in Words

Misaligned(walk) == \E i \in Fields : i > walk.level /\ walk.entry.ppn[i] # 0

\* CheckTrapSv48 takes the index into the last table from VPN1, as for the
\* table before it, where TranslateSv48 takes VPN0.
CheckedField == IF Levels = 4 THEN 3 ELSE Levels

CheckTrap(type, va) ==
  /\ Translated(type)
  /\ LET walk == Walk(memory, va, CheckedField)
     IN  IsInvalid(walk.entry) \/ Forbids(walk.entry, type) \/ Misaligned(walk)

TranslateTrap(mem, type, va) ==
  /\ Translated(type)
  /\ LET entry == Walk(mem, va, Levels).entry IN IsInvalid(entry) \/ Forbids(entry, type)

\* Mutant: the dirty bit is never set.
MutUpdateNeverDirty(bits, type) == bits \union {"A"}

\* Mutant: a bit that is not set is cleared.
MutUpdateClearsD(bits, type) == (bits \ {"D"}) \union (IF type = "Store" THEN {"A", "D"} ELSE {"A"})

UpdatedBits(bits, type) == bits \union (IF type = "Store" THEN {"A", "D"} ELSE {"A"})

\* UpdateEntry, if the translation gets that far.
AfterTranslate(mem, type, va) ==
  IF ~Translated(type) \/ TranslateTrap(mem, type, va) THEN mem
  ELSE [mem EXCEPT ![Walk(mem, va, Levels).addr].bits = UpdatedBits(@, type)]

\* A translated address is cut to the width of a virtual one: 32, 39 or 48 bits
\* hold as many values of a page number's first field as of a VPN.
Truncated(ppn) == [ppn EXCEPT ![1] = @ % VpnCount]

Physical(mem, type, va) ==
  [page |-> IF Translated(type)
            THEN LET walk == Walk(mem, va, Levels)
                     ppn == Truncated(walk.entry.ppn)
                 IN  [i \in Fields |-> IF i <= walk.level THEN ppn[i] ELSE va.vpn[i]]
            ELSE va.vpn,
   offset |-> va.offset]

NextWord(word) ==
  IF word.offset + 1 \in Vpns THEN {[word EXCEPT !.offset = @ + 1]}
  ELSE {[page |-> page, offset |-> 0] : page \in NextPage[word.page]}

\* The words of an access that begins in `first' and touches `length' of them.
Span(first, length) ==
  {first} \union (IF length > 1 THEN NextWord(first) ELSE {})
          \union (IF length > 2 THEN UNION {NextWord(next) : next \in NextWord(first)} ELSE {})

\* The words an access may begin in: Load and Store ignore the trap that
\* Translate returns, and go on with an address that was never assigned.  No
\* word, or not `length' of them: the bus throws and the emulator stops.
Targets(mem, type, va, length) ==
  LET reached == IF TranslateTrap(mem, type, va) THEN Words
                 ELSE {Physical(mem, type, va)} \intersect Words
  IN  {first \in reached : /\ WalkStaysInMemory(mem, type, va, Levels)
                           /\ Cardinality(Span(first, length)) = length}

-----------------------------------------------------------------------------
(* ProcessCycle: interrupt or fetch, then one instruction.                  *)

\* ProcessTrapEnter, as far as translation depends on it.
TrapEnter ==
  /\ \E priv \in TrapLevels :
       status' = [status EXCEPT !.priv = priv,
                                !.MPP = IF priv = "Machine" THEN status.priv ELSE @]
  /\ phase' = "fetch"

Interrupt ==
  /\ phase = "fetch"
  /\ TrapEnter
  /\ UNCHANGED <<memory, reservation, reserved, unchecked>>

\* The whole instruction lies in one page.
Fetch(pc) ==
  /\ phase = "fetch"
  /\ WalkStaysInMemory(memory, "Instruction", pc, Levels)
  /\ TranslateTrap(memory, "Instruction", pc) \/ Physical(memory, "Instruction", pc) \in Words
  /\ memory' = AfterTranslate(memory, "Instruction", pc)
  /\ IF TranslateTrap(memory, "Instruction", pc)
     THEN TrapEnter
     ELSE phase' = "execute" /\ UNCHANGED status
  /\ UNCHANGED <<reservation, reserved, unchecked>>

\* Its second half is at the start of the page `next'.
FetchSplit(pc, next) ==
  LET low == AfterTranslate(memory, "Instruction", pc) IN
  /\ phase = "fetch"
  /\ ~TranslateTrap(memory, "Instruction", pc)
  /\ Physical(memory, "Instruction", pc) \in Words
  /\ WalkStaysInMemory(low, "Instruction", next, Levels)
  /\ TranslateTrap(low, "Instruction", next) \/ Physical(low, "Instruction", next) \in Words
  /\ memory' = AfterTranslate(low, "Instruction", next)
  /\ IF TranslateTrap(low, "Instruction", next)
     THEN TrapEnter
     ELSE phase' = "execute" /\ UNCHANGED status
  /\ UNCHANGED <<reservation, reserved, unchecked>>

\* `load' and `store' are those of RV32I and RV64I, the `other' ones those of the
\* compressed and the floating point extensions.
Ops == {"load", "otherLoad", "lr", "store", "otherStore", "sc", "amo"}
Reads == {"load", "otherLoad", "lr", "amo"}
Writes == {"store", "otherStore", "sc", "amo"}

\* Mutant: an atomic operation is checked as a load only.
MutPreCheckTrap(op, va) ==
  \/ op \in Reads /\ CheckTrap("Load", va)
  \/ op \in Writes \ {"amo"} /\ CheckTrap("Store", va)

PreCheckTrap(op, va) ==
  \/ op \in Reads /\ CheckTrap("Load", va)
  \/ op \in Writes /\ CheckTrap("Store", va)

\* Mutant: no load or store of RV32I cancels, as in RV64I.
MutCancels(op) == op \in {"otherLoad", "otherStore", "sc", "amo"}

Cancels(op) ==
  \/ op \in {"otherLoad", "otherStore", "sc", "amo"}
  \/ op \in {"load", "store"} /\ Xlen = 32

\* Mutant: a reservation is cancelled in part.
MutKeepReservation(cancel) ==
  /\ reservation' = IF cancel THEN {} ELSE reservation
  /\ reserved' = reserved

KeepReservation(cancel) ==
  /\ reservation' = IF cancel THEN {} ELSE reservation
  /\ reserved' = IF cancel THEN {} ELSE reserved

RefusedAccess(op, va) ==
  /\ phase = "execute"
  /\ WalkStaysInMemory(memory, "Load", va, CheckedField)
  /\ PreCheckTrap(op, va)
  /\ TrapEnter
  /\ UNCHANGED <<memory, reservation, reserved, unchecked>>

Stores(op, va) == op \in Writes /\ (op = "sc" => va \in reservation)

\* Memory moves eight bytes for the floating point instructions of RV32 too, where
\* a word is four, and an access that is not aligned touches one word more.
Lengths(op, va) ==
  1 .. (IF Xlen = 32 /\ op \in {"otherLoad", "otherStore"} THEN 2 ELSE 1)
       + (IF va.byte = 0 THEN 0 ELSE 1)

Access(op, va, length) ==
  LET read == IF op \in Reads THEN AfterTranslate(memory, "Load", va) ELSE memory
      written == AfterTranslate(read, "Store", va)
  IN
  /\ phase = "execute"
  /\ WalkStaysInMemory(memory, "Load", va, CheckedField)
  /\ ~PreCheckTrap(op, va)
  /\ op \in Reads => Targets(memory, "Load", va, length) # {}
  /\ IF Stores(op, va)
     THEN \E first \in Targets(read, "Store", va, length) :
            \E values \in [Span(first, length) -> Entries] :
              memory' = [word \in Words |->
                           IF word \in Span(first, length) THEN values[word] ELSE written[word]]
     ELSE memory' = read
  /\ IF op = "lr"
     THEN /\ reservation' = {va}
          /\ \E first \in Targets(memory, "Load", va, length) : reserved' = Span(first, length)
     ELSE KeepReservation(Cancels(op))
  /\ unchecked' = (\/ unchecked
                   \/ op \in Reads /\ TranslateTrap(memory, "Load", va)
                   \/ Stores(op, va) /\ TranslateTrap(read, "Store", va))
  /\ phase' = "fetch"
  /\ UNCHANGED status

\* An instruction that accesses no memory.  `cancel': some of them, such as
\* fences, trap returns and backward branches, give the reservation up.  Every
\* instruction may leave any of the `Statuses': more than the program can do.
Other(cancel, next) ==
  /\ phase = "execute"
  /\ status' = next
  /\ phase' = "fetch"
  /\ KeepReservation(cancel)
  /\ UNCHANGED <<memory, unchecked>>

\* One that traps: unknown, not allowed, ecall, ebreak.
OtherTrap(cancel) ==
  /\ phase = "execute"
  /\ TrapEnter
  /\ KeepReservation(cancel)
  /\ UNCHANGED <<memory, unchecked>>

-----------------------------------------------------------------------------

Init ==
  /\ memory = [word \in Words |-> ZeroEntry]
  /\ status = [priv |-> "Machine", MPP |-> "User", MPRV |-> FALSE, SUM |-> FALSE,
               MXR |-> FALSE, bare |-> TRUE, root |-> Zero]
  /\ phase = "fetch"
  /\ reservation = {} /\ reserved = {}
  /\ unchecked = FALSE

Next ==
  \/ Interrupt
  \/ \E pc \in VAddrs : Fetch(pc)
  \/ \E pc \in VAddrs, next \in VAddrs :
       /\ next.offset = 0 /\ next.vpn = [pc.vpn EXCEPT ![Levels] = @ + 1]
       /\ FetchSplit(pc, next)
  \/ \E op \in Ops, va \in VAddrs : RefusedAccess(op, va)
  \/ \E op \in Ops, va \in VAddrs : \E length \in Lengths(op, va) : Access(op, va, length)
  \/ \E cancel \in BOOLEAN, next \in Statuses : Other(cancel, next)
  \/ \E cancel \in BOOLEAN : OtherTrap(cancel)

Spec == Init /\ [][Next]_vars

-----------------------------------------------------------------------------
(* Properties *)

\* Types; an address is reserved exactly when the history knows its words.
TypeOK ==
  /\ memory \in [Words -> PageTableEntries]
  /\ status \in XStatus
  /\ phase \in {"fetch", "execute"}
  /\ reservation = {} \/ \E va \in VAddrs : reservation = {va}
  /\ reserved \subseteq Words
  /\ reservation = {} <=> reserved = {}
  /\ unchecked \in BOOLEAN

\* What the executor checks before an instruction is what its accesses need:
\* Load and Store ignore a trap of Translate (MemoryAccessUnit.cpp:38-116), so
\* every translation they make must succeed.
CheckSuffices == ~unchecked

Gains(bits, old, new) ==
  old.ppn = new.ppn /\ old.bits \subseteq new.bits /\ new.bits \subseteq old.bits \union bits

\* Translation never takes anything from a page table: a word changes only by
\* being one of those that an instruction stores in a row, or by gaining A and D,
\* and D only in a step that stores.
MarksOrStores ==
  \/ \A word \in Words : Gains({"A"}, memory[word], memory'[word])
  \/ LET stored == {word \in Words : ~Gains({"A", "D"}, memory[word], memory'[word])}
     IN  /\ phase = "execute"
         /\ \A word \in stored : memory'[word] \in Entries
         /\ \E first \in Words, length \in 1 .. 3 : stored \subseteq Span(first, length)

OnlyMarksOrStores == [][MarksOrStores]_vars

\* Memory protection, as far as it goes: through the page table, a program stores
\* only where some mapping that it may write leads, or in the words that follow
\* within the same access, and that mapping is then marked accessed and dirty,
\* unless the store overwrote the mapping itself.  It goes no further.  An access
\* that is not aligned and runs over the end of a page ends in the page that
\* follows in physical memory, whatever the program may do there; and a mapping
\* leads to the page whose number is left after truncation (Physical), which
\* another number stands for too.
WrittenThroughMapping(word) ==
  \E va \in VAddrs, op \in Writes :
    LET addr == Walk(memory, va, Levels).addr
        first == Physical(memory, "Store", va)
    IN
    /\ ~TranslateTrap(memory, "Store", va)
    /\ \E length \in Lengths(op, va) :
         /\ word \in Span(first, length)
         /\ \A stored \in Span(first, length) : memory'[stored] \in Entries
         /\ addr \in Span(first, length) \/ {"A", "D"} \subseteq memory'[addr].bits

StoresAreMapped ==
  [][Translated("Store") =>
       \A word \in Words :
         \/ Gains({"A", "D"}, memory[word], memory'[word])
         \/ WrittenThroughMapping(word)]_vars

\* While an RV32 program holds a reservation, no store changes a word it stands
\* for; a fetch may mark one, if it is a page table entry.  So the store of a
\* store-conditional undoes no other.
ReservedWordUntouched ==
  Xlen = 32 /\ reserved' = reserved =>
    \A word \in reserved : Gains({"A"}, memory[word], memory'[word])

ReservationProtects == [][ReservedWordUntouched]_vars
=============================================================================
