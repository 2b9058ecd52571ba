----------------------- MODULE MemoryAccessUnitProofs -----------------------
(***************************************************************************)
(* What holds of the emulator's memory accesses for every page table,      *)
(* number of levels and set of pages.  The first part needs nothing of     *)
(* where a page walk ends (Walk stays folded): an entry is only ever       *)
(* updated in place, and an access only reaches words that exist.  The     *)
(* second part shows that marking the entry where a walk has ended leaves  *)
(* the walk where it was, which is what the check of an instruction, made  *)
(* on the memory as it was before, rests on.  The third part is about the  *)
(* instructions the memory serves: for every set of fetched words, what    *)
(* the decoder hands to the executor is handled, and makes no access and   *)
(* touches no floating-point state that was not checked first; the         *)
(* decoder of the printers takes a word for the same instruction, or for   *)
(* what a compressed one is short for, and its line names the registers    *)
(* the instruction reads and writes.                                       *)
(***************************************************************************)
EXTENDS MemoryAccessUnit, InstructionSet, SequenceTheorems, TLAPS

-----------------------------------------------------------------------------
(* Operators *)

\* Marking an entry keeps it an entry, and takes nothing from it.
LEMMA Updated ==
  ASSUME NEW bits \in SUBSET Bits, NEW type
  PROVE  /\ UpdatedBits(bits, type) \in SUBSET Bits
         /\ bits \subseteq UpdatedBits(bits, type)
         /\ type # "Store" => UpdatedBits(bits, type) \subseteq bits \union {"A"}
         /\ UpdatedBits(bits, type) \subseteq bits \union {"A", "D"}
  BY DEF UpdatedBits, Bits

\* One translation: memory keeps its type, and every word gains at most A, or A
\* and D in a translation for a store.
LEMMA Translation ==
  ASSUME NEW mem \in [Words -> PageTableEntries], NEW type, NEW va
  PROVE  /\ AfterTranslate(mem, type, va) \in [Words -> PageTableEntries]
         /\ \A word \in Words :
              /\ Gains({"A", "D"}, mem[word], AfterTranslate(mem, type, va)[word])
              /\ type # "Store" =>
                   Gains({"A"}, mem[word], AfterTranslate(mem, type, va)[word])
  <1>1. CASE ~Translated(type) \/ TranslateTrap(mem, type, va)
    <2>1. AfterTranslate(mem, type, va) = mem
      BY <1>1 DEF AfterTranslate
    <2>2. QED
      BY <2>1 DEF Gains
  <1>2. CASE ~(~Translated(type) \/ TranslateTrap(mem, type, va))
    <2> DEFINE addr == Walk(mem, va, Levels).addr
               new == [mem EXCEPT ![addr].bits = UpdatedBits(@, type)]
    <2>1. AfterTranslate(mem, type, va) = new
      BY <1>2 DEF AfterTranslate
    <2> HIDE DEF addr
    <2>2. ASSUME NEW word \in Words
          PROVE  /\ new[word] \in PageTableEntries
                 /\ Gains({"A", "D"}, mem[word], new[word])
                 /\ type # "Store" => Gains({"A"}, mem[word], new[word])
      <3>1. mem[word] \in PageTableEntries
        OBVIOUS
      <3>2. mem[word].bits \in SUBSET Bits /\ mem[word].ppn \in Ppns
        BY <3>1 DEF PageTableEntries
      <3>3. CASE word = addr
        <4>1. new[word] = [mem[word] EXCEPT !.bits = UpdatedBits(mem[word].bits, type)]
          BY <3>3
        <4>2. /\ new[word] = [bits |-> UpdatedBits(mem[word].bits, type),
                              ppn |-> mem[word].ppn]
          BY <3>1, <4>1 DEF PageTableEntries
        <4>3. QED
          BY <3>2, <4>2, Updated DEF PageTableEntries, Gains
      <3>4. CASE word # addr
        <4>1. new[word] = mem[word]
          BY <3>4
        <4>2. QED
          BY <3>1, <4>1 DEF Gains
      <3>5. QED
        BY <3>3, <3>4
    <2>3. new = [word \in Words |-> new[word]]
      OBVIOUS
    <2>4. QED
      BY <2>1, <2>2, <2>3
  <1>3. QED
    BY <1>1, <1>2

\* Gaining twice is gaining.
LEMMA GainsTransitive ==
  ASSUME NEW bits, NEW a, NEW b, NEW c, Gains(bits, a, b), Gains(bits, b, c)
  PROVE  Gains(bits, a, c)
  BY DEF Gains

\* What follows a word of memory, if anything does, is one.
LEMMA NextIsWord ==
  ASSUME NEW word \in Words
  PROVE  NextWord(word) \subseteq Words
  <1>1. word = [page |-> word.page, offset |-> word.offset]
    BY DEF Words
  <1>2. word.page \in Pages /\ NextPage[word.page] \subseteq Pages /\ 0 \in Vpns
    BY PagesAssumption, VpnsAssumption DEF Words, Vpns
  <1>3. CASE word.offset + 1 \in Vpns
    <2>1. [word EXCEPT !.offset = @ + 1] = [page |-> word.page, offset |-> word.offset + 1]
      BY <1>1
    <2>2. QED
      BY <1>2, <1>3, <2>1 DEF NextWord, Words
  <1>4. CASE word.offset + 1 \notin Vpns
    BY <1>2, <1>4 DEF NextWord, Words
  <1>5. QED
    BY <1>3, <1>4

\* An access begins in memory, and stays there.
LEMMA SpanIsWords ==
  ASSUME NEW first \in Words, NEW length
  PROVE  first \in Span(first, length) /\ Span(first, length) \subseteq Words
  <1>1. NextWord(first) \subseteq Words
    BY NextIsWord
  <1>2. \A next \in NextWord(first) : NextWord(next) \subseteq Words
    BY <1>1, NextIsWord
  <1>3. QED
    BY <1>1, <1>2 DEF Span

LEMMA TargetsAreWords ==
  ASSUME NEW mem, NEW type, NEW va, NEW length
  PROVE  Targets(mem, type, va, length) \subseteq Words
  BY DEF Targets

LEMMA LengthsAre ==
  ASSUME NEW kind, NEW va
  PROVE  Lengths(kind, va) \subseteq 1 .. 3
  BY DEF Lengths

-----------------------------------------------------------------------------
(* Type correctness *)

LEMMA InitType == Init => TypeOK
  <1> SUFFICES ASSUME Init PROVE TypeOK
    OBVIOUS
  <1>1. ZeroEntry \in PageTableEntries
    BY PagesAssumption DEF ZeroEntry, PageTableEntries
  <1>2. memory \in [Words -> PageTableEntries]
    BY <1>1 DEF Init
  <1>3. status \in XStatus
    BY PagesAssumption DEF Init, XStatus, Privs
  <1>4. QED
    BY <1>2, <1>3 DEF Init, TypeOK

\* Entering a trap leaves a status behind.
LEMMA TrapEnterType ==
  ASSUME TypeOK, TrapEnter
  PROVE  status' \in XStatus /\ phase' = "fetch"
  <1>1. PICK priv \in TrapLevels :
          status' = [status EXCEPT !.priv = priv,
                                   !.MPP = IF priv = "Machine" THEN status.priv ELSE @]
    BY DEF TrapEnter
  <1>2. priv \in Privs
    BY StatusesAssumption
  <1>3. QED
    BY <1>1, <1>2 DEF TrapEnter, TypeOK, XStatus

\* The three ways a step leaves the reservation.
LEMMA ReservationType ==
  ASSUME TypeOK, NEW cancel \in BOOLEAN, KeepReservation(cancel)
  PROVE  /\ reservation' = {} \/ \E va \in VAddrs : reservation' = {va}
         /\ reserved' \subseteq Words
         /\ reservation' = {} <=> reserved' = {}
  BY DEF TypeOK, KeepReservation

\* What an access leaves in memory, before the words it stores.
LEMMA AccessMemory ==
  ASSUME TypeOK, NEW kind, NEW va,
         NEW read, read = IF kind \in Reads THEN AfterTranslate(memory, "Load", va) ELSE memory,
         NEW written, written = AfterTranslate(read, "Store", va)
  PROVE  /\ read \in [Words -> PageTableEntries]
         /\ written \in [Words -> PageTableEntries]
         /\ \A word \in Words : /\ Gains({"A"}, memory[word], read[word])
                                /\ Gains({"A", "D"}, memory[word], written[word])
  <1>1. memory \in [Words -> PageTableEntries]
    BY DEF TypeOK
  <1>2. read \in [Words -> PageTableEntries]
    BY <1>1, Translation
  <1>3. \A word \in Words : /\ Gains({"A"}, memory[word], read[word])
                            /\ Gains({"A", "D"}, memory[word], read[word])
    <2>1. CASE kind \in Reads
      BY <1>1, <2>1, Translation
    <2>2. CASE kind \notin Reads
      BY <2>2 DEF Gains
    <2>3. QED
      BY <2>1, <2>2
  <1>4. /\ written \in [Words -> PageTableEntries]
        /\ \A word \in Words : Gains({"A", "D"}, read[word], written[word])
    BY <1>2, Translation
  <1>5. QED
    BY <1>2, <1>3, <1>4, GainsTransitive

LEMMA AccessType ==
  ASSUME TypeOK, NEW kind \in Ops, NEW va \in VAddrs, NEW length \in Lengths(kind, va),
         Access(kind, va, length)
  PROVE  TypeOK'
  <1> DEFINE read == IF kind \in Reads THEN AfterTranslate(memory, "Load", va) ELSE memory
             written == AfterTranslate(read, "Store", va)
  <1>1. read \in [Words -> PageTableEntries] /\ written \in [Words -> PageTableEntries]
    BY AccessMemory
  <1>2. Entries \subseteq PageTableEntries
    BY EntriesAssumption
  <1>3. memory' \in [Words -> PageTableEntries]
    <2>1. CASE Stores(kind, va)
      <3>1. PICK first \in Targets(read, "Store", va, length) :
              \E values \in [Span(first, length) -> Entries] :
                memory' = [word \in Words |->
                             IF word \in Span(first, length) THEN values[word] ELSE written[word]]
        BY <2>1 DEF Access
      <3>2. PICK values \in [Span(first, length) -> Entries] :
              memory' = [word \in Words |->
                           IF word \in Span(first, length) THEN values[word] ELSE written[word]]
        BY <3>1
      <3> HIDE DEF written
      <3>3. QED
        BY <1>1, <1>2, <3>2
    <2>2. CASE ~Stores(kind, va)
      BY <1>1, <2>2 DEF Access
    <2>3. QED
      BY <2>1, <2>2
  <1>4. /\ reservation' = {} \/ \E a \in VAddrs : reservation' = {a}
        /\ reserved' \subseteq Words
        /\ reservation' = {} <=> reserved' = {}
    <2>1. CASE kind = "lr"
      <3>1. /\ reservation' = {va}
            /\ \E first \in Targets(memory, "Load", va, length) : reserved' = Span(first, length)
        BY <2>1 DEF Access
      <3>2. PICK first \in Targets(memory, "Load", va, length) : reserved' = Span(first, length)
        BY <3>1
      <3>3. first \in reserved' /\ reserved' \subseteq Words
        BY <3>2, TargetsAreWords, SpanIsWords
      <3>4. QED
        BY <3>1, <3>3
    <2>2. CASE kind # "lr"
      <3>1. KeepReservation(Cancels(kind))
        BY <2>2 DEF Access
      <3>2. Cancels(kind) \in BOOLEAN
        BY DEF Cancels
      <3>3. QED
        BY <3>1, <3>2, ReservationType
    <2>3. QED
      BY <2>1, <2>2
  <1>5. status' \in XStatus /\ phase' = "fetch"
    BY DEF Access, TypeOK
  <1>6. unchecked' \in BOOLEAN
    BY DEF Access, TypeOK
  <1>7. QED
    BY <1>3, <1>4, <1>5, <1>6 DEF TypeOK

\* A fetch keeps the types and only marks, whichever half of it traps.
LEMMA FetchMemory ==
  ASSUME TypeOK,
         \/ \E pc \in VAddrs : Fetch(pc)
         \/ \E pc \in VAddrs, next \in VAddrs : FetchSplit(pc, next)
  PROVE  /\ memory' \in [Words -> PageTableEntries]
         /\ \A word \in Words : Gains({"A"}, memory[word], memory'[word])
         /\ status' \in XStatus
         /\ phase' \in {"fetch", "execute"}
         /\ UNCHANGED <<reservation, reserved, unchecked>>
  <1>1. memory \in [Words -> PageTableEntries] /\ status \in XStatus
    BY DEF TypeOK
  <1>2. CASE \E pc \in VAddrs : Fetch(pc)
    <2>1. PICK pc \in VAddrs : Fetch(pc)
      BY <1>2
    <2>2. TrapEnter \/ (phase' = "execute" /\ UNCHANGED status)
      BY <2>1 DEF Fetch
    <2>3. memory' = AfterTranslate(memory, "Instruction", pc)
      BY <2>1 DEF Fetch
    <2>4. QED
      BY <1>1, <2>1, <2>2, <2>3, Translation, TrapEnterType DEF Fetch
  <1>3. CASE \E pc \in VAddrs, next \in VAddrs : FetchSplit(pc, next)
    <2>1. PICK pc \in VAddrs, next \in VAddrs : FetchSplit(pc, next)
      BY <1>3
    <2> DEFINE low == AfterTranslate(memory, "Instruction", pc)
    <2>2. TrapEnter \/ (phase' = "execute" /\ UNCHANGED status)
      BY <2>1 DEF FetchSplit
    <2>3. memory' = AfterTranslate(low, "Instruction", next)
      BY <2>1 DEF FetchSplit
    <2>4. /\ low \in [Words -> PageTableEntries]
          /\ \A word \in Words : Gains({"A"}, memory[word], low[word])
      BY <1>1, Translation
    <2> HIDE DEF low
    <2>5. /\ memory' \in [Words -> PageTableEntries]
          /\ \A word \in Words : Gains({"A"}, low[word], memory'[word])
      BY <2>3, <2>4, Translation
    <2>6. \A word \in Words : Gains({"A"}, memory[word], memory'[word])
      BY <2>4, <2>5, GainsTransitive
    <2>7. UNCHANGED <<reservation, reserved, unchecked>>
      BY <2>1 DEF FetchSplit
    <2>8. QED
      BY <1>1, <2>2, <2>5, <2>6, <2>7, TrapEnterType
  <1>4. QED
    BY <1>2, <1>3

\* Types: TypeOK is an invariant of MemoryAccessUnit.
THEOREM TypeCorrect == Spec => []TypeOK
  <1>1. ASSUME TypeOK, [Next]_vars PROVE TypeOK'
    <2>1. CASE Interrupt
      BY <1>1, <2>1, TrapEnterType DEF Interrupt, TypeOK
    <2>2. CASE \/ \E pc \in VAddrs : Fetch(pc)
               \/ \E pc \in VAddrs, next \in VAddrs : FetchSplit(pc, next)
      BY <1>1, <2>2, FetchMemory DEF TypeOK
    <2>3. CASE \E kind \in Ops, va \in VAddrs : RefusedAccess(kind, va)
      BY <1>1, <2>3, TrapEnterType DEF RefusedAccess, TypeOK
    <2>4. ASSUME NEW kind \in Ops, NEW va \in VAddrs, NEW length \in Lengths(kind, va),
                 Access(kind, va, length)
          PROVE  TypeOK'
      BY <1>1, <2>4, AccessType
    <2>5. ASSUME NEW cancel \in BOOLEAN, NEW next \in Statuses, Other(cancel, next)
          PROVE  TypeOK'
      <3>1. next \in XStatus
        BY StatusesAssumption
      <3>2. KeepReservation(cancel)
        BY <2>5 DEF Other
      <3>3. QED
        BY <1>1, <2>5, <3>1, <3>2, ReservationType DEF Other, TypeOK
    <2>6. ASSUME NEW cancel \in BOOLEAN, OtherTrap(cancel)
          PROVE  TypeOK'
      <3>1. KeepReservation(cancel)
        BY <2>6 DEF OtherTrap
      <3>2. QED
        BY <1>1, <2>6, <3>1, ReservationType, TrapEnterType DEF OtherTrap, TypeOK
    <2>7. CASE UNCHANGED vars
      BY <1>1, <2>7 DEF vars, TypeOK
    <2>8. QED
      BY <1>1, <2>1, <2>2, <2>3, <2>4, <2>5, <2>6, <2>7 DEF Next
  <1>2. QED
    BY InitType, <1>1, PTL DEF Spec

-----------------------------------------------------------------------------
(* What a step may do to memory *)

LEMMA UnchangedMemory ==
  ASSUME memory' = memory PROVE \A word \in Words : Gains({"A"}, memory[word], memory'[word])
  BY DEF Gains

LEMMA AccessMarksOrStores ==
  ASSUME TypeOK, NEW kind \in Ops, NEW va \in VAddrs, NEW length \in Lengths(kind, va),
         Access(kind, va, length)
  PROVE  MarksOrStores
  <1> DEFINE read == IF kind \in Reads THEN AfterTranslate(memory, "Load", va) ELSE memory
             written == AfterTranslate(read, "Store", va)
  <1>1. /\ written \in [Words -> PageTableEntries]
        /\ \A word \in Words : /\ Gains({"A"}, memory[word], read[word])
                               /\ Gains({"A", "D"}, memory[word], written[word])
    BY AccessMemory
  <1>2. CASE Stores(kind, va)
    <2>1. PICK first \in Targets(read, "Store", va, length) :
            \E values \in [Span(first, length) -> Entries] :
              memory' = [word \in Words |->
                           IF word \in Span(first, length) THEN values[word] ELSE written[word]]
      BY <1>2 DEF Access
    <2>2. PICK values \in [Span(first, length) -> Entries] :
            memory' = [word \in Words |->
                         IF word \in Span(first, length) THEN values[word] ELSE written[word]]
      BY <2>1
    <2>3. first \in Words /\ length \in 1 .. 3
      BY TargetsAreWords, LengthsAre
    <2> HIDE DEF read, written
    <2>4. \A word \in Words :
            \/ Gains({"A", "D"}, memory[word], memory'[word])
            \/ word \in Span(first, length) /\ memory'[word] \in Entries
      BY <1>1, <2>2
    <2>5. phase = "execute"
      BY DEF Access
    <2>6. QED
      BY <2>3, <2>4, <2>5 DEF MarksOrStores
  <1>3. CASE ~Stores(kind, va)
    <2>1. memory' = read
      BY <1>3 DEF Access
    <2>2. QED
      BY <1>1, <2>1 DEF MarksOrStores
  <1>4. QED
    BY <1>2, <1>3

\* Page tables: a word changes only by a store to it or by gaining A and D.
THEOREM MarkingIsSafe == Spec => OnlyMarksOrStores
  <1>1. ASSUME TypeOK, [Next]_vars PROVE [MarksOrStores]_vars
    <2>1. CASE \/ \E pc \in VAddrs : Fetch(pc)
               \/ \E pc \in VAddrs, next \in VAddrs : FetchSplit(pc, next)
      BY <1>1, <2>1, FetchMemory DEF MarksOrStores
    <2>2. ASSUME NEW kind \in Ops, NEW va \in VAddrs, NEW length \in Lengths(kind, va),
                 Access(kind, va, length)
          PROVE  MarksOrStores
      BY <1>1, <2>2, AccessMarksOrStores
    <2>3. CASE memory' = memory
      BY <2>3, UnchangedMemory DEF MarksOrStores
    <2>4. QED
      BY <1>1, <2>1, <2>2, <2>3
         DEF Next, Interrupt, RefusedAccess, Other, OtherTrap, vars
  <1>2. QED
    BY TypeCorrect, <1>1, PTL DEF Spec, OnlyMarksOrStores

-----------------------------------------------------------------------------
(* The reservation *)

\* On RV32 an access that stores gives the reservation up, and so does every
\* other access, so that only one that does not store leaves it alone.
LEMMA AccessReservation ==
  ASSUME TypeOK, NEW kind \in Ops, NEW va \in VAddrs, NEW length \in Lengths(kind, va),
         Access(kind, va, length)
  PROVE  ReservedWordUntouched
  <1> SUFFICES ASSUME Xlen = 32, reserved' = reserved, NEW word \in reserved
               PROVE  Gains({"A"}, memory[word], memory'[word])
    BY DEF ReservedWordUntouched
  <1> DEFINE read == IF kind \in Reads THEN AfterTranslate(memory, "Load", va) ELSE memory
  <1>1. word \in Words
    BY DEF TypeOK
  <1>2. kind = "lr"
    <2>1. SUFFICES ASSUME kind # "lr" PROVE FALSE
      OBVIOUS
    <2>2. kind \in {"load", "otherLoad", "store", "otherStore", "sc", "amo"}
      BY <2>1 DEF Ops
    <2>3. Cancels(kind)
      BY <2>2 DEF Cancels
    <2>4. reserved' = {}
      BY <2>1, <2>3 DEF Access, KeepReservation
    <2>5. QED
      BY <2>4
  <1>3. memory' = read
    BY <1>2 DEF Access, Stores, Writes
  <1>4. Gains({"A"}, memory[word], read[word])
    BY <1>1, AccessMemory
  <1>5. QED
    BY <1>3, <1>4

\* Atomicity: on RV32, while a reservation is held, the word it stands for does
\* not change, except that a fetch or a load may mark it.
THEOREM ReservationSafe == Spec => ReservationProtects
  <1>1. ASSUME TypeOK, [Next]_vars PROVE [ReservedWordUntouched]_vars
    <2>1. reserved \subseteq Words
      BY <1>1 DEF TypeOK
    <2>2. CASE \/ \E pc \in VAddrs : Fetch(pc)
               \/ \E pc \in VAddrs, next \in VAddrs : FetchSplit(pc, next)
      BY <1>1, <2>1, <2>2, FetchMemory DEF ReservedWordUntouched
    <2>3. ASSUME NEW kind \in Ops, NEW va \in VAddrs, NEW length \in Lengths(kind, va),
                 Access(kind, va, length)
          PROVE  ReservedWordUntouched
      BY <1>1, <2>3, AccessReservation
    <2>4. CASE memory' = memory
      BY <2>1, <2>4, UnchangedMemory DEF ReservedWordUntouched
    <2>5. QED
      BY <1>1, <2>2, <2>3, <2>4
         DEF Next, Interrupt, RefusedAccess, Other, OtherTrap, vars
  <1>2. QED
    BY TypeCorrect, <1>1, PTL DEF Spec, ReservationProtects

-----------------------------------------------------------------------------
(* Where a walk ends.  There are at most four levels, so that the addresses it *)
(* reads can be written down one after the other.                              *)

Index(va, last, n) == va.vpn[IF n = Levels THEN last ELSE n]
Solves(addr, mem, va, last) ==
  addr = [n \in Fields |-> [page |-> IF n = 1 THEN status.root ELSE EntryAt(mem, addr[n - 1]).ppn,
                            offset |-> va.vpn[IF n = Levels THEN last ELSE n]]]
Addrs(mem, va, last) == CHOOSE addr : Solves(addr, mem, va, last)
Ends(mem, addrs) ==
  {n \in Fields : n = Levels \/ IsInvalid(EntryAt(mem, addrs[n])) \/ IsLeaf(EntryAt(mem, addrs[n]))}
FirstEnd(ends) == CHOOSE n \in ends : \A m \in ends : n <= m

LEMMA WalkParts ==
  ASSUME NEW mem, NEW va, NEW last
  PROVE  LET addrs == Addrs(mem, va, last)
             level == FirstEnd(Ends(mem, addrs))
         IN  Walk(mem, va, last) =
               [addr |-> addrs[level], entry |-> EntryAt(mem, addrs[level]), level |-> level]
  BY DEF Walk, Addrs, Solves, Ends, FirstEnd

LEMMA FieldsAre ==
  /\ Levels \in Fields /\ 1 \in Fields
  /\ \A n \in Fields : n \in 1 .. 4 /\ (n # 1 => n - 1 \in Fields)
  BY LevelsAssumption DEF Fields

\* The recursion of Walk has a solution.
LEMMA AddrsSolve ==
  ASSUME NEW mem, NEW va, NEW last
  PROVE  \E f : Solves(f, mem, va, last)
  <1> DEFINE off(n) == va.vpn[IF n = Levels THEN last ELSE n]
             a1 == [page |-> status.root, offset |-> off(1)]
             a2 == [page |-> EntryAt(mem, a1).ppn, offset |-> off(2)]
             a3 == [page |-> EntryAt(mem, a2).ppn, offset |-> off(3)]
             a4 == [page |-> EntryAt(mem, a3).ppn, offset |-> off(4)]
             f == [n \in Fields |-> IF n = 1 THEN a1 ELSE IF n = 2 THEN a2 ELSE IF n = 3 THEN a3 ELSE a4]
             Rec(n) == [page |-> IF n = 1 THEN status.root ELSE EntryAt(mem, f[n - 1]).ppn, offset |-> off(n)]
  <1>1. ASSUME NEW n \in Fields PROVE f[n] = Rec(n)
    <2>1. n = 1 \/ n = 2 \/ n = 3 \/ n = 4
      BY FieldsAre
    <2>2. n # 1 => n - 1 \in Fields
      BY FieldsAre
    <2>3. CASE n = 1
      BY <2>3
    <2>4. CASE n = 2
      <3>1. f[1] = a1 /\ f[2] = a2
        BY <2>2, <2>4
      <3> HIDE DEF a1, f
      <3>2. QED
        BY <2>4, <3>1
    <2>5. CASE n = 3
      <3>1. f[2] = a2 /\ f[3] = a3
        BY <2>2, <2>5
      <3> HIDE DEF a2, f
      <3>2. QED
        BY <2>5, <3>1
    <2>6. CASE n = 4
      <3>1. f[3] = a3 /\ f[4] = a4
        BY <2>2, <2>6
      <3> HIDE DEF a3, f
      <3>2. QED
        BY <2>6, <3>1
    <2>7. QED
      BY <2>1, <2>3, <2>4, <2>5, <2>6
  <1> DEFINE g == [n \in Fields |-> Rec(n)]
  <1>2. f = g
    <2>1. \A n \in Fields : f[n] = Rec(n)
      BY <1>1
    <2> HIDE DEF Rec, a1, a2, a3, a4
    <2>2. QED
      BY <2>1
  <1>3. Solves(f, mem, va, last)
    <2> HIDE DEF f
    <2>1. QED
      BY <1>2 DEF Solves
  <1>4. QED
    BY <1>3

LEMMA AddrsAre ==
  ASSUME NEW mem, NEW va, NEW last, NEW n \in Fields
  PROVE  LET addrs == Addrs(mem, va, last)
         IN  addrs[n] = [page |-> IF n = 1 THEN status.root ELSE EntryAt(mem, addrs[n - 1]).ppn,
                         offset |-> Index(va, last, n)]
  <1> DEFINE addrs == Addrs(mem, va, last)
  <1>0. Solves(addrs, mem, va, last)
    BY AddrsSolve DEF Addrs
  <1>1. addrs = [k \in Fields |-> [page |-> IF k = 1 THEN status.root ELSE EntryAt(mem, addrs[k - 1]).ppn,
                                   offset |-> va.vpn[IF k = Levels THEN last ELSE k]]]
    BY <1>0 DEF Solves
  <1> HIDE DEF addrs
  <1>2. addrs[n] = [page |-> IF n = 1 THEN status.root ELSE EntryAt(mem, addrs[n - 1]).ppn,
                    offset |-> va.vpn[IF n = Levels THEN last ELSE n]]
    BY <1>1
  <1>3. QED
    BY <1>2 DEF Index, addrs

\* A walk ends somewhere, at its first end.
LEMMA FirstEndExists ==
  ASSUME NEW ends \in SUBSET Fields, Levels \in ends
  PROVE  FirstEnd(ends) \in ends
  <1>1. \E n \in ends : \A m \in ends : n <= m
    <2>1. \A m \in ends : m \in 1 .. 4
      BY FieldsAre
    <2>2. CASE 1 \in ends
      BY <2>1, <2>2
    <2>3. CASE 1 \notin ends /\ 2 \in ends
      BY <2>1, <2>3
    <2>4. CASE 1 \notin ends /\ 2 \notin ends /\ 3 \in ends
      BY <2>1, <2>4
    <2>5. CASE 1 \notin ends /\ 2 \notin ends /\ 3 \notin ends
      <3>1. \A m \in ends : m = 4
        BY <2>1, <2>5
      <3>2. QED
        BY <3>1
    <2>6. QED
      BY <2>2, <2>3, <2>4, <2>5
  <1>2. QED
    BY <1>1 DEF FirstEnd

\* Marked memory maps as before.
Marked(mem, new) == \A word \in Words : Gains({"A", "D"}, mem[word], new[word])

LEMMA MarkedEntry ==
  ASSUME NEW old, NEW new, Gains({"A", "D"}, old, new)
  PROVE  /\ new.ppn = old.ppn
         /\ IsInvalid(new) <=> IsInvalid(old)
         /\ IsLeaf(new) <=> IsLeaf(old)
         /\ \A type \in Types : Forbids(new, type) <=> Forbids(old, type)
  <1>1. \A bit \in {"V", "R", "W", "X", "U"} : bit \in new.bits <=> bit \in old.bits
    BY DEF Gains
  <1>2. new.ppn = old.ppn
    BY DEF Gains
  <1>3. QED
    BY <1>1, <1>2 DEF IsInvalid, IsLeaf, Forbids

\* The same of entries wherever a walk looks for them.
LEMMA MarkedEntryAt ==
  ASSUME NEW mem, NEW new, Marked(mem, new), NEW addr
  PROVE  /\ Gains({"A", "D"}, EntryAt(mem, addr), EntryAt(new, addr))
         /\ EntryAt(new, addr).ppn = EntryAt(mem, addr).ppn
         /\ IsInvalid(EntryAt(new, addr)) <=> IsInvalid(EntryAt(mem, addr))
         /\ IsLeaf(EntryAt(new, addr)) <=> IsLeaf(EntryAt(mem, addr))
  <1>1. Gains({"A", "D"}, EntryAt(mem, addr), EntryAt(new, addr))
    BY DEF Marked, EntryAt, Gains
  <1>2. QED
    BY <1>1, MarkedEntry

LEMMA WalkEnds ==
  ASSUME NEW mem, NEW new, Marked(mem, new), NEW va, NEW last
  PROVE  /\ Walk(mem, va, last).level \in Fields
         /\ Walk(mem, va, last).entry = EntryAt(mem, Walk(mem, va, last).addr)
         /\ Walk(new, va, last).addr = Walk(mem, va, last).addr
         /\ Walk(new, va, last).level = Walk(mem, va, last).level
         /\ Walk(new, va, last).entry = EntryAt(new, Walk(mem, va, last).addr)
  <1> DEFINE A == Addrs(mem, va, last)
             B == Addrs(new, va, last)
  <1>a. \A n \in Fields : A[n] = [page |-> IF n = 1 THEN status.root ELSE EntryAt(mem, A[n - 1]).ppn,
                                  offset |-> Index(va, last, n)]
    BY AddrsAre
  <1>b. \A n \in Fields : B[n] = [page |-> IF n = 1 THEN status.root ELSE EntryAt(new, B[n - 1]).ppn,
                                  offset |-> Index(va, last, n)]
    BY AddrsAre
  <1>p. \A addr : EntryAt(new, addr).ppn = EntryAt(mem, addr).ppn
    BY MarkedEntryAt
  <1> HIDE DEF A, B
  <1>1. 1 \in Fields => B[1] = A[1]
    BY <1>a, <1>b
  <1>2. ASSUME NEW n \in Fields, n # 1, B[n - 1] = A[n - 1]
        PROVE  B[n] = A[n]
    <2>1. EntryAt(new, B[n - 1]).ppn = EntryAt(mem, A[n - 1]).ppn
      BY <1>2, <1>p
    <2>2. /\ A[n] = [page |-> EntryAt(mem, A[n - 1]).ppn, offset |-> Index(va, last, n)]
          /\ B[n] = [page |-> EntryAt(new, B[n - 1]).ppn, offset |-> Index(va, last, n)]
      BY <1>2, <1>a, <1>b
    <2>3. QED
      BY <2>1, <2>2
  <1>3. ASSUME NEW n \in Fields
        PROVE  B[n] = A[n]
    <2>1. (n = 1 \/ n = 2 \/ n = 3 \/ n = 4) /\ \A k \in Fields : k # 1 => k - 1 \in Fields
      BY FieldsAre
    <2>2. 2 \in Fields => B[2] = A[2]
      BY <1>1, <1>2, <2>1
    <2>3. 3 \in Fields => B[3] = A[3]
      BY <1>2, <2>1, <2>2
    <2>4. 4 \in Fields => B[4] = A[4]
      BY <1>2, <2>1, <2>3
    <2>5. QED
      BY <1>1, <2>1, <2>2, <2>3, <2>4
  <1>4. Ends(new, B) = Ends(mem, A)
    <2>1. ASSUME NEW n \in Fields
          PROVE  /\ IsInvalid(EntryAt(new, B[n])) <=> IsInvalid(EntryAt(mem, A[n]))
                 /\ IsLeaf(EntryAt(new, B[n])) <=> IsLeaf(EntryAt(mem, A[n]))
      BY <1>3, MarkedEntryAt
    <2>2. QED
      BY <2>1 DEF Ends
  <1> DEFINE level == FirstEnd(Ends(mem, A))
  <1>5. level \in Fields
    <2>1. Ends(mem, A) \in SUBSET Fields /\ Levels \in Ends(mem, A)
      BY FieldsAre DEF Ends
    <2>2. QED
      BY <2>1, FirstEndExists
  <1>6. /\ Walk(mem, va, last) = [addr |-> A[level], entry |-> EntryAt(mem, A[level]), level |-> level]
        /\ Walk(new, va, last) = [addr |-> B[level], entry |-> EntryAt(new, B[level]), level |-> level]
    BY <1>4, WalkParts DEF A, B
  <1> HIDE DEF level
  <1>7. QED
    BY <1>3, <1>5, <1>6

\* Translation gives the same answer before and after it marked the entries.
LEMMA MarkedTranslates ==
  ASSUME NEW mem, NEW new, Marked(mem, new), NEW va, NEW type \in Types
  PROVE  /\ TranslateTrap(new, type, va) <=> TranslateTrap(mem, type, va)
         /\ Physical(new, type, va) = Physical(mem, type, va)
  <1> DEFINE M == Walk(mem, va, Levels)
             N == Walk(new, va, Levels)
  <1>1. M.entry = EntryAt(mem, M.addr) /\ N.level = M.level /\ N.entry = EntryAt(new, M.addr)
    BY WalkEnds
  <1> HIDE DEF M, N
  <1>2. Gains({"A", "D"}, M.entry, N.entry)
    BY <1>1, MarkedEntryAt
  <1>3. /\ N.entry.ppn = M.entry.ppn /\ (IsInvalid(N.entry) <=> IsInvalid(M.entry))
        /\ Forbids(N.entry, type) <=> Forbids(M.entry, type)
    BY <1>2, MarkedEntry
  <1>4. TranslateTrap(new, type, va) <=> TranslateTrap(mem, type, va)
    BY <1>3 DEF TranslateTrap, M, N
  <1>5. Physical(new, type, va) = Physical(mem, type, va)
    BY <1>1, <1>3 DEF Physical, M, N
  <1>6. QED
    BY <1>4, <1>5

-----------------------------------------------------------------------------
(* The check and the accesses.  With four levels the check looks at another    *)
(* entry than the translation, so that what follows is about two and three.    *)

LEMMA CheckCovers ==
  ASSUME Levels # 4, NEW va, NEW type, TranslateTrap(memory, type, va)
  PROVE  CheckTrap(type, va)
  <1>1. CheckedField = Levels
    BY DEF CheckedField
  <1>2. QED
    BY <1>1 DEF TranslateTrap, CheckTrap

\* No translation of an access that has been checked traps, that for the store
\* included, which comes after the load has marked its entry.
LEMMA CheckedAccess ==
  ASSUME TypeOK, Levels # 4, NEW kind, NEW va \in VAddrs, ~PreCheckTrap(kind, va),
         NEW read, read = IF kind \in Reads THEN AfterTranslate(memory, "Load", va) ELSE memory
  PROVE  /\ kind \in Reads => ~TranslateTrap(memory, "Load", va)
         /\ kind \in Writes => /\ ~TranslateTrap(memory, "Store", va) /\ ~TranslateTrap(read, "Store", va)
                             /\ Physical(read, "Store", va) = Physical(memory, "Store", va)
  <1>1. kind \in Reads => ~TranslateTrap(memory, "Load", va)
    BY CheckCovers DEF PreCheckTrap
  <1>2. kind \in Writes => ~TranslateTrap(memory, "Store", va)
    BY CheckCovers DEF PreCheckTrap
  <1>3. Marked(memory, read)
    <2>1. /\ read \in [Words -> PageTableEntries]
          /\ \A word \in Words : Gains({"A"}, memory[word], read[word])
      BY AccessMemory
    <2>2. QED
      BY <2>1 DEF Marked, Gains
  <1>4. "Store" \in Types
    BY DEF Types
  <1>5. QED
    BY <1>1, <1>2, <1>3, <1>4, MarkedTranslates

\* Loads and stores: with two or three levels of page tables, whatever the
\* tables hold, no access goes on after its translation has failed.
THEOREM ChecksSuffice == Levels # 4 => (Spec => []CheckSuffices)
  <1> SUFFICES ASSUME Levels # 4 PROVE Spec => []CheckSuffices
    OBVIOUS
  <1>1. ASSUME TypeOK, CheckSuffices, [Next]_vars PROVE CheckSuffices'
    <2>1. ASSUME NEW kind \in Ops, NEW va \in VAddrs, NEW length \in Lengths(kind, va),
                 Access(kind, va, length)
          PROVE  CheckSuffices'
      <3> DEFINE read == IF kind \in Reads THEN AfterTranslate(memory, "Load", va) ELSE memory
      <3>1. /\ ~PreCheckTrap(kind, va)
            /\ unchecked' = (\/ unchecked
                             \/ kind \in Reads /\ TranslateTrap(memory, "Load", va)
                             \/ Stores(kind, va) /\ TranslateTrap(read, "Store", va))
        BY <2>1 DEF Access
      <3> HIDE DEF read
      <3>2. /\ kind \in Reads => ~TranslateTrap(memory, "Load", va)
            /\ kind \in Writes => ~TranslateTrap(read, "Store", va)
        BY <1>1, <3>1, CheckedAccess DEF read
      <3>3. Stores(kind, va) => kind \in Writes
        BY DEF Stores
      <3>4. unchecked' = FALSE
        BY <1>1, <3>1, <3>2, <3>3 DEF CheckSuffices
      <3>5. QED
        BY <3>4 DEF CheckSuffices
    <2>2. CASE \/ \E pc \in VAddrs : Fetch(pc)
               \/ \E pc \in VAddrs, next \in VAddrs : FetchSplit(pc, next)
      BY <1>1, <2>2, FetchMemory DEF CheckSuffices
    <2>3. CASE unchecked' = unchecked
      BY <1>1, <2>3 DEF CheckSuffices
    <2>4. QED
      BY <1>1, <2>1, <2>2, <2>3 DEF Next, Interrupt, RefusedAccess, Other, OtherTrap, vars
  <1>2. Init => CheckSuffices
    BY DEF Init, CheckSuffices
  <1>3. QED
    BY TypeCorrect, <1>1, <1>2, PTL DEF Spec

\* Where a translation for a store has not trapped, it has marked the entry it
\* has ended at.
LEMMA StoreMarks ==
  ASSUME NEW mem \in [Words -> PageTableEntries], NEW va,
         Translated("Store"), ~TranslateTrap(mem, "Store", va),
         NEW addr, addr = Walk(mem, va, Levels).addr
  PROVE  {"A", "D"} \subseteq AfterTranslate(mem, "Store", va)[addr].bits
  <1>1. ~IsInvalid(Walk(mem, va, Levels).entry)
    BY DEF TranslateTrap
  <1>2. Walk(mem, va, Levels).entry = EntryAt(mem, addr)
    <2>1. Marked(mem, mem)
      BY DEF Marked, Gains
    <2>2. QED
      BY <2>1, WalkEnds
  <1>3. addr \in Words
    BY <1>1, <1>2 DEF EntryAt, ZeroEntry, IsInvalid
  <1>4. AfterTranslate(mem, "Store", va) = [mem EXCEPT ![addr].bits = UpdatedBits(@, "Store")]
    BY DEF AfterTranslate
  <1>5. mem[addr] \in PageTableEntries
    BY <1>3
  <1>6. AfterTranslate(mem, "Store", va)[addr].bits = UpdatedBits(mem[addr].bits, "Store")
    BY <1>3, <1>4, <1>5 DEF PageTableEntries
  <1>7. QED
    BY <1>6 DEF UpdatedBits

\* A store of an instruction that has been checked begins where a mapping that
\* permits it leads, and that mapping is marked.
LEMMA AccessIsMapped ==
  ASSUME TypeOK, Levels # 4, Translated("Store"),
         NEW kind \in Ops, NEW va \in VAddrs, NEW length \in Lengths(kind, va),
         Access(kind, va, length), NEW word \in Words
  PROVE  Gains({"A", "D"}, memory[word], memory'[word]) \/ WrittenThroughMapping(word)
  <1> DEFINE read == IF kind \in Reads THEN AfterTranslate(memory, "Load", va) ELSE memory
             written == AfterTranslate(read, "Store", va)
  <1>1. /\ read \in [Words -> PageTableEntries] /\ written \in [Words -> PageTableEntries]
        /\ \A w \in Words : Gains({"A"}, memory[w], read[w]) /\ Gains({"A", "D"}, memory[w], written[w])
    BY AccessMemory
  <1>2. CASE ~Stores(kind, va)
    <2>1. memory' = read
      BY <1>2 DEF Access
    <2> HIDE DEF read
    <2>2. QED
      BY <1>1, <2>1 DEF Gains
  <1>3. CASE Stores(kind, va)
    <2>1. PICK first \in Targets(read, "Store", va, length) :
            \E values \in [Span(first, length) -> Entries] :
              memory' = [w \in Words |-> IF w \in Span(first, length) THEN values[w] ELSE written[w]]
      BY <1>3 DEF Access
    <2>2. PICK values \in [Span(first, length) -> Entries] :
            memory' = [w \in Words |-> IF w \in Span(first, length) THEN values[w] ELSE written[w]]
      BY <2>1
    <2>3. ~PreCheckTrap(kind, va) /\ kind \in Writes
      BY <1>3 DEF Access, Stores
    <2> HIDE DEF read
    <2>4. /\ ~TranslateTrap(memory, "Store", va) /\ ~TranslateTrap(read, "Store", va)
          /\ Physical(read, "Store", va) = Physical(memory, "Store", va)
      BY <2>3, CheckedAccess DEF read
    <2>5. first = Physical(memory, "Store", va) /\ Span(first, length) \subseteq Words
      BY <2>4, SpanIsWords DEF Targets
    <2> DEFINE addr == Walk(memory, va, Levels).addr
    <2>6. {"A", "D"} \subseteq written[addr].bits
      <3>1. Marked(memory, read)
        BY <1>1 DEF Marked, Gains
      <3>2. addr = Walk(read, va, Levels).addr
        BY <3>1, WalkEnds
      <3>3. QED
        BY <1>1, <2>4, <3>2, StoreMarks
    <2>7. addr \in Words
      <3>1. Marked(memory, memory)
        BY DEF Marked, Gains
      <3>2. Walk(memory, va, Levels).entry = EntryAt(memory, addr)
        BY <3>1, WalkEnds
      <3>3. ~IsInvalid(EntryAt(memory, addr))
        BY <2>4, <3>2 DEF TranslateTrap
      <3>4. QED
        BY <3>3 DEF EntryAt, ZeroEntry, IsInvalid
    <2> HIDE DEF addr, written
    <2>8. CASE word \in Span(first, length)
      <3>1. \A stored \in Span(first, length) : memory'[stored] \in Entries
        BY <2>2, <2>5
      <3>2. addr \in Span(first, length) \/ {"A", "D"} \subseteq memory'[addr].bits
        BY <2>2, <2>6, <2>7
      <3>3. QED
        BY <2>3, <2>4, <2>5, <2>8, <3>1, <3>2 DEF WrittenThroughMapping, addr
    <2>9. CASE word \notin Span(first, length)
      BY <1>1, <2>2, <2>9
    <2>10. QED
      BY <2>8, <2>9
  <1>4. QED
    BY <1>2, <1>3

\* Memory protection: with two or three levels of page tables, whatever the
\* tables hold, every store of a program in translation begins where a mapping
\* that it may write leads, with the page number cut to the width of a virtual
\* address, and that mapping is marked.  A store that is not aligned may go on into
\* the physically next page, which no mapping need lead to.
THEOREM StoresGoThroughMappings == Levels # 4 => (Spec => StoresAreMapped)
  <1> SUFFICES ASSUME Levels # 4 PROVE Spec => StoresAreMapped
    OBVIOUS
  <1>1. ASSUME TypeOK, [Next]_vars
        PROVE  [Translated("Store") =>
                  \A word \in Words :
                    \/ Gains({"A", "D"}, memory[word], memory'[word])
                    \/ WrittenThroughMapping(word)]_vars
    <2> DEFINE Mapped == Translated("Store") =>
                 \A word \in Words : Gains({"A", "D"}, memory[word], memory'[word]) \/ WrittenThroughMapping(word)
    <2>1. CASE \/ \E pc \in VAddrs : Fetch(pc)
               \/ \E pc \in VAddrs, next \in VAddrs : FetchSplit(pc, next)
      <3>1. \A word \in Words : Gains({"A"}, memory[word], memory'[word])
        BY <1>1, <2>1, FetchMemory
      <3>2. QED
        BY <3>1 DEF Gains
    <2>2. ASSUME NEW kind \in Ops, NEW va \in VAddrs, NEW length \in Lengths(kind, va),
                 Access(kind, va, length)
          PROVE  Mapped
      BY <1>1, <2>2, AccessIsMapped
    <2>3. CASE memory' = memory
      BY <2>3 DEF Gains
    <2>4. QED
      BY <1>1, <2>1, <2>2, <2>3
         DEF Next, Interrupt, RefusedAccess, Other, OtherTrap, vars
  <1>2. QED
    BY TypeCorrect, <1>1, PTL DEF Spec, StoresAreMapped

-----------------------------------------------------------------------------
(* The instructions whose accesses the unit serves: every handler of the     *)
(* executor against the checks made before it.                               *)

\* An effect that names no floating-point register and leaves the flags alone.
IntegerValue(v) == \A n \in DOMAIN v.args : v.args[n].kind # "f"
IntegerEffect(e) ==
  /\ ~e.flags
  /\ \A w \in e.writes : w.to.kind # "f" /\ IntegerValue(w.value)
  /\ \A a \in e.access : a.base.kind # "f" /\ IntegerValue(a.data)
  /\ \A j \in e.jump : j.base.kind # "f" /\ IntegerValue(j.when)
  /\ \A r \in e.reserves : r.kind # "f"

\* One that a handler leaves, without an access.
Plain(e) == IntegerEffect(e) /\ e.access = {} /\ e.handled

\* The accesses of an instruction that is neither atomic nor compressed.
Accesses(name, o, e) ==
  \A a \in e.access :
    /\ \/ name \in E!Loads /\ a.kind = "Load"
       \/ name \in E!Stores /\ a.kind = "Store"
    /\ a.base = E!X(o.rs1) /\ a.offset = o.imm

\* The names the handlers of RV32I and RV64I take.
Integers32 ==
  {"lui", "auipc", "jal", "jalr", "beq", "bne", "blt", "bge", "bltu", "bgeu", "lb", "lh", "lw", "lbu", "lhu",
   "sb", "sh", "sw", "addi", "slti", "sltiu", "xori", "ori", "andi", "slli", "srli", "srai",
   "add", "sub", "sll", "slt", "sltu", "xor", "srl", "sra", "or", "and",
   "ecall", "ebreak", "mret", "sret", "uret", "wfi", "fence", "fence_i", "sfence_vma"}
  \cup E!Csrs \cup E!CsrImms
Integers64 ==
  Integers32 \cup {"ld", "lwu", "sd", "addiw", "slliw", "srliw", "sraiw", "addw", "subw", "sllw", "srlw", "sraw"}

\* The registers of an integer effect are none of the floating-point file.
LEMMA IntegerRegisters ==
  ASSUME NEW e, IntegerEffect(e)
  PROVE  \A r \in Registers(e) : r.kind # "f"
<1> DEFINE values == {w.value : w \in e.writes} \cup {a.data : a \in e.access} \cup {j.when : j \in e.jump}
           args == UNION {{v.args[n] : n \in DOMAIN v.args} : v \in values}
           operands == args \cup {w.to : w \in e.writes} \cup {a.base : a \in e.access} \cup {j.base : j \in e.jump}
                       \cup e.reserves
<1>1. Registers(e) = {r \in operands : r.kind \in {"x", "f"}}
  BY Zenon DEF Registers
<1>2. \A v \in values : IntegerValue(v)
  BY DEF IntegerEffect
<1>3. \A r \in args : r.kind # "f"
  <2> HIDE DEF values
  <2> QED BY <1>2 DEF IntegerValue
<1> HIDE DEF args
<1>4. \A r \in operands : r.kind # "f"
  BY <1>3 DEF IntegerEffect
<1> HIDE DEF operands
<1> QED
  BY <1>1, <1>4

LEMMA IntegerSources ==
  /\ \A n : E!X(n).kind # "f"
  /\ \A n : E!Imm(n).kind # "f"
  /\ \A n : E!CsrAt(n).kind # "f"
  /\ E!Pc.kind # "f"
  /\ E!ReadStackPointer.kind # "f"
BY DEF E!X, E!Imm, E!CsrAt, E!Pc, E!ReadStackPointer

\* Values of up to three integer sources.
LEMMA IntegerValues ==
  /\ \A f : IntegerValue(E!Value(f, <<>>))
  /\ \A f, a : a.kind # "f" => IntegerValue(E!Value(f, <<a>>))
  /\ \A f, a, b : a.kind # "f" /\ b.kind # "f" => IntegerValue(E!Value(f, <<a, b>>))
  /\ \A f, a, b, c : a.kind # "f" /\ b.kind # "f" /\ c.kind # "f" => IntegerValue(E!Value(f, <<a, b, c>>))
  /\ \A a : a.kind # "f" => IntegerValue(E!Copy(a))
  /\ \A a, b : a.kind # "f" /\ b.kind # "f" => IntegerValue(E!Add(a, b))
  /\ \A s, x : IntegerValue(E!Loaded(s, x))
  /\ IntegerValue(E!Always)
<1>1. \A f : IntegerValue(E!Value(f, <<>>))
  BY DEF IntegerValue, E!Value
<1>2. \A f, a : a.kind # "f" => IntegerValue(E!Value(f, <<a>>))
  BY DEF IntegerValue, E!Value
<1>3. \A f, a, b : a.kind # "f" /\ b.kind # "f" => IntegerValue(E!Value(f, <<a, b>>))
  BY DEF IntegerValue, E!Value
<1>4. \A f, a, b, c : a.kind # "f" /\ b.kind # "f" /\ c.kind # "f" => IntegerValue(E!Value(f, <<a, b, c>>))
  BY DEF IntegerValue, E!Value
<1>5. \A a : a.kind # "f" => IntegerValue(E!Copy(a))
  BY <1>2 DEF E!Copy
<1>6. \A a, b : a.kind # "f" /\ b.kind # "f" => IntegerValue(E!Add(a, b))
  BY <1>3, <1>5 DEF E!Add
<1> QED
  BY <1>1, <1>2, <1>3, <1>4, <1>5, <1>6, IntegerSources DEF E!Loaded, E!Always

LEMMA PlainEffects ==
  /\ Plain(E!Idle)
  /\ IntegerEffect(E!Error) /\ E!Error.access = {}
  /\ \A rd, v : IntegerValue(v) => Plain(E!WriteX(rd, v))
  /\ \A e : Plain(e) => Plain(E!Cancelled(e))
<1>1. \A rd, v : IntegerValue(v) => Plain(E!WriteX(rd, v))
  BY IntegerSources DEF Plain, IntegerEffect, E!Idle, E!WriteX
<1>2. \A e : Plain(e) => Plain(E!Cancelled(e))
  BY DEF Plain, IntegerEffect, E!Cancelled
<1> QED
  BY <1>1, <1>2 DEF Plain, IntegerEffect, E!Idle, E!Error

-----------------------------------------------------------------------------
(* The handlers of RV32I *)

LEMMA Jump32I ==
  ASSUME NEW o, NEW name \in {"lui", "auipc", "jal", "jalr"}
  PROVE  Plain(E!RV32I_UpperOrJump(name, o))
BY IntegerSources, IntegerValues DEF Plain, IntegerEffect, E!RV32I_UpperOrJump, E!WriteX, E!Idle, E!Target

LEMMA Branch32I ==
  ASSUME NEW o, NEW name
  PROVE  Plain(E!RV32I_Branch(name, o))
BY IntegerSources, IntegerValues DEF Plain, IntegerEffect, E!RV32I_Branch, E!Idle, E!Target

LEMMA Load32I ==
  ASSUME NEW o, NEW name \in {"lb", "lh", "lw", "lbu", "lhu"}
  PROVE  LET e == E!RV32I_Load(name, o) IN IntegerEffect(e) /\ Accesses(name, o, e) /\ e.handled
BY IntegerSources, IntegerValues
   DEF IntegerEffect, Accesses, E!RV32I_Load, E!Loading, E!Cancelled, E!WriteX, E!Idle, E!Access, E!Loads

LEMMA Store32I ==
  ASSUME NEW o, NEW name \in {"sb", "sh", "sw"}
  PROVE  LET e == E!RV32I_Store(name, o) IN IntegerEffect(e) /\ Accesses(name, o, e) /\ e.handled
BY IntegerSources, IntegerValues
   DEF IntegerEffect, Accesses, E!RV32I_Store, E!Storing, E!Cancelled, E!Idle, E!Access, E!Stores

LEMMA Alu32I ==
  ASSUME NEW o, NEW name
  PROVE  /\ Plain(E!RV32I_AluImm(name, o)) /\ Plain(E!RV32I_Alu(name, o))
         /\ Plain(E!RV32I_Shift(name, o)) /\ Plain(E!RV32I_ShiftImm(name, o))
BY IntegerSources, PlainEffects, IntegerValues
   DEF E!RV32I_AluImm, E!RV32I_Alu, E!RV32I_Shift, E!RV32I_ShiftImm

LEMMA PrivPlain ==
  ASSUME NEW name
  PROVE  Plain(E!Priv(name))
BY DEF Plain, IntegerEffect, E!Priv, E!Cancelled, E!Idle

LEMMA CsrPlain ==
  ASSUME NEW o, NEW name \in E!Csrs \cup E!CsrImms, NEW s, s.kind # "f"
  PROVE  Plain(E!Csr(name, o, s))
<1>1. IntegerValue(E!CsrValue(name, E!CsrAt(o.csr), s))
  BY IntegerSources, IntegerValues DEF E!CsrValue, E!Csrs, E!CsrImms
<1>2. \A w \in E!WriteX(o.rd, E!Copy(E!CsrAt(o.csr))).writes : w.to.kind # "f" /\ IntegerValue(w.value)
  BY PlainEffects, IntegerSources, IntegerValues DEF Plain, IntegerEffect
<1> QED
  BY <1>1, <1>2, IntegerSources DEF Plain, IntegerEffect, E!Csr, E!Idle

\* Whatever ProcessRV32I is given, its effect is that of one of its handlers or an error.
LEMMA Process32I ==
  ASSUME NEW name, NEW o
  PROVE  LET e == E!ProcessRV32I(name, o) IN
         IntegerEffect(e) /\ Accesses(name, o, e) /\ (name \in Integers32 => e.handled)
<1> DEFINE e == E!ProcessRV32I(name, o)
<1>0. ASSUME Plain(e) PROVE IntegerEffect(e) /\ Accesses(name, o, e) /\ e.handled
  BY <1>0 DEF Plain, Accesses
<1> USE DEF E!Csrs, E!CsrImms
<1>1. CASE name \in {"lui", "auipc", "jal", "jalr"}
  BY <1>0, <1>1, Jump32I DEF E!ProcessRV32I
<1>2. CASE name \in {"beq", "bne", "blt", "bge", "bltu", "bgeu"}
  BY <1>0, <1>2, Branch32I DEF E!ProcessRV32I
<1>3. CASE name \in {"lb", "lh", "lw", "lbu", "lhu"}
  BY <1>3, Load32I DEF E!ProcessRV32I
<1>4. CASE name \in {"sb", "sh", "sw"}
  BY <1>4, Store32I DEF E!ProcessRV32I
<1>5. CASE name \in {"addi", "slti", "sltiu", "xori", "ori", "andi"}
  BY <1>0, <1>5, Alu32I DEF E!ProcessRV32I
<1>6. CASE name \in {"sll", "srl", "sra"}
  BY <1>0, <1>6, Alu32I DEF E!ProcessRV32I
<1>7. CASE name \in {"slli", "srli", "srai"}
  BY <1>0, <1>7, Alu32I DEF E!ProcessRV32I
<1>8. CASE name \in {"add", "sub", "slt", "sltu", "xor", "or", "and"}
  BY <1>0, <1>8, Alu32I DEF E!ProcessRV32I
<1>9. CASE name \in {"ecall", "ebreak", "mret", "sret", "uret", "wfi", "fence", "fence_i", "sfence_vma"}
  BY <1>0, <1>9, PrivPlain DEF E!ProcessRV32I, E!RV32I_PrivOrFence
<1>10. CASE name \in E!Csrs
  BY <1>0, <1>10, CsrPlain, IntegerSources, PlainEffects DEF E!ProcessRV32I, E!RV32I_Csr
<1>11. CASE name \in E!CsrImms
  BY <1>0, <1>11, CsrPlain, IntegerSources, PlainEffects DEF E!ProcessRV32I, E!RV32I_CsrImm
<1>12. CASE e = E!Error /\ name \notin Integers32
  BY <1>12, PlainEffects DEF Accesses
<1> QED
  BY <1>1, <1>2, <1>3, <1>4, <1>5, <1>6, <1>7, <1>8, <1>9, <1>10, <1>11, <1>12
     DEF E!ProcessRV32I, Integers32

-----------------------------------------------------------------------------
(* The handlers of RV64I *)

LEMMA Jump64I ==
  ASSUME NEW o, NEW name \in {"lui", "auipc", "jal", "jalr"}
  PROVE  Plain(E!RV64I_UpperOrJump(name, o))
BY IntegerSources, IntegerValues DEF Plain, IntegerEffect, E!RV64I_UpperOrJump, E!WriteX, E!Idle, E!Target

LEMMA Branch64I ==
  ASSUME NEW o, NEW name
  PROVE  Plain(E!RV64I_Branch(name, o))
BY IntegerSources, IntegerValues DEF Plain, IntegerEffect, E!RV64I_Branch, E!Idle, E!Target

LEMMA Load64I ==
  ASSUME NEW o, NEW name \in {"lb", "lh", "lw", "ld", "lbu", "lhu", "lwu"}
  PROVE  LET e == E!RV64I_Load(name, o) IN IntegerEffect(e) /\ Accesses(name, o, e) /\ e.handled
BY IntegerSources, IntegerValues
   DEF IntegerEffect, Accesses, E!RV64I_Load, E!Loading, E!WriteX, E!Idle, E!Access, E!Loads

LEMMA Store64I ==
  ASSUME NEW o, NEW name \in {"sb", "sh", "sw", "sd"}
  PROVE  LET e == E!RV64I_Store(name, o) IN IntegerEffect(e) /\ Accesses(name, o, e) /\ e.handled
BY IntegerSources, IntegerValues
   DEF IntegerEffect, Accesses, E!RV64I_Store, E!Storing, E!Idle, E!Access, E!Stores

LEMMA Alu64I ==
  ASSUME NEW o, NEW name
  PROVE  /\ Plain(E!RV64I_AluImm(name, o)) /\ Plain(E!RV64I_Alu(name, o))
         /\ Plain(E!RV64I_Shift(name, o)) /\ Plain(E!RV64I_ShiftImm(name, o))
BY IntegerSources, PlainEffects, IntegerValues
   DEF E!RV64I_AluImm, E!RV64I_Alu, E!RV64I_Shift, E!RV64I_ShiftImm

\* Whatever ProcessRV64I is given, its effect is that of one of its handlers or an error.
LEMMA Process64I ==
  ASSUME NEW name, NEW o
  PROVE  LET e == E!ProcessRV64I(name, o) IN
         IntegerEffect(e) /\ Accesses(name, o, e) /\ (name \in Integers64 => e.handled)
<1> DEFINE e == E!ProcessRV64I(name, o)
<1>0. ASSUME Plain(e) PROVE IntegerEffect(e) /\ Accesses(name, o, e) /\ e.handled
  BY <1>0 DEF Plain, Accesses
<1> USE DEF E!Csrs, E!CsrImms
<1>1. CASE name \in {"lui", "auipc", "jal", "jalr"}
  BY <1>0, <1>1, Jump64I DEF E!ProcessRV64I
<1>2. CASE name \in {"beq", "bne", "blt", "bge", "bltu", "bgeu"}
  BY <1>0, <1>2, Branch64I DEF E!ProcessRV64I
<1>3. CASE name \in {"lb", "lh", "lw", "ld", "lbu", "lhu", "lwu"}
  BY <1>3, Load64I DEF E!ProcessRV64I
<1>4. CASE name \in {"sb", "sh", "sw", "sd"}
  BY <1>4, Store64I DEF E!ProcessRV64I
<1>5. CASE name \in {"addi", "addiw", "slti", "sltiu", "xori", "ori", "andi"}
  BY <1>0, <1>5, Alu64I DEF E!ProcessRV64I
<1>6. CASE name \in {"sll", "sllw", "srl", "srlw", "sra", "sraw"}
  BY <1>0, <1>6, Alu64I DEF E!ProcessRV64I
<1>7. CASE name \in {"slli", "slliw", "srli", "srliw", "srai", "sraiw"}
  BY <1>0, <1>7, Alu64I DEF E!ProcessRV64I
<1>8. CASE name \in {"add", "addw", "sub", "subw", "slt", "sltu", "xor", "or", "and"}
  BY <1>0, <1>8, Alu64I DEF E!ProcessRV64I
<1>9. CASE name \in {"ecall", "ebreak", "mret", "sret", "uret", "wfi", "fence", "fence_i", "sfence_vma"}
  BY <1>0, <1>9, PrivPlain DEF E!ProcessRV64I, E!RV64I_PrivOrFence
<1>10. CASE name \in E!Csrs
  BY <1>0, <1>10, CsrPlain, IntegerSources, PlainEffects DEF E!ProcessRV64I, E!RV64I_Csr
<1>11. CASE name \in E!CsrImms
  BY <1>0, <1>11, CsrPlain, IntegerSources, PlainEffects DEF E!ProcessRV64I, E!RV64I_CsrImm
<1>12. CASE e = E!Error /\ name \notin Integers64
  BY <1>12, PlainEffects DEF Accesses
<1> QED
  BY <1>1, <1>2, <1>3, <1>4, <1>5, <1>6, <1>7, <1>8, <1>9, <1>10, <1>11, <1>12
     DEF E!ProcessRV64I, Integers32, Integers64

-----------------------------------------------------------------------------
(* Multiplication and division, atomic operations *)

\* The names the handlers of RV32A and RV64A take.
Atomics32 == {"lr_w", "sc_w"} \cup DOMAIN E!AmoFunctions32
Atomics64 == Atomics32 \cup {"lr_d", "sc_d"} \cup DOMAIN E!AmoFunctions64

LEMMA ProcessM ==
  ASSUME NEW name, NEW o
  PROVE  /\ LET e == E!ProcessRV32M(name, o) IN
            IntegerEffect(e) /\ e.access = {} /\ (name \in E!MulDivs32 => e.handled)
         /\ LET e == E!ProcessRV64M(name, o) IN
            IntegerEffect(e) /\ e.access = {} /\ (name \in E!MulDivs64 => e.handled)
BY PlainEffects, IntegerSources, IntegerValues DEF E!ProcessRV32M, E!ProcessRV64M, Plain

\* Every access has its check among those.
AreChecked(e, checks) == \A a \in e.access : E!Check(a.kind, a.base, a.offset) \in checks

LEMMA AtomicHandlers ==
  ASSUME NEW o, NEW size
  PROVE  /\ LET e == E!LoadAndReserve(o, size) IN
            IntegerEffect(e) /\ e.handled /\ AreChecked(e, {E!Check("Load", E!X(o.rs1), 0)})
         /\ LET e == E!StoreIfReserved(o, size) IN
            IntegerEffect(e) /\ e.handled /\ AreChecked(e, {E!Check("Store", E!X(o.rs1), 0)})
         /\ \A f : LET e == E!Atomic(o, size, f) IN
            /\ IntegerEffect(e) /\ e.handled
            /\ AreChecked(e, {E!Check(kind, E!X(o.rs1), 0) : kind \in {"Load", "Store"}})
<1> USE IntegerSources, IntegerValues DEF IntegerEffect, AreChecked, E!Access
<1>1. LET e == E!LoadAndReserve(o, size) IN
      IntegerEffect(e) /\ e.handled /\ AreChecked(e, {E!Check("Load", E!X(o.rs1), 0)})
  BY DEF E!LoadAndReserve, E!Loading, E!WriteX, E!Idle
<1>2. LET e == E!StoreIfReserved(o, size) IN
      IntegerEffect(e) /\ e.handled /\ AreChecked(e, {E!Check("Store", E!X(o.rs1), 0)})
  BY DEF E!StoreIfReserved, E!Storing, E!Cancelled, E!WriteX, E!Idle
<1>3. \A f : LET e == E!Atomic(o, size, f) IN
      /\ IntegerEffect(e) /\ e.handled
      /\ AreChecked(e, {E!Check(kind, E!X(o.rs1), 0) : kind \in {"Load", "Store"}})
  BY DEF E!Atomic, E!Cancelled, E!WriteX, E!Idle
<1> QED
  BY <1>1, <1>2, <1>3

LEMMA Process32A ==
  ASSUME NEW name, NEW o
  PROVE  LET e == E!ProcessRV32A(name, o) IN
         /\ IntegerEffect(e)
         /\ AreChecked(e, E!PreCheckTrapRV32_Memory(name, o))
         /\ name \in Atomics32 => e.handled
<1> USE AtomicHandlers
    DEF E!ProcessRV32A, E!PreCheckTrapRV32_Memory, E!Loads, E!Stores, E!LoadReserved, E!StoreConditional,
        E!AmoFunctions32
<1>1. CASE name = "lr_w"
  BY <1>1 DEF E!RV32A_Load
<1>2. CASE name = "sc_w"
  BY <1>2 DEF E!RV32A_Store
<1>3. CASE name \in DOMAIN E!AmoFunctions32
  BY <1>3 DEF E!RV32A_Atomic
<1>4. CASE E!ProcessRV32A(name, o) = E!Error /\ name \notin Atomics32
  BY <1>4, PlainEffects DEF AreChecked
<1> QED
  BY <1>1, <1>2, <1>3, <1>4 DEF Atomics32

LEMMA Process64A ==
  ASSUME NEW name, NEW o
  PROVE  LET e == E!ProcessRV64A(name, o) IN
         /\ IntegerEffect(e)
         /\ AreChecked(e, E!PreCheckTrapRV64_Memory(name, o))
         /\ name \in Atomics64 => e.handled
<1> USE AtomicHandlers
    DEF E!ProcessRV64A, E!PreCheckTrapRV64_Memory, E!Loads, E!Stores, E!LoadReserved, E!StoreConditional,
        E!AmoFunctions32, E!AmoFunctions64
<1>1. CASE name = "lr_w"
  BY <1>1 DEF E!RV64A_Load32
<1>2. CASE name = "sc_w"
  BY <1>2 DEF E!RV64A_Store32
<1>3. CASE name = "lr_d"
  BY <1>3 DEF E!RV64A_Load64
<1>4. CASE name = "sc_d"
  BY <1>4 DEF E!RV64A_Store64
<1>5. CASE name \in DOMAIN E!AmoFunctions32
  BY <1>5 DEF E!RV64A_Atomic32
<1>6. CASE name \in DOMAIN E!AmoFunctions64
  BY <1>6 DEF E!RV64A_Atomic64
<1>7. CASE E!ProcessRV64A(name, o) = E!Error /\ name \notin Atomics64
  BY <1>7, PlainEffects DEF AreChecked
<1> QED
  BY <1>1, <1>2, <1>3, <1>4, <1>5, <1>6, <1>7 DEF Atomics32, Atomics64

-----------------------------------------------------------------------------
(* Single precision *)

\* The names the handlers of F take.
Singles ==
  {"flw", "fsw", "fmadd_s", "fmsub_s", "fnmadd_s", "fnmsub_s", "fadd_s", "fsub_s", "fmul_s", "fdiv_s", "fsqrt_s",
   "fmin_s", "fmax_s", "fcvt_s_w", "fcvt_s_wu", "fcvt_s_l", "fcvt_s_lu", "feq_s", "flt_s", "fle_s", "fclass_s",
   "fmv_x_w", "fmv_w_x", "fcvt_w_s", "fcvt_wu_s", "fcvt_l_s", "fcvt_lu_s", "fsgnj_s", "fsgnjn_s", "fsgnjx_s"}

\* A write to a floating-point register marks the state dirty.
MarksDirty(e) == (\E w \in e.writes : w.to.kind = "f") => e.dirty
FpEffect(e) == e.handled /\ MarksDirty(e)

LEMMA HandlersF ==
  ASSUME NEW name, NEW o
  PROVE  /\ LET e == E!RVF_MulAdd(name, o) IN FpEffect(e) /\ e.access = {}
         /\ LET e == E!RVF_Compute(name, o) IN FpEffect(e) /\ e.access = {}
         /\ LET e == E!RVF_Compare(name, o) IN FpEffect(e) /\ e.access = {}
         /\ LET e == E!RVF_ClassOrMove(name, o) IN FpEffect(e) /\ e.access = {}
         /\ LET e == E!RVF_ConvertToInt(name, o) IN FpEffect(e) /\ e.access = {}
         /\ LET e == E!RVF_ConvertSign(name, o) IN FpEffect(e) /\ e.access = {}
<1> USE DEF FpEffect, MarksDirty, E!UpdateFpCsr, E!NotifyFpDirty, E!WriteF, E!WriteX, E!F, E!X, E!Imm, E!Idle
<1>1. LET e == E!RVF_ClassOrMove(name, o) IN FpEffect(e) /\ e.access = {}
  BY DEF E!RVF_ClassOrMove
<1>2. LET e == E!RVF_Compute(name, o) IN FpEffect(e) /\ e.access = {}
  BY DEF E!RVF_Compute
<1> QED
  BY <1>1, <1>2 DEF E!RVF_MulAdd, E!RVF_Compare, E!RVF_ConvertToInt, E!RVF_ConvertSign

LEMMA MemoryF ==
  ASSUME NEW o, NEW x
  PROVE  /\ LET e == IF x = 32 THEN E!RV32F_Load(o) ELSE E!RV64F_Load(o) IN FpEffect(e) /\ Accesses("flw", o, e)
         /\ LET e == IF x = 32 THEN E!RV32F_Store(o) ELSE E!RV64F_Store(o) IN FpEffect(e) /\ Accesses("fsw", o, e)
BY DEF FpEffect, MarksDirty, Accesses, E!RV32F_Load, E!RV64F_Load, E!RV32F_Store, E!RV64F_Store,
       E!NotifyFpDirty, E!Loading, E!Storing, E!WriteF, E!Idle, E!Access, E!Loads, E!Stores

LEMMA ProcessF ==
  ASSUME NEW x, NEW name, NEW o
  PROVE  LET e == E!ProcessRVF(x, name, o) IN
         Accesses(name, o, e) /\ MarksDirty(e) /\ (name \in Singles => e.handled)
<1> DEFINE Good(e) == FpEffect(e) /\ Accesses(name, o, e)
           found == E!ProcessRVF(x, name, o)
<1>0. \A e : Good(e) => Good(E!Cancelled(e))
  BY DEF FpEffect, MarksDirty, Accesses, E!Cancelled
<1>a. \A e : FpEffect(e) /\ e.access = {} => Good(e)
  BY DEF Accesses
<1>e. LET e == E!Cancelled(E!Error) IN Accesses(name, o, e) /\ MarksDirty(e)
  BY DEF E!Error, E!Idle, E!Cancelled, Accesses, MarksDirty
<1> HIDE DEF Good
<1>1. CASE name = "flw"
  <2>1. Good(found)
    BY <1>0, <1>1, MemoryF DEF Good, E!ProcessRVF
  <2> QED BY <2>1 DEF Good, FpEffect
<1>2. CASE name = "fsw"
  <2>1. Good(found)
    BY <1>0, <1>2, MemoryF DEF Good, E!ProcessRVF
  <2> QED BY <2>1 DEF Good, FpEffect
<1>3. CASE name \in {"fmadd_s", "fmsub_s", "fnmadd_s", "fnmsub_s"}
  <2>1. Good(found)
    BY <1>0, <1>3, <1>a, HandlersF DEF E!ProcessRVF
  <2> QED BY <2>1 DEF Good, FpEffect
<1>4. CASE name \in {"fadd_s", "fsub_s", "fmul_s", "fdiv_s", "fsqrt_s", "fmin_s", "fmax_s",
                    "fcvt_s_w", "fcvt_s_wu", "fcvt_s_l", "fcvt_s_lu"}
  <2>1. Good(found)
    BY <1>0, <1>4, <1>a, HandlersF DEF E!ProcessRVF
  <2> QED BY <2>1 DEF Good, FpEffect
<1>5. CASE name \in {"feq_s", "flt_s", "fle_s"}
  <2>1. Good(found)
    BY <1>0, <1>5, <1>a, HandlersF DEF E!ProcessRVF
  <2> QED BY <2>1 DEF Good, FpEffect
<1>6. CASE name \in {"fclass_s", "fmv_x_w", "fmv_w_x"}
  <2>1. Good(found)
    BY <1>0, <1>6, <1>a, HandlersF DEF E!ProcessRVF
  <2> QED BY <2>1 DEF Good, FpEffect
<1>7. CASE name \in {"fcvt_w_s", "fcvt_wu_s", "fcvt_l_s", "fcvt_lu_s"}
  <2>1. Good(found)
    BY <1>0, <1>7, <1>a, HandlersF DEF E!ProcessRVF
  <2> QED BY <2>1 DEF Good, FpEffect
<1>8. CASE name \in {"fsgnj_s", "fsgnjn_s", "fsgnjx_s"}
  <2>1. Good(found)
    BY <1>0, <1>8, <1>a, HandlersF DEF E!ProcessRVF
  <2> QED BY <2>1 DEF Good, FpEffect
<1>9. CASE found = E!Cancelled(E!Error) /\ name \notin Singles
  BY <1>e, <1>9
<1> QED
  BY <1>1, <1>2, <1>3, <1>4, <1>5, <1>6, <1>7, <1>8, <1>9 DEF E!ProcessRVF, Singles

-----------------------------------------------------------------------------
(* Double precision *)

\* The names the handlers of D take.
Doubles ==
  {"fld", "fsd", "fmadd_d", "fmsub_d", "fnmadd_d", "fnmsub_d", "fadd_d", "fsub_d", "fmul_d", "fdiv_d", "fsqrt_d",
   "fmin_d", "fmax_d", "fcvt_d_w", "fcvt_d_wu", "fcvt_d_l", "fcvt_d_lu", "feq_d", "flt_d", "fle_d", "fclass_d",
   "fmv_x_d", "fmv_d_x", "fcvt_w_d", "fcvt_wu_d", "fcvt_l_d", "fcvt_lu_d", "fsgnj_d", "fsgnjn_d", "fsgnjx_d", "fcvt_s_d", "fcvt_d_s"}

LEMMA HandlersD ==
  ASSUME NEW name, NEW o
  PROVE  /\ LET e == E!RVD_MulAdd(name, o) IN FpEffect(e) /\ e.access = {}
         /\ LET e == E!RVD_Compute(name, o) IN FpEffect(e) /\ e.access = {}
         /\ LET e == E!RVD_Compare(name, o) IN FpEffect(e) /\ e.access = {}
         /\ LET e == E!RVD_ClassOrMove(name, o) IN FpEffect(e) /\ e.access = {}
         /\ LET e == E!RVD_ConvertToInt(name, o) IN FpEffect(e) /\ e.access = {}
         /\ LET e == E!RVD_ConvertWidth(name, o) IN FpEffect(e) /\ e.access = {}
         /\ LET e == E!RVD_ConvertSign(name, o) IN FpEffect(e) /\ e.access = {}
<1> USE DEF FpEffect, MarksDirty, E!UpdateFpCsr, E!NotifyFpDirty, E!WriteF, E!WriteX, E!F, E!X, E!Imm, E!Idle
<1>1. LET e == E!RVD_ClassOrMove(name, o) IN FpEffect(e) /\ e.access = {}
  BY DEF E!RVD_ClassOrMove
<1>2. LET e == E!RVD_Compute(name, o) IN FpEffect(e) /\ e.access = {}
  BY DEF E!RVD_Compute
<1> QED
  BY <1>1, <1>2 DEF E!RVD_MulAdd, E!RVD_Compare, E!RVD_ConvertToInt, E!RVD_ConvertWidth, E!RVD_ConvertSign

LEMMA MemoryD ==
  ASSUME NEW o, NEW x
  PROVE  /\ LET e == IF x = 32 THEN E!RV32D_Load(o) ELSE E!RV64D_Load(o) IN FpEffect(e) /\ Accesses("fld", o, e)
         /\ LET e == IF x = 32 THEN E!RV32D_Store(o) ELSE E!RV64D_Store(o) IN FpEffect(e) /\ Accesses("fsd", o, e)
BY DEF FpEffect, MarksDirty, Accesses, E!RV32D_Load, E!RV64D_Load, E!RV32D_Store, E!RV64D_Store,
       E!NotifyFpDirty, E!Loading, E!Storing, E!WriteF, E!Idle, E!Access, E!Loads, E!Stores

LEMMA ProcessD ==
  ASSUME NEW x, NEW name, NEW o
  PROVE  LET e == E!ProcessRVD(x, name, o) IN
         Accesses(name, o, e) /\ MarksDirty(e) /\ (name \in Doubles => e.handled)
<1> DEFINE Good(e) == FpEffect(e) /\ Accesses(name, o, e)
           found == E!ProcessRVD(x, name, o)
<1>0. \A e : Good(e) => Good(E!Cancelled(e))
  BY DEF FpEffect, MarksDirty, Accesses, E!Cancelled
<1>a. \A e : FpEffect(e) /\ e.access = {} => Good(e)
  BY DEF Accesses
<1>e. LET e == E!Cancelled(E!Error) IN Accesses(name, o, e) /\ MarksDirty(e)
  BY DEF E!Error, E!Idle, E!Cancelled, Accesses, MarksDirty
<1> HIDE DEF Good
<1>1. CASE name = "fld"
  <2>1. Good(found)
    BY <1>0, <1>1, MemoryD DEF Good, E!ProcessRVD
  <2> QED BY <2>1 DEF Good, FpEffect
<1>2. CASE name = "fsd"
  <2>1. Good(found)
    BY <1>0, <1>2, MemoryD DEF Good, E!ProcessRVD
  <2> QED BY <2>1 DEF Good, FpEffect
<1>3. CASE name \in {"fmadd_d", "fmsub_d", "fnmadd_d", "fnmsub_d"}
  <2>1. Good(found)
    BY <1>0, <1>3, <1>a, HandlersD DEF E!ProcessRVD
  <2> QED BY <2>1 DEF Good, FpEffect
<1>4. CASE name \in {"fadd_d", "fsub_d", "fmul_d", "fdiv_d", "fsqrt_d", "fmin_d", "fmax_d",
                    "fcvt_d_w", "fcvt_d_wu", "fcvt_d_l", "fcvt_d_lu"}
  <2>1. Good(found)
    BY <1>0, <1>4, <1>a, HandlersD DEF E!ProcessRVD
  <2> QED BY <2>1 DEF Good, FpEffect
<1>5. CASE name \in {"feq_d", "flt_d", "fle_d"}
  <2>1. Good(found)
    BY <1>0, <1>5, <1>a, HandlersD DEF E!ProcessRVD
  <2> QED BY <2>1 DEF Good, FpEffect
<1>6. CASE name \in {"fclass_d", "fmv_x_d", "fmv_d_x"}
  <2>1. Good(found)
    BY <1>0, <1>6, <1>a, HandlersD DEF E!ProcessRVD
  <2> QED BY <2>1 DEF Good, FpEffect
<1>7. CASE name \in {"fcvt_w_d", "fcvt_wu_d", "fcvt_l_d", "fcvt_lu_d"}
  <2>1. Good(found)
    BY <1>0, <1>7, <1>a, HandlersD DEF E!ProcessRVD
  <2> QED BY <2>1 DEF Good, FpEffect
<1>8. CASE name \in {"fcvt_s_d", "fcvt_d_s"}
  <2>1. Good(found)
    BY <1>0, <1>8, <1>a, HandlersD DEF E!ProcessRVD
  <2> QED BY <2>1 DEF Good, FpEffect
<1>9. CASE name \in {"fsgnj_d", "fsgnjn_d", "fsgnjx_d"}
  <2>1. Good(found)
    BY <1>0, <1>9, <1>a, HandlersD DEF E!ProcessRVD
  <2> QED BY <2>1 DEF Good, FpEffect
<1>10. CASE found = E!Cancelled(E!Error) /\ name \notin Doubles
  BY <1>e, <1>10
<1> QED
  BY <1>1, <1>2, <1>3, <1>4, <1>5, <1>6, <1>7, <1>8, <1>9, <1>10 DEF E!ProcessRVD, Doubles

-----------------------------------------------------------------------------
(* Compressed *)

\* The names the handlers of RV32C and RV64C take: c.ebreak is not among them.
CompressedBoth ==
  {"c_nop", "c_mv", "c_add", "c_sub", "c_and", "c_or", "c_xor", "c_li", "c_lui", "c_addi", "c_andi", "c_srli", "c_srai",
   "c_slli", "c_beqz", "c_bnez", "c_addi4spn", "c_addi16sp", "c_fld", "c_fldsp", "c_fsd", "c_fsdsp",
   "c_j", "c_jr", "c_jalr", "c_lw", "c_lwsp", "c_sw", "c_swsp"}
Compressed32 == CompressedBoth \cup {"c_flw", "c_flwsp", "c_fsw", "c_fswsp", "c_jal"}
Compressed64 == CompressedBoth \cup {"c_addw", "c_subw", "c_addiw", "c_ld", "c_ldsp", "c_sd", "c_sdsp"}

Still(e) == e.handled /\ e.access = {}

LEMMA StillC ==
  ASSUME NEW name, NEW o
  PROVE  /\ Still(E!Idle) /\ Still(E!AluC(name, o)) /\ Still(E!AluImmC(name, o)) /\ Still(E!BranchC(name, o))
         /\ Still(E!JumpC(o)) /\ Still(E!JumpRegisterC(o)) /\ Still(E!RV32C_AddSp(o)) /\ Still(E!RV64C_AddSp(o))
         /\ \A e : Still(e) => Still(E!WriteLinkRegister(e)) /\ Still(E!Cancelled(e))
<1>1. \A rd, v : Still(E!WriteX(rd, v))
  BY DEF Still, E!WriteX, E!Idle
<1>2. Still(E!Idle) /\ Still(E!BranchC(name, o)) /\ Still(E!JumpC(o)) /\ Still(E!JumpRegisterC(o))
  BY DEF Still, E!Idle, E!BranchC, E!JumpC, E!JumpRegisterC
<1>3. \A e : Still(e) => Still(E!WriteLinkRegister(e)) /\ Still(E!Cancelled(e))
  BY DEF Still, E!WriteLinkRegister, E!Cancelled
<1> QED
  BY <1>1, <1>2, <1>3 DEF E!AluC, E!AluImmC, E!RV32C_AddSp, E!RV64C_AddSp

\* A handler of a load or a store makes one access, at its base.
LEMMA MemoryC ==
  ASSUME NEW o, NEW base, NEW size
  PROVE  /\ LET e == E!LoadC(o, base, size) IN e.handled /\ AreChecked(e, {E!Check("Load", base, o.imm)})
         /\ LET e == E!LoadFpC(o, base, size) IN e.handled /\ AreChecked(e, {E!Check("Load", base, o.imm)})
         /\ LET e == E!StoreC(o, base, size) IN e.handled /\ AreChecked(e, {E!Check("Store", base, o.imm)})
         /\ LET e == E!StoreFpC(o, base, size) IN e.handled /\ AreChecked(e, {E!Check("Store", base, o.imm)})
BY DEF AreChecked, E!LoadC, E!LoadFpC, E!StoreC, E!StoreFpC, E!Loading, E!Storing, E!Cancelled, E!WriteX, E!WriteF,
       E!Idle, E!Access

LEMMA Process32C ==
  ASSUME NEW i
  PROVE  LET e == E!ProcessRV32C(i.name, i.operand) IN
         AreChecked(e, E!PreCheckTrapRV32C(i).memory) /\ (i.name \in Compressed32 => e.handled)
<1> DEFINE name == i.name
           o == i.operand
           found == E!ProcessRV32C(name, o)
<1>a. ASSUME Still(found) PROVE AreChecked(found, E!PreCheckTrapRV32C(i).memory) /\ found.handled
  BY <1>a DEF Still, AreChecked
<1>m. ASSUME NEW m, E!PreCheckTrapRV32C(i) = E!Checks({m})
      PROVE  E!PreCheckTrapRV32C(i).memory = {m}
  BY <1>m DEF E!Checks, E!NoCheck
<1>c. \A e, checks : AreChecked(e, checks) /\ e.handled => AreChecked(E!Cancelled(e), checks) /\ E!Cancelled(e).handled
  BY DEF AreChecked, E!Cancelled
<1>1. CASE name = "c_nop"
  BY <1>a, <1>1, StillC DEF E!ProcessRV32C
<1>2. CASE name \in {"c_mv", "c_add", "c_sub", "c_and", "c_or", "c_xor"}
  BY <1>a, <1>2, StillC DEF E!ProcessRV32C, E!RV32C_Alu
<1>3. CASE name \in {"c_li", "c_lui", "c_addi", "c_andi", "c_srli", "c_srai", "c_slli"}
  BY <1>a, <1>3, StillC DEF E!ProcessRV32C, E!RV32C_AluImm
<1>4. CASE name \in {"c_beqz", "c_bnez"}
  BY <1>a, <1>4, StillC DEF E!ProcessRV32C, E!RV32C_Branch
<1>5. CASE name \in {"c_addi4spn", "c_addi16sp"}
  BY <1>a, <1>5, StillC DEF E!ProcessRV32C
<1>6. CASE name \in {"c_j", "c_jal", "c_jr", "c_jalr"}
  BY <1>a, <1>6, StillC DEF E!ProcessRV32C, E!RV32C_Jump
<1>7. CASE name \in {"c_fld", "c_fldsp", "c_flw", "c_flwsp"}
  <2>1. AreChecked(E!RV32C_LoadFp(name, o), {E!PreCheckTrapRV32C_Memory(name, o)}) /\ E!RV32C_LoadFp(name, o).handled
    BY <1>7, MemoryC DEF E!RV32C_LoadFp, E!PreCheckTrapRV32C_Memory
  <2>2. E!PreCheckTrapRV32C(i).memory = {E!PreCheckTrapRV32C_Memory(name, o)}
    BY <1>7, <1>m DEF E!PreCheckTrapRV32C
  <2>3. found = E!Cancelled(E!RV32C_LoadFp(name, o))
    BY <1>7 DEF E!ProcessRV32C
  <2> QED
    BY <2>1, <2>2, <2>3, <1>c
<1>8. CASE name \in {"c_lw", "c_lwsp", "c_sw", "c_swsp"}
  <2>1. AreChecked(E!RV32C_LoadStore(name, o), {E!PreCheckTrapRV32C_Memory(name, o)}) /\ E!RV32C_LoadStore(name, o).handled
    BY <1>8, MemoryC DEF E!RV32C_LoadStore, E!PreCheckTrapRV32C_Memory
  <2>2. E!PreCheckTrapRV32C(i).memory = {E!PreCheckTrapRV32C_Memory(name, o)}
    BY <1>8, <1>m DEF E!PreCheckTrapRV32C
  <2>3. found = E!Cancelled(E!RV32C_LoadStore(name, o))
    BY <1>8 DEF E!ProcessRV32C
  <2> QED
    BY <2>1, <2>2, <2>3, <1>c
<1>9. CASE name \in {"c_fsd", "c_fsdsp", "c_fsw", "c_fswsp"}
  <2>1. AreChecked(E!RV32C_StoreFp(name, o), {E!PreCheckTrapRV32C_Memory(name, o)}) /\ E!RV32C_StoreFp(name, o).handled
    BY <1>9, MemoryC DEF E!RV32C_StoreFp, E!PreCheckTrapRV32C_Memory
  <2>2. E!PreCheckTrapRV32C(i).memory = {E!PreCheckTrapRV32C_Memory(name, o)}
    BY <1>9, <1>m DEF E!PreCheckTrapRV32C
  <2>3. found = E!Cancelled(E!RV32C_StoreFp(name, o))
    BY <1>9 DEF E!ProcessRV32C
  <2> QED
    BY <2>1, <2>2, <2>3, <1>c
<1>10. CASE found = E!Cancelled(E!Error) /\ name \notin Compressed32
  BY <1>10 DEF AreChecked, E!Error, E!Cancelled, E!Idle
<1> QED
  BY <1>1, <1>2, <1>3, <1>4, <1>5, <1>6, <1>7, <1>8, <1>9, <1>10 DEF E!ProcessRV32C, CompressedBoth, Compressed32

LEMMA Process64C ==
  ASSUME NEW i
  PROVE  LET e == E!ProcessRV64C(i.name, i.operand) IN
         AreChecked(e, E!PreCheckTrapRV64C(i).memory) /\ (i.name \in Compressed64 => e.handled)
<1> DEFINE name == i.name
           o == i.operand
           found == E!ProcessRV64C(name, o)
<1>a. ASSUME Still(found) PROVE AreChecked(found, E!PreCheckTrapRV64C(i).memory) /\ found.handled
  BY <1>a DEF Still, AreChecked
<1>m. ASSUME NEW m, E!PreCheckTrapRV64C(i) = E!Checks({m})
      PROVE  E!PreCheckTrapRV64C(i).memory = {m}
  BY <1>m DEF E!Checks, E!NoCheck
<1>1. CASE name = "c_nop"
  BY <1>a, <1>1, StillC DEF E!ProcessRV64C
<1>2. CASE name \in {"c_mv", "c_add", "c_addw", "c_subw", "c_sub", "c_and", "c_or", "c_xor"}
  BY <1>a, <1>2, StillC DEF E!ProcessRV64C, E!RV64C_Alu
<1>3. CASE name \in {"c_li", "c_lui", "c_addi", "c_addiw", "c_andi", "c_srli", "c_srai", "c_slli"}
  BY <1>a, <1>3, StillC DEF E!ProcessRV64C, E!RV64C_AluImm
<1>4. CASE name \in {"c_beqz", "c_bnez"}
  BY <1>a, <1>4, StillC DEF E!ProcessRV64C, E!RV64C_Branch
<1>5. CASE name \in {"c_addi4spn", "c_addi16sp"}
  BY <1>a, <1>5, StillC DEF E!ProcessRV64C
<1>6. CASE name \in {"c_j", "c_jr", "c_jalr"}
  BY <1>a, <1>6, StillC DEF E!ProcessRV64C, E!RV64C_Jump
<1>7. CASE name \in {"c_fld", "c_fldsp", "c_fsd", "c_fsdsp"}
  <2>1. AreChecked(E!RV64C_Fp(name, o), {E!PreCheckTrapRV64C_Memory(name, o)}) /\ E!RV64C_Fp(name, o).handled
    BY <1>7, MemoryC DEF E!RV64C_Fp, E!PreCheckTrapRV64C_Memory
  <2>2. E!PreCheckTrapRV64C(i).memory = {E!PreCheckTrapRV64C_Memory(name, o)}
    BY <1>7, <1>m DEF E!PreCheckTrapRV64C
  <2>3. found = E!RV64C_Fp(name, o)
    BY <1>7 DEF E!ProcessRV64C
  <2> QED
    BY <2>1, <2>2, <2>3
<1>8. CASE name \in {"c_ld", "c_ldsp", "c_lw", "c_lwsp", "c_sd", "c_sdsp", "c_sw", "c_swsp"}
  <2>1. AreChecked(E!RV64C_LoadStore(name, o), {E!PreCheckTrapRV64C_Memory(name, o)}) /\ E!RV64C_LoadStore(name, o).handled
    BY <1>8, MemoryC DEF E!RV64C_LoadStore, E!PreCheckTrapRV64C_Memory
  <2>2. E!PreCheckTrapRV64C(i).memory = {E!PreCheckTrapRV64C_Memory(name, o)}
    BY <1>8, <1>m DEF E!PreCheckTrapRV64C
  <2>3. found = E!RV64C_LoadStore(name, o)
    BY <1>8 DEF E!ProcessRV64C
  <2> QED
    BY <2>1, <2>2, <2>3
<1>9. CASE found = E!Error /\ name \notin Compressed64
  BY <1>9 DEF AreChecked, E!Error, E!Cancelled, E!Idle
<1> QED
  BY <1>1, <1>2, <1>3, <1>4, <1>5, <1>6, <1>7, <1>8, <1>9 DEF E!ProcessRV64C, CompressedBoth, Compressed64

-----------------------------------------------------------------------------
(* The executor *)

Classes == {"I", "M", "A", "F", "D", "C"}
Names(x, class) ==
  CASE class = "I" -> IF x = 32 THEN Integers32 ELSE Integers64
    [] class = "M" -> IF x = 32 THEN E!MulDivs32 ELSE E!MulDivs64
    [] class = "A" -> IF x = 32 THEN Atomics32 ELSE Atomics64
    [] class = "F" -> Singles
    [] class = "D" -> Doubles
    [] class = "C" -> IF x = 32 THEN Compressed32 ELSE Compressed64

\* The instructions whose own check is not of the memory.
Supervises(name) == name \in E!Csrs \cup E!CsrImms \cup {"wfi", "sfence_vma", "mret", "sret", "uret"}

\* Accepted, but without a handler.
Unhandled(x) == {"c_ebreak"} \cup (IF x = 32 THEN {"c_subw", "c_addw"} ELSE {})

\* An operation the decoder may come to.
KnownOp(x, i) ==
  /\ i.class \in Classes
  /\ i.name \in Names(x, i.class) \/ (i.class = "C" /\ i.name \in Unhandled(x))

LEMMA OneClassSupervises ==
  ASSUME NEW x, NEW i, KnownOp(x, i), i.class # "I"
  PROVE  ~Supervises(i.name)
<1> USE DEF KnownOp, Supervises, E!Csrs, E!CsrImms, Names
<1>1. CASE i.class = "M"
  BY <1>1 DEF E!MulDivs32, E!MulDivs64
<1>2. CASE i.class = "A"
  BY <1>2 DEF Atomics32, Atomics64, E!AmoFunctions32, E!AmoFunctions64
<1>3. CASE i.class = "F"
  BY <1>3 DEF Singles
<1>4. CASE i.class = "D"
  BY <1>4 DEF Doubles
<1>5. CASE i.class = "C"
  BY <1>5 DEF CompressedBoth, Compressed32, Compressed64, Unhandled
<1> QED
  BY <1>1, <1>2, <1>3, <1>4, <1>5 DEF Classes

\* What is checked of the memory, by class.
LEMMA MemoryChecked ==
  ASSUME NEW x, NEW i, ~Supervises(i.name) \/ i.class = "I"
  PROVE  /\ i.class = "C" /\ x = 32 => E!PreCheckTrap(x, i) = E!PreCheckTrapRV32C(i)
         /\ i.class = "C" /\ x # 32 => E!PreCheckTrap(x, i) = E!PreCheckTrapRV64C(i)
         /\ i.class = "A" => E!PreCheckTrap(x, i).memory = IF x = 32 THEN E!PreCheckTrapRV32_Memory(i.name, i.operand)
                                                           ELSE E!PreCheckTrapRV64_Memory(i.name, i.operand)
         /\ i.class \in {"I", "F", "D"} /\ i.name \in E!Loads =>
              E!Check("Load", E!X(i.operand.rs1), i.operand.imm) \in E!PreCheckTrap(x, i).memory
         /\ i.class \in {"I", "F", "D"} /\ i.name \in E!Stores =>
              E!Check("Store", E!X(i.operand.rs1), i.operand.imm) \in E!PreCheckTrap(x, i).memory
         /\ i.class \in {"F", "D"} => E!PreCheckTrap(x, i).fp
<1> DEFINE listed == IF x = 32 THEN E!PreCheckTrapRV32_Memory(i.name, i.operand) ELSE E!PreCheckTrapRV64_Memory(i.name, i.operand)
           checked == IF i.name \in E!Loads \cup E!Stores \/ i.class = "A" THEN E!Checks(listed) ELSE E!NoCheck
<1>1. i.class \in {"I", "A", "F", "D"} => E!PreCheckTrap(x, i).memory = checked.memory
  BY DEF E!PreCheckTrap, E!Checks, E!NoCheck
<1>2. i.class \in {"F", "D"} => E!PreCheckTrap(x, i).fp
  BY DEF E!PreCheckTrap, E!Checks, E!NoCheck, Supervises
<1>3. i.name \in E!Loads \cup E!Stores \/ i.class = "A" => checked.memory = listed
  BY DEF E!Checks, E!NoCheck
<1>4. i.name \in E!Loads => listed = {E!Check("Load", E!X(i.operand.rs1), i.operand.imm)}
  BY DEF E!PreCheckTrapRV32_Memory, E!PreCheckTrapRV64_Memory, E!Loads, E!Stores, E!LoadReserved, E!StoreConditional
<1>5. i.name \in E!Stores => listed = {E!Check("Store", E!X(i.operand.rs1), i.operand.imm)}
  BY DEF E!PreCheckTrapRV32_Memory, E!PreCheckTrapRV64_Memory, E!Loads, E!Stores, E!LoadReserved, E!StoreConditional
<1>6. /\ i.class = "C" /\ x = 32 => E!PreCheckTrap(x, i) = E!PreCheckTrapRV32C(i)
      /\ i.class = "C" /\ x # 32 => E!PreCheckTrap(x, i) = E!PreCheckTrapRV64C(i)
  BY DEF E!PreCheckTrap, Supervises
<1> HIDE DEF listed, checked
<1> QED
  BY <1>1, <1>2, <1>3, <1>4, <1>5, <1>6 DEF listed

\* Every access of every handler is checked before it.
LEMMA ExecutorChecks ==
  ASSUME NEW x \in Xlens, NEW i, KnownOp(x, i)
  PROVE  AreChecked(E!ProcessOp(x, i), E!PreCheckTrap(x, i).memory)
<1> DEFINE e == E!ProcessOp(x, i)
<1> USE OneClassSupervises
<1>0. ASSUME i.class \in {"I", "F", "D"}, Accesses(i.name, i.operand, e) PROVE AreChecked(e, E!PreCheckTrap(x, i).memory)
  BY <1>0, MemoryChecked DEF Accesses, AreChecked
<1>1. CASE i.class = "I"
  BY <1>0, <1>1, Process32I, Process64I DEF E!ProcessOp
<1>2. CASE i.class = "M"
  BY <1>2, ProcessM DEF E!ProcessOp, AreChecked
<1>3. CASE i.class = "A"
  BY <1>3, Process32A, Process64A, MemoryChecked DEF E!ProcessOp
<1>4. CASE i.class = "F"
  BY <1>0, <1>4, ProcessF DEF E!ProcessOp
<1>5. CASE i.class = "D"
  BY <1>0, <1>5, ProcessD DEF E!ProcessOp
<1>6. CASE i.class = "C"
  BY <1>6, Process32C, Process64C, MemoryChecked DEF E!ProcessOp
<1> QED
  BY <1>1, <1>2, <1>3, <1>4, <1>5, <1>6 DEF Classes, KnownOp

\* No handler touches the floating-point state without the check, or writes its registers unmarked.
LEMMA ExecutorGuards ==
  ASSUME NEW x \in Xlens, NEW i, KnownOp(x, i), i.class # "C"
  PROVE  LET e == E!ProcessOp(x, i) IN
         /\ (e.flags \/ \E r \in Registers(e) : r.kind = "f") => E!PreCheckTrap(x, i).fp
         /\ MarksDirty(e)
<1> DEFINE e == E!ProcessOp(x, i)
<1>1. CASE i.class \in {"I", "M", "A"}
  <2>1. IntegerEffect(e)
    BY <1>1, Process32I, Process64I, ProcessM, Process32A, Process64A DEF E!ProcessOp
  <2> QED
    BY <2>1, IntegerRegisters DEF IntegerEffect, MarksDirty
<1>2. CASE i.class \in {"F", "D"}
  BY <1>2, ProcessF, ProcessD, MemoryChecked, OneClassSupervises DEF E!ProcessOp
<1> QED
  BY <1>1, <1>2 DEF Classes, KnownOp

\* Every name of a class has a handler.
LEMMA ExecutorHandles ==
  ASSUME NEW x \in Xlens, NEW i, i.class \in Classes, i.name \in Names(x, i.class)
  PROVE  E!ProcessOp(x, i).handled
BY Process32I, Process64I, ProcessM, Process32A, Process64A, ProcessF, ProcessD, Process32C, Process64C
   DEF E!ProcessOp, Names, Classes

-----------------------------------------------------------------------------
(* The decoder *)

Known(class, names, decoded) == decoded.class = class /\ decoded.name \in names \cup {"unknown"}

LEMMA DecodesJumpOrMemory ==
  ASSUME NEW x \in Xlens, NEW w \in Fulls
  PROVE  /\ Known("I", {"jalr"}, D!Jalr(w))
         /\ Known("I", {"beq", "bne", "blt", "bge", "bltu", "bgeu"}, D!Branch(w))
         /\ Known("I", {"lb", "lh", "lw", "lbu", "lhu"} \cup (IF x = 32 THEN {} ELSE {"ld", "lwu"}), D!Load(x, w))
         /\ Known("I", {"sb", "sh", "sw"} \cup (IF x = 32 THEN {} ELSE {"sd"}), D!Store(x, w))
BY DEF Known, D!Jalr, D!Branch, D!Load, D!Store, D!Named, D!Op, D!Unknown, D!Nth, Fulls, Xlens

LEMMA DecodesAlu ==
  ASSUME NEW x \in Xlens, NEW w \in Fulls
  PROVE  /\ Known("I", {"addi", "slti", "sltiu", "xori", "ori", "andi", "slli", "srli", "srai"}, D!AluImm(x, w))
         /\ Known("I", {"add", "sub", "sll", "slt", "sltu", "xor", "srl", "sra", "or", "and"}, D!Alu(w))
         /\ Known("I", {"addiw", "slliw", "srliw", "sraiw"}, D!WordImm(w))
         /\ Known("I", {"addw", "subw", "sllw", "srlw", "sraw"}, D!WordAlu(w))
<1> USE DEF Known, D!Named, D!Op, D!Unknown, D!Nth, Fulls, Xlens
<1>1. Known("I", {"slli", "srli", "srai"}, D!ShiftImm(x, w))
  BY DEF D!ShiftImm
<1>2. Known("I", {"addi", "slti", "sltiu", "xori", "ori", "andi", "slli", "srli", "srai"}, D!AluImm(x, w))
  <2>1. CASE w.funct3 \in {1, 5}
    BY <1>1, <2>1 DEF D!AluImm
  <2>2. CASE w.funct3 \notin {1, 5}
    <3>1. D!Nth(<<"addi", "unknown", "slti", "sltiu", "xori", "unknown", "ori", "andi">>, w.funct3)
            \in {"addi", "slti", "sltiu", "xori", "ori", "andi"}
      BY <2>2
    <3> QED
      BY <2>2, <3>1 DEF D!AluImm
  <2> QED
    BY <2>1, <2>2
<1>3. Known("I", {"add", "sub", "sll", "slt", "sltu", "xor", "srl", "sra", "or", "and"}, D!Alu(w))
  BY DEF D!Alu
<1>4. Known("I", {"addiw", "slliw", "srliw", "sraiw"}, D!WordImm(w))
  BY DEF D!WordImm
<1>5. Known("I", {"addw", "subw", "sllw", "srlw", "sraw"}, D!WordAlu(w))
  BY DEF D!WordAlu
<1> QED
  BY <1>2, <1>3, <1>4, <1>5

LEMMA DecodesSystem ==
  ASSUME NEW w \in Fulls
  PROVE  /\ Known("I", {"fence", "fence_i"}, D!Fence(w))
         /\ Known("I", {"ecall", "ebreak", "mret", "sret", "uret", "wfi", "sfence_vma"} \cup E!Csrs \cup E!CsrImms,
                  D!System(w))
<1> USE DEF Known, D!Named, D!Op, D!Unknown, D!Nth, Fulls
<1>1. Known("I", {"fence", "fence_i"}, D!Fence(w))
  BY DEF D!Fence
<1>2. Known("I", {"ecall", "ebreak", "mret", "sret", "uret", "wfi", "sfence_vma"}, D!Priv(w))
  BY DEF D!Priv
<1>3. Known("I", {"ecall", "ebreak", "mret", "sret", "uret", "wfi", "sfence_vma"} \cup E!Csrs \cup E!CsrImms, D!System(w))
  <2>1. CASE w.funct3 \in {0, 4}
    BY <1>2, <2>1 DEF D!System
  <2>2. CASE w.funct3 \in 1 .. 3
    <3>1. D!Nth(<<"csrrw", "csrrs", "csrrc">>, w.funct3 - 1) \in E!Csrs
      BY <2>2 DEF E!Csrs
    <3> QED
      BY <2>2, <3>1 DEF D!System
  <2>3. CASE w.funct3 \in 5 .. 7
    <3>1. D!Nth(<<"csrrwi", "csrrsi", "csrrci">>, w.funct3 - 5) \in E!CsrImms
      BY <2>3 DEF E!CsrImms
    <3> QED
      BY <2>3, <3>1 DEF D!System
  <2> QED
    BY <2>1, <2>2, <2>3
<1> QED
  BY <1>1, <1>3

LEMMA DecodesI ==
  ASSUME NEW x \in Xlens, NEW w \in Fulls
  PROVE  Known("I", IF x = 32 THEN Integers32 ELSE Integers64, D!DecodeI(x, w))
<1> DEFINE names == IF x = 32 THEN Integers32 ELSE Integers64
<1>1. /\ Known("I", names, D!Jalr(w)) /\ Known("I", names, D!Branch(w))
      /\ Known("I", names, D!Load(x, w)) /\ Known("I", names, D!Store(x, w))
  BY DecodesJumpOrMemory DEF Known, Integers32, Integers64
<1>2. Known("I", names, D!AluImm(x, w)) /\ Known("I", names, D!Alu(w))
  BY DecodesAlu DEF Known, Integers32, Integers64
<1>3. x = 64 => Known("I", names, D!WordImm(w)) /\ Known("I", names, D!WordAlu(w))
  BY DecodesAlu DEF Known, Integers64
<1>4. Known("I", names, D!Fence(w)) /\ Known("I", names, D!System(w))
  BY DecodesSystem DEF Known, Integers32, Integers64
<1>5. /\ Known("I", names, D!Op("I", "lui", D!OperandU(w))) /\ Known("I", names, D!Op("I", "auipc", D!OperandU(w)))
      /\ Known("I", names, D!Op("I", "jal", D!OperandJ(w))) /\ Known("I", names, D!Unknown("I"))
  BY DEF Known, D!Op, D!Unknown, Integers32, Integers64
<1> HIDE DEF names
<1> QED
  BY <1>1, <1>2, <1>3, <1>4, <1>5 DEF D!DecodeI, names

LEMMA DecodesM ==
  ASSUME NEW x \in Xlens, NEW w \in Fulls
  PROVE  Known("M", IF x = 32 THEN E!MulDivs32 ELSE E!MulDivs64, D!DecodeM(x, w))
BY DEF Known, D!DecodeM, D!Op, D!Nth, Fulls, Xlens, E!MulDivs32, E!MulDivs64

LEMMA DecodesA ==
  ASSUME NEW x \in Xlens, NEW w \in Fulls
  PROVE  Known("A", IF x = 32 THEN Atomics32 ELSE Atomics64, D!DecodeA(x, w))
<1>1. D!Funct5(w) \in 0 .. 31
  BY DEF D!Funct5, Fulls
<1>2. D!AmoName(w, D!Amos32) \in Atomics32 \cup {"unknown"}
  BY <1>1 DEF D!AmoName, D!Amos32, D!Nth, Atomics32, E!AmoFunctions32
<1>3. D!AmoName(w, D!Amos64) \in Atomics64 \cup {"unknown"}
  BY <1>1 DEF D!AmoName, D!Amos64, D!Nth, Atomics64, E!AmoFunctions64
<1> QED
  BY <1>2, <1>3 DEF Known, D!DecodeA, D!Named, D!Op, D!Unknown, Xlens, Atomics64

LEMMA DecodesFused ==
  ASSUME NEW w \in Fulls, w.opcode \in D!FusedOpcodes, NEW a, NEW b, NEW c, NEW d
  PROVE  D!FusedName(w, <<a, b, c, d>>) \in {a, b, c, d}
BY DEF D!FusedName, D!FusedOpcodes, D!Nth

LEMMA DecodesF ==
  ASSUME NEW x \in Xlens, NEW w \in Fulls
  PROVE  Known("F", Singles, D!DecodeF(x, w))
<1>1. D!OpF(x, w) \in Singles \cup {"unknown"}
  BY DEF D!OpF, D!ToInt, D!Nth, Singles, Fulls
<1>2. w.opcode \in D!FusedOpcodes => D!FusedName(w, <<"fmadd_s", "fmsub_s", "fnmsub_s", "fnmadd_s">>) \in Singles
  BY DecodesFused DEF Singles
<1>3. "flw" \in Singles /\ "fsw" \in Singles
  BY DEF Singles
<1> QED
  BY <1>1, <1>2, <1>3 DEF Known, D!DecodeF, D!Named, D!Op, D!Unknown

LEMMA DecodesD ==
  ASSUME NEW w \in Fulls
  PROVE  Known("D", Doubles, D!DecodeD(w))
<1>1. D!OpD(w) \in Doubles \cup {"unknown"}
  BY DEF D!OpD, D!Nth, Doubles, Fulls
<1>2. w.opcode \in D!FusedOpcodes => D!FusedName(w, <<"fmadd_d", "fmsub_d", "fnmsub_d", "fnmadd_d">>) \in Doubles
  BY DecodesFused DEF Doubles
<1>3. "fld" \in Doubles /\ "fsd" \in Doubles
  BY DEF Doubles
<1> QED
  BY <1>1, <1>2, <1>3 DEF Known, D!DecodeD, D!Named, D!Op, D!Unknown

LEMMA PickIsNat ==
  ASSUME NEW w \in Nat
  PROVE  /\ D!Pick(w, 10, 2) \in 0 .. 3 /\ D!Pick(w, 5, 2) \in 0 .. 3 /\ D!Bit(w, 12) \in 0 .. 1
BY DEF D!Pick, D!Bit

LEMMA DecodesC ==
  ASSUME NEW x \in Xlens, NEW w \in Compresseds
  PROVE  Known("C", (IF x = 32 THEN Compressed32 ELSE Compressed64) \cup Unhandled(x), D!DecodeC(x, w))
<1> DEFINE names == (IF x = 32 THEN Compressed32 ELSE Compressed64) \cup Unhandled(x)
<1>1. Known("C", names, D!Quadrant0(x, w))
  BY DEF Known, D!Quadrant0, D!Op, D!Unknown, CompressedBoth, Compressed32, Compressed64
<1>2. Known("C", names, D!AluC(w))
  <2> DEFINE kind == D!Pick(w, 10, 2)
             which == D!Bit(w, 12) * 4 + D!Pick(w, 5, 2)
  <2>0. w \in Nat
    BY DEF Compresseds
  <2>1. kind \in 0 .. 3 /\ which \in 0 .. 7
    BY <2>0, PickIsNat
  <2> HIDE DEF kind, which
  <2>2. kind < 3 => D!Nth(<<"c_srli", "c_srai", "c_andi">>, kind) \in {"c_srli", "c_srai", "c_andi"}
    BY <2>1 DEF D!Nth
  <2>3. D!Nth(<<"c_sub", "c_xor", "c_or", "c_and", "c_subw", "c_addw">>, which)
          \in {"c_sub", "c_xor", "c_or", "c_and", "c_subw", "c_addw", "unknown"}
    BY <2>1 DEF D!Nth
  <2> QED
    BY <2>1, <2>2, <2>3 DEF kind, which, Known, D!AluC, D!Named, D!Op, D!Unknown, CompressedBoth, Compressed32, Compressed64,
                            Unhandled
<1>3. Known("C", names, D!Quadrant1(x, w))
  BY <1>2 DEF Known, D!Quadrant1, D!Op, D!Unknown, CompressedBoth, Compressed32, Compressed64, Xlens
<1>4. Known("C", names, D!RegistersC(w))
  BY DEF Known, D!RegistersC, D!Named, D!Op, D!Unknown, CompressedBoth, Compressed32, Compressed64, Unhandled
<1>5. Known("C", names, D!Quadrant2(x, w))
  BY <1>4 DEF Known, D!Quadrant2, D!Op, D!Unknown, CompressedBoth, Compressed32, Compressed64, Xlens
<1>6. w % 4 \in {0, 1, 2}
  BY DEF Compresseds
<1> HIDE DEF names
<1> QED
  BY <1>1, <1>3, <1>5, <1>6 DEF D!DecodeC, names

-----------------------------------------------------------------------------
(* One cycle *)

Fetched == {Full(word) : word \in FullWords} \cup {Compressed(word) : word \in CompressedWords}

\* What is executed is what the decoder made of the word fetched, and its effect the handler's.
IsaInv ==
  /\ xlen \in Xlens
  /\ Decoded \/ Executed => insn \in Fetched /\ op = Decode(insn) /\ op.name # "unknown"
  /\ Executed => effect = E!ProcessOp(xlen, op)

LEMMA FetchedWords ==
  ASSUME NEW i \in Fetched
  PROVE  \/ i.length = 4 /\ TheFull(i) \in Fulls
         \/ i.length = 2 /\ i.short \in Compresseds
<1>1. ASSUME NEW word \in FullWords, i = Full(word) PROVE i.length = 4 /\ TheFull(i) \in Fulls
  <2>1. i.length = 4 /\ i.full = {word}
    BY <1>1 DEF Full
  <2>2. TheFull(i) \in {word}
    BY <2>1 DEF TheFull
  <2> QED
    BY <2>1, <2>2, WordsAssumption
<1>2. ASSUME NEW word \in CompressedWords, i = Compressed(word) PROVE i.length = 2 /\ i.short \in Compresseds
  BY <1>2, WordsAssumption DEF Compressed
<1> QED
  BY <1>1, <1>2 DEF Fetched

LEMMA DecodesFull ==
  ASSUME NEW x \in Xlens, NEW w \in Fulls, D!Decode(x, w).name # "unknown"
  PROVE  KnownOp(x, D!Decode(x, w)) /\ D!Decode(x, w).class # "C"
BY DecodesI, DecodesM, DecodesA, DecodesF, DecodesD DEF D!Decode, Known, KnownOp, Classes, Names

LEMMA DecodesCompressed ==
  ASSUME NEW x \in Xlens, NEW w \in Compresseds, D!DecodeC(x, w).name # "unknown"
  PROVE  KnownOp(x, D!DecodeC(x, w)) /\ D!DecodeC(x, w).class = "C"
BY DecodesC DEF Known, KnownOp, Classes, Names

LEMMA IsaInvKnown ==
  ASSUME IsaInv, Decoded \/ Executed
  PROVE  KnownOp(xlen, op) /\ (op.class = "C" <=> insn.length = 2)
<1>1. insn \in Fetched /\ op = Decode(insn) /\ op.name # "unknown" /\ xlen \in Xlens
  BY DEF IsaInv
<1>2. CASE insn.length = 4 /\ TheFull(insn) \in Fulls
  BY <1>1, <1>2, DecodesFull DEF Decode
<1>3. CASE insn.length = 2 /\ insn.short \in Compresseds
  BY <1>1, <1>3, DecodesCompressed DEF Decode
<1> QED
  BY <1>1, <1>2, <1>3, FetchedWords

LEMMA IsaInvInit == IsaInit => IsaInv
BY DEF IsaInit, IsaInv, Decoded, Executed

LEMMA IsaInvNext == IsaInv /\ [IsaNext]_isaVars => IsaInv'
<1> SUFFICES ASSUME IsaInv, [IsaNext]_isaVars PROVE IsaInv'
  OBVIOUS
<1> USE DEF IsaInv, Decoded, Executed
<1>0. ASSUME NEW c, Trap(c), UNCHANGED xlen PROVE IsaInv'
  BY <1>0 DEF Trap
<1>1. CASE FetchInsn
  <2>1. PICK i \in Fetched : IF Decode(i).name = "unknown" THEN Trap("IllegalInstruction")
                             ELSE stage' = "decoded" /\ insn' = i /\ op' = Decode(i) /\ UNCHANGED <<effect, cause>>
    BY <1>1 DEF FetchInsn, Fetched
  <2>2. UNCHANGED xlen
    BY <1>1 DEF FetchInsn
  <2>3. CASE Decode(i).name = "unknown"
    BY <1>0, <2>1, <2>2, <2>3
  <2>4. CASE Decode(i).name # "unknown"
    <3>1. stage' = "decoded" /\ insn' = i /\ op' = Decode(i)
      BY <2>1, <2>4
    <3>2. Decode(insn)' = Decode(i)
      BY <2>2, <3>1 DEF Decode
    <3> QED
      BY <2>2, <2>4, <3>1, <3>2 DEF Fetched
  <2> QED
    BY <2>3, <2>4
<1>2. CASE CheckInsn
  BY <1>0, <1>2 DEF CheckInsn
<1>3. CASE ProcessOp
  <2>1. Decode(insn)' = Decode(insn)
    BY <1>3 DEF ProcessOp, Decode
  <2> QED
    BY <1>3, <2>1 DEF ProcessOp, Fetched
<1>4. CASE PostCheckTrap
  <2>1. PICK priv \in {"Machine", "Supervisor", "User"} :
          LET trap == E!PostCheckTrap(op, priv) IN
          IF trap # "none" THEN Trap(trap)
          ELSE stage' = "idle" /\ insn' = NoInsn /\ op' = NoOp /\ effect' = E!Idle /\ cause' = "none"
    BY <1>4 DEF PostCheckTrap
  <2>2. UNCHANGED xlen
    BY <1>4 DEF PostCheckTrap
  <2> QED
    BY <1>0, <2>1, <2>2
<1>5. CASE ProcessException
  BY <1>5 DEF ProcessException
<1>6. CASE UNCHANGED isaVars
  <2>1. Decode(insn)' = Decode(insn)
    BY <1>6 DEF isaVars, Decode
  <2> QED
    BY <1>6, <2>1 DEF isaVars, Fetched
<1> QED
  BY <1>1, <1>2, <1>3, <1>4, <1>5, <1>6 DEF IsaNext

\* Every word runs as what it was decoded to.
LEMMA IsaInvariance == IsaSpec => []IsaInv
BY IsaInvInit, IsaInvNext, PTL DEF IsaSpec

\* Whatever words are fetched, an access an instruction makes was made the
\* question of its check first, at the same address, for the same kind of
\* access (AccessIsChecked): ProcessRV* loads and stores only where
\* PreCheckTrapRV* has called CheckTrap (Executor.cpp).
THEOREM AccessesAreChecked == IsaSpec => []AccessIsChecked
<1>1. IsaInv => AccessIsChecked
  BY IsaInvKnown, ExecutorChecks DEF IsaInv, AccessIsChecked, AreChecked
<1> QED
  BY <1>1, IsaInvariance, PTL

\* Whatever words are fetched, an instruction that reads or writes a
\* floating-point register or the flags was refused with FS off, and one that
\* writes them marks FS dirty (FpIsGuarded): the PreCheckTrapRV32F and D
\* against the ProcessRV* of the same instructions (Executor.cpp).
THEOREM FpStateIsGuarded == IsaSpec => []FpIsGuarded
<1>1. IsaInv => FpIsGuarded
  BY IsaInvKnown, ExecutorGuards DEF IsaInv, FpIsGuarded, MarksDirty
<1> QED
  BY <1>1, IsaInvariance, PTL

\* Whatever words are fetched, what the emulator's decoder names is handled by
\* the executor, except what this configuration has no handler for and the
\* decoder still names (DecodedIsExecuted): the names of Decoder.cpp against
\* the switches of the ProcessRV* (Executor.cpp).
THEOREM DecodedIsHandled == IsaSpec => []DecodedIsExecuted
<1>1. IsaInv => DecodedIsExecuted
  <2> SUFFICES ASSUME IsaInv, Executed PROVE \/ effect.handled
                                             \/ op.name = "c_ebreak"
                                             \/ xlen = 32 /\ op.name \in {"c_subw", "c_addw"}
    BY DEF DecodedIsExecuted
  <2>1. KnownOp(xlen, op) /\ xlen \in Xlens /\ effect = E!ProcessOp(xlen, op)
    BY IsaInvKnown DEF IsaInv
  <2> QED
    BY <2>1, ExecutorHandles DEF KnownOp, Unhandled
<1> QED
  BY <1>1, IsaInvariance, PTL

-----------------------------------------------------------------------------
(* The printers' decoder against the emulator's, for every full word. *)

\* What the decoded operation `a' says of a parameter of the class of its name; Misread of it.
Says(w, o, p) ==
  CASE p = "uimm" -> o.zimm
    [] p = "rm" -> o.funct3
    [] p = "aq" -> (w.funct7 \div 2) % 2
    [] p = "rl" -> w.funct7 % 2
    [] p \in DOMAIN o -> o[p]
    [] OTHER -> 0
Misreads(w, a, p) ==
  \/ p = "imm" /\ a.name \in {"lui", "auipc", "sb", "sh", "sw", "sd"}
  \/ p = "imm" /\ a.name = "jal" /\ (w.funct7 < 64 <=> w.rs1 >= 16)
  \/ p \in {"rs1", "rs2"} /\ a.name \in {"fsw", "fsd"}
  \/ p = "rm" /\ a.class \in {"F", "D"}

\* The arguments are what the parameters, in their order, should be given; the operation has the registers among
\* them, but for those of the fences, which are 0.
Fits(w, a, args, parameters) ==
  /\ DOMAIN args = DOMAIN parameters
  /\ \A n \in DOMAIN args : n \in DOMAIN parameters /\ (args[n] = Says(w, a.operand, parameters[n]) \/ Misreads(w, a, parameters[n]))
  /\ \A n \in DOMAIN parameters :
       parameters[n] \in {"rd", "rs1", "rs2", "rs3"} /\ a.name \notin {"fence", "fence_i"} => parameters[n] \in DOMAIN a.operand
Distinct(parameters) == \A i, j \in DOMAIN parameters : parameters[i] = parameters[j] => i = j

\* One instruction, taken for the same by both.
Same(w, a, b) == b.name = a.name /\ Fits(w, a, b.args, T!ConstructorOf(a.name))

\* A member is the argument its parameter was given.
LEMMA MemberOf ==
  ASSUME NEW parameters, NEW args, NEW n \in DOMAIN parameters, Distinct(parameters)
  PROVE  T!Members(parameters, args)[parameters[n]] = args[n]
<1>1. (CHOOSE i \in DOMAIN parameters : parameters[i] = parameters[n]) = n
  BY DEF Distinct
<1> QED
  BY <1>1 DEF T!Members

LEMMA ConstructorsDistinct ==
  ASSUME NEW parameters \in {T!Jump, T!TwoSources, T!Immediate, T!Shift, T!Three, T!Two, T!NoParameters, T!FenceBits,
                             <<"rs1", "rs2">>, T!CsrRegister, T!CsrImmediate, T!Reserved, T!Ordered, T!Fused,
                             T!Rounded, T!Converted}
  PROVE  Distinct(parameters)
BY DEF Distinct, T!Jump, T!TwoSources, T!Immediate, T!Shift, T!Three, T!Two, T!NoParameters, T!FenceBits,
       T!CsrRegister, T!CsrImmediate, T!Reserved, T!Ordered, T!Fused, T!Rounded, T!Converted

\* What a decoder puts in the place of a parameter, by format.
LEMMA SaysOperand ==
  ASSUME NEW w, NEW o, NEW p
  PROVE  /\ p \notin {"uimm", "rm", "aq", "rl"} /\ p \in DOMAIN o => Says(w, o, p) = o[p]
         /\ p \notin {"uimm", "rm", "aq", "rl"} /\ p \notin DOMAIN o => Says(w, o, p) = 0
         /\ p = "uimm" /\ p \notin DOMAIN o => Says(w, o, p) = o.zimm
         /\ p = "rm" /\ p \notin DOMAIN o => Says(w, o, p) = o.funct3
         /\ p = "aq" /\ p \notin DOMAIN o => Says(w, o, p) = (w.funct7 \div 2) % 2
         /\ p = "rl" /\ p \notin DOMAIN o => Says(w, o, p) = w.funct7 % 2
BY DEF Says

\* The two decoders have their own copies of the fields.
LEMMA SameFields ==
  /\ \A w : D!Funct2(w) = O!Funct2(w) /\ D!Funct5(w) = O!Funct5(w) /\ D!Funct6(w) = O!Funct6(w) /\ D!Funct12(w) = O!Funct12(w)
  /\ \A w : D!BitsI(w) = O!BitsI(w) /\ D!BitsS(w) = O!BitsS(w) /\ D!BitsB(w) = O!BitsB(w) /\ D!BitsJ(w) = O!BitsJ(w)
  /\ \A width, value : D!SignExtend(width, value) = O!SignExtend(width, value)
  /\ \A names, n : D!Nth(names, n) = O!Nth(names, n)
BY DEF D!Funct2, O!Funct2, D!Funct5, O!Funct5, D!Funct6, O!Funct6, D!Funct12, O!Funct12, D!BitsI, O!BitsI, D!BitsS, O!BitsS,
       D!BitsB, O!BitsB, D!BitsJ, O!BitsJ, D!SignExtend, O!SignExtend, D!Bit, O!Bit, D!Pick, O!Pick, D!Nth, O!Nth

LEMMA FitsIntegers ==
  ASSUME NEW w, NEW class, NEW name
  PROVE  /\ Fits(w, D!Op(class, name, D!OperandI(w)), <<w.rd, w.rs1, O!ImmI(w)>>, T!Immediate)
         /\ Fits(w, D!Op(class, name, D!OperandB(w)), <<w.rs1, w.rs2, O!ImmB(w)>>, T!TwoSources)
         /\ Fits(w, D!Op(class, name, D!OperandR(w)), O!Registers(w), T!Three)
         /\ \A width : Fits(w, D!Op(class, name, D!OperandShiftImm(w, width)), <<w.rd, w.rs1, D!Funct12(w) % 2^width>>, T!Shift)
         /\ \A o : Fits(w, D!Op(class, name, o), <<>>, T!NoParameters)
<1>1. Fits(w, D!Op(class, name, D!OperandI(w)), <<w.rd, w.rs1, O!ImmI(w)>>, T!Immediate)
  BY SaysOperand, SameFields DEF Fits, T!Immediate, D!Op, D!OperandI, O!ImmI
<1>2. Fits(w, D!Op(class, name, D!OperandB(w)), <<w.rs1, w.rs2, O!ImmB(w)>>, T!TwoSources)
  BY SaysOperand, SameFields DEF Fits, T!TwoSources, D!Op, D!OperandB, O!ImmB
<1>3. Fits(w, D!Op(class, name, D!OperandR(w)), O!Registers(w), T!Three)
  BY SaysOperand DEF Fits, T!Three, D!Op, D!OperandR, O!Registers
<1>4. \A width : Fits(w, D!Op(class, name, D!OperandShiftImm(w, width)), <<w.rd, w.rs1, D!Funct12(w) % 2^width>>, T!Shift)
  BY SaysOperand DEF Fits, T!Shift, D!Op, D!OperandShiftImm
<1>5. \A o : Fits(w, D!Op(class, name, o), <<>>, T!NoParameters)
  BY DEF Fits, T!NoParameters
<1> QED
  BY <1>1, <1>2, <1>3, <1>4, <1>5

\* The constructor each name has.
LEMMA Constructors ==
  /\ \A name \in {"lui", "auipc", "jal"} : T!ConstructorOf(name) = T!Jump
  /\ \A name \in {"beq", "bne", "blt", "bge", "bltu", "bgeu", "sb", "sh", "sw", "sd", "fsw", "fsd"} :
       T!ConstructorOf(name) = T!TwoSources
  /\ \A name \in {"jalr", "lb", "lh", "lw", "ld", "lbu", "lhu", "lwu", "addi", "slti", "sltiu", "xori", "ori", "andi", "addiw",
                  "fence_i", "flw", "fld"} : T!ConstructorOf(name) = T!Immediate
  /\ \A name \in {"slli", "srli", "srai"} : T!ConstructorOf(name) = T!Shift
  /\ \A name \in {"add", "sub", "sll", "slt", "sltu", "xor", "srl", "sra", "or", "and", "addw", "subw", "sllw", "srlw", "sraw",
                  "mul", "mulh", "mulhsu", "mulhu", "div", "divu", "rem", "remu", "mulw", "divw", "divuw", "remw", "remuw",
                  "fsgnj_s", "fsgnjn_s", "fsgnjx_s", "fmin_s", "fmax_s", "fle_s", "flt_s", "feq_s",
                  "fsgnj_d", "fsgnjn_d", "fsgnjx_d", "fmin_d", "fmax_d", "fle_d", "flt_d", "feq_d"} :
       T!ConstructorOf(name) = T!Three
  /\ \A name \in {"fmv_x_w", "fmv_w_x", "fmv_x_d", "fmv_d_x", "fclass_s", "fclass_d"} : T!ConstructorOf(name) = T!Two
  /\ \A name \in {"ecall", "ebreak", "uret", "sret", "mret", "wfi", "nop"} : T!ConstructorOf(name) = T!NoParameters
  /\ T!ConstructorOf("fence") = T!FenceBits /\ T!ConstructorOf("sfence_vma") = <<"rs1", "rs2">>
  /\ \A name \in {"csrrw", "csrrs", "csrrc"} : T!ConstructorOf(name) = T!CsrRegister
  /\ \A name \in {"csrrwi", "csrrsi", "csrrci"} : T!ConstructorOf(name) = T!CsrImmediate
  /\ \A name \in {"lr_w", "lr_d"} : T!ConstructorOf(name) = T!Reserved
  /\ \A name \in {"sc_w", "amoswap_w", "amoadd_w", "amoxor_w", "amoand_w", "amoor_w", "amomin_w", "amomax_w", "amominu_w",
                  "amomaxu_w", "sc_d", "amoswap_d", "amoadd_d", "amoxor_d", "amoand_d", "amoor_d", "amomin_d", "amomax_d",
                  "amominu_d", "amomaxu_d"} : T!ConstructorOf(name) = T!Ordered
  /\ \A name \in {"fmadd_s", "fmsub_s", "fnmsub_s", "fnmadd_s", "fmadd_d", "fmsub_d", "fnmsub_d", "fnmadd_d"} :
       T!ConstructorOf(name) = T!Fused
  /\ \A name \in {"fadd_s", "fsub_s", "fmul_s", "fdiv_s", "fadd_d", "fsub_d", "fmul_d", "fdiv_d"} :
       T!ConstructorOf(name) = T!Rounded
  /\ \A name \in {"fcvt_w_s", "fcvt_wu_s", "fcvt_l_s", "fcvt_lu_s", "fcvt_s_w", "fcvt_s_wu", "fcvt_s_l", "fcvt_s_lu",
                  "fcvt_s_d", "fcvt_d_s", "fcvt_w_d", "fcvt_wu_d", "fcvt_l_d", "fcvt_lu_d", "fcvt_d_w", "fcvt_d_wu",
                  "fcvt_d_l", "fcvt_d_lu", "fsqrt_s", "fsqrt_d"} : T!ConstructorOf(name) = T!Converted
BY SMTT(60) DEF T!ConstructorOf, T!RV64I_UpperAndJump, T!RV32I_UpperAndJump, T!RV64I_Branch, T!RV32I_Branch, T!RV64I_Store, T!RV32I_Store,
       T!RV64I_Load, T!RV32I_Load, T!RV64I_AluImm, T!RV32I_AluImm, T!RV64I_ShiftImm, T!RV32I_ShiftImm, T!RV64I_Add,
       T!RV64I_Logic, T!RV64M_Classes, T!RV32M_Classes, T!SignNames, T!RV32F_Sign, T!RV32D_Sign, T!CompareNames,
       T!RV32F_Compare, T!RV32D_Compare, T!MoveNames, T!RV64I_Privileged, T!RV32I_Privileged, T!RV64I_Csr, T!RV32I_Csr,
       T!RV64I_CsrImm, T!RV32I_CsrImm, T!RV64A_Amo, T!RV32A_Amo, T!FusedNames, T!RV32F_Fused, T!RV32D_Fused,
       T!ArithmeticNames, T!RV32F_Arithmetic, T!RV32D_Arithmetic, T!RV64F_Conversion, T!RV32F_Conversion,
       T!RV64D_Conversion, T!RV32D_Conversion

\* Two operations with the same name, of a table both decoders have.
LEMMA SameNamed ==
  ASSUME NEW w, NEW class, NEW name, NEW o, NEW args, NEW parameters,
         Fits(w, D!Op(class, name, o), args, parameters),
         name # "unknown" => T!ConstructorOf(name) = parameters
  PROVE  /\ D!Named(class, name, o).name # "unknown" => Same(w, D!Named(class, name, o), O!New(name, args))
         /\ name # "unknown" => Same(w, D!Op(class, name, o), O!Make(name, args))
<1>1. name # "unknown" => Same(w, D!Op(class, name, o), O!Make(name, args))
  BY DEF Same, D!Op, O!Make
<1>2. D!Named(class, name, o).name # "unknown" => D!Named(class, name, o) = D!Op(class, name, o) /\ name # "unknown"
  BY DEF D!Named, D!Unknown, D!Op
<1>3. name # "unknown" => O!New(name, args) = O!Make(name, args)
  BY DEF O!New
<1> QED
  BY <1>1, <1>2, <1>3

\* The bit below the sign of a jump's offset is the sign where the two are equal.
LEMMA JumpSign ==
  ASSUME NEW w \in Fulls, ~(w.funct7 < 64 <=> w.rs1 >= 16)
  PROVE  O!SignExtend(20, O!BitsJ(w)) = D!SignExtend(21, D!BitsJ(w))
<1> DEFINE sign == w.funct7 \div 64
           below == w.rs1 \div 16
           high == (w.rs1 % 16) * 8 + w.funct3
           low == (w.funct7 % 64) * 16 + w.rs2 \div 2
           rest == high * 4096 + (w.rs2 % 2) * 2048 + low * 2
           v == sign * 1048576 + below * 524288 + rest
<1>1. sign \in {0, 1} /\ below \in {0, 1} /\ sign = below
  BY SMT DEF Fulls
<1>2. high \in 0 .. 127 /\ w.rs2 % 2 \in 0 .. 1 /\ low \in 0 .. 1023
  <2>1. w.rs1 % 16 \in 0 .. 15 /\ w.funct3 \in 0 .. 7 /\ w.funct7 % 64 \in 0 .. 63 /\ w.rs2 \div 2 \in 0 .. 15 /\ w.rs2 % 2 \in 0 .. 1
    BY SMT DEF Fulls
  <2> QED
    BY SMT, <2>1
<1>3. D!BitsJ(w) = v
  <2>0. w.rs1 \in Nat /\ w.rs1 <= 31 /\ w.funct3 \in Nat /\ w.rs2 \in Nat /\ w.funct7 \in Nat
    BY SMT DEF Fulls
  <2>1. w.rs1 = 16 * below + (w.rs1 % 16) /\ below \in Nat /\ w.rs1 % 16 \in Nat
    BY SMT, <2>0
  <2>3. w.rs2 % 2 \in Nat /\ low \in Nat /\ sign \in Nat
    BY SMT, <2>0
  <2>2. D!BitsJ(w) = sign * 1048576 + (w.rs1 * 8 + w.funct3) * 4096 + (w.rs2 % 2) * 2048 + low * 2
    BY SMT DEF D!BitsJ
  <2> HIDE DEF sign, below, low
  <2> QED
    BY SMT, <2>0, <2>1, <2>2, <2>3
<1> HIDE DEF sign, below, high, low
<1>4. rest \in Nat /\ rest < 524288
  BY SMT, <1>2
<1> HIDE DEF rest
<1>5. v \div 1048576 = sign /\ v \div 524288 = sign * 2 + below /\ v % 1048576 = below * 524288 + rest /\ v % 524288 = rest
  BY SMT, <1>1, <1>4
<1>6. v \in Nat /\ v = sign * 1048576 + below * 524288 + rest
  BY SMT, <1>1, <1>4
<1> HIDE DEF v
<1>7. D!SignExtend(21, v) = IF sign = 1 THEN below * 524288 + rest - 1048576 ELSE v
  BY SMT, <1>1, <1>5, <1>6 DEF D!SignExtend, D!Bit, D!Pick
<1>8. O!SignExtend(20, v) = IF below = 1 THEN rest - 524288 ELSE v
  BY SMT, <1>1, <1>5, <1>6 DEF O!SignExtend, O!Bit, O!Pick
<1>9. O!SignExtend(20, v) = D!SignExtend(21, v)
  BY SMT, <1>1, <1>4, <1>7, <1>8
<1> QED
  BY <1>3, <1>9, SameFields

LEMMA SameJump ==
  ASSUME NEW w \in Fulls
  PROVE  /\ w.opcode = 103 /\ D!Jalr(w).name # "unknown" => Same(w, D!Jalr(w), O!UpperOrJump(w))
         /\ w.opcode = 55 => Same(w, D!Op("I", "lui", D!OperandU(w)), O!UpperOrJump(w))
         /\ w.opcode = 23 => Same(w, D!Op("I", "auipc", D!OperandU(w)), O!UpperOrJump(w))
         /\ w.opcode = 111 => Same(w, D!Op("I", "jal", D!OperandJ(w)), O!UpperOrJump(w))
<1>1. w.opcode = 103 /\ D!Jalr(w).name # "unknown" => Same(w, D!Jalr(w), O!UpperOrJump(w))
  <2> DEFINE name == D!Nth(<<"jalr">>, w.funct3)
  <2>1. name # "unknown" => T!ConstructorOf(name) = T!Immediate
    BY Constructors DEF D!Nth, Fulls
  <2>2. D!Jalr(w) = D!Named("I", name, D!OperandI(w)) /\ (w.opcode = 103 => O!UpperOrJump(w) = O!New(name, <<w.rd, w.rs1, O!ImmI(w)>>))
    BY SameFields DEF D!Jalr, O!UpperOrJump
  <2> HIDE DEF name
  <2>3. D!Named("I", name, D!OperandI(w)).name # "unknown"
          => Same(w, D!Named("I", name, D!OperandI(w)), O!New(name, <<w.rd, w.rs1, O!ImmI(w)>>))
    BY <2>1, SameNamed, FitsIntegers
  <2> QED
    BY <2>2, <2>3
<1>2. ASSUME NEW name \in {"lui", "auipc"}
      PROVE  Same(w, D!Op("I", name, D!OperandU(w)), O!Make(name, <<w.rd, O!BitsU(w)>>))
  <2>1. Fits(w, D!Op("I", name, D!OperandU(w)), <<w.rd, O!BitsU(w)>>, T!Jump)
    BY SaysOperand DEF Fits, T!Jump, D!Op, D!OperandU, Misreads
  <2> QED
    BY <2>1, SameNamed, Constructors
<1>3. Same(w, D!Op("I", "jal", D!OperandJ(w)), O!Make("jal", <<w.rd, O!SignExtend(20, O!BitsJ(w))>>))
  <2>7. ~(w.funct7 < 64 <=> w.rs1 >= 16) => O!SignExtend(20, O!BitsJ(w)) = D!SignExtend(21, D!BitsJ(w))
    BY JumpSign
  <2>8. Fits(w, D!Op("I", "jal", D!OperandJ(w)), <<w.rd, O!SignExtend(20, O!BitsJ(w))>>, T!Jump)
    BY <2>7, SaysOperand DEF Fits, T!Jump, D!Op, D!OperandJ, Misreads
  <2> QED
    BY <2>8, SameNamed, Constructors
<1> QED
  BY <1>1, <1>2, <1>3 DEF O!UpperOrJump

LEMMA SameBranch ==
  ASSUME NEW w \in Fulls, D!Branch(w).name # "unknown"
  PROVE  Same(w, D!Branch(w), O!Branch(w))
<1> DEFINE name == D!Nth(<<"beq", "bne", "unknown", "unknown", "blt", "bge", "bltu", "bgeu">>, w.funct3)
<1>1. name # "unknown" => T!ConstructorOf(name) = T!TwoSources
  BY Constructors DEF D!Nth, Fulls
<1>2. D!Branch(w) = D!Named("I", name, D!OperandB(w)) /\ O!Branch(w) = O!New(name, <<w.rs1, w.rs2, O!ImmB(w)>>)
  BY SameFields DEF D!Branch, O!Branch
<1> HIDE DEF name
<1> QED
  BY <1>1, <1>2, SameNamed, FitsIntegers

LEMMA SameMemory ==
  ASSUME NEW x \in Xlens, NEW w \in Fulls
  PROVE  /\ w.opcode = 3 /\ D!Load(x, w).name # "unknown" => Same(w, D!Load(x, w), O!LoadOrStore(x, w))
         /\ w.opcode = 35 /\ D!Store(x, w).name # "unknown" => Same(w, D!Store(x, w), O!LoadOrStore(x, w))
<1>1. CASE w.opcode = 3
  <2> DEFINE table == D!Nth(<<"lb", "lh", "lw", "ld", "lbu", "lhu", "lwu">>, w.funct3)
             name == IF table \in {"ld", "lwu"} /\ x = 32 THEN "unknown" ELSE table
  <2>1. name # "unknown" => T!ConstructorOf(name) = T!Immediate
    BY Constructors DEF D!Nth, Fulls
  <2>2. name = O!Nth(IF x = 32 THEN <<"lb", "lh", "lw", "unknown", "lbu", "lhu">>
                               ELSE <<"lb", "lh", "lw", "ld", "lbu", "lhu", "lwu">>, w.funct3)
    BY DEF D!Nth, O!Nth, Fulls
  <2>3. D!Load(x, w) = D!Named("I", name, D!OperandI(w)) /\ O!LoadOrStore(x, w) = O!New(name, <<w.rd, w.rs1, O!ImmI(w)>>)
    BY <1>1, <2>2 DEF D!Load, O!LoadOrStore
  <2> HIDE DEF name
  <2>4. D!Named("I", name, D!OperandI(w)).name # "unknown"
          => Same(w, D!Named("I", name, D!OperandI(w)), O!New(name, <<w.rd, w.rs1, O!ImmI(w)>>))
    BY <2>1, SameNamed, FitsIntegers
  <2> QED
    BY <1>1, <2>3, <2>4
<1>2. CASE w.opcode = 35
  <2> DEFINE table == D!Nth(<<"sb", "sh", "sw", "sd">>, w.funct3)
             name == IF table = "sd" /\ x = 32 THEN "unknown" ELSE table
  <2>1. name # "unknown" => name \in {"sb", "sh", "sw", "sd"}
    BY DEF D!Nth, Fulls
  <2>2. name = O!Nth(IF x = 32 THEN <<"sb", "sh", "sw">> ELSE <<"sb", "sh", "sw", "sd">>, w.funct3)
    BY DEF D!Nth, O!Nth, Fulls
  <2>3. D!Store(x, w) = D!Named("I", name, D!OperandS(w)) /\ O!LoadOrStore(x, w) = O!New(name, <<w.rs1, w.rs2, O!ImmI(w)>>)
    BY <1>2, <2>2 DEF D!Store, O!LoadOrStore
  <2>4. name # "unknown" => Fits(w, D!Op("I", name, D!OperandS(w)), <<w.rs1, w.rs2, O!ImmI(w)>>, T!TwoSources)
    BY <2>1, SaysOperand DEF Fits, T!TwoSources, D!Op, D!OperandS, Misreads
  <2>5. D!Store(x, w).name # "unknown" => name # "unknown"
    BY <2>3 DEF D!Named, D!Unknown, D!Op
  <2>6. name # "unknown" => T!ConstructorOf(name) = T!TwoSources
    BY <2>1, Constructors
  <2> HIDE DEF name
  <2> QED
    BY <1>2, <2>3, <2>4, <2>5, <2>6, SameNamed
<1> QED
  BY <1>1, <1>2

LEMMA SameAluImm ==
  ASSUME NEW x \in Xlens, NEW w \in Fulls, w.opcode = 19, D!AluImm(x, w).name # "unknown"
  PROVE  Same(w, D!AluImm(x, w), O!Decode(x, w))
<1> DEFINE width == IF x = 32 THEN 5 ELSE 6
           above == IF x = 32 THEN w.funct7 ELSE D!Funct6(w)
           one == IF x = 32 THEN 32 ELSE 16
           shift == O!Shift(w, above, one)
           table == D!Nth(<<"addi", "unknown", "slti", "sltiu", "xori", "unknown", "ori", "andi">>, w.funct3)
           amount == IF x = 32 THEN w.rs2 ELSE O!Funct12(w) % 64
<1>1. O!Decode(x, w) = O!AluImm(w, shift, amount)
  <2>1. ~O!IsF(w) /\ ~O!IsD(w)
    BY DEF O!IsF, O!IsD, O!IsFp, O!IsLoadFp, O!IsStoreFp, O!IsOpFp, O!FusedOpcodes
  <2> QED
    BY <2>1, SameFields DEF O!Decode, O!DecodeRV32, O!DecodeRV64, O!DecodeRV32I, O!DecodeRV64I, Xlens
<1>2. amount = D!Funct12(w) % 2^width
  <2>1. CASE x = 32
    <3>1. w.rs2 \in Nat /\ w.rs2 < 32 /\ w.funct7 \in Nat
      BY DEF Fulls
    <3>2. (w.funct7 * 32 + w.rs2) % 32 = w.rs2
      BY SMT, <3>1
    <3> QED
      BY <2>1, <3>2 DEF D!Funct12
  <2>2. CASE x # 32
    BY <2>2, SameFields
  <2> QED
    BY <2>1, <2>2
<1> HIDE DEF amount
<1>3. CASE w.funct3 \in {1, 5}
  <2>1. D!AluImm(x, w) = D!Named("I", shift, D!OperandShiftImm(w, width))
    BY <1>3 DEF D!AluImm, D!ShiftImm, D!Nth, O!Nth, O!Shift
  <2>2. O!AluImm(w, shift, amount) = O!New(shift, <<w.rd, w.rs1, amount>>)
    BY <1>3 DEF O!AluImm
  <2>3. shift # "unknown" => T!ConstructorOf(shift) = T!Shift
    BY <1>3, Constructors DEF O!Shift, O!Nth
  <2> HIDE DEF shift, width
  <2>4. D!Named("I", shift, D!OperandShiftImm(w, width)).name # "unknown" =>
          Same(w, D!Named("I", shift, D!OperandShiftImm(w, width)), O!New(shift, <<w.rd, w.rs1, D!Funct12(w) % 2^width>>))
    BY <2>3, SameNamed, FitsIntegers
  <2> QED
    BY <1>1, <1>2, <2>1, <2>2, <2>4
<1>4. CASE w.funct3 \notin {1, 5}
  <2>1. D!AluImm(x, w) = D!Op("I", table, D!OperandI(w)) /\ table # "unknown"
    BY <1>4 DEF D!AluImm, D!Nth, Fulls
  <2>2. O!AluImm(w, shift, amount) = O!Make(table, <<w.rd, w.rs1, O!ImmI(w)>>)
    BY <1>4, SameFields DEF O!AluImm
  <2>3. table # "unknown" => T!ConstructorOf(table) = T!Immediate
    BY <1>4, Constructors DEF D!Nth, Fulls
  <2> HIDE DEF shift, table
  <2>4. Same(w, D!Op("I", table, D!OperandI(w)), O!Make(table, <<w.rd, w.rs1, O!ImmI(w)>>))
    BY <2>1, <2>3, SameNamed, FitsIntegers
  <2> QED
    BY <1>1, <2>1, <2>2, <2>4
<1> QED
  BY <1>3, <1>4

\* Two tables of operations on three registers.
LEMMA SameRegisters ==
  ASSUME NEW w, NEW class, NEW name, name # "unknown" => T!ConstructorOf(name) = T!Three
  PROVE  /\ D!Named(class, name, D!OperandR(w)).name # "unknown"
              => Same(w, D!Named(class, name, D!OperandR(w)), O!New(name, O!Registers(w)))
         /\ name # "unknown" => Same(w, D!Op(class, name, D!OperandR(w)), O!Make(name, O!Registers(w)))
BY SameNamed, FitsIntegers

LEMMA SameAlu ==
  ASSUME NEW w \in Fulls, D!Alu(w).name # "unknown"
  PROVE  Same(w, D!Alu(w), O!New(O!AluName(w), O!Registers(w)))
<1>1. O!AluName(w) # "unknown" => T!ConstructorOf(O!AluName(w)) = T!Three
  BY Constructors DEF O!AluName, O!Nth, Fulls
<1>2. D!Alu(w) = D!Named("I", O!AluName(w), D!OperandR(w))
  BY DEF D!Alu, O!AluName, D!Nth, O!Nth
<1> QED
  BY <1>1, <1>2, SameRegisters

LEMMA SameWord ==
  ASSUME NEW w \in Fulls
  PROVE  /\ w.opcode = 27 /\ D!WordImm(w).name # "unknown" =>
              Same(w, D!WordImm(w), O!Word64(w)) \/ D!WordImm(w).name \in Renamed
         /\ w.opcode = 59 /\ D!WordAlu(w).name # "unknown" => Same(w, D!WordAlu(w), O!Word64(w))
<1>1. CASE w.opcode = 27 /\ w.funct3 = 0
  <2>1. D!WordImm(w) = D!Op("I", "addiw", D!OperandI(w)) /\ O!Word64(w) = O!Make("addiw", <<w.rd, w.rs1, O!ImmI(w)>>)
    BY <1>1 DEF D!WordImm, O!Word64
  <2>2. T!ConstructorOf("addiw") = T!Immediate
    BY Constructors
  <2>3. Same(w, D!Op("I", "addiw", D!OperandI(w)), O!Make("addiw", <<w.rd, w.rs1, O!ImmI(w)>>))
    BY <2>2, SameNamed, FitsIntegers
  <2> QED
    BY <1>1, <2>1, <2>3
<1>2. CASE w.opcode = 27 /\ w.funct3 # 0
  BY <1>2 DEF D!WordImm, D!Nth, D!Named, D!Op, D!Unknown, Renamed, Fulls
<1>3. CASE w.opcode = 59
  <2> DEFINE name == CASE w.funct7 = 0 -> D!Nth(<<"addw", "sllw", "unknown", "unknown", "unknown", "srlw">>, w.funct3)
                       [] w.funct7 = 32 -> D!Nth(<<"subw", "unknown", "unknown", "unknown", "unknown", "sraw">>, w.funct3)
                       [] OTHER -> "unknown"
  <2>1. name # "unknown" => T!ConstructorOf(name) = T!Three
    BY Constructors DEF D!Nth, Fulls
  <2>2. D!WordAlu(w) = D!Named("I", name, D!OperandR(w)) /\ O!Word64(w) = O!New(name, O!Registers(w))
    BY <1>3 DEF D!WordAlu, O!Word64, D!Nth, O!Nth
  <2> HIDE DEF name
  <2> QED
    BY <1>3, <2>1, <2>2, SameRegisters
<1> QED
  BY <1>1, <1>2, <1>3

LEMMA SameFence ==
  ASSUME NEW w \in Fulls, D!Fence(w).name # "unknown"
  PROVE  Same(w, D!Fence(w), O!Fence(w))
<1> DEFINE f == D!Op("I", "fence", D!OperandFence(w))
           i == D!Op("I", "fence_i", D!OperandFence(w))
<1>1. D!Unknown("I").name = "unknown"
  BY DEF D!Unknown, D!Op
<1>2. CASE w.rd = 0 /\ w.rs1 = 0 /\ w.funct3 = 0 /\ w.funct7 \div 8 = 0
  <2>1. D!Fence(w) = f /\ O!Fence(w) = O!Make("fence", <<0, 0, 0, (O!Funct12(w) \div 16) % 16, O!Funct12(w) % 16>>)
    BY <1>2 DEF D!Fence, O!Fence
  <2>2. Fits(w, f, <<0, 0, 0, (O!Funct12(w) \div 16) % 16, O!Funct12(w) % 16>>, T!FenceBits)
    BY SaysOperand, SameFields DEF Fits, T!FenceBits, D!Op, D!OperandFence
  <2> QED
    BY <2>1, <2>2, SameNamed, Constructors
<1>3. CASE w.rd = 0 /\ w.rs1 = 0 /\ w.funct3 = 1 /\ D!Funct12(w) = 0
  <2>1. D!Fence(w) = i /\ O!Fence(w) = O!Make("fence_i", <<0, 0, O!ImmI(w)>>)
    BY <1>3, SameFields DEF D!Fence, O!Fence
  <2>2. O!ImmI(w) = 0
    BY <1>3, SameFields DEF O!ImmI, O!BitsI, O!SignExtend, O!Bit, O!Pick
  <2>3. Fits(w, i, <<0, 0, 0>>, T!Immediate)
    BY SaysOperand DEF Fits, T!Immediate, D!Op, D!OperandFence
  <2> QED
    BY <2>1, <2>2, <2>3, SameNamed, Constructors
<1>4. CASE \/ w.rd # 0 \/ w.rs1 # 0
           \/ ~(w.funct3 = 0 /\ w.funct7 \div 8 = 0) /\ ~(w.funct3 = 1 /\ D!Funct12(w) = 0)
  <2>1. CASE w.rd # 0 \/ w.rs1 # 0
    <3>1. D!Fence(w) = D!Unknown("I")
      BY <2>1 DEF D!Fence
    <3> QED
      BY <1>1, <3>1
  <2>2. CASE w.rd = 0 /\ w.rs1 = 0
    <3>1. ~(w.rd # 0 \/ w.rs1 # 0) /\ ~(w.funct3 = 0 /\ w.funct7 \div 8 = 0) /\ ~(w.funct3 = 1 /\ D!Funct12(w) = 0)
      BY <1>4, <2>2
    <3>2. D!Fence(w) = D!Unknown("I")
      BY <3>1 DEF D!Fence
    <3> QED
      BY <1>1, <3>2
  <2> QED
    BY <2>1, <2>2
<1> QED
  BY <1>2, <1>3, <1>4

\* The codes of the privileged instructions without operands.
PrivName(w) ==
  CASE D!Funct12(w) = 0 -> "ecall"
    [] D!Funct12(w) = 1 -> "ebreak"
    [] D!Funct12(w) = 2 -> "uret"
    [] D!Funct12(w) = 258 -> "sret"
    [] D!Funct12(w) = 261 -> "wfi"
    [] D!Funct12(w) = 770 -> "mret"
    [] OTHER -> "unknown"

LEMMA SamePriv ==
  ASSUME NEW w \in Fulls, w.funct3 = 0, w.rd = 0, D!Priv(w).name # "unknown"
  PROVE  Same(w, D!Priv(w), O!System(w))
<1>1. CASE w.funct7 = 9
  <2>1. D!Priv(w) = D!Op("I", "sfence_vma", D!OperandR(w))
    BY <1>1 DEF D!Priv
  <2>3. O!System(w) = O!Make("sfence_vma", <<w.rs1, w.rs2>>)
    BY <1>1 DEF O!System
  <2>2. Fits(w, D!Op("I", "sfence_vma", D!OperandR(w)), <<w.rs1, w.rs2>>, <<"rs1", "rs2">>)
    BY SaysOperand DEF Fits, D!Op, D!OperandR
  <2> QED
    BY <2>1, <2>2, <2>3, SameNamed, Constructors
<1>2. CASE w.funct7 # 9 /\ w.rs1 = 0
  <2>1. D!Priv(w) = D!Named("I", PrivName(w), D!NoOperand)
    BY <1>2 DEF D!Priv, PrivName
  <2>2. O!System(w) = O!New(PrivName(w), <<>>)
    <3>1. O!Funct12(w) = D!Funct12(w) /\ D!Funct12(w) \in Nat
      BY SameFields DEF D!Funct12, Fulls
    <3>2. (CASE O!Funct12(w) \in {0, 1, 2} -> O!Nth(<<"ecall", "ebreak", "uret">>, O!Funct12(w))
             [] O!Funct12(w) = 258 -> "sret"
             [] O!Funct12(w) = 261 -> "wfi"
             [] O!Funct12(w) = 770 -> "mret"
             [] OTHER -> "unknown") = PrivName(w)
      BY SMT, <3>1 DEF PrivName, O!Nth
    <3> QED
      BY SMT, <1>2, <3>2 DEF O!System
  <2>3. PrivName(w) # "unknown" => T!ConstructorOf(PrivName(w)) = T!NoParameters
    BY SMT, Constructors DEF PrivName
  <2>4. D!Named("I", PrivName(w), D!NoOperand).name # "unknown" => Same(w, D!Named("I", PrivName(w), D!NoOperand), O!New(PrivName(w), <<>>))
    BY <2>3, SameNamed, FitsIntegers
  <2> QED
    BY <2>1, <2>2, <2>4
<1>3. CASE w.funct7 # 9 /\ w.rs1 # 0
  BY <1>3 DEF D!Priv, D!Unknown, D!Op
<1> QED
  BY <1>1, <1>2, <1>3

LEMMA SameCsr ==
  ASSUME NEW w \in Fulls, w.funct3 \notin {0, 4}
  PROVE  Same(w, D!System(w), O!System(w))
<1> DEFINE args == <<O!Funct12(w), w.rd, w.rs1>>
           name == O!Nth(<<"csrrw", "csrrs", "csrrc", "unknown", "csrrwi", "csrrsi", "csrrci">>, w.funct3 - 1)
<1>1. O!System(w) = O!Make(name, args)
  BY DEF O!System
<1>2. CASE w.funct3 \in 1 .. 3
  <2>1. name = D!Nth(<<"csrrw", "csrrs", "csrrc">>, w.funct3 - 1) /\ name \in {"csrrw", "csrrs", "csrrc"}
    <3>1. CASE w.funct3 = 1
      BY <3>1 DEF D!Nth, O!Nth
    <3>2. CASE w.funct3 = 2
      BY <3>2 DEF D!Nth, O!Nth
    <3>3. CASE w.funct3 = 3
      BY <3>3 DEF D!Nth, O!Nth
    <3> QED
      BY <1>2, <3>1, <3>2, <3>3
  <2>3. D!System(w) = D!Op("I", name, D!OperandCsr(w))
    BY <1>2, <2>1 DEF D!System
  <2>2. Fits(w, D!Op("I", name, D!OperandCsr(w)), args, T!CsrRegister)
    BY SaysOperand, SameFields DEF Fits, T!CsrRegister, D!Op, D!OperandCsr
  <2> HIDE DEF name, args
  <2> QED
    BY <1>1, <2>1, <2>2, <2>3, SameNamed, Constructors
<1>3. CASE w.funct3 \in 5 .. 7
  <2>1. name = D!Nth(<<"csrrwi", "csrrsi", "csrrci">>, w.funct3 - 5) /\ name \in {"csrrwi", "csrrsi", "csrrci"}
    <3>1. CASE w.funct3 = 5
      BY <3>1 DEF D!Nth, O!Nth
    <3>2. CASE w.funct3 = 6
      BY <3>2 DEF D!Nth, O!Nth
    <3>3. CASE w.funct3 = 7
      BY <3>3 DEF D!Nth, O!Nth
    <3> QED
      BY <1>3, <3>1, <3>2, <3>3
  <2>3. D!System(w) = D!Op("I", name, D!OperandCsrImm(w))
    BY <1>3, <2>1 DEF D!System
  <2>2. Fits(w, D!Op("I", name, D!OperandCsrImm(w)), args, T!CsrImmediate)
    BY SaysOperand, SameFields DEF Fits, T!CsrImmediate, D!Op, D!OperandCsrImm
  <2> HIDE DEF name, args
  <2> QED
    BY <1>1, <2>1, <2>2, <2>3, SameNamed, Constructors
<1> QED
  BY <1>2, <1>3 DEF Fulls

LEMMA SameSystem ==
  ASSUME NEW w \in Fulls, D!System(w).name # "unknown"
  PROVE  Same(w, D!System(w), O!System(w))
<1>1. D!Unknown("I").name = "unknown"
  BY DEF D!Unknown, D!Op
<1>2. CASE w.funct3 = 0 /\ w.rd = 0
  BY <1>2, SamePriv DEF D!System
<1>3. CASE w.funct3 \in {0, 4} /\ ~(w.funct3 = 0 /\ w.rd = 0)
  BY <1>1, <1>3 DEF D!System
<1> QED
  BY <1>2, <1>3, SameCsr

\* Which decoder of an extension a word goes to.
LEMMA Dispatch ==
  ASSUME NEW x \in Xlens, NEW w \in Fulls
  PROVE  /\ D!IsM(w) => /\ D!Decode(x, w) = D!DecodeM(x, w)
                        /\ w.opcode = 51 \/ x = 64 => O!Decode(x, w) = IF x = 32 THEN O!DecodeRV32M(w) ELSE O!DecodeRV64M(w)
         /\ D!IsA(w) => /\ D!Decode(x, w) = D!DecodeA(x, w)
                        /\ w.funct3 = 2 \/ x = 64 => O!Decode(x, w) = IF x = 32 THEN O!DecodeRV32A(w) ELSE O!DecodeRV64A(w)
         /\ D!IsF(w) => /\ D!Decode(x, w) = D!DecodeF(x, w)
                        /\ O!Decode(x, w) = IF x = 32 THEN O!DecodeRV32F(w) ELSE O!DecodeRV64F(w)
         /\ D!IsD(w) => /\ D!Decode(x, w) = D!DecodeD(w)
                        /\ O!Decode(x, w) = IF x = 32 THEN O!DecodeRV32D(w) ELSE O!DecodeRV64D(w)
         /\ ~D!IsM(w) /\ ~D!IsA(w) /\ ~D!IsF(w) /\ ~D!IsD(w) =>
              /\ D!Decode(x, w) = D!DecodeI(x, w)
              /\ O!Decode(x, w) = IF x = 32 THEN O!DecodeRV32I(w) ELSE O!DecodeRV64I(w)
<1>1. (O!IsF(w) <=> D!IsF(w)) /\ (O!IsD(w) <=> D!IsD(w))
  BY DEF O!IsF, O!IsD, O!IsFp, O!IsLoadFp, O!IsStoreFp, O!IsOpFp, O!FusedOpcodes, O!Funct2,
         D!IsF, D!IsD, D!IsFp, D!IsLoadFp, D!IsStoreFp, D!IsOpFp, D!FusedOpcodes, D!Funct2
<1>2. /\ D!IsF(w) => w.opcode \notin {51, 59, 47} /\ ~D!IsD(w)
      /\ D!IsD(w) => w.opcode \notin {51, 59, 47} /\ ~D!IsF(w)
      /\ D!IsM(w) => w.opcode \in {51, 59} /\ w.funct7 = 1
      /\ D!IsA(w) => w.opcode = 47 /\ w.funct3 \in {2, 3}
      /\ w.opcode \in {51, 59} /\ w.funct7 = 1 => D!IsM(w)
      /\ w.opcode = 47 /\ w.funct3 \in {2, 3} => D!IsA(w)
  BY DEF D!IsM, D!IsA, D!IsF, D!IsD, D!IsFp, D!IsLoadFp, D!IsStoreFp, D!IsOpFp, D!FusedOpcodes
<1>3. x = 32 \/ x = 64
  BY DEF Xlens
<1>4. CASE D!IsM(w)
  BY <1>1, <1>2, <1>3, <1>4 DEF D!Decode, O!Decode, O!DecodeRV32, O!DecodeRV64
<1>5. CASE D!IsA(w)
  BY <1>1, <1>2, <1>3, <1>5 DEF D!Decode, O!Decode, O!DecodeRV32, O!DecodeRV64
<1>6. CASE D!IsF(w)
  BY <1>1, <1>2, <1>3, <1>6 DEF D!Decode, O!Decode, O!DecodeRV32, O!DecodeRV64
<1>7. CASE D!IsD(w)
  BY <1>1, <1>2, <1>3, <1>7 DEF D!Decode, O!Decode, O!DecodeRV32, O!DecodeRV64
<1>8. CASE ~D!IsM(w) /\ ~D!IsA(w) /\ ~D!IsF(w) /\ ~D!IsD(w)
  BY <1>1, <1>2, <1>3, <1>8 DEF D!Decode, O!Decode, O!DecodeRV32, O!DecodeRV64
<1> QED
  BY <1>4, <1>5, <1>6, <1>7, <1>8

LEMMA SameM ==
  ASSUME NEW x \in Xlens, NEW w \in Fulls, D!IsM(w), D!DecodeM(x, w).name # "unknown"
  PROVE  Same(w, D!DecodeM(x, w), O!Decode(x, w))
<1> DEFINE words == D!Nth(<<"mul", "mulh", "mulhsu", "mulhu", "div", "divu", "rem", "remu">>, w.funct3)
           halves == D!Nth(<<"mulw", "unknown", "unknown", "unknown", "divw", "divuw", "remw", "remuw">>, w.funct3)
<1>1. CASE w.opcode = 51
  <2>1. D!DecodeM(x, w) = D!Op("M", words, D!OperandR(w)) /\ O!Decode(x, w) = O!Make(words, O!Registers(w))
    BY <1>1, Dispatch, SameFields DEF D!DecodeM, O!DecodeRV32M, O!DecodeRV64M
  <2>2. words # "unknown" /\ T!ConstructorOf(words) = T!Three
    BY Constructors DEF D!Nth, Fulls
  <2> HIDE DEF words
  <2> QED
    BY <2>1, <2>2, SameRegisters
<1>2. CASE w.opcode = 59 /\ x = 64
  <2>1. D!DecodeM(x, w) = D!Op("M", halves, D!OperandR(w)) /\ O!Decode(x, w) = O!New(halves, O!Registers(w))
    BY <1>2, Dispatch, SameFields DEF D!DecodeM, O!DecodeRV32M, O!DecodeRV64M
  <2>2. halves # "unknown" => T!ConstructorOf(halves) = T!Three
    BY Constructors DEF D!Nth, Fulls
  <2>3. halves # "unknown"
    BY <2>1 DEF D!Op
  <2> HIDE DEF halves
  <2>4. O!New(halves, O!Registers(w)) = O!Make(halves, O!Registers(w))
    BY <2>3 DEF O!New
  <2> QED
    BY <2>1, <2>2, <2>3, <2>4, SameRegisters
<1>3. CASE w.opcode = 59 /\ x = 32
  <2>1. D!DecodeM(x, w) = D!Op("M", D!Nth(<<>>, w.funct3), D!OperandR(w))
    BY <1>3 DEF D!DecodeM
  <2>2. D!Nth(<<>>, w.funct3) = "unknown"
    BY DEF D!Nth, Fulls
  <2> QED
    BY <2>1, <2>2 DEF D!Op
<1> QED
  BY <1>1, <1>2, <1>3 DEF D!IsM, Xlens

\* A table of atomic operations by code, and the names the printers give them.
LEMMA SameAtomic ==
  ASSUME NEW w \in Fulls, NEW lr, NEW sc, NEW swap, NEW add, NEW xor, NEW and, NEW or,
         NEW min, NEW max, NEW minu, NEW maxu,
         lr # "unknown", T!ConstructorOf(lr) = T!Reserved,
         \A name \in {sc, swap, add, xor, and, or, min, max, minu, maxu} : T!ConstructorOf(name) = T!Ordered,
         NEW codes, NEW names,
         codes = <<add, swap, lr, sc, xor, "unknown", "unknown", "unknown", or, "unknown", "unknown", "unknown",
                   and, "unknown", "unknown", "unknown", min, "unknown", "unknown", "unknown",
                   max, "unknown", "unknown", "unknown", minu, "unknown", "unknown", "unknown", maxu>>,
         names = <<sc, swap, add, xor, and, or, min, max, minu, maxu>>
  PROVE  D!Named("A", D!AmoName(w, codes), D!OperandR(w)).name # "unknown" =>
           Same(w, D!Named("A", D!AmoName(w, codes), D!OperandR(w)), O!Atomic(w, lr, names))
<1> DEFINE f == D!Funct5(w)
           aq == (w.funct7 \div 2) % 2
           rl == w.funct7 % 2
           name == D!AmoName(w, codes)
<1>1. f = O!Funct5(w) /\ f \in 0 .. 31
  BY SMT, SameFields DEF D!Funct5, Fulls
<1> HIDE DEF f
<1>2. CASE f = 2
  <2>1. CASE w.rs2 = 0
    <3>1. name = lr /\ O!Atomic(w, lr, names) = O!Make(lr, <<w.rd, w.rs1, aq, rl>>)
      BY <1>1, <1>2, <2>1 DEF D!AmoName, D!Nth, O!Atomic, f
    <3>2. Fits(w, D!Op("A", lr, D!OperandR(w)), <<w.rd, w.rs1, aq, rl>>, T!Reserved)
      BY SaysOperand DEF Fits, T!Reserved, D!Op, D!OperandR
    <3>3. D!Named("A", lr, D!OperandR(w)) = D!Op("A", lr, D!OperandR(w))
      BY DEF D!Named
    <3>4. Same(w, D!Op("A", lr, D!OperandR(w)), O!Make(lr, <<w.rd, w.rs1, aq, rl>>))
      BY <3>2, SameNamed
    <3> QED
      BY <3>1, <3>3, <3>4
  <2>2. CASE w.rs2 # 0
    BY <1>2, <2>2 DEF D!AmoName, f, D!Named, D!Unknown, D!Op
  <2> QED
    BY <2>1, <2>2
<1>3. CASE f # 2
  <2>1. name = D!Nth(codes, f)
    BY <1>3 DEF D!AmoName, f
  <2>2. O!Atomic(w, lr, names) = O!New(name, <<w.rd, w.rs1, w.rs2, aq, rl>>)
    <3>1. name = CASE f = 3 -> names[1]
                   [] f = 1 -> names[2]
                   [] f = 0 -> names[3]
                   [] f = 4 -> names[4]
                   [] f = 12 -> names[5]
                   [] f = 8 -> names[6]
                   [] f = 16 -> names[7]
                   [] f = 20 -> names[8]
                   [] f = 24 -> names[9]
                   [] f = 28 -> names[10]
                   [] OTHER -> "unknown"
      BY <1>1, <1>3, <2>1 DEF D!Nth
    <3> QED
      BY <1>1, <1>3, <3>1 DEF O!Atomic
  <2>3. name # "unknown" => T!ConstructorOf(name) = T!Ordered
    BY <1>1, <1>3, <2>1 DEF D!Nth
  <2>4. Fits(w, D!Op("A", name, D!OperandR(w)), <<w.rd, w.rs1, w.rs2, aq, rl>>, T!Ordered)
    BY SaysOperand DEF Fits, T!Ordered, D!Op, D!OperandR
  <2> HIDE DEF name, aq, rl
  <2>5. D!Named("A", name, D!OperandR(w)).name # "unknown" =>
          Same(w, D!Named("A", name, D!OperandR(w)), O!New(name, <<w.rd, w.rs1, w.rs2, aq, rl>>))
    BY <2>3, <2>4, SameNamed
  <2> QED
    BY <2>2, <2>5 DEF name
<1> QED
  BY <1>2, <1>3

LEMMA SameA ==
  ASSUME NEW x \in Xlens, NEW w \in Fulls, D!IsA(w), D!DecodeA(x, w).name # "unknown"
  PROVE  Same(w, D!DecodeA(x, w), O!Decode(x, w))
<1>1. CASE w.funct3 = 2
  <2>1. D!DecodeA(x, w) = D!Named("A", D!AmoName(w, D!Amos32), D!OperandR(w)) /\ O!Decode(x, w) = O!Atomic32(w)
    BY <1>1, Dispatch DEF D!DecodeA, O!DecodeRV32A, O!DecodeRV64A
  <2>2. D!Named("A", D!AmoName(w, D!Amos32), D!OperandR(w)).name # "unknown" =>
           Same(w, D!Named("A", D!AmoName(w, D!Amos32), D!OperandR(w)), O!Atomic32(w))
    BY SameAtomic, Constructors DEF D!Amos32, O!Atomic32
  <2> QED
    BY <2>1, <2>2
<1>2. CASE w.funct3 = 3 /\ x = 64
  <2>1. D!DecodeA(x, w) = D!Named("A", D!AmoName(w, D!Amos64), D!OperandR(w)) /\ O!Decode(x, w) = O!Atomic64(w)
    BY <1>2, Dispatch DEF D!DecodeA, O!DecodeRV32A, O!DecodeRV64A
  <2>2. D!Named("A", D!AmoName(w, D!Amos64), D!OperandR(w)).name # "unknown" =>
           Same(w, D!Named("A", D!AmoName(w, D!Amos64), D!OperandR(w)), O!Atomic64(w))
    BY SameAtomic, Constructors DEF D!Amos64, O!Atomic64
  <2> QED
    BY <2>1, <2>2
<1>3. CASE w.funct3 = 3 /\ x = 32
  <2>1. D!DecodeA(x, w) = D!Named("A", "unknown", D!OperandR(w))
    BY <1>3 DEF D!DecodeA
  <2> QED
    BY <2>1 DEF D!Named, D!Unknown, D!Op
<1> QED
  BY <1>1, <1>2, <1>3 DEF D!IsA, Xlens

\* What the printers do with the word of a floating-point operation, by the constructor of its name.
LEMMA FloatArms ==
  ASSUME NEW w \in Fulls, NEW class \in {"F", "D"}, NEW name, name # "unknown"
  PROVE  /\ T!ConstructorOf(name) = T!Rounded => Same(w, D!Named(class, name, D!OperandR(w)), O!Rounded(w, name))
         /\ T!ConstructorOf(name) = T!Converted /\ w.rs2 = 0 =>
              Same(w, D!Named(class, name, D!OperandR(w)), O!SquareRoot(w, name))
         /\ \A names : T!ConstructorOf(name) = T!Three /\ name = D!Nth(names, w.funct3) =>
              Same(w, D!Named(class, name, D!OperandR(w)), O!Compared(w, names))
         /\ \A names : T!ConstructorOf(name) = T!Converted /\ name = D!Nth(names, w.rs2) =>
              Same(w, D!Named(class, name, D!OperandR(w)), O!Converted(w, names))
         /\ \A names : T!ConstructorOf(name) = T!Two /\ w.rs2 = 0 /\ name = D!Nth(names, w.funct3) =>
              Same(w, D!Named(class, name, D!OperandR(w)), O!Moved(w, names))
<1> DEFINE a == D!Op(class, name, D!OperandR(w))
<1>1. D!Named(class, name, D!OperandR(w)) = a
  BY DEF D!Named
<1>2. \A args : O!New(name, args) = O!Make(name, args)
  BY DEF O!New
<1>3. \A names, n : O!Nth(names, n) = D!Nth(names, n)
  BY SameFields
<1>4. T!ConstructorOf(name) = T!Rounded => Same(w, a, O!Make(name, <<w.rd, w.rs1, w.rs2, w.funct3>>))
  <2>1. Fits(w, a, <<w.rd, w.rs1, w.rs2, w.funct3>>, T!Rounded)
    BY SaysOperand DEF Fits, T!Rounded, D!Op, D!OperandR
  <2> QED
    BY <2>1 DEF Same, O!Make, D!Op
<1>5. T!ConstructorOf(name) = T!Converted =>
        Same(w, a, O!Make(name, <<w.rd, w.rs1, w.funct3>>)) /\ Same(w, a, O!Make(name, O!Registers(w)))
  <2>1. Fits(w, a, <<w.rd, w.rs1, w.funct3>>, T!Converted)
    BY SaysOperand DEF Fits, T!Converted, D!Op, D!OperandR
  <2>2. Fits(w, a, O!Registers(w), T!Converted)
    BY SaysOperand DEF Fits, T!Converted, D!Op, D!OperandR, O!Registers, Misreads
  <2> QED
    BY <2>1, <2>2 DEF Same, O!Make, D!Op
<1>6. T!ConstructorOf(name) = T!Three => Same(w, a, O!Make(name, O!Registers(w)))
  <2>1. Fits(w, a, O!Registers(w), T!Three)
    BY FitsIntegers
  <2> QED
    BY <2>1 DEF Same, O!Make, D!Op
<1>7. T!ConstructorOf(name) = T!Two => Same(w, a, O!Make(name, <<w.rd, w.rs1>>))
  <2>1. Fits(w, a, <<w.rd, w.rs1>>, T!Two)
    BY SaysOperand DEF Fits, T!Two, D!Op, D!OperandR
  <2> QED
    BY <2>1 DEF Same, O!Make, D!Op
<1> HIDE DEF a
<1> QED
  BY <1>1, <1>2, <1>3, <1>4, <1>5, <1>6, <1>7 DEF O!Rounded, O!SquareRoot, O!Compared, O!Converted, O!Moved

\* A table of the conversions to or from integers.
LEMMA NthOfFour ==
  ASSUME NEW n \in 0 .. 31, NEW first, NEW second, NEW third, NEW fourth
  PROVE  D!Nth(<<first, second, third, fourth>>, n) \in {first, second, third, fourth, "unknown"}
<1>1. n \in {0, 1, 2, 3} \/ ~(n < 4)
  BY SMT
<1>2. CASE n \in {0, 1, 2, 3}
  BY <1>2 DEF D!Nth
<1>3. CASE ~(n < 4)
  BY <1>3 DEF D!Nth
<1> QED
  BY <1>1, <1>2, <1>3

LEMMA SameOpF ==
  ASSUME NEW x, NEW w \in Fulls, NEW toInt, NEW fromInt, D!OpF(x, w) # "unknown",
         D!ToInt(<<"fcvt_w_s", "fcvt_wu_s", "fcvt_l_s", "fcvt_lu_s">>, x, w) = D!Nth(toInt, w.rs2),
         D!ToInt(<<"fcvt_s_w", "fcvt_s_wu", "fcvt_s_l", "fcvt_s_lu">>, x, w) = D!Nth(fromInt, w.rs2)
  PROVE  Same(w, D!Named("F", D!OpF(x, w), D!OperandR(w)), O!OpFp32(w, toInt, fromInt))
<1> DEFINE name == D!OpF(x, w)
           b == O!OpFp32(w, toInt, fromInt)
<1> SUFFICES Same(w, D!Named("F", name, D!OperandR(w)), b)
  OBVIOUS
<1>a. name # "unknown"
  OBVIOUS
<1> HIDE DEF name, b
<1>1. CASE w.funct7 = 0
  <2>1. name = "fadd_s" /\ b = O!Rounded(w, "fadd_s")
    BY <1>1 DEF D!OpF, O!OpFp32, name, b
  <2> QED
    BY <1>a, <2>1, FloatArms, Constructors
<1>2. CASE w.funct7 = 4
  <2>1. name = "fsub_s" /\ b = O!Rounded(w, "fsub_s")
    BY <1>2 DEF D!OpF, O!OpFp32, name, b
  <2> QED
    BY <1>a, <2>1, FloatArms, Constructors
<1>3. CASE w.funct7 = 8
  <2>1. name = "fmul_s" /\ b = O!Rounded(w, "fmul_s")
    BY <1>3 DEF D!OpF, O!OpFp32, name, b
  <2> QED
    BY <1>a, <2>1, FloatArms, Constructors
<1>4. CASE w.funct7 = 12
  <2>1. name = "fdiv_s" /\ b = O!Rounded(w, "fdiv_s")
    BY <1>4 DEF D!OpF, O!OpFp32, name, b
  <2> QED
    BY <1>a, <2>1, FloatArms, Constructors
<1>5. CASE w.funct7 = 44
  <2>1. name = D!Nth(<<"fsqrt_s">>, w.rs2) /\ b = O!SquareRoot(w, "fsqrt_s")
    BY <1>5 DEF D!OpF, O!OpFp32, name, b
  <2>2. name = "fsqrt_s" /\ w.rs2 = 0
    <3>1. CASE w.rs2 = 0
      BY <2>1, <3>1 DEF D!Nth
    <3>2. CASE w.rs2 # 0
      <4>1. w.rs2 \in Nat /\ ~(w.rs2 < 1)
        BY <3>2 DEF Fulls
      <4> QED
        BY <1>a, <2>1, <4>1 DEF D!Nth
    <3> QED
      BY <3>1, <3>2
  <2> QED
    BY <1>a, <2>1, <2>2, FloatArms, Constructors
<1>6. CASE w.funct7 = 16
  <2>1. name = D!Nth(<<"fsgnj_s", "fsgnjn_s", "fsgnjx_s">>, w.funct3) /\ b = O!Compared(w, <<"fsgnj_s", "fsgnjn_s", "fsgnjx_s">>)
    BY <1>6 DEF D!OpF, O!OpFp32, name, b
  <2>2. name \in {"fsgnj_s", "fsgnjn_s", "fsgnjx_s"}
    BY <1>a, <2>1 DEF D!Nth, Fulls
  <2> QED
    BY <1>a, <2>1, <2>2, FloatArms, Constructors
<1>7. CASE w.funct7 = 20
  <2>1. name = D!Nth(<<"fmin_s", "fmax_s">>, w.funct3) /\ b = O!Compared(w, <<"fmin_s", "fmax_s">>)
    BY <1>7 DEF D!OpF, O!OpFp32, name, b
  <2>2. name \in {"fmin_s", "fmax_s"}
    BY <1>a, <2>1 DEF D!Nth, Fulls
  <2> QED
    BY <1>a, <2>1, <2>2, FloatArms, Constructors
<1>8. CASE w.funct7 = 80
  <2>1. name = D!Nth(<<"fle_s", "flt_s", "feq_s">>, w.funct3) /\ b = O!Compared(w, <<"fle_s", "flt_s", "feq_s">>)
    BY <1>8 DEF D!OpF, O!OpFp32, name, b
  <2>2. name \in {"fle_s", "flt_s", "feq_s"}
    BY <1>a, <2>1 DEF D!Nth, Fulls
  <2> QED
    BY <1>a, <2>1, <2>2, FloatArms, Constructors
<1>9. CASE w.funct7 = 96
  <2>1. name = D!Nth(toInt, w.rs2) /\ b = O!Converted(w, toInt)
    BY <1>9 DEF D!OpF, O!OpFp32, name, b
  <2>2. name \in {"fcvt_w_s", "fcvt_wu_s", "fcvt_l_s", "fcvt_lu_s"}
    <3>1. name = D!ToInt(<<"fcvt_w_s", "fcvt_wu_s", "fcvt_l_s", "fcvt_lu_s">>, x, w)
      BY <1>9 DEF D!OpF, name
    <3>2. name = D!Nth(<<"fcvt_w_s", "fcvt_wu_s", "fcvt_l_s", "fcvt_lu_s">>, w.rs2)
      BY <1>a, <3>1 DEF D!ToInt
    <3> QED
      BY <1>a, <3>2, NthOfFour DEF Fulls
  <2> QED
    BY <1>a, <2>1, <2>2, FloatArms, Constructors
<1>10. CASE w.funct7 = 104
  <2>1. name = D!Nth(fromInt, w.rs2) /\ b = O!Converted(w, fromInt)
    BY <1>10 DEF D!OpF, O!OpFp32, name, b
  <2>2. name \in {"fcvt_s_w", "fcvt_s_wu", "fcvt_s_l", "fcvt_s_lu"}
    <3>1. name = D!ToInt(<<"fcvt_s_w", "fcvt_s_wu", "fcvt_s_l", "fcvt_s_lu">>, x, w)
      BY <1>10 DEF D!OpF, name
    <3>2. name = D!Nth(<<"fcvt_s_w", "fcvt_s_wu", "fcvt_s_l", "fcvt_s_lu">>, w.rs2)
      BY <1>a, <3>1 DEF D!ToInt
    <3> QED
      BY <1>a, <3>2, NthOfFour DEF Fulls
  <2> QED
    BY <1>a, <2>1, <2>2, FloatArms, Constructors
<1>11. CASE w.funct7 = 112
  <2>1. name = D!Nth(<<"fmv_x_w", "fclass_s">>, w.funct3) /\ b = O!Moved(w, <<"fmv_x_w", "fclass_s">>) /\ w.rs2 = 0
    BY <1>11 DEF D!OpF, O!OpFp32, name, b
  <2>2. name \in {"fmv_x_w", "fclass_s"}
    BY <1>a, <2>1 DEF D!Nth, Fulls
  <2> QED
    BY <1>a, <2>1, <2>2, FloatArms, Constructors
<1>12. CASE w.funct7 = 120
  <2>1. name = D!Nth(<<"fmv_w_x">>, w.funct3) /\ b = O!Moved(w, <<"fmv_w_x">>) /\ w.rs2 = 0
    BY <1>12 DEF D!OpF, O!OpFp32, name, b
  <2>2. name \in {"fmv_w_x"}
    BY <1>a, <2>1 DEF D!Nth, Fulls
  <2> QED
    BY <1>a, <2>1, <2>2, FloatArms, Constructors
<1>13. w.funct7 \in {0, 4, 8, 12, 44, 16, 20, 80, 96, 104, 112, 120}
  BY <1>a DEF D!OpF, name
<1> QED
  BY <1>1, <1>2, <1>3, <1>4, <1>5, <1>6, <1>7, <1>8, <1>9, <1>10, <1>11, <1>12, <1>13

\* The words of memory and the fused operations are the same for both formats, but for the names.
LEMMA SameFloatMemory ==
  ASSUME NEW w \in Fulls, NEW class \in {"F", "D"}
  PROVE  /\ \A name \in {"flw", "fld"} : Same(w, D!Op(class, name, D!OperandI(w)), O!FpLoad(w, name))
         /\ \A name \in {"fsw", "fsd"} : Same(w, D!Op(class, name, D!OperandS(w)), O!FpStore(w, name))
<1>1. ASSUME NEW name \in {"flw", "fld"} PROVE Same(w, D!Op(class, name, D!OperandI(w)), O!FpLoad(w, name))
  <2>1. Same(w, D!Op(class, name, D!OperandI(w)), O!Make(name, <<w.rd, w.rs1, O!ImmI(w)>>))
    BY SameNamed, FitsIntegers, Constructors
  <2> QED
    BY <2>1 DEF O!FpLoad
<1>2. ASSUME NEW name \in {"fsw", "fsd"} PROVE Same(w, D!Op(class, name, D!OperandS(w)), O!FpStore(w, name))
  <2>1. Fits(w, D!Op(class, name, D!OperandS(w)), <<w.rd, w.rs1, O!ImmS(w)>>, T!TwoSources)
    BY SaysOperand, SameFields DEF Fits, T!TwoSources, D!Op, D!OperandS, Misreads, O!ImmS
  <2>2. Same(w, D!Op(class, name, D!OperandS(w)), O!Make(name, <<w.rd, w.rs1, O!ImmS(w)>>))
    BY <2>1, SameNamed, Constructors
  <2> QED
    BY <2>2 DEF O!FpStore
<1> QED
  BY <1>1, <1>2

LEMMA SameFused ==
  ASSUME NEW w \in Fulls, NEW class, w.opcode \in D!FusedOpcodes, NEW first, NEW second, NEW third, NEW fourth,
         \A name \in {first, second, third, fourth} : name # "unknown" /\ T!ConstructorOf(name) = T!Fused
  PROVE  Same(w, D!Op(class, D!FusedName(w, <<first, second, third, fourth>>), D!OperandR4(w)),
              O!Fused(w, <<first, second, third, fourth>>))
<1> DEFINE name == D!FusedName(w, <<first, second, third, fourth>>)
           args == <<w.rd, w.rs1, w.rs2, O!Funct5(w), w.funct3>>
<1>1. O!Fused(w, <<first, second, third, fourth>>) = O!Make(name, args) /\ name \in {first, second, third, fourth}
  <2>1. w.opcode \in {67, 71, 75, 79}
    BY DEF D!FusedOpcodes
  <2>2. CASE w.opcode = 67
    BY <2>2 DEF O!Fused, D!FusedName, D!Nth
  <2>3. CASE w.opcode = 71
    BY <2>3 DEF O!Fused, D!FusedName, D!Nth
  <2>4. CASE w.opcode = 75
    BY <2>4 DEF O!Fused, D!FusedName, D!Nth
  <2>5. CASE w.opcode = 79
    BY <2>5 DEF O!Fused, D!FusedName, D!Nth
  <2> QED
    BY <2>1, <2>2, <2>3, <2>4, <2>5
<1> HIDE DEF name
<1>2. Fits(w, D!Op(class, name, D!OperandR4(w)), args, T!Fused)
  BY SaysOperand, SameFields DEF Fits, T!Fused, D!Op, D!OperandR4
<1> HIDE DEF args
<1>3. Same(w, D!Op(class, name, D!OperandR4(w)), O!Make(name, args))
  BY <1>1, <1>2, SameNamed
<1> QED
  BY <1>1, <1>3 DEF name

LEMMA SameF ==
  ASSUME NEW x \in Xlens, NEW w \in Fulls, D!IsF(w), D!DecodeF(x, w).name # "unknown"
  PROVE  Same(w, D!DecodeF(x, w), O!Decode(x, w))
<1> DEFINE toInt == IF x = 32 THEN <<"fcvt_w_s", "fcvt_wu_s">> ELSE <<"fcvt_w_s", "fcvt_wu_s", "fcvt_l_s", "fcvt_lu_s">>
           fromInt == IF x = 32 THEN <<"fcvt_s_w", "fcvt_s_wu">> ELSE <<"fcvt_s_w", "fcvt_s_wu", "fcvt_s_l", "fcvt_s_lu">>
<1>1. O!Decode(x, w) = CASE O!IsLoadFp(w) -> O!FpLoad(w, "flw")
                         [] O!IsStoreFp(w) -> O!FpStore(w, "fsw")
                         [] w.opcode \in O!FusedOpcodes -> O!Fused32(w)
                         [] OTHER -> O!OpFp32(w, toInt, fromInt)
  BY Dispatch DEF O!DecodeRV32F, O!DecodeRV64F
<1>2. (O!IsLoadFp(w) <=> w.opcode = 7) /\ (O!IsStoreFp(w) <=> w.opcode = 39) /\ O!FusedOpcodes = {67, 71, 75, 79}
  BY DEF O!IsLoadFp, O!IsStoreFp, O!FusedOpcodes
<1>3. (D!IsLoadFp(w) <=> w.opcode = 7) /\ (D!IsStoreFp(w) <=> w.opcode = 39) /\ D!FusedOpcodes = {67, 71, 75, 79}
  BY DEF D!IsLoadFp, D!IsStoreFp, D!FusedOpcodes
<1>4. CASE w.opcode = 7
  <2>1. D!DecodeF(x, w) = D!Op("F", "flw", D!OperandI(w)) /\ O!Decode(x, w) = O!FpLoad(w, "flw")
    BY <1>1, <1>2, <1>3, <1>4 DEF D!DecodeF
  <2> QED
    BY <2>1, SameFloatMemory
<1>5. CASE w.opcode = 39
  <2>1. D!DecodeF(x, w) = D!Op("F", "fsw", D!OperandS(w)) /\ O!Decode(x, w) = O!FpStore(w, "fsw")
    BY <1>1, <1>2, <1>3, <1>5 DEF D!DecodeF
  <2> QED
    BY <2>1, SameFloatMemory
<1>6. CASE w.opcode \in {67, 71, 75, 79}
  <2>1. /\ D!DecodeF(x, w) = D!Op("F", D!FusedName(w, <<"fmadd_s", "fmsub_s", "fnmsub_s", "fnmadd_s">>), D!OperandR4(w))
        /\ O!Decode(x, w) = O!Fused(w, <<"fmadd_s", "fmsub_s", "fnmsub_s", "fnmadd_s">>)
    BY <1>1, <1>2, <1>3, <1>6 DEF D!DecodeF, O!Fused32
  <2> QED
    BY <1>3, <1>6, <2>1, SameFused, Constructors
<1>7. CASE w.opcode \notin {7, 39, 67, 71, 75, 79}
  <2>1. D!DecodeF(x, w) = D!Named("F", D!OpF(x, w), D!OperandR(w)) /\ O!Decode(x, w) = O!OpFp32(w, toInt, fromInt)
    BY <1>1, <1>2, <1>3, <1>7 DEF D!DecodeF
  <2>2. D!OpF(x, w) # "unknown"
    BY <2>1 DEF D!Named, D!Unknown, D!Op
  <2>3. /\ D!ToInt(<<"fcvt_w_s", "fcvt_wu_s", "fcvt_l_s", "fcvt_lu_s">>, x, w) = D!Nth(toInt, w.rs2)
        /\ D!ToInt(<<"fcvt_s_w", "fcvt_s_wu", "fcvt_s_l", "fcvt_s_lu">>, x, w) = D!Nth(fromInt, w.rs2)
    BY DEF D!ToInt, D!Nth, Fulls
  <2> HIDE DEF toInt, fromInt
  <2> QED
    BY <2>1, <2>2, <2>3, SameOpF
<1> QED
  BY <1>4, <1>5, <1>6, <1>7

\* RV32D: what OpFp64 has for each code, the conversions of 64-bit integers and their moves left out of op32.
LEMMA SameOpD ==
  ASSUME NEW x \in Xlens, NEW w \in Fulls, NEW b, D!OpD(w) # "unknown",
         b = IF x = 32 THEN O!OpFp64(w, <<"fcvt_w_d", "fcvt_wu_d">>, <<"fcvt_d_w", "fcvt_d_wu">>) ELSE O!MoveOrOpFp64(w)
  PROVE  \/ Same(w, D!Named("D", D!OpD(w), D!OperandR(w)), b)
         \/ x = 32 /\ D!OpD(w) \in Wide /\ b.name = "unknown"
<1> DEFINE name == D!OpD(w)
           toInt == IF x = 32 THEN <<"fcvt_w_d", "fcvt_wu_d">> ELSE <<"fcvt_w_d", "fcvt_wu_d", "fcvt_l_d", "fcvt_lu_d">>
           fromInt == IF x = 32 THEN <<"fcvt_d_w", "fcvt_d_wu">> ELSE <<"fcvt_d_w", "fcvt_d_wu", "fcvt_d_l", "fcvt_d_lu">>
<1> SUFFICES \/ Same(w, D!Named("D", name, D!OperandR(w)), b)
             \/ x = 32 /\ name \in Wide /\ b.name = "unknown"
  OBVIOUS
<1>a. name # "unknown"
  OBVIOUS
<1>b. x = 64 /\ w.funct7 = 113 /\ w.funct3 = 0 => b = O!Moved(w, <<"fmv_x_d">>)
  BY DEF O!MoveOrOpFp64
<1>c. x = 64 /\ w.funct7 = 121 => b = O!Moved(w, <<"fmv_d_x">>)
  BY DEF O!MoveOrOpFp64
<1>d. x = 32 \/ (~(w.funct7 = 113 /\ w.funct3 = 0) /\ w.funct7 # 121) => b = O!OpFp64(w, toInt, fromInt)
  BY DEF O!MoveOrOpFp64
<1> HIDE DEF name, toInt, fromInt
<1>1. CASE w.funct7 = 1
  <2>1. name = "fadd_d" /\ b = O!Rounded(w, "fadd_d")
    BY <1>1, <1>d DEF D!OpD, O!OpFp64, name
  <2> QED
    BY <1>a, <2>1, FloatArms, Constructors
<1>2. CASE w.funct7 = 5
  <2>1. name = "fsub_d" /\ b = O!Rounded(w, "fsub_d")
    BY <1>2, <1>d DEF D!OpD, O!OpFp64, name
  <2> QED
    BY <1>a, <2>1, FloatArms, Constructors
<1>3. CASE w.funct7 = 9
  <2>1. name = "fmul_d" /\ b = O!Rounded(w, "fmul_d")
    BY <1>3, <1>d DEF D!OpD, O!OpFp64, name
  <2> QED
    BY <1>a, <2>1, FloatArms, Constructors
<1>4. CASE w.funct7 = 13
  <2>1. name = "fdiv_d" /\ b = O!Rounded(w, "fdiv_d")
    BY <1>4, <1>d DEF D!OpD, O!OpFp64, name
  <2> QED
    BY <1>a, <2>1, FloatArms, Constructors
<1>5. CASE w.funct7 = 45
  <2>1. name = D!Nth(<<"fsqrt_d">>, w.rs2) /\ b = O!SquareRoot(w, "fsqrt_d")
    BY <1>5, <1>d DEF D!OpD, O!OpFp64, name
  <2>2. name = "fsqrt_d" /\ w.rs2 = 0
    <3>1. CASE w.rs2 = 0
      BY <2>1, <3>1 DEF D!Nth
    <3>2. CASE w.rs2 # 0
      <4>1. w.rs2 \in Nat /\ ~(w.rs2 < 1)
        BY <3>2 DEF Fulls
      <4> QED
        BY <1>a, <2>1, <4>1 DEF D!Nth
    <3> QED
      BY <3>1, <3>2
  <2> QED
    BY <1>a, <2>1, <2>2, FloatArms, Constructors
<1>6. CASE w.funct7 = 17
  <2>1. name = D!Nth(<<"fsgnj_d", "fsgnjn_d", "fsgnjx_d">>, w.funct3) /\ b = O!Compared(w, <<"fsgnj_d", "fsgnjn_d", "fsgnjx_d">>)
    BY <1>6, <1>d DEF D!OpD, O!OpFp64, name
  <2>2. name \in {"fsgnj_d", "fsgnjn_d", "fsgnjx_d"}
    BY <1>a, <2>1 DEF D!Nth, Fulls
  <2> QED
    BY <1>a, <2>1, <2>2, FloatArms, Constructors
<1>7. CASE w.funct7 = 21
  <2>1. name = D!Nth(<<"fmin_d", "fmax_d">>, w.funct3) /\ b = O!Compared(w, <<"fmin_d", "fmax_d">>)
    BY <1>7, <1>d DEF D!OpD, O!OpFp64, name
  <2>2. name \in {"fmin_d", "fmax_d"}
    BY <1>a, <2>1 DEF D!Nth, Fulls
  <2> QED
    BY <1>a, <2>1, <2>2, FloatArms, Constructors
<1>8. CASE w.funct7 = 81
  <2>1. name = D!Nth(<<"fle_d", "flt_d", "feq_d">>, w.funct3) /\ b = O!Compared(w, <<"fle_d", "flt_d", "feq_d">>)
    BY <1>8, <1>d DEF D!OpD, O!OpFp64, name
  <2>2. name \in {"fle_d", "flt_d", "feq_d"}
    BY <1>a, <2>1 DEF D!Nth, Fulls
  <2> QED
    BY <1>a, <2>1, <2>2, FloatArms, Constructors
<1>9. CASE w.funct7 = 32
  <2>1. name = D!Nth(<<"unknown", "fcvt_s_d">>, w.rs2) /\ b = O!Converted(w, <<"unknown", "fcvt_s_d">>)
    BY <1>9, <1>d DEF D!OpD, O!OpFp64, name
  <2>2. name \in {"fcvt_s_d"}
    BY <1>a, <2>1 DEF D!Nth, Fulls
  <2> QED
    BY <1>a, <2>1, <2>2, FloatArms, Constructors
<1>10. CASE w.funct7 = 33
  <2>1. name = D!Nth(<<"fcvt_d_s">>, w.rs2) /\ b = O!Converted(w, <<"fcvt_d_s">>)
    BY <1>10, <1>d DEF D!OpD, O!OpFp64, name
  <2>2. name \in {"fcvt_d_s"}
    BY <1>a, <2>1 DEF D!Nth, Fulls
  <2> QED
    BY <1>a, <2>1, <2>2, FloatArms, Constructors
<1>11. CASE w.funct7 = 97
  <2>1. name = D!Nth(<<"fcvt_w_d", "fcvt_wu_d", "fcvt_l_d", "fcvt_lu_d">>, w.rs2) /\ b = O!Converted(w, toInt)
    BY <1>11, <1>d DEF D!OpD, O!OpFp64, name
  <2>2. name \in {"fcvt_w_d", "fcvt_wu_d", "fcvt_l_d", "fcvt_lu_d"}
    BY <1>a, <2>1, NthOfFour DEF Fulls
  <2>3. CASE name = D!Nth(toInt, w.rs2)
    BY <1>a, <2>1, <2>2, <2>3, FloatArms, Constructors
  <2>4. CASE name # D!Nth(toInt, w.rs2)
    <3>1. x = 32 /\ w.rs2 \in Nat /\ ~(w.rs2 < 2)
      <4>1. x = 32
        BY <2>1, <2>4 DEF toInt
      <4>2. CASE w.rs2 \in {0, 1}
        BY <2>1, <2>4, <4>1, <4>2 DEF toInt, D!Nth
      <4> QED
        BY <4>1, <4>2 DEF Fulls
    <3>2. O!Nth(<<"fcvt_w_d", "fcvt_wu_d">>, w.rs2) = "unknown"
      BY <3>1 DEF O!Nth
    <3>3. b = O!Nullptr
      BY <2>1, <3>1, <3>2 DEF O!Converted, O!New, toInt
    <3>4. name \in Wide
      <4>1. CASE w.rs2 \in {2, 3}
        BY <2>1, <4>1 DEF D!Nth, Wide
      <4>2. CASE ~(w.rs2 < 4)
        BY <1>a, <2>1, <3>1, <4>2 DEF D!Nth
      <4> QED
        BY <3>1, <4>1, <4>2
    <3> QED
      BY <3>1, <3>3, <3>4 DEF O!Nullptr, O!Make
  <2> QED
    BY <2>3, <2>4
<1>12. CASE w.funct7 = 105
  <2>1. name = D!Nth(<<"fcvt_d_w", "fcvt_d_wu", "fcvt_d_l", "fcvt_d_lu">>, w.rs2) /\ b = O!Converted(w, fromInt)
    BY <1>12, <1>d DEF D!OpD, O!OpFp64, name
  <2>2. name \in {"fcvt_d_w", "fcvt_d_wu", "fcvt_d_l", "fcvt_d_lu"}
    BY <1>a, <2>1, NthOfFour DEF Fulls
  <2>3. CASE name = D!Nth(fromInt, w.rs2)
    BY <1>a, <2>1, <2>2, <2>3, FloatArms, Constructors
  <2>4. CASE name # D!Nth(fromInt, w.rs2)
    <3>1. x = 32 /\ w.rs2 \in Nat /\ ~(w.rs2 < 2)
      <4>1. x = 32
        BY <2>1, <2>4 DEF fromInt
      <4>2. CASE w.rs2 \in {0, 1}
        BY <2>1, <2>4, <4>1, <4>2 DEF fromInt, D!Nth
      <4> QED
        BY <4>1, <4>2 DEF Fulls
    <3>2. O!Nth(<<"fcvt_d_w", "fcvt_d_wu">>, w.rs2) = "unknown"
      BY <3>1 DEF O!Nth
    <3>3. b = O!Nullptr
      BY <2>1, <3>1, <3>2 DEF O!Converted, O!New, fromInt
    <3>4. name \in Wide
      <4>1. CASE w.rs2 \in {2, 3}
        BY <2>1, <4>1 DEF D!Nth, Wide
      <4>2. CASE ~(w.rs2 < 4)
        BY <1>a, <2>1, <3>1, <4>2 DEF D!Nth
      <4> QED
        BY <3>1, <4>1, <4>2
    <3> QED
      BY <3>1, <3>3, <3>4 DEF O!Nullptr, O!Make
  <2> QED
    BY <2>3, <2>4
<1>13. CASE w.funct7 = 113
  <2>1. w.rs2 = 0 /\ name = D!Nth(<<"fmv_x_d", "fclass_d">>, w.funct3)
    BY <1>a, <1>13 DEF D!OpD, name
  <2>2. (w.funct3 = 0 /\ name = "fmv_x_d") \/ (w.funct3 = 1 /\ name = "fclass_d")
    BY <1>a, <2>1 DEF D!Nth, Fulls
  <2>3. CASE w.funct3 = 1
    <3>1. b = O!Moved(w, <<"unknown", "fclass_d">>)
      BY <1>d, <1>13, <2>3 DEF O!OpFp64
    <3>2. name = D!Nth(<<"unknown", "fclass_d">>, w.funct3)
      BY <2>2, <2>3 DEF D!Nth
    <3> QED
      BY <1>a, <2>1, <2>2, <2>3, <3>1, <3>2, FloatArms, Constructors
  <2>4. CASE w.funct3 = 0 /\ x = 64
    <3>1. name = D!Nth(<<"fmv_x_d">>, w.funct3)
      BY <2>2, <2>4 DEF D!Nth
    <3> QED
      BY <1>a, <1>b, <1>13, <2>1, <2>2, <2>4, <3>1, FloatArms, Constructors
  <2>5. CASE w.funct3 = 0 /\ x = 32
    <3>1. b = O!Nullptr
      BY <1>d, <1>13, <2>5 DEF O!OpFp64
    <3> QED
      BY <2>2, <2>5, <3>1 DEF O!Nullptr, O!Make, Wide
  <2> QED
    BY <2>2, <2>3, <2>4, <2>5 DEF Xlens
<1>14. CASE w.funct7 = 121
  <2>1. w.rs2 = 0 /\ name = D!Nth(<<"fmv_d_x">>, w.funct3)
    BY <1>a, <1>14 DEF D!OpD, name
  <2>2. name = "fmv_d_x"
    BY <1>a, <2>1 DEF D!Nth, Fulls
  <2>3. CASE x = 64
    BY <1>a, <1>c, <1>14, <2>1, <2>2, <2>3, FloatArms, Constructors
  <2>4. CASE x = 32
    <3>1. b = O!Nullptr
      BY <1>d, <1>14, <2>4 DEF O!OpFp64
    <3> QED
      BY <2>2, <2>4, <3>1 DEF O!Nullptr, O!Make, Wide
  <2> QED
    BY <2>3, <2>4 DEF Xlens
<1>15. w.funct7 \in {1, 5, 9, 13, 45, 17, 21, 81, 32, 33, 97, 105, 113, 121}
  BY <1>a DEF D!OpD, name
<1> QED
  BY <1>1, <1>2, <1>3, <1>4, <1>5, <1>6, <1>7, <1>8, <1>9, <1>10, <1>11, <1>12, <1>13, <1>14, <1>15

LEMMA SameD ==
  ASSUME NEW x \in Xlens, NEW w \in Fulls, D!IsD(w), D!DecodeD(w).name # "unknown"
  PROVE  \/ Same(w, D!DecodeD(w), O!Decode(x, w))
         \/ x = 32 /\ D!DecodeD(w).name \in Wide /\ O!Decode(x, w).name = "unknown"
<1> DEFINE b == IF x = 32 THEN O!OpFp64(w, <<"fcvt_w_d", "fcvt_wu_d">>, <<"fcvt_d_w", "fcvt_d_wu">>) ELSE O!MoveOrOpFp64(w)
<1>1. O!Decode(x, w) = CASE O!IsLoadFp(w) -> O!FpLoad(w, "fld")
                         [] O!IsStoreFp(w) -> O!FpStore(w, "fsd")
                         [] w.opcode \in O!FusedOpcodes -> O!Fused64(w)
                         [] OTHER -> b
  BY Dispatch DEF O!DecodeRV32D, O!DecodeRV64D
<1>2. (O!IsLoadFp(w) <=> w.opcode = 7) /\ (O!IsStoreFp(w) <=> w.opcode = 39) /\ O!FusedOpcodes = {67, 71, 75, 79}
  BY DEF O!IsLoadFp, O!IsStoreFp, O!FusedOpcodes
<1>3. (D!IsLoadFp(w) <=> w.opcode = 7) /\ (D!IsStoreFp(w) <=> w.opcode = 39) /\ D!FusedOpcodes = {67, 71, 75, 79}
  BY DEF D!IsLoadFp, D!IsStoreFp, D!FusedOpcodes
<1>4. CASE w.opcode = 7
  <2>1. D!DecodeD(w) = D!Op("D", "fld", D!OperandI(w)) /\ O!Decode(x, w) = O!FpLoad(w, "fld")
    BY <1>1, <1>2, <1>3, <1>4 DEF D!DecodeD
  <2> QED
    BY <2>1, SameFloatMemory
<1>5. CASE w.opcode = 39
  <2>1. D!DecodeD(w) = D!Op("D", "fsd", D!OperandS(w)) /\ O!Decode(x, w) = O!FpStore(w, "fsd")
    BY <1>1, <1>2, <1>3, <1>5 DEF D!DecodeD
  <2> QED
    BY <2>1, SameFloatMemory
<1>6. CASE w.opcode \in {67, 71, 75, 79}
  <2>1. /\ D!DecodeD(w) = D!Op("D", D!FusedName(w, <<"fmadd_d", "fmsub_d", "fnmsub_d", "fnmadd_d">>), D!OperandR4(w))
        /\ O!Decode(x, w) = O!Fused(w, <<"fmadd_d", "fmsub_d", "fnmsub_d", "fnmadd_d">>)
    BY <1>1, <1>2, <1>3, <1>6 DEF D!DecodeD, O!Fused64
  <2> QED
    BY <1>3, <1>6, <2>1, SameFused, Constructors
<1>7. CASE w.opcode \notin {7, 39, 67, 71, 75, 79}
  <2>1. D!DecodeD(w) = D!Named("D", D!OpD(w), D!OperandR(w)) /\ O!Decode(x, w) = b
    BY <1>1, <1>2, <1>3, <1>7 DEF D!DecodeD
  <2>2. D!OpD(w) # "unknown" /\ D!DecodeD(w).name = D!OpD(w)
    BY <2>1 DEF D!Named, D!Unknown, D!Op
  <2>3. b = IF x = 32 THEN O!OpFp64(w, <<"fcvt_w_d", "fcvt_wu_d">>, <<"fcvt_d_w", "fcvt_d_wu">>) ELSE O!MoveOrOpFp64(w)
    OBVIOUS
  <2> HIDE DEF b
  <2> QED
    BY <2>1, <2>2, <2>3, SameOpD
<1> QED
  BY <1>4, <1>5, <1>6, <1>7

\* A shift of a word, which the printers take for a shift.
LosesW(w, a, b) == w.opcode = 27 /\ a = D!WordImm(w) /\ a.name \in Renamed /\ b = O!Word64(w)

LEMMA SameI ==
  ASSUME NEW x \in Xlens, NEW w \in Fulls, ~D!IsM(w), ~D!IsA(w), ~D!IsF(w), ~D!IsD(w), D!DecodeI(x, w).name # "unknown"
  PROVE  Same(w, D!DecodeI(x, w), O!Decode(x, w)) \/ LosesW(w, D!DecodeI(x, w), O!Decode(x, w))
<1>1. O!Decode(x, w) = IF x = 32 THEN O!DecodeRV32I(w) ELSE O!DecodeRV64I(w)
  BY Dispatch
<1>2. w.opcode \notin {19, 27, 59} => O!Decode(x, w) = O!Integer(x, w)
  BY <1>1 DEF O!DecodeRV32I, O!DecodeRV64I, Xlens
<1>3. x = 64 /\ w.opcode \in {27, 59} => O!Decode(x, w) = O!Word64(w)
  BY <1>1 DEF O!DecodeRV64I
<1>4. CASE w.opcode = 55
  BY <1>2, <1>4, SameJump DEF D!DecodeI, O!Integer
<1>5. CASE w.opcode = 23
  BY <1>2, <1>5, SameJump DEF D!DecodeI, O!Integer
<1>6. CASE w.opcode = 111
  BY <1>2, <1>6, SameJump DEF D!DecodeI, O!Integer
<1>7. CASE w.opcode = 103
  BY <1>2, <1>7, SameJump DEF D!DecodeI, O!Integer
<1>8. CASE w.opcode = 99
  BY <1>2, <1>8, SameBranch DEF D!DecodeI, O!Integer
<1>9. CASE w.opcode = 3
  BY <1>2, <1>9, SameMemory DEF D!DecodeI, O!Integer
<1>10. CASE w.opcode = 35
  BY <1>2, <1>10, SameMemory DEF D!DecodeI, O!Integer
<1>11. CASE w.opcode = 19
  BY <1>11, SameAluImm DEF D!DecodeI
<1>12. CASE w.opcode = 51
  BY <1>2, <1>12, SameAlu DEF D!DecodeI, O!Integer
<1>13. CASE w.opcode = 27 /\ x = 64
  BY <1>3, <1>13, SameWord DEF D!DecodeI, LosesW
<1>14. CASE w.opcode = 59 /\ x = 64
  BY <1>3, <1>14, SameWord DEF D!DecodeI
<1>15. CASE w.opcode = 15
  BY <1>2, <1>15, SameFence DEF D!DecodeI, O!Integer
<1>16. CASE w.opcode = 115
  BY <1>2, <1>16, SameSystem DEF D!DecodeI, O!Integer
<1>17. w.opcode \in {55, 23, 111, 103, 99, 3, 35, 19, 51, 15, 115} \/ (w.opcode \in {27, 59} /\ x = 64)
  BY DEF D!DecodeI, D!Unknown, D!Op
<1> QED
  BY <1>4, <1>5, <1>6, <1>7, <1>8, <1>9, <1>10, <1>11, <1>12, <1>13, <1>14, <1>15, <1>16, <1>17

\* A full word, and what each decoder takes it for.
LEMMA SameDecode ==
  ASSUME NEW x \in Xlens, NEW w \in Fulls, D!Decode(x, w).name # "unknown"
  PROVE  \/ Same(w, D!Decode(x, w), O!Decode(x, w))
         \/ LosesW(w, D!Decode(x, w), O!Decode(x, w))
         \/ x = 32 /\ D!Decode(x, w).name \in Wide /\ O!Decode(x, w).name = "unknown"
<1>1. CASE D!IsM(w)
  BY <1>1, Dispatch, SameM
<1>2. CASE D!IsA(w)
  BY <1>2, Dispatch, SameA
<1>3. CASE D!IsF(w)
  BY <1>3, Dispatch, SameF
<1>4. CASE D!IsD(w)
  BY <1>4, Dispatch, SameD
<1>5. CASE ~D!IsM(w) /\ ~D!IsA(w) /\ ~D!IsF(w) /\ ~D!IsD(w)
  BY <1>5, Dispatch, SameI
<1> QED
  BY <1>1, <1>2, <1>3, <1>4, <1>5

\* An operation of the printers is one of the classes of its width.
IsClass(x, b) == b.name \in (IF x = 32 THEN T!Classes32 ELSE T!Classes64) \cup {"unknown"}

LEMMA BothWidths ==
  T!Classes32 \subseteq T!Classes64
<1>1. T!RV32I_Alu \subseteq T!RV64I_Add \cup T!RV64I_Logic
  BY DEF T!RV32I_Alu, T!RV64I_Add, T!RV64I_Logic
<1>2. T!RV32A_Classes \subseteq T!RV64A_Reservation \cup T!RV64A_Amo
  BY DEF T!RV32A_Classes, T!RV64A_Reservation, T!RV64A_Amo
<1> QED
  BY <1>1, <1>2 DEF T!Classes32, T!Classes64, T!RV64I_UpperAndJump, T!RV64I_Branch, T!RV64I_Load, T!RV64I_Store,
     T!RV64I_AluImm, T!RV64I_ShiftImm, T!RV64I_Fence, T!RV64I_Csr, T!RV64I_CsrImm, T!RV64I_Privileged, T!RV64M_Classes,
     T!RV64F_Classes, T!RV64D_Classes

LEMMA HasConstructor ==
  ASSUME NEW name \in T!Classes64
  PROVE  Distinct(T!ConstructorOf(name))
<1>1. T!ConstructorOf(name) \in
        {T!Jump, T!TwoSources, T!Immediate, T!Shift, T!Three, T!Two, T!NoParameters, T!FenceBits, <<"rs1", "rs2">>,
         T!CsrRegister, T!CsrImmediate, T!Reserved, T!Ordered, T!Fused, T!Rounded, T!Converted}
  BY SMTT(60) DEF T!ConstructorOf, T!Classes64, T!RV64I_Fence, T!RV32I_Fence, T!RV64A_Reservation,
       T!RV32F_Classes, T!RV64F_Classes, T!RV32D_Classes, T!RV64D_Classes,
       T!RV64I_UpperAndJump, T!RV32I_UpperAndJump, T!RV64I_Branch, T!RV32I_Branch, T!RV64I_Store, T!RV32I_Store,
       T!RV64I_Load, T!RV32I_Load, T!RV64I_AluImm, T!RV32I_AluImm, T!RV64I_ShiftImm, T!RV32I_ShiftImm, T!RV64I_Add,
       T!RV64I_Logic, T!RV64M_Classes, T!RV32M_Classes, T!SignNames, T!RV32F_Sign, T!RV32D_Sign, T!CompareNames,
       T!RV32F_Compare, T!RV32D_Compare, T!MoveNames, T!RV64I_Privileged, T!RV32I_Privileged, T!RV64I_Csr, T!RV32I_Csr,
       T!RV64I_CsrImm, T!RV32I_CsrImm, T!RV64A_Amo, T!RV32A_Amo, T!FusedNames, T!RV32F_Fused, T!RV32D_Fused,
       T!ArithmeticNames, T!RV32F_Arithmetic, T!RV32D_Arithmetic, T!RV64F_Conversion, T!RV32F_Conversion,
       T!RV64D_Conversion, T!RV32D_Conversion
<1> QED
  BY <1>1, ConstructorsDistinct

LEMMA MadeIsClass ==
  ASSUME NEW x, NEW name, NEW args, name \in (IF x = 32 THEN T!Classes32 ELSE T!Classes64) \cup {"unknown"}
  PROVE  IsClass(x, O!Make(name, args)) /\ IsClass(x, O!New(name, args)) /\ IsClass(x, O!Nullptr)
BY DEF IsClass, O!Make, O!New, O!Nullptr

\* The names in the tables of each decoder of an extension.
LEMMA IntegerClasses ==
  ASSUME NEW x \in Xlens, NEW w \in Fulls
  PROVE  IsClass(x, O!Integer(x, w))
<1> DEFINE classes == (IF x = 32 THEN T!Classes32 ELSE T!Classes64) \cup {"unknown"}
<1>0. {"lui", "auipc", "jal", "jalr", "beq", "bne", "blt", "bge", "bltu", "bgeu", "lb", "lh", "lw", "lbu", "lhu",
       "sb", "sh", "sw", "fence", "fence_i", "sfence_vma", "ecall", "ebreak", "uret", "sret", "wfi", "mret",
       "csrrw", "csrrs", "csrrc", "csrrwi", "csrrsi", "csrrci", "unknown",
       "add", "sub", "sll", "slt", "sltu", "xor", "srl", "sra", "or", "and"} \subseteq classes
  <2>1. {"lui", "auipc", "jal", "jalr", "beq", "bne", "blt", "bge", "bltu", "bgeu", "lb", "lh", "lw", "lbu", "lhu",
         "sb", "sh", "sw", "fence", "fence_i", "sfence_vma", "ecall", "ebreak", "uret", "sret", "wfi", "mret",
         "csrrw", "csrrs", "csrrc", "csrrwi", "csrrsi", "csrrci",
         "add", "sub", "sll", "slt", "sltu", "xor", "srl", "sra", "or", "and"} \subseteq T!Classes32
    BY DEF T!Classes32, T!RV32I_UpperAndJump, T!RV32I_Branch, T!RV32I_Load, T!RV32I_Store, T!RV32I_Fence, T!RV32I_Csr,
       T!RV32I_CsrImm, T!RV32I_Privileged, T!RV32I_Alu
  <2> QED
    BY <2>1, BothWidths
<1>9. x = 64 => {"ld", "lwu", "sd"} \subseteq classes
  BY DEF T!Classes64, T!RV64I_Load, T!RV64I_Store
<1>1. w.opcode \in {55, 23, 111, 103} => IsClass(x, O!UpperOrJump(w))
  <2>1. O!Nth(<<"jalr">>, w.funct3) \in classes
    BY <1>0 DEF O!Nth, Fulls
  <2> QED
    BY <1>0, <2>1, MadeIsClass DEF O!UpperOrJump
<1>2. IsClass(x, O!Branch(w))
  <2>1. O!Nth(<<"beq", "bne", "unknown", "unknown", "blt", "bge", "bltu", "bgeu">>, w.funct3) \in classes
    BY <1>0 DEF O!Nth, Fulls
  <2> HIDE DEF classes
  <2> QED
    BY <2>1, MadeIsClass DEF O!Branch, classes
<1>3. IsClass(x, O!LoadOrStore(x, w))
  <2> DEFINE loads == IF x = 32 THEN <<"lb", "lh", "lw", "unknown", "lbu", "lhu">>
                                ELSE <<"lb", "lh", "lw", "ld", "lbu", "lhu", "lwu">>
             stores == IF x = 32 THEN <<"sb", "sh", "sw">> ELSE <<"sb", "sh", "sw", "sd">>
  <2>1. O!Nth(loads, w.funct3) \in classes
    <3> HIDE DEF classes
    <3> QED
      BY <1>0, <1>9 DEF O!Nth, Fulls, Xlens
  <2>2. O!Nth(stores, w.funct3) \in classes
    <3> HIDE DEF classes
    <3> QED
      BY <1>0, <1>9 DEF O!Nth, Fulls, Xlens
  <2> QED
    BY <2>1, <2>2, MadeIsClass DEF O!LoadOrStore
<1>4. IsClass(x, O!New(O!AluName(w), O!Registers(w)))
  <2>1. O!AluName(w) \in classes
    <3> HIDE DEF classes
    <3> QED
      BY <1>0 DEF O!AluName, O!Nth, Fulls
  <2> QED
    BY <2>1, MadeIsClass
<1>5. IsClass(x, O!Fence(w))
  BY <1>0, MadeIsClass DEF O!Fence
<1>6. IsClass(x, O!System(w))
  <2> DEFINE csr == O!Nth(<<"csrrw", "csrrs", "csrrc", "unknown", "csrrwi", "csrrsi", "csrrci">>, w.funct3 - 1)
             priv == CASE O!Funct12(w) \in {0, 1, 2} -> O!Nth(<<"ecall", "ebreak", "uret">>, O!Funct12(w))
                       [] O!Funct12(w) = 258 -> "sret"
                       [] O!Funct12(w) = 261 -> "wfi"
                       [] O!Funct12(w) = 770 -> "mret"
                       [] OTHER -> "unknown"
  <2>1. w.funct3 # 0 => csr \in classes
    <3>1. w.funct3 # 0 => w.funct3 - 1 \in 0 .. 6
      BY DEF Fulls
    <3> HIDE DEF classes
    <3> QED
      BY <1>0, <3>1 DEF O!Nth
  <2>2. priv \in classes
    <3> HIDE DEF classes
    <3>1. CASE O!Funct12(w) \in {0, 1, 2}
      BY <1>0, <3>1 DEF O!Nth
    <3>2. CASE O!Funct12(w) \notin {0, 1, 2}
      BY <1>0, <3>2
    <3> QED
      BY <3>1, <3>2
  <2>3. "sfence_vma" \in classes
    BY <1>0
  <2>4. CASE w.funct3 = 0 /\ w.rd = 0 /\ w.funct7 = 9
    BY <2>3, <2>4, MadeIsClass DEF O!System
  <2>5. CASE w.funct3 = 0 /\ w.rd = 0 /\ w.funct7 # 9 /\ w.rs1 = 0
    <3>1. O!System(w) = O!New(priv, <<>>)
      BY <2>5 DEF O!System
    <3> HIDE DEF priv
    <3> QED
      BY <2>2, <3>1, MadeIsClass
  <2>6. CASE w.funct3 \notin {0, 4}
    <3>1. O!System(w) = O!Make(csr, <<O!Funct12(w), w.rd, w.rs1>>)
      BY <2>6 DEF O!System
    <3> HIDE DEF csr
    <3> QED
      BY <2>1, <2>6, <3>1, MadeIsClass
  <2>7. CASE w.funct3 \in {0, 4} /\ ~(w.funct3 = 0 /\ w.rd = 0 /\ (w.funct7 = 9 \/ w.rs1 = 0))
    <3>1. O!System(w) = O!Nullptr
      BY <2>7 DEF O!System
    <3> QED
      BY <3>1, MadeIsClass
  <2> QED
    BY <2>4, <2>5, <2>6, <2>7
<1>7. IsClass(x, O!Nullptr)
  BY MadeIsClass
<1> HIDE DEF classes
<1> QED
  BY <1>1, <1>2, <1>3, <1>4, <1>5, <1>6, <1>7 DEF O!Integer

LEMMA ShiftClasses ==
  ASSUME NEW x \in Xlens, NEW w \in Fulls, NEW above, NEW one, NEW shamt
  PROVE  IsClass(x, O!AluImm(w, O!Shift(w, above, one), shamt)) /\ (x = 64 => IsClass(x, O!Word64(w)))
<1> DEFINE classes == (IF x = 32 THEN T!Classes32 ELSE T!Classes64) \cup {"unknown"}
<1>0. {"slli", "srli", "srai", "addi", "slti", "sltiu", "xori", "ori", "andi", "unknown"} \subseteq classes
  <2>1. {"slli", "srli", "srai", "addi", "slti", "sltiu", "xori", "ori", "andi"} \subseteq T!Classes32
    BY DEF T!Classes32, T!RV32I_AluImm, T!RV32I_ShiftImm
  <2> QED
    BY <2>1, BothWidths
<1>1. x = 64 => {"addiw", "addw", "sllw", "srlw", "subw", "sraw"} \subseteq classes
  BY DEF T!Classes64, T!RV64I_AluImm, T!RV64I_Add, T!RV64I_Logic
<1> HIDE DEF classes
<1>2. \A some, bit : O!Shift(w, some, bit) \in classes
  BY <1>0 DEF O!Shift, O!Nth, Fulls
<1>3. O!Nth(<<"addi", "unknown", "slti", "sltiu", "xori", "unknown", "ori", "andi">>, w.funct3) \in classes
  BY <1>0 DEF O!Nth, Fulls
<1>4. x = 64 => (CASE w.funct7 = 0 -> O!Nth(<<"addw", "sllw", "unknown", "unknown", "unknown", "srlw">>, w.funct3)
                   [] w.funct7 = 32 -> O!Nth(<<"subw", "unknown", "unknown", "unknown", "unknown", "sraw">>, w.funct3)
                   [] OTHER -> "unknown") \in classes
  BY <1>0, <1>1 DEF O!Nth, Fulls
<1>5. \A name, args : name \in classes => IsClass(x, O!Make(name, args)) /\ IsClass(x, O!New(name, args))
  BY MadeIsClass DEF classes
<1>6. IsClass(x, O!AluImm(w, O!Shift(w, above, one), shamt))
  BY <1>2, <1>3, <1>5 DEF O!AluImm
<1>7. x = 64 => IsClass(x, O!Word64(w))
  BY <1>0, <1>1, <1>2, <1>4, <1>5 DEF O!Word64
<1> QED
  BY <1>6, <1>7

LEMMA MulDivClasses ==
  ASSUME NEW x \in Xlens, NEW w \in Fulls
  PROVE  IsClass(x, O!DecodeRV32M(w)) /\ (x = 64 => IsClass(x, O!DecodeRV64M(w)))
<1> DEFINE classes == (IF x = 32 THEN T!Classes32 ELSE T!Classes64) \cup {"unknown"}
<1>0. {"mul", "mulh", "mulhsu", "mulhu", "div", "divu", "rem", "remu", "unknown"} \subseteq classes
  <2>1. {"mul", "mulh", "mulhsu", "mulhu", "div", "divu", "rem", "remu"} \subseteq T!Classes32
    BY DEF T!Classes32, T!RV32M_Classes
  <2> QED
    BY <2>1, BothWidths
<1>1. x = 64 => {"mulw", "divw", "divuw", "remw", "remuw"} \subseteq classes
  BY DEF T!Classes64, T!RV64M_Classes
<1> HIDE DEF classes
<1>2. O!Nth(<<"mul", "mulh", "mulhsu", "mulhu", "div", "divu", "rem", "remu">>, w.funct3) \in classes
  BY <1>0 DEF O!Nth, Fulls
<1>3. x = 64 => O!Nth(<<"mulw", "unknown", "unknown", "unknown", "divw", "divuw", "remw", "remuw">>, w.funct3) \in classes
  BY <1>0, <1>1 DEF O!Nth, Fulls
<1>4. \A name, args : name \in classes => IsClass(x, O!Make(name, args)) /\ IsClass(x, O!New(name, args))
  BY MadeIsClass DEF classes
<1> QED
  BY <1>2, <1>3, <1>4 DEF O!DecodeRV32M, O!DecodeRV64M

LEMMA AtomicClasses ==
  ASSUME NEW x \in Xlens, NEW w
  PROVE  IsClass(x, O!Atomic32(w)) /\ (x = 64 => IsClass(x, O!Atomic64(w)))
<1> DEFINE classes == (IF x = 32 THEN T!Classes32 ELSE T!Classes64) \cup {"unknown"}
<1>0. {"lr_w", "sc_w", "amoswap_w", "amoadd_w", "amoxor_w", "amoand_w", "amoor_w", "amomin_w", "amomax_w", "amominu_w",
       "amomaxu_w", "unknown"} \subseteq classes
  <2>1. {"lr_w", "sc_w", "amoswap_w", "amoadd_w", "amoxor_w", "amoand_w", "amoor_w", "amomin_w", "amomax_w", "amominu_w",
         "amomaxu_w"} \subseteq T!Classes32
    BY DEF T!Classes32, T!RV32A_Classes, T!RV32A_Amo
  <2> QED
    BY <2>1, BothWidths
<1>1. x = 64 => {"lr_d", "sc_d", "amoswap_d", "amoadd_d", "amoxor_d", "amoand_d", "amoor_d", "amomin_d", "amomax_d",
                 "amominu_d", "amomaxu_d"} \subseteq classes
  BY DEF T!Classes64, T!RV64A_Reservation, T!RV64A_Amo
<1> HIDE DEF classes
<1>2. \A name, args : name \in classes =>
        IsClass(x, O!Make(name, args)) /\ IsClass(x, O!New(name, args)) /\ IsClass(x, O!Nullptr)
  BY MadeIsClass DEF classes
<1>3. ASSUME NEW lr \in classes, NEW names, \A n \in 1 .. 10 : names[n] \in classes
      PROVE  IsClass(x, O!Atomic(w, lr, names))
  <2> DEFINE name == CASE O!Funct5(w) = 3 -> names[1]
                       [] O!Funct5(w) = 1 -> names[2]
                       [] O!Funct5(w) = 0 -> names[3]
                       [] O!Funct5(w) = 4 -> names[4]
                       [] O!Funct5(w) = 12 -> names[5]
                       [] O!Funct5(w) = 8 -> names[6]
                       [] O!Funct5(w) = 16 -> names[7]
                       [] O!Funct5(w) = 20 -> names[8]
                       [] O!Funct5(w) = 24 -> names[9]
                       [] O!Funct5(w) = 28 -> names[10]
                       [] OTHER -> "unknown"
  <2>1. name \in classes
    BY <1>0, <1>3
  <2>2. \/ O!Atomic(w, lr, names) = O!Nullptr
        \/ \E args : O!Atomic(w, lr, names) = O!Make(lr, args)
        \/ \E args : O!Atomic(w, lr, names) = O!New(name, args)
    BY DEF O!Atomic
  <2> HIDE DEF name
  <2> QED
    BY <1>2, <1>3, <2>1, <2>2
<1>4. IsClass(x, O!Atomic32(w))
  BY <1>0, <1>3 DEF O!Atomic32
<1>5. x = 64 => IsClass(x, O!Atomic64(w))
  BY <1>1, <1>3 DEF O!Atomic64
<1> QED
  BY <1>4, <1>5

\* The tables of floating point, whose longest have four names.
LEMMA FloatTables ==
  ASSUME NEW x, NEW w \in Fulls, NEW classes, classes = (IF x = 32 THEN T!Classes32 ELSE T!Classes64) \cup {"unknown"}
  PROVE  /\ \A name \in classes : /\ IsClass(x, O!FpLoad(w, name)) /\ IsClass(x, O!FpStore(w, name))
                                  /\ IsClass(x, O!Rounded(w, name)) /\ IsClass(x, O!SquareRoot(w, name))
         /\ \A a \in classes : IsClass(x, O!Moved(w, <<a>>)) /\ IsClass(x, O!Converted(w, <<a>>))
         /\ \A a, b \in classes : /\ IsClass(x, O!Compared(w, <<a, b>>)) /\ IsClass(x, O!Moved(w, <<a, b>>))
                                  /\ IsClass(x, O!Converted(w, <<a, b>>))
         /\ \A a, b, c \in classes : IsClass(x, O!Compared(w, <<a, b, c>>))
         /\ \A a, b, c, d \in classes : IsClass(x, O!Converted(w, <<a, b, c, d>>))
<1>1. \A name, args : name \in classes =>
        IsClass(x, O!Make(name, args)) /\ IsClass(x, O!New(name, args)) /\ IsClass(x, O!Nullptr)
  BY MadeIsClass
<1>2. "unknown" \in classes
  OBVIOUS
<1>3. ASSUME NEW n \in 0 .. 31, NEW a \in classes, NEW b \in classes, NEW c \in classes, NEW d \in classes
      PROVE  /\ O!Nth(<<a, b, c, d>>, n) \in classes /\ O!Nth(<<a, b, c>>, n) \in classes
             /\ O!Nth(<<a, b>>, n) \in classes /\ O!Nth(<<a>>, n) \in classes
  <2>1. CASE n \in {0, 1, 2, 3}
    BY <1>2, <2>1 DEF O!Nth
  <2>2. CASE ~(n < 4)
    BY <1>2, <2>2 DEF O!Nth
  <2> QED
    BY <2>1, <2>2
<1>4. w.funct3 \in 0 .. 31 /\ w.rs2 \in 0 .. 31
  BY DEF Fulls
<1>5. \A name \in classes : /\ IsClass(x, O!FpLoad(w, name)) /\ IsClass(x, O!FpStore(w, name))
                            /\ IsClass(x, O!Rounded(w, name)) /\ IsClass(x, O!SquareRoot(w, name))
  BY <1>1 DEF O!FpLoad, O!FpStore, O!Rounded, O!SquareRoot
<1>6. ASSUME NEW a \in classes PROVE IsClass(x, O!Moved(w, <<a>>)) /\ IsClass(x, O!Converted(w, <<a>>))
  <2>1. O!Nth(<<a>>, w.rs2) \in classes /\ O!Nth(<<a>>, w.funct3) \in classes
    BY <1>3, <1>4
  <2> QED
    BY <1>1, <2>1 DEF O!Moved, O!Converted
<1>7. ASSUME NEW a \in classes, NEW b \in classes
      PROVE  /\ IsClass(x, O!Compared(w, <<a, b>>)) /\ IsClass(x, O!Moved(w, <<a, b>>))
             /\ IsClass(x, O!Converted(w, <<a, b>>))
  <2>1. O!Nth(<<a, b>>, w.rs2) \in classes /\ O!Nth(<<a, b>>, w.funct3) \in classes
    BY <1>3, <1>4
  <2> QED
    BY <1>1, <2>1 DEF O!Compared, O!Moved, O!Converted
<1>8. ASSUME NEW a \in classes, NEW b \in classes, NEW c \in classes
      PROVE  IsClass(x, O!Compared(w, <<a, b, c>>))
  <2>1. O!Nth(<<a, b, c>>, w.funct3) \in classes
    BY <1>3, <1>4
  <2> QED
    BY <1>1, <2>1 DEF O!Compared
<1>9. ASSUME NEW a \in classes, NEW b \in classes, NEW c \in classes, NEW d \in classes
      PROVE  IsClass(x, O!Converted(w, <<a, b, c, d>>))
  <2>1. O!Nth(<<a, b, c, d>>, w.rs2) \in classes
    BY <1>3, <1>4
  <2> QED
    BY <1>1, <2>1 DEF O!Converted
<1> QED
  BY <1>5, <1>6, <1>7, <1>8, <1>9

LEMMA FloatFClasses ==
  ASSUME NEW x \in Xlens, NEW w \in Fulls, D!IsF(w)
  PROVE  IsClass(x, IF x = 32 THEN O!DecodeRV32F(w) ELSE O!DecodeRV64F(w))
<1> DEFINE classes == (IF x = 32 THEN T!Classes32 ELSE T!Classes64) \cup {"unknown"}
<1>0. {"flw", "fsw", "fmadd_s", "fmsub_s", "fnmsub_s", "fnmadd_s", "fadd_s", "fsub_s", "fmul_s", "fdiv_s",
       "fsqrt_s", "fsgnj_s", "fsgnjn_s", "fsgnjx_s", "fmin_s", "fmax_s", "fmv_x_w", "fclass_s", "fle_s",
       "flt_s", "feq_s", "fmv_w_x", "fcvt_w_s", "fcvt_wu_s", "fcvt_s_w", "fcvt_s_wu", "unknown"} \subseteq classes
  <2>1. {"flw", "fsw", "fmadd_s", "fmsub_s", "fnmsub_s", "fnmadd_s", "fadd_s", "fsub_s", "fmul_s", "fdiv_s",
         "fsqrt_s", "fsgnj_s", "fsgnjn_s", "fsgnjx_s", "fmin_s", "fmax_s", "fmv_x_w", "fclass_s", "fle_s",
         "flt_s", "feq_s", "fmv_w_x", "fcvt_w_s", "fcvt_wu_s", "fcvt_s_w", "fcvt_s_wu"} \subseteq T!Classes32
    BY DEF T!Classes32, T!RV32F_Classes, T!RV32F_Fused, T!RV32F_Arithmetic, T!RV32F_Sign, T!RV32F_Compare, T!RV32F_Conversion
  <2> QED
    BY <2>1, BothWidths
<1>1. x = 64 => {"fcvt_l_s", "fcvt_lu_s", "fcvt_s_l", "fcvt_s_lu"} \subseteq classes
  BY DEF T!Classes64, T!RV64F_Classes, T!RV64F_Conversion
<1>2. \A name, args : name \in classes => IsClass(x, O!Make(name, args)) /\ IsClass(x, O!Nullptr)
  BY MadeIsClass
<1>3. classes = (IF x = 32 THEN T!Classes32 ELSE T!Classes64) \cup {"unknown"}
  OBVIOUS
<1> HIDE DEF classes
<1>4. w.opcode \in O!FusedOpcodes => IsClass(x, O!Fused32(w))
  BY <1>0, <1>2 DEF O!Fused32, O!Fused, O!FusedOpcodes
<1>5. ASSUME NEW toInt, NEW fromInt, IsClass(x, O!Converted(w, toInt)), IsClass(x, O!Converted(w, fromInt))
      PROVE  IsClass(x, O!OpFp32(w, toInt, fromInt))
  <2>1. /\ \A name \in {"fadd_s", "fsub_s", "fmul_s", "fdiv_s"} : IsClass(x, O!Rounded(w, name))
        /\ IsClass(x, O!SquareRoot(w, "fsqrt_s"))
    BY <1>0, <1>3, FloatTables
  <2>2. /\ IsClass(x, O!Compared(w, <<"fsgnj_s", "fsgnjn_s", "fsgnjx_s">>))
        /\ IsClass(x, O!Compared(w, <<"fmin_s", "fmax_s">>))
        /\ IsClass(x, O!Compared(w, <<"fle_s", "flt_s", "feq_s">>))
    BY <1>0, <1>3, FloatTables
  <2>3. IsClass(x, O!Moved(w, <<"fmv_x_w", "fclass_s">>)) /\ IsClass(x, O!Moved(w, <<"fmv_w_x">>))
    BY <1>0, <1>3, FloatTables
  <2>4. IsClass(x, O!Nullptr)
    BY <1>0, <1>2
  <2> QED
    BY <1>5, <2>1, <2>2, <2>3, <2>4 DEF O!OpFp32
<1>6. CASE x = 32
  <2>1. /\ IsClass(x, O!Converted(w, <<"fcvt_w_s", "fcvt_wu_s">>))
        /\ IsClass(x, O!Converted(w, <<"fcvt_s_w", "fcvt_s_wu">>))
    BY <1>0, <1>3, FloatTables
  <2>2. IsClass(x, O!OpFp32(w, <<"fcvt_w_s", "fcvt_wu_s">>, <<"fcvt_s_w", "fcvt_s_wu">>))
    BY <1>5, <2>1
  <2>8. IsClass(x, O!FpLoad(w, "flw")) /\ IsClass(x, O!FpStore(w, "fsw"))
    BY <1>0, <1>3, FloatTables
  <2>9. IsClass(x, O!DecodeRV32F(w))
    BY <1>4, <2>2, <2>8 DEF O!DecodeRV32F
  <2> QED
    BY <1>6, <2>9
<1>7. CASE x = 64
  <2>1. /\ IsClass(x, O!Converted(w, <<"fcvt_w_s", "fcvt_wu_s", "fcvt_l_s", "fcvt_lu_s">>))
        /\ IsClass(x, O!Converted(w, <<"fcvt_s_w", "fcvt_s_wu", "fcvt_s_l", "fcvt_s_lu">>))
    BY <1>0, <1>1, <1>3, <1>7, FloatTables
  <2>2. IsClass(x, O!OpFp32(w, <<"fcvt_w_s", "fcvt_wu_s", "fcvt_l_s", "fcvt_lu_s">>,
                               <<"fcvt_s_w", "fcvt_s_wu", "fcvt_s_l", "fcvt_s_lu">>))
    BY <1>5, <2>1
  <2>8. IsClass(x, O!FpLoad(w, "flw")) /\ IsClass(x, O!FpStore(w, "fsw"))
    BY <1>0, <1>3, FloatTables
  <2>9. IsClass(x, O!DecodeRV64F(w))
    BY <1>4, <2>2, <2>8 DEF O!DecodeRV64F
  <2> QED
    BY <1>7, <2>9
<1> QED
  BY <1>6, <1>7 DEF Xlens

LEMMA FloatDClasses ==
  ASSUME NEW x \in Xlens, NEW w \in Fulls, D!IsD(w)
  PROVE  IsClass(x, IF x = 32 THEN O!DecodeRV32D(w) ELSE O!DecodeRV64D(w))
<1> DEFINE classes == (IF x = 32 THEN T!Classes32 ELSE T!Classes64) \cup {"unknown"}
<1>0. {"fld", "fsd", "fmadd_d", "fmsub_d", "fnmsub_d", "fnmadd_d", "fadd_d", "fsub_d", "fmul_d", "fdiv_d",
       "fsqrt_d", "fsgnj_d", "fsgnjn_d", "fsgnjx_d", "fmin_d", "fmax_d", "fcvt_s_d", "fcvt_d_s", "fle_d",
       "flt_d", "feq_d", "fclass_d", "fcvt_w_d", "fcvt_wu_d", "fcvt_d_w", "fcvt_d_wu", "unknown"} \subseteq classes
  <2>1. {"fld", "fsd", "fmadd_d", "fmsub_d", "fnmsub_d", "fnmadd_d", "fadd_d", "fsub_d", "fmul_d", "fdiv_d",
         "fsqrt_d", "fsgnj_d", "fsgnjn_d", "fsgnjx_d", "fmin_d", "fmax_d", "fcvt_s_d", "fcvt_d_s", "fle_d",
         "flt_d", "feq_d", "fclass_d", "fcvt_w_d", "fcvt_wu_d", "fcvt_d_w", "fcvt_d_wu"} \subseteq T!Classes32
    BY DEF T!Classes32, T!RV32D_Classes, T!RV32D_Fused, T!RV32D_Arithmetic, T!RV32D_Sign, T!RV32D_Compare, T!RV32D_Conversion
  <2> QED
    BY <2>1, BothWidths
<1>1. x = 64 => {"fcvt_l_d", "fcvt_lu_d", "fcvt_d_l", "fcvt_d_lu", "fmv_x_d", "fmv_d_x"} \subseteq classes
  BY DEF T!Classes64, T!RV64D_Classes, T!RV64D_Conversion
<1>2. \A name, args : name \in classes => IsClass(x, O!Make(name, args)) /\ IsClass(x, O!Nullptr)
  BY MadeIsClass
<1>3. classes = (IF x = 32 THEN T!Classes32 ELSE T!Classes64) \cup {"unknown"}
  OBVIOUS
<1> HIDE DEF classes
<1>4. w.opcode \in O!FusedOpcodes => IsClass(x, O!Fused64(w))
  BY <1>0, <1>2 DEF O!Fused64, O!Fused, O!FusedOpcodes
<1>5. ASSUME NEW toInt, NEW fromInt, IsClass(x, O!Converted(w, toInt)), IsClass(x, O!Converted(w, fromInt))
      PROVE  IsClass(x, O!OpFp64(w, toInt, fromInt))
  <2>1. /\ \A name \in {"fadd_d", "fsub_d", "fmul_d", "fdiv_d"} : IsClass(x, O!Rounded(w, name))
        /\ IsClass(x, O!SquareRoot(w, "fsqrt_d"))
    BY <1>0, <1>3, FloatTables
  <2>2. /\ IsClass(x, O!Compared(w, <<"fsgnj_d", "fsgnjn_d", "fsgnjx_d">>))
        /\ IsClass(x, O!Compared(w, <<"fmin_d", "fmax_d">>))
        /\ IsClass(x, O!Compared(w, <<"fle_d", "flt_d", "feq_d">>))
    BY <1>0, <1>3, FloatTables
  <2>3. /\ IsClass(x, O!Moved(w, <<"unknown", "fclass_d">>))
        /\ IsClass(x, O!Converted(w, <<"unknown", "fcvt_s_d">>)) /\ IsClass(x, O!Converted(w, <<"fcvt_d_s">>))
    BY <1>0, <1>3, FloatTables
  <2>4. IsClass(x, O!Nullptr)
    BY <1>0, <1>2
  <2> QED
    BY <1>5, <2>1, <2>2, <2>3, <2>4 DEF O!OpFp64
<1>6. CASE x = 32
  <2>1. /\ IsClass(x, O!Converted(w, <<"fcvt_w_d", "fcvt_wu_d">>))
        /\ IsClass(x, O!Converted(w, <<"fcvt_d_w", "fcvt_d_wu">>))
    BY <1>0, <1>3, FloatTables
  <2>2. IsClass(x, O!OpFp64(w, <<"fcvt_w_d", "fcvt_wu_d">>, <<"fcvt_d_w", "fcvt_d_wu">>))
    BY <1>5, <2>1
  <2>8. IsClass(x, O!FpLoad(w, "fld")) /\ IsClass(x, O!FpStore(w, "fsd"))
    BY <1>0, <1>3, FloatTables
  <2>9. IsClass(x, O!DecodeRV32D(w))
    BY <1>4, <2>2, <2>8 DEF O!DecodeRV32D
  <2> QED
    BY <1>6, <2>9
<1>7. CASE x = 64
  <2>1. /\ IsClass(x, O!Converted(w, <<"fcvt_w_d", "fcvt_wu_d", "fcvt_l_d", "fcvt_lu_d">>))
        /\ IsClass(x, O!Converted(w, <<"fcvt_d_w", "fcvt_d_wu", "fcvt_d_l", "fcvt_d_lu">>))
    BY <1>0, <1>1, <1>3, <1>7, FloatTables
  <2>2. IsClass(x, O!OpFp64(w, <<"fcvt_w_d", "fcvt_wu_d", "fcvt_l_d", "fcvt_lu_d">>,
                               <<"fcvt_d_w", "fcvt_d_wu", "fcvt_d_l", "fcvt_d_lu">>))
    BY <1>5, <2>1
  <2>3. IsClass(x, O!Moved(w, <<"fmv_x_d">>)) /\ IsClass(x, O!Moved(w, <<"fmv_d_x">>))
    BY <1>1, <1>3, <1>7, FloatTables
  <2>4. IsClass(x, O!MoveOrOpFp64(w))
    BY <2>2, <2>3 DEF O!MoveOrOpFp64
  <2>8. IsClass(x, O!FpLoad(w, "fld")) /\ IsClass(x, O!FpStore(w, "fsd"))
    BY <1>0, <1>3, FloatTables
  <2>9. IsClass(x, O!DecodeRV64D(w))
    BY <1>4, <2>4, <2>8 DEF O!DecodeRV64D
  <2> QED
    BY <1>7, <2>9
<1> QED
  BY <1>6, <1>7 DEF Xlens

LEMMA SecondIsClass ==
  ASSUME NEW x \in Xlens, NEW w \in Fulls, D!Decode(x, w).name # "unknown"
  PROVE  IsClass(x, O!Decode(x, w))
<1>1. CASE D!IsM(w)
  <2>1. w.opcode \in {51, 59}
    BY <1>1 DEF D!IsM
  <2>2. w.opcode = 51 \/ x = 64
    <3>1. w.opcode # 51 /\ x = 32 => D!DecodeM(x, w) = D!Op("M", D!Nth(<<>>, w.funct3), D!OperandR(w))
      BY DEF D!DecodeM
    <3>2. D!Nth(<<>>, w.funct3) = "unknown"
      BY DEF D!Nth, Fulls
    <3> QED
      BY <1>1, <3>1, <3>2, Dispatch DEF D!Op, Xlens
  <2> QED
    BY <1>1, <2>2, Dispatch, MulDivClasses DEF Xlens
<1>2. CASE D!IsA(w)
  <2>1. w.funct3 = 2 \/ x = 64
    <3>1. w.funct3 # 2 /\ x = 32 => D!DecodeA(x, w) = D!Named("A", "unknown", D!OperandR(w))
      BY DEF D!DecodeA
    <3> QED
      BY <1>2, <3>1, Dispatch DEF D!Named, D!Unknown, D!Op, Xlens
  <2> QED
    BY <1>2, <2>1, Dispatch, AtomicClasses DEF O!DecodeRV32A, O!DecodeRV64A, Xlens
<1>3. CASE D!IsF(w)
  BY <1>3, Dispatch, FloatFClasses
<1>4. CASE D!IsD(w)
  BY <1>4, Dispatch, FloatDClasses
<1>5. CASE ~D!IsM(w) /\ ~D!IsA(w) /\ ~D!IsF(w) /\ ~D!IsD(w)
  BY <1>5, Dispatch, IntegerClasses, ShiftClasses DEF O!DecodeRV32I, O!DecodeRV64I, Xlens
<1> QED
  BY <1>1, <1>2, <1>3, <1>4, <1>5

\* Every full word the decoder knows, whoever fetched it, is for both decoders
\* the same instruction with the same operands, but for the misreadings named
\* in Misread, Renamed and Wide (SameInstruction): lib/common/Decoder.cpp
\* against lib/op/OpDecoder.cpp and the constructors of include/rafi/op.
THEOREM DecodersAgree == IsaSpec => []SameInstruction
<1>1. IsaInv => SameInstruction
  <2> SUFFICES ASSUME IsaInv, Decoded, insn.length = 4
               PROVE  \/ /\ Second.name = op.name
                         /\ \A n \in DOMAIN Second.args :
                              LET p == T!Parameters(xlen)[op.name][n] IN SameArguments(p) \/ Misread(p)
                      \/ op.name \in Renamed
                      \/ xlen = 32 /\ op.name \in Wide /\ Second.name = "unknown"
    BY DEF SameInstruction
  <2> DEFINE w == TheFull(insn)
  <2>1. /\ xlen \in Xlens /\ w \in Fulls /\ op = D!Decode(xlen, w) /\ op.name # "unknown"
        /\ Second = O!Decode(xlen, w)
    BY FetchedWords DEF IsaInv, Decode, DecodeOp, Second
  <2> HIDE DEF w
  <2>2. \/ Same(w, op, Second)
        \/ op.name \in Renamed
        \/ xlen = 32 /\ op.name \in Wide /\ Second.name = "unknown"
    BY <2>1, SameDecode DEF LosesW
  <2>3. CASE Same(w, op, Second)
    <3> DEFINE parameters == T!ConstructorOf(op.name)
    <3>1. Second.name = op.name /\ Fits(w, op, Second.args, parameters)
      BY <2>3 DEF Same
    <3>2. op.name \in (IF xlen = 32 THEN T!Classes32 ELSE T!Classes64)
      BY <2>1, <3>1, SecondIsClass DEF IsClass
    <3>3. T!Parameters(xlen)[op.name] = parameters /\ Distinct(parameters)
      BY <3>2, BothWidths, HasConstructor DEF T!Parameters, T!Parameters32, T!Parameters64
    <3> HIDE DEF parameters
    <3>4. ASSUME NEW n \in DOMAIN Second.args
          PROVE  SameArguments(parameters[n]) \/ Misread(parameters[n])
      <4>1. n \in DOMAIN parameters
        BY <3>1 DEF Fits
      <4>2. T!Members(parameters, Second.args)[parameters[n]] = Second.args[n]
        BY <3>3, <4>1, MemberOf
      <4>3. Argument(parameters[n]) = Says(w, op.operand, parameters[n])
        BY DEF Argument, Says, w
      <4>4. Misreads(w, op, parameters[n]) => Misread(parameters[n])
        BY DEF Misreads, Misread, w
      <4>5. Second.args[n] = Says(w, op.operand, parameters[n]) => SameArguments(parameters[n])
        BY <3>1, <3>3, <4>2, <4>3 DEF SameArguments
      <4> QED
        BY <3>1, <4>4, <4>5 DEF Fits
    <3> QED
      BY <3>1, <3>3, <3>4
  <2> QED
    BY <2>2, <2>3
<1> QED
  BY <1>1, IsaInvariance, PTL

-----------------------------------------------------------------------------
(* The registers an effect names, part by part. *)

Reg(r) == {q \in {r} : q.kind \in {"x", "f"}}
ValueRegs(v) == {q \in {v.args[n] : n \in DOMAIN v.args} : q.kind \in {"x", "f"}}
WriteRegs(ws) == UNION {Reg(w.to) \cup ValueRegs(w.value) : w \in ws}
AccessRegs(as) == UNION {Reg(a.base) \cup ValueRegs(a.data) : a \in as}
JumpRegs(js) == UNION {Reg(j.base) \cup ValueRegs(j.when) : j \in js}

LEMMA RegistersByPart ==
  ASSUME NEW e
  PROVE  Registers(e) = WriteRegs(e.writes) \cup AccessRegs(e.access) \cup JumpRegs(e.jump)
                          \cup {r \in e.reserves : r.kind \in {"x", "f"}}
<1> DEFINE values == {w.value : w \in e.writes} \cup {a.data : a \in e.access} \cup {j.when : j \in e.jump}
           args == UNION {{v.args[n] : n \in DOMAIN v.args} : v \in values}
           operands == args \cup {w.to : w \in e.writes} \cup {a.base : a \in e.access} \cup {j.base : j \in e.jump}
                       \cup e.reserves
           Is(q) == q.kind \in {"x", "f"}
           In(q, v) == q \in {v.args[n] : n \in DOMAIN v.args}
<1>1. Registers(e) = {r \in operands : Is(r)}
  BY Zenon DEF Registers
<1>2. \A q : q \in args <=> \/ \E w \in e.writes : In(q, w.value)
                            \/ \E a \in e.access : In(q, a.data)
                            \/ \E j \in e.jump : In(q, j.when)
  <2>1. \A q : q \in args <=> \E v \in values : In(q, v)
    BY Zenon
  <2> HIDE DEF args, In
  <2> QED BY <2>1
<1>3. /\ \A q, r : q \in Reg(r) <=> q = r /\ Is(q)
      /\ \A q, v : q \in ValueRegs(v) <=> In(q, v) /\ Is(q)
  BY Zenon DEF Reg, ValueRegs
<1> HIDE DEF args, Is, In
<1>4. \A q : q \in Registers(e) <=> /\ Is(q)
                                    /\ \/ \E w \in e.writes : In(q, w.value) \/ q = w.to
                                       \/ \E a \in e.access : In(q, a.data) \/ q = a.base
                                       \/ \E j \in e.jump : In(q, j.when) \/ q = j.base
                                       \/ q \in e.reserves
  BY <1>1, <1>2
<1>5. /\ \A q : q \in WriteRegs(e.writes) <=> \E w \in e.writes : q \in Reg(w.to) \/ q \in ValueRegs(w.value)
      /\ \A q : q \in AccessRegs(e.access) <=> \E a \in e.access : q \in Reg(a.base) \/ q \in ValueRegs(a.data)
      /\ \A q : q \in JumpRegs(e.jump) <=> \E j \in e.jump : q \in Reg(j.base) \/ q \in ValueRegs(j.when)
  <2>1. \A q : q \in WriteRegs(e.writes) <=> \E w \in e.writes : q \in Reg(w.to) \cup ValueRegs(w.value)
    BY DEF WriteRegs
  <2>2. \A q : q \in AccessRegs(e.access) <=> \E a \in e.access : q \in Reg(a.base) \cup ValueRegs(a.data)
    BY DEF AccessRegs
  <2>3. \A q : q \in JumpRegs(e.jump) <=> \E j \in e.jump : q \in Reg(j.base) \cup ValueRegs(j.when)
    BY DEF JumpRegs
  <2> QED
    BY <2>1, <2>2, <2>3
<1>6. \A q : q \in {r \in e.reserves : r.kind \in {"x", "f"}} <=> q \in e.reserves /\ Is(q)
  BY DEF Is
<1> DEFINE kept == {r \in e.reserves : r.kind \in {"x", "f"}}
<1>7. \A q : q \in kept <=> q \in e.reserves /\ Is(q)
  BY <1>6
<1>8. \A q : q \in Registers(e) <=> \/ q \in WriteRegs(e.writes) \/ q \in AccessRegs(e.access)
                                    \/ q \in JumpRegs(e.jump) \/ q \in kept
  BY <1>3, <1>4, <1>5, <1>7
<1> HIDE DEF kept
<1>9. Registers(e) = WriteRegs(e.writes) \cup AccessRegs(e.access) \cup JumpRegs(e.jump) \cup kept
  BY Zenon, <1>8
<1> QED
  BY <1>9 DEF kept

LEMMA RegsOfOne ==
  /\ WriteRegs({}) = {} /\ AccessRegs({}) = {} /\ JumpRegs({}) = {}
  /\ \A w : WriteRegs({w}) = Reg(w.to) \cup ValueRegs(w.value)
  /\ \A w, v : WriteRegs({w} \cup {v}) = Reg(w.to) \cup ValueRegs(w.value) \cup Reg(v.to) \cup ValueRegs(v.value)
  /\ \A a : AccessRegs({a}) = Reg(a.base) \cup ValueRegs(a.data)
  /\ \A a, b : AccessRegs({a, b}) = Reg(a.base) \cup ValueRegs(a.data) \cup Reg(b.base) \cup ValueRegs(b.data)
  /\ \A j : JumpRegs({j}) = Reg(j.base) \cup ValueRegs(j.when)
<1> HIDE DEF Reg, ValueRegs
<1> QED
  BY Zenon DEF WriteRegs, AccessRegs, JumpRegs

\* A register of each file, without register 0.
XReg(n) == IF n = 0 THEN {} ELSE {[kind |-> "x", n |-> n]}
FReg(n) == {[kind |-> "f", n |-> n]}

LEMMA RegsOfOperands ==
  /\ \A n : Reg(E!X(n)) = XReg(n) /\ Reg(E!F(n)) = FReg(n)
  /\ \A n : Reg(E!Imm(n)) = {} /\ Reg(E!CsrAt(n)) = {}
  /\ Reg(E!Pc) = {}
  /\ \A o : Reg(E!Rm(o)) = {}
BY DEF Reg, XReg, FReg, E!X, E!F, E!Imm, E!CsrAt, E!Pc, E!Rm

LEMMA RegsOfValues ==
  /\ \A f : ValueRegs(E!Value(f, <<>>)) = {}
  /\ \A f, a : ValueRegs(E!Value(f, <<a>>)) = Reg(a)
  /\ \A f, a, b : ValueRegs(E!Value(f, <<a, b>>)) = Reg(a) \cup Reg(b)
  /\ \A f, a, b, c : ValueRegs(E!Value(f, <<a, b, c>>)) = Reg(a) \cup Reg(b) \cup Reg(c)
  /\ \A f, a, b, c, d : ValueRegs(E!Value(f, <<a, b, c, d>>)) = Reg(a) \cup Reg(b) \cup Reg(c) \cup Reg(d)
  /\ \A a : ValueRegs(E!Copy(a)) = Reg(a)
  /\ \A a, b : ValueRegs(E!Add(a, b)) = Reg(a) \cup Reg(b)
  /\ \A s, extension : ValueRegs(E!Loaded(s, extension)) = {}
  /\ ValueRegs(E!Always) = {}
<1>0. \A f, args : E!Value(f, args).args = args
  BY DEF E!Value
<1>1. \A f : ValueRegs(E!Value(f, <<>>)) = {}
  BY <1>0 DEF ValueRegs
<1>2. \A f, a : ValueRegs(E!Value(f, <<a>>)) = Reg(a)
  <2> TAKE f, a
  <2> DEFINE v == E!Value(f, <<a>>)
  <2>1. v.args = <<a>>
    BY <1>0
  <2> HIDE DEF v
  <2>2. {v.args[n] : n \in DOMAIN v.args} = {a}
    BY <2>1
  <2>3. ValueRegs(v) = {q \in {a} : q.kind \in {"x", "f"}}
    BY <2>2 DEF ValueRegs
  <2> QED BY <2>3 DEF Reg, v
<1>3. \A f, a, b : ValueRegs(E!Value(f, <<a, b>>)) = Reg(a) \cup Reg(b)
  <2> TAKE f, a, b
  <2> DEFINE v == E!Value(f, <<a, b>>)
  <2>1. v.args = <<a, b>>
    BY <1>0
  <2> HIDE DEF v
  <2>2. {v.args[n] : n \in DOMAIN v.args} = {a, b}
    BY <2>1
  <2>3. ValueRegs(v) = {q \in {a, b} : q.kind \in {"x", "f"}}
    BY <2>2 DEF ValueRegs
  <2> QED BY <2>3 DEF Reg, v
<1>4. \A f, a, b, c : ValueRegs(E!Value(f, <<a, b, c>>)) = Reg(a) \cup Reg(b) \cup Reg(c)
  <2> TAKE f, a, b, c
  <2> DEFINE v == E!Value(f, <<a, b, c>>)
  <2>1. v.args = <<a, b, c>>
    BY <1>0
  <2> HIDE DEF v
  <2>2. {v.args[n] : n \in DOMAIN v.args} = {a, b, c}
    BY <2>1
  <2>3. ValueRegs(v) = {q \in {a, b, c} : q.kind \in {"x", "f"}}
    BY <2>2 DEF ValueRegs
  <2> QED BY <2>3 DEF Reg, v
<1>5. \A f, a, b, c, d : ValueRegs(E!Value(f, <<a, b, c, d>>)) = Reg(a) \cup Reg(b) \cup Reg(c) \cup Reg(d)
  <2> TAKE f, a, b, c, d
  <2> DEFINE v == E!Value(f, <<a, b, c, d>>)
  <2>1. v.args = <<a, b, c, d>>
    BY <1>0
  <2> HIDE DEF v
  <2>2. {v.args[n] : n \in DOMAIN v.args} = {a, b, c, d}
    BY <2>1
  <2>3. ValueRegs(v) = {q \in {a, b, c, d} : q.kind \in {"x", "f"}}
    BY <2>2 DEF ValueRegs
  <2> QED BY <2>3 DEF Reg, v
<1>6. \A a : ValueRegs(E!Copy(a)) = Reg(a)
  BY <1>2 DEF E!Copy
<1>7. \A a, b : ValueRegs(E!Add(a, b)) = Reg(a) \cup Reg(b)
  BY <1>3, <1>6, RegsOfOperands DEF E!Add
<1>8. \A s, extension : ValueRegs(E!Loaded(s, extension)) = {}
  BY <1>2, RegsOfOperands DEF E!Loaded
<1>9. ValueRegs(E!Always) = {}
  BY <1>1 DEF E!Always
<1> QED
  BY <1>1, <1>2, <1>3, <1>4, <1>5, <1>6, <1>7, <1>8, <1>9

\* Marks leave the registers an effect names; the effects of handlers, by how they are put together.
LEMMA RegsOfEffects ==
  /\ Registers(E!Idle) = {}
  /\ \A e : Registers(E!Cancelled(e)) = Registers(e) /\ Registers(E!NotifyFpDirty(e)) = Registers(e)
            /\ Registers(E!UpdateFpCsr(e)) = Registers(e)
  /\ \A n, v : Registers(E!WriteX(n, v)) = XReg(n) \cup ValueRegs(v) /\ Registers(E!WriteF(n, v)) = FReg(n) \cup ValueRegs(v)
  /\ \A n, v, size, base, offset :
       /\ Registers(E!Loading(E!WriteX(n, v), size, base, offset)) = XReg(n) \cup ValueRegs(v) \cup Reg(base)
       /\ Registers(E!Loading(E!WriteF(n, v), size, base, offset)) = FReg(n) \cup ValueRegs(v) \cup Reg(base)
  /\ \A size, base, offset, data : Registers(E!Storing(size, base, offset, data)) = Reg(base) \cup Reg(data)
<1>0. \A e : Registers(e) = WriteRegs(e.writes) \cup AccessRegs(e.access) \cup JumpRegs(e.jump)
                                \cup {r \in e.reserves : r.kind \in {"x", "f"}}
  BY RegistersByPart
<1>1. Registers(E!Idle) = {}
  <2>1. E!Idle.writes = {} /\ E!Idle.access = {} /\ E!Idle.jump = {} /\ E!Idle.reserves = {}
    BY DEF E!Idle
  <2> QED BY <1>0, <2>1, RegsOfOne
<1>2. ASSUME NEW e
      PROVE  Registers(E!Cancelled(e)) = Registers(e) /\ Registers(E!NotifyFpDirty(e)) = Registers(e)
             /\ Registers(E!UpdateFpCsr(e)) = Registers(e)
  <2> DEFINE Like(f) == f.writes = e.writes /\ f.access = e.access /\ f.jump = e.jump /\ f.reserves = e.reserves
  <2>1. Like(E!Cancelled(e))
    BY DEF E!Cancelled
  <2>2. Like(E!NotifyFpDirty(e))
    BY DEF E!NotifyFpDirty
  <2>3. Like(E!UpdateFpCsr(e))
    BY DEF E!UpdateFpCsr
  <2>4. \A f : Like(f) => Registers(f) = Registers(e)
    BY <1>0
  <2> HIDE DEF Like
  <2> QED BY <2>1, <2>2, <2>3, <2>4
<1>3. ASSUME NEW to, NEW v
      PROVE  Registers([E!Idle EXCEPT !.writes = {[to |-> to, value |-> v]}]) = Reg(to) \cup ValueRegs(v)
  <2> DEFINE w == [to |-> to, value |-> v]
             e == [E!Idle EXCEPT !.writes = {w}]
  <2>1. e.writes = {w} /\ e.access = {} /\ e.jump = {} /\ e.reserves = {} /\ w.to = to /\ w.value = v
    BY DEF E!Idle
  <2> HIDE DEF w, e
  <2>2. Registers(e) = Reg(to) \cup ValueRegs(v)
    BY <1>0, <2>1, RegsOfOne
  <2> QED BY <2>2 DEF w, e
<1>4. \A n, v : Registers(E!WriteX(n, v)) = XReg(n) \cup ValueRegs(v) /\ Registers(E!WriteF(n, v)) = FReg(n) \cup ValueRegs(v)
  BY <1>3, RegsOfOperands DEF E!WriteX, E!WriteF
<1>5. ASSUME NEW to, NEW v, NEW size, NEW base, NEW offset
      PROVE  Registers(E!Loading([E!Idle EXCEPT !.writes = {[to |-> to, value |-> v]}], size, base, offset))
               = Reg(to) \cup ValueRegs(v) \cup Reg(base)
  <2> DEFINE w == [to |-> to, value |-> v]
             a == E!Access("Load", size, base, offset, E!Value("none", <<>>))
             e == E!Loading([E!Idle EXCEPT !.writes = {w}], size, base, offset)
  <2>1. e.writes = {w} /\ e.access = {a} /\ e.jump = {} /\ e.reserves = {} /\ w.to = to /\ w.value = v
    BY DEF E!Idle, E!Loading
  <2>2. a.base = base /\ ValueRegs(a.data) = {}
    BY RegsOfValues DEF E!Access
  <2> HIDE DEF w, e, a
  <2>3. Registers(e) = WriteRegs({w}) \cup AccessRegs({a}) \cup JumpRegs({})
    BY <1>0, <2>1
  <2>4. WriteRegs({w}) = Reg(to) \cup ValueRegs(v) /\ AccessRegs({a}) = Reg(base) /\ JumpRegs({}) = {}
    BY <2>1, <2>2, RegsOfOne
  <2>5. Registers(e) = Reg(to) \cup ValueRegs(v) \cup Reg(base)
    BY <2>3, <2>4
  <2> QED BY <2>5 DEF w, e
<1>6. \A n, v, size, base, offset :
       /\ Registers(E!Loading(E!WriteX(n, v), size, base, offset)) = XReg(n) \cup ValueRegs(v) \cup Reg(base)
       /\ Registers(E!Loading(E!WriteF(n, v), size, base, offset)) = FReg(n) \cup ValueRegs(v) \cup Reg(base)
  BY <1>5, RegsOfOperands DEF E!WriteX, E!WriteF
<1>7. ASSUME NEW size, NEW base, NEW offset, NEW data
      PROVE  Registers(E!Storing(size, base, offset, data)) = Reg(base) \cup Reg(data)
  <2> DEFINE a == E!Access("Store", size, base, offset, E!Copy(data))
             e == E!Storing(size, base, offset, data)
  <2>1. e.writes = {} /\ e.access = {a} /\ e.jump = {} /\ e.reserves = {}
    BY DEF E!Idle, E!Storing
  <2>2. a.base = base /\ ValueRegs(a.data) = Reg(data)
    BY RegsOfValues DEF E!Access
  <2> HIDE DEF e, a
  <2>3. Registers(e) = Reg(base) \cup Reg(data)
    BY <1>0, <2>1, <2>2, RegsOfOne
  <2> QED BY <2>3 DEF e
<1> QED
  BY <1>1, <1>2, <1>4, <1>6, <1>7

-----------------------------------------------------------------------------
(* A compressed instruction against the one it is short for. *)

\* The base instruction an operation of the printers stands for, and its effect.
BaseClass(name) == IF name \in {"flw", "fsw"} THEN "F" ELSE IF name \in {"fld", "fsd"} THEN "D" ELSE "I"
BaseEffect(x, name, o) ==
  IF name = "nop" THEN E!Idle ELSE E!ProcessOp(x, [class |-> BaseClass(name), name |-> name, operand |-> o])

\* What of an effect can be seen, and the registers it names, register 0 and all.
Seen(e) == <<Visible(e), Registers(e)>>

\* The instructions compressed ones are short for.
Bases(x) ==
  {"nop", "lui", "jal", "jalr", "beq", "bne", "lw", "sw", "addi", "andi", "slli", "srli", "srai",
   "add", "sub", "xor", "or", "and", "flw", "fsw", "fld", "fsd"}
    \cup (IF x = 64 THEN {"ld", "sd", "addiw", "addw", "subw"} ELSE {})

\* The same access, target and registers, whichever of the two runs.
Expands(x, a, b) ==
  /\ b.name \in Bases(x)
  /\ b.name = "beq" => a.name = "c_beqz"
  /\ Seen(E!ProcessOp(x, a)) = Seen(BaseEffect(x, b.name, T!Members(T!Parameters(x)[b.name], b.args)))

LEMMA SeenParts ==
  /\ \A e, f : e.access = f.access /\ e.jump = f.jump /\ e.writes = f.writes /\ e.reserves = f.reserves => Seen(e) = Seen(f)
  /\ \A e : Seen(E!Cancelled(e)) = Seen(e) /\ Seen(E!NotifyFpDirty(e)) = Seen(e)
<1>1. ASSUME NEW e, NEW f, e.access = f.access, e.jump = f.jump, e.writes = f.writes, e.reserves = f.reserves
      PROVE  Seen(e) = Seen(f)
  <2>1. Visible(e) = Visible(f)
    BY <1>1 DEF Visible
  <2>2. Registers(e) = Registers(f)
    BY <1>1, RegistersByPart
  <2> QED
    BY <2>1, <2>2 DEF Seen
<1>2. ASSUME NEW e PROVE Seen(E!Cancelled(e)) = Seen(e) /\ Seen(E!NotifyFpDirty(e)) = Seen(e)
  <2>1. Visible(E!Cancelled(e)) = Visible(e) /\ Visible(E!NotifyFpDirty(e)) = Visible(e)
    BY DEF Visible, E!Cancelled, E!NotifyFpDirty
  <2> QED
    BY <2>1, RegsOfEffects DEF Seen
<1> QED
  BY <1>1, <1>2

\* The handlers a compressed instruction comes to, at either width.
LEMMA CompressedHandlers ==
  ASSUME NEW x \in Xlens, NEW o, NEW name
  PROVE  LET e == Seen(E!ProcessOp(x, D!Op("C", name, o))) IN
         /\ name = "c_nop" => e = Seen(E!Idle)
         /\ name \in {"c_mv", "c_add", "c_sub", "c_and", "c_or", "c_xor"} => e = Seen(E!AluC(name, o))
         /\ x = 64 /\ name \in {"c_addw", "c_subw"} => e = Seen(E!AluC(name, o))
         /\ name \in {"c_li", "c_lui", "c_addi", "c_andi", "c_srli", "c_srai", "c_slli"} => e = Seen(E!AluImmC(name, o))
         /\ x = 64 /\ name = "c_addiw" => e = Seen(E!AluImmC(name, o))
         /\ name \in {"c_beqz", "c_bnez"} => e = Seen(E!BranchC(name, o))
         /\ name \in {"c_addi4spn", "c_addi16sp"} => e = Seen(E!WriteX(o.rd, E!Add(E!X(2), E!Imm(o.imm))))
<1> DEFINE a == D!Op("C", name, o)
           e == Seen(E!ProcessOp(x, a))
<1>1. x = 32 => E!ProcessOp(x, a) = E!ProcessRV32C(name, o)
  BY DEF E!ProcessOp, D!Op
<1>2. x = 64 => E!ProcessOp(x, a) = E!ProcessRV64C(name, o)
  BY DEF E!ProcessOp, D!Op
<1>3. CASE x = 32
  <2> USE <1>1, <1>3, SeenParts
  <2>1. name = "c_nop" => e = Seen(E!Idle)
    BY DEF E!ProcessRV32C
  <2>2. name \in {"c_mv", "c_add", "c_sub", "c_and", "c_or", "c_xor"} => e = Seen(E!AluC(name, o))
    BY DEF E!ProcessRV32C, E!RV32C_Alu
  <2>3. name \in {"c_li", "c_lui", "c_addi", "c_andi", "c_srli", "c_srai", "c_slli"} => e = Seen(E!AluImmC(name, o))
    BY DEF E!ProcessRV32C, E!RV32C_AluImm
  <2>4. name \in {"c_beqz", "c_bnez"} => e = Seen(E!BranchC(name, o))
    BY DEF E!ProcessRV32C, E!RV32C_Branch
  <2>5. name \in {"c_addi4spn", "c_addi16sp"} => e = Seen(E!WriteX(o.rd, E!Add(E!X(2), E!Imm(o.imm))))
    BY DEF E!ProcessRV32C, E!RV32C_AddSp, E!ReadStackPointer
  <2> QED BY <2>1, <2>2, <2>3, <2>4, <2>5
<1>4. CASE x = 64
  <2> USE <1>2, <1>4
  <2>1. name = "c_nop" => e = Seen(E!Idle)
    BY DEF E!ProcessRV64C
  <2>2. name \in {"c_mv", "c_add", "c_sub", "c_and", "c_or", "c_xor", "c_addw", "c_subw"} => e = Seen(E!AluC(name, o))
    BY DEF E!ProcessRV64C, E!RV64C_Alu
  <2>3. name \in {"c_li", "c_lui", "c_addi", "c_andi", "c_srli", "c_srai", "c_slli", "c_addiw"} => e = Seen(E!AluImmC(name, o))
    BY DEF E!ProcessRV64C, E!RV64C_AluImm
  <2>4. name \in {"c_beqz", "c_bnez"} => e = Seen(E!BranchC(name, o))
    BY DEF E!ProcessRV64C, E!RV64C_Branch
  <2>5. name \in {"c_addi4spn", "c_addi16sp"} => e = Seen(E!WriteX(o.rd, E!Add(E!X(2), E!Imm(o.imm))))
    BY DEF E!ProcessRV64C, E!RV64C_AddSp, E!ReadStackPointer
  <2> QED BY <2>1, <2>2, <2>3, <2>4, <2>5
<1> QED
  BY <1>3, <1>4 DEF Xlens

LEMMA CompressedJumps ==
  ASSUME NEW x \in Xlens, NEW o
  PROVE  /\ Seen(E!ProcessOp(x, D!Op("C", "c_j", o))) = Seen(E!JumpC(o))
         /\ x = 32 => Seen(E!ProcessOp(x, D!Op("C", "c_jal", o))) = Seen(E!WriteLinkRegister(E!JumpC(o)))
         /\ Seen(E!ProcessOp(x, D!Op("C", "c_jr", o))) = Seen(E!JumpRegisterC(o))
         /\ Seen(E!ProcessOp(x, D!Op("C", "c_jalr", o))) = Seen(E!WriteLinkRegister(E!JumpRegisterC(o)))
<1>1. ASSUME x = 32, NEW name \in {"c_j", "c_jal", "c_jr", "c_jalr"}
      PROVE  Seen(E!ProcessOp(x, D!Op("C", name, o))) = Seen(E!RV32C_Jump(name, o))
  <2>1. E!ProcessOp(x, D!Op("C", name, o)) = E!ProcessRV32C(name, o)
    BY <1>1 DEF E!ProcessOp, D!Op
  <2> QED BY <2>1, SeenParts DEF E!ProcessRV32C
<1>2. ASSUME x = 64, NEW name \in {"c_j", "c_jr", "c_jalr"}
      PROVE  Seen(E!ProcessOp(x, D!Op("C", name, o))) = Seen(E!RV64C_Jump(name, o))
  <2>1. E!ProcessOp(x, D!Op("C", name, o)) = E!ProcessRV64C(name, o)
    BY <1>2 DEF E!ProcessOp, D!Op
  <2> QED BY <2>1 DEF E!ProcessRV64C
<1> QED
  BY <1>1, <1>2 DEF E!RV32C_Jump, E!RV64C_Jump, Xlens

LEMMA CompressedMemory ==
  ASSUME NEW x \in Xlens, NEW o
  PROVE  LET e(name) == Seen(E!ProcessOp(x, D!Op("C", name, o))) IN
         /\ e("c_lw") = Seen(E!LoadC(o, E!X(o.rs1), 4)) /\ e("c_lwsp") = Seen(E!LoadC(o, E!X(2), 4))
         /\ e("c_swsp") = Seen(E!StoreC(o, E!X(2), 4)) /\ e("c_sw") = Seen(E!StoreC(o, E!X(o.rs1), 4))
         /\ e("c_fld") = Seen(E!LoadFpC(o, E!X(o.rs1), 8)) /\ e("c_fldsp") = Seen(E!LoadFpC(o, E!X(2), 8))
         /\ e("c_fsdsp") = Seen(E!StoreFpC(o, E!X(2), 8)) /\ e("c_fsd") = Seen(E!StoreFpC(o, E!X(o.rs1), 8))
         /\ x = 32 => /\ e("c_flw") = Seen(E!LoadFpC(o, E!X(o.rs1), 4)) /\ e("c_flwsp") = Seen(E!LoadFpC(o, E!X(2), 4))
                      /\ e("c_fswsp") = Seen(E!StoreFpC(o, E!X(2), 4))
         /\ x = 64 => /\ e("c_ld") = Seen(E!LoadC(o, E!X(o.rs1), 8)) /\ e("c_ldsp") = Seen(E!LoadC(o, E!X(2), 8))
                      /\ e("c_sdsp") = Seen(E!StoreC(o, E!X(2), 8)) /\ e("c_sd") = Seen(E!StoreC(o, E!X(o.rs1), 8))
<1> DEFINE e(name) == Seen(E!ProcessOp(x, D!Op("C", name, o)))
<1>1. CASE x = 32
  <2>1. \A name \in {"c_lw", "c_lwsp", "c_sw", "c_swsp"} : e(name) = Seen(E!RV32C_LoadStore(name, o))
    <3> TAKE name \in {"c_lw", "c_lwsp", "c_sw", "c_swsp"}
    <3>1. E!ProcessOp(x, D!Op("C", name, o)) = E!ProcessRV32C(name, o)
      BY <1>1 DEF E!ProcessOp, D!Op
    <3> QED BY <3>1, SeenParts DEF E!ProcessRV32C
  <2>2. \A name \in {"c_fld", "c_fldsp", "c_flw", "c_flwsp"} : e(name) = Seen(E!RV32C_LoadFp(name, o))
    <3> TAKE name \in {"c_fld", "c_fldsp", "c_flw", "c_flwsp"}
    <3>1. E!ProcessOp(x, D!Op("C", name, o)) = E!ProcessRV32C(name, o)
      BY <1>1 DEF E!ProcessOp, D!Op
    <3> QED BY <3>1, SeenParts DEF E!ProcessRV32C
  <2>3. \A name \in {"c_fsd", "c_fsdsp", "c_fswsp"} : e(name) = Seen(E!RV32C_StoreFp(name, o))
    <3> TAKE name \in {"c_fsd", "c_fsdsp", "c_fswsp"}
    <3>1. E!ProcessOp(x, D!Op("C", name, o)) = E!ProcessRV32C(name, o)
      BY <1>1 DEF E!ProcessOp, D!Op
    <3> QED BY <3>1, SeenParts DEF E!ProcessRV32C
  <2> HIDE DEF e
  <2> QED
    BY <1>1, <2>1, <2>2, <2>3 DEF E!RV32C_LoadStore, E!RV32C_LoadFp, E!RV32C_StoreFp, E!ReadStackPointer, e
<1>2. CASE x = 64
  <2>1. \A name \in {"c_lw", "c_lwsp", "c_sw", "c_swsp", "c_ld", "c_ldsp", "c_sd", "c_sdsp"} : e(name) = Seen(E!RV64C_LoadStore(name, o))
    <3> TAKE name \in {"c_lw", "c_lwsp", "c_sw", "c_swsp", "c_ld", "c_ldsp", "c_sd", "c_sdsp"}
    <3>1. E!ProcessOp(x, D!Op("C", name, o)) = E!ProcessRV64C(name, o)
      BY <1>2 DEF E!ProcessOp, D!Op
    <3> QED BY <3>1 DEF E!ProcessRV64C
  <2>2. \A name \in {"c_fld", "c_fldsp", "c_fsd", "c_fsdsp"} : e(name) = Seen(E!RV64C_Fp(name, o))
    <3> TAKE name \in {"c_fld", "c_fldsp", "c_fsd", "c_fsdsp"}
    <3>1. E!ProcessOp(x, D!Op("C", name, o)) = E!ProcessRV64C(name, o)
      BY <1>2 DEF E!ProcessOp, D!Op
    <3> QED BY <3>1 DEF E!ProcessRV64C
  <2> HIDE DEF e
  <2> QED
    BY <1>2, <2>1, <2>2 DEF E!RV64C_LoadStore, E!RV64C_Fp, E!ReadStackPointer, e
<1> QED
  BY <1>1, <1>2 DEF Xlens

\* The members a constructor keeps, by kind of operation.
LEMMA JumpMembers ==
  ASSUME NEW a, NEW b
  PROVE  /\ T!Members(T!Jump, <<a, b>>).rd = a
         /\ T!Members(T!Jump, <<a, b>>).imm = b
<1>1. /\ 1 \in DOMAIN T!Jump /\ 2 \in DOMAIN T!Jump
      /\ T!Jump[1] = "rd" /\ T!Jump[2] = "imm"
  BY DEF T!Jump
<1> QED
  BY <1>1, MemberOf, ConstructorsDistinct

LEMMA TwoSourcesMembers ==
  ASSUME NEW a, NEW b, NEW c
  PROVE  /\ T!Members(T!TwoSources, <<a, b, c>>).rs1 = a
         /\ T!Members(T!TwoSources, <<a, b, c>>).rs2 = b
         /\ T!Members(T!TwoSources, <<a, b, c>>).imm = c
<1>1. /\ 1 \in DOMAIN T!TwoSources /\ 2 \in DOMAIN T!TwoSources /\ 3 \in DOMAIN T!TwoSources
      /\ T!TwoSources[1] = "rs1" /\ T!TwoSources[2] = "rs2" /\ T!TwoSources[3] = "imm"
  BY DEF T!TwoSources
<1> QED
  BY <1>1, MemberOf, ConstructorsDistinct

LEMMA ImmediateMembers ==
  ASSUME NEW a, NEW b, NEW c
  PROVE  /\ T!Members(T!Immediate, <<a, b, c>>).rd = a
         /\ T!Members(T!Immediate, <<a, b, c>>).rs1 = b
         /\ T!Members(T!Immediate, <<a, b, c>>).imm = c
<1>1. /\ 1 \in DOMAIN T!Immediate /\ 2 \in DOMAIN T!Immediate /\ 3 \in DOMAIN T!Immediate
      /\ T!Immediate[1] = "rd" /\ T!Immediate[2] = "rs1" /\ T!Immediate[3] = "imm"
  BY DEF T!Immediate
<1> QED
  BY <1>1, MemberOf, ConstructorsDistinct

LEMMA ShiftMembers ==
  ASSUME NEW a, NEW b, NEW c
  PROVE  /\ T!Members(T!Shift, <<a, b, c>>).rd = a
         /\ T!Members(T!Shift, <<a, b, c>>).rs1 = b
         /\ T!Members(T!Shift, <<a, b, c>>).shamt = c
<1>1. /\ 1 \in DOMAIN T!Shift /\ 2 \in DOMAIN T!Shift /\ 3 \in DOMAIN T!Shift
      /\ T!Shift[1] = "rd" /\ T!Shift[2] = "rs1" /\ T!Shift[3] = "shamt"
  BY DEF T!Shift
<1> QED
  BY <1>1, MemberOf, ConstructorsDistinct

LEMMA ThreeMembers ==
  ASSUME NEW a, NEW b, NEW c
  PROVE  /\ T!Members(T!Three, <<a, b, c>>).rd = a
         /\ T!Members(T!Three, <<a, b, c>>).rs1 = b
         /\ T!Members(T!Three, <<a, b, c>>).rs2 = c
<1>1. /\ 1 \in DOMAIN T!Three /\ 2 \in DOMAIN T!Three /\ 3 \in DOMAIN T!Three
      /\ T!Three[1] = "rd" /\ T!Three[2] = "rs1" /\ T!Three[3] = "rs2"
  BY DEF T!Three
<1> QED
  BY <1>1, MemberOf, ConstructorsDistinct

\* The handlers a base instruction comes to, at either width.
LEMMA BaseHandlers ==
  ASSUME NEW x \in Xlens, NEW o
  PROVE  LET e(name) == Seen(BaseEffect(x, name, o)) IN
         /\ e("nop") = Seen(E!Idle)
         /\ \A name \in {"lui", "jal", "jalr"} : e(name) = Seen(E!RV32I_UpperOrJump(name, o))
         /\ \A name \in {"beq", "bne"} : e(name) = Seen(E!RV32I_Branch(name, o))
         /\ \A name \in {"addi", "andi"} : e(name) = Seen(E!RV32I_AluImm(name, o))
         /\ \A name \in {"slli", "srli", "srai"} : e(name) = Seen(E!RV32I_ShiftImm(name, o))
         /\ \A name \in {"add", "sub", "xor", "or", "and"} : e(name) = Seen(E!RV32I_Alu(name, o))
         /\ x = 64 => /\ e("addiw") = Seen(E!RV64I_AluImm("addiw", o))
                      /\ \A name \in {"addw", "subw"} : e(name) = Seen(E!RV64I_Alu(name, o))
<1> DEFINE e(name) == Seen(BaseEffect(x, name, o))
<1>1. \A name : e(name) = Seen(BaseEffect(x, name, o))
  OBVIOUS
<1>2. e("nop") = Seen(E!Idle)
  BY DEF BaseEffect
<1> HIDE DEF e
<1>3. CASE x = 32
  <2>1. \A name \in {"lui", "jal", "jalr", "beq", "bne", "addi", "andi", "slli", "srli", "srai",
                     "add", "sub", "xor", "or", "and"} : e(name) = Seen(E!ProcessRV32I(name, o))
    BY <1>1, <1>3 DEF BaseEffect, BaseClass, E!ProcessOp
  <2>2. ASSUME NEW name \in {"lui", "jal", "jalr"}
      PROVE  E!ProcessRV32I(name, o) = E!RV32I_UpperOrJump(name, o)
    BY DEF E!Csrs, E!CsrImms, E!ProcessRV32I
  <2>3. ASSUME NEW name \in {"beq", "bne"}
      PROVE  E!ProcessRV32I(name, o) = E!RV32I_Branch(name, o)
    BY DEF E!Csrs, E!CsrImms, E!ProcessRV32I
  <2>4. ASSUME NEW name \in {"addi", "andi"}
      PROVE  E!ProcessRV32I(name, o) = E!RV32I_AluImm(name, o)
    BY DEF E!Csrs, E!CsrImms, E!ProcessRV32I
  <2>5. ASSUME NEW name \in {"slli", "srli", "srai"}
      PROVE  E!ProcessRV32I(name, o) = E!RV32I_ShiftImm(name, o)
    BY DEF E!Csrs, E!CsrImms, E!ProcessRV32I
  <2>6. ASSUME NEW name \in {"add", "sub", "xor", "or", "and"}
      PROVE  E!ProcessRV32I(name, o) = E!RV32I_Alu(name, o)
    BY DEF E!Csrs, E!CsrImms, E!ProcessRV32I
  <2> QED
    BY <1>1, <1>2, <1>3, <2>1, <2>2, <2>3, <2>4, <2>5, <2>6
<1>4. CASE x = 64
  <2>1. \A name \in {"lui", "jal", "jalr", "beq", "bne", "addi", "andi", "slli", "srli", "srai",
                     "add", "sub", "xor", "or", "and", "addiw", "addw", "subw"} : e(name) = Seen(E!ProcessRV64I(name, o))
    BY <1>1, <1>4 DEF BaseEffect, BaseClass, E!ProcessOp
  <2>2. ASSUME NEW name \in {"lui", "jal", "jalr"}
      PROVE  E!ProcessRV64I(name, o) = E!RV32I_UpperOrJump(name, o)
    BY DEF E!Csrs, E!CsrImms, E!ProcessRV64I, E!RV64I_UpperOrJump, E!RV32I_UpperOrJump
  <2>3. ASSUME NEW name \in {"beq", "bne"}
      PROVE  E!ProcessRV64I(name, o) = E!RV32I_Branch(name, o)
    BY DEF E!Csrs, E!CsrImms, E!ProcessRV64I, E!RV64I_Branch, E!RV32I_Branch
  <2>4. ASSUME NEW name \in {"addi", "addiw", "andi"}
      PROVE  E!ProcessRV64I(name, o) = E!RV64I_AluImm(name, o)
    BY DEF E!Csrs, E!CsrImms, E!ProcessRV64I
  <2>5. ASSUME NEW name \in {"slli", "srli", "srai"}
      PROVE  E!ProcessRV64I(name, o) = E!RV64I_ShiftImm(name, o)
    BY DEF E!Csrs, E!CsrImms, E!ProcessRV64I
  <2>6. ASSUME NEW name \in {"add", "addw", "sub", "subw", "xor", "or", "and"}
      PROVE  E!ProcessRV64I(name, o) = E!RV64I_Alu(name, o)
    BY DEF E!Csrs, E!CsrImms, E!ProcessRV64I
  <2>7. \A name \in {"addi", "andi"} : E!RV64I_AluImm(name, o) = E!RV32I_AluImm(name, o)
    BY DEF E!RV64I_AluImm, E!RV32I_AluImm
  <2>8. \A name \in {"slli", "srli", "srai"} : E!RV64I_ShiftImm(name, o) = E!RV32I_ShiftImm(name, o)
    BY DEF E!RV64I_ShiftImm, E!RV32I_ShiftImm
  <2>9. \A name : E!RV64I_Alu(name, o) = E!RV32I_Alu(name, o)
    BY DEF E!RV64I_Alu, E!RV32I_Alu
  <2>10. \A name \in {"addi", "andi"} : e(name) = Seen(E!RV32I_AluImm(name, o))
    BY <2>1, <2>4, <2>7
  <2>11. \A name \in {"slli", "srli", "srai"} : e(name) = Seen(E!RV32I_ShiftImm(name, o))
    BY <2>1, <2>5, <2>8
  <2>12. \A name \in {"add", "sub", "xor", "or", "and"} : e(name) = Seen(E!RV32I_Alu(name, o))
    BY <2>1, <2>6, <2>9
  <2> QED
    BY <1>1, <1>2, <2>1, <2>2, <2>3, <2>4, <2>6, <2>10, <2>11, <2>12
<1> QED
  BY <1>3, <1>4 DEF Xlens

LEMMA BaseMemory ==
  ASSUME NEW x \in Xlens, NEW o
  PROVE  LET e(name) == Seen(BaseEffect(x, name, o)) IN
         /\ e("lw") = Seen(E!RV64I_Load("lw", o)) /\ e("sw") = Seen(E!RV64I_Store("sw", o))
         /\ e("fld") = Seen(E!RV32D_Load(o)) /\ e("fsd") = Seen(E!RV32D_Store(o))
         /\ e("flw") = Seen(E!RV32F_Load(o)) /\ e("fsw") = Seen(E!RV32F_Store(o))
         /\ x = 64 => e("ld") = Seen(E!RV64I_Load("ld", o)) /\ e("sd") = Seen(E!RV64I_Store("sd", o))
<1> DEFINE e(name) == Seen(BaseEffect(x, name, o))
<1>1. \A name : e(name) = Seen(BaseEffect(x, name, o))
  OBVIOUS
<1> HIDE DEF e
<1>2. /\ BaseEffect(x, "fld", o) = E!ProcessRVD(x, "fld", o) /\ BaseEffect(x, "fsd", o) = E!ProcessRVD(x, "fsd", o)
      /\ BaseEffect(x, "flw", o) = E!ProcessRVF(x, "flw", o) /\ BaseEffect(x, "fsw", o) = E!ProcessRVF(x, "fsw", o)
  BY DEF BaseEffect, BaseClass, E!ProcessOp
<1>3. /\ E!ProcessRVF(x, "flw", o) = E!Cancelled(E!RV32F_Load(o))
      /\ E!ProcessRVF(x, "fsw", o) = E!Cancelled(E!RV32F_Store(o))
  BY DEF E!ProcessRVF, E!RV32F_Load, E!RV64F_Load, E!RV32F_Store, E!RV64F_Store
<1>4. /\ E!ProcessRVD(x, "fld", o) = E!Cancelled(E!RV32D_Load(o))
      /\ E!ProcessRVD(x, "fsd", o) = E!Cancelled(E!RV32D_Store(o))
  BY DEF E!ProcessRVD, E!RV32D_Load, E!RV64D_Load, E!RV32D_Store, E!RV64D_Store
<1>5. /\ e("fld") = Seen(E!RV32D_Load(o)) /\ e("fsd") = Seen(E!RV32D_Store(o))
      /\ e("flw") = Seen(E!RV32F_Load(o)) /\ e("fsw") = Seen(E!RV32F_Store(o))
  BY <1>1, <1>2, <1>3, <1>4, SeenParts
<1>6. CASE x = 32
  <2>1. /\ BaseEffect(x, "lw", o) = E!ProcessRV32I("lw", o) /\ BaseEffect(x, "sw", o) = E!ProcessRV32I("sw", o)
    BY <1>6 DEF BaseEffect, BaseClass, E!ProcessOp
  <2>2. /\ E!ProcessRV32I("lw", o) = E!Cancelled(E!RV64I_Load("lw", o))
        /\ E!ProcessRV32I("sw", o) = E!Cancelled(E!RV64I_Store("sw", o))
    BY DEF E!ProcessRV32I, E!RV32I_Load, E!RV64I_Load, E!RV32I_Store, E!RV64I_Store, E!Csrs, E!CsrImms
  <2> QED
    BY <1>1, <1>5, <1>6, <2>1, <2>2, SeenParts
<1>7. CASE x = 64
  <2>1. /\ BaseEffect(x, "lw", o) = E!ProcessRV64I("lw", o) /\ BaseEffect(x, "sw", o) = E!ProcessRV64I("sw", o)
        /\ BaseEffect(x, "ld", o) = E!ProcessRV64I("ld", o) /\ BaseEffect(x, "sd", o) = E!ProcessRV64I("sd", o)
    BY <1>7 DEF BaseEffect, BaseClass, E!ProcessOp
  <2>2. /\ E!ProcessRV64I("lw", o) = E!RV64I_Load("lw", o) /\ E!ProcessRV64I("ld", o) = E!RV64I_Load("ld", o)
        /\ E!ProcessRV64I("sw", o) = E!RV64I_Store("sw", o) /\ E!ProcessRV64I("sd", o) = E!RV64I_Store("sd", o)
    BY DEF E!ProcessRV64I, E!Csrs, E!CsrImms
  <2> QED
    BY <1>1, <1>5, <1>7, <2>1, <2>2
<1> QED
  BY <1>6, <1>7 DEF Xlens

\* What a compressed instruction may be short for has a class of operations, at both widths or at 64 bits.
LEMMA ExpansionClasses ==
  ASSUME NEW x \in Xlens
  PROVE  /\ {"nop", "lui", "jal", "jalr", "beq", "bne", "lw", "sw", "addi", "andi", "slli", "srli", "srai",
             "add", "sub", "xor", "or", "and", "flw", "fsw", "fld", "fsd"} \subseteq Bases(x)
         /\ x = 64 => {"ld", "sd", "addiw", "addw", "subw"} \subseteq Bases(x)
         /\ \A name \in Bases(x) : name \in DOMAIN T!Parameters(x) /\ T!Parameters(x)[name] = T!ConstructorOf(name)
<1>1. {"nop", "lui", "jal", "jalr", "beq", "bne", "lw", "sw", "addi", "andi", "slli", "srli", "srai",
       "add", "sub", "xor", "or", "and", "flw", "fsw", "fld", "fsd"} \subseteq T!Classes32
  BY DEF T!Classes32, T!RV32I_UpperAndJump, T!RV32I_Branch, T!RV32I_Load, T!RV32I_Store, T!RV32I_AluImm, T!RV32I_ShiftImm,
     T!RV32I_Alu, T!RV32I_Fence, T!RV32F_Classes, T!RV32D_Classes
<1>2. {"ld", "sd", "addiw", "addw", "subw"} \subseteq T!Classes64
  BY DEF T!Classes64, T!RV64I_Load, T!RV64I_Store, T!RV64I_AluImm, T!RV64I_Add
<1>3. x = 32 => DOMAIN T!Parameters(x) = T!Classes32
  BY DEF T!Parameters, T!Parameters32
<1>4. x = 64 => DOMAIN T!Parameters(x) = T!Classes64
  BY DEF T!Parameters, T!Parameters64
<1>5. \A name \in DOMAIN T!Parameters(x) : T!Parameters(x)[name] = T!ConstructorOf(name)
  BY DEF T!Parameters, T!Parameters32, T!Parameters64
<1>6. Bases(x) \subseteq DOMAIN T!Parameters(x)
  BY <1>1, <1>2, <1>3, <1>4, BothWidths DEF Bases, Xlens
<1>7. /\ {"nop", "lui", "jal", "jalr", "beq", "bne", "lw", "sw", "addi", "andi", "slli", "srli", "srai",
          "add", "sub", "xor", "or", "and", "flw", "fsw", "fld", "fsd"} \subseteq Bases(x)
      /\ x = 64 => {"ld", "sd", "addiw", "addw", "subw"} \subseteq Bases(x)
  BY DEF Bases
<1> QED
  BY <1>5, <1>6, <1>7

\* An expansion, by the kind of base operation.
LEMMA ExpandsWhen ==
  ASSUME NEW x \in Xlens, NEW a, NEW name \in Bases(x), name = "beq" => a.name = "c_beqz", NEW args,
         NEW parameters, T!ConstructorOf(name) = parameters,
         Seen(E!ProcessOp(x, a)) = Seen(BaseEffect(x, name, T!Members(parameters, args)))
  PROVE  Expands(x, a, O!Make(name, args))
<1>1. T!Parameters(x)[name] = parameters
  BY ExpansionClasses
<1>2. O!Make(name, args).name = name /\ O!Make(name, args).args = args
  BY DEF O!Make
<1> QED
  BY <1>1, <1>2 DEF Expands

LEMMA ExpandsImmediate ==
  ASSUME NEW x \in Xlens, NEW o
  PROVE  /\ Expands(x, D!Op("C", "c_nop", o), O!Make("nop", <<>>))
         /\ Expands(x, D!Op("C", "c_addi", o), O!Make("addi", <<o.rd, o.rs1, o.imm>>))
         /\ o.rd = 0 /\ o.rs1 = 0 => Expands(x, D!Op("C", "c_addi", o), O!Make("nop", <<>>))
         /\ x = 64 => Expands(x, D!Op("C", "c_addiw", o), O!Make("addiw", <<o.rd, o.rs1, o.imm>>))
         /\ Expands(x, D!Op("C", "c_li", o), O!Make("addi", <<o.rd, 0, o.imm>>))
         /\ Expands(x, D!Op("C", "c_lui", o), O!Make("lui", <<o.rd, o.imm>>))
         /\ Expands(x, D!Op("C", "c_andi", o), O!Make("andi", <<o.rd, o.rs1, o.imm>>))
         /\ Expands(x, D!Op("C", "c_addi4spn", o), O!Make("addi", <<o.rd, 2, o.imm>>))
         /\ Expands(x, D!Op("C", "c_addi16sp", o), O!Make("addi", <<o.rd, 2, o.imm>>))
         /\ Expands(x, D!Op("C", "c_slli", o), O!Make("slli", <<o.rd, o.rs1, o.imm>>))
         /\ Expands(x, D!Op("C", "c_srli", o), O!Make("srli", <<o.rd, o.rs1, o.imm>>))
         /\ Expands(x, D!Op("C", "c_srai", o), O!Make("srai", <<o.rd, o.rs1, o.imm>>))
<1>1. Expands(x, D!Op("C", "c_nop", o), O!Make("nop", <<>>))
  <2>4. Seen(E!ProcessOp(x, D!Op("C", "c_nop", o))) = Seen(BaseEffect(x, "nop", T!Members(T!NoParameters, <<>>)))
    BY CompressedHandlers, BaseHandlers
  <2> QED
    BY <2>4, ExpandsWhen, ExpansionClasses, Constructors
<1>2. Expands(x, D!Op("C", "c_addi", o), O!Make("addi", <<o.rd, o.rs1, o.imm>>))
  <2> DEFINE m == T!Members(T!Immediate, <<o.rd, o.rs1, o.imm>>)
  <2>1. E!AluImmC("c_addi", o) = E!WriteX(o.rd, E!Add(E!X(o.rs1), E!Imm(o.imm)))
    BY DEF E!AluImmC
  <2>2. E!RV32I_AluImm("addi", m) = E!WriteX(m.rd, E!Add(E!X(m.rs1), E!Imm(m.imm)))
    BY DEF E!RV32I_AluImm
  <2>3. m.rd = o.rd /\ m.rs1 = o.rs1 /\ m.imm = o.imm
    BY ImmediateMembers
  <2> HIDE DEF m
  <2>6. Seen(E!ProcessOp(x, D!Op("C", "c_addi", o))) = Seen(E!AluImmC("c_addi", o))
    BY CompressedHandlers
  <2>7. Seen(BaseEffect(x, "addi", m)) = Seen(E!RV32I_AluImm("addi", m))
    BY BaseHandlers
  <2>4. Seen(E!ProcessOp(x, D!Op("C", "c_addi", o))) = Seen(BaseEffect(x, "addi", m))
    BY <2>1, <2>2, <2>3, <2>6, <2>7
  <2> QED
    BY <2>4, ExpandsWhen, ExpansionClasses, Constructors DEF m
<1>3. ASSUME o.rd = 0, o.rs1 = 0 PROVE Expands(x, D!Op("C", "c_addi", o), O!Make("nop", <<>>))
  <2> DEFINE sum == E!Add(E!X(0), E!Imm(o.imm))
  <2>1. E!AluImmC("c_addi", o) = E!WriteX(0, sum)
    BY <1>3 DEF E!AluImmC
  <2>2. Seen(E!WriteX(0, sum)) = Seen(E!Idle)
    <3>1. \A v : Visible(E!WriteX(0, v)) = Visible(E!Idle)
      BY DEF Visible, E!WriteX, E!Idle, E!X, E!Imm
    <3>2. ValueRegs(sum) = {}
      <4>1. ValueRegs(sum) = Reg(E!X(0)) \cup Reg(E!Imm(o.imm))
        BY RegsOfValues
      <4> QED
        BY <4>1, RegsOfOperands DEF XReg
    <3> HIDE DEF sum
    <3>3. Registers(E!WriteX(0, sum)) = XReg(0) \cup ValueRegs(sum) /\ XReg(0) = {}
      BY RegsOfEffects DEF XReg
    <3> QED
      BY <3>1, <3>2, <3>3, RegsOfEffects DEF Seen
  <2>3. Seen(E!ProcessOp(x, D!Op("C", "c_addi", o))) = Seen(BaseEffect(x, "nop", T!Members(T!NoParameters, <<>>)))
    BY <2>1, <2>2, CompressedHandlers, BaseHandlers
  <2> QED
    BY <2>3, ExpandsWhen, ExpansionClasses, Constructors
<1>4. ASSUME x = 64 PROVE Expands(x, D!Op("C", "c_addiw", o), O!Make("addiw", <<o.rd, o.rs1, o.imm>>))
  <2> DEFINE m == T!Members(T!Immediate, <<o.rd, o.rs1, o.imm>>)
  <2>1. E!AluImmC("c_addiw", o) = E!WriteX(o.rd, E!Value("addw", <<E!X(o.rs1), E!Imm(o.imm)>>))
    BY DEF E!AluImmC
  <2>2. E!RV64I_AluImm("addiw", m) = E!WriteX(m.rd, E!Value("addw", <<E!X(m.rs1), E!Imm(m.imm)>>))
    BY DEF E!RV64I_AluImm
  <2>3. m.rd = o.rd /\ m.rs1 = o.rs1 /\ m.imm = o.imm
    BY ImmediateMembers
  <2> HIDE DEF m
  <2>6. Seen(E!ProcessOp(x, D!Op("C", "c_addiw", o))) = Seen(E!AluImmC("c_addiw", o))
    BY CompressedHandlers, <1>4
  <2>7. Seen(BaseEffect(x, "addiw", m)) = Seen(E!RV64I_AluImm("addiw", m))
    BY BaseHandlers, <1>4
  <2>4. Seen(E!ProcessOp(x, D!Op("C", "c_addiw", o))) = Seen(BaseEffect(x, "addiw", m))
    BY <2>1, <2>2, <2>3, <2>6, <2>7
  <2> QED
    BY <1>4, <2>4, ExpandsWhen, ExpansionClasses, Constructors DEF m
<1>5. Expands(x, D!Op("C", "c_li", o), O!Make("addi", <<o.rd, 0, o.imm>>))
  <2> DEFINE m == T!Members(T!Immediate, <<o.rd, 0, o.imm>>)
  <2>1. E!AluImmC("c_li", o) = E!WriteX(o.rd, E!Copy(E!Imm(o.imm)))
    BY DEF E!AluImmC
  <2>2. E!RV32I_AluImm("addi", m) = E!WriteX(m.rd, E!Add(E!X(m.rs1), E!Imm(m.imm)))
    BY DEF E!RV32I_AluImm
  <2>3. m.rd = o.rd /\ m.rs1 = 0 /\ m.imm = o.imm
    BY ImmediateMembers
  <2>5. E!Add(E!X(0), E!Imm(o.imm)) = E!Copy(E!Imm(o.imm))
    BY DEF E!Add, E!X
  <2> HIDE DEF m
  <2>6. Seen(E!ProcessOp(x, D!Op("C", "c_li", o))) = Seen(E!AluImmC("c_li", o))
    BY CompressedHandlers
  <2>7. Seen(BaseEffect(x, "addi", m)) = Seen(E!RV32I_AluImm("addi", m))
    BY BaseHandlers
  <2>4. Seen(E!ProcessOp(x, D!Op("C", "c_li", o))) = Seen(BaseEffect(x, "addi", m))
    BY <2>1, <2>2, <2>3, <2>5, <2>6, <2>7
  <2> QED
    BY <2>4, ExpandsWhen, ExpansionClasses, Constructors DEF m
<1>6. Expands(x, D!Op("C", "c_lui", o), O!Make("lui", <<o.rd, o.imm>>))
  <2> DEFINE m == T!Members(T!Jump, <<o.rd, o.imm>>)
  <2>1. E!AluImmC("c_lui", o) = E!WriteX(o.rd, E!Copy(E!Imm(o.imm)))
    BY DEF E!AluImmC
  <2>2. E!RV32I_UpperOrJump("lui", m) = E!WriteX(m.rd, E!Copy(E!Imm(m.imm)))
    BY DEF E!RV32I_UpperOrJump
  <2>3. m.rd = o.rd /\ m.imm = o.imm
    BY JumpMembers
  <2> HIDE DEF m
  <2>6. Seen(E!ProcessOp(x, D!Op("C", "c_lui", o))) = Seen(E!AluImmC("c_lui", o))
    BY CompressedHandlers
  <2>7. Seen(BaseEffect(x, "lui", m)) = Seen(E!RV32I_UpperOrJump("lui", m))
    BY BaseHandlers
  <2>4. Seen(E!ProcessOp(x, D!Op("C", "c_lui", o))) = Seen(BaseEffect(x, "lui", m))
    BY <2>1, <2>2, <2>3, <2>6, <2>7
  <2> QED
    BY <2>4, ExpandsWhen, ExpansionClasses, Constructors DEF m
<1>7. Expands(x, D!Op("C", "c_andi", o), O!Make("andi", <<o.rd, o.rs1, o.imm>>))
  <2> DEFINE m == T!Members(T!Immediate, <<o.rd, o.rs1, o.imm>>)
  <2>1. E!AluImmC("c_andi", o) = E!WriteX(o.rd, E!Value("and", <<E!X(o.rs1), E!Imm(o.imm)>>))
    BY DEF E!AluImmC
  <2>2. E!RV32I_AluImm("andi", m) = E!WriteX(m.rd, E!Value("and", <<E!X(m.rs1), E!Imm(m.imm)>>))
    BY DEF E!RV32I_AluImm
  <2>3. m.rd = o.rd /\ m.rs1 = o.rs1 /\ m.imm = o.imm
    BY ImmediateMembers
  <2> HIDE DEF m
  <2>6. Seen(E!ProcessOp(x, D!Op("C", "c_andi", o))) = Seen(E!AluImmC("c_andi", o))
    BY CompressedHandlers
  <2>7. Seen(BaseEffect(x, "andi", m)) = Seen(E!RV32I_AluImm("andi", m))
    BY BaseHandlers
  <2>4. Seen(E!ProcessOp(x, D!Op("C", "c_andi", o))) = Seen(BaseEffect(x, "andi", m))
    BY <2>1, <2>2, <2>3, <2>6, <2>7
  <2> QED
    BY <2>4, ExpandsWhen, ExpansionClasses, Constructors DEF m
<1>8. ASSUME NEW name \in {"c_addi4spn", "c_addi16sp"}
      PROVE  Expands(x, D!Op("C", name, o), O!Make("addi", <<o.rd, 2, o.imm>>))
  <2> DEFINE m == T!Members(T!Immediate, <<o.rd, 2, o.imm>>)
  <2>2. E!RV32I_AluImm("addi", m) = E!WriteX(m.rd, E!Add(E!X(m.rs1), E!Imm(m.imm)))
    BY DEF E!RV32I_AluImm
  <2>3. m.rd = o.rd /\ m.rs1 = 2 /\ m.imm = o.imm
    BY ImmediateMembers
  <2> HIDE DEF m
  <2>6. Seen(E!ProcessOp(x, D!Op("C", name, o))) = Seen(E!WriteX(o.rd, E!Add(E!X(2), E!Imm(o.imm))))
    BY CompressedHandlers
  <2>7. Seen(BaseEffect(x, "addi", m)) = Seen(E!RV32I_AluImm("addi", m))
    BY BaseHandlers
  <2>4. Seen(E!ProcessOp(x, D!Op("C", name, o))) = Seen(BaseEffect(x, "addi", m))
    BY <2>2, <2>3, <2>6, <2>7
  <2> QED
    BY <2>4, ExpandsWhen, ExpansionClasses, Constructors DEF m
<1>9. ASSUME NEW short \in {"c_slli", "c_srli", "c_srai"}, NEW name, NEW f,
             <<short, name, f>> \in {<<"c_slli", "slli", "sll">>, <<"c_srli", "srli", "srl">>, <<"c_srai", "srai", "sra">>}
      PROVE  Expands(x, D!Op("C", short, o), O!Make(name, <<o.rd, o.rs1, o.imm>>))
  <2> DEFINE m == T!Members(T!Shift, <<o.rd, o.rs1, o.imm>>)
  <2>0. name \in {"slli", "srli", "srai"}
    BY <1>9
  <2>1. E!AluImmC(short, o) = E!WriteX(o.rd, E!Value(f, <<E!X(o.rs1), E!Imm(o.imm)>>))
    BY <1>9 DEF E!AluImmC
  <2>2. E!RV32I_ShiftImm(name, m) = E!WriteX(m.rd, E!Value(f, <<E!X(m.rs1), E!Imm(m.shamt)>>))
    BY <1>9 DEF E!RV32I_ShiftImm
  <2>3. m.rd = o.rd /\ m.rs1 = o.rs1 /\ m.shamt = o.imm
    BY ShiftMembers
  <2> HIDE DEF m
  <2>6. Seen(E!ProcessOp(x, D!Op("C", short, o))) = Seen(E!AluImmC(short, o))
    BY CompressedHandlers, <1>9
  <2>7. Seen(BaseEffect(x, name, m)) = Seen(E!RV32I_ShiftImm(name, m))
    BY BaseHandlers, <1>9, <2>0
  <2>4. Seen(E!ProcessOp(x, D!Op("C", short, o))) = Seen(BaseEffect(x, name, m))
    BY <2>1, <2>2, <2>3, <2>6, <2>7
  <2> QED
    BY <2>0, <2>4, ExpandsWhen, ExpansionClasses, Constructors DEF m
<1> QED
  BY <1>1, <1>2, <1>3, <1>4, <1>5, <1>6, <1>7, <1>8, <1>9

LEMMA ExpandsRegisters ==
  ASSUME NEW x \in Xlens, NEW o
  PROVE  /\ Expands(x, D!Op("C", "c_mv", o), O!Make("add", <<o.rd, 0, o.rs2>>))
         /\ Expands(x, D!Op("C", "c_add", o), O!Make("add", <<o.rd, o.rs1, o.rs2>>))
         /\ Expands(x, D!Op("C", "c_sub", o), O!Make("sub", <<o.rd, o.rs1, o.rs2>>))
         /\ Expands(x, D!Op("C", "c_xor", o), O!Make("xor", <<o.rd, o.rs1, o.rs2>>))
         /\ Expands(x, D!Op("C", "c_or", o), O!Make("or", <<o.rd, o.rs1, o.rs2>>))
         /\ Expands(x, D!Op("C", "c_and", o), O!Make("and", <<o.rd, o.rs1, o.rs2>>))
         /\ x = 64 => /\ Expands(x, D!Op("C", "c_subw", o), O!Make("subw", <<o.rd, o.rs1, o.rs2>>))
                      /\ Expands(x, D!Op("C", "c_addw", o), O!Make("addw", <<o.rd, o.rs1, o.rs2>>))
<1>1. Expands(x, D!Op("C", "c_mv", o), O!Make("add", <<o.rd, 0, o.rs2>>))
  <2> DEFINE m == T!Members(T!Three, <<o.rd, 0, o.rs2>>)
  <2>1. E!AluC("c_mv", o) = E!WriteX(o.rd, E!Copy(E!X(o.rs2)))
    BY DEF E!AluC
  <2>2. E!RV32I_Alu("add", m) = E!WriteX(m.rd, E!Add(E!X(m.rs1), E!X(m.rs2)))
    BY DEF E!RV32I_Alu
  <2>3. m.rd = o.rd /\ m.rs1 = 0 /\ m.rs2 = o.rs2
    BY ThreeMembers
  <2>4. E!Add(E!X(0), E!X(o.rs2)) = E!Copy(E!X(o.rs2))
    BY DEF E!Add, E!X
  <2> HIDE DEF m
  <2>5. Seen(E!ProcessOp(x, D!Op("C", "c_mv", o))) = Seen(E!AluC("c_mv", o))
    BY CompressedHandlers
  <2>6. Seen(BaseEffect(x, "add", m)) = Seen(E!RV32I_Alu("add", m))
    BY BaseHandlers
  <2>7. Seen(E!ProcessOp(x, D!Op("C", "c_mv", o))) = Seen(BaseEffect(x, "add", m))
    BY <2>1, <2>2, <2>3, <2>4, <2>5, <2>6
  <2> QED
    BY <2>7, ExpandsWhen, ExpansionClasses, Constructors DEF m
<1>2. Expands(x, D!Op("C", "c_add", o), O!Make("add", <<o.rd, o.rs1, o.rs2>>))
  <2> DEFINE m == T!Members(T!Three, <<o.rd, o.rs1, o.rs2>>)
  <2>1. E!AluC("c_add", o) = E!WriteX(o.rd, E!Add(E!X(o.rs1), E!X(o.rs2)))
    BY DEF E!AluC
  <2>2. E!RV32I_Alu("add", m) = E!WriteX(m.rd, E!Add(E!X(m.rs1), E!X(m.rs2)))
    BY DEF E!RV32I_Alu
  <2>3. m.rd = o.rd /\ m.rs1 = o.rs1 /\ m.rs2 = o.rs2
    BY ThreeMembers
  <2> HIDE DEF m
  <2>4. Seen(E!ProcessOp(x, D!Op("C", "c_add", o))) = Seen(E!AluC("c_add", o))
    BY CompressedHandlers
  <2>5. Seen(BaseEffect(x, "add", m)) = Seen(E!RV32I_Alu("add", m))
    BY BaseHandlers
  <2>6. Seen(E!ProcessOp(x, D!Op("C", "c_add", o))) = Seen(BaseEffect(x, "add", m))
    BY <2>1, <2>2, <2>3, <2>4, <2>5
  <2> QED
    BY <2>6, ExpandsWhen, ExpansionClasses, Constructors DEF m
<1>3. ASSUME NEW short, NEW name,
             \/ <<short, name>> \in {<<"c_sub", "sub">>, <<"c_xor", "xor">>, <<"c_or", "or">>, <<"c_and", "and">>}
             \/ x = 64 /\ <<short, name>> \in {<<"c_subw", "subw">>, <<"c_addw", "addw">>}
      PROVE  Expands(x, D!Op("C", short, o), O!Make(name, <<o.rd, o.rs1, o.rs2>>))
  <2> DEFINE m == T!Members(T!Three, <<o.rd, o.rs1, o.rs2>>)
  <2>1. E!AluC(short, o) = E!WriteX(o.rd, E!Value(name, <<E!X(o.rs1), E!X(o.rs2)>>))
    BY <1>3 DEF E!AluC
  <2>2. E!RV32I_Alu(name, m) = E!WriteX(m.rd, E!Value(name, <<E!X(m.rs1), E!X(m.rs2)>>))
    BY <1>3 DEF E!RV32I_Alu
  <2>3. m.rd = o.rd /\ m.rs1 = o.rs1 /\ m.rs2 = o.rs2
    BY ThreeMembers
  <2> HIDE DEF m
  <2>4. Seen(E!ProcessOp(x, D!Op("C", short, o))) = Seen(E!AluC(short, o))
    BY <1>3, CompressedHandlers
  <2>5. Seen(BaseEffect(x, name, m)) = Seen(E!RV32I_Alu(name, m))
    <3>1. E!RV64I_Alu(name, m) = E!RV32I_Alu(name, m)
      BY DEF E!RV64I_Alu, E!RV32I_Alu
    <3> QED
      BY <1>3, <3>1, BaseHandlers
  <2>6. Seen(E!ProcessOp(x, D!Op("C", short, o))) = Seen(BaseEffect(x, name, m))
    BY <2>1, <2>2, <2>3, <2>4, <2>5
  <2>7. name \in Bases(x) /\ T!ConstructorOf(name) = T!Three /\ name # "beq"
    BY <1>3, ExpansionClasses, Constructors
  <2> QED
    BY <2>6, <2>7, ExpandsWhen DEF m
<1> QED
  BY <1>1, <1>2, <1>3

\* A link differs by the length of the instruction alone, and a write to register 0 is none.
LEMMA VisibleJump ==
  ASSUME NEW e, NEW f, e.access = {}, f.access = {}, e.jump = f.jump,
         e.writes = {}, NEW v, f.writes = {[to |-> E!Imm(0), value |-> v]}
  PROVE  Visible(e) = Visible(f)
<1>1. {w \in e.writes : w.to # E!Imm(0)} = {} /\ {w \in f.writes : w.to # E!Imm(0)} = {}
  OBVIOUS
<1> QED
  BY <1>1 DEF Visible

LEMMA VisibleLink ==
  ASSUME NEW e, NEW f, e.access = {}, f.access = {}, e.jump = f.jump, NEW m, NEW n, NEW r,
         e.writes = {[to |-> r, value |-> E!Value("link", <<m>>)]},
         f.writes = {[to |-> r, value |-> E!Value("link", <<n>>)]}
  PROVE  Visible(e) = Visible(f)
<1> DEFINE write(k) == [to |-> r, value |-> E!Value("link", <<k>>)]
           written(ws) == {Linked(w) : w \in {v \in ws : v.to # E!Imm(0)}}
<1>1. \A k : write(k).to = r /\ Linked(write(k)) = [to |-> r, value |-> E!Value("link", <<>>)]
  BY DEF Linked, E!Value
<1>2. e.writes = {write(m)} /\ f.writes = {write(n)}
  OBVIOUS
<1> HIDE DEF write
<1>3. \A k : written({write(k)}) = IF r = E!Imm(0) THEN {} ELSE {[to |-> r, value |-> E!Value("link", <<>>)]}
  <2> TAKE k
  <2>1. CASE r = E!Imm(0)
    <3>1. {v \in {write(k)} : v.to # E!Imm(0)} = {}
      BY <1>1, <2>1
    <3> QED BY <2>1, <3>1
  <2>2. CASE r # E!Imm(0)
    <3>1. {v \in {write(k)} : v.to # E!Imm(0)} = {write(k)}
      BY <1>1, <2>2
    <3>2. {Linked(w) : w \in {write(k)}} = {Linked(write(k))}
      OBVIOUS
    <3> QED BY <1>1, <2>2, <3>1, <3>2
  <2> QED BY <2>1, <2>2
<1>4. written(e.writes) = written(f.writes)
  BY <1>2, <1>3
<1> QED
  BY <1>4 DEF Visible

\* The registers a jump names are those of its target and its link.
LEMMA SeenJump ==
  ASSUME NEW e, NEW f, e.access = {}, f.access = {}, e.jump = f.jump, e.reserves = {}, f.reserves = {},
         e.writes = {}, NEW v, f.writes = {[to |-> E!Imm(0), value |-> v]}, ValueRegs(v) = {}
  PROVE  Seen(e) = Seen(f)
<1> DEFINE w == [to |-> E!Imm(0), value |-> v]
<1>1. Visible(e) = Visible(f)
  BY VisibleJump
<1>2. w.to = E!Imm(0) /\ w.value = v /\ f.writes = {w}
  OBVIOUS
<1> HIDE DEF w
<1>3. WriteRegs(e.writes) = {} /\ WriteRegs(f.writes) = {}
  <2>1. WriteRegs({w}) = Reg(w.to) \cup ValueRegs(w.value)
    BY RegsOfOne
  <2>2. Reg(w.to) = {}
    BY <1>2, RegsOfOperands
  <2> QED
    BY <1>2, <2>1, <2>2, RegsOfOne
<1>4. Registers(e) = Registers(f)
  BY <1>3, RegistersByPart
<1> QED
  BY <1>1, <1>4 DEF Seen

LEMMA SeenLink ==
  ASSUME NEW e, NEW f, e.access = {}, f.access = {}, e.jump = f.jump, e.reserves = {}, f.reserves = {},
         NEW m, NEW n, NEW r, Reg(m) = {}, Reg(n) = {},
         e.writes = {[to |-> r, value |-> E!Value("link", <<m>>)]},
         f.writes = {[to |-> r, value |-> E!Value("link", <<n>>)]}
  PROVE  Seen(e) = Seen(f)
<1> DEFINE write(k) == [to |-> r, value |-> E!Value("link", <<k>>)]
<1>1. Visible(e) = Visible(f)
  BY VisibleLink
<1>2. e.writes = {write(m)} /\ f.writes = {write(n)}
  OBVIOUS
<1>3. \A k : write(k).to = r /\ ValueRegs(write(k).value) = Reg(k)
  BY RegsOfValues
<1> HIDE DEF write
<1>4. \A k : Reg(k) = {} => WriteRegs({write(k)}) = Reg(r)
  <2> SUFFICES ASSUME NEW k, Reg(k) = {} PROVE WriteRegs({write(k)}) = Reg(r)
    OBVIOUS
  <2>1. WriteRegs({write(k)}) = Reg(write(k).to) \cup ValueRegs(write(k).value)
    BY Zenon, RegsOfOne
  <2>2. Reg(write(k).to) = Reg(r) /\ ValueRegs(write(k).value) = {}
    BY Zenon, <1>3
  <2>3. Reg(r) \cup {} = Reg(r)
    OBVIOUS
  <2> QED
    BY Zenon, <2>1, <2>2, <2>3
<1>5. WriteRegs(e.writes) = WriteRegs(f.writes)
  BY <1>2, <1>4
<1>6. Registers(e) = Registers(f)
  BY <1>5, RegistersByPart
<1> QED
  BY <1>1, <1>6 DEF Seen

LEMMA ExpandsJumps ==
  ASSUME NEW x \in Xlens, NEW o
  PROVE  /\ Expands(x, D!Op("C", "c_j", o), O!Make("jal", <<0, o.imm>>))
         /\ x = 32 => Expands(x, D!Op("C", "c_jal", o), O!Make("jal", <<1, o.imm>>))
         /\ Expands(x, D!Op("C", "c_jr", o), O!Make("jalr", <<0, o.rs1, 0>>))
         /\ Expands(x, D!Op("C", "c_jalr", o), O!Make("jalr", <<1, o.rs1, 0>>))
         /\ Expands(x, D!Op("C", "c_beqz", o), O!Make("beq", <<o.rs1, 0, o.imm>>))
         /\ Expands(x, D!Op("C", "c_bnez", o), O!Make("bne", <<o.rs1, 0, o.imm>>))
<1>1. ASSUME NEW m, m.imm = o.imm
      PROVE  /\ m.rd = 0 => Seen(E!JumpC(o)) = Seen(E!RV32I_UpperOrJump("jal", m))
             /\ m.rd = 1 => Seen(E!WriteLinkRegister(E!JumpC(o))) = Seen(E!RV32I_UpperOrJump("jal", m))
  <2>1. LET e == E!RV32I_UpperOrJump("jal", m) IN
        /\ e.access = {} /\ e.reserves = {} /\ e.jump = {E!Target(E!Pc, o.imm, E!Always)}
        /\ e.writes = {[to |-> E!X(m.rd), value |-> E!Value("link", <<E!Imm(4)>>)]}
    BY <1>1 DEF E!RV32I_UpperOrJump, E!WriteX, E!Idle
  <2>2. LET e == E!JumpC(o) IN e.access = {} /\ e.reserves = {} /\ e.jump = {E!Target(E!Pc, o.imm, E!Always)} /\ e.writes = {}
    BY DEF E!JumpC, E!Idle
  <2>3. LET e == E!WriteLinkRegister(E!JumpC(o)) IN
        /\ e.access = {} /\ e.reserves = {} /\ e.jump = {E!Target(E!Pc, o.imm, E!Always)}
        /\ e.writes = {[to |-> E!X(1), value |-> E!Value("link", <<E!Imm(2)>>)]}
    BY DEF E!WriteLinkRegister, E!JumpC, E!Idle
  <2>4. E!X(0) = E!Imm(0)
    BY DEF E!X
  <2> DEFINE base == E!RV32I_UpperOrJump("jal", m)
             jump == E!JumpC(o)
             link == E!WriteLinkRegister(E!JumpC(o))
  <2>5. /\ base.reserves = {} /\ jump.reserves = {} /\ link.reserves = {}
        /\ base.access = {} /\ jump.access = {} /\ link.access = {} /\ base.jump = jump.jump /\ base.jump = link.jump
        /\ base.writes = {[to |-> E!X(m.rd), value |-> E!Value("link", <<E!Imm(4)>>)]} /\ jump.writes = {}
        /\ link.writes = {[to |-> E!X(1), value |-> E!Value("link", <<E!Imm(2)>>)]}
    BY <2>1, <2>2, <2>3
  <2> HIDE DEF base, jump, link
  <2>6. ASSUME m.rd = 0 PROVE Seen(jump) = Seen(base)
    <3>1. base.writes = {[to |-> E!Imm(0), value |-> E!Value("link", <<E!Imm(4)>>)]}
      BY <2>4, <2>5, <2>6
    <3> DEFINE v == E!Value("link", <<E!Imm(4)>>)
    <3>2. ValueRegs(v) = {}
      BY RegsOfValues, RegsOfOperands
    <3>3. base.writes = {[to |-> E!Imm(0), value |-> v]}
      BY <3>1
    <3> HIDE DEF v
    <3> QED BY <2>5, <3>2, <3>3, SeenJump
  <2>7. ASSUME m.rd = 1 PROVE Seen(link) = Seen(base)
    <3>1. base.writes = {[to |-> E!X(1), value |-> E!Value("link", <<E!Imm(4)>>)]}
      BY <2>5, <2>7
    <3> DEFINE four == E!Imm(4)
               two == E!Imm(2)
               ra == E!X(1)
    <3>2. /\ base.writes = {[to |-> ra, value |-> E!Value("link", <<four>>)]}
          /\ link.writes = {[to |-> ra, value |-> E!Value("link", <<two>>)]}
          /\ base.access = {} /\ link.access = {} /\ link.jump = base.jump
      BY <2>5, <3>1
    <3>3. /\ base.reserves = {} /\ link.reserves = {} /\ Reg(four) = {} /\ Reg(two) = {}
      BY <2>5, RegsOfOperands
    <3> HIDE DEF four, two, ra
    <3> QED BY <3>2, <3>3, SeenLink
  <2> QED
    BY <2>6, <2>7 DEF base, jump, link
<1>2. ASSUME NEW m, m.imm = 0, m.rs1 = o.rs1
      PROVE  /\ m.rd = 0 => Seen(E!JumpRegisterC(o)) = Seen(E!RV32I_UpperOrJump("jalr", m))
             /\ m.rd = 1 => Seen(E!WriteLinkRegister(E!JumpRegisterC(o))) = Seen(E!RV32I_UpperOrJump("jalr", m))
  <2>1. LET e == E!RV32I_UpperOrJump("jalr", m) IN
        /\ e.access = {} /\ e.reserves = {} /\ e.jump = {E!Target(E!X(o.rs1), 0, E!Always)}
        /\ e.writes = {[to |-> E!X(m.rd), value |-> E!Value("link", <<E!Imm(4)>>)]}
    BY <1>2 DEF E!RV32I_UpperOrJump, E!WriteX, E!Idle
  <2>2. LET e == E!JumpRegisterC(o) IN e.access = {} /\ e.reserves = {} /\ e.jump = {E!Target(E!X(o.rs1), 0, E!Always)} /\ e.writes = {}
    BY DEF E!JumpRegisterC, E!Idle
  <2>3. LET e == E!WriteLinkRegister(E!JumpRegisterC(o)) IN
        /\ e.access = {} /\ e.reserves = {} /\ e.jump = {E!Target(E!X(o.rs1), 0, E!Always)}
        /\ e.writes = {[to |-> E!X(1), value |-> E!Value("link", <<E!Imm(2)>>)]}
    BY DEF E!WriteLinkRegister, E!JumpRegisterC, E!Idle
  <2>4. E!X(0) = E!Imm(0)
    BY DEF E!X
  <2> DEFINE base == E!RV32I_UpperOrJump("jalr", m)
             jump == E!JumpRegisterC(o)
             link == E!WriteLinkRegister(E!JumpRegisterC(o))
  <2>5. /\ base.reserves = {} /\ jump.reserves = {} /\ link.reserves = {}
        /\ base.access = {} /\ jump.access = {} /\ link.access = {} /\ base.jump = jump.jump /\ base.jump = link.jump
        /\ base.writes = {[to |-> E!X(m.rd), value |-> E!Value("link", <<E!Imm(4)>>)]} /\ jump.writes = {}
        /\ link.writes = {[to |-> E!X(1), value |-> E!Value("link", <<E!Imm(2)>>)]}
    BY <2>1, <2>2, <2>3
  <2> HIDE DEF base, jump, link
  <2>6. ASSUME m.rd = 0 PROVE Seen(jump) = Seen(base)
    <3>1. base.writes = {[to |-> E!Imm(0), value |-> E!Value("link", <<E!Imm(4)>>)]}
      BY <2>4, <2>5, <2>6
    <3> DEFINE v == E!Value("link", <<E!Imm(4)>>)
    <3>2. ValueRegs(v) = {}
      BY RegsOfValues, RegsOfOperands
    <3>3. base.writes = {[to |-> E!Imm(0), value |-> v]}
      BY <3>1
    <3> HIDE DEF v
    <3> QED BY <2>5, <3>2, <3>3, SeenJump
  <2>7. ASSUME m.rd = 1 PROVE Seen(link) = Seen(base)
    <3>1. base.writes = {[to |-> E!X(1), value |-> E!Value("link", <<E!Imm(4)>>)]}
      BY <2>5, <2>7
    <3> DEFINE four == E!Imm(4)
               two == E!Imm(2)
               ra == E!X(1)
    <3>2. /\ base.writes = {[to |-> ra, value |-> E!Value("link", <<four>>)]}
          /\ link.writes = {[to |-> ra, value |-> E!Value("link", <<two>>)]}
          /\ base.access = {} /\ link.access = {} /\ link.jump = base.jump
      BY <2>5, <3>1
    <3>3. /\ base.reserves = {} /\ link.reserves = {} /\ Reg(four) = {} /\ Reg(two) = {}
      BY <2>5, RegsOfOperands
    <3> HIDE DEF four, two, ra
    <3> QED BY <3>2, <3>3, SeenLink
  <2> QED
    BY <2>6, <2>7 DEF base, jump, link
<1>3. ASSUME NEW short, NEW name, <<short, name>> \in {<<"c_beqz", "beq">>, <<"c_bnez", "bne">>}
      PROVE  Expands(x, D!Op("C", short, o), O!Make(name, <<o.rs1, 0, o.imm>>))
  <2> DEFINE m == T!Members(T!TwoSources, <<o.rs1, 0, o.imm>>)
             test == IF name = "beq" THEN "eq" ELSE "ne"
  <2>1. m.rs1 = o.rs1 /\ m.rs2 = 0 /\ m.imm = o.imm
    BY TwoSourcesMembers
  <2> HIDE DEF m
  <2>2. LET e == E!RV32I_Branch(name, m) IN
        /\ e.access = {} /\ e.reserves = {} /\ e.jump = {E!Target(E!Pc, o.imm, E!Value(test, <<E!X(o.rs1), E!Imm(0)>>))} /\ e.writes = {}
    BY <1>3, <2>1 DEF E!RV32I_Branch, E!Tests, E!Idle, E!X
  <2>3. LET e == E!BranchC(short, o) IN
        /\ e.access = {} /\ e.reserves = {} /\ e.jump = {E!Target(E!Pc, o.imm, E!Value(test, <<E!X(o.rs1), E!Imm(0)>>))} /\ e.writes = {}
    BY <1>3 DEF E!BranchC, E!Idle
  <2>4. Seen(E!BranchC(short, o)) = Seen(E!RV32I_Branch(name, m))
    BY <2>2, <2>3, SeenParts
  <2>5. Seen(E!ProcessOp(x, D!Op("C", short, o))) = Seen(E!BranchC(short, o))
    BY <1>3, CompressedHandlers
  <2>6. Seen(BaseEffect(x, name, m)) = Seen(E!RV32I_Branch(name, m))
    BY <1>3, BaseHandlers
  <2>7. name \in Bases(x) /\ T!ConstructorOf(name) = T!TwoSources
    BY <1>3, ExpansionClasses, Constructors
  <2>8. name = "beq" => D!Op("C", short, o).name = "c_beqz"
    BY <1>3 DEF D!Op
  <2> QED
    BY <2>4, <2>5, <2>6, <2>7, <2>8, ExpandsWhen DEF m
<1>4. ASSUME NEW rd \in {0, 1}
      PROVE  LET m == T!Members(T!Jump, <<rd, o.imm>>) IN m.rd = rd /\ m.imm = o.imm
  BY JumpMembers
<1>5. ASSUME NEW rd \in {0, 1}
      PROVE  LET m == T!Members(T!Immediate, <<rd, o.rs1, 0>>) IN m.rd = rd /\ m.rs1 = o.rs1 /\ m.imm = 0
  BY ImmediateMembers
<1>6. \A m : /\ Seen(BaseEffect(x, "jal", m)) = Seen(E!RV32I_UpperOrJump("jal", m))
             /\ Seen(BaseEffect(x, "jalr", m)) = Seen(E!RV32I_UpperOrJump("jalr", m))
  BY BaseHandlers
<1>7. /\ {"jal", "jalr"} \subseteq Bases(x)
      /\ T!ConstructorOf("jal") = T!Jump /\ T!ConstructorOf("jalr") = T!Immediate
  BY ExpansionClasses, Constructors
<1>8. Expands(x, D!Op("C", "c_j", o), O!Make("jal", <<0, o.imm>>))
  <2> DEFINE m == T!Members(T!Jump, <<0, o.imm>>)
  <2>1. Seen(E!ProcessOp(x, D!Op("C", "c_j", o))) = Seen(BaseEffect(x, "jal", m))
    BY <1>1, <1>4, <1>6, CompressedJumps
  <2> HIDE DEF m
  <2> QED
    BY <1>7, <2>1, ExpandsWhen DEF m
<1>9. ASSUME x = 32 PROVE Expands(x, D!Op("C", "c_jal", o), O!Make("jal", <<1, o.imm>>))
  <2> DEFINE m == T!Members(T!Jump, <<1, o.imm>>)
  <2>1. Seen(E!ProcessOp(x, D!Op("C", "c_jal", o))) = Seen(BaseEffect(x, "jal", m))
    BY <1>1, <1>4, <1>6, <1>9, CompressedJumps
  <2> HIDE DEF m
  <2> QED
    BY <1>7, <2>1, ExpandsWhen DEF m
<1>10. Expands(x, D!Op("C", "c_jr", o), O!Make("jalr", <<0, o.rs1, 0>>))
  <2> DEFINE m == T!Members(T!Immediate, <<0, o.rs1, 0>>)
  <2>1. Seen(E!ProcessOp(x, D!Op("C", "c_jr", o))) = Seen(BaseEffect(x, "jalr", m))
    BY <1>2, <1>5, <1>6, CompressedJumps
  <2> HIDE DEF m
  <2> QED
    BY <1>7, <2>1, ExpandsWhen DEF m
<1>11. Expands(x, D!Op("C", "c_jalr", o), O!Make("jalr", <<1, o.rs1, 0>>))
  <2> DEFINE m == T!Members(T!Immediate, <<1, o.rs1, 0>>)
  <2>1. Seen(E!ProcessOp(x, D!Op("C", "c_jalr", o))) = Seen(BaseEffect(x, "jalr", m))
    BY <1>2, <1>5, <1>6, CompressedJumps
  <2> HIDE DEF m
  <2> QED
    BY <1>7, <2>1, ExpandsWhen DEF m
<1> QED
  BY <1>3, <1>8, <1>9, <1>10, <1>11

LEMMA ExpandsMemory ==
  ASSUME NEW x \in Xlens, NEW o
  PROVE  /\ Expands(x, D!Op("C", "c_lw", o), O!Make("lw", <<o.rd, o.rs1, o.imm>>))
         /\ Expands(x, D!Op("C", "c_lwsp", o), O!Make("lw", <<o.rd, 2, o.imm>>))
         /\ Expands(x, D!Op("C", "c_swsp", o), O!Make("sw", <<2, o.rs2, o.imm>>))
         /\ x = 64 => /\ Expands(x, D!Op("C", "c_ld", o), O!Make("ld", <<o.rd, o.rs1, o.imm>>))
                      /\ Expands(x, D!Op("C", "c_ldsp", o), O!Make("ld", <<o.rd, 2, o.imm>>))
                      /\ Expands(x, D!Op("C", "c_sdsp", o), O!Make("sd", <<2, o.rs2, o.imm>>))
<1> DEFINE Loads(base) == T!Members(T!Immediate, <<o.rd, base, o.imm>>)
           stores == T!Members(T!TwoSources, <<2, o.rs2, o.imm>>)
<1>1. \A base : Loads(base).rd = o.rd /\ Loads(base).rs1 = base /\ Loads(base).imm = o.imm
  BY ImmediateMembers
<1>2. stores.rs1 = 2 /\ stores.rs2 = o.rs2 /\ stores.imm = o.imm
  BY TwoSourcesMembers
<1>3. \A base : E!RV64I_Load("lw", Loads(base)) = E!Loading(E!WriteX(o.rd, E!Loaded(4, "signed")), 4, E!X(base), o.imm)
  BY <1>1 DEF E!RV64I_Load, E!LoadSizes, E!Extension
<1>4. \A base : E!RV64I_Load("ld", Loads(base)) = E!Loading(E!WriteX(o.rd, E!Loaded(8, "signed")), 8, E!X(base), o.imm)
  BY <1>1 DEF E!RV64I_Load, E!LoadSizes, E!Extension
<1>5. /\ E!RV64I_Store("sw", stores) = E!Storing(4, E!X(2), o.imm, E!X(o.rs2))
      /\ E!RV64I_Store("sd", stores) = E!Storing(8, E!X(2), o.imm, E!X(o.rs2))
  BY <1>2 DEF E!RV64I_Store, E!StoreSizes
<1>6. \A base, size : Seen(E!LoadC(o, base, size)) = Seen(E!Loading(E!WriteX(o.rd, E!Loaded(size, "signed")), size, base, o.imm))
  BY SeenParts DEF E!LoadC
<1>7. \A base, size : Seen(E!StoreC(o, base, size)) = Seen(E!Storing(size, base, o.imm, E!X(o.rs2)))
  BY SeenParts DEF E!StoreC
<1> HIDE DEF Loads, stores
<1>8. /\ {"lw", "sw"} \subseteq Bases(x) /\ (x = 64 => {"ld", "sd"} \subseteq Bases(x))
      /\ \A name \in {"lw", "ld"} : T!ConstructorOf(name) = T!Immediate
      /\ \A name \in {"sw", "sd"} : T!ConstructorOf(name) = T!TwoSources
  BY ExpansionClasses, Constructors
<1>9. /\ Seen(E!ProcessOp(x, D!Op("C", "c_lw", o))) = Seen(BaseEffect(x, "lw", Loads(o.rs1)))
      /\ Seen(E!ProcessOp(x, D!Op("C", "c_lwsp", o))) = Seen(BaseEffect(x, "lw", Loads(2)))
  BY <1>3, <1>6, CompressedMemory, BaseMemory
<1>10. Seen(E!ProcessOp(x, D!Op("C", "c_swsp", o))) = Seen(BaseEffect(x, "sw", stores))
  BY <1>5, <1>7, CompressedMemory, BaseMemory
<1>11. ASSUME x = 64
       PROVE  /\ Seen(E!ProcessOp(x, D!Op("C", "c_ld", o))) = Seen(BaseEffect(x, "ld", Loads(o.rs1)))
              /\ Seen(E!ProcessOp(x, D!Op("C", "c_ldsp", o))) = Seen(BaseEffect(x, "ld", Loads(2)))
              /\ Seen(E!ProcessOp(x, D!Op("C", "c_sdsp", o))) = Seen(BaseEffect(x, "sd", stores))
  BY <1>4, <1>5, <1>6, <1>7, <1>11, CompressedMemory, BaseMemory
<1> QED
  BY <1>8, <1>9, <1>10, <1>11, ExpandsWhen DEF Loads, stores

LEMMA ExpandsFloats ==
  ASSUME NEW x \in Xlens, NEW o
  PROVE  /\ Expands(x, D!Op("C", "c_fld", o), O!Make("fld", <<o.rd, o.rs1, o.imm>>))
         /\ Expands(x, D!Op("C", "c_fldsp", o), O!Make("fld", <<o.rd, 2, o.imm>>))
         /\ Expands(x, D!Op("C", "c_fsdsp", o), O!Make("fsd", <<2, o.rs2, o.imm>>))
         /\ x = 32 => /\ Expands(x, D!Op("C", "c_flw", o), O!Make("flw", <<o.rd, o.rs1, o.imm>>))
                      /\ Expands(x, D!Op("C", "c_flwsp", o), O!Make("flw", <<o.rd, 2, o.imm>>))
                      /\ Expands(x, D!Op("C", "c_fswsp", o), O!Make("fsw", <<2, o.rs2, o.imm>>))
<1> DEFINE Loads(base) == T!Members(T!Immediate, <<o.rd, base, o.imm>>)
           stores == T!Members(T!TwoSources, <<2, o.rs2, o.imm>>)
           Loaded(base, size) == E!Loading(E!WriteF(o.rd, E!Loaded(size, "float")), size, base, o.imm)
           Stored(size) == E!Storing(size, E!X(2), o.imm, E!F(o.rs2))
<1>1. \A base : Loads(base).rd = o.rd /\ Loads(base).rs1 = base /\ Loads(base).imm = o.imm
  BY ImmediateMembers
<1>2. stores.rs1 = 2 /\ stores.rs2 = o.rs2 /\ stores.imm = o.imm
  BY TwoSourcesMembers
<1>3. \A base : /\ Seen(E!RV32F_Load(Loads(base))) = Seen(Loaded(E!X(base), 4))
                /\ Seen(E!RV32D_Load(Loads(base))) = Seen(Loaded(E!X(base), 8))
  BY <1>1, SeenParts DEF E!RV32F_Load, E!RV32D_Load
<1>4. E!RV32F_Store(stores) = Stored(4) /\ E!RV32D_Store(stores) = Stored(8)
  BY <1>2 DEF E!RV32F_Store, E!RV32D_Store
<1>5. \A base, size : Seen(E!LoadFpC(o, base, size)) = Seen(Loaded(base, size))
  BY SeenParts DEF E!LoadFpC
<1>6. \A size : Seen(E!StoreFpC(o, E!X(2), size)) = Seen(Stored(size))
  BY SeenParts DEF E!StoreFpC
<1> HIDE DEF Loads, stores, Loaded, Stored
<1>7. /\ {"flw", "fsw", "fld", "fsd"} \subseteq Bases(x)
      /\ \A name \in {"flw", "fld"} : T!ConstructorOf(name) = T!Immediate
      /\ \A name \in {"fsw", "fsd"} : T!ConstructorOf(name) = T!TwoSources
  BY ExpansionClasses, Constructors
<1>8. /\ Seen(E!ProcessOp(x, D!Op("C", "c_fld", o))) = Seen(BaseEffect(x, "fld", Loads(o.rs1)))
      /\ Seen(E!ProcessOp(x, D!Op("C", "c_fldsp", o))) = Seen(BaseEffect(x, "fld", Loads(2)))
      /\ Seen(E!ProcessOp(x, D!Op("C", "c_fsdsp", o))) = Seen(BaseEffect(x, "fsd", stores))
  BY <1>3, <1>4, <1>5, <1>6, CompressedMemory, BaseMemory
<1>9. ASSUME x = 32
      PROVE  /\ Seen(E!ProcessOp(x, D!Op("C", "c_flw", o))) = Seen(BaseEffect(x, "flw", Loads(o.rs1)))
             /\ Seen(E!ProcessOp(x, D!Op("C", "c_flwsp", o))) = Seen(BaseEffect(x, "flw", Loads(2)))
             /\ Seen(E!ProcessOp(x, D!Op("C", "c_fswsp", o))) = Seen(BaseEffect(x, "fsw", stores))
  BY <1>3, <1>4, <1>5, <1>6, <1>9, CompressedMemory, BaseMemory
<1> QED
  BY <1>7, <1>8, <1>9, ExpandsWhen DEF Loads, stores

\* The fields of a compressed word, in the copies of the two decoders.
LEMMA SameShortFields ==
  /\ \A w, lsb, width : O!Pick(w, lsb, width) = D!Pick(w, lsb, width)
  /\ \A w, n : O!Bit(w, n) = D!Bit(w, n) /\ O!Short(w, n) = D!Short(w, n)
  /\ \A w : O!BitsCI(w) = D!BitsCI(w) /\ O!BitsCJ(w) = D!BitsCJ(w) /\ O!BitsCB(w) = D!BitsCB(w)
            /\ O!BitsAddi16sp(w) = D!BitsAddi16sp(w) /\ O!BitsAddi4spn(w) = D!BitsAddi4spn(w)
  /\ \A w, size : O!BitsWord(w, size) = D!BitsWord(w, size) /\ O!BitsLoadSp(w, size) = D!BitsLoadSp(w, size)
                  /\ O!BitsStoreSp(w, size) = D!BitsStoreSp(w, size)
BY Zenon DEF O!Pick, D!Pick, O!Bit, D!Bit, O!Short, D!Short, O!BitsCI, D!BitsCI, O!BitsCJ, D!BitsCJ, O!BitsCB, D!BitsCB,
   O!BitsAddi16sp, D!BitsAddi16sp, O!BitsAddi4spn, D!BitsAddi4spn, O!BitsWord, D!BitsWord, O!BitsLoadSp, D!BitsLoadSp,
   O!BitsStoreSp, D!BitsStoreSp

LEMMA FieldWidths ==
  ASSUME NEW w \in Compresseds
  PROVE  /\ D!Pick(w, 13, 3) \in 0 .. 7 /\ D!Pick(w, 2, 5) \in 0 .. 31 /\ D!Pick(w, 7, 5) \in 0 .. 31
         /\ D!Pick(w, 10, 2) \in 0 .. 3 /\ D!Pick(w, 5, 2) \in 0 .. 3 /\ D!Bit(w, 12) \in 0 .. 1
<1>0. w \in Nat
  BY DEF Compresseds
<1> QED
  BY <1>0 DEF D!Pick, D!Bit

\* The immediate of six bits, extended by its sign, before or after it is shifted into place.
LEMMA SixBits ==
  ASSUME NEW w \in Compresseds
  PROVE  LET imm == D!SignExtend(6, D!BitsCI(w)) IN
         /\ O!SignExtend(18, D!BitsCI(w) * 4096) = imm * 4096
         /\ imm \in 1 .. 31 => D!BitsCI(w) = imm
         /\ D!BitsCI(w) \in 1 .. 31 => D!BitsCI(w) = imm
<1> DEFINE sign == D!Bit(w, 12)
           rest == D!Pick(w, 2, 5)
           bits == sign * 32 + rest
<1>1. sign \in {0, 1} /\ rest \in Nat /\ rest < 32
  BY FieldWidths
<1>2. D!BitsCI(w) = bits
  BY DEF D!BitsCI
<1> HIDE DEF sign, rest
<1>3. bits \div 32 = sign /\ bits % 32 = rest
  BY SMT, <1>1
<1>4. (bits * 4096) \div 131072 = sign /\ (bits * 4096) % 131072 = rest * 4096
  BY SMT, <1>1
<1>5. bits \in Nat /\ sign = 0 => bits = rest
  BY SMT, <1>1
<1>6. bits * 4096 = sign * 131072 + rest * 4096
  BY SMT, <1>1
<1> HIDE DEF bits
<1>7. D!SignExtend(6, bits) = IF sign = 1 THEN rest - 32 ELSE bits
  BY SMT, <1>1, <1>3 DEF D!SignExtend, D!Bit, D!Pick
<1>8. O!SignExtend(18, bits * 4096) = IF sign = 1 THEN rest * 4096 - 131072 ELSE bits * 4096
  BY SMT, <1>1, <1>4 DEF O!SignExtend, O!Bit, O!Pick
<1>9. O!SignExtend(18, bits * 4096) = D!SignExtend(6, bits) * 4096
  BY SMT, <1>1, <1>7, <1>8
<1>10. /\ D!SignExtend(6, bits) \in 1 .. 31 => bits = D!SignExtend(6, bits)
       /\ bits \in 1 .. 31 => bits = D!SignExtend(6, bits)
  <2>1. sign = 1 => bits >= 32 /\ D!SignExtend(6, bits) < 0
    BY SMT, <1>1, <1>7 DEF bits
  <2> QED
    BY SMT, <1>1, <1>7, <2>1
<1> QED
  BY <1>2, <1>9, <1>10

\* What is left out: stores that exchange their registers, the destination that RV64 forgets, and far shifts.
ShiftsByFar(a) == a.name \in {"c_slli", "c_srli", "c_srai"} /\ a.operand.imm \notin 1 .. 31
Swaps(x, a, b) ==
  /\ a.name \in Swapped
  /\ \/ a.name \in WrongFile
     \/ \E o : a = D!Op("C", "c_sw", o) /\ b = O!Make("sw", <<o.rs2, o.rs1, o.imm>>)
     \/ x = 64 /\ \E o : a = D!Op("C", "c_sd", o) /\ b = O!Make("sd", <<o.rs2, o.rs1, o.imm>>)
Expanded(x, a, b) ==
  \/ Expands(x, a, b)
  \/ a.name = "unknown" \/ a.name \in Unhandled(x)
  \/ Swaps(x, a, b) \/ (x = 64 /\ a.name = "c_addi4spn") \/ ShiftsByFar(a)

LEMMA ExpandedQuadrant0 ==
  ASSUME NEW x \in Xlens, NEW w \in Compresseds
  PROVE  Expanded(x, D!Quadrant0(x, w), IF x = 32 THEN O!DecodeRV32C_Quadrant0(w) ELSE O!DecodeRV64C_Quadrant0(w))
<1> DEFINE f == D!Pick(w, 13, 3)
           a == D!Quadrant0(x, w)
           b == IF x = 32 THEN O!DecodeRV32C_Quadrant0(w) ELSE O!DecodeRV64C_Quadrant0(w)
           third == IF x = 32 THEN O!ShortLoad(w, "flw", 4) ELSE O!ShortLoad(w, "ld", 8)
           seventh == IF x = 32 THEN O!ShortStore(w, "fsw", 4) ELSE O!ShortStore(w, "sd", 8)
<1>0. /\ f \in 0 .. 7 /\ O!Funct3(w) = f
      /\ b = O!Quadrant0(w, IF x = 32 THEN O!Short(w, 2) ELSE 2, third, seventh)
  BY FieldWidths, SameShortFields DEF O!Funct3, O!DecodeRV32C_Quadrant0, O!DecodeRV64C_Quadrant0, Xlens
<1> SUFFICES Expanded(x, a, b)
  OBVIOUS
<1> HIDE DEF third, seventh, a, b
<1>1. ASSUME NEW name, NEW size, NEW short
      PROVE  LET o == D!OperandCL(w, size) IN O!ShortLoad(w, name, size) = O!Make(name, <<o.rd, o.rs1, o.imm>>)
  BY SameShortFields DEF O!ShortLoad, D!OperandCL
<1>2. CASE f = 0
  <2> DEFINE any == D!Pick(w, 5, 8)
  <2>1. O!Pick(w, 5, 8) = any
    BY SameShortFields
  <2>2. any # 0 => a = D!Op("C", "c_addi4spn", D!OperandCIW(w))
    BY <1>2 DEF D!Quadrant0, a
  <2>3. any = 0 => a = D!Unknown("C")
    BY <1>2 DEF D!Quadrant0, a
  <2>4. any # 0 => b = O!Make("addi", <<IF x = 32 THEN O!Short(w, 2) ELSE 2, 2, O!BitsAddi4spn(w)>>)
    BY <1>0, <1>2, <2>1 DEF O!Quadrant0
  <2>5. CASE any = 0
    BY <2>3, <2>5 DEF Expanded, D!Unknown, D!Op
  <2>6. CASE any # 0 /\ x = 32
    <3>1. D!OperandCIW(w).rd = O!Short(w, 2) /\ D!OperandCIW(w).imm = O!BitsAddi4spn(w)
      BY SameShortFields DEF D!OperandCIW
    <3> QED
      BY <2>2, <2>4, <2>6, <3>1, ExpandsImmediate DEF Expanded
  <2>7. CASE any # 0 /\ x = 64
    BY <2>2, <2>7 DEF Expanded, D!Op
  <2> QED
    BY <2>5, <2>6, <2>7 DEF Xlens
<1>3. CASE f = 1
  <2>1. a = D!Op("C", "c_fld", D!OperandCL(w, 8))
    BY <1>3 DEF D!Quadrant0, a
  <2>2. b = O!ShortLoad(w, "fld", 8)
    BY <1>0, <1>3 DEF O!Quadrant0
  <2> QED
    BY <1>1, <2>1, <2>2, ExpandsFloats DEF Expanded
<1>4. CASE f = 2
  <2>1. a = D!Op("C", "c_lw", D!OperandCL(w, 4))
    BY <1>4 DEF D!Quadrant0, a
  <2>2. b = O!ShortLoad(w, "lw", 4)
    BY <1>0, <1>4 DEF O!Quadrant0
  <2> QED
    BY <1>1, <2>1, <2>2, ExpandsMemory DEF Expanded
<1>5. CASE f = 3
  <2>1. a = IF x = 32 THEN D!Op("C", "c_flw", D!OperandCL(w, 4)) ELSE D!Op("C", "c_ld", D!OperandCL(w, 8))
    BY <1>5 DEF D!Quadrant0, a
  <2>2. b = third
    BY <1>0, <1>5 DEF O!Quadrant0
  <2>3. CASE x = 32
    BY <1>1, <2>1, <2>2, <2>3, ExpandsFloats DEF Expanded, third
  <2>4. CASE x = 64
    <3>1. a = D!Op("C", "c_ld", D!OperandCL(w, 8)) /\ b = O!ShortLoad(w, "ld", 8)
      BY <2>1, <2>2, <2>4 DEF third
    <3> QED
      BY <1>1, <2>4, <3>1, ExpandsMemory DEF Expanded
  <2> QED
    BY <2>3, <2>4 DEF Xlens
<1>6. CASE f = 4
  BY <1>6 DEF a, D!Quadrant0, Expanded, D!Unknown, D!Op
<1>7. CASE f = 5
  <2>1. a = D!Op("C", "c_fsd", D!OperandCS(w, 8))
    BY <1>7 DEF a, D!Quadrant0
  <2>2. a.name = "c_fsd"
    BY <2>1 DEF D!Op
  <2> QED
    BY <2>2 DEF Expanded, Swaps, Swapped, WrongFile
<1>8. ASSUME NEW name, NEW size, NEW short
      PROVE  LET o == D!OperandCS(w, size) IN O!ShortStore(w, name, size) = O!Make(name, <<o.rs2, o.rs1, o.imm>>)
  BY SameShortFields DEF O!ShortStore, D!OperandCS
<1>9. CASE f = 6
  <2> DEFINE o == D!OperandCS(w, 4)
  <2>1. a = D!Op("C", "c_sw", o)
    BY <1>9 DEF a, D!Quadrant0
  <2>2. b = O!Make("sw", <<o.rs2, o.rs1, o.imm>>)
    BY <1>0, <1>8, <1>9 DEF O!Quadrant0
  <2> HIDE DEF o
  <2>3. a.name = "c_sw"
    BY <2>1 DEF D!Op
  <2> QED
    BY <2>1, <2>2, <2>3 DEF Expanded, Swaps, Swapped
<1>10. CASE f = 7 /\ x = 32
  <2>1. a = D!Op("C", "c_fsw", D!OperandCS(w, 4))
    BY <1>10 DEF a, D!Quadrant0
  <2>2. a.name = "c_fsw"
    BY <2>1 DEF D!Op
  <2> QED
    BY <2>2 DEF Expanded, Swaps, Swapped, WrongFile
<1>11. CASE f = 7 /\ x = 64
  <2> DEFINE o == D!OperandCS(w, 8)
  <2>1. a = D!Op("C", "c_sd", o)
    BY <1>11 DEF a, D!Quadrant0
  <2>2. b = seventh
    BY <1>0, <1>11 DEF O!Quadrant0
  <2>3. b = O!Make("sd", <<o.rs2, o.rs1, o.imm>>)
    BY <1>8, <1>11, <2>2 DEF seventh
  <2> HIDE DEF o
  <2>4. a.name = "c_sd"
    BY <2>1 DEF D!Op
  <2> QED
    BY <1>11, <2>1, <2>3, <2>4 DEF Expanded, Swaps, Swapped
<1>12. x \in {32, 64}
  BY DEF Xlens
<1> QED
  BY <1>0, <1>2, <1>3, <1>4, <1>5, <1>6, <1>7, <1>9, <1>10, <1>11, <1>12

\* A shift by nothing is `zero' in the printers; by 1 to 31 it is the same shift.
LEMMA ExpandedAlu ==
  ASSUME NEW x \in Xlens, NEW w \in Compresseds, NEW zero,
         NEW names, names = IF x = 32 THEN <<"sub", "xor", "or", "and">> ELSE <<"sub", "xor", "or", "and", "subw", "addw">>
  PROVE  Expanded(x, D!AluC(w), O!CompressedAlu(w, zero, names))
<1> DEFINE a == D!AluC(w)
           b == O!CompressedAlu(w, zero, names)
           kind == D!Pick(w, 10, 2)
           which == D!Bit(w, 12) * 4 + D!Pick(w, 5, 2)
           imm == D!SignExtend(6, D!BitsCI(w))
           o == D!OperandCI_AluImm(w, kind = 2)
           r == D!OperandCR_Alu(w)
           rd == O!Short(w, 7)
<1> SUFFICES Expanded(x, a, b)
  OBVIOUS
<1>0. kind \in 0 .. 3 /\ which \in 0 .. 7
  BY FieldWidths
<1>1. kind < 3 => a = D!Op("C", D!Nth(<<"c_srli", "c_srai", "c_andi">>, kind), o)
  BY DEF D!AluC
<1>2. kind = 3 => a = D!Named("C", D!Nth(<<"c_sub", "c_xor", "c_or", "c_and", "c_subw", "c_addw">>, which), r)
  BY DEF D!AluC
<1>3. /\ O!Pick(w, 10, 2) = kind /\ O!Bit(w, 12) * 4 + O!Pick(w, 5, 2) = which
      /\ O!SignExtend(6, O!BitsCI(w)) = imm /\ O!Short(w, 2) = D!Short(w, 2) /\ rd = D!Short(w, 7)
  BY SameShortFields, SameFields
<1>4. /\ kind < 2 => b = IF imm = 0 THEN zero[O!Nth(<<"srli", "srai">>, kind)]
                         ELSE O!Make(O!Nth(<<"srli", "srai">>, kind), <<rd, rd, imm>>)
      /\ kind = 2 => b = O!Make("andi", <<rd, rd, imm>>)
      /\ kind = 3 => b = O!New(O!Nth(names, which), <<rd, rd, O!Short(w, 2)>>)
  BY <1>0, <1>3 DEF O!CompressedAlu
<1>5. o.rd = rd /\ o.rs1 = rd /\ o.imm = IF kind = 2 THEN imm ELSE D!BitsCI(w)
  BY <1>3 DEF D!OperandCI_AluImm
<1>6. r.rd = rd /\ r.rs1 = rd /\ r.rs2 = O!Short(w, 2)
  BY <1>3 DEF D!OperandCR_Alu
<1>7. D!BitsCI(w) \in 1 .. 31 => D!BitsCI(w) = imm
  BY SixBits
<1> HIDE DEF a, b, kind, which, imm, o, r, rd
<1>8. ASSUME NEW short \in {"c_srli", "c_srai"}, a = D!Op("C", short, o), kind < 2,
             NEW name, <<short, name>> \in {<<"c_srli", "srli">>, <<"c_srai", "srai">>},
             O!Nth(<<"srli", "srai">>, kind) = name
      PROVE  Expanded(x, a, b)
  <2>1. CASE D!BitsCI(w) \in 1 .. 31
    <3>1. imm # 0 /\ o.imm = imm
      BY <1>5, <1>7, <1>8, <2>1
    <3>2. b = O!Make(name, <<o.rd, o.rs1, o.imm>>)
      BY <1>4, <1>5, <1>8, <3>1
    <3> QED
      BY <1>8, <3>2, ExpandsImmediate DEF Expanded
  <2>2. CASE D!BitsCI(w) \notin 1 .. 31
    <3>1. a.name = short /\ a.operand.imm = D!BitsCI(w)
      BY <1>5, <1>8 DEF D!Op
    <3> QED
      BY <1>8, <2>2, <3>1 DEF Expanded, ShiftsByFar
  <2> QED
    BY <2>1, <2>2
<1>9. CASE kind = 0
  <2>1. D!Nth(<<"c_srli", "c_srai", "c_andi">>, kind) = "c_srli" /\ O!Nth(<<"srli", "srai">>, kind) = "srli"
    BY <1>9 DEF D!Nth, O!Nth
  <2> QED
    BY <1>1, <1>8, <1>9, <2>1
<1>10. CASE kind = 1
  <2>1. D!Nth(<<"c_srli", "c_srai", "c_andi">>, kind) = "c_srai" /\ O!Nth(<<"srli", "srai">>, kind) = "srai"
    BY <1>10 DEF D!Nth, O!Nth
  <2> QED
    BY <1>1, <1>8, <1>10, <2>1
<1>11. CASE kind = 2
  <2>1. D!Nth(<<"c_srli", "c_srai", "c_andi">>, kind) = "c_andi"
    BY <1>11 DEF D!Nth
  <2>2. a = D!Op("C", "c_andi", o) /\ b = O!Make("andi", <<o.rd, o.rs1, o.imm>>)
    BY <1>1, <1>4, <1>5, <1>11, <2>1
  <2> QED
    BY <2>2, ExpandsImmediate DEF Expanded
<1>12. CASE kind = 3
  <2> DEFINE short == D!Nth(<<"c_sub", "c_xor", "c_or", "c_and", "c_subw", "c_addw">>, which)
             name == O!Nth(names, which)
  <2>1. \/ which = 0 /\ short = "c_sub" /\ name = "sub"
        \/ which = 1 /\ short = "c_xor" /\ name = "xor"
        \/ which = 2 /\ short = "c_or" /\ name = "or"
        \/ which = 3 /\ short = "c_and" /\ name = "and"
        \/ which > 3 /\ x = 32 /\ short \in {"c_subw", "c_addw", "unknown"}
        \/ which = 4 /\ x = 64 /\ short = "c_subw" /\ name = "subw"
        \/ which = 5 /\ x = 64 /\ short = "c_addw" /\ name = "addw"
        \/ which > 5 /\ short = "unknown"
    BY <1>0 DEF D!Nth, O!Nth, Xlens
  <2>2. a = D!Named("C", short, r) /\ b = O!New(name, <<r.rd, r.rs1, r.rs2>>)
    BY <1>2, <1>4, <1>6, <1>12
  <2> HIDE DEF short, name
  <2>3. /\ short = "unknown" => a.name = "unknown"
        /\ short # "unknown" => a = D!Op("C", short, r) /\ a.name = short
        /\ name # "unknown" => b = O!Make(name, <<r.rd, r.rs1, r.rs2>>)
    BY <2>2 DEF D!Named, D!Unknown, D!Op, O!New
  <2>4. CASE short = "unknown" \/ (x = 32 /\ short \in {"c_subw", "c_addw"})
    BY <2>3, <2>4 DEF Expanded, Unhandled
  <2>5. CASE \/ <<short, name>> \in {<<"c_sub", "sub">>, <<"c_xor", "xor">>, <<"c_or", "or">>, <<"c_and", "and">>}
             \/ x = 64 /\ <<short, name>> \in {<<"c_subw", "subw">>, <<"c_addw", "addw">>}
    <3>1. a = D!Op("C", short, r) /\ b = O!Make(name, <<r.rd, r.rs1, r.rs2>>)
      BY <2>3, <2>5
    <3> QED
      BY <2>5, <3>1, ExpandsRegisters DEF Expanded
  <2> QED
    BY <2>1, <2>4, <2>5
<1> QED
  BY <1>0, <1>9, <1>10, <1>11, <1>12

LEMMA ExpandedQuadrant1 ==
  ASSUME NEW x \in Xlens, NEW w \in Compresseds
  PROVE  Expanded(x, D!Quadrant1(x, w), IF x = 32 THEN O!DecodeRV32C_Quadrant1(w) ELSE O!DecodeRV64C_Quadrant1(w))
<1> DEFINE f == D!Pick(w, 13, 3)
           rd == D!Pick(w, 7, 5)
           imm == D!SignExtend(6, D!BitsCI(w))
           a == D!Quadrant1(x, w)
           b == IF x = 32 THEN O!DecodeRV32C_Quadrant1(w) ELSE O!DecodeRV64C_Quadrant1(w)
           first == IF x = 32 THEN O!Make("jal", <<1, O!SignExtend(12, O!BitsCJ(w))>>)
                    ELSE O!Make("addiw", <<O!Rd(w), O!Rd(w), O!SignExtend(6, O!BitsCI(w))>>)
           zero == IF x = 32 THEN [s \in {"srli", "srai"} |-> O!Make("nop", <<>>)]
                   ELSE [s \in {"srli", "srai"} |-> O!Make(s, <<O!Short(w, 7), O!Short(w, 7), 64>>)]
           names == IF x = 32 THEN <<"sub", "xor", "or", "and">> ELSE <<"sub", "xor", "or", "and", "subw", "addw">>
           alu == O!CompressedAlu(w, zero, names)
<1> SUFFICES Expanded(x, a, b)
  OBVIOUS
<1>0. f \in 0 .. 7 /\ O!Funct3(w) = f /\ O!Rd(w) = rd /\ O!SignExtend(6, O!BitsCI(w)) = imm
  BY FieldWidths, SameShortFields, SameFields DEF O!Funct3, O!Rd
<1>1. b = O!Quadrant1(w, first, alu)
  BY DEF O!DecodeRV32C_Quadrant1, O!DecodeRV64C_Quadrant1, Xlens
<1>2. Expanded(x, D!AluC(w), alu)
  BY ExpandedAlu
<1>3. LET o == D!OperandCI(w) IN o.rd = rd /\ o.rs1 = rd /\ o.imm = imm
  BY DEF D!OperandCI, D!WithImm
<1>4. LET o == D!OperandCJ(w) IN o.imm = O!SignExtend(12, O!BitsCJ(w))
  BY SameShortFields, SameFields DEF D!OperandCJ
<1> HIDE DEF a, b, alu, zero, names, imm, f, rd
<1>5. CASE f = 0
  <2> DEFINE o == D!OperandCI(w)
  <2>1. a = IF rd = 0 /\ D!BitsCI(w) = 0 THEN D!Op("C", "c_nop", D!NoOperand) ELSE D!Op("C", "c_addi", o)
    BY <1>5 DEF a, f, rd, D!Quadrant1
  <2>2. b = IF rd = 0 THEN O!Make("nop", <<>>) ELSE O!Make("addi", <<o.rd, o.rs1, o.imm>>)
    BY <1>0, <1>1, <1>3, <1>5 DEF O!Quadrant1
  <2>3. o.rd = rd /\ o.rs1 = rd
    BY <1>3
  <2> HIDE DEF o
  <2> QED
    BY <2>1, <2>2, <2>3, ExpandsImmediate DEF Expanded
<1>6. CASE f = 1
  <2>1. b = first
    BY <1>0, <1>1, <1>6 DEF O!Quadrant1
  <2>2. CASE x = 32
    <3>1. a = D!Op("C", "c_jal", D!OperandCJ(w))
      BY <1>6, <2>2 DEF a, f, D!Quadrant1
    <3> QED
      BY <1>4, <2>1, <2>2, <3>1, ExpandsJumps DEF Expanded
  <2>3. CASE x = 64 /\ rd # 0
    <3>1. a = D!Op("C", "c_addiw", D!OperandCI(w))
      BY <1>6, <2>3 DEF a, f, rd, D!Quadrant1
    <3> DEFINE o == D!OperandCI(w)
    <3>2. b = O!Make("addiw", <<o.rd, o.rs1, o.imm>>)
      BY <1>0, <1>3, <2>1, <2>3
    <3> HIDE DEF o
    <3>3. a = D!Op("C", "c_addiw", o)
      BY <3>1 DEF o
    <3> QED
      BY <2>3, <3>2, <3>3, ExpandsImmediate DEF Expanded
  <2>4. CASE x = 64 /\ rd = 0
    <3>1. a = D!Unknown("C")
      BY <1>6, <2>4 DEF a, f, rd, D!Quadrant1
    <3> QED
      BY <3>1 DEF Expanded, D!Unknown, D!Op
  <2> QED
    BY <2>2, <2>3, <2>4 DEF Xlens
<1>7. CASE f = 2
  <2> DEFINE o == D!OperandCI(w)
  <2>1. CASE rd = 0
    <3>1. a = D!Unknown("C")
      BY <1>7, <2>1 DEF a, f, rd, D!Quadrant1
    <3> QED
      BY <3>1 DEF Expanded, D!Unknown, D!Op
  <2>2. CASE rd # 0
    <3>1. a = D!Op("C", "c_li", o)
      BY <1>7, <2>2 DEF a, f, rd, D!Quadrant1
    <3>2. b = O!Make("addi", <<o.rd, 0, o.imm>>)
      BY <1>0, <1>1, <1>3, <1>7, <2>2 DEF O!Quadrant1
    <3> HIDE DEF o
    <3> QED
      BY <3>1, <3>2, ExpandsImmediate DEF Expanded
  <2> QED
    BY <2>1, <2>2
<1>8. CASE f = 3
  <2>1. CASE rd = 0
    <3>1. a = D!Unknown("C")
      BY <1>8, <2>1 DEF a, f, rd, D!Quadrant1
    <3> QED
      BY <3>1 DEF Expanded, D!Unknown, D!Op
  <2>2. CASE rd = 2
    <3> DEFINE o == D!OperandCI_ADDI16SP(w)
    <3>1. a = D!Op("C", "c_addi16sp", o)
      BY <1>8, <2>2 DEF a, f, rd, D!Quadrant1
    <3>2. o.rd = 2 /\ o.imm = O!SignExtend(10, O!BitsAddi16sp(w))
      BY <2>2, SameShortFields, SameFields DEF D!OperandCI_ADDI16SP, D!WithImm, rd
    <3>3. b = O!Make("addi", <<o.rd, 2, o.imm>>)
      BY <1>0, <1>1, <1>8, <2>2, <3>2 DEF O!Quadrant1
    <3> HIDE DEF o
    <3> QED
      BY <3>1, <3>3, ExpandsImmediate DEF Expanded
  <2>3. CASE rd \notin {0, 2}
    <3> DEFINE o == D!OperandCI_LUI(w)
    <3>1. a = D!Op("C", "c_lui", o)
      BY <1>8, <2>3 DEF a, f, rd, D!Quadrant1
    <3>2. o.rd = rd /\ o.imm = O!SignExtend(18, O!BitsCI(w) * 4096)
      BY SixBits, SameShortFields DEF D!OperandCI_LUI, D!WithImm, rd
    <3>3. b = O!Make("lui", <<o.rd, o.imm>>)
      BY <1>0, <1>1, <1>8, <2>3, <3>2 DEF O!Quadrant1
    <3> HIDE DEF o
    <3> QED
      BY <3>1, <3>3, ExpandsImmediate DEF Expanded
  <2> QED
    BY <2>1, <2>2, <2>3
<1>9. CASE f = 4
  <2>1. a = D!AluC(w)
    BY <1>9 DEF a, f, D!Quadrant1
  <2>2. b = alu
    BY <1>0, <1>1, <1>9 DEF O!Quadrant1
  <2> QED
    BY <1>2, <2>1, <2>2
<1>10. CASE f = 5
  <2> DEFINE o == D!OperandCJ(w)
  <2>1. a = D!Op("C", "c_j", o)
    BY <1>10 DEF a, f, D!Quadrant1
  <2>2. b = O!Make("jal", <<0, o.imm>>)
    BY <1>0, <1>1, <1>4, <1>10 DEF O!Quadrant1
  <2> HIDE DEF o
  <2> QED
    BY <2>1, <2>2, ExpandsJumps DEF Expanded
<1>11. CASE f \in {6, 7}
  <2> DEFINE o == D!OperandCB(w)
  <2>1. a = D!Op("C", IF f = 6 THEN "c_beqz" ELSE "c_bnez", o)
    BY <1>11 DEF a, f, D!Quadrant1
  <2>2. o.rs1 = O!Short(w, 7) /\ o.imm = O!SignExtend(9, O!BitsCB(w))
    BY SameShortFields, SameFields DEF D!OperandCB
  <2>3. b = O!Make(IF f = 6 THEN "beq" ELSE "bne", <<o.rs1, 0, o.imm>>)
    BY <1>0, <1>1, <1>11, <2>2 DEF O!Quadrant1
  <2> HIDE DEF o
  <2> QED
    BY <1>11, <2>1, <2>3, ExpandsJumps DEF Expanded
<1> QED
  BY <1>0, <1>5, <1>6, <1>7, <1>8, <1>9, <1>10, <1>11

LEMMA ExpandedRegisters ==
  ASSUME NEW x \in Xlens, NEW w \in Compresseds
  PROVE  Expanded(x, D!RegistersC(w), O!CompressedRegisters(w))
<1> DEFINE rd == D!Pick(w, 7, 5)
           rs2 == D!Pick(w, 2, 5)
           bit == D!Bit(w, 12)
           o == D!OperandCR(w)
           a == D!RegistersC(w)
           b == O!CompressedRegisters(w)
<1> SUFFICES Expanded(x, a, b)
  OBVIOUS
<1>1. O!Rd(w) = rd /\ O!Rs2(w) = rs2 /\ O!Bit(w, 12) = bit /\ bit \in {0, 1} /\ rd \in Nat /\ rs2 \in Nat
  BY FieldWidths, SameShortFields DEF O!Rd, O!Rs2
<1>2. o.rd = rd /\ o.rs1 = rd /\ o.rs2 = rs2
  BY DEF D!OperandCR
<1>3. \A short : short # "unknown" => D!Named("C", short, o) = D!Op("C", short, o)
  BY DEF D!Named
<1> HIDE DEF rd, rs2, bit, o, a, b
<1>4. CASE bit = 0 /\ rd # 0 /\ rs2 = 0
  <2>1. a = D!Op("C", "c_jr", o)
    BY <1>3, <1>4 DEF a, rd, rs2, bit, o, D!RegistersC
  <2>2. b = O!Make("jalr", <<0, o.rs1, 0>>)
    BY <1>1, <1>2, <1>4 DEF b, O!CompressedRegisters
  <2> QED
    BY <2>1, <2>2, ExpandsJumps DEF Expanded
<1>5. CASE bit = 0 /\ rd # 0 /\ rs2 # 0
  <2>1. a = D!Op("C", "c_mv", o)
    BY <1>3, <1>5 DEF a, rd, rs2, bit, o, D!RegistersC
  <2>2. b = O!Make("add", <<o.rd, 0, o.rs2>>)
    BY <1>1, <1>2, <1>5 DEF b, O!CompressedRegisters
  <2> QED
    BY <2>1, <2>2, ExpandsRegisters DEF Expanded
<1>6. CASE bit = 1 /\ rd = 0 /\ rs2 = 0
  <2>1. a = D!Op("C", "c_ebreak", o)
    BY <1>3, <1>6 DEF a, rd, rs2, bit, o, D!RegistersC
  <2> QED
    BY <2>1 DEF Expanded, Unhandled, D!Op
<1>7. CASE bit = 1 /\ rd # 0 /\ rs2 = 0
  <2>1. a = D!Op("C", "c_jalr", o)
    BY <1>3, <1>7 DEF a, rd, rs2, bit, o, D!RegistersC
  <2>2. b = O!Make("jalr", <<1, o.rs1, 0>>)
    BY <1>1, <1>2, <1>7 DEF b, O!CompressedRegisters
  <2> QED
    BY <2>1, <2>2, ExpandsJumps DEF Expanded
<1>8. CASE bit = 1 /\ rd # 0 /\ rs2 # 0
  <2>1. a = D!Op("C", "c_add", o)
    BY <1>3, <1>8 DEF a, rd, rs2, bit, o, D!RegistersC
  <2>2. b = O!Make("add", <<o.rd, o.rs1, o.rs2>>)
    BY <1>1, <1>2, <1>8 DEF b, O!CompressedRegisters
  <2> QED
    BY <2>1, <2>2, ExpandsRegisters DEF Expanded
<1>9. CASE rd = 0 /\ (bit = 0 \/ rs2 # 0)
  <2>1. a = D!Named("C", "unknown", o)
    BY <1>9 DEF a, rd, rs2, bit, o, D!RegistersC
  <2> QED
    BY <2>1 DEF Expanded, D!Named, D!Unknown, D!Op
<1> QED
  BY <1>1, <1>4, <1>5, <1>6, <1>7, <1>8, <1>9

LEMMA ExpandedQuadrant2 ==
  ASSUME NEW x \in Xlens, NEW w \in Compresseds
  PROVE  Expanded(x, D!Quadrant2(x, w), IF x = 32 THEN O!DecodeRV32C_Quadrant2(w) ELSE O!DecodeRV64C_Quadrant2(w))
<1> DEFINE f == D!Pick(w, 13, 3)
           rd == D!Pick(w, 7, 5)
           imm == D!SignExtend(6, D!BitsCI(w))
           bits == D!BitsCI(w)
           a == D!Quadrant2(x, w)
           b == IF x = 32 THEN O!DecodeRV32C_Quadrant2(w) ELSE O!DecodeRV64C_Quadrant2(w)
           noShift == IF x = 32 THEN O!Make("nop", <<>>) ELSE O!Make("slli", <<O!Rd(w), O!Rd(w), 64>>)
           third == IF x = 32 THEN O!SpLoad(w, "flw", 4) ELSE O!SpLoad(w, "ld", 8)
           seventh == IF x = 32 THEN O!SpStore(w, "fsw", 4) ELSE O!SpStore(w, "sd", 8)
<1> SUFFICES Expanded(x, a, b)
  OBVIOUS
<1>0. f \in 0 .. 7 /\ O!Funct3(w) = f /\ O!Rd(w) = rd /\ O!BitsCI(w) = bits
  BY FieldWidths, SameShortFields DEF O!Funct3, O!Rd
<1>1. b = O!Quadrant2(w, noShift, third, seventh)
  BY DEF O!DecodeRV32C_Quadrant2, O!DecodeRV64C_Quadrant2, Xlens
<1>2. ASSUME NEW name, NEW size
      PROVE  LET o == D!OperandCI_LoadSP(w, size) IN O!SpLoad(w, name, size) = O!Make(name, <<o.rd, 2, o.imm>>)
  BY <1>0, SameShortFields DEF O!SpLoad, D!OperandCI_LoadSP, D!WithImm
<1>3. ASSUME NEW name, NEW size
      PROVE  LET o == D!OperandCSS(w, size) IN O!SpStore(w, name, size) = O!Make(name, <<2, o.rs2, o.imm>>)
  BY SameShortFields DEF O!SpStore, O!Rs2, D!OperandCSS
<1>4. imm \in 1 .. 31 => bits = imm
  BY SixBits
<1>5. LET o == D!OperandCI(w) IN o.rd = rd /\ o.rs1 = rd /\ o.imm = imm
  BY DEF D!OperandCI, D!WithImm
<1> HIDE DEF a, b, noShift, third, seventh, imm, bits, f, rd
<1>6. CASE f = 0
  <2> DEFINE o == D!OperandCI(w)
  <2>1. a = D!Op("C", "c_slli", o)
    BY <1>6 DEF a, f, D!Quadrant2
  <2>2. b = IF bits = 0 THEN noShift ELSE O!Make("slli", <<rd, rd, bits>>)
    BY <1>0, <1>1, <1>6 DEF O!Quadrant2
  <2>3. o.rd = rd /\ o.rs1 = rd /\ o.imm = imm
    BY <1>5
  <2> HIDE DEF o
  <2>4. CASE imm \in 1 .. 31
    <3>1. b = O!Make("slli", <<o.rd, o.rs1, o.imm>>)
      BY <1>4, <2>2, <2>3, <2>4
    <3> QED
      BY <2>1, <3>1, ExpandsImmediate DEF Expanded
  <2>5. CASE imm \notin 1 .. 31
    <3>1. a.name = "c_slli" /\ a.operand.imm = imm
      BY <2>1, <2>3 DEF D!Op
    <3> QED
      BY <2>5, <3>1 DEF Expanded, ShiftsByFar
  <2> QED
    BY <2>4, <2>5
<1>7. CASE f = 1
  <2>1. a = D!Op("C", "c_fldsp", D!OperandCI_LoadSP(w, 8))
    BY <1>7 DEF a, f, D!Quadrant2
  <2>2. b = O!SpLoad(w, "fld", 8)
    BY <1>0, <1>1, <1>7 DEF O!Quadrant2
  <2> QED
    BY <1>2, <2>1, <2>2, ExpandsFloats DEF Expanded
<1>8. CASE (f = 2 \/ (f = 3 /\ x = 64)) /\ rd = 0
  <2>1. a = D!Unknown("C")
    BY <1>8 DEF a, f, rd, D!Quadrant2
  <2> QED
    BY <2>1 DEF Expanded, D!Unknown, D!Op
<1>9. CASE f = 2 /\ rd # 0
  <2>1. a = D!Op("C", "c_lwsp", D!OperandCI_LoadSP(w, 4))
    BY <1>9 DEF a, f, rd, D!Quadrant2
  <2>2. b = O!SpLoad(w, "lw", 4)
    BY <1>0, <1>1, <1>9 DEF O!Quadrant2
  <2> QED
    BY <1>2, <2>1, <2>2, ExpandsMemory DEF Expanded
<1>10. CASE f = 3 /\ x = 32
  <2>1. a = D!Op("C", "c_flwsp", D!OperandCI_LoadSP(w, 4))
    BY <1>10 DEF a, f, D!Quadrant2
  <2>2. b = O!SpLoad(w, "flw", 4)
    BY <1>0, <1>1, <1>10 DEF O!Quadrant2, third
  <2> QED
    BY <1>2, <1>10, <2>1, <2>2, ExpandsFloats DEF Expanded
<1>11. CASE f = 3 /\ x = 64 /\ rd # 0
  <2>1. a = D!Op("C", "c_ldsp", D!OperandCI_LoadSP(w, 8))
    BY <1>11 DEF a, f, rd, D!Quadrant2
  <2>2. b = O!SpLoad(w, "ld", 8)
    BY <1>0, <1>1, <1>11 DEF O!Quadrant2, third
  <2> QED
    BY <1>2, <1>11, <2>1, <2>2, ExpandsMemory DEF Expanded
<1>12. CASE f = 4
  <2>1. a = D!RegistersC(w)
    BY <1>12 DEF a, f, D!Quadrant2
  <2>2. b = O!CompressedRegisters(w)
    BY <1>0, <1>1, <1>12 DEF O!Quadrant2
  <2> QED
    BY <2>1, <2>2, ExpandedRegisters
<1>13. CASE f = 5
  <2>1. a = D!Op("C", "c_fsdsp", D!OperandCSS(w, 8))
    BY <1>13 DEF a, f, D!Quadrant2
  <2>2. b = O!SpStore(w, "fsd", 8)
    BY <1>0, <1>1, <1>13 DEF O!Quadrant2
  <2> QED
    BY <1>3, <2>1, <2>2, ExpandsFloats DEF Expanded
<1>14. CASE f = 6
  <2>1. a = D!Op("C", "c_swsp", D!OperandCSS(w, 4))
    BY <1>14 DEF a, f, D!Quadrant2
  <2>2. b = O!SpStore(w, "sw", 4)
    BY <1>0, <1>1, <1>14 DEF O!Quadrant2
  <2> QED
    BY <1>3, <2>1, <2>2, ExpandsMemory DEF Expanded
<1>15. CASE f = 7 /\ x = 32
  <2>1. a = D!Op("C", "c_fswsp", D!OperandCSS(w, 4))
    BY <1>15 DEF a, f, D!Quadrant2
  <2>2. b = O!SpStore(w, "fsw", 4)
    BY <1>0, <1>1, <1>15 DEF O!Quadrant2, seventh
  <2> QED
    BY <1>3, <1>15, <2>1, <2>2, ExpandsFloats DEF Expanded
<1>16. CASE f = 7 /\ x = 64
  <2>1. a = D!Op("C", "c_sdsp", D!OperandCSS(w, 8))
    BY <1>16 DEF a, f, D!Quadrant2
  <2>2. b = O!SpStore(w, "sd", 8)
    BY <1>0, <1>1, <1>16 DEF O!Quadrant2, seventh
  <2> QED
    BY <1>3, <1>16, <2>1, <2>2, ExpandsMemory DEF Expanded
<1>17. x \in {32, 64}
  BY DEF Xlens
<1> QED
  BY <1>0, <1>6, <1>7, <1>8, <1>9, <1>10, <1>11, <1>12, <1>13, <1>14, <1>15, <1>16, <1>17

LEMMA ExpandedWord ==
  ASSUME NEW x \in Xlens, NEW w \in Compresseds
  PROVE  Expanded(x, D!DecodeC(x, w), O!DecodeC(x, w))
<1>1. CASE w % 4 = 0
  <2>1. D!DecodeC(x, w) = D!Quadrant0(x, w)
    BY <1>1 DEF D!DecodeC
  <2>2. O!DecodeC(x, w) = IF x = 32 THEN O!DecodeRV32C_Quadrant0(w) ELSE O!DecodeRV64C_Quadrant0(w)
    BY <1>1 DEF O!DecodeC, O!DecodeRV32C, O!DecodeRV64C
  <2> QED
    BY <2>1, <2>2, ExpandedQuadrant0
<1>2. CASE w % 4 = 1
  <2>1. D!DecodeC(x, w) = D!Quadrant1(x, w)
    BY <1>2 DEF D!DecodeC
  <2>2. O!DecodeC(x, w) = IF x = 32 THEN O!DecodeRV32C_Quadrant1(w) ELSE O!DecodeRV64C_Quadrant1(w)
    BY <1>2 DEF O!DecodeC, O!DecodeRV32C, O!DecodeRV64C
  <2> QED
    BY <2>1, <2>2, ExpandedQuadrant1
<1>3. CASE w % 4 = 2
  <2>1. D!DecodeC(x, w) = D!Quadrant2(x, w)
    BY <1>3 DEF D!DecodeC
  <2>2. O!DecodeC(x, w) = IF x = 32 THEN O!DecodeRV32C_Quadrant2(w) ELSE O!DecodeRV64C_Quadrant2(w)
    BY <1>3 DEF O!DecodeC, O!DecodeRV32C, O!DecodeRV64C
  <2> QED
    BY <2>1, <2>2, ExpandedQuadrant2
<1> QED
  BY <1>1, <1>2, <1>3 DEF Compresseds

LEMMA UnhandledStop ==
  ASSUME NEW x \in Xlens, NEW a, a.class = "C", a.name \in Unhandled(x)
  PROVE  ~E!ProcessOp(x, a).handled
<1>1. CASE x = 32
  <2>1. a.name \in {"c_ebreak", "c_subw", "c_addw"}
    BY <1>1 DEF Unhandled
  <2>2. E!ProcessRV32C(a.name, a.operand) = E!Cancelled(E!Error)
    BY <2>1 DEF E!ProcessRV32C
  <2>3. E!ProcessOp(x, a) = E!Cancelled(E!Error)
    BY <1>1, <2>2 DEF E!ProcessOp
  <2> QED
    BY <2>3 DEF E!Cancelled, E!Error, E!Idle
<1>2. CASE x = 64
  <2>1. a.name = "c_ebreak"
    BY <1>2 DEF Unhandled
  <2>2. E!ProcessRV64C(a.name, a.operand) = E!Error
    BY <2>1 DEF E!ProcessRV64C
  <2>3. E!ProcessOp(x, a) = E!Error
    BY <1>2, <2>2 DEF E!ProcessOp
  <2> QED
    BY <2>3 DEF E!Error, E!Idle
<1> QED
  BY <1>1, <1>2 DEF Xlens

\* Whatever compressed words are fetched, the instruction has the access, the
\* target and the register writes of the instruction the printers expand it
\* to, but for the differences Swapped, DestinationLost and ShiftsFar name
\* (CompressedIsExpanded): the ProcessRV32C and ProcessRV64C of Executor.cpp
\* against OpDecoder.cpp and the handlers of the base instructions.
THEOREM CompressedMatchesBase == IsaSpec => []CompressedIsExpanded
<1>1. IsaInv => CompressedIsExpanded
  <2> SUFFICES ASSUME IsaInv, Executed, insn.length = 2, effect.handled
               PROVE  \/ /\ SecondKnown
                         /\ Visible(effect) = Visible(IF Second.name = "nop" THEN E!Idle ELSE E!ProcessOp(xlen, BaseOp))
                      \/ op.name \in Swapped \/ DestinationLost \/ ShiftsFar
    BY DEF CompressedIsExpanded
  <2>1. xlen \in Xlens /\ insn \in Fetched /\ op = Decode(insn) /\ op.name # "unknown" /\ effect = E!ProcessOp(xlen, op)
    BY DEF IsaInv
  <2>2. insn.short \in Compresseds /\ op = D!DecodeC(xlen, insn.short) /\ Second = O!DecodeC(xlen, insn.short)
    BY <2>1, FetchedWords DEF Decode, DecodeOp, Second
  <2>3. op.class = "C"
    BY IsaInvKnown
  <2>4. op.name \notin Unhandled(xlen)
    BY <2>1, <2>3, UnhandledStop
  <2>5. Expanded(xlen, op, Second)
    BY <2>1, <2>2, ExpandedWord
  <2>6. CASE Expands(xlen, op, Second)
    <3>1. /\ Second.name \in Bases(xlen)
          /\ Seen(E!ProcessOp(xlen, op))
               = Seen(BaseEffect(xlen, Second.name, T!Members(T!Parameters(xlen)[Second.name], Second.args)))
      BY <2>6 DEF Expands
    <3>2. BaseEffect(xlen, Second.name, T!Members(T!Parameters(xlen)[Second.name], Second.args))
            = IF Second.name = "nop" THEN E!Idle ELSE E!ProcessOp(xlen, BaseOp)
      BY Zenon DEF BaseEffect, BaseClass, BaseOp
    <3>3. Second.name \in DOMAIN T!Parameters(xlen)
      BY <2>1, <3>1, ExpansionClasses
    <3> QED
      BY <2>1, <3>1, <3>2, <3>3 DEF SecondKnown, Seen
  <2> QED
    BY <2>1, <2>4, <2>5, <2>6 DEF Expanded, Swaps, DestinationLost, ShiftsFar, ShiftsByFar
<1> QED
  BY <1>1, IsaInvariance, PTL

\* What one item of a line shows.
One(q) == {r \in {q} : r.kind \in {"x", "f"} /\ r # [kind |-> "x", n |-> 0]}

LEMMA OneOf ==
  /\ \A n : One(T!X(n)) = XReg(n) /\ One(T!F(n)) = FReg(n)
  /\ \A n : One(T!Imm(n)) = {} /\ One(T!CsrAt(n)) = {} /\ One([kind |-> "rm", n |-> n]) = {}
BY DEF One, XReg, FReg, T!X, T!F, T!Imm, T!CsrAt

LEMMA ShownItems ==
  ASSUME NEW mnemonic, NEW s
  PROVE  ShownRegisters(T!Line(mnemonic, s)) = UNION {One(s[n]) : n \in DOMAIN s}
<1> DEFINE line == T!Line(mnemonic, s)
           Is(r) == r.kind \in {"x", "f"} /\ r # [kind |-> "x", n |-> 0]
<1>1. line.shown = s
  BY DEF T!Line
<1> HIDE DEF line
<1>2. ShownRegisters(line) = {s[n] : n \in {m \in DOMAIN s : Is(s[m])}}
  BY <1>1 DEF ShownRegisters
<1>3. \A q, r : q \in One(r) <=> q = r /\ Is(r)
  BY Zenon DEF One
<1> HIDE DEF Is
<1>4. \A q : q \in ShownRegisters(line) <=> \E n \in DOMAIN s : q = s[n] /\ Is(s[n])
  BY <1>2
<1> DEFINE all == UNION {One(s[n]) : n \in DOMAIN s}
<1>5. \A q : q \in all <=> \E n \in DOMAIN s : q \in One(s[n])
  OBVIOUS
<1>6. \A q : q \in ShownRegisters(line) <=> q \in all
  BY <1>3, <1>4, <1>5
<1> HIDE DEF all
<1>7. ShownRegisters(line) = all
  BY Zenon, <1>6
<1> QED
  BY <1>7 DEF line, all

\* A line of one, two or three items.
LEMMA ShownBy ==
  ASSUME NEW mnemonic
  PROVE  /\ ShownRegisters(T!Line(mnemonic, <<>>)) = {}
         /\ \A a : ShownRegisters(T!Line(mnemonic, <<a>>)) = One(a)
         /\ \A a, b : ShownRegisters(T!Line(mnemonic, <<a, b>>)) = One(a) \cup One(b)
         /\ \A a, b, c : ShownRegisters(T!Line(mnemonic, <<a, b, c>>)) = One(a) \cup One(b) \cup One(c)
<1> DEFINE Items(s) == UNION {One(s[n]) : n \in DOMAIN s}
<1>1. Items(<<>>) = {}
  OBVIOUS
<1>2. \A a : Items(<<a>>) = One(a)
  OBVIOUS
<1>3. \A a, b : Items(<<a, b>>) = One(a) \cup One(b)
  OBVIOUS
<1>4. \A a, b, c : Items(<<a, b, c>>) = One(a) \cup One(b) \cup One(c)
  OBVIOUS
<1>5. \A s : ShownRegisters(T!Line(mnemonic, s)) = Items(s)
  BY ShownItems
<1> HIDE DEF Items
<1> QED
  BY <1>1, <1>2, <1>3, <1>4, <1>5

\* One more item at the end of a sequence, or none.
LEMMA OneMore ==
  ASSUME NEW S, NEW s \in Seq(S), NEW r
  PROVE  /\ s \o <<r>> = [i \in 1 .. Len(s) + 1 |-> IF i <= Len(s) THEN s[i] ELSE r]
         /\ s \o <<>> = s
<1> DEFINE R == S \cup {r}
           t == s \o <<r>>
<1>1. s \in Seq(R) /\ <<r>> \in Seq(R)
  OBVIOUS
<1>2. t \in Seq(R) /\ Len(t) = Len(s) + 1 /\ \A i \in 1 .. Len(s) + 1 : t[i] = IF i <= Len(s) THEN s[i] ELSE r
  BY <1>1, ConcatProperties
<1> HIDE DEF t, R
<1>3. t = [i \in 1 .. Len(s) + 1 |-> IF i <= Len(s) THEN s[i] ELSE r]
  BY <1>2
<1> QED
  BY <1>3, ConcatEmptySeq DEF t

\* What is at the end of a line of floating-point registers names none.
LEMMA ShownWithMode ==
  ASSUME NEW mnemonic, NEW rm
  PROVE  /\ \A a, b : ShownRegisters(T!Line(mnemonic, <<a, b>> \o T!RoundingMode(rm))) = One(a) \cup One(b)
         /\ \A a, b, c : ShownRegisters(T!Line(mnemonic, <<a, b, c>> \o T!RoundingMode(rm))) = One(a) \cup One(b) \cup One(c)
         /\ \A a, b, c, d : ShownRegisters(T!Line(mnemonic, <<a, b, c, d>> \o T!RoundingMode(rm)))
                              = One(a) \cup One(b) \cup One(c) \cup One(d)
<1> DEFINE Items(s) == UNION {One(s[n]) : n \in DOMAIN s}
           r == [kind |-> "rm", n |-> rm]
<1>1. T!RoundingMode(rm) = <<>> \/ T!RoundingMode(rm) = <<r>>
  BY DEF T!RoundingMode
<1>2. One(r) = {}
  BY OneOf
<1> HIDE DEF r, Items
<1>3. ASSUME NEW S, NEW s \in Seq(S)
      PROVE  Items(s \o T!RoundingMode(rm)) = Items(s)
  <2> DEFINE t == s \o <<r>>
  <2>1. t = [i \in 1 .. Len(s) + 1 |-> IF i <= Len(s) THEN s[i] ELSE r] /\ s \o <<>> = s
    BY OneMore
  <2> HIDE DEF t
  <2>2. Len(s) \in Nat /\ DOMAIN s = 1 .. Len(s)
    OBVIOUS
  <2>3. \A q : q \in Items(t) <=> q \in Items(s)
    <3>1. \A q : q \in Items(t) <=> \E n \in 1 .. Len(s) + 1 : q \in One(IF n <= Len(s) THEN s[n] ELSE r)
      BY <2>1 DEF Items
    <3>2. \A q : q \in Items(s) <=> \E n \in 1 .. Len(s) : q \in One(s[n])
      BY <2>2 DEF Items
    <3> QED
      BY <1>2, <2>2, <3>1, <3>2
  <2>4. Items(t) = Items(s)
    <3> DEFINE these == Items(t)
               those == Items(s)
    <3>1. \A q : q \in these <=> q \in those
      BY <2>3
    <3> HIDE DEF these, those
    <3>2. these = those
      BY Zenon, <3>1
    <3> QED BY <3>2 DEF these, those
  <2> QED
    BY <1>1, <2>1, <2>4 DEF t
<1>4. \A s : ShownRegisters(T!Line(mnemonic, s)) = Items(s)
  BY ShownItems DEF Items
<1>5. ASSUME NEW S, NEW s \in Seq(S)
      PROVE  ShownRegisters(T!Line(mnemonic, s \o T!RoundingMode(rm))) = Items(s)
  BY <1>3, <1>4
<1>6. ASSUME NEW a, NEW b PROVE ShownRegisters(T!Line(mnemonic, <<a, b>> \o T!RoundingMode(rm))) = One(a) \cup One(b)
  <2>1. <<a, b>> \in Seq({a, b})
    OBVIOUS
  <2>2. Items(<<a, b>>) = One(a) \cup One(b)
    BY DEF Items
  <2> QED BY <1>5, <2>1, <2>2
<1>7. ASSUME NEW a, NEW b, NEW c
      PROVE  ShownRegisters(T!Line(mnemonic, <<a, b, c>> \o T!RoundingMode(rm))) = One(a) \cup One(b) \cup One(c)
  <2>1. <<a, b, c>> \in Seq({a, b, c})
    OBVIOUS
  <2>2. Items(<<a, b, c>>) = One(a) \cup One(b) \cup One(c)
    BY DEF Items
  <2> QED BY <1>5, <2>1, <2>2
<1>8. ASSUME NEW a, NEW b, NEW c, NEW d
      PROVE  ShownRegisters(T!Line(mnemonic, <<a, b, c, d>> \o T!RoundingMode(rm))) = One(a) \cup One(b) \cup One(c) \cup One(d)
  <2>1. <<a, b, c, d>> \in Seq({a, b, c, d})
    OBVIOUS
  <2>2. Items(<<a, b, c, d>>) = One(a) \cup One(b) \cup One(c) \cup One(d)
    BY DEF Items
  <2> QED BY <1>5, <2>1, <2>2
<1> QED
  BY <1>6, <1>7, <1>8

-----------------------------------------------------------------------------
(* The registers of each kind of instruction. *)

NamesD == {"lui", "auipc", "jal", "csrrwi", "csrrsi", "csrrci"}
NamesDS == {"jalr", "lb", "lh", "lw", "ld", "lbu", "lhu", "lwu", "addi", "slti", "sltiu", "xori", "ori", "andi", "addiw",
            "slli", "srli", "srai", "slliw", "srliw", "sraiw", "csrrw", "csrrs", "csrrc", "lr_w", "lr_d"}
NamesST == {"bne", "blt", "bge", "bltu", "bgeu", "sb", "sh", "sw", "sd"}
NamesAlu == {"add", "sub", "sll", "slt", "sltu", "xor", "srl", "sra", "or", "and", "addw", "subw", "sllw", "srlw", "sraw"}
NamesMulDiv == {"mul", "mulh", "mulhsu", "mulhu", "div", "divu", "rem", "remu", "mulw", "divw", "divuw", "remw", "remuw"}
NamesAmo == {"sc_w", "sc_d", "amoswap_w", "amoadd_w", "amoxor_w", "amoand_w", "amoor_w", "amomin_w", "amomax_w", "amominu_w",
             "amomaxu_w", "amoswap_d", "amoadd_d", "amoxor_d", "amoand_d", "amoor_d", "amomin_d", "amomax_d", "amominu_d",
             "amomaxu_d"}
NamesNone == {"fence", "fence_i", "ecall", "ebreak", "uret", "sret", "mret", "wfi", "nop"}
NamesFused == {"fmadd_s", "fmsub_s", "fnmsub_s", "fnmadd_s", "fmadd_d", "fmsub_d", "fnmsub_d", "fnmadd_d"}
NamesFff == {"fadd_s", "fsub_s", "fmul_s", "fdiv_s", "fadd_d", "fsub_d", "fmul_d", "fdiv_d",
             "fsgnj_s", "fsgnjn_s", "fsgnjx_s", "fmin_s", "fmax_s", "fsgnj_d", "fsgnjn_d", "fsgnjx_d", "fmin_d", "fmax_d"}
NamesFf == {"fsqrt_s", "fsqrt_d", "fcvt_s_d", "fcvt_d_s"}
NamesXff == {"feq_s", "flt_s", "fle_s", "feq_d", "flt_d", "fle_d"}
NamesXf == {"fclass_s", "fclass_d", "fmv_x_w", "fmv_x_d", "fcvt_w_s", "fcvt_wu_s", "fcvt_l_s", "fcvt_lu_s",
            "fcvt_w_d", "fcvt_wu_d", "fcvt_l_d", "fcvt_lu_d"}
NamesFx == {"fmv_w_x", "fmv_d_x", "fcvt_s_w", "fcvt_s_wu", "fcvt_s_l", "fcvt_s_lu", "fcvt_d_w", "fcvt_d_wu", "fcvt_d_l", "fcvt_d_lu"}

\* The registers r are those of an instruction of that name with these operands.
NamedBy(name, o, r) ==
  /\ name \in NamesD => r = XReg(o.rd)
  /\ name \in NamesDS => r = XReg(o.rd) \cup XReg(o.rs1)
  /\ name \in NamesST => r = XReg(o.rs1) \cup XReg(o.rs2)
  /\ name \in NamesAlu \cup NamesMulDiv \cup NamesAmo => r = XReg(o.rd) \cup XReg(o.rs1) \cup XReg(o.rs2)
  /\ name \in NamesNone => r = {}
  /\ name \in {"flw", "fld"} => r = FReg(o.rd) \cup XReg(o.rs1)
  /\ name \in {"fsw", "fsd"} => r = FReg(o.rs2) \cup XReg(o.rs1)
  /\ name \in NamesFused => r = FReg(o.rd) \cup FReg(o.rs1) \cup FReg(o.rs2) \cup FReg(o.rs3)
  /\ name \in NamesFff => r = FReg(o.rd) \cup FReg(o.rs1) \cup FReg(o.rs2)
  /\ name \in NamesFf => r = FReg(o.rd) \cup FReg(o.rs1)
  /\ name \in NamesXff => r = XReg(o.rd) \cup FReg(o.rs1) \cup FReg(o.rs2)
  /\ name \in NamesXf => r = XReg(o.rd) \cup FReg(o.rs1)
  /\ name \in NamesFx => r = FReg(o.rd) \cup XReg(o.rs1)

\* The rows of op32 and op64, by the names in them.
LEMMA TextSets ==
  /\ T!RV64I_UpperAndJump = {"lui", "auipc", "jal", "jalr"}
  /\ T!RV64I_Branch = {"beq", "bne", "blt", "bge", "bltu", "bgeu"}
  /\ T!RV64I_Load = {"lb", "lh", "lw", "lbu", "lhu", "ld", "lwu"}
  /\ T!RV64I_Store = {"sb", "sh", "sw", "sd"}
  /\ T!RV64I_AluImm = {"addi", "slti", "sltiu", "xori", "ori", "andi", "addiw"}
  /\ T!RV64I_ShiftImm = {"slli", "srli", "srai", "slliw", "srliw", "sraiw"}
  /\ T!RV64I_Add = {"add", "addw", "sub", "subw", "sll", "sllw", "slt", "sltu"}
  /\ T!RV64I_Logic = {"xor", "srl", "srlw", "sra", "sraw", "or", "and"}
  /\ T!RV64I_Csr = {"csrrw", "csrrs", "csrrc"}
  /\ T!RV64I_CsrImm = {"csrrwi", "csrrsi", "csrrci"}
  /\ T!RV64I_Fence \cup {"nop"} = {"fence", "fence_i", "ecall", "ebreak", "nop"}
  /\ T!RV64I_Privileged = {"uret", "sret", "mret", "wfi", "sfence_vma"}
  /\ T!RV64M_Classes = NamesMulDiv
  /\ T!RV64A_Reservation = {"lr_w", "lr_d", "sc_w", "sc_d"}
  /\ T!RV64A_Amo = NamesAmo \ {"sc_w", "sc_d"}
BY DEF T!RV64I_UpperAndJump, T!RV32I_UpperAndJump, T!RV64I_Branch, T!RV32I_Branch, T!RV64I_Load, T!RV32I_Load,
       T!RV64I_Store, T!RV32I_Store, T!RV64I_AluImm, T!RV32I_AluImm, T!RV64I_ShiftImm, T!RV32I_ShiftImm, T!RV64I_Add,
       T!RV64I_Logic, T!RV64I_Csr, T!RV32I_Csr, T!RV64I_CsrImm, T!RV32I_CsrImm, T!RV64I_Fence, T!RV32I_Fence,
       T!RV64I_Privileged, T!RV32I_Privileged, T!RV64M_Classes, T!RV32M_Classes, T!RV64A_Reservation, T!RV64A_Amo,
       T!RV32A_Amo, NamesMulDiv, NamesAmo

\* The arm of TextOf a name takes.
LEMMA TextArms ==
  ASSUME NEW x, NEW s
  PROVE  LET name == s.name
             m == T!Members(T!Parameters(x)[s.name], s.args)
             text == T!TextOf(x, s)
         IN
         /\ name \in {"lui", "auipc", "jal", "jalr"} => text = T!UpperAndJumpLine(name, m)
         /\ name \in {"bne", "blt", "bge", "bltu", "bgeu"} => text = T!BranchLine(name, m)
         /\ name \in {"lb", "lh", "lw", "lbu", "lhu", "ld", "lwu"} => text = T!LoadLine(name, m)
         /\ name \in {"sb", "sh", "sw", "sd"} => text = T!StoreLine(name, m)
         /\ name \in {"addi", "slti", "sltiu", "xori", "ori", "andi", "addiw"} => text = T!AluImmLine(name, m)
         /\ name \in {"slli", "srli", "srai", "slliw", "srliw", "sraiw"} => text = T!ShiftImmLine(name, m)
         /\ name \in NamesAlu \cup NamesMulDiv => text = T!AddLine(name, m)
         /\ name \in {"csrrw", "csrrs", "csrrc"} => text = T!CsrLine(name, m)
         /\ name \in {"csrrwi", "csrrsi", "csrrci"} => text = T!CsrImmLine(name, m)
         /\ name \in {"fence", "fence_i", "ecall", "ebreak", "nop"} => text = T!FenceLine(name)
         /\ name \in {"uret", "sret", "mret", "wfi"} => text = T!PrivilegedLine(name, m)
         /\ name \in {"lr_w", "lr_d", "sc_w", "sc_d"} => text = T!ReservationLine(name, m)
         /\ name \in NamesAmo \ {"sc_w", "sc_d"} => text = T!AmoLine(name, m)
         /\ name \in {"flw", "fld", "fsw", "fsd"} \cup NamesFused \cup NamesFff \cup NamesFf \cup NamesXff \cup NamesXf \cup NamesFx
              => text = T!FloatLine(name, m)
<1> DEFINE name == s.name
           m == T!Members(T!Parameters(x)[s.name], s.args)
           text == T!TextOf(x, s)
<1>1. text = CASE name \in {"lui", "auipc", "jal", "jalr"} -> T!UpperAndJumpLine(name, m)
               [] name \in {"beq", "bne", "blt", "bge", "bltu", "bgeu"} -> T!BranchLine(name, m)
               [] name \in {"lb", "lh", "lw", "lbu", "lhu", "ld", "lwu"} -> T!LoadLine(name, m)
               [] name \in {"sb", "sh", "sw", "sd"} -> T!StoreLine(name, m)
               [] name \in {"addi", "slti", "sltiu", "xori", "ori", "andi", "addiw"} -> T!AluImmLine(name, m)
               [] name \in {"slli", "srli", "srai", "slliw", "srliw", "sraiw"} -> T!ShiftImmLine(name, m)
               [] name \in {"add", "addw", "sub", "subw", "sll", "sllw", "slt", "sltu"} -> T!AddLine(name, m)
               [] name \in {"xor", "srl", "srlw", "sra", "sraw", "or", "and"} -> T!LogicLine(name, m)
               [] name \in {"csrrw", "csrrs", "csrrc"} -> T!CsrLine(name, m)
               [] name \in {"csrrwi", "csrrsi", "csrrci"} -> T!CsrImmLine(name, m)
               [] name \in {"fence", "fence_i", "ecall", "ebreak", "nop"} -> T!FenceLine(name)
               [] name \in {"uret", "sret", "mret", "wfi", "sfence_vma"} -> T!PrivilegedLine(name, m)
               [] name \in NamesMulDiv -> T!MulDivLine(name, m)
               [] name \in {"lr_w", "lr_d", "sc_w", "sc_d"} -> T!ReservationLine(name, m)
               [] name \in NamesAmo \ {"sc_w", "sc_d"} -> T!AmoLine(name, m)
               [] OTHER -> T!FloatLine(name, m)
  BY Zenon, TextSets DEF T!TextOf
<1>2. T!LogicLine(name, m) = T!AddLine(name, m) /\ T!MulDivLine(name, m) = T!AddLine(name, m)
  BY DEF T!LogicLine, T!MulDivLine
<1> SUFFICES
         /\ name \in {"lui", "auipc", "jal", "jalr"} => text = T!UpperAndJumpLine(name, m)
         /\ name \in {"bne", "blt", "bge", "bltu", "bgeu"} => text = T!BranchLine(name, m)
         /\ name \in {"lb", "lh", "lw", "lbu", "lhu", "ld", "lwu"} => text = T!LoadLine(name, m)
         /\ name \in {"sb", "sh", "sw", "sd"} => text = T!StoreLine(name, m)
         /\ name \in {"addi", "slti", "sltiu", "xori", "ori", "andi", "addiw"} => text = T!AluImmLine(name, m)
         /\ name \in {"slli", "srli", "srai", "slliw", "srliw", "sraiw"} => text = T!ShiftImmLine(name, m)
         /\ name \in NamesAlu \cup NamesMulDiv => text = T!AddLine(name, m)
         /\ name \in {"csrrw", "csrrs", "csrrc"} => text = T!CsrLine(name, m)
         /\ name \in {"csrrwi", "csrrsi", "csrrci"} => text = T!CsrImmLine(name, m)
         /\ name \in {"fence", "fence_i", "ecall", "ebreak", "nop"} => text = T!FenceLine(name)
         /\ name \in {"uret", "sret", "mret", "wfi"} => text = T!PrivilegedLine(name, m)
         /\ name \in {"lr_w", "lr_d", "sc_w", "sc_d"} => text = T!ReservationLine(name, m)
         /\ name \in NamesAmo \ {"sc_w", "sc_d"} => text = T!AmoLine(name, m)
         /\ name \in {"flw", "fld", "fsw", "fsd"} \cup NamesFused \cup NamesFff \cup NamesFf \cup NamesXff \cup NamesXf \cup NamesFx
              => text = T!FloatLine(name, m)
  OBVIOUS
<1> HIDE DEF name, m, text
<1>3. name \in {"lui", "auipc", "jal", "jalr"} => text = T!UpperAndJumpLine(name, m)
  BY <1>1 DEF NamesMulDiv, NamesAmo
<1>4. name \in {"bne", "blt", "bge", "bltu", "bgeu"} => text = T!BranchLine(name, m)
  BY <1>1 DEF NamesMulDiv, NamesAmo
<1>5. name \in {"lb", "lh", "lw", "lbu", "lhu", "ld", "lwu"} => text = T!LoadLine(name, m)
  BY <1>1 DEF NamesMulDiv, NamesAmo
<1>6. name \in {"sb", "sh", "sw", "sd"} => text = T!StoreLine(name, m)
  BY <1>1 DEF NamesMulDiv, NamesAmo
<1>7. name \in {"addi", "slti", "sltiu", "xori", "ori", "andi", "addiw"} => text = T!AluImmLine(name, m)
  BY <1>1 DEF NamesMulDiv, NamesAmo
<1>8. name \in {"slli", "srli", "srai", "slliw", "srliw", "sraiw"} => text = T!ShiftImmLine(name, m)
  BY <1>1 DEF NamesMulDiv, NamesAmo
<1>9. name \in NamesAlu => text = T!AddLine(name, m)
  BY <1>1, <1>2 DEF NamesAlu, NamesMulDiv, NamesAmo
<1>10. name \in NamesMulDiv => text = T!AddLine(name, m)
  BY <1>1, <1>2 DEF NamesMulDiv, NamesAmo
<1>11. name \in {"csrrw", "csrrs", "csrrc"} => text = T!CsrLine(name, m)
  BY <1>1 DEF NamesMulDiv, NamesAmo
<1>12. name \in {"csrrwi", "csrrsi", "csrrci"} => text = T!CsrImmLine(name, m)
  BY <1>1 DEF NamesMulDiv, NamesAmo
<1>13. name \in {"fence", "fence_i", "ecall", "ebreak", "nop"} => text = T!FenceLine(name)
  BY <1>1 DEF NamesMulDiv, NamesAmo
<1>14. name \in {"uret", "sret", "mret", "wfi"} => text = T!PrivilegedLine(name, m)
  BY <1>1 DEF NamesMulDiv, NamesAmo
<1>15. name \in {"lr_w", "lr_d", "sc_w", "sc_d"} => text = T!ReservationLine(name, m)
  BY <1>1 DEF NamesMulDiv, NamesAmo
<1>16. name \in NamesAmo \ {"sc_w", "sc_d"} => text = T!AmoLine(name, m)
  BY <1>1 DEF NamesMulDiv, NamesAmo
<1>17. name \in {"flw", "fld", "fsw", "fsd"} \cup NamesFused \cup NamesFff \cup NamesFf \cup NamesXff \cup NamesXf \cup NamesFx
         => text = T!FloatLine(name, m)
  BY <1>1 DEF NamesMulDiv, NamesAmo, NamesFused, NamesFff, NamesFf, NamesXff, NamesXf, NamesFx
<1> QED
  BY <1>3, <1>4, <1>5, <1>6, <1>7, <1>8, <1>9, <1>10, <1>11, <1>12, <1>13, <1>14, <1>15, <1>16, <1>17

\* The arm of FloatLine a name takes.
LEMMA FloatTextArms ==
  ASSUME NEW name, NEW m
  PROVE  /\ name \in {"flw", "fld", "fsw", "fsd"} => T!FloatLine(name, m) = T!FloatMemoryLine(name, m)
         /\ name \in NamesFused => T!FloatLine(name, m) = T!FusedLine(name, m)
         /\ name \in NamesFff => T!FloatLine(name, m) \in {T!ArithmeticLine(name, m), T!SignLine(name, m)}
         /\ name \in NamesFf => T!FloatLine(name, m) \in {T!SqrtLine(name, m), T!ToFloatLine(name, m)}
         /\ name \in NamesXff => T!FloatLine(name, m) = T!CompareLine(name, m)
         /\ name \in {"fclass_s", "fclass_d"} => T!FloatLine(name, m) = T!ClassLine(name, m)
         /\ name \in T!MoveNames => T!FloatLine(name, m) = T!MoveLine(name, m)
         /\ name \in T!FloatToInt => T!FloatLine(name, m) = T!ToIntLine(name, m)
         /\ name \in NamesFx \ T!MoveNames => T!FloatLine(name, m) = T!FromIntLine(name, m)
<1>1. T!FusedNames = NamesFused /\ T!CompareNames = NamesXff
  BY DEF T!FusedNames, T!RV32F_Fused, T!RV32D_Fused, T!CompareNames, T!RV32F_Compare, T!RV32D_Compare, NamesFused, NamesXff
<1>2. T!ArithmeticNames = {"fadd_s", "fsub_s", "fmul_s", "fdiv_s", "fadd_d", "fsub_d", "fmul_d", "fdiv_d"}
  BY DEF T!ArithmeticNames, T!RV32F_Arithmetic, T!RV32D_Arithmetic
<1>3. T!SignNames = {"fsgnj_s", "fsgnjn_s", "fsgnjx_s", "fmin_s", "fmax_s", "fsgnj_d", "fsgnjn_d", "fsgnjx_d", "fmin_d", "fmax_d"}
  BY DEF T!SignNames, T!RV32F_Sign, T!RV32D_Sign
<1> DEFINE line == T!FloatLine(name, m)
<1>4. line =
  CASE name \in {"flw", "fld", "fsw", "fsd"} -> T!FloatMemoryLine(name, m)
    [] name \in NamesFused -> T!FusedLine(name, m)
    [] name \in {"fadd_s", "fsub_s", "fmul_s", "fdiv_s", "fadd_d", "fsub_d", "fmul_d", "fdiv_d"} -> T!ArithmeticLine(name, m)
    [] name \in {"fsqrt_s", "fsqrt_d"} -> T!SqrtLine(name, m)
    [] name \in NamesXff -> T!CompareLine(name, m)
    [] name \in {"fsgnj_s", "fsgnjn_s", "fsgnjx_s", "fmin_s", "fmax_s", "fsgnj_d", "fsgnjn_d", "fsgnjx_d", "fmin_d", "fmax_d"} ->
         T!SignLine(name, m)
    [] name \in {"fclass_s", "fclass_d"} -> T!ClassLine(name, m)
    [] name \in {"fmv_x_w", "fmv_w_x", "fmv_x_d", "fmv_d_x"} -> T!MoveLine(name, m)
    [] name \in {"fcvt_w_s", "fcvt_wu_s", "fcvt_l_s", "fcvt_lu_s", "fcvt_w_d", "fcvt_wu_d", "fcvt_l_d", "fcvt_lu_d"} ->
         T!ToIntLine(name, m)
    [] name \in {"fcvt_s_d", "fcvt_d_s"} -> T!ToFloatLine(name, m)
    [] OTHER -> T!FromIntLine(name, m)
  BY Zenon, <1>1, <1>2, <1>3 DEF T!FloatLine, T!MoveNames, T!FloatToInt, T!FloatToFloat
<1> SUFFICES
         /\ name \in {"flw", "fld", "fsw", "fsd"} => line = T!FloatMemoryLine(name, m)
         /\ name \in NamesFused => line = T!FusedLine(name, m)
         /\ name \in NamesFff => line \in {T!ArithmeticLine(name, m), T!SignLine(name, m)}
         /\ name \in NamesFf => line \in {T!SqrtLine(name, m), T!ToFloatLine(name, m)}
         /\ name \in NamesXff => line = T!CompareLine(name, m)
         /\ name \in {"fclass_s", "fclass_d"} => line = T!ClassLine(name, m)
         /\ name \in T!MoveNames => line = T!MoveLine(name, m)
         /\ name \in T!FloatToInt => line = T!ToIntLine(name, m)
         /\ name \in NamesFx \ T!MoveNames => line = T!FromIntLine(name, m)
  OBVIOUS
<1> HIDE DEF line
<1>5. name \in {"flw", "fld", "fsw", "fsd"} => line = T!FloatMemoryLine(name, m)
  BY <1>4 DEF NamesFused, NamesXff
<1>6. name \in NamesFused => line = T!FusedLine(name, m)
  BY <1>4 DEF NamesFused, NamesXff
<1>7. name \in NamesFff => line \in {T!ArithmeticLine(name, m), T!SignLine(name, m)}
  BY <1>4 DEF NamesFused, NamesXff, NamesFff
<1>8. name \in NamesFf => line \in {T!SqrtLine(name, m), T!ToFloatLine(name, m)}
  BY <1>4 DEF NamesFused, NamesXff, NamesFf
<1>9. name \in NamesXff => line = T!CompareLine(name, m)
  BY <1>4 DEF NamesFused, NamesXff
<1>10. name \in {"fclass_s", "fclass_d"} => line = T!ClassLine(name, m)
  BY <1>4 DEF NamesFused, NamesXff
<1>11. name \in T!MoveNames => line = T!MoveLine(name, m)
  BY <1>4 DEF NamesFused, NamesXff, T!MoveNames
<1>12. name \in T!FloatToInt => line = T!ToIntLine(name, m)
  BY <1>4 DEF NamesFused, NamesXff, T!FloatToInt
<1>13. name \in NamesFx \ T!MoveNames => line = T!FromIntLine(name, m)
  BY <1>4 DEF NamesFused, NamesXff, NamesFx, T!MoveNames
<1> QED
  BY <1>5, <1>6, <1>7, <1>8, <1>9, <1>10, <1>11, <1>12, <1>13

\* The registers of a line, by the kinds of its items: X and F registers, immediates and CSRs.
LEMMA NoUnion == \A S : S \cup {} = S /\ {} \cup S = S
OBVIOUS

LEMMA Line0 == \A mn : ShownRegisters(T!Line(mn, <<>>)) = {}
BY ShownBy

LEMMA LineI == \A mn, a : ShownRegisters(T!Line(mn, <<T!Imm(a)>>)) = {}
<1> SUFFICES ASSUME NEW mn, NEW a
             PROVE  ShownRegisters(T!Line(mn, <<T!Imm(a)>>)) = {}
  OBVIOUS
<1> DEFINE p == T!Imm(a)
<1>1. One(p) = {}
  BY OneOf
<1> HIDE DEF p
<1>2. ShownRegisters(T!Line(mn, <<p>>)) = One(p)
  BY ShownBy
<1>3. ShownRegisters(T!Line(mn, <<p>>)) = {}
  BY <1>1, <1>2, NoUnion
<1> QED
  BY <1>3 DEF p

LEMMA LineX == \A mn, a : ShownRegisters(T!Line(mn, <<T!X(a)>>)) = XReg(a)
<1> SUFFICES ASSUME NEW mn, NEW a
             PROVE  ShownRegisters(T!Line(mn, <<T!X(a)>>)) = XReg(a)
  OBVIOUS
<1> DEFINE p == T!X(a)
<1>1. One(p) = XReg(a)
  BY OneOf
<1> HIDE DEF p
<1>2. ShownRegisters(T!Line(mn, <<p>>)) = One(p)
  BY ShownBy
<1>3. ShownRegisters(T!Line(mn, <<p>>)) = XReg(a)
  BY <1>1, <1>2, NoUnion
<1> QED
  BY <1>3 DEF p

LEMMA LineCI == \A mn, a, b : ShownRegisters(T!Line(mn, <<T!CsrAt(a), T!Imm(b)>>)) = {}
<1> SUFFICES ASSUME NEW mn, NEW a, NEW b
             PROVE  ShownRegisters(T!Line(mn, <<T!CsrAt(a), T!Imm(b)>>)) = {}
  OBVIOUS
<1> DEFINE p == T!CsrAt(a)
           q == T!Imm(b)
<1>1. One(p) = {} /\ One(q) = {}
  BY OneOf
<1> HIDE DEF p, q
<1>2. ShownRegisters(T!Line(mn, <<p, q>>)) = One(p) \cup One(q)
  BY ShownBy
<1>3. ShownRegisters(T!Line(mn, <<p, q>>)) = {}
  BY <1>1, <1>2, NoUnion
<1> QED
  BY <1>3 DEF p, q

LEMMA LineXI == \A mn, a, b : ShownRegisters(T!Line(mn, <<T!X(a), T!Imm(b)>>)) = XReg(a)
<1> SUFFICES ASSUME NEW mn, NEW a, NEW b
             PROVE  ShownRegisters(T!Line(mn, <<T!X(a), T!Imm(b)>>)) = XReg(a)
  OBVIOUS
<1> DEFINE p == T!X(a)
           q == T!Imm(b)
<1>1. One(p) = XReg(a) /\ One(q) = {}
  BY OneOf
<1> HIDE DEF p, q
<1>2. ShownRegisters(T!Line(mn, <<p, q>>)) = One(p) \cup One(q)
  BY ShownBy
<1>3. ShownRegisters(T!Line(mn, <<p, q>>)) = XReg(a)
  BY <1>1, <1>2, NoUnion
<1> QED
  BY <1>3 DEF p, q

LEMMA LineXC == \A mn, a, b : ShownRegisters(T!Line(mn, <<T!X(a), T!CsrAt(b)>>)) = XReg(a)
<1> SUFFICES ASSUME NEW mn, NEW a, NEW b
             PROVE  ShownRegisters(T!Line(mn, <<T!X(a), T!CsrAt(b)>>)) = XReg(a)
  OBVIOUS
<1> DEFINE p == T!X(a)
           q == T!CsrAt(b)
<1>1. One(p) = XReg(a) /\ One(q) = {}
  BY OneOf
<1> HIDE DEF p, q
<1>2. ShownRegisters(T!Line(mn, <<p, q>>)) = One(p) \cup One(q)
  BY ShownBy
<1>3. ShownRegisters(T!Line(mn, <<p, q>>)) = XReg(a)
  BY <1>1, <1>2, NoUnion
<1> QED
  BY <1>3 DEF p, q

LEMMA LineCX == \A mn, a, b : ShownRegisters(T!Line(mn, <<T!CsrAt(a), T!X(b)>>)) = XReg(b)
<1> SUFFICES ASSUME NEW mn, NEW a, NEW b
             PROVE  ShownRegisters(T!Line(mn, <<T!CsrAt(a), T!X(b)>>)) = XReg(b)
  OBVIOUS
<1> DEFINE p == T!CsrAt(a)
           q == T!X(b)
<1>1. One(p) = {} /\ One(q) = XReg(b)
  BY OneOf
<1> HIDE DEF p, q
<1>2. ShownRegisters(T!Line(mn, <<p, q>>)) = One(p) \cup One(q)
  BY ShownBy
<1>3. ShownRegisters(T!Line(mn, <<p, q>>)) = XReg(b)
  BY <1>1, <1>2, NoUnion
<1> QED
  BY <1>3 DEF p, q

LEMMA LineXX == \A mn, a, b : ShownRegisters(T!Line(mn, <<T!X(a), T!X(b)>>)) = XReg(a) \cup XReg(b)
<1> SUFFICES ASSUME NEW mn, NEW a, NEW b
             PROVE  ShownRegisters(T!Line(mn, <<T!X(a), T!X(b)>>)) = XReg(a) \cup XReg(b)
  OBVIOUS
<1> DEFINE p == T!X(a)
           q == T!X(b)
<1>1. One(p) = XReg(a) /\ One(q) = XReg(b)
  BY OneOf
<1> HIDE DEF p, q
<1>2. ShownRegisters(T!Line(mn, <<p, q>>)) = One(p) \cup One(q)
  BY ShownBy
<1>3. ShownRegisters(T!Line(mn, <<p, q>>)) = XReg(a) \cup XReg(b)
  BY <1>1, <1>2, NoUnion
<1> QED
  BY <1>3 DEF p, q

LEMMA LineXF == \A mn, a, b : ShownRegisters(T!Line(mn, <<T!X(a), T!F(b)>>)) = XReg(a) \cup FReg(b)
<1> SUFFICES ASSUME NEW mn, NEW a, NEW b
             PROVE  ShownRegisters(T!Line(mn, <<T!X(a), T!F(b)>>)) = XReg(a) \cup FReg(b)
  OBVIOUS
<1> DEFINE p == T!X(a)
           q == T!F(b)
<1>1. One(p) = XReg(a) /\ One(q) = FReg(b)
  BY OneOf
<1> HIDE DEF p, q
<1>2. ShownRegisters(T!Line(mn, <<p, q>>)) = One(p) \cup One(q)
  BY ShownBy
<1>3. ShownRegisters(T!Line(mn, <<p, q>>)) = XReg(a) \cup FReg(b)
  BY <1>1, <1>2, NoUnion
<1> QED
  BY <1>3 DEF p, q

LEMMA LineFX == \A mn, a, b : ShownRegisters(T!Line(mn, <<T!F(a), T!X(b)>>)) = FReg(a) \cup XReg(b)
<1> SUFFICES ASSUME NEW mn, NEW a, NEW b
             PROVE  ShownRegisters(T!Line(mn, <<T!F(a), T!X(b)>>)) = FReg(a) \cup XReg(b)
  OBVIOUS
<1> DEFINE p == T!F(a)
           q == T!X(b)
<1>1. One(p) = FReg(a) /\ One(q) = XReg(b)
  BY OneOf
<1> HIDE DEF p, q
<1>2. ShownRegisters(T!Line(mn, <<p, q>>)) = One(p) \cup One(q)
  BY ShownBy
<1>3. ShownRegisters(T!Line(mn, <<p, q>>)) = FReg(a) \cup XReg(b)
  BY <1>1, <1>2, NoUnion
<1> QED
  BY <1>3 DEF p, q

LEMMA LineXCI == \A mn, a, b, c : ShownRegisters(T!Line(mn, <<T!X(a), T!CsrAt(b), T!Imm(c)>>)) = XReg(a)
<1> SUFFICES ASSUME NEW mn, NEW a, NEW b, NEW c
             PROVE  ShownRegisters(T!Line(mn, <<T!X(a), T!CsrAt(b), T!Imm(c)>>)) = XReg(a)
  OBVIOUS
<1> DEFINE p == T!X(a)
           q == T!CsrAt(b)
           t == T!Imm(c)
<1>1. One(p) = XReg(a) /\ One(q) = {} /\ One(t) = {}
  BY OneOf
<1> HIDE DEF p, q, t
<1>2. ShownRegisters(T!Line(mn, <<p, q, t>>)) = One(p) \cup One(q) \cup One(t)
  BY ShownBy
<1>3. ShownRegisters(T!Line(mn, <<p, q, t>>)) = XReg(a)
  BY <1>1, <1>2, NoUnion
<1> QED
  BY <1>3 DEF p, q, t

LEMMA LineXCX == \A mn, a, b, c : ShownRegisters(T!Line(mn, <<T!X(a), T!CsrAt(b), T!X(c)>>)) = XReg(a) \cup XReg(c)
<1> SUFFICES ASSUME NEW mn, NEW a, NEW b, NEW c
             PROVE  ShownRegisters(T!Line(mn, <<T!X(a), T!CsrAt(b), T!X(c)>>)) = XReg(a) \cup XReg(c)
  OBVIOUS
<1> DEFINE p == T!X(a)
           q == T!CsrAt(b)
           t == T!X(c)
<1>1. One(p) = XReg(a) /\ One(q) = {} /\ One(t) = XReg(c)
  BY OneOf
<1> HIDE DEF p, q, t
<1>2. ShownRegisters(T!Line(mn, <<p, q, t>>)) = One(p) \cup One(q) \cup One(t)
  BY ShownBy
<1>3. ShownRegisters(T!Line(mn, <<p, q, t>>)) = XReg(a) \cup XReg(c)
  BY <1>1, <1>2, NoUnion
<1> QED
  BY <1>3 DEF p, q, t

LEMMA LineXIX == \A mn, a, b, c : ShownRegisters(T!Line(mn, <<T!X(a), T!Imm(b), T!X(c)>>)) = XReg(a) \cup XReg(c)
<1> SUFFICES ASSUME NEW mn, NEW a, NEW b, NEW c
             PROVE  ShownRegisters(T!Line(mn, <<T!X(a), T!Imm(b), T!X(c)>>)) = XReg(a) \cup XReg(c)
  OBVIOUS
<1> DEFINE p == T!X(a)
           q == T!Imm(b)
           t == T!X(c)
<1>1. One(p) = XReg(a) /\ One(q) = {} /\ One(t) = XReg(c)
  BY OneOf
<1> HIDE DEF p, q, t
<1>2. ShownRegisters(T!Line(mn, <<p, q, t>>)) = One(p) \cup One(q) \cup One(t)
  BY ShownBy
<1>3. ShownRegisters(T!Line(mn, <<p, q, t>>)) = XReg(a) \cup XReg(c)
  BY <1>1, <1>2, NoUnion
<1> QED
  BY <1>3 DEF p, q, t

LEMMA LineFIX == \A mn, a, b, c : ShownRegisters(T!Line(mn, <<T!F(a), T!Imm(b), T!X(c)>>)) = FReg(a) \cup XReg(c)
<1> SUFFICES ASSUME NEW mn, NEW a, NEW b, NEW c
             PROVE  ShownRegisters(T!Line(mn, <<T!F(a), T!Imm(b), T!X(c)>>)) = FReg(a) \cup XReg(c)
  OBVIOUS
<1> DEFINE p == T!F(a)
           q == T!Imm(b)
           t == T!X(c)
<1>1. One(p) = FReg(a) /\ One(q) = {} /\ One(t) = XReg(c)
  BY OneOf
<1> HIDE DEF p, q, t
<1>2. ShownRegisters(T!Line(mn, <<p, q, t>>)) = One(p) \cup One(q) \cup One(t)
  BY ShownBy
<1>3. ShownRegisters(T!Line(mn, <<p, q, t>>)) = FReg(a) \cup XReg(c)
  BY <1>1, <1>2, NoUnion
<1> QED
  BY <1>3 DEF p, q, t

LEMMA LineXXI == \A mn, a, b, c : ShownRegisters(T!Line(mn, <<T!X(a), T!X(b), T!Imm(c)>>)) = XReg(a) \cup XReg(b)
<1> SUFFICES ASSUME NEW mn, NEW a, NEW b, NEW c
             PROVE  ShownRegisters(T!Line(mn, <<T!X(a), T!X(b), T!Imm(c)>>)) = XReg(a) \cup XReg(b)
  OBVIOUS
<1> DEFINE p == T!X(a)
           q == T!X(b)
           t == T!Imm(c)
<1>1. One(p) = XReg(a) /\ One(q) = XReg(b) /\ One(t) = {}
  BY OneOf
<1> HIDE DEF p, q, t
<1>2. ShownRegisters(T!Line(mn, <<p, q, t>>)) = One(p) \cup One(q) \cup One(t)
  BY ShownBy
<1>3. ShownRegisters(T!Line(mn, <<p, q, t>>)) = XReg(a) \cup XReg(b)
  BY <1>1, <1>2, NoUnion
<1> QED
  BY <1>3 DEF p, q, t

LEMMA LineXXX == \A mn, a, b, c : ShownRegisters(T!Line(mn, <<T!X(a), T!X(b), T!X(c)>>)) = XReg(a) \cup XReg(b) \cup XReg(c)
<1> SUFFICES ASSUME NEW mn, NEW a, NEW b, NEW c
             PROVE  ShownRegisters(T!Line(mn, <<T!X(a), T!X(b), T!X(c)>>)) = XReg(a) \cup XReg(b) \cup XReg(c)
  OBVIOUS
<1> DEFINE p == T!X(a)
           q == T!X(b)
           t == T!X(c)
<1>1. One(p) = XReg(a) /\ One(q) = XReg(b) /\ One(t) = XReg(c)
  BY OneOf
<1> HIDE DEF p, q, t
<1>2. ShownRegisters(T!Line(mn, <<p, q, t>>)) = One(p) \cup One(q) \cup One(t)
  BY ShownBy
<1>3. ShownRegisters(T!Line(mn, <<p, q, t>>)) = XReg(a) \cup XReg(b) \cup XReg(c)
  BY <1>1, <1>2, NoUnion
<1> QED
  BY <1>3 DEF p, q, t

LEMMA LineXFF == \A mn, a, b, c : ShownRegisters(T!Line(mn, <<T!X(a), T!F(b), T!F(c)>>)) = XReg(a) \cup FReg(b) \cup FReg(c)
<1> SUFFICES ASSUME NEW mn, NEW a, NEW b, NEW c
             PROVE  ShownRegisters(T!Line(mn, <<T!X(a), T!F(b), T!F(c)>>)) = XReg(a) \cup FReg(b) \cup FReg(c)
  OBVIOUS
<1> DEFINE p == T!X(a)
           q == T!F(b)
           t == T!F(c)
<1>1. One(p) = XReg(a) /\ One(q) = FReg(b) /\ One(t) = FReg(c)
  BY OneOf
<1> HIDE DEF p, q, t
<1>2. ShownRegisters(T!Line(mn, <<p, q, t>>)) = One(p) \cup One(q) \cup One(t)
  BY ShownBy
<1>3. ShownRegisters(T!Line(mn, <<p, q, t>>)) = XReg(a) \cup FReg(b) \cup FReg(c)
  BY <1>1, <1>2, NoUnion
<1> QED
  BY <1>3 DEF p, q, t

LEMMA LineFFF == \A mn, a, b, c : ShownRegisters(T!Line(mn, <<T!F(a), T!F(b), T!F(c)>>)) = FReg(a) \cup FReg(b) \cup FReg(c)
<1> SUFFICES ASSUME NEW mn, NEW a, NEW b, NEW c
             PROVE  ShownRegisters(T!Line(mn, <<T!F(a), T!F(b), T!F(c)>>)) = FReg(a) \cup FReg(b) \cup FReg(c)
  OBVIOUS
<1> DEFINE p == T!F(a)
           q == T!F(b)
           t == T!F(c)
<1>1. One(p) = FReg(a) /\ One(q) = FReg(b) /\ One(t) = FReg(c)
  BY OneOf
<1> HIDE DEF p, q, t
<1>2. ShownRegisters(T!Line(mn, <<p, q, t>>)) = One(p) \cup One(q) \cup One(t)
  BY ShownBy
<1>3. ShownRegisters(T!Line(mn, <<p, q, t>>)) = FReg(a) \cup FReg(b) \cup FReg(c)
  BY <1>1, <1>2, NoUnion
<1> QED
  BY <1>3 DEF p, q, t

LEMMA Commutes ==
  /\ \A S, R : S \cup R = R \cup S
  /\ \A S, R, U : S \cup R \cup U = S \cup U \cup R
OBVIOUS

\* The registers a line shows, by its form.
LEMMA LinesShow ==
  ASSUME NEW m, NEW name
  PROVE  LET r(line) == ShownRegisters(line) IN
         /\ name \in {"lui", "auipc", "jal"} => r(T!UpperAndJumpLine(name, m)) = XReg(m.rd)
         /\ name = "jalr" => r(T!UpperAndJumpLine(name, m)) = XReg(m.rd) \cup XReg(m.rs1)
         /\ name \in {"bne", "blt", "bge", "bltu", "bgeu"} => r(T!BranchLine(name, m)) = XReg(m.rs1) \cup XReg(m.rs2)
         /\ r(T!LoadLine(name, m)) = XReg(m.rd) \cup XReg(m.rs1)
         /\ r(T!StoreLine(name, m)) = XReg(m.rs1) \cup XReg(m.rs2)
         /\ r(T!AluImmLine(name, m)) = XReg(m.rd) \cup XReg(m.rs1)
         /\ r(T!ShiftImmLine(name, m)) = XReg(m.rd) \cup XReg(m.rs1)
         /\ r(T!AddLine(name, m)) = XReg(m.rd) \cup XReg(m.rs1) \cup XReg(m.rs2)
         /\ name \in {"csrrw", "csrrs", "csrrc"} => r(T!CsrLine(name, m)) = XReg(m.rd) \cup XReg(m.rs1)
         /\ name \in {"csrrwi", "csrrsi", "csrrci"} => r(T!CsrImmLine(name, m)) = XReg(m.rd)
         /\ r(T!FenceLine(name)) = {}
         /\ name # "sfence_vma" => r(T!PrivilegedLine(name, m)) = {}
         /\ name \in {"lr_w", "lr_d"} => r(T!ReservationLine(name, m)) = XReg(m.rd) \cup XReg(m.rs1)
         /\ name \notin {"lr_w", "lr_d"} => r(T!ReservationLine(name, m)) = XReg(m.rd) \cup XReg(m.rs1) \cup XReg(m.rs2)
         /\ r(T!AmoLine(name, m)) = XReg(m.rd) \cup XReg(m.rs1) \cup XReg(m.rs2)
<1>0. XReg(0) = {}
  BY DEF XReg
<1>1. name \in {"lui", "auipc", "jal"} => ShownRegisters(T!UpperAndJumpLine(name, m)) = XReg(m.rd)
  <2>1. CASE name \in {"lui", "auipc"}
    BY <2>1, LineXI DEF T!UpperAndJumpLine
  <2>2. CASE name = "jal"
    BY <2>2, <1>0, LineXI, LineI DEF T!UpperAndJumpLine
  <2> QED BY <2>1, <2>2
<1>2. name = "jalr" => ShownRegisters(T!UpperAndJumpLine(name, m)) = XReg(m.rd) \cup XReg(m.rs1)
  <2>1. CASE name = "jalr" /\ m.rd = 0
    <3>1. ShownRegisters(T!UpperAndJumpLine(name, m)) = XReg(m.rs1)
      BY <2>1, LineXI DEF T!UpperAndJumpLine
    <3> QED BY <1>0, <2>1, <3>1, NoUnion
  <2>2. CASE name = "jalr" /\ m.rd # 0
    BY <2>2, LineXXI DEF T!UpperAndJumpLine
  <2> QED BY <2>1, <2>2
<1>3. name \in {"bne", "blt", "bge", "bltu", "bgeu"} => ShownRegisters(T!BranchLine(name, m)) = XReg(m.rs1) \cup XReg(m.rs2)
  <2> SUFFICES ASSUME name \in {"bne", "blt", "bge", "bltu", "bgeu"}
               PROVE  ShownRegisters(T!BranchLine(name, m)) = XReg(m.rs1) \cup XReg(m.rs2)
    OBVIOUS
  <2> DEFINE zero == [bne |-> "bnez", blt |-> "bltz", bge |-> "bgez"]
  <2>1. CASE name \in {"bne", "blt", "bge"} /\ m.rs1 = 0
    <3>1. T!BranchLine(name, m) = T!Line(zero[name], <<T!X(m.rs2), T!Imm(m.imm)>>)
      <4>1. CASE m.rs2 = 0
        BY <2>1, <4>1 DEF T!BranchLine
      <4>2. CASE m.rs2 # 0
        BY <2>1, <4>2 DEF T!BranchLine
      <4> QED BY <4>1, <4>2
    <3> HIDE DEF zero
    <3>2. ShownRegisters(T!BranchLine(name, m)) = XReg(m.rs2)
      BY <3>1, LineXI
    <3> QED BY <1>0, <2>1, <3>2, NoUnion
  <2>2. CASE name \in {"bne", "blt", "bge"} /\ m.rs1 # 0 /\ m.rs2 = 0
    <3>1. T!BranchLine(name, m) = T!Line(zero[name], <<T!X(m.rs1), T!Imm(m.imm)>>)
      BY <2>2 DEF T!BranchLine
    <3> HIDE DEF zero
    <3>2. ShownRegisters(T!BranchLine(name, m)) = XReg(m.rs1)
      BY <3>1, LineXI
    <3> QED BY <1>0, <2>2, <3>2, NoUnion
  <2>3. CASE name \notin {"bne", "blt", "bge"} \/ (m.rs1 # 0 /\ m.rs2 # 0)
    <3>1. T!BranchLine(name, m) = T!Line(name, <<T!X(m.rs1), T!X(m.rs2), T!Imm(m.imm)>>)
      BY <2>3 DEF T!BranchLine
    <3> QED BY <3>1, LineXXI
  <2> QED BY <2>1, <2>2, <2>3
<1>4. ShownRegisters(T!LoadLine(name, m)) = XReg(m.rd) \cup XReg(m.rs1)
  BY LineXIX DEF T!LoadLine
<1>5. ShownRegisters(T!StoreLine(name, m)) = XReg(m.rs1) \cup XReg(m.rs2)
  <2>1. ShownRegisters(T!StoreLine(name, m)) = XReg(m.rs2) \cup XReg(m.rs1)
    BY LineXIX DEF T!StoreLine
  <2> QED BY <2>1, Commutes
<1>6. ShownRegisters(T!AluImmLine(name, m)) = XReg(m.rd) \cup XReg(m.rs1)
  BY LineXXI DEF T!AluImmLine
<1>7. ShownRegisters(T!ShiftImmLine(name, m)) = XReg(m.rd) \cup XReg(m.rs1)
  BY LineXXI DEF T!ShiftImmLine
<1>8. ShownRegisters(T!AddLine(name, m)) = XReg(m.rd) \cup XReg(m.rs1) \cup XReg(m.rs2)
  BY LineXXX DEF T!AddLine
<1>9. name \in {"csrrw", "csrrs", "csrrc"} => ShownRegisters(T!CsrLine(name, m)) = XReg(m.rd) \cup XReg(m.rs1)
  <2> DEFINE other == [csrrw |-> "csrw", csrrs |-> "csrr", csrrc |-> "csrc"][name]
  <2>1. CASE name = "csrrs" /\ m.rs1 = 0
    <3>1. T!CsrLine(name, m) = T!Line("csrr", <<T!X(m.rd), T!CsrAt(m.csr)>>)
      BY <2>1 DEF T!CsrLine
    <3>2. ShownRegisters(T!CsrLine(name, m)) = XReg(m.rd)
      BY <3>1, LineXC
    <3> QED BY <1>0, <2>1, <3>2, NoUnion
  <2>2. CASE ~(name = "csrrs" /\ m.rs1 = 0) /\ m.rd = 0
    <3>1. T!CsrLine(name, m) = T!Line(other, <<T!CsrAt(m.csr), T!X(m.rs1)>>)
      BY <2>2 DEF T!CsrLine
    <3> HIDE DEF other
    <3>2. ShownRegisters(T!CsrLine(name, m)) = XReg(m.rs1)
      BY <3>1, LineCX
    <3> QED BY <1>0, <2>2, <3>2, NoUnion
  <2>3. CASE ~(name = "csrrs" /\ m.rs1 = 0) /\ m.rd # 0
    <3>1. T!CsrLine(name, m) = T!Line(name, <<T!X(m.rd), T!CsrAt(m.csr), T!X(m.rs1)>>)
      BY <2>3 DEF T!CsrLine
    <3> QED BY <3>1, LineXCX
  <2> QED BY <2>1, <2>2, <2>3
<1>10. name \in {"csrrwi", "csrrsi", "csrrci"} => ShownRegisters(T!CsrImmLine(name, m)) = XReg(m.rd)
  <2> DEFINE other == [csrrwi |-> "csrwi", csrrsi |-> "csrsi", csrrci |-> "csrci"][name]
  <2>1. CASE m.rd = 0
    <3>1. T!CsrImmLine(name, m) = T!Line(other, <<T!CsrAt(m.csr), T!Imm(m.uimm)>>)
      BY <2>1 DEF T!CsrImmLine
    <3> HIDE DEF other
    <3>2. ShownRegisters(T!CsrImmLine(name, m)) = {}
      BY <3>1, LineCI
    <3> QED BY <1>0, <2>1, <3>2
  <2>2. CASE m.rd # 0
    BY <2>2, LineXCI DEF T!CsrImmLine
  <2> QED BY <2>1, <2>2
<1>11. ShownRegisters(T!FenceLine(name)) = {}
  BY Line0 DEF T!FenceLine
<1>12. name # "sfence_vma" => ShownRegisters(T!PrivilegedLine(name, m)) = {}
  BY Line0 DEF T!PrivilegedLine
<1>13. name \in {"lr_w", "lr_d"} => ShownRegisters(T!ReservationLine(name, m)) = XReg(m.rd) \cup XReg(m.rs1)
  BY LineXX DEF T!ReservationLine
<1>14. ShownRegisters(T!AmoLine(name, m)) = XReg(m.rd) \cup XReg(m.rs1) \cup XReg(m.rs2)
  <2>1. ShownRegisters(T!AmoLine(name, m)) = XReg(m.rd) \cup XReg(m.rs2) \cup XReg(m.rs1)
    BY LineXXX DEF T!AmoLine
  <2> QED BY <2>1, Commutes
<1>15. name \notin {"lr_w", "lr_d"} => ShownRegisters(T!ReservationLine(name, m)) = XReg(m.rd) \cup XReg(m.rs1) \cup XReg(m.rs2)
  BY <1>14 DEF T!ReservationLine, T!AmoLine
<1> QED
  BY <1>1, <1>2, <1>3, <1>4, <1>5, <1>6, <1>7, <1>8, <1>9, <1>10, <1>11, <1>12, <1>13, <1>14, <1>15

LEMMA FloatLinesShow ==
  ASSUME NEW m, NEW name
  PROVE  LET r(line) == ShownRegisters(line) IN
         /\ name \in {"flw", "fld"} => r(T!FloatMemoryLine(name, m)) = FReg(m.rd) \cup XReg(m.rs1)
         /\ name \in {"fsw", "fsd"} => r(T!FloatMemoryLine(name, m)) = FReg(m.rs2) \cup XReg(m.rs1)
         /\ r(T!FusedLine(name, m)) = FReg(m.rd) \cup FReg(m.rs1) \cup FReg(m.rs2) \cup FReg(m.rs3)
         /\ r(T!ArithmeticLine(name, m)) = FReg(m.rd) \cup FReg(m.rs1) \cup FReg(m.rs2)
         /\ r(T!SignLine(name, m)) = FReg(m.rd) \cup FReg(m.rs1) \cup FReg(m.rs2)
         /\ r(T!SqrtLine(name, m)) = FReg(m.rd) \cup FReg(m.rs1)
         /\ r(T!ToFloatLine(name, m)) = FReg(m.rd) \cup FReg(m.rs1)
         /\ r(T!CompareLine(name, m)) = XReg(m.rd) \cup FReg(m.rs1) \cup FReg(m.rs2)
         /\ r(T!ClassLine(name, m)) = XReg(m.rd) \cup FReg(m.rs1)
         /\ r(T!ToIntLine(name, m)) = XReg(m.rd) \cup FReg(m.rs1)
         /\ name \in {"fmv_x_w", "fmv_x_d"} => r(T!MoveLine(name, m)) = XReg(m.rd) \cup FReg(m.rs1)
         /\ name \notin {"fmv_x_w", "fmv_x_d"} => r(T!MoveLine(name, m)) = FReg(m.rd) \cup XReg(m.rs1)
         /\ r(T!FromIntLine(name, m)) = FReg(m.rd) \cup XReg(m.rs1)
<1> DEFINE d == T!F(m.rd)
           s == T!F(m.rs1)
           t == T!F(m.rs2)
           u == T!F(m.rs3)
           g == T!X(m.rd)
           h == T!X(m.rs1)
<1>0. /\ One(d) = FReg(m.rd) /\ One(s) = FReg(m.rs1) /\ One(t) = FReg(m.rs2) /\ One(u) = FReg(m.rs3)
      /\ One(g) = XReg(m.rd) /\ One(h) = XReg(m.rs1)
  BY OneOf
<1>1. name \in {"flw", "fld"} => ShownRegisters(T!FloatMemoryLine(name, m)) = FReg(m.rd) \cup XReg(m.rs1)
  BY LineFIX DEF T!FloatMemoryLine
<1>2. name \in {"fsw", "fsd"} => ShownRegisters(T!FloatMemoryLine(name, m)) = FReg(m.rs2) \cup XReg(m.rs1)
  BY LineFIX DEF T!FloatMemoryLine
<1>3. ShownRegisters(T!SignLine(name, m)) = FReg(m.rd) \cup FReg(m.rs1) \cup FReg(m.rs2)
  BY LineFFF DEF T!SignLine
<1>4. ShownRegisters(T!CompareLine(name, m)) = XReg(m.rd) \cup FReg(m.rs1) \cup FReg(m.rs2)
  BY LineXFF DEF T!CompareLine
<1>5. ShownRegisters(T!ClassLine(name, m)) = XReg(m.rd) \cup FReg(m.rs1)
  BY LineXF DEF T!ClassLine
<1>6. name \in {"fmv_x_w", "fmv_x_d"} => ShownRegisters(T!MoveLine(name, m)) = XReg(m.rd) \cup FReg(m.rs1)
  BY LineXF DEF T!MoveLine
<1>7. name \notin {"fmv_x_w", "fmv_x_d"} => ShownRegisters(T!MoveLine(name, m)) = FReg(m.rd) \cup XReg(m.rs1)
  BY LineFX DEF T!MoveLine
<1>8. ShownRegisters(T!FusedLine(name, m)) = FReg(m.rd) \cup FReg(m.rs1) \cup FReg(m.rs2) \cup FReg(m.rs3)
  <2>1. T!FusedLine(name, m) = T!Line(name, <<d, s, t, u>> \o T!RoundingMode(m.rm))
    BY DEF T!FusedLine
  <2> HIDE DEF d, s, t, u, g, h
  <2>2. ShownRegisters(T!Line(name, <<d, s, t, u>> \o T!RoundingMode(m.rm))) = One(d) \cup One(s) \cup One(t) \cup One(u)
    BY ShownWithMode
  <2> QED BY <1>0, <2>1, <2>2
<1>9. ShownRegisters(T!ArithmeticLine(name, m)) = FReg(m.rd) \cup FReg(m.rs1) \cup FReg(m.rs2)
  <2>1. T!ArithmeticLine(name, m) = T!Line(name, <<d, s, t>> \o T!RoundingMode(m.rm))
    BY DEF T!ArithmeticLine
  <2> HIDE DEF d, s, t, u, g, h
  <2>2. ShownRegisters(T!Line(name, <<d, s, t>> \o T!RoundingMode(m.rm))) = One(d) \cup One(s) \cup One(t)
    BY ShownWithMode
  <2> QED BY <1>0, <2>1, <2>2
<1>10. ShownRegisters(T!SqrtLine(name, m)) = FReg(m.rd) \cup FReg(m.rs1)
  <2>1. T!SqrtLine(name, m) = T!Line(name, <<d, s>> \o T!RoundingMode(m.rm))
    BY DEF T!SqrtLine
  <2> HIDE DEF d, s, t, u, g, h
  <2>2. ShownRegisters(T!Line(name, <<d, s>> \o T!RoundingMode(m.rm))) = One(d) \cup One(s)
    BY ShownWithMode
  <2> QED BY <1>0, <2>1, <2>2
<1>11. ShownRegisters(T!ToFloatLine(name, m)) = FReg(m.rd) \cup FReg(m.rs1)
  <2>1. T!ToFloatLine(name, m) = T!Line(name, <<d, s>> \o T!RoundingMode(m.rm))
    BY DEF T!ToFloatLine
  <2> HIDE DEF d, s, t, u, g, h
  <2>2. ShownRegisters(T!Line(name, <<d, s>> \o T!RoundingMode(m.rm))) = One(d) \cup One(s)
    BY ShownWithMode
  <2> QED BY <1>0, <2>1, <2>2
<1>12. ShownRegisters(T!ToIntLine(name, m)) = XReg(m.rd) \cup FReg(m.rs1)
  <2>1. T!ToIntLine(name, m) = T!Line(name, <<g, s>> \o T!RoundingMode(m.rm))
    BY DEF T!ToIntLine
  <2> HIDE DEF d, s, t, u, g, h
  <2>2. ShownRegisters(T!Line(name, <<g, s>> \o T!RoundingMode(m.rm))) = One(g) \cup One(s)
    BY ShownWithMode
  <2> QED BY <1>0, <2>1, <2>2
<1>13. ShownRegisters(T!FromIntLine(name, m)) = FReg(m.rd) \cup XReg(m.rs1)
  <2> DEFINE mn == IF name = "fcvt_d_lu" /\ m.rm < 5 THEN "fcvt_d_wu" ELSE name
  <2>1. T!FromIntLine(name, m) = T!Line(mn, <<d, h>> \o T!RoundingMode(m.rm))
    BY DEF T!FromIntLine
  <2> HIDE DEF mn, d, s, t, u, g, h
  <2>2. ShownRegisters(T!Line(mn, <<d, h>> \o T!RoundingMode(m.rm))) = One(d) \cup One(h)
    BY ShownWithMode
  <2> QED BY <1>0, <2>1, <2>2
<1> QED
  BY <1>1, <1>2, <1>3, <1>4, <1>5, <1>6, <1>7, <1>8, <1>9, <1>10, <1>11, <1>12, <1>13

\* The line printed for an operation shows the registers of its name.
LEMMA TextNamed ==
  ASSUME NEW x, NEW s
  PROVE  NamedBy(s.name, T!Members(T!Parameters(x)[s.name], s.args), ShownRegisters(T!TextOf(x, s)))
<1> DEFINE name == s.name
           m == T!Members(T!Parameters(x)[s.name], s.args)
           text == T!TextOf(x, s)
           r == ShownRegisters(text)
<1>1. /\ name \in {"lui", "auipc", "jal", "jalr"} => text = T!UpperAndJumpLine(name, m)
      /\ name \in {"bne", "blt", "bge", "bltu", "bgeu"} => text = T!BranchLine(name, m)
      /\ name \in {"lb", "lh", "lw", "lbu", "lhu", "ld", "lwu"} => text = T!LoadLine(name, m)
      /\ name \in {"sb", "sh", "sw", "sd"} => text = T!StoreLine(name, m)
      /\ name \in {"addi", "slti", "sltiu", "xori", "ori", "andi", "addiw"} => text = T!AluImmLine(name, m)
      /\ name \in {"slli", "srli", "srai", "slliw", "srliw", "sraiw"} => text = T!ShiftImmLine(name, m)
      /\ name \in NamesAlu \cup NamesMulDiv => text = T!AddLine(name, m)
      /\ name \in {"csrrw", "csrrs", "csrrc"} => text = T!CsrLine(name, m)
      /\ name \in {"csrrwi", "csrrsi", "csrrci"} => text = T!CsrImmLine(name, m)
      /\ name \in {"fence", "fence_i", "ecall", "ebreak", "nop"} => text = T!FenceLine(name)
      /\ name \in {"uret", "sret", "mret", "wfi"} => text = T!PrivilegedLine(name, m)
      /\ name \in {"lr_w", "lr_d", "sc_w", "sc_d"} => text = T!ReservationLine(name, m)
      /\ name \in NamesAmo \ {"sc_w", "sc_d"} => text = T!AmoLine(name, m)
      /\ name \in {"flw", "fld", "fsw", "fsd"} \cup NamesFused \cup NamesFff \cup NamesFf \cup NamesXff \cup NamesXf \cup NamesFx
           => text = T!FloatLine(name, m)
  BY TextArms
<1> SUFFICES NamedBy(name, m, r)
  OBVIOUS
<1> HIDE DEF name, m, text
<1>2. name \in NamesD => r = XReg(m.rd)
  BY <1>1, LinesShow DEF NamesD
<1>3. name \in NamesDS => r = XReg(m.rd) \cup XReg(m.rs1)
  BY <1>1, LinesShow DEF NamesDS
<1>4. name \in NamesST => r = XReg(m.rs1) \cup XReg(m.rs2)
  BY <1>1, LinesShow DEF NamesST
<1>5. name \in NamesAlu \cup NamesMulDiv => r = XReg(m.rd) \cup XReg(m.rs1) \cup XReg(m.rs2)
  BY <1>1, LinesShow
<1>6. name \in NamesAmo => r = XReg(m.rd) \cup XReg(m.rs1) \cup XReg(m.rs2)
  BY <1>1, LinesShow DEF NamesAmo
<1>7. name \in NamesNone => r = {}
  BY <1>1, LinesShow DEF NamesNone
<1>8. /\ name \in {"flw", "fld"} => r = FReg(m.rd) \cup XReg(m.rs1)
      /\ name \in {"fsw", "fsd"} => r = FReg(m.rs2) \cup XReg(m.rs1)
  BY <1>1, FloatTextArms, FloatLinesShow
<1>9. name \in NamesFused => r = FReg(m.rd) \cup FReg(m.rs1) \cup FReg(m.rs2) \cup FReg(m.rs3)
  BY <1>1, FloatTextArms, FloatLinesShow
<1>10. name \in NamesFff => r = FReg(m.rd) \cup FReg(m.rs1) \cup FReg(m.rs2)
  BY <1>1, FloatTextArms, FloatLinesShow
<1>11. name \in NamesFf => r = FReg(m.rd) \cup FReg(m.rs1)
  BY <1>1, FloatTextArms, FloatLinesShow
<1>12. name \in NamesXff => r = XReg(m.rd) \cup FReg(m.rs1) \cup FReg(m.rs2)
  BY <1>1, FloatTextArms, FloatLinesShow
<1>13. name \in NamesXf => r = XReg(m.rd) \cup FReg(m.rs1)
  <2>1. name \in NamesXf => \/ name \in {"fclass_s", "fclass_d"}
                            \/ name \in T!MoveNames /\ name \in {"fmv_x_w", "fmv_x_d"}
                            \/ name \in T!FloatToInt
    BY DEF NamesXf, T!MoveNames, T!FloatToInt
  <2> QED BY <1>1, <2>1, FloatTextArms, FloatLinesShow
<1>14. name \in NamesFx => r = FReg(m.rd) \cup XReg(m.rs1)
  <2>1. name \in NamesFx => \/ name \in NamesFx \ T!MoveNames
                            \/ name \in T!MoveNames /\ name \notin {"fmv_x_w", "fmv_x_d"}
    BY DEF NamesFx, T!MoveNames
  <2> QED BY <1>1, <2>1, FloatTextArms, FloatLinesShow
<1> HIDE DEF r
<1> QED
  BY <1>2, <1>3, <1>4, <1>5, <1>6, <1>7, <1>8, <1>9, <1>10, <1>11, <1>12, <1>13, <1>14 DEF NamedBy

-----------------------------------------------------------------------------
(* The registers of the handlers, by what they write. *)

LEMMA ConcatOne ==
  /\ \A a, b : <<a>> \o <<b>> = <<a, b>>
  /\ \A a, b, c : <<a, b>> \o <<c>> = <<a, b, c>>
<1>1. ASSUME NEW a, NEW b PROVE <<a>> \o <<b>> = <<a, b>>
  <2>1. <<a>> \in Seq({a}) /\ Len(<<a>>) = 1
    OBVIOUS
  <2> DEFINE t == <<a>> \o <<b>>
  <2>2. t = [i \in 1 .. 1 + 1 |-> IF i <= 1 THEN <<a>>[i] ELSE b]
    BY <2>1, OneMore
  <2>3. 1 .. 1 + 1 = 1 .. 2
    OBVIOUS
  <2> HIDE DEF t
  <2>4. t = [i \in 1 .. 2 |-> IF i <= 1 THEN a ELSE b]
    BY <2>2, <2>3
  <2>5. <<a, b>> = [i \in 1 .. 2 |-> IF i <= 1 THEN a ELSE b]
    OBVIOUS
  <2> QED BY <2>4, <2>5 DEF t
<1>2. ASSUME NEW a, NEW b, NEW c PROVE <<a, b>> \o <<c>> = <<a, b, c>>
  <2>1. <<a, b>> \in Seq({a, b}) /\ Len(<<a, b>>) = 2
    OBVIOUS
  <2> DEFINE t == <<a, b>> \o <<c>>
  <2>2. t = [i \in 1 .. 2 + 1 |-> IF i <= 2 THEN <<a, b>>[i] ELSE c]
    BY <2>1, OneMore
  <2> HIDE DEF t
  <2>4. t = [i \in 1 .. 3 |-> IF i <= 1 THEN a ELSE IF i = 2 THEN b ELSE c]
    BY <2>2
  <2>5. <<a, b, c>> = [i \in 1 .. 3 |-> IF i <= 1 THEN a ELSE IF i = 2 THEN b ELSE c]
    OBVIOUS
  <2> QED BY <2>4, <2>5 DEF t
<1> QED
  BY <1>1, <1>2

LEMMA WriteX_XX == \A n, f, a, b : Registers(E!WriteX(n, E!Value(f, <<E!X(a), E!X(b)>>))) = XReg(n) \cup XReg(a) \cup XReg(b)
<1> SUFFICES ASSUME NEW n, NEW f, NEW a, NEW b
             PROVE  Registers(E!WriteX(n, E!Value(f, <<E!X(a), E!X(b)>>))) = XReg(n) \cup XReg(a) \cup XReg(b)
  OBVIOUS
<1> DEFINE p == E!X(a)
           q == E!X(b)
<1>1. Reg(p) = XReg(a) /\ Reg(q) = XReg(b)
  BY RegsOfOperands
<1> HIDE DEF p, q
<1>2. ValueRegs(E!Value(f, <<p, q>>)) = Reg(p) \cup Reg(q)
  BY RegsOfValues
<1> DEFINE value == E!Value(f, <<p, q>>)
<1>3. Registers(E!WriteX(n, value)) = XReg(n) \cup ValueRegs(value)
  BY RegsOfEffects
<1> HIDE DEF value
<1>4. Registers(E!WriteX(n, value)) = XReg(n) \cup XReg(a) \cup XReg(b)
  BY <1>1, <1>2, <1>3, NoUnion DEF value
<1> QED
  BY <1>4 DEF p, q, value

LEMMA WriteX_XI == \A n, f, a, b : Registers(E!WriteX(n, E!Value(f, <<E!X(a), E!Imm(b)>>))) = XReg(n) \cup XReg(a)
<1> SUFFICES ASSUME NEW n, NEW f, NEW a, NEW b
             PROVE  Registers(E!WriteX(n, E!Value(f, <<E!X(a), E!Imm(b)>>))) = XReg(n) \cup XReg(a)
  OBVIOUS
<1> DEFINE p == E!X(a)
           q == E!Imm(b)
<1>1. Reg(p) = XReg(a) /\ Reg(q) = {}
  BY RegsOfOperands
<1> HIDE DEF p, q
<1>2. ValueRegs(E!Value(f, <<p, q>>)) = Reg(p) \cup Reg(q)
  BY RegsOfValues
<1> DEFINE value == E!Value(f, <<p, q>>)
<1>3. Registers(E!WriteX(n, value)) = XReg(n) \cup ValueRegs(value)
  BY RegsOfEffects
<1> HIDE DEF value
<1>4. Registers(E!WriteX(n, value)) = XReg(n) \cup XReg(a)
  BY <1>1, <1>2, <1>3, NoUnion DEF value
<1> QED
  BY <1>4 DEF p, q, value

LEMMA WriteX_XXI == \A n, f, a, b, c : Registers(E!WriteX(n, E!Value(f, <<E!X(a), E!X(b), E!Imm(c)>>))) = XReg(n) \cup XReg(a) \cup XReg(b)
<1> SUFFICES ASSUME NEW n, NEW f, NEW a, NEW b, NEW c
             PROVE  Registers(E!WriteX(n, E!Value(f, <<E!X(a), E!X(b), E!Imm(c)>>))) = XReg(n) \cup XReg(a) \cup XReg(b)
  OBVIOUS
<1> DEFINE p == E!X(a)
           q == E!X(b)
           t == E!Imm(c)
<1>1. Reg(p) = XReg(a) /\ Reg(q) = XReg(b) /\ Reg(t) = {}
  BY RegsOfOperands
<1> HIDE DEF p, q, t
<1>2. ValueRegs(E!Value(f, <<p, q, t>>)) = Reg(p) \cup Reg(q) \cup Reg(t)
  BY RegsOfValues
<1> DEFINE value == E!Value(f, <<p, q, t>>)
<1>3. Registers(E!WriteX(n, value)) = XReg(n) \cup ValueRegs(value)
  BY RegsOfEffects
<1> HIDE DEF value
<1>4. Registers(E!WriteX(n, value)) = XReg(n) \cup XReg(a) \cup XReg(b)
  BY <1>1, <1>2, <1>3, NoUnion DEF value
<1> QED
  BY <1>4 DEF p, q, t, value

LEMMA WriteX_F == \A n, f, a : Registers(E!WriteX(n, E!Value(f, <<E!F(a)>>))) = XReg(n) \cup FReg(a)
<1> SUFFICES ASSUME NEW n, NEW f, NEW a
             PROVE  Registers(E!WriteX(n, E!Value(f, <<E!F(a)>>))) = XReg(n) \cup FReg(a)
  OBVIOUS
<1> DEFINE p == E!F(a)
<1>1. Reg(p) = FReg(a)
  BY RegsOfOperands
<1> HIDE DEF p
<1>2. ValueRegs(E!Value(f, <<p>>)) = Reg(p)
  BY RegsOfValues
<1> DEFINE value == E!Value(f, <<p>>)
<1>3. Registers(E!WriteX(n, value)) = XReg(n) \cup ValueRegs(value)
  BY RegsOfEffects
<1> HIDE DEF value
<1>4. Registers(E!WriteX(n, value)) = XReg(n) \cup FReg(a)
  BY <1>1, <1>2, <1>3, NoUnion DEF value
<1> QED
  BY <1>4 DEF p, value

LEMMA WriteX_FF == \A n, f, a, b : Registers(E!WriteX(n, E!Value(f, <<E!F(a), E!F(b)>>))) = XReg(n) \cup FReg(a) \cup FReg(b)
<1> SUFFICES ASSUME NEW n, NEW f, NEW a, NEW b
             PROVE  Registers(E!WriteX(n, E!Value(f, <<E!F(a), E!F(b)>>))) = XReg(n) \cup FReg(a) \cup FReg(b)
  OBVIOUS
<1> DEFINE p == E!F(a)
           q == E!F(b)
<1>1. Reg(p) = FReg(a) /\ Reg(q) = FReg(b)
  BY RegsOfOperands
<1> HIDE DEF p, q
<1>2. ValueRegs(E!Value(f, <<p, q>>)) = Reg(p) \cup Reg(q)
  BY RegsOfValues
<1> DEFINE value == E!Value(f, <<p, q>>)
<1>3. Registers(E!WriteX(n, value)) = XReg(n) \cup ValueRegs(value)
  BY RegsOfEffects
<1> HIDE DEF value
<1>4. Registers(E!WriteX(n, value)) = XReg(n) \cup FReg(a) \cup FReg(b)
  BY <1>1, <1>2, <1>3, NoUnion DEF value
<1> QED
  BY <1>4 DEF p, q, value

LEMMA WriteX_FR == \A n, f, a, b : Registers(E!WriteX(n, E!Value(f, <<E!F(a), E!Rm(b)>>))) = XReg(n) \cup FReg(a)
<1> SUFFICES ASSUME NEW n, NEW f, NEW a, NEW b
             PROVE  Registers(E!WriteX(n, E!Value(f, <<E!F(a), E!Rm(b)>>))) = XReg(n) \cup FReg(a)
  OBVIOUS
<1> DEFINE p == E!F(a)
           q == E!Rm(b)
<1>1. Reg(p) = FReg(a) /\ Reg(q) = {}
  BY RegsOfOperands
<1> HIDE DEF p, q
<1>2. ValueRegs(E!Value(f, <<p, q>>)) = Reg(p) \cup Reg(q)
  BY RegsOfValues
<1> DEFINE value == E!Value(f, <<p, q>>)
<1>3. Registers(E!WriteX(n, value)) = XReg(n) \cup ValueRegs(value)
  BY RegsOfEffects
<1> HIDE DEF value
<1>4. Registers(E!WriteX(n, value)) = XReg(n) \cup FReg(a)
  BY <1>1, <1>2, <1>3, NoUnion DEF value
<1> QED
  BY <1>4 DEF p, q, value

LEMMA WriteX_PI == \A n, f, a, b : Registers(E!WriteX(n, E!Value(f, <<E!Pc, E!Imm(b)>>))) = XReg(n)
<1> SUFFICES ASSUME NEW n, NEW f, NEW a, NEW b
             PROVE  Registers(E!WriteX(n, E!Value(f, <<E!Pc, E!Imm(b)>>))) = XReg(n)
  OBVIOUS
<1> DEFINE p == E!Pc
           q == E!Imm(b)
<1>1. Reg(p) = {} /\ Reg(q) = {}
  BY RegsOfOperands
<1> HIDE DEF p, q
<1>2. ValueRegs(E!Value(f, <<p, q>>)) = Reg(p) \cup Reg(q)
  BY RegsOfValues
<1> DEFINE value == E!Value(f, <<p, q>>)
<1>3. Registers(E!WriteX(n, value)) = XReg(n) \cup ValueRegs(value)
  BY RegsOfEffects
<1> HIDE DEF value
<1>4. Registers(E!WriteX(n, value)) = XReg(n)
  BY <1>1, <1>2, <1>3, NoUnion DEF value
<1> QED
  BY <1>4 DEF p, q, value

LEMMA WriteF_FFFR ==
  \A n, f, a, b, c, d :
    Registers(E!WriteF(n, E!Value(f, <<E!F(a), E!F(b), E!F(c), E!Rm(d)>>))) = FReg(n) \cup FReg(a) \cup FReg(b) \cup FReg(c)
<1> SUFFICES ASSUME NEW n, NEW f, NEW a, NEW b, NEW c, NEW d
             PROVE  Registers(E!WriteF(n, E!Value(f, <<E!F(a), E!F(b), E!F(c), E!Rm(d)>>))) = FReg(n) \cup FReg(a) \cup FReg(b) \cup FReg(c)
  OBVIOUS
<1> DEFINE p == E!F(a)
           q == E!F(b)
           t == E!F(c)
           u == E!Rm(d)
<1>1. Reg(p) = FReg(a) /\ Reg(q) = FReg(b) /\ Reg(t) = FReg(c) /\ Reg(u) = {}
  BY RegsOfOperands
<1> HIDE DEF p, q, t, u
<1>2. ValueRegs(E!Value(f, <<p, q, t, u>>)) = Reg(p) \cup Reg(q) \cup Reg(t) \cup Reg(u)
  BY RegsOfValues
<1> DEFINE value == E!Value(f, <<p, q, t, u>>)
<1>3. Registers(E!WriteF(n, value)) = FReg(n) \cup ValueRegs(value)
  BY RegsOfEffects
<1> HIDE DEF value
<1>4. Registers(E!WriteF(n, value)) = FReg(n) \cup FReg(a) \cup FReg(b) \cup FReg(c)
  BY <1>1, <1>2, <1>3, NoUnion DEF value
<1> QED
  BY <1>4 DEF p, q, t, u, value

LEMMA WriteF_XR == \A n, f, a, b : Registers(E!WriteF(n, E!Value(f, <<E!X(a), E!Rm(b)>>))) = FReg(n) \cup XReg(a)
<1> SUFFICES ASSUME NEW n, NEW f, NEW a, NEW b
             PROVE  Registers(E!WriteF(n, E!Value(f, <<E!X(a), E!Rm(b)>>))) = FReg(n) \cup XReg(a)
  OBVIOUS
<1> DEFINE p == E!X(a)
           q == E!Rm(b)
<1>1. Reg(p) = XReg(a) /\ Reg(q) = {}
  BY RegsOfOperands
<1> HIDE DEF p, q
<1>2. ValueRegs(E!Value(f, <<p, q>>)) = Reg(p) \cup Reg(q)
  BY RegsOfValues
<1> DEFINE value == E!Value(f, <<p, q>>)
<1>3. Registers(E!WriteF(n, value)) = FReg(n) \cup ValueRegs(value)
  BY RegsOfEffects
<1> HIDE DEF value
<1>4. Registers(E!WriteF(n, value)) = FReg(n) \cup XReg(a)
  BY <1>1, <1>2, <1>3, NoUnion DEF value
<1> QED
  BY <1>4 DEF p, q, value

LEMMA WriteF_FR == \A n, f, a, b : Registers(E!WriteF(n, E!Value(f, <<E!F(a), E!Rm(b)>>))) = FReg(n) \cup FReg(a)
<1> SUFFICES ASSUME NEW n, NEW f, NEW a, NEW b
             PROVE  Registers(E!WriteF(n, E!Value(f, <<E!F(a), E!Rm(b)>>))) = FReg(n) \cup FReg(a)
  OBVIOUS
<1> DEFINE p == E!F(a)
           q == E!Rm(b)
<1>1. Reg(p) = FReg(a) /\ Reg(q) = {}
  BY RegsOfOperands
<1> HIDE DEF p, q
<1>2. ValueRegs(E!Value(f, <<p, q>>)) = Reg(p) \cup Reg(q)
  BY RegsOfValues
<1> DEFINE value == E!Value(f, <<p, q>>)
<1>3. Registers(E!WriteF(n, value)) = FReg(n) \cup ValueRegs(value)
  BY RegsOfEffects
<1> HIDE DEF value
<1>4. Registers(E!WriteF(n, value)) = FReg(n) \cup FReg(a)
  BY <1>1, <1>2, <1>3, NoUnion DEF value
<1> QED
  BY <1>4 DEF p, q, value

LEMMA WriteF_FFR == \A n, f, a, b, c : Registers(E!WriteF(n, E!Value(f, <<E!F(a), E!F(b), E!Rm(c)>>))) = FReg(n) \cup FReg(a) \cup FReg(b)
<1> SUFFICES ASSUME NEW n, NEW f, NEW a, NEW b, NEW c
             PROVE  Registers(E!WriteF(n, E!Value(f, <<E!F(a), E!F(b), E!Rm(c)>>))) = FReg(n) \cup FReg(a) \cup FReg(b)
  OBVIOUS
<1> DEFINE p == E!F(a)
           q == E!F(b)
           t == E!Rm(c)
<1>1. Reg(p) = FReg(a) /\ Reg(q) = FReg(b) /\ Reg(t) = {}
  BY RegsOfOperands
<1> HIDE DEF p, q, t
<1>2. ValueRegs(E!Value(f, <<p, q, t>>)) = Reg(p) \cup Reg(q) \cup Reg(t)
  BY RegsOfValues
<1> DEFINE value == E!Value(f, <<p, q, t>>)
<1>3. Registers(E!WriteF(n, value)) = FReg(n) \cup ValueRegs(value)
  BY RegsOfEffects
<1> HIDE DEF value
<1>4. Registers(E!WriteF(n, value)) = FReg(n) \cup FReg(a) \cup FReg(b)
  BY <1>1, <1>2, <1>3, NoUnion DEF value
<1> QED
  BY <1>4 DEF p, q, t, value

LEMMA WriteF_FF == \A n, f, a, b : Registers(E!WriteF(n, E!Value(f, <<E!F(a), E!F(b)>>))) = FReg(n) \cup FReg(a) \cup FReg(b)
<1> SUFFICES ASSUME NEW n, NEW f, NEW a, NEW b
             PROVE  Registers(E!WriteF(n, E!Value(f, <<E!F(a), E!F(b)>>))) = FReg(n) \cup FReg(a) \cup FReg(b)
  OBVIOUS
<1> DEFINE p == E!F(a)
           q == E!F(b)
<1>1. Reg(p) = FReg(a) /\ Reg(q) = FReg(b)
  BY RegsOfOperands
<1> HIDE DEF p, q
<1>2. ValueRegs(E!Value(f, <<p, q>>)) = Reg(p) \cup Reg(q)
  BY RegsOfValues
<1> DEFINE value == E!Value(f, <<p, q>>)
<1>3. Registers(E!WriteF(n, value)) = FReg(n) \cup ValueRegs(value)
  BY RegsOfEffects
<1> HIDE DEF value
<1>4. Registers(E!WriteF(n, value)) = FReg(n) \cup FReg(a) \cup FReg(b)
  BY <1>1, <1>2, <1>3, NoUnion DEF value
<1> QED
  BY <1>4 DEF p, q, value

LEMMA WriteF_F == \A n, f, a : Registers(E!WriteF(n, E!Value(f, <<E!F(a)>>))) = FReg(n) \cup FReg(a)
<1> SUFFICES ASSUME NEW n, NEW f, NEW a
             PROVE  Registers(E!WriteF(n, E!Value(f, <<E!F(a)>>))) = FReg(n) \cup FReg(a)
  OBVIOUS
<1> DEFINE p == E!F(a)
<1>1. Reg(p) = FReg(a)
  BY RegsOfOperands
<1> HIDE DEF p
<1>2. ValueRegs(E!Value(f, <<p>>)) = Reg(p)
  BY RegsOfValues
<1> DEFINE value == E!Value(f, <<p>>)
<1>3. Registers(E!WriteF(n, value)) = FReg(n) \cup ValueRegs(value)
  BY RegsOfEffects
<1> HIDE DEF value
<1>4. Registers(E!WriteF(n, value)) = FReg(n) \cup FReg(a)
  BY <1>1, <1>2, <1>3, NoUnion DEF value
<1> QED
  BY <1>4 DEF p, value

LEMMA WriteX_AddXX == \A n, a, b : Registers(E!WriteX(n, E!Add(E!X(a), E!X(b)))) = XReg(n) \cup XReg(a) \cup XReg(b)
<1> SUFFICES ASSUME NEW n, NEW a, NEW b
             PROVE  Registers(E!WriteX(n, E!Add(E!X(a), E!X(b)))) = XReg(n) \cup XReg(a) \cup XReg(b)
  OBVIOUS
<1> DEFINE value == E!Add(E!X(a), E!X(b))
<1>1. ValueRegs(value) = Reg(E!X(a)) \cup Reg(E!X(b))
  BY RegsOfValues
<1>2. Reg(E!X(a)) = XReg(a) /\ Reg(E!X(b)) = XReg(b)
  BY RegsOfOperands
<1>3. Registers(E!WriteX(n, value)) = XReg(n) \cup ValueRegs(value)
  BY RegsOfEffects
<1> HIDE DEF value
<1>4. Registers(E!WriteX(n, value)) = XReg(n) \cup XReg(a) \cup XReg(b)
  BY <1>1, <1>2, <1>3, NoUnion
<1> QED
  BY <1>4 DEF value

LEMMA WriteX_AddXI == \A n, a, b : Registers(E!WriteX(n, E!Add(E!X(a), E!Imm(b)))) = XReg(n) \cup XReg(a)
<1> SUFFICES ASSUME NEW n, NEW a, NEW b
             PROVE  Registers(E!WriteX(n, E!Add(E!X(a), E!Imm(b)))) = XReg(n) \cup XReg(a)
  OBVIOUS
<1> DEFINE value == E!Add(E!X(a), E!Imm(b))
<1>1. ValueRegs(value) = Reg(E!X(a)) \cup Reg(E!Imm(b))
  BY RegsOfValues
<1>2. Reg(E!X(a)) = XReg(a) /\ Reg(E!Imm(b)) = {}
  BY RegsOfOperands
<1>3. Registers(E!WriteX(n, value)) = XReg(n) \cup ValueRegs(value)
  BY RegsOfEffects
<1> HIDE DEF value
<1>4. Registers(E!WriteX(n, value)) = XReg(n) \cup XReg(a)
  BY <1>1, <1>2, <1>3, NoUnion
<1> QED
  BY <1>4 DEF value

LEMMA WriteX_CopyI == \A n, a : Registers(E!WriteX(n, E!Copy(E!Imm(a)))) = XReg(n)
<1> SUFFICES ASSUME NEW n, NEW a
             PROVE  Registers(E!WriteX(n, E!Copy(E!Imm(a)))) = XReg(n)
  OBVIOUS
<1> DEFINE value == E!Copy(E!Imm(a))
<1>1. ValueRegs(value) = Reg(E!Imm(a))
  BY RegsOfValues
<1>2. Reg(E!Imm(a)) = {}
  BY RegsOfOperands
<1>3. Registers(E!WriteX(n, value)) = XReg(n) \cup ValueRegs(value)
  BY RegsOfEffects
<1> HIDE DEF value
<1>4. Registers(E!WriteX(n, value)) = XReg(n)
  BY <1>1, <1>2, <1>3, NoUnion
<1> QED
  BY <1>4 DEF value

LEMMA WriteF_CopyX == \A n, a : Registers(E!WriteF(n, E!Copy(E!X(a)))) = FReg(n) \cup XReg(a)
<1> SUFFICES ASSUME NEW n, NEW a
             PROVE  Registers(E!WriteF(n, E!Copy(E!X(a)))) = FReg(n) \cup XReg(a)
  OBVIOUS
<1> DEFINE value == E!Copy(E!X(a))
<1>1. ValueRegs(value) = Reg(E!X(a))
  BY RegsOfValues
<1>2. Reg(E!X(a)) = XReg(a)
  BY RegsOfOperands
<1>3. Registers(E!WriteF(n, value)) = FReg(n) \cup ValueRegs(value)
  BY RegsOfEffects
<1> HIDE DEF value
<1>4. Registers(E!WriteF(n, value)) = FReg(n) \cup XReg(a)
  BY <1>1, <1>2, <1>3, NoUnion
<1> QED
  BY <1>4 DEF value

\* The registers of the handlers of integer instructions.
LEMMA IntegerRegs ==
  ASSUME NEW o, NEW name
  PROVE  LET r(e) == Registers(e) IN
         /\ name \in {"lui", "auipc", "jal"} => r(E!RV32I_UpperOrJump(name, o)) = XReg(o.rd)
         /\ name = "jalr" => r(E!RV32I_UpperOrJump(name, o)) = XReg(o.rd) \cup XReg(o.rs1)
         /\ r(E!RV32I_Branch(name, o)) = XReg(o.rs1) \cup XReg(o.rs2)
         /\ r(E!RV64I_Load(name, o)) = XReg(o.rd) \cup XReg(o.rs1)
         /\ r(E!RV64I_Store(name, o)) = XReg(o.rs1) \cup XReg(o.rs2)
         /\ r(E!RV32I_Alu(name, o)) = XReg(o.rd) \cup XReg(o.rs1) \cup XReg(o.rs2)
         /\ r(E!RV32I_Shift(name, o)) = XReg(o.rd) \cup XReg(o.rs1) \cup XReg(o.rs2)
         /\ r(E!RV64I_Shift(name, o)) = XReg(o.rd) \cup XReg(o.rs1) \cup XReg(o.rs2)
         /\ r(E!RV32I_AluImm(name, o)) = XReg(o.rd) \cup XReg(o.rs1)
         /\ r(E!RV64I_AluImm(name, o)) = XReg(o.rd) \cup XReg(o.rs1)
         /\ r(E!RV32I_ShiftImm(name, o)) = XReg(o.rd) \cup XReg(o.rs1)
         /\ r(E!RV64I_ShiftImm(name, o)) = XReg(o.rd) \cup XReg(o.rs1)
         /\ r(E!Priv(name)) = {}
<1>0. \A e : Registers(e) = WriteRegs(e.writes) \cup AccessRegs(e.access) \cup JumpRegs(e.jump)
                                \cup {r \in e.reserves : r.kind \in {"x", "f"}}
  BY RegistersByPart
<1>1. ASSUME NEW base, NEW offset
      PROVE  Registers([E!WriteX(o.rd, E!Value("link", <<E!Imm(4)>>)) EXCEPT !.jump = {E!Target(base, offset, E!Always)}])
               = XReg(o.rd) \cup Reg(base)
  <2> DEFINE four == E!Imm(4)
             v == E!Value("link", <<four>>)
             w == [to |-> E!X(o.rd), value |-> v]
             j == E!Target(base, offset, E!Always)
             e == [E!WriteX(o.rd, v) EXCEPT !.jump = {j}]
  <2>1. Reg(four) = {}
    BY RegsOfOperands
  <2> HIDE DEF four
  <2>2. ValueRegs(v) = {}
    BY <2>1, RegsOfValues
  <2> HIDE DEF v
  <2>3. e.writes = {w} /\ e.jump = {j} /\ e.access = {} /\ e.reserves = {} /\ w.to = E!X(o.rd) /\ w.value = v
    BY DEF E!WriteX, E!Idle
  <2>4. j.base = base /\ j.when = E!Always
    BY DEF E!Target
  <2> HIDE DEF w, j, e
  <2>5. WriteRegs({w}) = XReg(o.rd)
    <3>1. WriteRegs({w}) = Reg(w.to) \cup ValueRegs(w.value)
      BY RegsOfOne
    <3>2. Reg(w.to) = XReg(o.rd)
      BY <2>3, RegsOfOperands
    <3> QED BY <2>2, <2>3, <3>1, <3>2, NoUnion
  <2>6. JumpRegs({j}) = Reg(base)
    <3>1. JumpRegs({j}) = Reg(j.base) \cup ValueRegs(j.when)
      BY RegsOfOne
    <3>2. ValueRegs(j.when) = {}
      BY <2>4, RegsOfValues
    <3> QED BY <2>4, <3>1, <3>2, NoUnion
  <2>7. AccessRegs({}) = {}
    BY RegsOfOne
  <2>8. Registers(e) = WriteRegs({w}) \cup AccessRegs({}) \cup JumpRegs({j}) \cup {r \in {} : r.kind \in {"x", "f"}}
    BY <1>0, <2>3
  <2>9. Registers(e) = XReg(o.rd) \cup Reg(base)
    BY <2>5, <2>6, <2>7, <2>8
  <2> QED BY <2>9 DEF e, j, v, four
<1>2. Reg(E!Pc) = {} /\ Reg(E!X(o.rs1)) = XReg(o.rs1) /\ Reg(E!X(o.rs2)) = XReg(o.rs2)
  BY RegsOfOperands
<1>3. name = "lui" => Registers(E!RV32I_UpperOrJump(name, o)) = XReg(o.rd)
  BY WriteX_CopyI DEF E!RV32I_UpperOrJump
<1>4. name = "auipc" => Registers(E!RV32I_UpperOrJump(name, o)) = XReg(o.rd)
  BY WriteX_PI DEF E!RV32I_UpperOrJump
<1>5. name = "jal" => Registers(E!RV32I_UpperOrJump(name, o)) = XReg(o.rd)
  <2>1. Registers([E!WriteX(o.rd, E!Value("link", <<E!Imm(4)>>)) EXCEPT !.jump = {E!Target(E!Pc, o.imm, E!Always)}])
          = XReg(o.rd) \cup Reg(E!Pc)
    BY <1>1
  <2> QED BY <1>2, <2>1, NoUnion DEF E!RV32I_UpperOrJump
<1>6. name = "jalr" => Registers(E!RV32I_UpperOrJump(name, o)) = XReg(o.rd) \cup XReg(o.rs1)
  <2>1. Registers([E!WriteX(o.rd, E!Value("link", <<E!Imm(4)>>)) EXCEPT !.jump = {E!Target(E!X(o.rs1), o.imm, E!Always)}])
          = XReg(o.rd) \cup Reg(E!X(o.rs1))
    BY <1>1
  <2> QED BY <1>2, <2>1 DEF E!RV32I_UpperOrJump
<1>7. Registers(E!RV32I_Branch(name, o)) = XReg(o.rs1) \cup XReg(o.rs2)
  <2> DEFINE p == E!X(o.rs1)
             q == E!X(o.rs2)
             test == E!Tests[name]
             v == E!Value(test, <<p, q>>)
             j == E!Target(E!Pc, o.imm, v)
             cancel == IF o.imm < 0 THEN "jumping" ELSE "never"
             e == [E!Idle EXCEPT !.jump = {j}, !.cancel = cancel]
  <2>0. E!RV32I_Branch(name, o) = e
    BY DEF E!RV32I_Branch
  <2>1. e.writes = {} /\ e.jump = {j} /\ e.access = {} /\ e.reserves = {}
    BY DEF E!Idle
  <2>2. j.base = E!Pc /\ j.when = v
    BY DEF E!Target
  <2>3. Reg(p) = XReg(o.rs1) /\ Reg(q) = XReg(o.rs2)
    BY <1>2
  <2> HIDE DEF j, e, p, q, test
  <2>4. ValueRegs(v) = Reg(p) \cup Reg(q)
    BY RegsOfValues
  <2> HIDE DEF v
  <2>5. JumpRegs({j}) = XReg(o.rs1) \cup XReg(o.rs2)
    BY <1>2, <2>2, <2>3, <2>4, RegsOfOne, NoUnion
  <2>6. Registers(e) = WriteRegs({}) \cup AccessRegs({}) \cup JumpRegs({j}) \cup {r \in {} : r.kind \in {"x", "f"}}
    BY <1>0, <2>1
  <2> QED BY <2>0, <2>5, <2>6, RegsOfOne
<1>8. Registers(E!RV64I_Load(name, o)) = XReg(o.rd) \cup XReg(o.rs1)
  <2> DEFINE v == E!Loaded(E!LoadSizes[name], E!Extension(name))
             size == E!LoadSizes[name]
             base == E!X(o.rs1)
  <2>1. ValueRegs(v) = {}
    BY RegsOfValues
  <2> HIDE DEF v, size, base
  <2>2. Registers(E!Loading(E!WriteX(o.rd, v), size, base, o.imm)) = XReg(o.rd) \cup ValueRegs(v) \cup Reg(base)
    BY RegsOfEffects
  <2>3. Registers(E!Loading(E!WriteX(o.rd, v), size, base, o.imm)) = XReg(o.rd) \cup XReg(o.rs1)
    BY <1>2, <2>1, <2>2, NoUnion DEF base
  <2> QED BY <2>3 DEF E!RV64I_Load, v, size, base
<1>9. Registers(E!RV64I_Store(name, o)) = XReg(o.rs1) \cup XReg(o.rs2)
  BY <1>2, RegsOfEffects DEF E!RV64I_Store
<1>10. Registers(E!RV32I_Alu(name, o)) = XReg(o.rd) \cup XReg(o.rs1) \cup XReg(o.rs2)
  BY WriteX_XX, WriteX_AddXX DEF E!RV32I_Alu
<1>11. /\ Registers(E!RV32I_Shift(name, o)) = XReg(o.rd) \cup XReg(o.rs1) \cup XReg(o.rs2)
       /\ Registers(E!RV64I_Shift(name, o)) = XReg(o.rd) \cup XReg(o.rs1) \cup XReg(o.rs2)
  BY WriteX_XX, WriteX_XXI DEF E!RV32I_Shift, E!RV64I_Shift
<1>12. Registers(E!RV32I_AluImm(name, o)) = XReg(o.rd) \cup XReg(o.rs1)
  <2> DEFINE f == [slti |-> "slt", sltiu |-> "sltu", xori |-> "xor", ori |-> "or", andi |-> "and"][name]
  <2>1. E!RV32I_AluImm(name, o) = E!WriteX(o.rd, IF name = "addi" THEN E!Add(E!X(o.rs1), E!Imm(o.imm))
                                                 ELSE E!Value(f, <<E!X(o.rs1), E!Imm(o.imm)>>))
    BY DEF E!RV32I_AluImm
  <2> HIDE DEF f
  <2> QED BY <2>1, WriteX_XI, WriteX_AddXI
<1>13. Registers(E!RV64I_AluImm(name, o)) = XReg(o.rd) \cup XReg(o.rs1)
  <2> DEFINE f == [addiw |-> "addw", slti |-> "slt", sltiu |-> "sltu", xori |-> "xor", ori |-> "or", andi |-> "and"][name]
  <2>1. E!RV64I_AluImm(name, o) = E!WriteX(o.rd, IF name = "addi" THEN E!Add(E!X(o.rs1), E!Imm(o.imm))
                                                 ELSE E!Value(f, <<E!X(o.rs1), E!Imm(o.imm)>>))
    BY DEF E!RV64I_AluImm
  <2> HIDE DEF f
  <2> QED BY <2>1, WriteX_XI, WriteX_AddXI
<1>14. /\ Registers(E!RV32I_ShiftImm(name, o)) = XReg(o.rd) \cup XReg(o.rs1)
       /\ Registers(E!RV64I_ShiftImm(name, o)) = XReg(o.rd) \cup XReg(o.rs1)
  BY WriteX_XI DEF E!RV32I_ShiftImm, E!RV64I_ShiftImm
<1>15. Registers(E!Priv(name)) = {}
  <2> DEFINE back == IF name \in {"mret", "sret", "uret"} THEN name ELSE "no"
             e == [E!Idle EXCEPT !.returns = back]
  <2>1. e.writes = {} /\ e.jump = {} /\ e.access = {} /\ e.reserves = {}
    BY DEF E!Idle
  <2>2. E!Priv(name) = E!Cancelled(e)
    BY DEF E!Priv
  <2> HIDE DEF e
  <2>3. Registers(e) = WriteRegs({}) \cup AccessRegs({}) \cup JumpRegs({}) \cup {r \in {} : r.kind \in {"x", "f"}}
    BY <1>0, <2>1
  <2> QED BY <2>2, <2>3, RegsOfOne, RegsOfEffects
<1> QED
  BY <1>3, <1>4, <1>5, <1>6, <1>7, <1>8, <1>9, <1>10, <1>11, <1>12, <1>13, <1>14, <1>15

LEMMA CsrRegs ==
  ASSUME NEW o, NEW name \in E!Csrs \cup E!CsrImms, NEW source
  PROVE  Registers(E!Csr(name, o, source)) = XReg(o.rd) \cup Reg(source)
<1> DEFINE csr == E!CsrAt(o.csr)
           v == E!CsrValue(name, csr, source)
           copy == E!Copy(csr)
           w == [to |-> csr, value |-> v]
           d == [to |-> E!X(o.rd), value |-> copy]
           e == E!Csr(name, o, source)
<1>1. Reg(csr) = {} /\ Reg(E!X(o.rd)) = XReg(o.rd)
  BY RegsOfOperands
<1>2. e.writes = {w} \cup {d} /\ e.jump = {} /\ e.access = {} /\ e.reserves = {}
  BY DEF E!Csr, E!WriteX, E!Idle
<1>3. w.to = csr /\ w.value = v /\ d.to = E!X(o.rd) /\ d.value = copy
  OBVIOUS
<1> HIDE DEF csr
<1>4. ValueRegs(v) = Reg(source)
  <2>1. ValueRegs(E!Copy(source)) = Reg(source)
    BY RegsOfValues
  <2>2. \A f : ValueRegs(E!Value(f, <<csr, source>>)) = Reg(csr) \cup Reg(source)
    BY RegsOfValues
  <2> QED BY <1>1, <2>1, <2>2, NoUnion DEF E!CsrValue, E!Csrs, E!CsrImms
<1>5. ValueRegs(copy) = {}
  BY <1>1, RegsOfValues
<1> HIDE DEF v, copy, w, d, e
<1>6. WriteRegs({w} \cup {d}) = Reg(csr) \cup ValueRegs(v) \cup Reg(E!X(o.rd)) \cup ValueRegs(copy)
  BY <1>3, RegsOfOne
<1>7. WriteRegs({w} \cup {d}) = XReg(o.rd) \cup Reg(source)
  BY <1>1, <1>4, <1>5, <1>6, NoUnion, Commutes
<1>8. Registers(e) = WriteRegs({w} \cup {d}) \cup AccessRegs({}) \cup JumpRegs({}) \cup {r \in {} : r.kind \in {"x", "f"}}
  BY <1>2, RegistersByPart
<1> QED
  BY <1>7, <1>8, RegsOfOne DEF e

\* No name has two kinds.
LEMMA NamedByKind ==
  ASSUME NEW name, NEW o, NEW r
  PROVE  /\ name \in {"beq", "sfence_vma"} => NamedBy(name, o, r)
         /\ name \in NamesD /\ r = XReg(o.rd) => NamedBy(name, o, r)
         /\ name \in NamesDS /\ r = XReg(o.rd) \cup XReg(o.rs1) => NamedBy(name, o, r)
         /\ name \in NamesST /\ r = XReg(o.rs1) \cup XReg(o.rs2) => NamedBy(name, o, r)
         /\ name \in NamesAlu \cup NamesMulDiv \cup NamesAmo /\ r = XReg(o.rd) \cup XReg(o.rs1) \cup XReg(o.rs2) => NamedBy(name, o, r)
         /\ name \in NamesNone /\ r = {} => NamedBy(name, o, r)
         /\ name \in {"flw", "fld"} /\ r = FReg(o.rd) \cup XReg(o.rs1) => NamedBy(name, o, r)
         /\ name \in {"fsw", "fsd"} /\ r = FReg(o.rs2) \cup XReg(o.rs1) => NamedBy(name, o, r)
         /\ name \in NamesFused /\ r = FReg(o.rd) \cup FReg(o.rs1) \cup FReg(o.rs2) \cup FReg(o.rs3) => NamedBy(name, o, r)
         /\ name \in NamesFff /\ r = FReg(o.rd) \cup FReg(o.rs1) \cup FReg(o.rs2) => NamedBy(name, o, r)
         /\ name \in NamesFf /\ r = FReg(o.rd) \cup FReg(o.rs1) => NamedBy(name, o, r)
         /\ name \in NamesXff /\ r = XReg(o.rd) \cup FReg(o.rs1) \cup FReg(o.rs2) => NamedBy(name, o, r)
         /\ name \in NamesXf /\ r = XReg(o.rd) \cup FReg(o.rs1) => NamedBy(name, o, r)
         /\ name \in NamesFx /\ r = FReg(o.rd) \cup XReg(o.rs1) => NamedBy(name, o, r)
<1>1. name \in {"beq", "sfence_vma"} => NamedBy(name, o, r)
  BY DEF NamedBy, NamesD, NamesDS, NamesST, NamesAlu, NamesMulDiv, NamesAmo, NamesNone,
         NamesFused, NamesFff, NamesFf, NamesXff, NamesXf, NamesFx
<1>2. name \in NamesD /\ r = XReg(o.rd) => NamedBy(name, o, r)
  BY DEF NamedBy, NamesD, NamesDS, NamesST, NamesAlu, NamesMulDiv, NamesAmo, NamesNone,
         NamesFused, NamesFff, NamesFf, NamesXff, NamesXf, NamesFx
<1>3. name \in NamesDS /\ r = XReg(o.rd) \cup XReg(o.rs1) => NamedBy(name, o, r)
  BY DEF NamedBy, NamesD, NamesDS, NamesST, NamesAlu, NamesMulDiv, NamesAmo, NamesNone,
         NamesFused, NamesFff, NamesFf, NamesXff, NamesXf, NamesFx
<1>4. name \in NamesST /\ r = XReg(o.rs1) \cup XReg(o.rs2) => NamedBy(name, o, r)
  BY DEF NamedBy, NamesD, NamesDS, NamesST, NamesAlu, NamesMulDiv, NamesAmo, NamesNone,
         NamesFused, NamesFff, NamesFf, NamesXff, NamesXf, NamesFx
<1>5. name \in NamesAlu \cup NamesMulDiv \cup NamesAmo /\ r = XReg(o.rd) \cup XReg(o.rs1) \cup XReg(o.rs2) => NamedBy(name, o, r)
  BY DEF NamedBy, NamesD, NamesDS, NamesST, NamesAlu, NamesMulDiv, NamesAmo, NamesNone,
         NamesFused, NamesFff, NamesFf, NamesXff, NamesXf, NamesFx
<1>6. name \in NamesNone /\ r = {} => NamedBy(name, o, r)
  BY DEF NamedBy, NamesD, NamesDS, NamesST, NamesAlu, NamesMulDiv, NamesAmo, NamesNone,
         NamesFused, NamesFff, NamesFf, NamesXff, NamesXf, NamesFx
<1>7. name \in {"flw", "fld"} /\ r = FReg(o.rd) \cup XReg(o.rs1) => NamedBy(name, o, r)
  BY DEF NamedBy, NamesD, NamesDS, NamesST, NamesAlu, NamesMulDiv, NamesAmo, NamesNone,
         NamesFused, NamesFff, NamesFf, NamesXff, NamesXf, NamesFx
<1>8. name \in {"fsw", "fsd"} /\ r = FReg(o.rs2) \cup XReg(o.rs1) => NamedBy(name, o, r)
  BY DEF NamedBy, NamesD, NamesDS, NamesST, NamesAlu, NamesMulDiv, NamesAmo, NamesNone,
         NamesFused, NamesFff, NamesFf, NamesXff, NamesXf, NamesFx
<1>9. name \in NamesFused /\ r = FReg(o.rd) \cup FReg(o.rs1) \cup FReg(o.rs2) \cup FReg(o.rs3) => NamedBy(name, o, r)
  BY DEF NamedBy, NamesD, NamesDS, NamesST, NamesAlu, NamesMulDiv, NamesAmo, NamesNone,
         NamesFused, NamesFff, NamesFf, NamesXff, NamesXf, NamesFx
<1>10. name \in NamesFff /\ r = FReg(o.rd) \cup FReg(o.rs1) \cup FReg(o.rs2) => NamedBy(name, o, r)
  BY DEF NamedBy, NamesD, NamesDS, NamesST, NamesAlu, NamesMulDiv, NamesAmo, NamesNone,
         NamesFused, NamesFff, NamesFf, NamesXff, NamesXf, NamesFx
<1>11. name \in NamesFf /\ r = FReg(o.rd) \cup FReg(o.rs1) => NamedBy(name, o, r)
  BY DEF NamedBy, NamesD, NamesDS, NamesST, NamesAlu, NamesMulDiv, NamesAmo, NamesNone,
         NamesFused, NamesFff, NamesFf, NamesXff, NamesXf, NamesFx
<1>12. name \in NamesXff /\ r = XReg(o.rd) \cup FReg(o.rs1) \cup FReg(o.rs2) => NamedBy(name, o, r)
  BY DEF NamedBy, NamesD, NamesDS, NamesST, NamesAlu, NamesMulDiv, NamesAmo, NamesNone,
         NamesFused, NamesFff, NamesFf, NamesXff, NamesXf, NamesFx
<1>13. name \in NamesXf /\ r = XReg(o.rd) \cup FReg(o.rs1) => NamedBy(name, o, r)
  BY DEF NamedBy, NamesD, NamesDS, NamesST, NamesAlu, NamesMulDiv, NamesAmo, NamesNone,
         NamesFused, NamesFff, NamesFf, NamesXff, NamesXf, NamesFx
<1>14. name \in NamesFx /\ r = FReg(o.rd) \cup XReg(o.rs1) => NamedBy(name, o, r)
  BY DEF NamedBy, NamesD, NamesDS, NamesST, NamesAlu, NamesMulDiv, NamesAmo, NamesNone,
         NamesFused, NamesFff, NamesFf, NamesXff, NamesXf, NamesFx
<1> QED
  BY <1>1, <1>2, <1>3, <1>4, <1>5, <1>6, <1>7, <1>8, <1>9, <1>10, <1>11, <1>12, <1>13, <1>14

\* The handlers of atomic operations.
LEMMA AtomicRegs ==
  ASSUME NEW o, NEW size, NEW function
  PROVE  /\ Registers(E!Atomic(o, size, function)) = XReg(o.rd) \cup XReg(o.rs1) \cup XReg(o.rs2)
         /\ Registers(E!LoadAndReserve(o, size)) = XReg(o.rd) \cup XReg(o.rs1)
         /\ Registers(E!StoreIfReserved(o, size)) = XReg(o.rd) \cup XReg(o.rs1) \cup XReg(o.rs2)
<1> DEFINE base == E!X(o.rs1)
           source == E!X(o.rs2)
           to == E!X(o.rd)
           loaded == E!Loaded(size, "signed")
           none == E!Value("none", <<>>)
           stored == E!Value(function, <<source>>)
           failed == E!Value("failed", <<base>>)
           copied == E!Copy(source)
           w == [to |-> to, value |-> loaded]
           f == [to |-> to, value |-> failed]
           a == E!Access("Load", size, base, 0, none)
           b == E!Access("Store", size, base, 0, stored)
           c == E!Access("Store", size, base, 0, copied)
           amo == [E!WriteX(o.rd, loaded) EXCEPT !.access = {a, b}]
           lr == E!LoadAndReserve(o, size)
           sc == [E!Storing(size, base, 0, source) EXCEPT !.writes = E!WriteX(o.rd, failed).writes]
<1>1. Reg(base) = XReg(o.rs1) /\ Reg(source) = XReg(o.rs2) /\ Reg(to) = XReg(o.rd)
  BY RegsOfOperands
<1>2. amo.writes = {w} /\ amo.access = {a, b} /\ amo.jump = {} /\ amo.reserves = {}
  BY DEF E!WriteX, E!Idle
<1>3. lr.writes = {w} /\ lr.access = {a} /\ lr.jump = {} /\ lr.reserves = {base}
  BY DEF E!LoadAndReserve, E!Loading, E!WriteX, E!Idle
<1>4. sc.writes = {f} /\ sc.access = {c} /\ sc.jump = {} /\ sc.reserves = {}
  BY DEF E!Storing, E!WriteX, E!Idle
<1>5. /\ E!Atomic(o, size, function) = E!Cancelled(amo)
      /\ E!StoreIfReserved(o, size) = E!Cancelled(sc)
  BY DEF E!Atomic, E!StoreIfReserved
<1>6. /\ w.to = to /\ w.value = loaded /\ f.to = to /\ f.value = failed
      /\ a.base = base /\ a.data = none /\ b.base = base /\ b.data = stored /\ c.base = base /\ c.data = copied
  BY DEF E!Access
<1> SUFFICES /\ Registers(E!Atomic(o, size, function)) = XReg(o.rd) \cup XReg(o.rs1) \cup XReg(o.rs2)
             /\ Registers(lr) = XReg(o.rd) \cup XReg(o.rs1)
             /\ Registers(E!StoreIfReserved(o, size)) = XReg(o.rd) \cup XReg(o.rs1) \cup XReg(o.rs2)
  OBVIOUS
<1> HIDE DEF base, source, to
<1>7. ValueRegs(loaded) = {} /\ ValueRegs(none) = {}
  BY RegsOfValues
<1>8. ValueRegs(stored) = Reg(source)
  BY RegsOfValues
<1>9. ValueRegs(failed) = Reg(base)
  BY RegsOfValues
<1>10. ValueRegs(copied) = Reg(source)
  BY RegsOfValues
<1> HIDE DEF loaded, none, stored, failed, copied, w, f, a, b, c, amo, lr, sc
<1>11. WriteRegs({w}) = XReg(o.rd)
  <2>1. WriteRegs({w}) = Reg(w.to) \cup ValueRegs(w.value)
    BY RegsOfOne
  <2> QED BY <1>1, <1>6, <1>7, <2>1, NoUnion
<1>12. WriteRegs({f}) = XReg(o.rd) \cup XReg(o.rs1)
  <2>1. WriteRegs({f}) = Reg(f.to) \cup ValueRegs(f.value)
    BY RegsOfOne
  <2> QED BY <1>1, <1>6, <1>9, <2>1
<1>13. AccessRegs({a}) = XReg(o.rs1)
  <2>1. AccessRegs({a}) = Reg(a.base) \cup ValueRegs(a.data)
    BY RegsOfOne
  <2> QED BY <1>1, <1>6, <1>7, <2>1, NoUnion
<1>14. AccessRegs({c}) = XReg(o.rs1) \cup XReg(o.rs2)
  <2>1. AccessRegs({c}) = Reg(c.base) \cup ValueRegs(c.data)
    BY RegsOfOne
  <2> QED BY <1>1, <1>6, <1>10, <2>1
<1>15. AccessRegs({a, b}) = XReg(o.rs1) \cup XReg(o.rs2)
  <2>1. AccessRegs({a, b}) = Reg(a.base) \cup ValueRegs(a.data) \cup Reg(b.base) \cup ValueRegs(b.data)
    BY RegsOfOne
  <2> QED BY <1>1, <1>6, <1>7, <1>8, <2>1
<1>16. AccessRegs({}) = {} /\ JumpRegs({}) = {}
  BY RegsOfOne
<1>17. Registers(amo) = WriteRegs({w}) \cup AccessRegs({a, b}) \cup JumpRegs({}) \cup {r \in {} : r.kind \in {"x", "f"}}
  BY <1>2, RegistersByPart
<1>18. Registers(sc) = WriteRegs({f}) \cup AccessRegs({c}) \cup JumpRegs({}) \cup {r \in {} : r.kind \in {"x", "f"}}
  BY <1>4, RegistersByPart
<1>19. Registers(lr) = WriteRegs({w}) \cup AccessRegs({a}) \cup JumpRegs({}) \cup Reg(base)
  BY <1>3, RegistersByPart DEF Reg
<1>20. Registers(E!Atomic(o, size, function)) = XReg(o.rd) \cup XReg(o.rs1) \cup XReg(o.rs2)
  <2>1. Registers(amo) = XReg(o.rd) \cup XReg(o.rs1) \cup XReg(o.rs2)
    BY <1>11, <1>15, <1>16, <1>17
  <2> QED BY <1>5, <2>1, RegsOfEffects
<1>21. Registers(lr) = XReg(o.rd) \cup XReg(o.rs1)
  BY <1>1, <1>11, <1>13, <1>16, <1>19
<1>22. Registers(E!StoreIfReserved(o, size)) = XReg(o.rd) \cup XReg(o.rs1) \cup XReg(o.rs2)
  <2>1. Registers(sc) = XReg(o.rd) \cup XReg(o.rs1) \cup XReg(o.rs2)
    BY <1>12, <1>14, <1>16, <1>18
  <2> QED BY <1>5, <2>1, RegsOfEffects
<1> QED
  BY <1>20, <1>21, <1>22

LEMMA NamedByProcess32I ==
  ASSUME NEW o, NEW name \in Integers32
  PROVE  NamedBy(name, o, Registers(E!ProcessRV32I(name, o)))
<1> DEFINE e == E!ProcessRV32I(name, o)
           r == Registers(e)
<1> SUFFICES NamedBy(name, o, r)
  OBVIOUS
<1>1. CASE name \in {"lui", "auipc", "jal"}
  <2>1. e = E!RV32I_UpperOrJump(name, o)
    BY <1>1 DEF E!ProcessRV32I, E!Csrs, E!CsrImms
  <2> HIDE DEF e
  <2>3. r = XReg(o.rd)
    BY <1>1, <2>1, IntegerRegs
  <2>4. name \in NamesD
    BY <1>1 DEF NamesD
  <2> HIDE DEF r
  <2> QED BY <2>3, <2>4, NamedByKind
<1>2. CASE name \in {"jalr"}
  <2>1. e = E!RV32I_UpperOrJump(name, o)
    BY <1>2 DEF E!ProcessRV32I, E!Csrs, E!CsrImms
  <2> HIDE DEF e
  <2>3. r = XReg(o.rd) \cup XReg(o.rs1)
    BY <1>2, <2>1, IntegerRegs
  <2>4. name \in NamesDS
    BY <1>2 DEF NamesDS
  <2> HIDE DEF r
  <2> QED BY <2>3, <2>4, NamedByKind
<1>3. CASE name \in {"bne", "blt", "bge", "bltu", "bgeu"}
  <2>1. e = E!RV32I_Branch(name, o)
    BY <1>3 DEF E!ProcessRV32I, E!Csrs, E!CsrImms
  <2> HIDE DEF e
  <2>3. r = XReg(o.rs1) \cup XReg(o.rs2)
    BY <1>3, <2>1, IntegerRegs
  <2>4. name \in NamesST
    BY <1>3 DEF NamesST
  <2> HIDE DEF r
  <2> QED BY <2>3, <2>4, NamedByKind
<1>4. CASE name \in {"lb", "lh", "lw", "lbu", "lhu"}
  <2>1. e = E!RV32I_Load(name, o)
    BY <1>4 DEF E!ProcessRV32I, E!Csrs, E!CsrImms
  <2> HIDE DEF e
  <2>2. E!RV32I_Load(name, o) = E!Cancelled(E!RV64I_Load(name, o))
    BY DEF E!RV32I_Load, E!RV64I_Load
  <2>3. r = XReg(o.rd) \cup XReg(o.rs1)
    BY <1>4, <2>1, <2>2, IntegerRegs, RegsOfEffects
  <2>4. name \in NamesDS
    BY <1>4 DEF NamesDS
  <2> HIDE DEF r
  <2> QED BY <2>3, <2>4, NamedByKind
<1>5. CASE name \in {"sb", "sh", "sw"}
  <2>1. e = E!RV32I_Store(name, o)
    BY <1>5 DEF E!ProcessRV32I, E!Csrs, E!CsrImms
  <2> HIDE DEF e
  <2>2. E!RV32I_Store(name, o) = E!Cancelled(E!RV64I_Store(name, o))
    BY DEF E!RV32I_Store, E!RV64I_Store
  <2>3. r = XReg(o.rs1) \cup XReg(o.rs2)
    BY <1>5, <2>1, <2>2, IntegerRegs, RegsOfEffects
  <2>4. name \in NamesST
    BY <1>5 DEF NamesST
  <2> HIDE DEF r
  <2> QED BY <2>3, <2>4, NamedByKind
<1>6. CASE name \in {"addi", "slti", "sltiu", "xori", "ori", "andi"}
  <2>1. e = E!RV32I_AluImm(name, o)
    BY <1>6 DEF E!ProcessRV32I, E!Csrs, E!CsrImms
  <2> HIDE DEF e
  <2>3. r = XReg(o.rd) \cup XReg(o.rs1)
    BY <1>6, <2>1, IntegerRegs
  <2>4. name \in NamesDS
    BY <1>6 DEF NamesDS
  <2> HIDE DEF r
  <2> QED BY <2>3, <2>4, NamedByKind
<1>7. CASE name \in {"sll", "srl", "sra"}
  <2>1. e = E!RV32I_Shift(name, o)
    BY <1>7 DEF E!ProcessRV32I, E!Csrs, E!CsrImms
  <2> HIDE DEF e
  <2>3. r = XReg(o.rd) \cup XReg(o.rs1) \cup XReg(o.rs2)
    BY <1>7, <2>1, IntegerRegs
  <2>4. name \in NamesAlu \cup NamesMulDiv \cup NamesAmo
    BY <1>7 DEF NamesAlu, NamesMulDiv, NamesAmo
  <2> HIDE DEF r
  <2> QED BY <2>3, <2>4, NamedByKind
<1>8. CASE name \in {"slli", "srli", "srai"}
  <2>1. e = E!RV32I_ShiftImm(name, o)
    BY <1>8 DEF E!ProcessRV32I, E!Csrs, E!CsrImms
  <2> HIDE DEF e
  <2>3. r = XReg(o.rd) \cup XReg(o.rs1)
    BY <1>8, <2>1, IntegerRegs
  <2>4. name \in NamesDS
    BY <1>8 DEF NamesDS
  <2> HIDE DEF r
  <2> QED BY <2>3, <2>4, NamedByKind
<1>9. CASE name \in {"add", "sub", "slt", "sltu", "xor", "or", "and"}
  <2>1. e = E!RV32I_Alu(name, o)
    BY <1>9 DEF E!ProcessRV32I, E!Csrs, E!CsrImms
  <2> HIDE DEF e
  <2>3. r = XReg(o.rd) \cup XReg(o.rs1) \cup XReg(o.rs2)
    BY <1>9, <2>1, IntegerRegs
  <2>4. name \in NamesAlu \cup NamesMulDiv \cup NamesAmo
    BY <1>9 DEF NamesAlu, NamesMulDiv, NamesAmo
  <2> HIDE DEF r
  <2> QED BY <2>3, <2>4, NamedByKind
<1>10. CASE name \in {"ecall", "ebreak", "mret", "sret", "uret", "wfi", "fence", "fence_i"}
  <2>1. e = E!RV32I_PrivOrFence(name)
    BY <1>10 DEF E!ProcessRV32I, E!Csrs, E!CsrImms
  <2> HIDE DEF e
  <2>2. E!RV32I_PrivOrFence(name) = E!Priv(name)
    BY DEF E!RV32I_PrivOrFence
  <2>3. r = {}
    BY <1>10, <2>1, <2>2, IntegerRegs
  <2>4. name \in NamesNone
    BY <1>10 DEF NamesNone
  <2> HIDE DEF r
  <2> QED BY <2>3, <2>4, NamedByKind
<1>11. CASE name \in E!Csrs
  <2> DEFINE source == E!X(o.rs1)
  <2>1. e = E!RV32I_Csr(name, o)
    BY <1>11 DEF E!ProcessRV32I, E!Csrs, E!CsrImms
  <2>2. E!RV32I_Csr(name, o) = E!Csr(name, o, source)
    BY DEF E!RV32I_Csr
  <2>3. Reg(source) = XReg(o.rs1)
    BY RegsOfOperands
  <2> HIDE DEF source, e
  <2>4. Registers(E!Csr(name, o, source)) = XReg(o.rd) \cup Reg(source)
    BY <1>11, CsrRegs
  <2>5. r = XReg(o.rd) \cup XReg(o.rs1)
    BY <2>1, <2>2, <2>3, <2>4, NoUnion, RegsOfEffects
  <2>6. name \in NamesDS
    BY <1>11 DEF E!Csrs, NamesDS
  <2> HIDE DEF r
  <2> QED BY <2>5, <2>6, NamedByKind
<1>12. CASE name \in E!CsrImms
  <2> DEFINE source == E!Imm(o.zimm)
  <2>1. e = E!RV32I_CsrImm(name, o)
    BY <1>12 DEF E!ProcessRV32I, E!Csrs, E!CsrImms
  <2>2. E!RV32I_CsrImm(name, o) = E!Csr(name, o, source)
    BY DEF E!RV32I_CsrImm
  <2>3. Reg(source) = {}
    BY RegsOfOperands
  <2> HIDE DEF source, e
  <2>4. Registers(E!Csr(name, o, source)) = XReg(o.rd) \cup Reg(source)
    BY <1>12, CsrRegs
  <2>5. r = XReg(o.rd)
    BY <2>1, <2>2, <2>3, <2>4, NoUnion, RegsOfEffects
  <2>6. name \in NamesD
    BY <1>12 DEF E!CsrImms, NamesD
  <2> HIDE DEF r
  <2> QED BY <2>5, <2>6, NamedByKind
<1>13. CASE name \in {"beq", "sfence_vma"}
  <2> HIDE DEF r
  <2> QED BY <1>13, NamedByKind
<1> QED
  BY <1>1, <1>2, <1>3, <1>4, <1>5, <1>6, <1>7, <1>8, <1>9, <1>10, <1>11, <1>12, <1>13 DEF Integers32, Integers64

LEMMA NamedByProcess64I ==
  ASSUME NEW o, NEW name \in Integers64
  PROVE  NamedBy(name, o, Registers(E!ProcessRV64I(name, o)))
<1> DEFINE e == E!ProcessRV64I(name, o)
           r == Registers(e)
<1> SUFFICES NamedBy(name, o, r)
  OBVIOUS
<1>1. CASE name \in {"lui", "auipc", "jal"}
  <2>1. e = E!RV64I_UpperOrJump(name, o)
    BY <1>1 DEF E!ProcessRV64I, E!Csrs, E!CsrImms
  <2> HIDE DEF e
  <2>2. E!RV64I_UpperOrJump(name, o) = E!RV32I_UpperOrJump(name, o)
    BY DEF E!RV32I_UpperOrJump, E!RV64I_UpperOrJump
  <2>3. r = XReg(o.rd)
    BY <1>1, <2>1, <2>2, IntegerRegs
  <2>4. name \in NamesD
    BY <1>1 DEF NamesD
  <2> HIDE DEF r
  <2> QED BY <2>3, <2>4, NamedByKind
<1>2. CASE name \in {"jalr"}
  <2>1. e = E!RV64I_UpperOrJump(name, o)
    BY <1>2 DEF E!ProcessRV64I, E!Csrs, E!CsrImms
  <2> HIDE DEF e
  <2>2. E!RV64I_UpperOrJump(name, o) = E!RV32I_UpperOrJump(name, o)
    BY DEF E!RV32I_UpperOrJump, E!RV64I_UpperOrJump
  <2>3. r = XReg(o.rd) \cup XReg(o.rs1)
    BY <1>2, <2>1, <2>2, IntegerRegs
  <2>4. name \in NamesDS
    BY <1>2 DEF NamesDS
  <2> HIDE DEF r
  <2> QED BY <2>3, <2>4, NamedByKind
<1>3. CASE name \in {"bne", "blt", "bge", "bltu", "bgeu"}
  <2>1. e = E!RV64I_Branch(name, o)
    BY <1>3 DEF E!ProcessRV64I, E!Csrs, E!CsrImms
  <2> HIDE DEF e
  <2>2. E!RV64I_Branch(name, o) = E!RV32I_Branch(name, o)
    BY DEF E!RV32I_Branch, E!RV64I_Branch
  <2>3. r = XReg(o.rs1) \cup XReg(o.rs2)
    BY <1>3, <2>1, <2>2, IntegerRegs
  <2>4. name \in NamesST
    BY <1>3 DEF NamesST
  <2> HIDE DEF r
  <2> QED BY <2>3, <2>4, NamedByKind
<1>4. CASE name \in {"lb", "lh", "lw", "lbu", "lhu", "ld", "lwu"}
  <2>1. e = E!RV64I_Load(name, o)
    BY <1>4 DEF E!ProcessRV64I, E!Csrs, E!CsrImms
  <2> HIDE DEF e
  <2>3. r = XReg(o.rd) \cup XReg(o.rs1)
    BY <1>4, <2>1, IntegerRegs
  <2>4. name \in NamesDS
    BY <1>4 DEF NamesDS
  <2> HIDE DEF r
  <2> QED BY <2>3, <2>4, NamedByKind
<1>5. CASE name \in {"sb", "sh", "sw", "sd"}
  <2>1. e = E!RV64I_Store(name, o)
    BY <1>5 DEF E!ProcessRV64I, E!Csrs, E!CsrImms
  <2> HIDE DEF e
  <2>3. r = XReg(o.rs1) \cup XReg(o.rs2)
    BY <1>5, <2>1, IntegerRegs
  <2>4. name \in NamesST
    BY <1>5 DEF NamesST
  <2> HIDE DEF r
  <2> QED BY <2>3, <2>4, NamedByKind
<1>6. CASE name \in {"addi", "slti", "sltiu", "xori", "ori", "andi", "addiw"}
  <2>1. e = E!RV64I_AluImm(name, o)
    BY <1>6 DEF E!ProcessRV64I, E!Csrs, E!CsrImms
  <2> HIDE DEF e
  <2>3. r = XReg(o.rd) \cup XReg(o.rs1)
    BY <1>6, <2>1, IntegerRegs
  <2>4. name \in NamesDS
    BY <1>6 DEF NamesDS
  <2> HIDE DEF r
  <2> QED BY <2>3, <2>4, NamedByKind
<1>7. CASE name \in {"sll", "srl", "sra", "sllw", "srlw", "sraw"}
  <2>1. e = E!RV64I_Shift(name, o)
    BY <1>7 DEF E!ProcessRV64I, E!Csrs, E!CsrImms
  <2> HIDE DEF e
  <2>3. r = XReg(o.rd) \cup XReg(o.rs1) \cup XReg(o.rs2)
    BY <1>7, <2>1, IntegerRegs
  <2>4. name \in NamesAlu \cup NamesMulDiv \cup NamesAmo
    BY <1>7 DEF NamesAlu, NamesMulDiv, NamesAmo
  <2> HIDE DEF r
  <2> QED BY <2>3, <2>4, NamedByKind
<1>8. CASE name \in {"slli", "srli", "srai", "slliw", "srliw", "sraiw"}
  <2>1. e = E!RV64I_ShiftImm(name, o)
    BY <1>8 DEF E!ProcessRV64I, E!Csrs, E!CsrImms
  <2> HIDE DEF e
  <2>3. r = XReg(o.rd) \cup XReg(o.rs1)
    BY <1>8, <2>1, IntegerRegs
  <2>4. name \in NamesDS
    BY <1>8 DEF NamesDS
  <2> HIDE DEF r
  <2> QED BY <2>3, <2>4, NamedByKind
<1>9. CASE name \in {"add", "sub", "slt", "sltu", "xor", "or", "and", "addw", "subw"}
  <2>1. e = E!RV64I_Alu(name, o)
    BY <1>9 DEF E!ProcessRV64I, E!Csrs, E!CsrImms
  <2> HIDE DEF e
  <2>2. E!RV64I_Alu(name, o) = E!RV32I_Alu(name, o)
    BY DEF E!RV32I_Alu, E!RV64I_Alu
  <2>3. r = XReg(o.rd) \cup XReg(o.rs1) \cup XReg(o.rs2)
    BY <1>9, <2>1, <2>2, IntegerRegs
  <2>4. name \in NamesAlu \cup NamesMulDiv \cup NamesAmo
    BY <1>9 DEF NamesAlu, NamesMulDiv, NamesAmo
  <2> HIDE DEF r
  <2> QED BY <2>3, <2>4, NamedByKind
<1>10. CASE name \in {"ecall", "ebreak", "mret", "sret", "uret", "wfi", "fence", "fence_i"}
  <2>1. e = E!RV64I_PrivOrFence(name)
    BY <1>10 DEF E!ProcessRV64I, E!Csrs, E!CsrImms
  <2> HIDE DEF e
  <2>2. E!RV64I_PrivOrFence(name) = E!Priv(name)
    BY DEF E!RV64I_PrivOrFence
  <2>3. r = {}
    BY <1>10, <2>1, <2>2, IntegerRegs
  <2>4. name \in NamesNone
    BY <1>10 DEF NamesNone
  <2> HIDE DEF r
  <2> QED BY <2>3, <2>4, NamedByKind
<1>11. CASE name \in E!Csrs
  <2> DEFINE source == E!X(o.rs1)
  <2>1. e = E!RV64I_Csr(name, o)
    BY <1>11 DEF E!ProcessRV64I, E!Csrs, E!CsrImms
  <2>2. E!RV64I_Csr(name, o) = E!Cancelled(E!Csr(name, o, source))
    BY DEF E!RV64I_Csr
  <2>3. Reg(source) = XReg(o.rs1)
    BY RegsOfOperands
  <2> HIDE DEF source, e
  <2>4. Registers(E!Csr(name, o, source)) = XReg(o.rd) \cup Reg(source)
    BY <1>11, CsrRegs
  <2>5. r = XReg(o.rd) \cup XReg(o.rs1)
    BY <2>1, <2>2, <2>3, <2>4, NoUnion, RegsOfEffects
  <2>6. name \in NamesDS
    BY <1>11 DEF E!Csrs, NamesDS
  <2> HIDE DEF r
  <2> QED BY <2>5, <2>6, NamedByKind
<1>12. CASE name \in E!CsrImms
  <2> DEFINE source == E!Imm(o.zimm)
  <2>1. e = E!RV64I_CsrImm(name, o)
    BY <1>12 DEF E!ProcessRV64I, E!Csrs, E!CsrImms
  <2>2. E!RV64I_CsrImm(name, o) = E!Cancelled(E!Csr(name, o, source))
    BY DEF E!RV64I_CsrImm
  <2>3. Reg(source) = {}
    BY RegsOfOperands
  <2> HIDE DEF source, e
  <2>4. Registers(E!Csr(name, o, source)) = XReg(o.rd) \cup Reg(source)
    BY <1>12, CsrRegs
  <2>5. r = XReg(o.rd)
    BY <2>1, <2>2, <2>3, <2>4, NoUnion, RegsOfEffects
  <2>6. name \in NamesD
    BY <1>12 DEF E!CsrImms, NamesD
  <2> HIDE DEF r
  <2> QED BY <2>5, <2>6, NamedByKind
<1>13. CASE name \in {"beq", "sfence_vma"}
  <2> HIDE DEF r
  <2> QED BY <1>13, NamedByKind
<1> QED
  BY <1>1, <1>2, <1>3, <1>4, <1>5, <1>6, <1>7, <1>8, <1>9, <1>10, <1>11, <1>12, <1>13 DEF Integers32, Integers64

LEMMA NamedByProcessM ==
  ASSUME NEW o, NEW name
  PROVE  /\ name \in E!MulDivs32 => NamedBy(name, o, Registers(E!ProcessRV32M(name, o)))
         /\ name \in E!MulDivs64 => NamedBy(name, o, Registers(E!ProcessRV64M(name, o)))
<1> DEFINE e == E!Cancelled(E!WriteX(o.rd, E!Value(name, <<E!X(o.rs1), E!X(o.rs2)>>)))
           r == Registers(e)
<1>1. /\ name \in E!MulDivs32 => E!ProcessRV32M(name, o) = e
      /\ name \in E!MulDivs64 => E!ProcessRV64M(name, o) = e
  BY DEF E!ProcessRV32M, E!ProcessRV64M
<1>2. r = XReg(o.rd) \cup XReg(o.rs1) \cup XReg(o.rs2)
  BY WriteX_XX, RegsOfEffects
<1>3. name \in E!MulDivs32 \cup E!MulDivs64 => name \in NamesMulDiv
  BY DEF E!MulDivs32, E!MulDivs64, NamesMulDiv
<1> HIDE DEF r
<1>4. name \in NamesMulDiv => NamedBy(name, o, r)
  BY <1>2, NamedByKind
<1> QED
  BY <1>1, <1>3, <1>4 DEF r

LEMMA NamedByProcessA ==
  ASSUME NEW o, NEW name
  PROVE  /\ name \in Atomics32 => NamedBy(name, o, Registers(E!ProcessRV32A(name, o)))
         /\ name \in Atomics64 => NamedBy(name, o, Registers(E!ProcessRV64A(name, o)))
<1>1. ASSUME NEW r, r = XReg(o.rd) \cup XReg(o.rs1) PROVE name \in {"lr_w", "lr_d"} => NamedBy(name, o, r)
  BY <1>1, NamedByKind DEF NamesDS
<1>2. ASSUME NEW r, r = XReg(o.rd) \cup XReg(o.rs1) \cup XReg(o.rs2)
      PROVE  name \in NamesAmo => NamedBy(name, o, r)
  BY <1>2, NamedByKind
<1>3. DOMAIN E!AmoFunctions32 \cup DOMAIN E!AmoFunctions64 \cup {"sc_w", "sc_d"} \subseteq NamesAmo
  BY DEF E!AmoFunctions32, E!AmoFunctions64, NamesAmo
<1>4. {"lr_w", "sc_w", "lr_d", "sc_d"} \cap (DOMAIN E!AmoFunctions32 \cup DOMAIN E!AmoFunctions64) = {}
  BY DEF E!AmoFunctions32, E!AmoFunctions64
<1>5. DOMAIN E!AmoFunctions32 \cap DOMAIN E!AmoFunctions64 = {}
  BY DEF E!AmoFunctions32, E!AmoFunctions64
<1> DEFINE p == E!ProcessRV32A(name, o)
           q == E!ProcessRV64A(name, o)
<1>6. ASSUME name = "lr_w" PROVE NamedBy(name, o, Registers(p)) /\ NamedBy(name, o, Registers(q))
  <2>1. p = E!LoadAndReserve(o, 4) /\ q = E!LoadAndReserve(o, 4)
    BY <1>6, <1>4, <1>5 DEF E!RV32A_Load, E!RV64A_Load32, E!ProcessRV32A, E!ProcessRV64A
  <2> DEFINE e == E!LoadAndReserve(o, 4)
             r == Registers(e)
  <2>2. r = XReg(o.rd) \cup XReg(o.rs1)
    BY AtomicRegs
  <2>3. name \in {"lr_w", "lr_d"}
    BY <1>6, <1>3
  <2> HIDE DEF p, q, r
  <2>4. NamedBy(name, o, r)
    BY <1>1, <2>2, <2>3
  <2> QED BY <2>1, <2>4 DEF r
<1>7. ASSUME name = "sc_w" PROVE NamedBy(name, o, Registers(p)) /\ NamedBy(name, o, Registers(q))
  <2>1. p = E!StoreIfReserved(o, 4) /\ q = E!StoreIfReserved(o, 4)
    BY <1>7, <1>4, <1>5 DEF E!RV32A_Store, E!RV64A_Store32, E!ProcessRV32A, E!ProcessRV64A
  <2> DEFINE e == E!StoreIfReserved(o, 4)
             r == Registers(e)
  <2>2. r = XReg(o.rd) \cup XReg(o.rs1) \cup XReg(o.rs2)
    BY AtomicRegs
  <2>3. name \in NamesAmo
    BY <1>7, <1>3
  <2> HIDE DEF p, q, r
  <2>4. NamedBy(name, o, r)
    BY <1>2, <2>2, <2>3
  <2> QED BY <2>1, <2>4 DEF r
<1>8. ASSUME name \in DOMAIN E!AmoFunctions32 PROVE NamedBy(name, o, Registers(p)) /\ NamedBy(name, o, Registers(q))
  <2>1. p = E!Atomic(o, 4, E!AmoFunctions32[name]) /\ q = E!Atomic(o, 4, E!AmoFunctions32[name])
    BY <1>8, <1>4, <1>5 DEF E!RV32A_Atomic, E!RV64A_Atomic32, E!ProcessRV32A, E!ProcessRV64A
  <2> DEFINE e == E!Atomic(o, 4, E!AmoFunctions32[name])
             r == Registers(e)
  <2>2. r = XReg(o.rd) \cup XReg(o.rs1) \cup XReg(o.rs2)
    BY AtomicRegs
  <2>3. name \in NamesAmo
    BY <1>8, <1>3
  <2> HIDE DEF p, q, r
  <2>4. NamedBy(name, o, r)
    BY <1>2, <2>2, <2>3
  <2> QED BY <2>1, <2>4 DEF r
<1>9. ASSUME name = "lr_d" PROVE NamedBy(name, o, Registers(q))
  <2>1. q = E!LoadAndReserve(o, 8)
    BY <1>9, <1>4, <1>5 DEF E!RV64A_Load64, E!ProcessRV64A
  <2> DEFINE e == E!LoadAndReserve(o, 8)
             r == Registers(e)
  <2>2. r = XReg(o.rd) \cup XReg(o.rs1)
    BY AtomicRegs
  <2>3. name \in {"lr_w", "lr_d"}
    BY <1>9, <1>3
  <2> HIDE DEF p, q, r
  <2>4. NamedBy(name, o, r)
    BY <1>1, <2>2, <2>3
  <2> QED BY <2>1, <2>4 DEF r
<1>10. ASSUME name = "sc_d" PROVE NamedBy(name, o, Registers(q))
  <2>1. q = E!StoreIfReserved(o, 8)
    BY <1>10, <1>4, <1>5 DEF E!RV64A_Store64, E!ProcessRV64A
  <2> DEFINE e == E!StoreIfReserved(o, 8)
             r == Registers(e)
  <2>2. r = XReg(o.rd) \cup XReg(o.rs1) \cup XReg(o.rs2)
    BY AtomicRegs
  <2>3. name \in NamesAmo
    BY <1>10, <1>3
  <2> HIDE DEF p, q, r
  <2>4. NamedBy(name, o, r)
    BY <1>2, <2>2, <2>3
  <2> QED BY <2>1, <2>4 DEF r
<1>11. ASSUME name \in DOMAIN E!AmoFunctions64 PROVE NamedBy(name, o, Registers(q))
  <2>1. q = E!Atomic(o, 8, E!AmoFunctions64[name])
    BY <1>11, <1>4, <1>5 DEF E!RV64A_Atomic64, E!ProcessRV64A
  <2> DEFINE e == E!Atomic(o, 8, E!AmoFunctions64[name])
             r == Registers(e)
  <2>2. r = XReg(o.rd) \cup XReg(o.rs1) \cup XReg(o.rs2)
    BY AtomicRegs
  <2>3. name \in NamesAmo
    BY <1>11, <1>3
  <2> HIDE DEF p, q, r
  <2>4. NamedBy(name, o, r)
    BY <1>2, <2>2, <2>3
  <2> QED BY <2>1, <2>4 DEF r
<1> HIDE DEF p, q
<1>12. /\ name \in Atomics32 => NamedBy(name, o, Registers(p))
       /\ name \in Atomics64 => NamedBy(name, o, Registers(q))
  BY <1>6, <1>7, <1>8, <1>9, <1>10, <1>11 DEF Atomics32, Atomics64
<1> QED
  BY <1>12 DEF p, q

LEMMA NamedByProcessF ==
  ASSUME NEW x, NEW o, NEW name \in Singles
  PROVE  NamedBy(name, o, Registers(E!ProcessRVF(x, name, o)))
<1> DEFINE e == E!ProcessRVF(x, name, o)
           r == Registers(e)
<1> SUFFICES NamedBy(name, o, r)
  OBVIOUS
<1>1. CASE name \in {"fmadd_s", "fmsub_s", "fnmadd_s", "fnmsub_s"}
  <2> DEFINE write == E!WriteF(o.rd, E!Value(name, <<E!F(o.rs1), E!F(o.rs2), E!F(o.rs3), E!Rm(o)>>))
  <2>1. e = E!Cancelled(E!RVF_MulAdd(name, o))
    BY <1>1 DEF E!ProcessRVF
  <2>2. E!RVF_MulAdd(name, o) = E!UpdateFpCsr(E!NotifyFpDirty(write))
    BY <1>1 DEF E!RVF_MulAdd
  <2>3. Registers(write) = FReg(o.rd) \cup FReg(o.rs1) \cup FReg(o.rs2) \cup FReg(o.rs3)
    BY WriteF_FFFR
  <2> HIDE DEF write, e
  <2>4. r = FReg(o.rd) \cup FReg(o.rs1) \cup FReg(o.rs2) \cup FReg(o.rs3)
    BY <2>1, <2>2, <2>3, RegsOfEffects
  <2>5. name \in NamesFused
    BY <1>1 DEF NamesFused
  <2> HIDE DEF r
  <2> QED BY <2>4, <2>5, NamedByKind
<1>2. CASE name \in {"fcvt_s_w", "fcvt_s_wu", "fcvt_s_l", "fcvt_s_lu"}
  <2> DEFINE write == E!WriteF(o.rd, E!Value(name, <<E!X(o.rs1), E!Rm(o)>>))
  <2>1. e = E!Cancelled(E!RVF_Compute(name, o))
    BY <1>2 DEF E!ProcessRVF
  <2>2. E!RVF_Compute(name, o) = E!UpdateFpCsr(E!NotifyFpDirty(write))
    <3>1. E!RVF_Compute(name, o) = E!UpdateFpCsr(E!NotifyFpDirty(E!WriteF(o.rd, E!Value(name, <<E!X(o.rs1)>> \o <<E!Rm(o)>>))))
      BY <1>2 DEF E!RVF_Compute
    <3>2. <<E!X(o.rs1)>> \o <<E!Rm(o)>> = <<E!X(o.rs1), E!Rm(o)>>
      BY ConcatOne
    <3> QED BY <3>1, <3>2
  <2>3. Registers(write) = FReg(o.rd) \cup XReg(o.rs1)
    BY WriteF_XR
  <2> HIDE DEF write, e
  <2>4. r = FReg(o.rd) \cup XReg(o.rs1)
    BY <2>1, <2>2, <2>3, RegsOfEffects
  <2>5. name \in NamesFx
    BY <1>2 DEF NamesFx
  <2> HIDE DEF r
  <2> QED BY <2>4, <2>5, NamedByKind
<1>3. CASE name \in {"fsqrt_s"}
  <2> DEFINE write == E!WriteF(o.rd, E!Value(name, <<E!F(o.rs1), E!Rm(o)>>))
  <2>1. e = E!Cancelled(E!RVF_Compute(name, o))
    BY <1>3 DEF E!ProcessRVF
  <2>2. E!RVF_Compute(name, o) = E!UpdateFpCsr(E!NotifyFpDirty(write))
    <3>1. E!RVF_Compute(name, o) = E!UpdateFpCsr(E!NotifyFpDirty(E!WriteF(o.rd, E!Value(name, <<E!F(o.rs1)>> \o <<E!Rm(o)>>))))
      BY <1>3 DEF E!RVF_Compute
    <3>2. <<E!F(o.rs1)>> \o <<E!Rm(o)>> = <<E!F(o.rs1), E!Rm(o)>>
      BY ConcatOne
    <3> QED BY <3>1, <3>2
  <2>3. Registers(write) = FReg(o.rd) \cup FReg(o.rs1)
    BY WriteF_FR
  <2> HIDE DEF write, e
  <2>4. r = FReg(o.rd) \cup FReg(o.rs1)
    BY <2>1, <2>2, <2>3, RegsOfEffects
  <2>5. name \in NamesFf
    BY <1>3 DEF NamesFf
  <2> HIDE DEF r
  <2> QED BY <2>4, <2>5, NamedByKind
<1>4. CASE name \in {"fadd_s", "fsub_s", "fmul_s", "fdiv_s", "fmin_s", "fmax_s"}
  <2> DEFINE write == E!WriteF(o.rd, E!Value(name, <<E!F(o.rs1), E!F(o.rs2), E!Rm(o)>>))
  <2>1. e = E!Cancelled(E!RVF_Compute(name, o))
    BY <1>4 DEF E!ProcessRVF
  <2>2. E!RVF_Compute(name, o) = E!UpdateFpCsr(E!NotifyFpDirty(write))
    <3>1. E!RVF_Compute(name, o) = E!UpdateFpCsr(E!NotifyFpDirty(E!WriteF(o.rd, E!Value(name, <<E!F(o.rs1), E!F(o.rs2)>> \o <<E!Rm(o)>>))))
      BY <1>4 DEF E!RVF_Compute
    <3>2. <<E!F(o.rs1), E!F(o.rs2)>> \o <<E!Rm(o)>> = <<E!F(o.rs1), E!F(o.rs2), E!Rm(o)>>
      BY ConcatOne
    <3> QED BY <3>1, <3>2
  <2>3. Registers(write) = FReg(o.rd) \cup FReg(o.rs1) \cup FReg(o.rs2)
    BY WriteF_FFR
  <2> HIDE DEF write, e
  <2>4. r = FReg(o.rd) \cup FReg(o.rs1) \cup FReg(o.rs2)
    BY <2>1, <2>2, <2>3, RegsOfEffects
  <2>5. name \in NamesFff
    BY <1>4 DEF NamesFff
  <2> HIDE DEF r
  <2> QED BY <2>4, <2>5, NamedByKind
<1>5. CASE name \in {"feq_s", "flt_s", "fle_s"}
  <2> DEFINE write == E!WriteX(o.rd, E!Value(name, <<E!F(o.rs1), E!F(o.rs2)>>))
  <2>1. e = E!Cancelled(E!RVF_Compare(name, o))
    BY <1>5 DEF E!ProcessRVF
  <2>2. E!RVF_Compare(name, o) = E!UpdateFpCsr(write)
    BY <1>5 DEF E!RVF_Compare
  <2>3. Registers(write) = XReg(o.rd) \cup FReg(o.rs1) \cup FReg(o.rs2)
    BY WriteX_FF
  <2> HIDE DEF write, e
  <2>4. r = XReg(o.rd) \cup FReg(o.rs1) \cup FReg(o.rs2)
    BY <2>1, <2>2, <2>3, RegsOfEffects
  <2>5. name \in NamesXff
    BY <1>5 DEF NamesXff
  <2> HIDE DEF r
  <2> QED BY <2>4, <2>5, NamedByKind
<1>6. CASE name \in {"fclass_s", "fmv_x_w"}
  <2> DEFINE write == E!WriteX(o.rd, E!Value(name, <<E!F(o.rs1)>>))
  <2>1. e = E!Cancelled(E!RVF_ClassOrMove(name, o))
    BY <1>6 DEF E!ProcessRVF
  <2>2. E!RVF_ClassOrMove(name, o) = write
    BY <1>6 DEF E!RVF_ClassOrMove
  <2>3. Registers(write) = XReg(o.rd) \cup FReg(o.rs1)
    BY WriteX_F
  <2> HIDE DEF write, e
  <2>4. r = XReg(o.rd) \cup FReg(o.rs1)
    BY <2>1, <2>2, <2>3, RegsOfEffects
  <2>5. name \in NamesXf
    BY <1>6 DEF NamesXf
  <2> HIDE DEF r
  <2> QED BY <2>4, <2>5, NamedByKind
<1>7. CASE name \in {"fmv_w_x"}
  <2> DEFINE write == E!WriteF(o.rd, E!Copy(E!X(o.rs1)))
  <2>1. e = E!Cancelled(E!RVF_ClassOrMove(name, o))
    BY <1>7 DEF E!ProcessRVF
  <2>2. E!RVF_ClassOrMove(name, o) = E!NotifyFpDirty(write)
    BY <1>7 DEF E!RVF_ClassOrMove
  <2>3. Registers(write) = FReg(o.rd) \cup XReg(o.rs1)
    BY WriteF_CopyX
  <2> HIDE DEF write, e
  <2>4. r = FReg(o.rd) \cup XReg(o.rs1)
    BY <2>1, <2>2, <2>3, RegsOfEffects
  <2>5. name \in NamesFx
    BY <1>7 DEF NamesFx
  <2> HIDE DEF r
  <2> QED BY <2>4, <2>5, NamedByKind
<1>8. CASE name \in {"fcvt_w_s", "fcvt_wu_s", "fcvt_l_s", "fcvt_lu_s"}
  <2> DEFINE write == E!WriteX(o.rd, E!Value(name, <<E!F(o.rs1), E!Rm(o)>>))
  <2>1. e = E!Cancelled(E!RVF_ConvertToInt(name, o))
    BY <1>8 DEF E!ProcessRVF
  <2>2. E!RVF_ConvertToInt(name, o) = E!UpdateFpCsr(write)
    BY <1>8 DEF E!RVF_ConvertToInt
  <2>3. Registers(write) = XReg(o.rd) \cup FReg(o.rs1)
    BY WriteX_FR
  <2> HIDE DEF write, e
  <2>4. r = XReg(o.rd) \cup FReg(o.rs1)
    BY <2>1, <2>2, <2>3, RegsOfEffects
  <2>5. name \in NamesXf
    BY <1>8 DEF NamesXf
  <2> HIDE DEF r
  <2> QED BY <2>4, <2>5, NamedByKind
<1>9. CASE name \in {"fsgnj_s", "fsgnjn_s", "fsgnjx_s"}
  <2> DEFINE write == E!WriteF(o.rd, E!Value(name, <<E!F(o.rs1), E!F(o.rs2)>>))
  <2>1. e = E!Cancelled(E!RVF_ConvertSign(name, o))
    BY <1>9 DEF E!ProcessRVF
  <2>2. E!RVF_ConvertSign(name, o) = E!UpdateFpCsr(E!NotifyFpDirty(write))
    BY <1>9 DEF E!RVF_ConvertSign
  <2>3. Registers(write) = FReg(o.rd) \cup FReg(o.rs1) \cup FReg(o.rs2)
    BY WriteF_FF
  <2> HIDE DEF write, e
  <2>4. r = FReg(o.rd) \cup FReg(o.rs1) \cup FReg(o.rs2)
    BY <2>1, <2>2, <2>3, RegsOfEffects
  <2>5. name \in NamesFff
    BY <1>9 DEF NamesFff
  <2> HIDE DEF r
  <2> QED BY <2>4, <2>5, NamedByKind
<1>10. CASE name = "flw"
  <2> DEFINE v == E!Loaded(4, "float")
             base == E!X(o.rs1)
             load == E!Loading(E!WriteF(o.rd, v), 4, base, o.imm)
  <2>1. e = E!Cancelled(E!NotifyFpDirty(load))
    BY <1>10 DEF E!ProcessRVF, E!RV32F_Load, E!RV64F_Load
  <2>2. ValueRegs(v) = {}
    BY RegsOfValues
  <2>3. Reg(base) = XReg(o.rs1)
    BY RegsOfOperands
  <2> HIDE DEF v, base
  <2>4. Registers(load) = FReg(o.rd) \cup ValueRegs(v) \cup Reg(base)
    BY RegsOfEffects
  <2> HIDE DEF load, e
  <2>5. r = FReg(o.rd) \cup XReg(o.rs1)
    BY <2>1, <2>2, <2>3, <2>4, NoUnion, RegsOfEffects
  <2> HIDE DEF r
  <2> QED BY <1>10, <2>5, NamedByKind
<1>11. CASE name = "fsw"
  <2> DEFINE base == E!X(o.rs1)
             data == E!F(o.rs2)
             store == E!Storing(4, base, o.imm, data)
  <2>1. e = E!Cancelled(store)
    BY <1>11 DEF E!ProcessRVF, E!RV32F_Store, E!RV64F_Store
  <2>2. Reg(base) = XReg(o.rs1) /\ Reg(data) = FReg(o.rs2)
    BY RegsOfOperands
  <2> HIDE DEF base, data
  <2>3. Registers(store) = Reg(base) \cup Reg(data)
    BY RegsOfEffects
  <2> HIDE DEF store, e
  <2>4. r = FReg(o.rs2) \cup XReg(o.rs1)
    BY <2>1, <2>2, <2>3, Commutes, RegsOfEffects
  <2> HIDE DEF r
  <2> QED BY <1>11, <2>4, NamedByKind
<1> QED
  BY <1>1, <1>2, <1>3, <1>4, <1>5, <1>6, <1>7, <1>8, <1>9, <1>10, <1>11 DEF Singles

LEMMA NamedByProcessD ==
  ASSUME NEW x, NEW o, NEW name \in Doubles
  PROVE  NamedBy(name, o, Registers(E!ProcessRVD(x, name, o)))
<1> DEFINE e == E!ProcessRVD(x, name, o)
           r == Registers(e)
<1> SUFFICES NamedBy(name, o, r)
  OBVIOUS
<1>1. CASE name \in {"fmadd_d", "fmsub_d", "fnmadd_d", "fnmsub_d"}
  <2> DEFINE write == E!WriteF(o.rd, E!Value(name, <<E!F(o.rs1), E!F(o.rs2), E!F(o.rs3), E!Rm(o)>>))
  <2>1. e = E!Cancelled(E!RVD_MulAdd(name, o))
    BY <1>1 DEF E!ProcessRVD
  <2>2. E!RVD_MulAdd(name, o) = E!UpdateFpCsr(E!NotifyFpDirty(write))
    BY <1>1 DEF E!RVD_MulAdd
  <2>3. Registers(write) = FReg(o.rd) \cup FReg(o.rs1) \cup FReg(o.rs2) \cup FReg(o.rs3)
    BY WriteF_FFFR
  <2> HIDE DEF write, e
  <2>4. r = FReg(o.rd) \cup FReg(o.rs1) \cup FReg(o.rs2) \cup FReg(o.rs3)
    BY <2>1, <2>2, <2>3, RegsOfEffects
  <2>5. name \in NamesFused
    BY <1>1 DEF NamesFused
  <2> HIDE DEF r
  <2> QED BY <2>4, <2>5, NamedByKind
<1>2. CASE name \in {"fcvt_d_w", "fcvt_d_wu", "fcvt_d_l", "fcvt_d_lu"}
  <2> DEFINE write == E!WriteF(o.rd, E!Value(name, <<E!X(o.rs1), E!Rm(o)>>))
  <2>1. e = E!Cancelled(E!RVD_Compute(name, o))
    BY <1>2 DEF E!ProcessRVD
  <2>2. E!RVD_Compute(name, o) = E!UpdateFpCsr(E!NotifyFpDirty(write))
    <3>1. E!RVD_Compute(name, o) = E!UpdateFpCsr(E!NotifyFpDirty(E!WriteF(o.rd, E!Value(name, <<E!X(o.rs1)>> \o <<E!Rm(o)>>))))
      BY <1>2 DEF E!RVD_Compute
    <3>2. <<E!X(o.rs1)>> \o <<E!Rm(o)>> = <<E!X(o.rs1), E!Rm(o)>>
      BY ConcatOne
    <3> QED BY <3>1, <3>2
  <2>3. Registers(write) = FReg(o.rd) \cup XReg(o.rs1)
    BY WriteF_XR
  <2> HIDE DEF write, e
  <2>4. r = FReg(o.rd) \cup XReg(o.rs1)
    BY <2>1, <2>2, <2>3, RegsOfEffects
  <2>5. name \in NamesFx
    BY <1>2 DEF NamesFx
  <2> HIDE DEF r
  <2> QED BY <2>4, <2>5, NamedByKind
<1>3. CASE name \in {"fsqrt_d"}
  <2> DEFINE write == E!WriteF(o.rd, E!Value(name, <<E!F(o.rs1), E!Rm(o)>>))
  <2>1. e = E!Cancelled(E!RVD_Compute(name, o))
    BY <1>3 DEF E!ProcessRVD
  <2>2. E!RVD_Compute(name, o) = E!UpdateFpCsr(E!NotifyFpDirty(write))
    <3>1. E!RVD_Compute(name, o) = E!UpdateFpCsr(E!NotifyFpDirty(E!WriteF(o.rd, E!Value(name, <<E!F(o.rs1)>> \o <<E!Rm(o)>>))))
      BY <1>3 DEF E!RVD_Compute
    <3>2. <<E!F(o.rs1)>> \o <<E!Rm(o)>> = <<E!F(o.rs1), E!Rm(o)>>
      BY ConcatOne
    <3> QED BY <3>1, <3>2
  <2>3. Registers(write) = FReg(o.rd) \cup FReg(o.rs1)
    BY WriteF_FR
  <2> HIDE DEF write, e
  <2>4. r = FReg(o.rd) \cup FReg(o.rs1)
    BY <2>1, <2>2, <2>3, RegsOfEffects
  <2>5. name \in NamesFf
    BY <1>3 DEF NamesFf
  <2> HIDE DEF r
  <2> QED BY <2>4, <2>5, NamedByKind
<1>4. CASE name \in {"fadd_d", "fsub_d", "fmul_d", "fdiv_d", "fmin_d", "fmax_d"}
  <2> DEFINE write == E!WriteF(o.rd, E!Value(name, <<E!F(o.rs1), E!F(o.rs2), E!Rm(o)>>))
  <2>1. e = E!Cancelled(E!RVD_Compute(name, o))
    BY <1>4 DEF E!ProcessRVD
  <2>2. E!RVD_Compute(name, o) = E!UpdateFpCsr(E!NotifyFpDirty(write))
    <3>1. E!RVD_Compute(name, o) = E!UpdateFpCsr(E!NotifyFpDirty(E!WriteF(o.rd, E!Value(name, <<E!F(o.rs1), E!F(o.rs2)>> \o <<E!Rm(o)>>))))
      BY <1>4 DEF E!RVD_Compute
    <3>2. <<E!F(o.rs1), E!F(o.rs2)>> \o <<E!Rm(o)>> = <<E!F(o.rs1), E!F(o.rs2), E!Rm(o)>>
      BY ConcatOne
    <3> QED BY <3>1, <3>2
  <2>3. Registers(write) = FReg(o.rd) \cup FReg(o.rs1) \cup FReg(o.rs2)
    BY WriteF_FFR
  <2> HIDE DEF write, e
  <2>4. r = FReg(o.rd) \cup FReg(o.rs1) \cup FReg(o.rs2)
    BY <2>1, <2>2, <2>3, RegsOfEffects
  <2>5. name \in NamesFff
    BY <1>4 DEF NamesFff
  <2> HIDE DEF r
  <2> QED BY <2>4, <2>5, NamedByKind
<1>5. CASE name \in {"feq_d", "flt_d", "fle_d"}
  <2> DEFINE write == E!WriteX(o.rd, E!Value(name, <<E!F(o.rs1), E!F(o.rs2)>>))
  <2>1. e = E!Cancelled(E!RVD_Compare(name, o))
    BY <1>5 DEF E!ProcessRVD
  <2>2. E!RVD_Compare(name, o) = E!UpdateFpCsr(write)
    BY <1>5 DEF E!RVD_Compare
  <2>3. Registers(write) = XReg(o.rd) \cup FReg(o.rs1) \cup FReg(o.rs2)
    BY WriteX_FF
  <2> HIDE DEF write, e
  <2>4. r = XReg(o.rd) \cup FReg(o.rs1) \cup FReg(o.rs2)
    BY <2>1, <2>2, <2>3, RegsOfEffects
  <2>5. name \in NamesXff
    BY <1>5 DEF NamesXff
  <2> HIDE DEF r
  <2> QED BY <2>4, <2>5, NamedByKind
<1>6. CASE name \in {"fclass_d", "fmv_x_d"}
  <2> DEFINE write == E!WriteX(o.rd, E!Value(name, <<E!F(o.rs1)>>))
  <2>1. e = E!Cancelled(E!RVD_ClassOrMove(name, o))
    BY <1>6 DEF E!ProcessRVD
  <2>2. E!RVD_ClassOrMove(name, o) = write
    BY <1>6 DEF E!RVD_ClassOrMove
  <2>3. Registers(write) = XReg(o.rd) \cup FReg(o.rs1)
    BY WriteX_F
  <2> HIDE DEF write, e
  <2>4. r = XReg(o.rd) \cup FReg(o.rs1)
    BY <2>1, <2>2, <2>3, RegsOfEffects
  <2>5. name \in NamesXf
    BY <1>6 DEF NamesXf
  <2> HIDE DEF r
  <2> QED BY <2>4, <2>5, NamedByKind
<1>7. CASE name \in {"fmv_d_x"}
  <2> DEFINE write == E!WriteF(o.rd, E!Copy(E!X(o.rs1)))
  <2>1. e = E!Cancelled(E!RVD_ClassOrMove(name, o))
    BY <1>7 DEF E!ProcessRVD
  <2>2. E!RVD_ClassOrMove(name, o) = E!NotifyFpDirty(write)
    BY <1>7 DEF E!RVD_ClassOrMove
  <2>3. Registers(write) = FReg(o.rd) \cup XReg(o.rs1)
    BY WriteF_CopyX
  <2> HIDE DEF write, e
  <2>4. r = FReg(o.rd) \cup XReg(o.rs1)
    BY <2>1, <2>2, <2>3, RegsOfEffects
  <2>5. name \in NamesFx
    BY <1>7 DEF NamesFx
  <2> HIDE DEF r
  <2> QED BY <2>4, <2>5, NamedByKind
<1>8. CASE name \in {"fcvt_w_d", "fcvt_wu_d", "fcvt_l_d", "fcvt_lu_d"}
  <2> DEFINE write == E!WriteX(o.rd, E!Value(name, <<E!F(o.rs1), E!Rm(o)>>))
  <2>1. e = E!Cancelled(E!RVD_ConvertToInt(name, o))
    BY <1>8 DEF E!ProcessRVD
  <2>2. E!RVD_ConvertToInt(name, o) = E!UpdateFpCsr(write)
    BY <1>8 DEF E!RVD_ConvertToInt
  <2>3. Registers(write) = XReg(o.rd) \cup FReg(o.rs1)
    BY WriteX_FR
  <2> HIDE DEF write, e
  <2>4. r = XReg(o.rd) \cup FReg(o.rs1)
    BY <2>1, <2>2, <2>3, RegsOfEffects
  <2>5. name \in NamesXf
    BY <1>8 DEF NamesXf
  <2> HIDE DEF r
  <2> QED BY <2>4, <2>5, NamedByKind
<1>9. CASE name \in {"fsgnj_d", "fsgnjn_d", "fsgnjx_d"}
  <2> DEFINE write == E!WriteF(o.rd, E!Value(name, <<E!F(o.rs1), E!F(o.rs2)>>))
  <2>1. e = E!Cancelled(E!RVD_ConvertSign(name, o))
    BY <1>9 DEF E!ProcessRVD
  <2>2. E!RVD_ConvertSign(name, o) = E!UpdateFpCsr(E!NotifyFpDirty(write))
    BY <1>9 DEF E!RVD_ConvertSign
  <2>3. Registers(write) = FReg(o.rd) \cup FReg(o.rs1) \cup FReg(o.rs2)
    BY WriteF_FF
  <2> HIDE DEF write, e
  <2>4. r = FReg(o.rd) \cup FReg(o.rs1) \cup FReg(o.rs2)
    BY <2>1, <2>2, <2>3, RegsOfEffects
  <2>5. name \in NamesFff
    BY <1>9 DEF NamesFff
  <2> HIDE DEF r
  <2> QED BY <2>4, <2>5, NamedByKind
<1>10. CASE name \in {"fcvt_s_d", "fcvt_d_s"}
  <2> DEFINE write == E!WriteF(o.rd, E!Value(name, <<E!F(o.rs1)>>))
  <2>1. e = E!Cancelled(E!RVD_ConvertWidth(name, o))
    BY <1>10 DEF E!ProcessRVD
  <2>2. E!RVD_ConvertWidth(name, o) = E!UpdateFpCsr(E!NotifyFpDirty(write))
    BY <1>10 DEF E!RVD_ConvertWidth
  <2>3. Registers(write) = FReg(o.rd) \cup FReg(o.rs1)
    BY WriteF_F
  <2> HIDE DEF write, e
  <2>4. r = FReg(o.rd) \cup FReg(o.rs1)
    BY <2>1, <2>2, <2>3, RegsOfEffects
  <2>5. name \in NamesFf
    BY <1>10 DEF NamesFf
  <2> HIDE DEF r
  <2> QED BY <2>4, <2>5, NamedByKind
<1>11. CASE name = "fld"
  <2> DEFINE v == E!Loaded(8, "float")
             base == E!X(o.rs1)
             load == E!Loading(E!WriteF(o.rd, v), 8, base, o.imm)
  <2>1. e = E!Cancelled(E!NotifyFpDirty(load))
    BY <1>11 DEF E!ProcessRVD, E!RV32D_Load, E!RV64D_Load
  <2>2. ValueRegs(v) = {}
    BY RegsOfValues
  <2>3. Reg(base) = XReg(o.rs1)
    BY RegsOfOperands
  <2> HIDE DEF v, base
  <2>4. Registers(load) = FReg(o.rd) \cup ValueRegs(v) \cup Reg(base)
    BY RegsOfEffects
  <2> HIDE DEF load, e
  <2>5. r = FReg(o.rd) \cup XReg(o.rs1)
    BY <2>1, <2>2, <2>3, <2>4, NoUnion, RegsOfEffects
  <2> HIDE DEF r
  <2> QED BY <1>11, <2>5, NamedByKind
<1>12. CASE name = "fsd"
  <2> DEFINE base == E!X(o.rs1)
             data == E!F(o.rs2)
             store == E!Storing(8, base, o.imm, data)
  <2>1. e = E!Cancelled(store)
    BY <1>12 DEF E!ProcessRVD, E!RV32D_Store, E!RV64D_Store
  <2>2. Reg(base) = XReg(o.rs1) /\ Reg(data) = FReg(o.rs2)
    BY RegsOfOperands
  <2> HIDE DEF base, data
  <2>3. Registers(store) = Reg(base) \cup Reg(data)
    BY RegsOfEffects
  <2> HIDE DEF store, e
  <2>4. r = FReg(o.rs2) \cup XReg(o.rs1)
    BY <2>1, <2>2, <2>3, Commutes, RegsOfEffects
  <2> HIDE DEF r
  <2> QED BY <1>12, <2>4, NamedByKind
<1> QED
  BY <1>1, <1>2, <1>3, <1>4, <1>5, <1>6, <1>7, <1>8, <1>9, <1>10, <1>11, <1>12 DEF Doubles

\* Every instruction the executor runs names the registers of its kind.
LEMMA EffectNamed ==
  ASSUME NEW x \in Xlens, NEW a, a.class \in {"I", "M", "A", "F", "D"}, a.name \in Names(x, a.class)
  PROVE  NamedBy(a.name, a.operand, Registers(E!ProcessOp(x, a)))
<1>1. CASE a.class = "I"
  BY <1>1, NamedByProcess32I, NamedByProcess64I DEF E!ProcessOp, Names
<1>2. CASE a.class = "M"
  BY <1>2, NamedByProcessM DEF E!ProcessOp, Names
<1>3. CASE a.class = "A"
  BY <1>3, NamedByProcessA DEF E!ProcessOp, Names
<1>4. CASE a.class = "F"
  BY <1>4, NamedByProcessF DEF E!ProcessOp, Names
<1>5. CASE a.class = "D"
  BY <1>5, NamedByProcessD DEF E!ProcessOp, Names
<1> QED
  BY <1>1, <1>2, <1>3, <1>4, <1>5

-----------------------------------------------------------------------------
(* Full words: the registers of the line are those of the instruction. *)

RegisterFields == {"rd", "rs1", "rs2", "rs3"}

\* The operands agree about the registers the constructor of a name takes.
Agree(name, m, o) ==
  \A n \in DOMAIN T!ConstructorOf(name) :
    T!ConstructorOf(name)[n] \in RegisterFields => m[T!ConstructorOf(name)[n]] = o[T!ConstructorOf(name)[n]]

\* The names of one group or another.
Grouped ==
  NamesD \cup NamesDS \cup NamesST \cup NamesAlu \cup NamesMulDiv \cup NamesAmo \cup NamesNone \cup {"flw", "fld", "fsw", "fsd"}
    \cup NamesFused \cup NamesFff \cup NamesFf \cup NamesXff \cup NamesXf \cup NamesFx

\* Operands that agree about the registers of a group name the same ones.
LEMMA SameSets ==
  ASSUME NEW name \in Grouped, NEW o, NEW m, NEW r, NEW t, NamedBy(name, o, r), NamedBy(name, m, t),
         name \in NamesD => m.rd = o.rd,
         name \in NamesDS => m.rd = o.rd /\ m.rs1 = o.rs1,
         name \in NamesST => m.rs1 = o.rs1 /\ m.rs2 = o.rs2,
         name \in NamesAlu \cup NamesMulDiv \cup NamesAmo => m.rd = o.rd /\ m.rs1 = o.rs1 /\ m.rs2 = o.rs2,
         name \in {"flw", "fld"} => m.rd = o.rd /\ m.rs1 = o.rs1,
         name \in {"fsw", "fsd"} => m.rs2 = o.rs2 /\ m.rs1 = o.rs1,
         name \in NamesFused => m.rd = o.rd /\ m.rs1 = o.rs1 /\ m.rs2 = o.rs2 /\ m.rs3 = o.rs3,
         name \in NamesFff \cup NamesXff => m.rd = o.rd /\ m.rs1 = o.rs1 /\ m.rs2 = o.rs2,
         name \in NamesFf \cup NamesXf \cup NamesFx => m.rd = o.rd /\ m.rs1 = o.rs1
  PROVE  r = t
<1>1. CASE name \in NamesD
  BY Zenon, <1>1 DEF NamedBy
<1>2. CASE name \in NamesDS
  BY Zenon, <1>2 DEF NamedBy
<1>3. CASE name \in NamesST
  BY Zenon, <1>3 DEF NamedBy
<1>4. CASE name \in NamesAlu \cup NamesMulDiv \cup NamesAmo
  BY Zenon, <1>4 DEF NamedBy
<1>5. CASE name \in NamesNone
  BY Zenon, <1>5 DEF NamedBy
<1>6. CASE name \in {"flw", "fld"}
  BY Zenon, <1>6 DEF NamedBy
<1>7. CASE name \in {"fsw", "fsd"}
  BY Zenon, <1>7 DEF NamedBy
<1>8. CASE name \in NamesFused
  BY Zenon, <1>8 DEF NamedBy
<1>9. CASE name \in NamesFff
  BY Zenon, <1>9 DEF NamedBy
<1>10. CASE name \in NamesFf
  BY Zenon, <1>10 DEF NamedBy
<1>11. CASE name \in NamesXff
  BY Zenon, <1>11 DEF NamedBy
<1>12. CASE name \in NamesXf
  BY Zenon, <1>12 DEF NamedBy
<1>13. CASE name \in NamesFx
  BY Zenon, <1>13 DEF NamedBy
<1> QED
  BY <1>1, <1>2, <1>3, <1>4, <1>5, <1>6, <1>7, <1>8, <1>9, <1>10, <1>11, <1>12, <1>13 DEF Grouped

LEMMA ShiftConstructor ==
  ASSUME NEW name \in Renamed
  PROVE  T!ConstructorOf(name) = T!Shift
<1>1. /\ name \in T!RV64I_ShiftImm
      /\ name \notin T!RV64I_UpperAndJump /\ name \notin T!RV64I_Branch \cup T!RV64I_Store \cup {"fsw", "fsd"}
      /\ name \notin T!RV64I_Load \cup T!RV64I_AluImm \cup {"jalr", "fence_i", "flw", "fld"}
  BY DEF Renamed, T!RV64I_UpperAndJump, T!RV32I_UpperAndJump, T!RV64I_Branch, T!RV32I_Branch, T!RV64I_Store,
         T!RV32I_Store, T!RV64I_Load, T!RV32I_Load, T!RV64I_AluImm, T!RV32I_AluImm, T!RV64I_ShiftImm, T!RV32I_ShiftImm
<1>2. name \notin T!RV64I_Add \cup T!RV64I_Logic \cup T!RV64M_Classes \cup T!SignNames \cup T!CompareNames
  BY DEF Renamed, T!RV64I_Add, T!RV64I_Logic, T!RV64M_Classes, T!RV32M_Classes, T!SignNames, T!RV32F_Sign, T!RV32D_Sign,
         T!CompareNames, T!RV32F_Compare, T!RV32D_Compare
<1>3. /\ name \notin T!MoveNames \cup {"fclass_s", "fclass_d"}
      /\ name \notin (T!RV64I_Privileged \ {"sfence_vma"}) \cup {"ecall", "ebreak", "nop"}
      /\ name \notin {"fence", "sfence_vma"} /\ name \notin T!RV64I_Csr /\ name \notin T!RV64I_CsrImm
  BY DEF Renamed, T!MoveNames, T!RV64I_Privileged, T!RV32I_Privileged, T!RV64I_Csr, T!RV32I_Csr, T!RV64I_CsrImm, T!RV32I_CsrImm
<1>4. /\ name \notin {"lr_w", "lr_d"} /\ name \notin {"sc_w", "sc_d"} \cup T!RV64A_Amo
      /\ name \notin T!FusedNames /\ name \notin T!ArithmeticNames
  BY DEF Renamed, T!RV64A_Amo, T!RV32A_Amo, T!FusedNames, T!RV32F_Fused, T!RV32D_Fused,
         T!ArithmeticNames, T!RV32F_Arithmetic, T!RV32D_Arithmetic
<1>5. name \notin T!RV64F_Conversion \cup T!RV64D_Conversion \cup {"fsqrt_s", "fsqrt_d"}
  BY DEF Renamed, T!RV64F_Conversion, T!RV32F_Conversion, T!RV64D_Conversion, T!RV32D_Conversion
<1> QED
  BY Zenon, <1>1, <1>2, <1>3, <1>4, <1>5 DEF T!ConstructorOf

\* The registers each constructor takes are those of its group.
LEMMA AgreeByGroup ==
  ASSUME NEW name, NEW o, NEW m, Agree(name, m, o)
  PROVE  /\ name \in NamesD => m.rd = o.rd
         /\ name \in NamesDS => m.rd = o.rd /\ m.rs1 = o.rs1
         /\ name \in NamesST => m.rs1 = o.rs1 /\ m.rs2 = o.rs2
         /\ name \in NamesAlu \cup NamesMulDiv \cup NamesAmo => m.rd = o.rd /\ m.rs1 = o.rs1 /\ m.rs2 = o.rs2
         /\ name \in {"flw", "fld"} => m.rd = o.rd /\ m.rs1 = o.rs1
         /\ name \in NamesFused => m.rd = o.rd /\ m.rs1 = o.rs1 /\ m.rs2 = o.rs2 /\ m.rs3 = o.rs3
         /\ name \in NamesFff \cup NamesXff => m.rd = o.rd /\ m.rs1 = o.rs1 /\ m.rs2 = o.rs2
         /\ name \in NamesFf \cup NamesXf \cup NamesFx => m.rd = o.rd /\ m.rs1 = o.rs1
<1> DEFINE c == T!ConstructorOf(name)
<1>1. /\ c = T!Jump => m.rd = o.rd
      /\ c = T!TwoSources => m.rs1 = o.rs1 /\ m.rs2 = o.rs2
      /\ c \in {T!Immediate, T!Shift, T!Two, T!CsrRegister, T!Reserved, T!Converted} => m.rd = o.rd /\ m.rs1 = o.rs1
      /\ c \in {T!Three, T!Ordered, T!Rounded} => m.rd = o.rd /\ m.rs1 = o.rs1 /\ m.rs2 = o.rs2
      /\ c = T!CsrImmediate => m.rd = o.rd
      /\ c = T!Fused => m.rd = o.rd /\ m.rs1 = o.rs1 /\ m.rs2 = o.rs2 /\ m.rs3 = o.rs3
  <2>1. \A n \in DOMAIN c : c[n] \in RegisterFields => m[c[n]] = o[c[n]]
    BY DEF Agree
  <2> HIDE DEF c
  <2>2. c = T!Jump => m.rd = o.rd
    BY <2>1 DEF T!Jump, RegisterFields
  <2>3. c = T!TwoSources => m.rs1 = o.rs1 /\ m.rs2 = o.rs2
    BY <2>1 DEF T!TwoSources, RegisterFields
  <2>4. c \in {T!Immediate, T!Shift, T!Two, T!Reserved, T!Converted} => m.rd = o.rd /\ m.rs1 = o.rs1
    BY <2>1 DEF T!Immediate, T!Shift, T!Two, T!Reserved, T!Converted, RegisterFields
  <2>5. c = T!CsrRegister => m.rd = o.rd /\ m.rs1 = o.rs1
    BY <2>1 DEF T!CsrRegister, RegisterFields
  <2>6. c \in {T!Three, T!Ordered, T!Rounded} => m.rd = o.rd /\ m.rs1 = o.rs1 /\ m.rs2 = o.rs2
    BY <2>1 DEF T!Three, T!Ordered, T!Rounded, RegisterFields
  <2>7. c = T!CsrImmediate => m.rd = o.rd
    BY <2>1 DEF T!CsrImmediate, RegisterFields
  <2>8. c = T!Fused => m.rd = o.rd /\ m.rs1 = o.rs1 /\ m.rs2 = o.rs2 /\ m.rs3 = o.rs3
    BY <2>1 DEF T!Fused, RegisterFields
  <2> QED
    BY Zenon, <2>2, <2>3, <2>4, <2>5, <2>6, <2>7, <2>8
<1>2. /\ name \in NamesD => c \in {T!Jump, T!CsrImmediate}
      /\ name \in NamesDS => c \in {T!Immediate, T!Shift, T!CsrRegister, T!Reserved}
      /\ name \in NamesST => c = T!TwoSources
      /\ name \in NamesAlu \cup NamesMulDiv => c = T!Three
      /\ name \in NamesAmo => c = T!Ordered
      /\ name \in {"flw", "fld"} => c = T!Immediate
      /\ name \in NamesFused => c = T!Fused
      /\ name \in NamesFff => c \in {T!Three, T!Rounded}
      /\ name \in NamesXff => c = T!Three
      /\ name \in NamesFf \cup NamesXf \cup NamesFx => c \in {T!Two, T!Converted}
  <2>1. name \in NamesD => c \in {T!Jump, T!CsrImmediate}
    BY Zenon, Constructors DEF NamesD
  <2>2. name \in NamesDS => c \in {T!Immediate, T!Shift, T!CsrRegister, T!Reserved}
    BY Zenon, Constructors, ShiftConstructor DEF NamesDS, Renamed
  <2>3. name \in NamesST => c = T!TwoSources
    BY Zenon, Constructors DEF NamesST
  <2>4. name \in NamesAlu \cup NamesMulDiv => c = T!Three
    BY Zenon, Constructors DEF NamesAlu, NamesMulDiv
  <2>5. name \in NamesAmo => c = T!Ordered
    BY Zenon, Constructors DEF NamesAmo
  <2>6. name \in {"flw", "fld"} => c = T!Immediate
    BY Zenon, Constructors
  <2>7. name \in NamesFused => c = T!Fused
    BY Zenon, Constructors DEF NamesFused
  <2>8. name \in NamesFff => c \in {T!Three, T!Rounded}
    BY Zenon, Constructors DEF NamesFff
  <2>9. name \in NamesXff => c = T!Three
    BY Zenon, Constructors DEF NamesXff
  <2>10. name \in NamesFf \cup NamesXf \cup NamesFx => c \in {T!Two, T!Converted}
    BY Zenon, Constructors DEF NamesFf, NamesXf, NamesFx
  <2> QED
    BY Zenon, <2>1, <2>2, <2>3, <2>4, <2>5, <2>6, <2>7, <2>8, <2>9, <2>10
<1> HIDE DEF c
<1> QED
  BY Zenon, <1>1, <1>2

LEMMA AgreedSets ==
  ASSUME NEW name \in Grouped, name \notin {"fsw", "fsd"}, NEW o, NEW m, NEW r, NEW t,
         NamedBy(name, o, r), NamedBy(name, m, t), Agree(name, m, o)
  PROVE  r = t
<1>1. /\ name \in NamesD => m.rd = o.rd
      /\ name \in NamesDS => m.rd = o.rd /\ m.rs1 = o.rs1
      /\ name \in NamesST => m.rs1 = o.rs1 /\ m.rs2 = o.rs2
      /\ name \in NamesAlu \cup NamesMulDiv \cup NamesAmo => m.rd = o.rd /\ m.rs1 = o.rs1 /\ m.rs2 = o.rs2
      /\ name \in {"flw", "fld"} => m.rd = o.rd /\ m.rs1 = o.rs1
      /\ name \in NamesFused => m.rd = o.rd /\ m.rs1 = o.rs1 /\ m.rs2 = o.rs2 /\ m.rs3 = o.rs3
      /\ name \in NamesFff \cup NamesXff => m.rd = o.rd /\ m.rs1 = o.rs1 /\ m.rs2 = o.rs2
      /\ name \in NamesFf \cup NamesXf \cup NamesFx => m.rd = o.rd /\ m.rs1 = o.rs1
  BY AgreeByGroup
<1> QED
  BY Zenon, <1>1, SameSets

\* Every instruction of the executor but beq and sfence.vma is in a group.
LEMMA AllGrouped ==
  ASSUME NEW x \in Xlens, NEW class \in {"I", "M", "A", "F", "D"}, NEW name \in Names(x, class), name \notin {"beq", "sfence_vma"}
  PROVE  name \in Grouped
<1>1. CASE class = "I"
  <2>1. name \in Integers64
    BY <1>1 DEF Names, Integers64
  <2> QED
    BY <2>1 DEF Integers64, Integers32, E!Csrs, E!CsrImms, Grouped, NamesD, NamesDS, NamesST, NamesAlu, NamesNone
<1>2. CASE class = "M"
  BY <1>2 DEF Names, E!MulDivs32, E!MulDivs64, Grouped, NamesMulDiv
<1>3. CASE class = "A"
  BY <1>3 DEF Names, Atomics32, Atomics64, E!AmoFunctions32, E!AmoFunctions64, Grouped, NamesAmo, NamesDS
<1>4. CASE class = "F"
  BY <1>4 DEF Names, Singles, Grouped, NamesFused, NamesFff, NamesFf, NamesXff, NamesXf, NamesFx
<1>5. CASE class = "D"
  BY <1>5 DEF Names, Doubles, Grouped, NamesFused, NamesFff, NamesFf, NamesXff, NamesXf, NamesFx
<1> QED
  BY <1>1, <1>2, <1>3, <1>4, <1>5

LEMMA SameAgrees ==
  ASSUME NEW w, NEW a, NEW b, Same(w, a, b), a.name \in T!Classes64, a.name \notin {"fence", "fence_i", "fsw", "fsd"}
  PROVE  Agree(a.name, T!Members(T!ConstructorOf(a.name), b.args), a.operand)
<1> DEFINE c == T!ConstructorOf(a.name)
           m == T!Members(c, b.args)
<1>1. Distinct(c)
  BY HasConstructor
<1>2. Fits(w, a, b.args, c)
  BY DEF Same
<1>3. SUFFICES ASSUME NEW n \in DOMAIN c, c[n] \in RegisterFields
               PROVE  m[c[n]] = a.operand[c[n]]
  BY Zenon DEF Agree
<1> HIDE DEF c
<1>4. m[c[n]] = b.args[n]
  BY <1>1, MemberOf
<1>5. c[n] \in DOMAIN a.operand /\ n \in DOMAIN b.args
  BY <1>2, <1>3 DEF Fits, RegisterFields
<1>6. ~Misreads(w, a, c[n])
  BY <1>3 DEF Misreads, RegisterFields
<1>7. b.args[n] = Says(w, a.operand, c[n])
  BY <1>2, <1>5, <1>6 DEF Fits
<1>8. Says(w, a.operand, c[n]) = a.operand[c[n]]
  BY <1>3, <1>5, SaysOperand DEF RegisterFields
<1> QED
  BY <1>4, <1>7, <1>8

LEMMA KnownSecond ==
  ASSUME NEW x \in Xlens, NEW b, b.name \in DOMAIN T!Parameters(x)
  PROVE  b.name \in T!Classes64 /\ b.name # "unknown" /\ T!Parameters(x)[b.name] = T!ConstructorOf(b.name)
<1>1. b.name \in T!Classes64
  BY BothWidths DEF T!Parameters, T!Parameters32, T!Parameters64
<1>2. T!Parameters(x)[b.name] = T!ConstructorOf(b.name)
  BY DEF T!Parameters, T!Parameters32, T!Parameters64
<1>3. "unknown" \notin T!Classes64
  BY SMTT(60) DEF T!Classes64, T!RV64I_Fence, T!RV32I_Fence, T!RV64A_Reservation,
       T!RV32F_Classes, T!RV64F_Classes, T!RV32D_Classes, T!RV64D_Classes,
       T!RV64I_UpperAndJump, T!RV32I_UpperAndJump, T!RV64I_Branch, T!RV32I_Branch, T!RV64I_Store, T!RV32I_Store,
       T!RV64I_Load, T!RV32I_Load, T!RV64I_AluImm, T!RV32I_AluImm, T!RV64I_ShiftImm, T!RV32I_ShiftImm, T!RV64I_Add,
       T!RV64I_Logic, T!RV64M_Classes, T!RV32M_Classes, T!RV32F_Sign, T!RV32D_Sign,
       T!RV32F_Compare, T!RV32D_Compare, T!RV64I_Privileged, T!RV32I_Privileged, T!RV64I_Csr, T!RV32I_Csr,
       T!RV64I_CsrImm, T!RV32I_CsrImm, T!RV64A_Amo, T!RV32A_Amo, T!RV32F_Fused, T!RV32D_Fused,
       T!RV32F_Arithmetic, T!RV32D_Arithmetic, T!RV64F_Conversion, T!RV32F_Conversion,
       T!RV64D_Conversion, T!RV32D_Conversion
<1> QED
  BY <1>1, <1>2, <1>3

\* Shifts of words and the shifts they are taken for have the same registers.
LEMMA LosesWNamed ==
  ASSUME NEW w \in Fulls, NEW a, NEW b, LosesW(w, a, b), b.name # "unknown"
  PROVE  /\ a.name \in NamesDS /\ a.operand.rd = w.rd /\ a.operand.rs1 = w.rs1
         /\ b.name \in {"slli", "srli", "srai"} /\ b.args = <<w.rd, w.rs1, w.rs2>>
<1> DEFINE name == CASE w.funct7 = 0 -> D!Nth(<<"unknown", "slliw", "unknown", "unknown", "unknown", "srliw">>, w.funct3)
                     [] w.funct7 = 32 /\ w.funct3 = 5 -> "sraiw"
                     [] OTHER -> "unknown"
           shift == O!Shift(w, w.funct7, 32)
<1>1. w.funct3 # 0
  BY DEF LosesW, Renamed, D!WordImm, D!Op
<1>2. a = D!Named("I", name, D!OperandShiftImm(w, 5)) /\ a.name \in Renamed
  BY <1>1 DEF LosesW, D!WordImm
<1>3. b = O!New(shift, <<w.rd, w.rs1, w.rs2>>)
  BY <1>1 DEF LosesW, O!Word64
<1>4. shift \in {"slli", "srli", "srai", "unknown"}
  BY DEF O!Shift, O!Nth, Fulls
<1> HIDE DEF name, shift
<1>5. a = D!Op("I", name, D!OperandShiftImm(w, 5))
  BY <1>2 DEF D!Named, D!Unknown, D!Op, Renamed
<1>6. a.operand.rd = w.rd /\ a.operand.rs1 = w.rs1
  BY <1>5 DEF D!Op, D!OperandShiftImm
<1>7. b.name \in {"slli", "srli", "srai"} /\ b.args = <<w.rd, w.rs1, w.rs2>>
  BY <1>3, <1>4 DEF O!New, O!Make, O!Nullptr
<1> QED
  BY <1>2, <1>6, <1>7 DEF NamesDS, Renamed

LEMMA FullNamed ==
  ASSUME NEW x \in Xlens, NEW w \in Fulls, NEW a, NEW b, a = D!Decode(x, w), b = O!Decode(x, w), a.name # "unknown",
         b.name \in DOMAIN T!Parameters(x), a.name \notin {"beq", "sfence_vma", "fsw", "fsd"}
  PROVE  Registers(E!ProcessOp(x, a)) = ShownRegisters(T!TextOf(x, b))
<1> DEFINE r == Registers(E!ProcessOp(x, a))
           t == ShownRegisters(T!TextOf(x, b))
           m == T!Members(T!ConstructorOf(b.name), b.args)
<1>1. b.name \in T!Classes64 /\ b.name # "unknown" /\ T!Parameters(x)[b.name] = T!ConstructorOf(b.name)
  BY KnownSecond
<1>2. a.class \in {"I", "M", "A", "F", "D"} /\ a.name \in Names(x, a.class)
  BY DecodesFull DEF KnownOp, Classes
<1>3. NamedBy(a.name, a.operand, r)
  BY <1>2, EffectNamed
<1>4. NamedBy(b.name, m, t)
  BY <1>1, TextNamed
<1>5. Same(w, a, b) \/ LosesW(w, a, b)
  BY <1>1, SameDecode
<1> SUFFICES r = t
  OBVIOUS
<1> HIDE DEF r, t
<1>6. CASE Same(w, a, b)
  <2>1. b.name = a.name
    BY <1>6 DEF Same
  <2>2. a.name \in Grouped
    BY <1>2, AllGrouped
  <2>3. CASE a.name \in {"fence", "fence_i"}
    BY Zenon, <1>3, <1>4, <2>1, <2>3 DEF NamedBy, NamesNone
  <2>4. CASE a.name \notin {"fence", "fence_i"}
    <3>1. Agree(a.name, m, a.operand)
      BY <1>1, <1>6, <2>1, <2>4, SameAgrees
    <3> QED
      BY Zenon, <1>3, <1>4, <2>1, <2>2, <3>1, AgreedSets
  <2> QED
    BY <2>3, <2>4
<1>7. CASE LosesW(w, a, b)
  <2>1. /\ a.name \in NamesDS /\ a.operand.rd = w.rd /\ a.operand.rs1 = w.rs1
        /\ b.name \in {"slli", "srli", "srai"} /\ b.args = <<w.rd, w.rs1, w.rs2>>
    BY <1>1, <1>7, LosesWNamed
  <2>2. T!ConstructorOf(b.name) = T!Shift
    BY <2>1, Constructors
  <2>3. m.rd = w.rd /\ m.rs1 = w.rs1
    BY <2>1, <2>2, ShiftMembers
  <2> HIDE DEF m
  <2>4. r = XReg(w.rd) \cup XReg(w.rs1)
    BY Zenon, <1>3, <2>1 DEF NamedBy
  <2>5. t = XReg(w.rd) \cup XReg(w.rs1)
    <3>1. b.name \in NamesDS
      BY <2>1 DEF NamesDS
    <3> QED
      BY Zenon, <1>4, <2>3, <3>1 DEF NamedBy
  <2> QED
    BY <2>4, <2>5
<1> QED
  BY <1>5, <1>6, <1>7

-----------------------------------------------------------------------------
(* Compressed words: the registers of the line are those of the instruction. *)

\* One instruction run and printed with the same operands names the same registers.
LEMMA BaseNamed ==
  ASSUME NEW x \in Xlens, NEW b, b.name \in Bases(x), b.name \in DOMAIN T!Parameters(x), b.name # "beq"
  PROVE  Registers(BaseEffect(x, b.name, T!Members(T!Parameters(x)[b.name], b.args))) = ShownRegisters(T!TextOf(x, b))
<1> DEFINE name == b.name
           m == T!Members(T!Parameters(x)[b.name], b.args)
           t == ShownRegisters(T!TextOf(x, b))
           r == Registers(BaseEffect(x, name, m))
<1>1. NamedBy(name, m, t)
  BY TextNamed
<1> HIDE DEF m, t
<1>2. SUFFICES r = t
  BY DEF m, t
<1>3. CASE name = "nop"
  <2>1. r = {}
    BY <1>3, RegsOfEffects DEF BaseEffect
  <2>2. t = {}
    BY <1>1, <1>3 DEF NamedBy, NamesNone
  <2> QED
    BY <2>1, <2>2
<1>4. CASE name # "nop"
  <2> DEFINE a == [class |-> BaseClass(name), name |-> name, operand |-> m]
  <2>1. a.class = BaseClass(name) /\ a.name = name /\ a.operand = m
    OBVIOUS
  <2>2. BaseEffect(x, name, m) = E!ProcessOp(x, a)
    BY <1>4 DEF BaseEffect
  <2>3. BaseClass(name) \in {"I", "F", "D"} /\ name \in Names(x, BaseClass(name))
    BY <1>4 DEF Bases, BaseClass, Names, Integers32, Integers64, Singles, Doubles, Xlens
  <2> HIDE DEF a, name
  <2>4. NamedBy(name, m, Registers(E!ProcessOp(x, a)))
    BY <2>1, <2>3, EffectNamed
  <2>5. name \in Grouped
    <3>1. name \in Bases(x) /\ name \notin {"beq", "sfence_vma"}
      BY DEF Bases, name
    <3> QED
      BY <2>3, <3>1, AllGrouped
  <2>6. Registers(E!ProcessOp(x, a)) = t
    BY Zenon, <1>1, <2>4, <2>5, SameSets DEF name
  <2> QED
    BY <2>2, <2>6 DEF name
<1> QED
  BY <1>3, <1>4

\* A store that exchanges its registers still names the two.
LEMMA SwappedNamed ==
  ASSUME NEW x \in Xlens, NEW o, NEW short, NEW name, NEW size, <<short, name, size>> \in {<<"c_sw", "sw", 4>>, <<"c_sd", "sd", 8>>},
         name = "sd" => x = 64
  PROVE  Registers(E!ProcessOp(x, D!Op("C", short, o))) = ShownRegisters(T!TextOf(x, O!Make(name, <<o.rs2, o.rs1, o.imm>>)))
<1> DEFINE b == O!Make(name, <<o.rs2, o.rs1, o.imm>>)
           m == T!Members(T!Parameters(x)[b.name], b.args)
           t == ShownRegisters(T!TextOf(x, b))
           r == Registers(E!ProcessOp(x, D!Op("C", short, o)))
<1>1. r = XReg(o.rs1) \cup XReg(o.rs2)
  <2>1. Seen(E!ProcessOp(x, D!Op("C", short, o))) = Seen(E!StoreC(o, E!X(o.rs1), size))
    BY CompressedMemory
  <2>2. r = Registers(E!StoreC(o, E!X(o.rs1), size))
    BY <2>1 DEF Seen
  <2>3. Registers(E!StoreC(o, E!X(o.rs1), size)) = Reg(E!X(o.rs1)) \cup Reg(E!X(o.rs2))
    BY RegsOfEffects DEF E!StoreC
  <2> QED
    BY <2>2, <2>3, RegsOfOperands
<1>2. b.name = name /\ b.args = <<o.rs2, o.rs1, o.imm>>
  BY DEF O!Make
<1>3. T!Parameters(x)[name] = T!TwoSources
  <2>1. name \in Bases(x) /\ T!ConstructorOf(name) = T!TwoSources
    BY Constructors DEF Bases
  <2> QED
    BY <2>1, ExpansionClasses
<1>4. m.rs1 = o.rs2 /\ m.rs2 = o.rs1
  BY <1>2, <1>3, TwoSourcesMembers
<1>5. NamedBy(name, m, t)
  BY <1>2, TextNamed
<1>6. SUFFICES r = t
  OBVIOUS
<1> HIDE DEF m, t, r, b
<1>7. name \in NamesST
  BY DEF NamesST
<1>8. t = XReg(o.rs2) \cup XReg(o.rs1)
  BY Zenon, <1>4, <1>5, <1>7 DEF NamedBy
<1> QED
  BY <1>1, <1>8, Commutes

LEMMA ShortNamed ==
  ASSUME NEW x \in Xlens, NEW w \in Compresseds, NEW a, NEW b, a = D!DecodeC(x, w), b = O!DecodeC(x, w), a.name # "unknown",
         a.name \notin Unhandled(x), b.name \in DOMAIN T!Parameters(x), a.name # "c_beqz", a.name \notin WrongFile,
         ~(x = 64 /\ a.name = "c_addi4spn"), ~ShiftsByFar(a)
  PROVE  Registers(E!ProcessOp(x, a)) = ShownRegisters(T!TextOf(x, b))
<1>1. Expands(x, a, b) \/ Swaps(x, a, b)
  BY ExpandedWord DEF Expanded
<1>2. CASE Expands(x, a, b)
  <2>1. /\ b.name \in Bases(x) /\ b.name # "beq"
        /\ Registers(E!ProcessOp(x, a)) = Registers(BaseEffect(x, b.name, T!Members(T!Parameters(x)[b.name], b.args)))
    BY <1>2 DEF Expands, Seen
  <2> QED
    BY <2>1, BaseNamed
<1>3. CASE Swaps(x, a, b)
  <2>1. CASE \E o : a = D!Op("C", "c_sw", o) /\ b = O!Make("sw", <<o.rs2, o.rs1, o.imm>>)
    <3>1. PICK o : a = D!Op("C", "c_sw", o) /\ b = O!Make("sw", <<o.rs2, o.rs1, o.imm>>)
      BY <2>1
    <3>2. Registers(E!ProcessOp(x, D!Op("C", "c_sw", o))) = ShownRegisters(T!TextOf(x, O!Make("sw", <<o.rs2, o.rs1, o.imm>>)))
      BY SwappedNamed
    <3> QED
      BY <3>1, <3>2
  <2>2. CASE x = 64 /\ \E o : a = D!Op("C", "c_sd", o) /\ b = O!Make("sd", <<o.rs2, o.rs1, o.imm>>)
    <3>1. PICK o : a = D!Op("C", "c_sd", o) /\ b = O!Make("sd", <<o.rs2, o.rs1, o.imm>>)
      BY <2>2
    <3>2. Registers(E!ProcessOp(x, D!Op("C", "c_sd", o))) = ShownRegisters(T!TextOf(x, O!Make("sd", <<o.rs2, o.rs1, o.imm>>)))
      BY <2>2, SwappedNamed
    <3> QED
      BY <3>1, <3>2
  <2> QED
    BY <1>3, <2>1, <2>2 DEF Swaps
<1> QED
  BY <1>1, <1>2, <1>3

\* Whatever words are fetched, the line the printers make of one names the
\* registers the instruction reads and writes, each in its own file, but for
\* the differences Silent, WrongFile, DestinationLost and ShiftsFar name
\* (TextNamesRegisters): OpDecoder.cpp and the Op classes against Decoder.h
\* and the handlers of Executor.cpp.
THEOREM TextMatchesEffect == IsaSpec => []TextNamesRegisters
<1>1. IsaInv => TextNamesRegisters
  <2> SUFFICES ASSUME IsaInv, Executed, effect.handled, SecondKnown,
                      op.name \notin Silent \cup WrongFile, ~DestinationLost, ~ShiftsFar
               PROVE  Registers(effect) = ShownRegisters(T!TextOf(xlen, Second))
    BY DEF TextNamesRegisters
  <2>1. /\ xlen \in Xlens /\ insn \in Fetched /\ op = Decode(insn) /\ op.name # "unknown" /\ effect = E!ProcessOp(xlen, op)
        /\ Second.name \in DOMAIN T!Parameters(xlen)
    BY DEF IsaInv, SecondKnown
  <2>2. CASE insn.length = 4 /\ TheFull(insn) \in Fulls
    <3>1. op = D!Decode(xlen, TheFull(insn)) /\ Second = O!Decode(xlen, TheFull(insn))
      BY <2>1, <2>2 DEF Decode, DecodeOp, Second
    <3>2. op.name \notin {"beq", "sfence_vma", "fsw", "fsd"}
      BY DEF Silent, WrongFile
    <3> QED
      BY <2>1, <2>2, <3>1, <3>2, FullNamed
  <2>3. CASE insn.length = 2 /\ insn.short \in Compresseds
    <3>1. op = D!DecodeC(xlen, insn.short) /\ Second = O!DecodeC(xlen, insn.short)
      BY <2>1, <2>3 DEF Decode, DecodeOp, Second
    <3>2. op.class = "C"
      BY <2>3, IsaInvKnown
    <3>3. op.name \notin Unhandled(xlen)
      BY <2>1, <3>2, UnhandledStop
    <3>4. /\ op.name # "c_beqz" /\ op.name \notin WrongFile
          /\ ~(xlen = 64 /\ op.name = "c_addi4spn") /\ ~ShiftsByFar(op)
      BY DEF Silent, DestinationLost, ShiftsFar, ShiftsByFar
    <3> QED
      BY <2>1, <2>3, <3>1, <3>3, <3>4, ShortNamed
  <2> QED
    BY <2>1, <2>2, <2>3, FetchedWords
<1> QED
  BY <1>1, IsaInvariance, PTL

=============================================================================
