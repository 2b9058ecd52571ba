-------------------------- MODULE InsnBufferProofs --------------------------
(***************************************************************************)
(* Proofs about InsnBuffer for every ring size and every address space.    *)
(***************************************************************************)
EXTENDS InsnBuffer, TLAPS

\* Positions in the ring.
LEMMA IndexType == ASSUME NEW n \in Nat PROVE Index(n) \in Indices
  BY EntryCountAssumption, SMT DEF Index, Indices

LEMMA IndexSmall == ASSUME NEW n \in Indices PROVE Index(n) = n
  BY EntryCountAssumption, SMT DEF Index, Indices

LEMMA IndexDiv ==
  ASSUME NEW n \in Nat
  PROVE  \E q \in Nat : n = q * EntryCount + Index(n)
<1>1. n \div EntryCount \in Nat /\ n = (n \div EntryCount) * EntryCount + Index(n)
  BY EntryCountAssumption, SMT DEF Index
<1> QED
  BY <1>1

LEMMA IndexUnique ==
  ASSUME NEW q \in Nat, NEW r \in Indices
  PROVE  Index(q * EntryCount + r) = r
  BY EntryCountAssumption, SMT DEF Index, Indices

LEMMA IndexAdd ==
  ASSUME NEW a \in Nat, NEW b \in Nat
  PROVE  Index(Index(a) + b) = Index(a + b)
<1>1. PICK p \in Nat : a = p * EntryCount + Index(a)
  BY IndexDiv
<1>2. Index(a) \in Indices
  BY IndexType
<1>3. Index(a) + b \in Nat
  BY <1>2, EntryCountAssumption DEF Indices
<1>4. PICK q \in Nat : Index(a) + b = q * EntryCount + Index(Index(a) + b)
  BY <1>3, IndexDiv
<1>5. Index(Index(a) + b) \in Indices
  BY <1>3, IndexType
<1>6. a + b = (p + q) * EntryCount + Index(Index(a) + b)
  BY <1>1, <1>2, <1>4, <1>5, EntryCountAssumption, SMT DEF Indices
<1> QED
  BY <1>5, <1>6, IndexUnique

LEMMA IndexDistinct ==
  ASSUME NEW a \in Nat, NEW b \in Nat, a < b, b < a + EntryCount
  PROVE  Index(a) # Index(b)
<1> SUFFICES ASSUME Index(a) = Index(b) PROVE FALSE
  OBVIOUS
<1>1. PICK p \in Nat : a = p * EntryCount + Index(a)
  BY IndexDiv
<1>2. PICK q \in Nat : b = q * EntryCount + Index(b)
  BY IndexDiv
<1>3. Index(a) \in Nat
  BY IndexType, EntryCountAssumption DEF Indices
<1>4. b - a = (q - p) * EntryCount
  BY <1>1, <1>2, <1>3, EntryCountAssumption, SMT
<1>5. q - p > 0 /\ q - p < 1
  BY <1>4, EntryCountAssumption, SMT
<1> QED
  BY <1>5

-----------------------------------------------------------------------------
(* Types and counts *)

LEMMA NextAddressType ==
  /\ \A pc \in Pcs : (pc + 1) % PcCount \in Pcs /\ (pc + 2) % PcCount \in Pcs
  /\ \A pc \in Pcs : pc % 2 = 0 => pc + 1 \in Pcs
  /\ 0 \in Pcs
  BY PcCountAssumption, SMT DEF Pcs

\* How much a cycle writes and reads: never more than there is.
LEMMA Amounts ==
  ASSUME TypeOK, NEW stall \in BOOLEAN, NEW fetched \in BOOLEAN
  PROVE  /\ WriteLow(stall, fetched) => WriteHigh(stall, fetched)
         /\ WriteHigh(stall, fetched) => reg_writable_entry_count >= 2
         /\ ReadHigh(stall) => ReadLow(stall) /\ reg_readable_entry_count >= 2
         /\ ReadLow(stall) => reg_readable_entry_count >= 1
  BY EntryCountAssumption
     DEF TypeOK, WriteLow, WriteHigh, FetchStall, ReadHigh, ReadLow, Valid

LEMMA Counts ==
  ASSUME NEW n \in 0 .. EntryCount
  PROVE  Count(n) = n
  BY EntryCountAssumption, SMT DEF Count

LEMMA InitTypeOK == Init => TypeOK /\ CountsAgree
<1> SUFFICES ASSUME Init PROVE TypeOK /\ CountsAgree
  OBVIOUS
<1> USE DEF Init, Empty
<1>1. ZeroEntry \in Entries /\ Bubble \in [valid : BOOLEAN, pc : Pcs, compressed : BOOLEAN, trap : Traps]
  BY NextAddressType DEF ZeroEntry, Entries, Insns, Flags, Bubble, Traps
<1>2. 0 \in Indices
  BY EntryCountAssumption DEF Indices
<1>3. TypeOK
  <2>1. reg_entries \in [Indices -> Entries]
    BY <1>1
  <2>2. 0 \in 0 .. EntryCount /\ EntryCount \in 0 .. EntryCount
    BY EntryCountAssumption
  <2>3. "none" \in Traps
    BY DEF Traps
  <2>4. flushes \in 0 .. 2 /\ trap_info \in Traps
    BY <2>3
  <2>7. trapped \in BOOLEAN
    OBVIOUS
  <2>5. next_stage \in [valid : BOOLEAN, pc : Pcs, compressed : BOOLEAN, trap : Traps]
    BY <1>1
  <2>6. reg_readable_entry_count \in 0 .. EntryCount /\ reg_writable_entry_count \in 0 .. EntryCount
    BY <2>2
  <2>8. code \in [Pcs -> Insns]
    BY ProgramsAssumption
  <2> QED
    BY <1>2, <2>1, <2>4, <2>5, <2>6, <2>7, <2>8 DEF TypeOK
<1>4. CountsAgree
  BY <1>2, IndexSmall, EntryCountAssumption DEF CountsAgree
<1> QED
  BY <1>3, <1>4

LEMMA NextTypeOK == TypeOK /\ CountsAgree /\ [Next]_vars => TypeOK' /\ CountsAgree'
<1> SUFFICES ASSUME TypeOK, CountsAgree, [Next]_vars PROVE TypeOK' /\ CountsAgree'
  OBVIOUS
<1> USE DEF TypeOK
<1>z. /\ ZeroEntry \in Entries
      /\ Bubble \in [valid : BOOLEAN, pc : Pcs, compressed : BOOLEAN, trap : Traps]
  BY NextAddressType DEF ZeroEntry, Entries, Insns, Flags, Bubble, Traps
<1>i. 0 \in Indices
  BY EntryCountAssumption DEF Indices
<1>e. ReadEntryLow \in Entries /\ ReadEntryHigh \in Entries
  <2>1. reg_head + 1 \in Nat
    BY EntryCountAssumption DEF Indices
  <2> QED
    BY <2>1, IndexType DEF ReadEntryLow, ReadEntryHigh
<1>t. TrapInfo \in Traps
  BY <1>e DEF TrapInfo, OwnTrap, Traps
<1>1. ASSUME NEW nextPc \in Pcs, Flush(nextPc) PROVE TypeOK' /\ CountsAgree'
  <2>0. 0 \in 0 .. EntryCount /\ EntryCount \in 0 .. EntryCount
    BY EntryCountAssumption
  <2>e. reg_entries' \in [Indices -> Entries]
    BY <1>1, <1>z DEF Flush
  <2>f. flushes' \in 0 .. 2
    BY <1>1 DEF Flush
  <2>1. TypeOK'
    BY <1>1, <2>0, <2>e, <2>f, <1>z, <1>i, <1>t DEF Flush
  <2>2. CountsAgree'
    BY <1>1, <1>i, IndexSmall, EntryCountAssumption DEF Flush, CountsAgree
  <2> QED
    BY <2>1, <2>2
<1>2. ASSUME NEW stall \in BOOLEAN, NEW fetched \in BOOLEAN, NEW flag \in Flags,
             Step(stall, fetched, flag)
      PROVE  TypeOK' /\ CountsAgree'
  <2> DEFINE writeCount == (IF WriteLow(stall, fetched) THEN 1 ELSE 0)
                             + (IF WriteHigh(stall, fetched) THEN 1 ELSE 0)
             readCount == (IF ReadLow(stall) THEN 1 ELSE 0) + (IF ReadHigh(stall) THEN 1 ELSE 0)
  <2>a. /\ writeCount \in 0 .. 2 /\ writeCount <= reg_writable_entry_count
        /\ readCount \in 0 .. 2 /\ readCount <= reg_readable_entry_count
    BY Amounts
  <2>b. /\ reg_head' = Index(reg_head + readCount)
        /\ reg_tail' = Index(reg_tail + writeCount)
        /\ reg_readable_entry_count' = Count(reg_readable_entry_count + writeCount - readCount)
        /\ reg_writable_entry_count' = Count(reg_writable_entry_count + readCount - writeCount)
    BY <1>2 DEF Step, Transfer
  <2> HIDE DEF writeCount, readCount
  <2>n. reg_head \in Nat /\ reg_tail \in Nat /\ reg_readable_entry_count \in Nat
    BY EntryCountAssumption DEF Indices
  <2>s. reg_readable_entry_count + reg_writable_entry_count = EntryCount
    BY DEF CountsAgree
  <2>c. /\ reg_readable_entry_count + writeCount - readCount \in 0 .. EntryCount
        /\ reg_writable_entry_count + readCount - writeCount \in 0 .. EntryCount
    BY <2>a, <2>s, EntryCountAssumption
  <2>d. /\ reg_readable_entry_count' = reg_readable_entry_count + writeCount - readCount
        /\ reg_writable_entry_count' = reg_writable_entry_count + readCount - writeCount
    BY <2>b, <2>c, Counts
  <2>1. reg_head' \in Indices /\ reg_tail' \in Indices
    BY <2>a, <2>b, <2>n, IndexType
  <2>2. CountsAgree'
    <3>1. Index(reg_head' + reg_readable_entry_count')
            = Index(reg_head + readCount + reg_readable_entry_count')
      <4>1. reg_head + readCount \in Nat /\ reg_readable_entry_count' \in Nat
        BY <2>a, <2>c, <2>d, <2>n
      <4> QED
        BY <4>1, <2>b, IndexAdd
    <3>2. reg_head + readCount + reg_readable_entry_count'
            = (reg_head + reg_readable_entry_count) + writeCount
      BY <2>a, <2>d, <2>n
    <3>3. Index((reg_head + reg_readable_entry_count) + writeCount)
            = Index(reg_tail + writeCount)
      <4>1. reg_head + reg_readable_entry_count \in Nat /\ writeCount \in Nat
        BY <2>a, <2>n
      <4>2. Index(Index(reg_head + reg_readable_entry_count) + writeCount)
              = Index((reg_head + reg_readable_entry_count) + writeCount)
        BY <4>1, IndexAdd
      <4> QED
        BY <4>2 DEF CountsAgree
    <3>4. reg_readable_entry_count' + reg_writable_entry_count' = EntryCount
      BY <2>a, <2>d, <2>s, EntryCountAssumption
    <3> QED
      BY <2>b, <3>1, <3>2, <3>3, <3>4 DEF CountsAgree
  <2>3. reg_entries' \in [Indices -> Entries]
    <3>1. WriteEntryLow(flag) \in Entries /\ WriteEntryHigh(flag) \in Entries
      BY NextAddressType DEF WriteEntryLow, WriteEntryHigh, Entry, Entries
    <3> QED
      BY <1>2, <3>1 DEF Step, Transfer
  <2>4. fetch_pc' \in Pcs
    BY <1>2, NextAddressType DEF Step, NextFetchPc
  <2>5. next_stage' \in [valid : BOOLEAN, pc : Pcs, compressed : BOOLEAN, trap : Traps]
    <3>1. IsCompressed \in BOOLEAN /\ ReadEntryLow.pc \in Pcs
      BY <1>e DEF IsCompressed, Entries
    <3> QED
      BY <1>2, <1>t, <1>z, <3>1 DEF Step
  <2>6. trapped' \in BOOLEAN /\ flushes' \in 0 .. 2 /\ trap_info' \in Traps
        /\ code' \in [Pcs -> Insns]
    <3>1. ReadLow(stall) \in BOOLEAN
      BY DEF ReadLow, Valid
    <3> QED
      BY <1>2, <1>t, <3>1 DEF Step
  <2>7. reg_readable_entry_count' \in 0 .. EntryCount /\ reg_writable_entry_count' \in 0 .. EntryCount
    BY <2>c, <2>d
  <2> QED
    BY <2>1, <2>2, <2>3, <2>4, <2>5, <2>6, <2>7
<1>3. CASE UNCHANGED vars
  BY <1>3 DEF vars, buffer, CountsAgree, Index
<1> QED
  BY <1>1, <1>2, <1>3 DEF Next

\* Every variable of the front end keeps to its type: the counts never exceed
\* the ring, so neither stage writes over or reads past what is there.
THEOREM TypeCorrectness == Spec => []TypeOK
  BY InitTypeOK, NextTypeOK, PTL DEF Spec

\* The counts and the indices of InsnBuffer.sv always agree.
THEOREM CountsAgreement == Spec => []CountsAgree
  BY InitTypeOK, NextTypeOK, PTL DEF Spec

\* The fetch stage and the decode stage never both wait.
THEOREM NoMutualWait == Spec => []SomeoneCanMove
<1>1. TypeOK /\ CountsAgree => SomeoneCanMove
  BY EntryCountAssumption DEF TypeOK, CountsAgree, SomeoneCanMove, Valid
<1> QED
  BY <1>1, InitTypeOK, NextTypeOK, PTL DEF Spec

-----------------------------------------------------------------------------
(* The order of the halfwords *)

Inv == TypeOK /\ CountsAgree /\ Consecutive

\* What a cycle leaves in the ring: the old halfwords move by those read, the
\* written ones follow.
LEMMA Moves ==
  ASSUME TypeOK, CountsAgree, NEW stall \in BOOLEAN, NEW fetched \in BOOLEAN,
         NEW flag \in Flags, Step(stall, fetched, flag),
         NEW writeCount, NEW readCount,
         writeCount = (IF WriteLow(stall, fetched) THEN 1 ELSE 0)
                        + (IF WriteHigh(stall, fetched) THEN 1 ELSE 0),
         readCount = (IF ReadLow(stall) THEN 1 ELSE 0) + (IF ReadHigh(stall) THEN 1 ELSE 0)
  PROVE  /\ writeCount \in 0 .. 2 /\ writeCount <= reg_writable_entry_count
         /\ readCount \in 0 .. 2 /\ readCount <= reg_readable_entry_count
         /\ reg_readable_entry_count' = reg_readable_entry_count + writeCount - readCount
         /\ \A k \in 0 .. EntryCount : k + readCount < reg_readable_entry_count =>
              Nth(k)' = Nth(k + readCount)
         /\ \A k \in 0 .. EntryCount : k + readCount = reg_readable_entry_count
                                       /\ WriteHigh(stall, fetched) =>
              Nth(k)' = IF WriteLow(stall, fetched) THEN WriteEntryLow(flag) ELSE WriteEntryHigh(flag)
         /\ \A k \in 0 .. EntryCount : k + readCount = reg_readable_entry_count + 1
                                       /\ WriteLow(stall, fetched) =>
              Nth(k)' = WriteEntryHigh(flag)
<1>a. /\ writeCount \in 0 .. 2 /\ writeCount <= reg_writable_entry_count
      /\ readCount \in 0 .. 2 /\ readCount <= reg_readable_entry_count
  BY Amounts DEF TypeOK
<1>n. /\ reg_head \in Nat /\ reg_tail \in Nat /\ reg_readable_entry_count \in Nat
      /\ reg_readable_entry_count + reg_writable_entry_count = EntryCount
      /\ EntryCount \in Nat /\ reg_writable_entry_count \in Nat
  BY EntryCountAssumption DEF TypeOK, CountsAgree, Indices
<1>b. /\ reg_head' = Index(reg_head + readCount)
      /\ reg_readable_entry_count' = Count(reg_readable_entry_count + writeCount - readCount)
      /\ reg_entries' = [i \in Indices |->
           IF WriteLow(stall, fetched) /\ i = reg_tail THEN WriteEntryLow(flag)
           ELSE IF WriteHigh(stall, fetched)
                   /\ i = (IF WriteLow(stall, fetched) THEN Index(reg_tail + 1) ELSE reg_tail)
                THEN WriteEntryHigh(flag)
           ELSE reg_entries[i]]
  BY DEF Step, Transfer
<1>c. reg_readable_entry_count + writeCount - readCount \in 0 .. EntryCount
  BY <1>a, <1>n
<1>d. reg_readable_entry_count' = reg_readable_entry_count + writeCount - readCount
  BY <1>b, <1>c, Counts
<1>t. reg_tail = Index(reg_head + reg_readable_entry_count)
  BY DEF CountsAgree
<1>u. Index(reg_tail + 1) = Index(reg_head + reg_readable_entry_count + 1)
  <2>1. reg_head + reg_readable_entry_count \in Nat
    BY <1>n
  <2> QED
    BY <1>t, <2>1, IndexAdd
<1>w. /\ WriteHigh(stall, fetched) => reg_writable_entry_count >= 2
      /\ WriteLow(stall, fetched) => WriteHigh(stall, fetched)
  BY Amounts
<1>p. ASSUME NEW k \in 0 .. EntryCount
      PROVE  /\ Nth(k)' = reg_entries'[Index(reg_head + (k + readCount))]
             /\ Index(reg_head + (k + readCount)) \in Indices
  <2>1. reg_head + readCount \in Nat /\ k \in Nat /\ reg_head + (k + readCount) \in Nat
        /\ (reg_head + readCount) + k = reg_head + (k + readCount)
    BY <1>a, <1>n
  <2>2. Index(Index(reg_head + readCount) + k) = Index((reg_head + readCount) + k)
    BY <2>1, IndexAdd
  <2>3. Nth(k)' = reg_entries'[Index(reg_head' + k)]
    BY DEF Nth, Index
  <2> QED
    BY <1>b, <2>1, <2>2, <2>3, IndexType
<1>1. ASSUME NEW k \in 0 .. EntryCount, k + readCount < reg_readable_entry_count
      PROVE  Nth(k)' = Nth(k + readCount)
  <2> DEFINE j == k + readCount
  <2>1. /\ j \in Nat /\ reg_head + j \in Nat /\ reg_head + reg_readable_entry_count \in Nat
        /\ reg_head + j < reg_head + reg_readable_entry_count
        /\ reg_head + reg_readable_entry_count + 1 \in Nat
        /\ reg_head + j < reg_head + reg_readable_entry_count + 1
    BY <1>1, <1>a, <1>n
  <2>2. ASSUME WriteHigh(stall, fetched)
        PROVE  Index(reg_head + j) # reg_tail /\ Index(reg_head + j) # Index(reg_tail + 1)
    <3>1. /\ reg_head + reg_readable_entry_count < reg_head + j + EntryCount
          /\ reg_head + reg_readable_entry_count + 1 < reg_head + j + EntryCount
      BY <2>1, <2>2, <1>n, <1>w
    <3> QED
      BY <2>1, <3>1, <1>t, <1>u, IndexDistinct
  <2>4. reg_entries'[Index(reg_head + j)] = reg_entries[Index(reg_head + j)]
    BY <2>2, <1>b, <1>p, <1>w
  <2> QED
    BY <2>4, <1>p DEF Nth
<1>2. ASSUME NEW k \in 0 .. EntryCount, k + readCount = reg_readable_entry_count,
             WriteHigh(stall, fetched)
      PROVE  Nth(k)' = IF WriteLow(stall, fetched) THEN WriteEntryLow(flag) ELSE WriteEntryHigh(flag)
  <2>1. Nth(k)' = reg_entries'[reg_tail] /\ reg_tail \in Indices
    BY <1>2, <1>p, <1>t
  <2> QED
    BY <2>1, <1>2, <1>b
<1>3. ASSUME NEW k \in 0 .. EntryCount, k + readCount = reg_readable_entry_count + 1,
             WriteLow(stall, fetched)
      PROVE  Nth(k)' = WriteEntryHigh(flag)
  <2>1. /\ reg_head + reg_readable_entry_count \in Nat
        /\ reg_head + reg_readable_entry_count + 1 \in Nat
        /\ reg_head + reg_readable_entry_count < reg_head + reg_readable_entry_count + 1
        /\ reg_head + reg_readable_entry_count + 1 < reg_head + reg_readable_entry_count + EntryCount
        /\ reg_head + (k + readCount) = reg_head + reg_readable_entry_count + 1
    BY <1>3, <1>n, EntryCountAssumption
  <2>2. reg_tail # Index(reg_tail + 1)
    BY <2>1, <1>t, <1>u, IndexDistinct
  <2>3. Nth(k)' = reg_entries'[Index(reg_tail + 1)] /\ Index(reg_tail + 1) \in Indices
    BY <2>1, <1>p, <1>u
  <2> QED
    BY <2>2, <2>3, <1>3, <1>b, <1>w
<1> QED
  BY <1>a, <1>d, <1>1, <1>2, <1>3

LEMMA Addresses ==
  /\ \A pc \in Pcs : pc % PcCount = pc
  /\ \A pc \in Pcs : (((pc + 1) % PcCount) + 1) % PcCount = (pc + 2) % PcCount
  BY PcCountAssumption, SMT DEF Pcs

\* The fetched halfwords and the next fetch address, cycle by cycle.
LEMMA Fetched ==
  ASSUME TypeOK, NEW stall \in BOOLEAN, NEW fetched \in BOOLEAN,
         NEW flag \in Flags, Step(stall, fetched, flag)
  PROVE  /\ ~WriteHigh(stall, fetched) => fetch_pc' = fetch_pc
         /\ WriteHigh(stall, fetched) /\ ~WriteLow(stall, fetched) =>
              /\ fetch_pc' = (fetch_pc + 1) % PcCount
              /\ WriteEntryHigh(flag) = Entry(fetch_pc, flag)
         /\ WriteLow(stall, fetched) =>
              /\ fetch_pc' = (fetch_pc + 2) % PcCount
              /\ WriteEntryLow(flag) = Entry(fetch_pc, flag)
              /\ WriteEntryHigh(flag) = Entry((fetch_pc + 1) % PcCount, flag)
<1>1. fetch_pc' = NextFetchPc(stall, fetched) /\ fetch_pc \in Pcs
  BY DEF Step, TypeOK
<1>2. fetch_pc % 2 = 0 => (fetch_pc + 1) % PcCount = fetch_pc + 1
  BY <1>1, NextAddressType, Addresses
<1> QED
  BY <1>1, <1>2 DEF NextFetchPc, WriteLow, WriteEntryLow, WriteEntryHigh

\* The address a cycle leaves at each position, counted before its reads.
LEMMA MovedAddresses ==
  ASSUME Inv, NEW stall \in BOOLEAN, NEW fetched \in BOOLEAN,
         NEW flag \in Flags, Step(stall, fetched, flag),
         NEW writeCount, NEW readCount,
         writeCount = (IF WriteLow(stall, fetched) THEN 1 ELSE 0)
                        + (IF WriteHigh(stall, fetched) THEN 1 ELSE 0),
         readCount = (IF ReadLow(stall) THEN 1 ELSE 0) + (IF ReadHigh(stall) THEN 1 ELSE 0),
         NEW k \in 0 .. reg_readable_entry_count'
  PROVE  /\ k + readCount <= reg_readable_entry_count => PcAt(k)' = PcAt(k + readCount)
         /\ k + readCount = reg_readable_entry_count + 1 =>
              PcAt(k)' = (fetch_pc + 1) % PcCount
         /\ k + readCount = reg_readable_entry_count + 2 =>
              PcAt(k)' = (fetch_pc + 2) % PcCount
         /\ k < reg_readable_entry_count' => Nth(k)'.insn = code[Nth(k)'.pc]
<1> USE DEF Inv
<1>m. /\ writeCount \in 0 .. 2 /\ writeCount <= reg_writable_entry_count
      /\ readCount \in 0 .. 2 /\ readCount <= reg_readable_entry_count
      /\ reg_readable_entry_count' = reg_readable_entry_count + writeCount - readCount
  BY Moves
<1>n. reg_readable_entry_count \in Nat /\ EntryCount \in Nat
      /\ reg_readable_entry_count + reg_writable_entry_count = EntryCount
      /\ reg_writable_entry_count \in Nat
  BY EntryCountAssumption DEF TypeOK, CountsAgree
<1>k. k \in 0 .. EntryCount /\ k \in Nat
  BY <1>m, <1>n
<1>w. /\ WriteLow(stall, fetched) => WriteHigh(stall, fetched) /\ writeCount = 2
      /\ ~WriteLow(stall, fetched) /\ WriteHigh(stall, fetched) => writeCount = 1
      /\ ~WriteHigh(stall, fetched) => writeCount = 0
  BY Amounts
<1>p. PcAt(k)' = IF k = reg_readable_entry_count' THEN fetch_pc' ELSE Nth(k)'.pc
  BY DEF PcAt
<1>1. CASE k + readCount < reg_readable_entry_count
  <2>1. Nth(k)' = Nth(k + readCount)
    BY <1>1, <1>k, Moves
  <2>2. k < reg_readable_entry_count' /\ k + readCount \in 0 .. reg_readable_entry_count - 1
    BY <1>1, <1>k, <1>m, <1>n
  <2>3. PcAt(k)' = PcAt(k + readCount)
    BY <2>1, <2>2, <1>p, <1>k, <1>m, <1>n DEF PcAt
  <2>4. Nth(k)'.insn = code[Nth(k)'.pc]
    BY <2>1, <2>2 DEF Consecutive
  <2> QED
    BY <1>1, <2>3, <2>4, <1>k, <1>m, <1>n
<1>2. CASE k + readCount = reg_readable_entry_count
  <2>1. CASE WriteHigh(stall, fetched)
    <3>1. Nth(k)' = IF WriteLow(stall, fetched) THEN WriteEntryLow(flag) ELSE WriteEntryHigh(flag)
      BY <1>2, <2>1, <1>k, Moves
    <3>2. Nth(k)' = Entry(fetch_pc, flag)
      BY <2>1, <3>1, Fetched
    <3>3. k < reg_readable_entry_count'
      BY <1>2, <2>1, <1>w, <1>k, <1>m, <1>n
    <3>4. PcAt(k)' = fetch_pc /\ Nth(k)'.insn = code[Nth(k)'.pc]
      BY <3>2, <3>3, <1>p, <1>k, <1>m, <1>n DEF Entry
    <3> QED
      BY <1>2, <3>4, <1>k, <1>m, <1>n DEF PcAt
  <2>2. CASE ~WriteHigh(stall, fetched)
    <3>1. k = reg_readable_entry_count' /\ fetch_pc' = fetch_pc
      BY <1>2, <2>2, <1>w, <1>k, <1>m, <1>n, Fetched
    <3> QED
      BY <1>2, <3>1, <1>p, <1>k, <1>m, <1>n DEF PcAt
  <2> QED
    BY <2>1, <2>2
<1>3. CASE k + readCount = reg_readable_entry_count + 1
  <2>1. writeCount >= 1
    BY <1>3, <1>k, <1>m, <1>n
  <2>2. CASE WriteLow(stall, fetched)
    <3>1. Nth(k)' = Entry((fetch_pc + 1) % PcCount, flag)
      BY <1>3, <2>2, <1>k, Moves, Fetched
    <3>2. k < reg_readable_entry_count'
      BY <1>3, <2>2, <1>w, <1>k, <1>m, <1>n
    <3> QED
      BY <1>3, <3>1, <3>2, <1>p, <1>k, <1>m, <1>n DEF Entry
  <2>3. CASE ~WriteLow(stall, fetched)
    <3>1. k = reg_readable_entry_count' /\ fetch_pc' = (fetch_pc + 1) % PcCount
      BY <1>3, <2>1, <2>3, <1>w, <1>k, <1>m, <1>n, Fetched
    <3> QED
      BY <1>3, <3>1, <1>p, <1>k, <1>m, <1>n
  <2> QED
    BY <2>2, <2>3
<1>4. CASE k + readCount = reg_readable_entry_count + 2
  <2>1. WriteLow(stall, fetched) /\ k = reg_readable_entry_count'
    BY <1>4, <1>w, <1>k, <1>m, <1>n
  <2>2. fetch_pc' = (fetch_pc + 2) % PcCount
    BY <2>1, Fetched
  <2> QED
    BY <1>4, <2>1, <2>2, <1>p, <1>k, <1>m, <1>n
<1>5. k + readCount <= reg_readable_entry_count + 2
  BY <1>k, <1>m, <1>n
<1> QED
  BY <1>1, <1>2, <1>3, <1>4, <1>5, <1>k, <1>m, <1>n

LEMMA InitInv == Init => Inv
<1> SUFFICES ASSUME Init PROVE Consecutive
  BY InitTypeOK DEF Inv
<1>1. reg_readable_entry_count = 0
  BY DEF Init, Empty
<1> QED
  BY <1>1 DEF Consecutive

LEMMA NextInv == Inv /\ [Next]_vars => Inv'
<1> SUFFICES ASSUME Inv, [Next]_vars PROVE Consecutive'
  BY NextTypeOK DEF Inv
<1>1. ASSUME NEW nextPc \in Pcs, Flush(nextPc) PROVE Consecutive'
  <2>1. reg_readable_entry_count' = 0
    BY <1>1 DEF Flush
  <2> QED
    BY <2>1 DEF Consecutive
<1>2. ASSUME NEW stall \in BOOLEAN, NEW fetched \in BOOLEAN, NEW flag \in Flags,
             Step(stall, fetched, flag)
      PROVE  Consecutive'
  <2> DEFINE writeCount == (IF WriteLow(stall, fetched) THEN 1 ELSE 0)
                             + (IF WriteHigh(stall, fetched) THEN 1 ELSE 0)
             readCount == (IF ReadLow(stall) THEN 1 ELSE 0) + (IF ReadHigh(stall) THEN 1 ELSE 0)
  <2>m. /\ writeCount \in 0 .. 2 /\ readCount \in 0 .. 2 /\ readCount <= reg_readable_entry_count
        /\ reg_readable_entry_count' = reg_readable_entry_count + writeCount - readCount
    BY <1>2, Moves DEF Inv
  <2>a. \A k \in 0 .. reg_readable_entry_count' :
          /\ k + readCount <= reg_readable_entry_count => PcAt(k)' = PcAt(k + readCount)
          /\ k + readCount = reg_readable_entry_count + 1 => PcAt(k)' = (fetch_pc + 1) % PcCount
          /\ k + readCount = reg_readable_entry_count + 2 => PcAt(k)' = (fetch_pc + 2) % PcCount
          /\ k < reg_readable_entry_count' => Nth(k)'.insn = code[Nth(k)'.pc]
    BY <1>2, MovedAddresses
  <2> HIDE DEF writeCount, readCount
  <2>n. reg_readable_entry_count \in Nat /\ fetch_pc \in Pcs
    BY EntryCountAssumption DEF Inv, TypeOK
  <2>c. code' = code
    BY <1>2 DEF Step
  <2>1. ASSUME NEW k \in 0 .. reg_readable_entry_count' - 1
        PROVE  Nth(k)'.insn = code'[Nth(k)'.pc]
    BY <2>a, <2>c, <2>m, <2>n
  <2>2. ASSUME NEW k \in 1 .. reg_readable_entry_count'
        PROVE  PcAt(k)' = (PcAt(k - 1)' + 1) % PcCount
    <3>1. /\ k \in 0 .. reg_readable_entry_count' /\ k - 1 \in 0 .. reg_readable_entry_count'
          /\ k \in Nat /\ k >= 1 /\ (k - 1) + readCount = k + readCount - 1
      BY <2>m, <2>n
    <3>2. CASE k + readCount <= reg_readable_entry_count
      <4>1. PICK j \in 1 .. reg_readable_entry_count : j = k + readCount
        BY <3>1, <3>2, <2>m, <2>n
      <4>2. PcAt(j) = (PcAt(j - 1) + 1) % PcCount
        BY DEF Inv, Consecutive
      <4>3. PcAt(k)' = PcAt(j)
        BY <3>1, <3>2, <4>1, <2>a
      <4>4. PcAt(k - 1)' = PcAt(j - 1)
        <5>1. (k - 1) + readCount = j - 1 /\ (k - 1) + readCount <= reg_readable_entry_count
          BY <3>1, <4>1, <2>m, <2>n
        <5> QED
          BY <3>1, <5>1, <2>a
      <4> QED
        BY <4>2, <4>3, <4>4
    <3>3. CASE k + readCount = reg_readable_entry_count + 1
      <4>1. PcAt(k - 1)' = PcAt(reg_readable_entry_count)
        BY <3>1, <3>3, <2>a, <2>m, <2>n
      <4> QED
        BY <3>1, <3>3, <4>1, <2>a DEF PcAt
    <3>4. CASE k + readCount = reg_readable_entry_count + 2
      <4>1. PcAt(k - 1)' = (fetch_pc + 1) % PcCount /\ PcAt(k)' = (fetch_pc + 2) % PcCount
        BY <3>1, <3>4, <2>a, <2>m, <2>n
      <4> QED
        BY <4>1, <2>n, Addresses
    <3>5. k + readCount <= reg_readable_entry_count + 2
      BY <3>1, <2>m, <2>n
    <3> QED
      BY <3>1, <3>2, <3>3, <3>4, <3>5, <2>m, <2>n
  <2> QED
    BY <2>1, <2>2 DEF Consecutive, PcAt
<1>3. CASE UNCHANGED vars
  BY <1>3 DEF vars, buffer, Inv, Consecutive, PcAt, Nth, Index
<1> QED
  BY <1>1, <1>2, <1>3 DEF Next

LEMMA Invariance == Spec => []Inv
  BY InitInv, NextInv, PTL DEF Spec

\* The ring always holds consecutive halfwords of the program, up to the fetch
\* address.
THEOREM Order == Spec => []Consecutive
<1>1. Inv => Consecutive
  BY DEF Inv
<1> QED
  BY <1>1, Invariance, PTL

-----------------------------------------------------------------------------
(* Refinement *)

\* What the latch holds comes from a trap already delivered, or from the
\* instruction that is still at the head of the ring, or is about to be cleared.
LatchInv ==
  trap_info # "none" =>
    \/ trapped
    \/ reg_readable_entry_count = 0
    \/ Valid /\ OwnTrap = trap_info

\* The head of the ring by its positions.
LEMMA Heads ==
  ASSUME TypeOK
  PROVE  ReadEntryLow = Nth(0) /\ ReadEntryHigh = Nth(1)
<1>1. reg_head + 0 = reg_head /\ reg_head \in Indices
  BY EntryCountAssumption DEF TypeOK, Indices
<1> QED
  BY <1>1, IndexSmall DEF ReadEntryLow, ReadEntryHigh, Nth

LEMMA NextLatchInv == Inv /\ LatchInv /\ [Next]_vars => LatchInv'
<1> SUFFICES ASSUME Inv, LatchInv, [Next]_vars PROVE LatchInv'
  OBVIOUS
<1>1. ASSUME NEW nextPc \in Pcs, Flush(nextPc) PROVE LatchInv'
  BY <1>1 DEF Flush, LatchInv
<1>2. ASSUME NEW stall \in BOOLEAN, NEW fetched \in BOOLEAN, NEW flag \in Flags,
             Step(stall, fetched, flag)
      PROVE  LatchInv'
  <2> SUFFICES ASSUME trap_info' # "none", ~trapped'
               PROVE  Valid' /\ OwnTrap' = trap_info'
    BY DEF LatchInv
  <2>1. trap_info' = TrapInfo /\ ~trapped /\ ~(ReadLow(stall) /\ TrapInfo # "none")
    BY <1>2 DEF Step
  <2>2. Valid /\ TrapInfo # "none" /\ ~ReadLow(stall)
    BY <2>1 DEF TrapInfo
  <2>3. OwnTrap # "none" /\ TrapInfo = OwnTrap
    BY <2>1, <2>2 DEF TrapInfo, LatchInv, Valid
  <2> DEFINE writeCount == (IF WriteLow(stall, fetched) THEN 1 ELSE 0)
                             + (IF WriteHigh(stall, fetched) THEN 1 ELSE 0)
             readCount == (IF ReadLow(stall) THEN 1 ELSE 0) + (IF ReadHigh(stall) THEN 1 ELSE 0)
  <2>4. stall = TRUE /\ ~ReadHigh(stall)
    BY <2>2 DEF ReadLow, ReadHigh
  <2>5. writeCount = 0 /\ readCount = 0
    BY <2>2, <2>4 DEF WriteLow, WriteHigh, FetchStall
  <2>6. reg_readable_entry_count \in Nat /\ EntryCount \in Nat /\ EntryCount > 2
        /\ reg_readable_entry_count <= EntryCount
    BY EntryCountAssumption DEF Inv, TypeOK
  <2>7. /\ reg_readable_entry_count' = reg_readable_entry_count + writeCount - readCount
        /\ \A k \in 0 .. EntryCount :
             k + readCount < reg_readable_entry_count => Nth(k)' = Nth(k + readCount)
    BY <1>2, Moves DEF Inv
  <2> HIDE DEF writeCount, readCount
  <2>8. /\ reg_readable_entry_count' = reg_readable_entry_count
        /\ \A k \in 0 .. EntryCount : k < reg_readable_entry_count => Nth(k)' = Nth(k)
    BY <2>5, <2>6, <2>7
  <2>9. /\ ReadEntryLow = Nth(0) /\ ReadEntryHigh = Nth(1)
        /\ ReadEntryLow' = Nth(0)' /\ ReadEntryHigh' = Nth(1)'
    <3>1. reg_head' \in Indices
      BY NextTypeOK DEF Inv, TypeOK
    <3>2. Index(reg_head' + 0) = reg_head'
      BY <3>1, IndexSmall, EntryCountAssumption DEF Indices
    <3> QED
      BY <3>2, Heads DEF Inv, ReadEntryLow, ReadEntryHigh, Nth, Index
  <2>10. reg_readable_entry_count >= 1
    BY <2>2, <2>6 DEF Valid
  <2>11. ReadEntryLow' = ReadEntryLow
    BY <2>6, <2>8, <2>9, <2>10
  <2>12. reg_readable_entry_count >= 2 => ReadEntryHigh' = ReadEntryHigh
    BY <2>6, <2>8, <2>9
  <2>13. ~IsCompressed => reg_readable_entry_count >= 2
    BY <2>2 DEF Valid
  <2>14. Valid' /\ OwnTrap' = OwnTrap
    BY <2>2, <2>8, <2>11, <2>12, <2>13 DEF Valid, OwnTrap, Flagged, IsCompressed
  <2> QED
    BY <2>1, <2>3, <2>14
<1>3. CASE UNCHANGED vars
  BY <1>3 DEF vars, buffer, LatchInv, Valid, OwnTrap, Flagged, IsCompressed, ReadEntryLow,
              ReadEntryHigh, Index
<1> QED
  BY <1>1, <1>2, <1>3 DEF Next

LEMMA InitRefines == Init => Stream!Init
<1> SUFFICES ASSUME Init PROVE Stream!Init
  OBVIOUS
<1>1. PcAt(0) = fetch_pc
  BY DEF Init, Empty, PcAt
<1> QED
  BY <1>1 DEF Init, Stream!Init, Stream!Bubble, Stream!Pcs, Bubble, Pcs

LEMMA NextRefines ==
  Inv /\ LatchInv /\ [Next]_vars => [Stream!Next]_(Stream!vars)
<1> SUFFICES ASSUME Inv, LatchInv, [Next]_vars PROVE [Stream!Next]_(Stream!vars)
  OBVIOUS
<1> USE DEF Stream!vars
<1>1. ASSUME NEW nextPc \in Pcs, Flush(nextPc) PROVE Stream!Redirect
  <2>1. PcAt(0)' = nextPc
    BY <1>1 DEF Flush, PcAt
  <2> QED
    BY <1>1, <2>1 DEF Flush, Stream!Redirect, Stream!Pcs, Stream!Bubble, Bubble, Pcs
<1>2. ASSUME NEW stall \in BOOLEAN, NEW fetched \in BOOLEAN, NEW flag \in Flags,
             Step(stall, fetched, flag)
      PROVE  [Stream!Next]_(Stream!vars)
  <2> DEFINE writeCount == (IF WriteLow(stall, fetched) THEN 1 ELSE 0)
                             + (IF WriteHigh(stall, fetched) THEN 1 ELSE 0)
             readCount == (IF ReadLow(stall) THEN 1 ELSE 0) + (IF ReadHigh(stall) THEN 1 ELSE 0)
  <2>m. /\ readCount \in 0 .. 2 /\ readCount <= reg_readable_entry_count
        /\ reg_readable_entry_count' \in Nat /\ reg_readable_entry_count \in Nat
    BY <1>2, Moves, EntryCountAssumption, NextTypeOK DEF Inv, TypeOK
  <2>p. PcAt(0)' = PcAt(readCount)
    BY <1>2, <2>m, MovedAddresses
  <2>s. code' = code /\ trapped' = (trapped \/ (ReadLow(stall) /\ TrapInfo # "none"))
    BY <1>2 DEF Step
  <2>1. CASE stall
    <3>1. readCount = 0
      BY <2>1 DEF ReadLow, ReadHigh
    <3>2. next_stage' = next_stage /\ trapped' = trapped
      BY <1>2, <2>1, <2>s DEF Step, ReadLow, Inv, TypeOK
    <3> QED
      BY <2>p, <2>s, <3>1, <3>2
  <2>2. CASE ~stall /\ ~Valid
    <3>1. readCount = 0
      BY <2>2 DEF ReadLow, ReadHigh
    <3>2. next_stage' = Stream!Bubble /\ trapped' = trapped
      BY <1>2, <2>2, <2>s DEF Step, ReadLow, Bubble, Stream!Bubble, Inv, TypeOK
    <3>3. Stream!Nothing
      BY <2>p, <2>s, <3>1, <3>2 DEF Stream!Nothing
    <3> QED
      BY <3>3 DEF Stream!Next
  <2>3. CASE ~stall /\ Valid
    <3>1. /\ readCount = IF IsCompressed THEN 1 ELSE 2
          /\ reg_readable_entry_count >= readCount
      BY <2>3, <2>m DEF ReadLow, ReadHigh, Valid
    <3>2. PcAt(0) = ReadEntryLow.pc /\ ReadEntryLow.insn = code[PcAt(0)] /\ PcAt(0) \in Pcs
      <4>1. 0 # reg_readable_entry_count /\ 0 \in 0 .. reg_readable_entry_count - 1
        BY <3>1, <2>m
      <4>2. ReadEntryLow = Nth(0) /\ Nth(0).insn = code[Nth(0).pc] /\ PcAt(0) = Nth(0).pc
        BY <4>1, Heads DEF PcAt, Inv, Consecutive
      <4>3. reg_entries[reg_head].pc \in Pcs
        BY DEF Inv, TypeOK, Entries
      <4> QED
        BY <4>2, <4>3 DEF ReadEntryLow
    <3>3. PcAt(readCount) = (PcAt(0) + Stream!Size) % PcCount
      <4>1. Stream!Size = readCount
        BY <3>1, <3>2 DEF Stream!Size, IsCompressed
      <4>2. PcAt(1) = (PcAt(0) + 1) % PcCount
        BY <3>1, <2>m DEF Inv, Consecutive
      <4>3. readCount = 2 => PcAt(2) = (PcAt(1) + 1) % PcCount
        BY <3>1, <2>m DEF Inv, Consecutive
      <4> QED
        BY <3>1, <3>2, <4>1, <4>2, <4>3, Addresses
    <3>4. /\ next_stage' = [valid |-> TRUE, pc |-> PcAt(0), compressed |-> Stream!Size = 1,
                            trap |-> TrapInfo]
          /\ trapped' = (trapped \/ TrapInfo # "none")
      <4>1. IsCompressed = (Stream!Size = 1)
        BY <3>2 DEF Stream!Size, IsCompressed
      <4>2. next_stage' = [valid |-> TRUE, pc |-> ReadEntryLow.pc,
                           compressed |-> IsCompressed, trap |-> TrapInfo]
        BY <1>2, <2>3 DEF Step
      <4>3. ReadLow(stall) = TRUE
        BY <2>3 DEF ReadLow
      <4> QED
        BY <2>s, <3>2, <4>1, <4>2, <4>3
    <3>5. TrapInfo \in Stream!Deserved
      <4>1. ReadEntryLow.insn = "unknown" <=> code[PcAt(0)] = "unknown"
        BY <3>2
      <4>2. TrapInfo = OwnTrap \/ trapped
        BY <2>3, <2>m, <3>1 DEF TrapInfo, LatchInv
      <4>3. /\ OwnTrap \in {"none", "interrupt", "fault", "illegal"}
            /\ OwnTrap = "illegal" => ReadEntryLow.insn = "unknown"
            /\ ReadEntryLow.insn = "unknown" => OwnTrap # "none"
        BY DEF OwnTrap
      <4>4. TrapInfo \in {"none", "interrupt", "fault", "illegal"}
        BY <4>3 DEF TrapInfo, Inv, TypeOK, Traps
      <4> QED
        BY <4>1, <4>2, <4>3, <4>4 DEF Stream!Deserved
    <3>6. Stream!Deliver
      <4>1. PcAt(0)' = (PcAt(0) + Stream!Size) % PcCount
        BY <2>p, <3>3
      <4>2. \E trap \in Stream!Deserved :
              /\ next_stage' = [valid |-> TRUE, pc |-> PcAt(0),
                                compressed |-> Stream!Size = 1, trap |-> trap]
              /\ trapped' = (trapped \/ trap # "none")
        BY <3>4, <3>5
      <4> QED
        BY <2>s, <4>1, <4>2 DEF Stream!Deliver
    <3> QED
      BY <3>6 DEF Stream!Next
  <2> QED
    BY <2>1, <2>2, <2>3
<1>3. CASE UNCHANGED vars
  BY <1>3 DEF vars, buffer, PcAt, Nth, Index
<1> QED
  BY <1>1, <1>2, <1>3 DEF Next, Stream!Next

\* The front end delivers the program in order from each redirection on, and
\* every instruction with the trap it deserves, until one has trapped.
THEOREM Refinement == Spec => ImplementsInsnStream
<1>1. Init => LatchInv
  BY DEF Init, LatchInv
<1>2. Spec => []LatchInv
  BY <1>1, NextLatchInv, Invariance, PTL DEF Spec
<1> QED
  BY <1>2, InitRefines, NextRefines, Invariance, PTL DEF Spec, Stream!Spec, ImplementsInsnStream
=============================================================================
