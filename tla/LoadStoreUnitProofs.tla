------------------------- MODULE LoadStoreUnitProofs -------------------------
(***************************************************************************)
(* What holds of the load/store unit of the HDL core for lines of any      *)
(* length, any page tables and any instructions: it implements MemoryPort. *)
(***************************************************************************)
EXTENDS LoadStoreUnit, TLAPS

-----------------------------------------------------------------------------
(* The TLB.  A copy in it maps as the entry it was read from, which is what *)
(* keeps the tables in order when it is written back.                       *)

TlbStates == {"Default", "Invalidate", "PageTableRead1", "PageTableDecode1", "PageTableRead0", "PageTableDecode0", "Done"}

\* Where an entry of a table leads to.
Placed(a, entry) ==
  entry.page \in (IF a.page = RootPage /\ IsValidEntry(entry) /\ ~IsLeafEntry(entry)
                  THEN TablePages \ {RootPage} ELSE Pages)

Copied == tlb.valid \/ tlb.state \in {"Invalidate", "PageTableDecode1", "PageTableDecode0", "Done"}
TlbInv ==
  /\ tlb.state \in TlbStates /\ tlb.valid \in BOOLEAN
  /\ tlb.addr \in EntryAddrs /\ tlb.entry \in PageTableEntries
  /\ table \in [EntryAddrs -> PageTableEntries]
  /\ \A a \in EntryAddrs : Placed(a, table[a])
  /\ tlb.state \in {"PageTableRead1", "PageTableDecode1"} => tlb.addr.page = RootPage
  /\ tlb.state \in {"PageTableRead0", "PageTableDecode0"} => tlb.addr.page # RootPage
  /\ tlb.state \in {"PageTableRead1", "PageTableDecode1", "PageTableRead0", "PageTableDecode0"} => ~tlb.valid
  /\ tlb.state = "PageTableRead0" => tlb.entry.page \in TablePages \ {RootPage}
  /\ Copied => Mapping(tlb.entry) = Mapping(table[tlb.addr])

LEMMA MappingFacts ==
  ASSUME NEW e \in PageTableEntries, NEW f \in PageTableEntries, Mapping(e) = Mapping(f)
  PROVE e.page = f.page /\ (IsValidEntry(e) <=> IsValidEntry(f)) /\ (IsLeafEntry(e) <=> IsLeafEntry(f))
<1> DEFINE Kept(x) == [flags |-> x.flags \ {"A", "D"}, page |-> x.page]
<1>1. Mapping(e) = Kept(e) /\ Mapping(f) = Kept(f)
  BY DEF Mapping, PageTableEntries
<1>2. Kept(e) = Kept(f)
  BY <1>1
<1>3. e.page = f.page /\ e.flags \ {"A", "D"} = f.flags \ {"A", "D"}
  BY <1>2
<1>4. \A x \in {"V", "R", "X"} : x \in e.flags <=> x \in f.flags
  BY <1>3
<1>5. QED
  BY <1>3, <1>4 DEF IsValidEntry, IsLeafEntry

LEMMA UpdatedMapping ==
  ASSUME NEW e \in PageTableEntries, NEW d
  PROVE UpdatePageTableEntry(e, d) \in PageTableEntries /\ Mapping(UpdatePageTableEntry(e, d)) = Mapping(e)
<1> DEFINE F == (e.flags \ {"D"}) \cup {"A"} \cup (IF d THEN {"D"} ELSE {})
<1> DEFINE U == [flags |-> F, page |-> e.page]
<1>1. F \subseteq Flags /\ F \ {"A", "D"} = e.flags \ {"A", "D"}
  BY DEF PageTableEntries, Flags
<1>2. UpdatePageTableEntry(e, d) = U
  BY DEF UpdatePageTableEntry, PageTableEntries
<1>3. U \in PageTableEntries
  BY <1>1 DEF PageTableEntries
<1>4. Mapping(U) = [flags |-> F \ {"A", "D"}, page |-> e.page]
  BY DEF Mapping
<1>5. Mapping(e) = [flags |-> e.flags \ {"A", "D"}, page |-> e.page]
  BY DEF Mapping, PageTableEntries
<1>6. QED
  BY <1>1, <1>2, <1>3, <1>4, <1>5

LEMMA SameMappingPlaced ==
  ASSUME NEW a \in EntryAddrs, NEW e \in PageTableEntries, NEW f \in PageTableEntries, Mapping(e) = Mapping(f)
  PROVE Placed(a, e) <=> Placed(a, f)
BY MappingFacts DEF Placed

\* The walker goes from state to state as the comment of the module tells.
LEMMA TlbNextStates ==
  ASSUME tlb.state \in TlbStates, tlb.valid \in BOOLEAN, NEW enable, NEW command, NEW vaddr, NEW granted \in BOOLEAN
  PROVE LET state == NextState(enable, command, vaddr, granted) IN
        /\ tlb.state = "Default" => \/ state = "Default" \/ (state = "Invalidate" /\ tlb.valid)
                                    \/ (state = "PageTableRead1" /\ ~tlb.valid)
        /\ tlb.state = "Invalidate" => IF granted THEN state \in {"Done", "PageTableRead1"} ELSE state = "Invalidate"
        /\ tlb.state = "PageTableRead1" => state = IF granted THEN "PageTableDecode1" ELSE "PageTableRead1"
        /\ tlb.state = "PageTableDecode1" =>
             state = IF IsLeafEntry(tlb.entry) \/ ~IsValidEntry(tlb.entry) THEN "Done" ELSE "PageTableRead0"
        /\ tlb.state = "PageTableRead0" => state = IF granted THEN "PageTableDecode0" ELSE "PageTableRead0"
        /\ tlb.state = "PageTableDecode0" => state = "Done"
        /\ tlb.state = "Done" => state = "Default"
BY DEF NextState, TlbStates

TablesKept == \A a \in EntryAddrs : Mapping(table'[a]) = Mapping(table[a])

\* What is written back maps as what it replaces.
LEMMA TableStep ==
  ASSUME TlbInv, NEW enable, NEW command, NEW vaddr \in Vaddrs, NEW granted \in BOOLEAN,
         TlbCycle(enable, command, vaddr, granted)
  PROVE /\ table' \in [EntryAddrs -> PageTableEntries]
        /\ \A a \in EntryAddrs : Placed(a, table'[a])
        /\ TablesKept
<1> DEFINE U == UpdatePageTableEntry(tlb.entry, tlb.dirty)
<1>1. CASE tlb.state = "Invalidate" /\ granted
  <2>1. U \in PageTableEntries /\ Mapping(U) = Mapping(tlb.entry)
    BY UpdatedMapping DEF TlbInv
  <2>2. Mapping(U) = Mapping(table[tlb.addr])
    BY <1>1, <2>1 DEF TlbInv, Copied
  <2>3. table' = [table EXCEPT ![tlb.addr] = U]
    BY <1>1 DEF TlbCycle, memWriteEnable
  <2> HIDE DEF U
  <2>4. table' \in [EntryAddrs -> PageTableEntries] /\ TablesKept
    BY <2>1, <2>2, <2>3 DEF TlbInv, TablesKept
  <2>5. QED
    BY <2>4, SameMappingPlaced DEF TablesKept, TlbInv
<1>2. CASE ~(tlb.state = "Invalidate" /\ granted)
  <2>1. table' = table
    BY <1>2 DEF TlbCycle, memWriteEnable
  <2>2. QED
    BY <2>1 DEF TlbInv, TablesKept
<1>3. QED
  BY <1>1, <1>2

\* The registers after a cycle.
LEMMA TlbFields ==
  ASSUME TlbInv, NEW enable, NEW command, NEW vaddr \in Vaddrs, NEW granted \in BOOLEAN,
         TlbCycle(enable, command, vaddr, granted)
  PROVE /\ tlb'.state = NextState(enable, command, vaddr, granted)
        /\ tlb'.valid = NextValid
        /\ tlb'.addr = NextAddr(tlb'.state, vaddr)
        /\ tlb'.entry = NextEntry(granted)
        /\ tlb'.state = "Done" => tlb'.vaddr = vaddr
        /\ tlb'.state \notin {"Done", "Invalidate"} => tlb'.vaddr = tlb.vaddr
BY DEF TlbCycle

LEMMA TlbStep ==
  ASSUME TlbInv, NEW enable, NEW command, NEW vaddr \in Vaddrs, NEW granted \in BOOLEAN,
         TlbCycle(enable, command, vaddr, granted)
  PROVE TlbInv'
<1>t. tlb.state \in TlbStates /\ tlb.valid \in BOOLEAN /\ tlb.addr \in EntryAddrs /\ tlb.entry \in PageTableEntries
      /\ table \in [EntryAddrs -> PageTableEntries]
  BY DEF TlbInv
<1>v. vaddr.VPN1 \in Indices /\ vaddr.VPN0 \in Indices
  BY DEF Vaddrs
<1>n. /\ tlb.state = "Default" => \/ tlb'.state = "Default" \/ (tlb'.state = "Invalidate" /\ tlb.valid)
                                  \/ (tlb'.state = "PageTableRead1" /\ ~tlb.valid)
      /\ tlb.state = "Invalidate" => IF granted THEN tlb'.state \in {"Done", "PageTableRead1"} ELSE tlb'.state = "Invalidate"
      /\ tlb.state = "PageTableRead1" => tlb'.state = IF granted THEN "PageTableDecode1" ELSE "PageTableRead1"
      /\ tlb.state = "PageTableDecode1" =>
           tlb'.state = IF IsLeafEntry(tlb.entry) \/ ~IsValidEntry(tlb.entry) THEN "Done" ELSE "PageTableRead0"
      /\ tlb.state = "PageTableRead0" => tlb'.state = IF granted THEN "PageTableDecode0" ELSE "PageTableRead0"
      /\ tlb.state = "PageTableDecode0" => tlb'.state = "Done"
      /\ tlb.state = "Done" => tlb'.state = "Default"
  BY <1>t, TlbFields, TlbNextStates
<1>f. /\ tlb'.valid <=> tlb.state = "Done" \/ (tlb.state # "Invalidate" /\ tlb.valid)
      /\ tlb'.valid \in BOOLEAN
  BY <1>t, TlbFields DEF NextValid
<1>a. /\ tlb'.state = "PageTableRead1" => tlb'.addr = [page |-> RootPage, index |-> vaddr.VPN1]
      /\ tlb'.state = "PageTableRead0" => tlb'.addr = [page |-> tlb.entry.page, index |-> vaddr.VPN0]
      /\ tlb'.state \notin {"PageTableRead1", "PageTableRead0"} => tlb'.addr = tlb.addr
  BY TlbFields DEF NextAddr
<1>e. tlb'.entry = IF tlb.state \in {"PageTableRead1", "PageTableRead0"} /\ granted THEN table[tlb.addr] ELSE tlb.entry
  BY TlbFields DEF NextEntry, memReadEnable, memReadValue
<1>1. tlb'.state \in TlbStates
  BY <1>t, <1>n DEF TlbStates
<1>2. tlb'.entry \in PageTableEntries
  BY <1>t, <1>e
<1>3. tlb'.state = "PageTableRead0" => tlb.entry.page \in TablePages \ {RootPage}
  <2>1. CASE tlb.state = "PageTableRead0"
    BY <2>1 DEF TlbInv
  <2>2. CASE tlb.state = "PageTableDecode1" /\ ~(IsLeafEntry(tlb.entry) \/ ~IsValidEntry(tlb.entry))
    <3>1. Placed(tlb.addr, tlb.entry)
      BY <1>t, <2>2, SameMappingPlaced DEF TlbInv, Copied
    <3>2. QED
      BY <2>2, <3>1 DEF Placed, TlbInv
  <2>3. QED
    BY <1>t, <1>n, <2>1, <2>2 DEF TlbStates
<1>4. tlb'.state = "PageTableRead0" => tlb'.entry.page \in TablePages \ {RootPage}
  BY <1>t, <1>n, <1>e, <1>3 DEF TlbStates
<1>5. tlb'.addr \in EntryAddrs
  BY <1>t, <1>v, <1>a, <1>1, <1>3, RootAssumption DEF EntryAddrs, TlbStates
<1>6. tlb'.state \in {"PageTableRead1", "PageTableDecode1"} => tlb'.addr.page = RootPage
  BY <1>t, <1>n, <1>a DEF TlbInv, TlbStates
<1>7. tlb'.state \in {"PageTableRead0", "PageTableDecode0"} => tlb'.addr.page # RootPage
  BY <1>t, <1>n, <1>a, <1>3 DEF TlbInv, TlbStates
<1>8. tlb'.state \in {"PageTableRead1", "PageTableDecode1", "PageTableRead0", "PageTableDecode0"} => ~tlb'.valid
  BY <1>t, <1>n, <1>f DEF TlbInv, TlbStates
<1>9. Copied' => Mapping(tlb'.entry) = Mapping(table'[tlb'.addr])
  <2>1. Mapping(table'[tlb.addr]) = Mapping(table[tlb.addr])
    BY <1>t, TableStep DEF TablesKept
  <2>2. Copied' => Copied \/ (tlb.state \in {"PageTableRead1", "PageTableRead0"} /\ granted)
    BY <1>t, <1>n, <1>f DEF Copied, TlbStates
  <2>3. Copied' => tlb'.addr = tlb.addr
    BY <1>8, <1>a DEF Copied
  <2>4. CASE tlb.state \in {"PageTableRead1", "PageTableRead0"} /\ granted
    BY <1>e, <2>1, <2>3, <2>4
  <2>5. CASE ~(tlb.state \in {"PageTableRead1", "PageTableRead0"} /\ granted)
    BY <1>e, <2>1, <2>2, <2>3, <2>5 DEF TlbInv
  <2>6. QED
    BY <2>4, <2>5
<1>10. QED
  BY <1>1, <1>2, <1>3, <1>4, <1>5, <1>6, <1>7, <1>8, <1>9, <1>f, TableStep DEF TlbInv

-----------------------------------------------------------------------------
(* The invariant *)

\* Where a walk ends.
EndAddr(vaddr) ==
  LET root == [page |-> RootPage, index |-> vaddr.VPN1] IN
  IF IsLeafEntry(table[root]) \/ ~IsValidEntry(table[root]) THEN root
  ELSE [page |-> table[root].page, index |-> vaddr.VPN0]

\* The TLB walks only for the address of the instruction being translated, and rests on what it has found.
WalkInv ==
  /\ reg_state # "Translate" \/ ~enable_translation => tlb.state = "Default"
  /\ tlb.state \in {"PageTableRead1", "PageTableDecode1"} => tlb.addr = [page |-> RootPage, index |-> reg_vaddr.VPN1]
  /\ tlb.state \in {"PageTableRead0", "PageTableDecode0"} => tlb.addr = EndAddr(reg_vaddr)
  /\ tlb.state = "PageTableRead0" => tlb.addr.page = tlb.entry.page
  /\ tlb.state = "Done" => tlb.vaddr = reg_vaddr
  /\ tlb.state = "Done" \/ (tlb.valid /\ tlb.state # "Invalidate") => tlb.vaddr \in Vaddrs /\ tlb.addr = EndAddr(tlb.vaddr)

AccessStates == CacheStates \cup {"AtomicCalc"}
Loaded == LoadValue(memory[PageOf(insn.vaddr)], insn.offset, insn.type)

StateInv ==
  /\ insn = NoInsn \/ insn \in Insns
  /\ reg_state \in {"AddrGen", "Translate", "Done"} \cup AccessStates
  /\ reg_state # "AddrGen" => insn \in Insns
  /\ reg_state = "CacheRead" => insn.command \in {"Load", "AtomicMemOp", "LoadReserved"}
  /\ reg_state = "CacheWrite" => insn.command \in {"Store", "AtomicMemOp", "StoreConditional"}
  /\ reg_state = "CacheInvalidate" => insn.command = "Invalidate"
  /\ reg_state = "AtomicCalc" => insn.command = "AtomicMemOp"
  /\ reg_vaddr \in Vaddrs /\ reg_tlb_fault \in BOOLEAN

\* From its translation to its answer an instruction keeps what it was translated to.
AccessInv ==
  /\ reg_state # "AddrGen" => reg_vaddr = insn.vaddr /\ reg_access_type = AccessType(insn.command)
  /\ reg_state = "Translate" => reg_store_value = insn.value
  /\ reg_state \in AccessStates /\ enable_translation => tlb.entry.page = Walk(reg_vaddr).page
  /\ reg_state \in AccessStates => (reg_tlb_fault <=> Forbidden)
  /\ reg_state \in CacheStates =>
       request = [enable |-> TRUE, command |-> CacheCommand(reg_state), addr |-> PageOf(insn.vaddr),
                  writeValue |-> LeftShift(reg_store_value, insn.offset), writeMask |-> WriteMask(insn.offset, insn.type)]
  /\ reg_state = "AtomicCalc" => reg_load_result = Loaded
  /\ reg_state = "CacheWrite" =>
       IF insn.command = "AtomicMemOp"
       THEN reg_load_result = Loaded /\ reg_store_value = AtomicAlu(insn.atomic, insn.value, Loaded)
       ELSE reg_store_value = insn.value

UnitInv == TlbInv /\ WalkInv /\ StateInv /\ AccessInv

-----------------------------------------------------------------------------
(* Walks *)

LEMMA EndFacts ==
  ASSUME TlbInv, NEW v \in Vaddrs
  PROVE EndAddr(v) \in EntryAddrs /\ Walk(v) = table[EndAddr(v)]
<1> DEFINE root == [page |-> RootPage, index |-> v.VPN1]
<1>1. root \in EntryAddrs /\ v.VPN0 \in Indices
  BY RootAssumption DEF EntryAddrs, Vaddrs
<1>2. ~IsLeafEntry(table[root]) /\ IsValidEntry(table[root]) => table[root].page \in TablePages
  BY <1>1 DEF TlbInv, Placed
<1>3. QED
  BY <1>1, <1>2 DEF EndAddr, Walk, WalkOf, EntryAddrs

\* Where a walk ends, and what it says, is left alone by what is written back.
LEMMA EndHeld ==
  ASSUME TlbInv, table' \in [EntryAddrs -> PageTableEntries], TablesKept, NEW v \in Vaddrs
  PROVE /\ EndAddr(v)' = EndAddr(v)
        /\ Mapping(Walk(v)') = Mapping(Walk(v))
        /\ Walk(v) \in PageTableEntries /\ Walk(v)' \in PageTableEntries
<1> DEFINE root == [page |-> RootPage, index |-> v.VPN1]
<1>1. root \in EntryAddrs
  BY RootAssumption DEF EntryAddrs, Vaddrs
<1>2. table[root] \in PageTableEntries /\ table'[root] \in PageTableEntries /\ Mapping(table'[root]) = Mapping(table[root])
  BY <1>1 DEF TlbInv, TablesKept
<1>3. /\ table'[root].page = table[root].page
      /\ IsValidEntry(table'[root]) <=> IsValidEntry(table[root])
      /\ IsLeafEntry(table'[root]) <=> IsLeafEntry(table[root])
  BY <1>2, MappingFacts
<1>4. EndAddr(v)' = EndAddr(v)
  BY <1>3 DEF EndAddr
<1>5. EndAddr(v) \in EntryAddrs /\ Walk(v) = table[EndAddr(v)]
  BY EndFacts
<1>6. Walk(v)' = table'[EndAddr(v)]
  BY <1>3 DEF EndAddr, Walk, WalkOf
<1>7. QED
  BY <1>4, <1>5, <1>6 DEF TlbInv, TablesKept

\* Who may access a page is not a matter of its accessed and dirty bits.
LEMMA FaultFacts ==
  ASSUME NEW e \in PageTableEntries, NEW f \in PageTableEntries, Mapping(e) = Mapping(f), NEW type
  PROVE IsFault(e, type) <=> IsFault(f, type)
<1>1. e.flags \ {"A", "D"} = f.flags \ {"A", "D"}
  <2>1. Mapping(e).flags = e.flags \ {"A", "D"} /\ Mapping(f).flags = f.flags \ {"A", "D"}
    BY DEF Mapping, PageTableEntries
  <2>2. QED
    BY <2>1
<1>2. \A x \in {"V", "R", "W", "X", "U"} : x \in e.flags <=> x \in f.flags
  BY <1>1
<1>3. (IsLeafEntry(e) <=> IsLeafEntry(f)) /\ (IsValidEntry(e) <=> IsValidEntry(f))
  BY MappingFacts
<1>4. QED
  BY <1>2, <1>3 DEF IsFault

\* What an instruction is translated to while it is in the unit.
LEMMA PageHeld ==
  ASSUME TlbInv, table' \in [EntryAddrs -> PageTableEntries], TablesKept, csr' = csr, insn' = insn, insn.vaddr \in Vaddrs
  PROVE PageOf(insn.vaddr)' = PageOf(insn.vaddr) /\ (Forbidden' <=> Forbidden)
<1> DEFINE v == insn.vaddr
<1>1. /\ Mapping(WalkOf(table', v)) = Mapping(WalkOf(table, v))
      /\ WalkOf(table, v) \in PageTableEntries /\ WalkOf(table', v) \in PageTableEntries
  <2>1. ASSUME NEW u \in Vaddrs
        PROVE /\ Mapping(WalkOf(table', u)) = Mapping(WalkOf(table, u))
              /\ WalkOf(table, u) \in PageTableEntries /\ WalkOf(table', u) \in PageTableEntries
    BY EndHeld DEF Walk
  <2>2. QED
    BY <2>1
<1>2. WalkOf(table', v).page = WalkOf(table, v).page
  BY <1>1, MappingFacts
<1>3. IsFault(WalkOf(table', v), AccessType(insn.command)) <=> IsFault(WalkOf(table, v), AccessType(insn.command))
  BY <1>1, FaultFacts
<1>4. (enable_translation' <=> enable_translation)
  BY DEF enable_translation
<1>5. \A e : IsFault(e, AccessType(insn.command))' <=> IsFault(e, AccessType(insn.command))
  BY DEF IsFault, AccessType
<1>6. PageOf(insn.vaddr)' = PageOf(insn.vaddr)
  BY <1>2, <1>4 DEF PageOf, Walk
<1>7. QED
  BY <1>3, <1>4, <1>6 DEF Forbidden, Walk, IsFault, AccessType

-----------------------------------------------------------------------------
(* The TLB next to the unit *)

\* How the walker moves when it is asked to translate, or not asked.
LEMMA TranslateStates ==
  ASSUME tlb.state \in TlbStates, NEW enable \in BOOLEAN, NEW vaddr, NEW granted \in BOOLEAN
  PROVE LET state == NextState(enable, "Translate", vaddr, granted) IN
        /\ tlb.state = "Default" /\ ~(enable /\ enable_translation /\ ~hit(vaddr)) => state = "Default"
        /\ tlb.state = "Default" /\ enable /\ enable_translation /\ ~hit(vaddr) => state # "Default"
        /\ tlb.state = "Invalidate" => state \in {"Invalidate", "PageTableRead1"}
BY DEF NextState, TlbStates

\* An idle TLB keeps what it has.
LEMMA TlbRests ==
  ASSUME TlbInv, tlb.state = "Default", NEW enable \in BOOLEAN, ~(enable /\ enable_translation /\ ~hit(reg_vaddr)),
         reg_vaddr \in Vaddrs, NEW granted \in BOOLEAN, TlbCycle(enable, "Translate", reg_vaddr, granted)
  PROVE /\ tlb'.state = "Default" /\ tlb'.valid = tlb.valid /\ tlb'.addr = tlb.addr
        /\ tlb'.vaddr = tlb.vaddr /\ tlb'.entry = tlb.entry /\ table' = table
<1>1. tlb'.state = "Default"
  BY TranslateStates, TlbFields DEF TlbInv
<1>2. tlb'.valid = tlb.valid
  BY TlbFields DEF NextValid, TlbInv
<1>3. QED
  BY <1>1, <1>2, TlbFields DEF NextAddr, NextEntry, memReadEnable, memWriteEnable, TlbCycle

\* While the unit does not wait for it, the TLB rests, whatever the unit and the context do.
LEMMA RestStep ==
  ASSUME UnitInv, NEW granted \in BOOLEAN, TlbCycle(tlb_enable, "Translate", reg_vaddr, granted),
         ~(tlb_enable /\ enable_translation /\ ~hit(reg_vaddr)), tlb.state = "Default"
  PROVE TlbInv' /\ WalkInv' /\ tlb'.entry = tlb.entry /\ TablesKept
<1>1. reg_vaddr \in Vaddrs /\ tlb_enable \in BOOLEAN
  BY DEF UnitInv, StateInv, tlb_enable
<1>2. /\ tlb'.state = "Default" /\ tlb'.valid = tlb.valid /\ tlb'.addr = tlb.addr
      /\ tlb'.vaddr = tlb.vaddr /\ tlb'.entry = tlb.entry /\ table' = table
  BY <1>1, TlbRests DEF UnitInv
<1>3. TlbInv' /\ TablesKept
  BY <1>1, TlbStep, TableStep DEF UnitInv
<1>4. \A v : EndAddr(v)' = EndAddr(v)
  BY <1>2 DEF EndAddr
<1>5. WalkInv'
  BY <1>2, <1>4 DEF WalkInv, UnitInv
<1>6. QED
  BY <1>2, <1>3, <1>5

\* A walk for an address that stays the same ends where the tables say.
LEMMA WalkStep ==
  ASSUME UnitInv, NEW granted \in BOOLEAN, TlbCycle(tlb_enable, "Translate", reg_vaddr, granted),
         reg_state = "Translate", enable_translation, UNCHANGED <<csr, reg_vaddr>>,
         reg_state' = "Translate" \/ tlb_done, tlb_done => tlb'.state = "Default"
  PROVE WalkInv'
<1> DEFINE v == reg_vaddr
           root == [page |-> RootPage, index |-> v.VPN1]
<1>1. v \in Vaddrs /\ tlb_enable
  BY DEF UnitInv, StateInv, tlb_enable
<1>2. TlbInv /\ WalkInv
  BY DEF UnitInv
<1>t. tlb.state \in TlbStates /\ tlb.valid \in BOOLEAN /\ tlb.addr \in EntryAddrs /\ tlb.entry \in PageTableEntries
      /\ table \in [EntryAddrs -> PageTableEntries]
  BY <1>2 DEF TlbInv
<1>n. /\ tlb.state = "Default" => \/ tlb'.state = "Default" \/ (tlb'.state = "Invalidate" /\ tlb.valid)
                                    \/ (tlb'.state = "PageTableRead1" /\ ~tlb.valid)
      /\ tlb.state = "Invalidate" => tlb'.state \in {"Invalidate", "PageTableRead1"}
      /\ tlb.state = "PageTableRead1" => tlb'.state \in {"PageTableRead1", "PageTableDecode1"}
      /\ tlb.state = "PageTableDecode1" =>
           tlb'.state = IF IsLeafEntry(tlb.entry) \/ ~IsValidEntry(tlb.entry) THEN "Done" ELSE "PageTableRead0"
      /\ tlb.state = "PageTableRead0" => tlb'.state = IF granted THEN "PageTableDecode0" ELSE "PageTableRead0"
      /\ tlb.state = "PageTableDecode0" => tlb'.state = "Done"
      /\ tlb.state = "Done" => tlb'.state = "Default"
  <2>1. tlb'.state = NextState(tlb_enable, "Translate", reg_vaddr, granted)
    BY <1>1, <1>2, TlbFields
  <2>2. tlb_enable \in BOOLEAN
    BY DEF tlb_enable
  <2>3. /\ tlb.state = "Default" => \/ tlb'.state = "Default" \/ (tlb'.state = "Invalidate" /\ tlb.valid)
                                      \/ (tlb'.state = "PageTableRead1" /\ ~tlb.valid)
        /\ tlb.state = "PageTableRead1" => tlb'.state \in {"PageTableRead1", "PageTableDecode1"}
        /\ tlb.state = "PageTableDecode1" =>
             tlb'.state = IF IsLeafEntry(tlb.entry) \/ ~IsValidEntry(tlb.entry) THEN "Done" ELSE "PageTableRead0"
        /\ tlb.state = "PageTableRead0" => tlb'.state = IF granted THEN "PageTableDecode0" ELSE "PageTableRead0"
        /\ tlb.state = "PageTableDecode0" => tlb'.state = "Done"
        /\ tlb.state = "Done" => tlb'.state = "Default"
    BY <1>t, <2>1, TlbNextStates
  <2>4. tlb.state = "Invalidate" => tlb'.state \in {"Invalidate", "PageTableRead1"}
    BY <1>t, <2>1, <2>2, TranslateStates
  <2>5. QED
    BY <2>3, <2>4
<1>f. tlb'.valid <=> tlb.state = "Done" \/ (tlb.state # "Invalidate" /\ tlb.valid)
  BY <1>1, <1>2, <1>t, TlbFields DEF NextValid
<1>a. /\ tlb'.state = "PageTableRead1" => tlb'.addr = root
      /\ tlb'.state = "PageTableRead0" => tlb'.addr = [page |-> tlb.entry.page, index |-> v.VPN0]
      /\ tlb'.state \notin {"PageTableRead1", "PageTableRead0"} => tlb'.addr = tlb.addr
  BY <1>1, <1>2, TlbFields DEF NextAddr
<1>v. /\ tlb'.state = "Done" => tlb'.vaddr = v
      /\ tlb'.state \notin {"Done", "Invalidate"} => tlb'.vaddr = tlb.vaddr
  BY <1>1, <1>2, TlbFields
<1>k. table' \in [EntryAddrs -> PageTableEntries] /\ TablesKept
  BY <1>1, <1>2, TableStep
<1>e. \A u \in Vaddrs : EndAddr(u)' = EndAddr(u)
  BY <1>2, <1>k, EndHeld
<1>h. EndAddr(reg_vaddr)' = EndAddr(reg_vaddr)
  <2>1. EndAddr(reg_vaddr)' = (IF IsLeafEntry(table'[root]) \/ ~IsValidEntry(table'[root]) THEN root
                               ELSE [page |-> table'[root].page, index |-> v.VPN0])
    BY DEF EndAddr
  <2>2. root \in EntryAddrs
    BY <1>1, RootAssumption DEF EntryAddrs, Vaddrs
  <2>3. Mapping(table'[root]) = Mapping(table[root]) /\ table[root] \in PageTableEntries /\ table'[root] \in PageTableEntries
    BY <1>k, <1>t, <2>2 DEF TablesKept
  <2>4. /\ table'[root].page = table[root].page
        /\ IsValidEntry(table'[root]) <=> IsValidEntry(table[root])
        /\ IsLeafEntry(table'[root]) <=> IsLeafEntry(table[root])
    BY <2>3, MappingFacts
  <2>5. QED
    BY <2>1, <2>4 DEF EndAddr
<1>3. reg_state' # "Translate" \/ ~enable_translation' => tlb'.state = "Default"
  BY DEF enable_translation
<1>4. tlb'.state \in {"PageTableRead1", "PageTableDecode1"} => tlb'.addr = root
  BY <1>n, <1>a, <1>t, <1>2 DEF WalkInv, TlbStates
<1>5. tlb'.state = "PageTableRead0" => tlb'.addr.page = tlb'.entry.page
  <2>1. tlb'.entry = IF tlb.state \in {"PageTableRead1", "PageTableRead0"} /\ granted THEN table[tlb.addr] ELSE tlb.entry
    BY <1>1, <1>2, TlbFields DEF NextEntry, memReadEnable, memReadValue
  <2>2. tlb'.state = "PageTableRead0" => ~(tlb.state \in {"PageTableRead1", "PageTableRead0"} /\ granted)
    BY <1>n
  <2>3. QED
    BY <2>1, <2>2, <1>a
<1>6. tlb'.valid /\ tlb'.state # "Invalidate" =>
        /\ tlb'.state = "Default"
        /\ tlb.state = "Done" \/ (tlb.valid /\ tlb.state # "Invalidate")
  BY <1>f, <1>n, <1>t, <1>2 DEF TlbInv, TlbStates
\* What has been found before, or is found now, stays where its walk ends.
<1>7. tlb'.valid /\ tlb'.state # "Invalidate" => tlb'.vaddr \in Vaddrs /\ tlb'.addr = EndAddr(tlb.vaddr)'
  <2>1. SUFFICES ASSUME tlb'.valid, tlb'.state # "Invalidate"
                 PROVE tlb'.vaddr \in Vaddrs /\ tlb'.addr = EndAddr(tlb.vaddr)'
    OBVIOUS
  <2>2. tlb'.vaddr = tlb.vaddr /\ tlb'.addr = tlb.addr
    BY <2>1, <1>6, <1>v, <1>a
  <2>3. tlb.vaddr \in Vaddrs /\ tlb.addr = EndAddr(tlb.vaddr)
    BY <2>1, <1>6, <1>2 DEF WalkInv
  <2>4. \A u \in Vaddrs : EndAddr(u) = EndAddr(u)'
    BY <1>e
  <2>5. QED
    BY <2>2, <2>3, <2>4
<1>8. tlb'.state = "Done" => tlb'.vaddr \in Vaddrs /\ EndAddr(tlb.vaddr)' = EndAddr(v)
  <2>1. tlb'.state = "Done" => tlb'.vaddr = reg_vaddr
    BY <1>v
  <2>2. \A u \in Vaddrs : EndAddr(u) = EndAddr(u)'
    BY <1>e
  <2>3. QED
    BY <2>1, <2>2, <1>1
\* The entry that has been read decides where to go on as the one in the table does.
<1>d. CASE tlb.state = "PageTableDecode1"
  <2>1. tlb.addr = root /\ Mapping(tlb.entry) = Mapping(table[root])
    BY <1>d, <1>2 DEF WalkInv, TlbInv, Copied
  <2>2. table[root] \in PageTableEntries
    BY <1>t, <2>1
  <2>3. /\ tlb.entry.page = table[root].page
        /\ IsValidEntry(tlb.entry) <=> IsValidEntry(table[root])
        /\ IsLeafEntry(tlb.entry) <=> IsLeafEntry(table[root])
    BY <1>t, <2>1, <2>2, MappingFacts
  <2>4. tlb'.state \in {"Done", "PageTableRead0"} /\ tlb'.addr = EndAddr(v)
    BY <1>d, <1>n, <1>a, <2>1, <2>3 DEF EndAddr
  <2>5. QED
    BY <2>4, <1>1, <1>3, <1>4, <1>5, <1>7, <1>8, <1>v, <1>h DEF WalkInv
<1>o. CASE tlb.state # "PageTableDecode1"
  <2>1. tlb'.state \in {"PageTableRead0", "PageTableDecode0"} => tlb.state = "PageTableRead0"
    BY <1>o, <1>n, <1>t DEF TlbStates
  <2>2. tlb'.state \in {"PageTableRead0", "PageTableDecode0"} => tlb'.addr = EndAddr(v)
    <3>1. tlb.state = "PageTableRead0" => tlb.addr = [page |-> tlb.entry.page, index |-> v.VPN0]
      BY <1>2 DEF WalkInv, EndAddr, TlbInv
    <3>2. QED
      BY <2>1, <3>1, <1>a, <1>2 DEF WalkInv
  <2>3. tlb'.state = "Done" => tlb'.addr = EndAddr(v)
    BY <1>o, <1>n, <1>a, <1>t, <1>2 DEF WalkInv, TlbStates
  <2>4. QED
    BY <2>2, <2>3, <1>1, <1>3, <1>4, <1>5, <1>7, <1>8, <1>v, <1>h DEF WalkInv
<1>9. QED
  BY <1>d, <1>o

\* What the TLB has when it is done is what the tables say of the address.
LEMMA Found ==
  ASSUME UnitInv, reg_state = "Translate", tlb_done
  PROVE /\ TlbPage(reg_vaddr) = PageOf(reg_vaddr)
        /\ enable_translation => Mapping(tlb.entry) = Mapping(Walk(reg_vaddr))
        /\ tlb.entry \in PageTableEntries /\ Walk(reg_vaddr) \in PageTableEntries
<1>1. reg_vaddr \in Vaddrs /\ tlb.entry \in PageTableEntries
  BY DEF UnitInv, StateInv, TlbInv
<1>2. EndAddr(reg_vaddr) \in EntryAddrs /\ Walk(reg_vaddr) = table[EndAddr(reg_vaddr)]
  BY <1>1, EndFacts DEF UnitInv
<1>3. Walk(reg_vaddr) \in PageTableEntries
  BY <1>2 DEF UnitInv, TlbInv
<1>4. ASSUME enable_translation
      PROVE Mapping(tlb.entry) = Mapping(Walk(reg_vaddr))
  <2>1. tlb.state = "Done" \/ (tlb.state = "Default" /\ hit(reg_vaddr))
    BY <1>4 DEF tlb_done, TlbDone
  <2>2. tlb.addr = EndAddr(reg_vaddr)
    BY <2>1 DEF hit, UnitInv, WalkInv
  <2>3. Copied
    BY <2>1 DEF Copied, hit
  <2>4. QED
    BY <1>2, <2>2, <2>3 DEF UnitInv, TlbInv
<1>5. QED
  BY <1>1, <1>3, <1>4, MappingFacts DEF TlbPage, PageOf

-----------------------------------------------------------------------------
(* Steps of the unit *)

LEMMA InsnFacts ==
  ASSUME StateInv
  PROVE /\ insn \in Insns => insn.command \in Commands
        /\ insn.vaddr \in Vaddrs
        /\ insn \in Insns <=> insn.command # "None"
<1>1. NoInsn.command = "None" /\ NoInsn.vaddr = TlbReset.vaddr
  BY DEF NoInsn
<1>2. TlbReset.vaddr \in Vaddrs
  BY IndicesAssumption DEF TlbReset, Vaddrs
<1>3. insn \in Insns => insn.command \in Commands /\ insn.vaddr \in Vaddrs
  BY InsnsAssumption
<1>4. "None" \notin Commands
  BY DEF Commands
<1>5. QED
  BY <1>1, <1>2, <1>3, <1>4 DEF StateInv

\* Outside of a translation.
LEMMA IdleStep ==
  ASSUME UnitInv, reg_state # "Translate", TlbGoesOn
  PROVE TlbInv' /\ WalkInv' /\ tlb'.entry = tlb.entry /\ TablesKept /\ table' \in [EntryAddrs -> PageTableEntries]
<1>1. PICK granted \in BOOLEAN : TlbCycle(tlb_enable, "Translate", reg_vaddr, granted)
  BY DEF TlbGoesOn
<1>2. ~tlb_enable /\ tlb.state = "Default"
  BY DEF tlb_enable, UnitInv, WalkInv
<1>3. TlbInv' /\ WalkInv' /\ tlb'.entry = tlb.entry /\ TablesKept
  BY <1>1, <1>2, RestStep
<1>4. QED
  BY <1>3 DEF TlbInv

\* What an access that goes on has to keep: where it goes, whether it may, and what is there.
LEMMA AccessHeld ==
  ASSUME UnitInv, reg_state # "Translate", TlbGoesOn, UNCHANGED <<insn, csr, reg_vaddr>>
  PROVE /\ PageOf(insn.vaddr)' = PageOf(insn.vaddr)
        /\ Forbidden' <=> Forbidden
        /\ enable_translation' <=> enable_translation
        /\ Walk(reg_vaddr)'.page = Walk(reg_vaddr).page
        /\ reg_state \in AccessStates => TlbPage(reg_vaddr) = PageOf(insn.vaddr)
<1>1. tlb'.entry = tlb.entry /\ TablesKept /\ table' \in [EntryAddrs -> PageTableEntries]
  BY IdleStep
<1>2. insn.vaddr \in Vaddrs /\ reg_vaddr \in Vaddrs
  BY InsnFacts DEF UnitInv, StateInv
<1>3. PageOf(insn.vaddr)' = PageOf(insn.vaddr) /\ (Forbidden' <=> Forbidden)
  BY <1>1, <1>2, PageHeld DEF UnitInv
<1>4. enable_translation' <=> enable_translation
  BY DEF enable_translation
<1>5. Walk(reg_vaddr)'.page = Walk(reg_vaddr).page
  <2>1. ASSUME NEW u \in Vaddrs
        PROVE WalkOf(table', u).page = WalkOf(table, u).page
    <3>1. /\ Mapping(WalkOf(table', u)) = Mapping(WalkOf(table, u))
          /\ WalkOf(table, u) \in PageTableEntries /\ WalkOf(table', u) \in PageTableEntries
      BY <1>1, EndHeld DEF Walk, UnitInv
    <3>2. QED
      BY <3>1, MappingFacts
  <2>2. QED
    BY <1>2, <2>1 DEF Walk
<1>6. reg_state \in AccessStates => TlbPage(reg_vaddr) = PageOf(insn.vaddr)
  BY DEF UnitInv, AccessInv, TlbPage, PageOf, AccessStates, CacheStates
<1>7. QED
  BY <1>3, <1>4, <1>5, <1>6

LEMMA NewInsnStep ==
  ASSUME UnitInv, NewInsn
  PROVE UnitInv'
<1>1. TlbInv' /\ WalkInv'
  BY IdleStep DEF NewInsn
<1>2. reg_state = "AddrGen" /\ UNCHANGED registers /\ insn' \in Insns
  BY DEF NewInsn
<1>3. StateInv'
  BY <1>2 DEF UnitInv, StateInv, registers, CacheStates, AccessStates
<1>4. AccessInv'
  BY <1>2 DEF AccessInv, registers, CacheStates, AccessStates
<1>5. QED
  BY <1>1, <1>3, <1>4 DEF UnitInv

LEMMA AddrGenStep ==
  ASSUME UnitInv, AddrGen
  PROVE UnitInv'
<1>1. TlbInv' /\ WalkInv'
  BY IdleStep DEF AddrGen
<1>2. /\ reg_state = "AddrGen" /\ reg_state' = "Translate" /\ UNCHANGED <<insn, reg_tlb_fault>>
      /\ reg_vaddr' = insn.vaddr /\ reg_access_type' = AccessType(insn.command) /\ reg_store_value' = insn.value
  BY DEF AddrGen
<1>3. insn \in Insns /\ insn.vaddr \in Vaddrs
  BY InsnFacts DEF AddrGen, UnitInv
<1>4. StateInv'
  BY <1>2, <1>3 DEF UnitInv, StateInv, CacheStates, AccessStates
<1>5. AccessInv'
  BY <1>2 DEF AccessInv, CacheStates, AccessStates, AccessType
<1>6. QED
  BY <1>1, <1>4, <1>5 DEF UnitInv

LEMMA FirstAccessFacts ==
  ASSUME insn.command \in Commands
  PROVE /\ FirstAccess \in CacheStates
        /\ FirstAccess = "CacheRead" => insn.command \in {"Load", "AtomicMemOp", "LoadReserved"}
        /\ FirstAccess = "CacheWrite" => insn.command \in {"Store", "StoreConditional"}
        /\ FirstAccess = "CacheInvalidate" => insn.command = "Invalidate"
BY DEF FirstAccess, Commands, CacheStates

\* In a translation that is not done, or not needed, and in one that is.
LEMMA TranslateTlb ==
  ASSUME UnitInv, Translate
  PROVE /\ TlbInv' /\ WalkInv' /\ TablesKept /\ table' \in [EntryAddrs -> PageTableEntries]
        /\ tlb_done => tlb'.entry = tlb.entry
<1>1. PICK granted \in BOOLEAN : TlbCycle(tlb_enable, "Translate", reg_vaddr, granted)
  BY DEF Translate, TlbGoesOn
<1>2. /\ reg_state = "Translate" /\ UNCHANGED <<csr, reg_vaddr>> /\ tlb_enable
      /\ reg_state' = "Translate" \/ tlb_done
  BY DEF Translate, tlb_enable
<1>3. TlbInv /\ WalkInv /\ reg_vaddr \in Vaddrs
  BY DEF UnitInv, StateInv
<1>4. TlbInv' /\ TablesKept /\ table' \in [EntryAddrs -> PageTableEntries]
  BY <1>1, <1>3, TlbStep, TableStep
<1>5. CASE (~enable_translation \/ hit(reg_vaddr)) /\ tlb.state = "Default"
  BY <1>1, <1>4, <1>5, RestStep
<1>6. CASE enable_translation /\ ~(hit(reg_vaddr) /\ tlb.state = "Default")
  <2>1. tlb_done => tlb.state = "Done"
    BY <1>6 DEF tlb_done, TlbDone
  <2>2. tlb_done => tlb'.state = "Default"
    <3>1. tlb.state = "Done" => NextState(tlb_enable, "Translate", reg_vaddr, granted) = "Default"
      BY <1>3, TlbNextStates DEF TlbInv
    <3>2. QED
      BY <1>1, <1>3, <2>1, <3>1, TlbFields
  <2>3. WalkInv'
    BY <1>1, <1>2, <1>6, <2>2, WalkStep
  <2>4. tlb_done => tlb'.entry = tlb.entry
    BY <1>1, <1>3, <2>1, TlbFields DEF NextEntry, memReadEnable
  <2>5. QED
    BY <1>4, <2>3, <2>4
<1>7. QED
  BY <1>3, <1>5, <1>6 DEF WalkInv

LEMMA TranslateStep ==
  ASSUME UnitInv, Translate
  PROVE UnitInv'
<1>1. /\ TlbInv' /\ WalkInv' /\ TablesKept /\ table' \in [EntryAddrs -> PageTableEntries]
      /\ tlb_done => tlb'.entry = tlb.entry
  BY TranslateTlb
<1>2. /\ reg_state = "Translate" /\ reg_state' = IF tlb_done THEN FirstAccess ELSE reg_state
      /\ UNCHANGED <<insn, csr, reg_vaddr, reg_access_type, reg_store_value, memory>>
      /\ reg_paddr' = TlbPage(reg_vaddr) /\ reg_tlb_fault' = TlbFault(reg_access_type) /\ DriveCache
  BY DEF Translate
<1>3. insn \in Insns /\ insn.command \in Commands /\ insn.vaddr \in Vaddrs /\ reg_vaddr = insn.vaddr
      /\ reg_access_type = AccessType(insn.command) /\ reg_store_value = insn.value
  BY <1>2, InsnFacts DEF UnitInv, StateInv, AccessInv
<1>4. tlb_done => FirstAccess \in CacheStates
  BY <1>3, FirstAccessFacts
<1>5. reg_tlb_fault' \in BOOLEAN
  BY <1>2 DEF TlbFault
<1>6. StateInv'
  <2>1. insn' \in Insns /\ reg_vaddr' \in Vaddrs
    BY <1>2, <1>3
  <2>2. reg_state' = "Translate" \/ (reg_state' = FirstAccess /\ reg_state' \in CacheStates)
    BY <1>2, <1>4
  <2>3. QED
    BY <1>2, <1>3, <1>5, <2>1, <2>2, FirstAccessFacts DEF StateInv, CacheStates, AccessStates
<1>7. ASSUME tlb_done
      PROVE AccessInv'
  <2>1. reg_state' = FirstAccess /\ reg_state' \in CacheStates
    BY <1>2, <1>4, <1>7
  <2>2. /\ TlbPage(reg_vaddr) = PageOf(reg_vaddr)
        /\ enable_translation => Mapping(tlb.entry) = Mapping(Walk(reg_vaddr))
        /\ tlb.entry \in PageTableEntries /\ Walk(reg_vaddr) \in PageTableEntries
    BY <1>2, <1>7, Found
  <2>3. PageOf(insn.vaddr)' = PageOf(insn.vaddr) /\ (Forbidden' <=> Forbidden)
    BY <1>1, <1>2, <1>3, PageHeld DEF UnitInv
  <2>4. TlbFault(reg_access_type) <=> Forbidden
    BY <1>3, <2>2, FaultFacts DEF TlbFault, Forbidden
  <2>5. reg_tlb_fault' <=> Forbidden'
    BY <1>2, <2>3, <2>4
  <2>6. request' = [enable |-> TRUE, command |-> CacheCommand(reg_state)', addr |-> PageOf(insn.vaddr)',
                    writeValue |-> LeftShift(reg_store_value, insn.offset)', writeMask |-> WriteMask(insn.offset, insn.type)']
    <3>1. (reg_state' \in CacheStates) = TRUE
      BY <2>1
    <3>2. reg_paddr' = PageOf(insn.vaddr)'
      BY <1>2, <1>3, <2>2, <2>3
    <3>3. /\ CacheCommand(reg_state') = CacheCommand(reg_state)'
          /\ LeftShift(reg_store_value', insn.offset) = LeftShift(reg_store_value, insn.offset)'
          /\ WriteMask(insn.offset, insn.type) = WriteMask(insn.offset, insn.type)'
      BY <1>2 DEF CacheCommand, LeftShift, WriteMask
    <3>4. QED
      BY <1>2, <3>1, <3>2, <3>3 DEF DriveCache
  <2>7. enable_translation' => tlb'.entry.page = Walk(reg_vaddr)'.page
    <3>1. enable_translation' <=> enable_translation
      BY <1>2 DEF enable_translation
    <3>2. enable_translation => PageOf(insn.vaddr) = tlb.entry.page
      BY <1>3, <2>2 DEF TlbPage
    <3>3. enable_translation' => PageOf(insn.vaddr)' = Walk(insn.vaddr)'.page
      BY DEF PageOf
    <3>4. insn.vaddr' = reg_vaddr'
      BY <1>2, <1>3
    <3>5. QED
      BY <1>1, <1>2, <1>3, <1>7, <2>3, <3>1, <3>2, <3>3, <3>4 DEF Walk
  <2>8. reg_state' = "CacheWrite" => insn'.command # "AtomicMemOp" /\ reg_store_value' = insn'.value
    BY <1>2, <1>3, <2>1, FirstAccessFacts
  <2>9. QED
    BY <1>2, <1>3, <2>1, <2>5, <2>6, <2>7, <2>8 DEF AccessInv, CacheStates, AccessStates, AccessType
<1>8. ASSUME ~tlb_done
      PROVE AccessInv'
  BY <1>2, <1>3, <1>8 DEF AccessInv, CacheStates, AccessStates, AccessType
<1>9. QED
  BY <1>1, <1>6, <1>7, <1>8 DEF UnitInv

\* What an access reads and writes, by kind of instruction.
LEMMA RequestFacts ==
  ASSUME UnitInv, reg_state \in CacheStates
  PROVE /\ request.enable /\ request.addr = PageOf(insn.vaddr)
        /\ request.writeMask = WriteMask(insn.offset, insn.type)
        /\ request.writeValue = LeftShift(reg_store_value, insn.offset)
        /\ reg_state = "CacheRead" =>
             /\ insn.command \in {"Load", "AtomicMemOp", "LoadReserved"}
             /\ request.command = IF insn.command = "AtomicMemOp" THEN "Load" ELSE insn.command
        /\ reg_state = "CacheWrite" =>
             /\ insn.command \in {"Store", "AtomicMemOp", "StoreConditional"}
             /\ request.command = IF insn.command = "AtomicMemOp" THEN "Store" ELSE insn.command
        /\ reg_state = "CacheInvalidate" => insn.command = "Invalidate" /\ request.command = "Invalidate"
<1>1. request = [enable |-> TRUE, command |-> CacheCommand(reg_state), addr |-> PageOf(insn.vaddr),
                 writeValue |-> LeftShift(reg_store_value, insn.offset), writeMask |-> WriteMask(insn.offset, insn.type)]
  BY DEF UnitInv, AccessInv
<1>2. /\ reg_state = "CacheRead" => insn.command \in {"Load", "AtomicMemOp", "LoadReserved"}
      /\ reg_state = "CacheWrite" => insn.command \in {"Store", "AtomicMemOp", "StoreConditional"}
      /\ reg_state = "CacheInvalidate" => insn.command = "Invalidate"
  BY DEF UnitInv, StateInv
<1>3. QED
  BY <1>1, <1>2 DEF CacheCommand

\* Each access is answered by the cache's step for it.
LEMMA DoneFacts ==
  ASSUME UnitInv, reg_state \in CacheStates, cacheDone
  PROVE /\ reg_state = "CacheRead" => Cache!DoLoad
        /\ reg_state = "CacheWrite" => Cache!DoStore \/ (Cache!DoFail /\ insn.command = "StoreConditional")
        /\ reg_state = "CacheInvalidate" => Cache!DoInvalidate
BY RequestFacts DEF cacheDone, Cache!DoLoad, Cache!DoStore, Cache!DoFail, Cache!DoInvalidate, Cache!Pending, CacheStates

LEMMA LoadFacts ==
  ASSUME UnitInv, reg_state = "CacheRead", AccessCache
  PROVE /\ UNCHANGED memory
        /\ reg_load_result' = Loaded
        /\ reservation' = IF insn.command = "LoadReserved" THEN reservation \cup {PageOf(insn.vaddr)} ELSE reservation
<1>1. /\ request.addr = PageOf(insn.vaddr) /\ insn.command \in {"Load", "AtomicMemOp", "LoadReserved"}
      /\ request.command = IF insn.command = "AtomicMemOp" THEN "Load" ELSE insn.command
  BY RequestFacts DEF CacheStates
<1>2. Cache!DoLoad
  BY DoneFacts DEF AccessCache, CacheStates
<1>3. result'.value = memory[request.addr] /\ UNCHANGED memory
      /\ reservation' = IF request.command = "LoadReserved" THEN reservation \cup {request.addr} ELSE reservation
  BY <1>2 DEF Cache!DoLoad, Cache!Answer
<1>4. reg_load_result' = LoadValue(result'.value, insn.offset, insn.type)
  BY <1>1 DEF AccessCache, NextLoadResult
<1>5. QED
  BY <1>1, <1>3, <1>4 DEF Loaded

LEMMA AccessCacheStep ==
  ASSUME UnitInv, AccessCache
  PROVE UnitInv'
<1>1. TlbInv' /\ WalkInv' /\ tlb'.entry = tlb.entry
  BY IdleStep DEF AccessCache, CacheStates
<1>2. /\ reg_state \in CacheStates
      /\ reg_state' = IF reg_state = "CacheRead" /\ insn.command = "AtomicMemOp" THEN "AtomicCalc" ELSE "Done"
      /\ UNCHANGED <<insn, csr, reg_vaddr, reg_tlb_fault, reg_access_type, reg_store_value>>
  BY DEF AccessCache
<1>3. /\ PageOf(insn.vaddr)' = PageOf(insn.vaddr) /\ (Forbidden' <=> Forbidden)
      /\ (enable_translation' <=> enable_translation) /\ Walk(reg_vaddr)'.page = Walk(reg_vaddr).page
  BY <1>2, AccessHeld DEF AccessCache, CacheStates
<1>4. StateInv'
  BY <1>2 DEF UnitInv, StateInv, CacheStates, AccessStates
<1>5. AccessInv'
  <2>1. reg_state' # "AddrGen" => reg_vaddr' = insn'.vaddr /\ reg_access_type' = AccessType(insn.command)'
    BY <1>2 DEF UnitInv, AccessInv, AccessType, CacheStates
  <2>2. CASE reg_state' = "Done"
    BY <2>1, <2>2 DEF AccessInv, CacheStates, AccessStates
  <2>3. CASE reg_state' = "AtomicCalc"
    <3>1. reg_load_result' = Loaded /\ UNCHANGED memory
      BY <1>2, <2>3, LoadFacts
    <3>2. reg_load_result' = Loaded'
      BY <1>2, <1>3, <3>1 DEF Loaded
    <3>3. reg_tlb_fault' <=> Forbidden'
      BY <1>2, <1>3 DEF UnitInv, AccessInv, AccessStates
    <3>4. enable_translation' => tlb'.entry.page = Walk(reg_vaddr)'.page
      BY <1>1, <1>2, <1>3 DEF UnitInv, AccessInv, AccessStates
    <3>5. QED
      BY <2>1, <2>3, <3>2, <3>3, <3>4 DEF AccessInv, CacheStates, AccessStates
  <2>4. QED
    BY <1>2, <2>2, <2>3
<1>6. QED
  BY <1>1, <1>4, <1>5 DEF UnitInv

LEMMA WaitStep ==
  ASSUME UnitInv, WaitForCache
  PROVE UnitInv'
<1>1. TlbInv' /\ WalkInv' /\ tlb'.entry = tlb.entry
  BY IdleStep DEF WaitForCache, CacheStates
<1>2. /\ reg_state \in CacheStates /\ UNCHANGED <<memory, request, result>>
      /\ UNCHANGED <<insn, csr, reg_state, reg_vaddr, reg_tlb_fault, reg_access_type, reg_load_result, reg_store_value>>
  BY DEF WaitForCache, Cache!Evict
<1>3. /\ PageOf(insn.vaddr)' = PageOf(insn.vaddr) /\ (Forbidden' <=> Forbidden)
      /\ (enable_translation' <=> enable_translation) /\ Walk(reg_vaddr)'.page = Walk(reg_vaddr).page
  BY <1>2, AccessHeld DEF WaitForCache, CacheStates
<1>4. StateInv'
  BY <1>2 DEF UnitInv, StateInv, CacheStates, AccessStates
<1>5. AccessInv'
  <2>1. Loaded' = Loaded
    BY <1>2, <1>3 DEF Loaded
  <2>2. request' = [enable |-> TRUE, command |-> CacheCommand(reg_state)', addr |-> PageOf(insn.vaddr)',
                    writeValue |-> LeftShift(reg_store_value, insn.offset)', writeMask |-> WriteMask(insn.offset, insn.type)']
    BY <1>2, <1>3 DEF UnitInv, AccessInv, CacheCommand, LeftShift, WriteMask
  <2>3. QED
    BY <1>1, <1>2, <1>3, <2>1, <2>2 DEF UnitInv, AccessInv, CacheStates, AccessStates, AccessType
<1>6. QED
  BY <1>1, <1>4, <1>5 DEF UnitInv

LEMMA AtomicCalcStep ==
  ASSUME UnitInv, AtomicCalc
  PROVE UnitInv'
<1>1. TlbInv' /\ WalkInv' /\ tlb'.entry = tlb.entry
  BY IdleStep DEF AtomicCalc
<1>2. /\ reg_state = "AtomicCalc" /\ reg_state' = "CacheWrite" /\ DriveCache
      /\ UNCHANGED <<insn, csr, reg_vaddr, reg_tlb_fault, reg_access_type, reg_load_result, memory>>
      /\ reg_store_value' = AtomicAlu(insn.atomic, insn.value, reg_load_result) /\ reg_paddr' = TlbPage(reg_vaddr)
  BY DEF AtomicCalc
<1>3. /\ PageOf(insn.vaddr)' = PageOf(insn.vaddr) /\ (Forbidden' <=> Forbidden)
      /\ (enable_translation' <=> enable_translation) /\ Walk(reg_vaddr)'.page = Walk(reg_vaddr).page
      /\ TlbPage(reg_vaddr) = PageOf(insn.vaddr)
  BY <1>2, AccessHeld DEF AtomicCalc, AccessStates
<1>4. insn.command = "AtomicMemOp" /\ reg_load_result = Loaded
  BY <1>2 DEF UnitInv, StateInv, AccessInv
<1>5. StateInv'
  BY <1>2, <1>4 DEF UnitInv, StateInv, CacheStates, AccessStates
<1>6. AccessInv'
  <2>1. Loaded' = Loaded
    BY <1>2, <1>3 DEF Loaded
  <2>2. request' = [enable |-> TRUE, command |-> CacheCommand(reg_state)', addr |-> PageOf(insn.vaddr)',
                    writeValue |-> LeftShift(reg_store_value, insn.offset)', writeMask |-> WriteMask(insn.offset, insn.type)']
    <3>1. (reg_state' \in CacheStates) = TRUE
      BY <1>2 DEF CacheStates
    <3>2. /\ CacheCommand(reg_state') = CacheCommand(reg_state)'
          /\ LeftShift(reg_store_value', insn.offset) = LeftShift(reg_store_value, insn.offset)'
          /\ WriteMask(insn.offset, insn.type) = WriteMask(insn.offset, insn.type)'
      BY <1>2 DEF CacheCommand, LeftShift, WriteMask
    <3>3. QED
      BY <1>2, <1>3, <3>1, <3>2 DEF DriveCache
  <2>3. reg_load_result' = Loaded' /\ reg_store_value' = AtomicAlu(insn.atomic, insn.value, Loaded)'
    <3>1. AtomicAlu(insn.atomic, insn.value, Loaded)' = AtomicAlu(insn'.atomic, insn'.value, Loaded')
      OBVIOUS
    <3>2. QED
      BY <1>2, <1>4, <2>1, <3>1
  <2>4. reg_tlb_fault' <=> Forbidden'
    BY <1>2, <1>3 DEF UnitInv, AccessInv, AccessStates
  <2>5. enable_translation' => tlb'.entry.page = Walk(reg_vaddr)'.page
    BY <1>1, <1>2, <1>3 DEF UnitInv, AccessInv, AccessStates
  <2>6. reg_vaddr' = insn'.vaddr /\ reg_access_type' = AccessType(insn.command)'
    BY <1>2 DEF UnitInv, AccessInv, AccessType
  <2>7. QED
    BY <1>2, <1>4, <2>2, <2>3, <2>4, <2>5, <2>6 DEF AccessInv, CacheStates, AccessStates
<1>7. QED
  BY <1>1, <1>5, <1>6 DEF UnitInv

LEMMA DoneStep ==
  ASSUME UnitInv, Done
  PROVE UnitInv'
<1>1. TlbInv' /\ WalkInv'
  BY IdleStep DEF Done
<1>2. reg_state' = "AddrGen" /\ insn' = NoInsn /\ UNCHANGED <<reg_vaddr, reg_tlb_fault>>
  BY DEF Done
<1>3. QED
  BY <1>1, <1>2 DEF UnitInv, StateInv, AccessInv, CacheStates, AccessStates

\* To start with, and after a reset.
Started ==
  /\ insn = NoInsn /\ tlb = TlbReset /\ reg_state = "AddrGen" /\ reg_vaddr = TlbReset.vaddr /\ reg_tlb_fault = FALSE
  /\ table \in [EntryAddrs -> PageTableEntries] /\ \A a \in EntryAddrs : Placed(a, table[a])

LEMMA StartedInv == Started => UnitInv
<1> SUFFICES ASSUME Started PROVE UnitInv
  OBVIOUS
<1>1. /\ tlb.state = "Default" /\ tlb.valid = FALSE /\ tlb.entry = Zero
      /\ tlb.addr = [page |-> RootPage, index |-> 0] /\ TlbReset.vaddr = [VPN1 |-> 0, VPN0 |-> 0]
  BY DEF Started, TlbReset
<1>2. tlb.entry \in PageTableEntries /\ tlb.addr \in EntryAddrs /\ TlbReset.vaddr \in Vaddrs
  BY <1>1, RootAssumption, IndicesAssumption DEF Zero, PageTableEntries, EntryAddrs, Vaddrs
<1>3. TlbInv
  BY <1>1, <1>2 DEF Started, TlbInv, TlbStates, Copied
<1>4. WalkInv
  BY <1>1 DEF WalkInv
<1>5. StateInv /\ AccessInv
  BY <1>2 DEF Started, StateInv, AccessInv, CacheStates, AccessStates
<1>6. QED
  BY <1>3, <1>4, <1>5 DEF UnitInv

LEMMA InitStarted == Init => Started
<1> SUFFICES ASSUME Init PROVE Started
  OBVIOUS
<1>1. table \in [EntryAddrs -> PageTableEntries] /\ \A a \in EntryAddrs : Placed(a, table[a])
  BY PageTablesAssumption DEF Init, Placed
<1>2. QED
  BY <1>1 DEF Init, Started

LEMMA ResetStarted ==
  ASSUME UnitInv, Reset
  PROVE Started'
BY DEF Reset, Started, UnitInv, TlbInv

LEMMA StutterStep ==
  ASSUME UnitInv, UNCHANGED vars
  PROVE UnitInv'
<1>1. UNCHANGED <<insn, tlb, table, csr, reg_state, reg_vaddr, reg_paddr, reg_tlb_fault, reg_access_type,
                  reg_load_result, reg_store_value, memory, reservation, request, result>>
  BY DEF vars, registers, cache
<1>2. TlbInv' /\ StateInv'
  BY <1>1 DEF UnitInv, TlbInv, Copied, StateInv
<1>3. WalkInv'
  BY <1>1 DEF UnitInv, WalkInv, EndAddr, enable_translation
<1>4. AccessInv'
  <2>1. /\ (enable_translation' <=> enable_translation) /\ (Forbidden' <=> Forbidden) /\ Loaded' = Loaded
        /\ PageOf(insn.vaddr)' = PageOf(insn.vaddr) /\ Walk(reg_vaddr)' = Walk(reg_vaddr)
    BY <1>1 DEF enable_translation, Forbidden, IsFault, Walk, WalkOf, PageOf, Loaded
  <2>2. CacheCommand(reg_state)' = CacheCommand(reg_state)
    BY <1>1 DEF CacheCommand
  <2>3. QED
    BY <1>1, <2>1, <2>2 DEF UnitInv, AccessInv
<1>5. QED
  BY <1>2, <1>3, <1>4 DEF UnitInv

LEMMA UnitStep == UnitInv /\ [Next]_vars => UnitInv'
<1> SUFFICES ASSUME UnitInv, [Next]_vars
             PROVE UnitInv'
  OBVIOUS
<1>1. CASE NewInsn
  BY <1>1, NewInsnStep
<1>2. CASE AddrGen
  BY <1>2, AddrGenStep
<1>3. CASE Translate
  BY <1>3, TranslateStep
<1>4. CASE AccessCache
  BY <1>4, AccessCacheStep
<1>5. CASE WaitForCache
  BY <1>5, WaitStep
<1>6. CASE AtomicCalc
  BY <1>6, AtomicCalcStep
<1>7. CASE Done
  BY <1>7, DoneStep
<1>8. CASE Reset
  <2>1. Started'
    BY <1>8, ResetStarted
  <2>2. QED
    BY <2>1, StartedInv, PTL
<1>9. CASE UNCHANGED vars
  BY <1>9, StutterStep
<1>10. QED
  BY <1>1, <1>2, <1>3, <1>4, <1>5, <1>6, <1>7, <1>8, <1>9 DEF Next

\* Where the walker of Tlb.sv is in a walk, what it has read, and what an instruction of LoadStoreUnit.sv keeps
\* from its translation to its answer.
THEOREM UnitTypes == Spec => []UnitInv
<1>1. Init => UnitInv
  BY InitStarted, StartedInv
<1>2. QED
  BY <1>1, UnitStep, PTL DEF Spec

\* Tlb.sv: writing back the entry that is replaced never changes where an address is mapped or who may access it.
THEOREM WriteBackKeepsMappings == Spec => TablesKeepMappings
<1>1. UnitInv /\ [Next]_vars => [\A a \in EntryAddrs : Mapping(table'[a]) = Mapping(table[a])]_vars
  <2> SUFFICES ASSUME UnitInv, Next
               PROVE TablesKept
    BY DEF TablesKept
  <2>1. CASE TlbGoesOn
    <3>1. PICK granted \in BOOLEAN : TlbCycle(tlb_enable, "Translate", reg_vaddr, granted)
      BY <2>1 DEF TlbGoesOn
    <3>2. QED
      BY <3>1, TableStep DEF UnitInv, StateInv
  <2>2. CASE Reset
    BY <2>2 DEF Reset, TablesKept
  <2>3. QED
    BY <2>1, <2>2 DEF Next, NewInsn, AddrGen, Translate, AccessCache, WaitForCache, AtomicCalc, Done
<1>2. QED
  BY <1>1, UnitTypes, PTL DEF Spec, TablesKeepMappings

-----------------------------------------------------------------------------
(* Refinement *)

LEMMA PortBusy ==
  ASSUME insn.command # "None", reg_state # "Done"
  PROVE /\ PortInsn.valid /\ PortInsn.command = insn.command /\ PortInsn.page = PageOf(insn.vaddr)
        /\ PortInsn.offset = insn.offset /\ PortInsn.type = insn.type /\ PortInsn.value = insn.value
        /\ PortInsn.atomic = insn.atomic /\ (PortInsn.fault <=> Forbidden) /\ PortInsn.fault \in BOOLEAN
<1>1. Forbidden \in BOOLEAN
  BY DEF Forbidden
<1>2. QED
  BY <1>1 DEF PortInsn

LEMMA PortIdle ==
  /\ insn.command = "None" \/ reg_state = "Done" => PortInsn = Port!Idle
  /\ reg_state # "Done" => PortAnswer = Port!None
<1>1. reg_state # "Done" => (reg_state = "Done") = FALSE /\ (reg_state = "Done" /\ reg_tlb_fault) = FALSE
  OBVIOUS
<1>2. QED
  BY <1>1 DEF PortInsn, PortAnswer, Port!Idle, Port!None

\* An instruction on its way stays the same at the port.
LEMMA PortHeld ==
  ASSUME UnitInv, TablesKept, table' \in [EntryAddrs -> PageTableEntries], UNCHANGED <<insn, csr>>,
         reg_state # "Done", reg_state' # "Done"
  PROVE PortInsn' = PortInsn /\ PortAnswer' = PortAnswer
<1>1. insn.vaddr \in Vaddrs
  BY InsnFacts DEF UnitInv
<1>2. PageOf(insn.vaddr)' = PageOf(insn.vaddr) /\ (Forbidden' <=> Forbidden)
  BY <1>1, PageHeld DEF UnitInv
<1>3. Forbidden' = Forbidden
  BY <1>2 DEF Forbidden
<1>4. PortInsn' = PortInsn
  BY <1>2, <1>3 DEF PortInsn
<1>5. PortAnswer = Port!None /\ PortAnswer' = Port!None
  <2>1. PortAnswer = Port!None
    BY PortIdle
  <2>2. PortAnswer' = Port!None
    <3>1. (reg_state' = "Done") = FALSE /\ (reg_state' = "Done" /\ reg_tlb_fault') = FALSE
      OBVIOUS
    <3>2. QED
      BY <3>1 DEF PortAnswer, Port!None
  <2>3. QED
    BY <2>1, <2>2
<1>6. QED
  BY <1>4, <1>5

\* The last access of an instruction is its step at the port.
LEMMA PortAnswers ==
  ASSUME UnitInv, AccessCache, reg_state' = "Done"
  PROVE Port!Answer(IF insn.command \notin {"Store", "Invalidate"} THEN reg_load_result' ELSE 0)
<1>1. insn' = insn /\ reg_tlb_fault' = reg_tlb_fault /\ reg_state \in CacheStates /\ reg_state # "Done"
  BY DEF AccessCache, CacheStates
<1>2. insn.command # "None"
  BY <1>1, InsnFacts DEF UnitInv, StateInv, CacheStates
<1>3. (PortInsn.fault <=> Forbidden) /\ PortInsn.fault \in BOOLEAN
  BY <1>1, <1>2, PortBusy
<1>4. (reg_tlb_fault <=> Forbidden) /\ reg_tlb_fault \in BOOLEAN
  BY <1>1 DEF UnitInv, AccessInv, StateInv, AccessStates
<1>5. (reg_state' = "Done" /\ reg_tlb_fault') = PortInsn.fault /\ (reg_state' = "Done") = TRUE
  BY <1>1, <1>3, <1>4
<1>6. PortInsn' = Port!Idle
  BY DEF PortInsn, Port!Idle
<1>7. PortAnswer' = [valid |-> TRUE, value |-> IF insn.command \notin {"Store", "Invalidate"} THEN reg_load_result' ELSE 0,
                     fault |-> PortInsn.fault]
  BY <1>1, <1>5 DEF PortAnswer
<1>8. QED
  BY <1>6, <1>7 DEF Port!Answer

LEMMA AccessImplements ==
  ASSUME UnitInv, AccessCache
  PROVE [Port!Next]_(Port!vars)
<1>1. /\ reg_state \in CacheStates /\ cacheDone /\ UNCHANGED <<insn, csr>>
      /\ reg_state' = IF reg_state = "CacheRead" /\ insn.command = "AtomicMemOp" THEN "AtomicCalc" ELSE "Done"
      /\ reg_state # "Done"
  BY DEF AccessCache, CacheStates
<1>2. insn.command # "None"
  BY <1>1, InsnFacts DEF UnitInv, StateInv, CacheStates
<1>3. /\ PortInsn.valid /\ PortInsn.command = insn.command /\ PortInsn.page = PageOf(insn.vaddr)
      /\ PortInsn.offset = insn.offset /\ PortInsn.type = insn.type /\ PortInsn.value = insn.value
      /\ PortInsn.atomic = insn.atomic
  BY <1>1, <1>2, PortBusy
<1>4. Port!Loaded = Loaded
  BY <1>3 DEF Port!Loaded, Port!Line, Loaded
<1>5. /\ request.addr = PageOf(insn.vaddr) /\ request.writeMask = WriteMask(insn.offset, insn.type)
      /\ request.writeValue = LeftShift(reg_store_value, insn.offset)
  BY <1>1, RequestFacts
\* The first access of a read-modify-write leaves no trace.
<1>6. CASE reg_state = "CacheRead" /\ insn.command = "AtomicMemOp"
  <2>1. UNCHANGED memory /\ reservation' = reservation
    BY <1>6, LoadFacts
  <2>2. TablesKept /\ table' \in [EntryAddrs -> PageTableEntries]
    BY <1>6, IdleStep DEF AccessCache
  <2>3. PortInsn' = PortInsn /\ PortAnswer' = PortAnswer
    BY <1>1, <1>6, <2>2, PortHeld
  <2>4. QED
    BY <2>1, <2>3 DEF Port!vars
<1>7. CASE reg_state = "CacheRead" /\ insn.command # "AtomicMemOp"
  <2>1. /\ UNCHANGED memory /\ reg_load_result' = Loaded
        /\ reservation' = IF insn.command = "LoadReserved" THEN reservation \cup {PageOf(insn.vaddr)} ELSE reservation
    BY <1>7, LoadFacts
  <2>2. insn.command \in {"Load", "LoadReserved"}
    BY <1>7, RequestFacts DEF CacheStates
  <2>3. Port!Answer(Loaded)
    BY <1>1, <1>7, <2>1, <2>2, PortAnswers
  <2>4. Port!DoLoad
    BY <1>3, <1>4, <2>1, <2>2, <2>3 DEF Port!DoLoad
  <2>5. QED
    BY <2>4 DEF Port!Next
<1>8. CASE reg_state = "CacheInvalidate"
  <2>1. insn.command = "Invalidate" /\ Cache!DoInvalidate
    BY <1>1, <1>8, RequestFacts, DoneFacts
  <2>2. UNCHANGED memory /\ reservation' \in SUBSET (reservation \ {PageOf(insn.vaddr)})
    BY <1>5, <2>1 DEF Cache!DoInvalidate
  <2>3. Port!Answer(0)
    BY <1>1, <1>8, <2>1, PortAnswers
  <2>4. Port!DoInvalidate
    BY <1>3, <2>1, <2>2, <2>3 DEF Port!DoInvalidate
  <2>5. QED
    BY <2>4 DEF Port!Next
<1>9. CASE reg_state = "CacheWrite"
  <2>1. /\ insn.command \in {"Store", "AtomicMemOp", "StoreConditional"}
        /\ request.command = IF insn.command = "AtomicMemOp" THEN "Store" ELSE insn.command
        /\ Cache!DoStore \/ (Cache!DoFail /\ insn.command = "StoreConditional")
    BY <1>1, <1>9, RequestFacts, DoneFacts
  <2>2. /\ insn.command = "AtomicMemOp" => reg_load_result = Loaded /\ reg_store_value = AtomicAlu(insn.atomic, insn.value, Loaded)
        /\ insn.command # "AtomicMemOp" => reg_store_value = insn.value
    BY <1>9 DEF UnitInv, AccessInv
  <2>3. Cache!DoStore => Port!Store(reg_store_value) /\ reservation' = reservation \ {PageOf(insn.vaddr)}
    <3>1. Insert(memory[PageOf(insn.vaddr)], insn.offset, insn.type, reg_store_value)
            = Cache!Merge(memory[PageOf(insn.vaddr)], request.writeValue, request.writeMask)
      BY <1>5 DEF Insert
    <3>2. QED
      BY <1>3, <1>5, <3>1 DEF Cache!DoStore, Port!Store, Port!Line
  <2>4. reg_state' = "Done"
    BY <1>1, <1>9
  <2>5. CASE insn.command = "Store"
    <3>1. Port!Answer(0)
      BY <2>4, <2>5, PortAnswers
    <3>2. Port!DoStore
      BY <1>3, <2>1, <2>2, <2>3, <2>5, <3>1 DEF Port!DoStore
    <3>3. QED
      BY <3>2 DEF Port!Next
  <2>6. CASE insn.command = "AtomicMemOp"
    <3>1. reg_load_result' = Loaded
      BY <1>9, <2>2, <2>6 DEF AccessCache, NextLoadResult
    <3>2. Port!Answer(Loaded)
      BY <2>4, <2>6, <3>1, PortAnswers
    <3>3. Port!DoAtomic
      BY <1>3, <1>4, <2>1, <2>2, <2>3, <2>6, <3>2 DEF Port!DoAtomic
    <3>4. QED
      BY <3>3 DEF Port!Next
  <2>7. CASE insn.command = "StoreConditional"
    <3>1. reg_load_result' = IF result'.failed THEN 1 ELSE 0
      BY <1>9, <2>7 DEF AccessCache, NextLoadResult
    <3>2. Port!Answer(reg_load_result')
      BY <2>4, <2>7, PortAnswers
    <3>3. CASE Cache!DoStore
      <4>1. result'.failed = FALSE /\ PageOf(insn.vaddr) \in reservation
        BY <1>5, <2>1, <2>7, <3>3 DEF Cache!DoStore, Cache!Answer
      <4>2. Port!Answer(0)
        BY <3>1, <3>2, <4>1
      <4>3. Port!DoStoreConditional
        BY <1>3, <2>2, <2>3, <2>7, <3>3, <4>1, <4>2 DEF Port!DoStoreConditional
      <4>4. QED
        BY <4>3 DEF Port!Next
    <3>4. CASE Cache!DoFail
      <4>1. result'.failed = TRUE /\ PageOf(insn.vaddr) \notin reservation /\ UNCHANGED <<memory, reservation>>
        BY <1>5, <3>4 DEF Cache!DoFail, Cache!Answer
      <4>2. Port!Answer(1)
        BY <3>1, <3>2, <4>1
      <4>3. Port!DoStoreConditional
        BY <1>3, <2>7, <4>1, <4>2 DEF Port!DoStoreConditional
      <4>4. QED
        BY <4>3 DEF Port!Next
    <3>5. QED
      BY <2>1, <2>7, <3>3, <3>4
  <2>8. QED
    BY <2>1, <2>5, <2>6, <2>7
<1>10. QED
  BY <1>1, <1>6, <1>7, <1>8, <1>9 DEF CacheStates

\* The cache is not asked for anything outside the states that access it.
EnableInv ==
  /\ "enable" \in DOMAIN request
  /\ reg_state \notin CacheStates => ~request.enable

LEMMA EnableStep ==
  ASSUME EnableInv, [Next]_vars
  PROVE EnableInv'
<1>1. CASE DriveCache
  BY <1>1 DEF DriveCache, EnableInv
<1>2. CASE UNCHANGED <<reg_state, request>>
  BY <1>2 DEF EnableInv
<1>3. CASE request' = [request EXCEPT !.enable = FALSE]
  <2>1. DOMAIN request' = DOMAIN request /\ request'.enable = FALSE
    BY <1>3 DEF EnableInv
  <2>2. QED
    BY <2>1 DEF EnableInv
<1>4. CASE reg_state = "AddrGen" /\ request' = request
  BY <1>4 DEF EnableInv, CacheStates
<1>5. CASE Done
  BY <1>5 DEF Done, cache, EnableInv, CacheStates
<1>6. QED
  BY <1>1, <1>2, <1>3, <1>4, <1>5
  DEF Next, NewInsn, AddrGen, Translate, AccessCache, WaitForCache, AtomicCalc, Reset, vars, registers, cache,
      cacheDone, Cache!DoLoad, Cache!DoStore, Cache!DoFail, Cache!DoInvalidate, Cache!Answer, Cache!Evict, Cache!Abort

\* What a reset leaves of the cache's store is what it leaves of the instruction.
LEMMA StoreCutShort ==
  ASSUME UnitInv, EnableInv, Cache!Abort
  PROVE \/ UNCHANGED memory
        \/ /\ Port!MayStore
           /\ \E n \in 1 .. WordCount :
                memory' = [memory EXCEPT ![PortInsn.page] =
                             [i \in Lanes |-> IF WordOf[i] < n THEN Port!Stored[i] ELSE @[i]]]
<1>1. SUFFICES ASSUME memory' # memory
      PROVE /\ Port!MayStore
            /\ \E n \in 1 .. WordCount :
                 memory' = [memory EXCEPT ![PortInsn.page] =
                              [i \in Lanes |-> IF WordOf[i] < n THEN Port!Stored[i] ELSE @[i]]]
  OBVIOUS
<1>2. /\ request.enable /\ request.command \in {"Store", "StoreConditional"}
      /\ request.command = "StoreConditional" => request.addr \in reservation
  BY <1>1 DEF Cache!Abort, Cache!Pending
<1>3. PICK n \in 1 .. WordCount :
        memory' = [memory EXCEPT ![request.addr] =
                     Cache!Merge(@, request.writeValue, Cache!Reached(request.writeMask, n))]
  BY <1>1 DEF Cache!Abort
<1>4. reg_state \in CacheStates
  BY <1>2 DEF EnableInv
<1>5. /\ request.addr = PageOf(insn.vaddr) /\ request.writeMask = WriteMask(insn.offset, insn.type)
      /\ request.writeValue = LeftShift(reg_store_value, insn.offset)
  BY <1>4, RequestFacts
<1>6. /\ reg_state = "CacheWrite" /\ insn.command \in {"Store", "AtomicMemOp", "StoreConditional"}
      /\ request.command = IF insn.command = "AtomicMemOp" THEN "Store" ELSE insn.command
  BY <1>2, <1>4, RequestFacts DEF CacheStates
<1>7. /\ PortInsn.valid /\ PortInsn.command = insn.command /\ PortInsn.page = PageOf(insn.vaddr)
      /\ PortInsn.offset = insn.offset /\ PortInsn.type = insn.type /\ PortInsn.value = insn.value
      /\ PortInsn.atomic = insn.atomic
  BY <1>6, PortBusy
<1>8. Port!MayStore
  BY <1>2, <1>5, <1>6, <1>7 DEF Port!MayStore
<1>9. Port!Stored = Insert(memory[PageOf(insn.vaddr)], insn.offset, insn.type, reg_store_value)
  <2>1. Port!Loaded = Loaded
    BY <1>7 DEF Port!Loaded, Port!Line, Loaded
  <2>2. reg_store_value = IF insn.command = "AtomicMemOp" THEN AtomicAlu(insn.atomic, insn.value, Loaded)
                                                         ELSE insn.value
    BY <1>6 DEF UnitInv, AccessInv
  <2>3. QED
    BY <1>7, <2>1, <2>2 DEF Port!Stored, Port!Line
<1>10. Cache!Merge(memory[request.addr], request.writeValue, Cache!Reached(request.writeMask, n))
         = [i \in Lanes |-> IF WordOf[i] < n THEN Port!Stored[i] ELSE memory[request.addr][i]]
  BY <1>5, <1>9 DEF Insert, Cache!Merge, Cache!Reached
<1>11. QED
  BY <1>3, <1>5, <1>7, <1>8, <1>10

LEMMA StepImplements ==
  ASSUME UnitInv, EnableInv, [Next]_vars
  PROVE [Port!Next]_(Port!vars)
<1>1. CASE NewInsn
  <2>1. /\ reg_state = "AddrGen" /\ insn.command = "None" /\ insn' \in Insns /\ UNCHANGED <<reg_state, memory, reservation>>
    BY <1>1 DEF NewInsn, registers, cache
  <2>2. ~PortInsn.valid /\ ~PortAnswer.valid /\ PortAnswer = Port!None
    BY <2>1, PortIdle DEF Port!Idle, Port!None
  <2>3. PortInsn'.valid
    <3>1. insn'.command # "None"
      BY <2>1, InsnsAssumption DEF Commands
    <3>2. QED
      BY <2>1, <3>1 DEF PortInsn
  <2>4. PortAnswer' = Port!None
    <3>1. (reg_state' = "Done") = FALSE /\ (reg_state' = "Done" /\ reg_tlb_fault') = FALSE
      BY <2>1
    <3>2. QED
      BY <3>1 DEF PortAnswer, Port!None
  <2>5. Port!Issue
    BY <2>1, <2>2, <2>3, <2>4 DEF Port!Issue
  <2>6. QED
    BY <2>5 DEF Port!Next
<1>2. CASE AddrGen
  <2>1. TablesKept /\ table' \in [EntryAddrs -> PageTableEntries]
    BY <1>2, IdleStep DEF AddrGen
  <2>2. PortInsn' = PortInsn /\ PortAnswer' = PortAnswer
    BY <1>2, <2>1, PortHeld DEF AddrGen
  <2>3. QED
    BY <1>2, <2>2 DEF AddrGen, cache, Port!vars
<1>3. CASE Translate
  <2>1. TablesKept /\ table' \in [EntryAddrs -> PageTableEntries]
    BY <1>3, TranslateTlb
  <2>2. reg_state = "Translate" /\ UNCHANGED <<insn, csr, memory, reservation>> /\ reg_state' \in {FirstAccess, "Translate"}
    BY <1>3 DEF Translate
  <2>3. FirstAccess # "Done"
    BY <2>2, InsnFacts, FirstAccessFacts DEF UnitInv, StateInv, CacheStates
  <2>4. PortInsn' = PortInsn /\ PortAnswer' = PortAnswer
    BY <2>1, <2>2, <2>3, PortHeld
  <2>5. QED
    BY <2>2, <2>4 DEF Port!vars
<1>4. CASE AccessCache
  BY <1>4, AccessImplements
<1>5. CASE WaitForCache
  <2>1. TablesKept /\ table' \in [EntryAddrs -> PageTableEntries]
    BY <1>5, IdleStep DEF WaitForCache, CacheStates
  <2>2. reg_state \in CacheStates /\ UNCHANGED <<insn, csr, memory, reg_state>> /\ reservation' \in SUBSET reservation
    BY <1>5 DEF WaitForCache, Cache!Evict
  <2>3. PortInsn' = PortInsn /\ PortAnswer' = PortAnswer
    BY <2>1, <2>2, PortHeld DEF CacheStates
  <2>4. PortInsn.valid
    BY <2>2, InsnFacts, PortBusy DEF UnitInv, StateInv, CacheStates
  <2>5. Port!Lose
    BY <2>2, <2>3, <2>4 DEF Port!Lose
  <2>6. QED
    BY <2>5 DEF Port!Next
<1>6. CASE AtomicCalc
  <2>1. TablesKept /\ table' \in [EntryAddrs -> PageTableEntries]
    BY <1>6, IdleStep DEF AtomicCalc
  <2>2. PortInsn' = PortInsn /\ PortAnswer' = PortAnswer
    BY <1>6, <2>1, PortHeld DEF AtomicCalc
  <2>3. QED
    BY <1>6, <2>2 DEF AtomicCalc, Port!vars
<1>7. CASE Done
  <2>1. reg_state = "Done" /\ reg_state' = "AddrGen" /\ insn'.command = "None" /\ UNCHANGED <<memory, reservation>>
    BY <1>7 DEF Done, cache, NoInsn
  <2>2. PortAnswer.valid /\ PortInsn = Port!Idle
    BY <2>1, PortIdle DEF PortAnswer
  <2>3. PortInsn' = Port!Idle
    BY <2>1 DEF PortInsn, Port!Idle
  <2>4. PortAnswer' = Port!None
    <3>1. (reg_state' = "Done") = FALSE /\ (reg_state' = "Done" /\ reg_tlb_fault') = FALSE
      BY <2>1
    <3>2. QED
      BY <3>1 DEF PortAnswer, Port!None
  <2>5. Port!Retire
    BY <2>1, <2>2, <2>3, <2>4 DEF Port!Retire
  <2>6. QED
    BY <2>5 DEF Port!Next
<1>8. CASE Reset
  <2>1. reg_state' = "AddrGen" /\ insn'.command = "None" /\ reservation' = {}
    BY <1>8 DEF Reset, NoInsn, Cache!Abort
  <2>2. PortInsn' = Port!Idle
    BY <2>1 DEF PortInsn, Port!Idle
  <2>3. PortAnswer' = Port!None
    <3>1. (reg_state' = "Done") = FALSE /\ (reg_state' = "Done" /\ reg_tlb_fault') = FALSE
      BY <2>1
    <3>2. QED
      BY <3>1 DEF PortAnswer, Port!None
  <2>4. \/ UNCHANGED memory
        \/ /\ Port!MayStore
           /\ \E n \in 1 .. WordCount :
                memory' = [memory EXCEPT ![PortInsn.page] =
                             [i \in Lanes |-> IF WordOf[i] < n THEN Port!Stored[i] ELSE @[i]]]
    BY <1>8, StoreCutShort DEF Reset
  <2>5. Port!Reset
    BY <2>1, <2>2, <2>3, <2>4 DEF Port!Reset
  <2>6. QED
    BY <2>5 DEF Port!Next
<1>9. CASE UNCHANGED vars
  <2>1. UNCHANGED <<insn, table, csr, reg_state, reg_tlb_fault, reg_load_result, memory, reservation>>
    BY <1>9 DEF vars, registers, cache
  <2>2. PortInsn' = PortInsn /\ PortAnswer' = PortAnswer
    BY <2>1 DEF PortInsn, PortAnswer, PageOf, Forbidden, IsFault, Walk, WalkOf, enable_translation
  <2>3. QED
    BY <2>1, <2>2 DEF Port!vars
<1>10. QED
  BY <1>1, <1>2, <1>3, <1>4, <1>5, <1>6, <1>7, <1>8, <1>9 DEF Next

\* LoadStoreUnit.sv with Tlb.sv over the cache: each instruction is one operation on memory at the page its address
\* is mapped to, read-modify-write included, answered with the value of that instant and the fault of its own access.
THEOREM UnitImplementsPort == Spec => ImplementsMemoryPort
<1>1. Init => Port!Init
  BY PortIdle DEF Init, NoInsn, Port!Init
<1>2. UnitInv /\ EnableInv /\ [Next]_vars => [Port!Next]_(Port!vars)
  BY StepImplements
<1>3. Init => EnableInv
  BY DEF Init, EnableInv
<1>4. EnableInv /\ [Next]_vars => EnableInv'
  BY EnableStep
<1>5. QED
  BY <1>1, <1>2, <1>3, <1>4, UnitTypes, PTL DEF Spec, ImplementsMemoryPort, Port!Spec
==============================================================================
