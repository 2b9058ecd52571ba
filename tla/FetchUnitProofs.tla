--------------------------- MODULE FetchUnitProofs ---------------------------
(***************************************************************************)
(* What holds of the fetch unit of the HDL core for a cache of any number  *)
(* of lines, any page tables, any program and any stores.                  *)
(***************************************************************************)
EXTENDS FetchUnit, TLAPS

-----------------------------------------------------------------------------
(* The TLB.  A copy in it maps as the entry it was read from, which is what *)
(* keeps the tables in order when it is written back.                       *)

TlbStates == {"Default", "Invalidate", "PageTableRead1", "PageTableDecode1", "PageTableRead0", "PageTableDecode0", "Done"}

\* Where an entry of a table leads to.
Placed(a, entry) ==
  entry.page \in (IF a.page = RootPage /\ IsValidEntry(entry) /\ ~IsLeafEntry(entry)
                  THEN TablePages \ {RootPage} ELSE Pages)

Copied == tlb.valid \/ tlb.state \in {"Invalidate", "PageTableDecode1", "PageTableDecode0", "Done"}
TlbInv ==
  /\ tlb.state \in TlbStates /\ tlb.valid \in BOOLEAN
  /\ tlb.addr \in EntryAddrs /\ tlb.entry \in PageTableEntries
  /\ table \in [EntryAddrs -> PageTableEntries]
  /\ \A a \in EntryAddrs : Placed(a, table[a])
  /\ tlb.state \in {"PageTableRead1", "PageTableDecode1"} => tlb.addr.page = RootPage
  /\ tlb.state \in {"PageTableRead0", "PageTableDecode0"} => tlb.addr.page # RootPage
  /\ tlb.state \in {"PageTableRead1", "PageTableDecode1", "PageTableRead0", "PageTableDecode0"} => ~tlb.valid
  /\ tlb.state = "PageTableRead0" => tlb.entry.page \in TablePages \ {RootPage}
  /\ Copied => Mapping(tlb.entry) = Mapping(table[tlb.addr])

LEMMA MappingFacts ==
  ASSUME NEW e \in PageTableEntries, NEW f \in PageTableEntries, Mapping(e) = Mapping(f)
  PROVE e.page = f.page /\ (IsValidEntry(e) <=> IsValidEntry(f)) /\ (IsLeafEntry(e) <=> IsLeafEntry(f))
<1> DEFINE Kept(x) == [flags |-> x.flags \ {"A", "D"}, page |-> x.page]
<1>1. Mapping(e) = Kept(e) /\ Mapping(f) = Kept(f)
  BY DEF Mapping, PageTableEntries
<1>2. Kept(e) = Kept(f)
  BY <1>1
<1>3. e.page = f.page /\ e.flags \ {"A", "D"} = f.flags \ {"A", "D"}
  BY <1>2
<1>4. \A x \in {"V", "R", "X"} : x \in e.flags <=> x \in f.flags
  BY <1>3
<1>5. QED
  BY <1>3, <1>4 DEF IsValidEntry, IsLeafEntry

LEMMA UpdatedMapping ==
  ASSUME NEW e \in PageTableEntries, NEW d
  PROVE UpdatePageTableEntry(e, d) \in PageTableEntries /\ Mapping(UpdatePageTableEntry(e, d)) = Mapping(e)
<1> DEFINE F == (e.flags \ {"D"}) \cup {"A"} \cup (IF d THEN {"D"} ELSE {})
<1> DEFINE U == [flags |-> F, page |-> e.page]
<1>1. F \subseteq Flags /\ F \ {"A", "D"} = e.flags \ {"A", "D"}
  BY DEF PageTableEntries, Flags
<1>2. UpdatePageTableEntry(e, d) = U
  BY DEF UpdatePageTableEntry, PageTableEntries
<1>3. U \in PageTableEntries
  BY <1>1 DEF PageTableEntries
<1>4. Mapping(U) = [flags |-> F \ {"A", "D"}, page |-> e.page]
  BY DEF Mapping
<1>5. Mapping(e) = [flags |-> e.flags \ {"A", "D"}, page |-> e.page]
  BY DEF Mapping, PageTableEntries
<1>6. QED
  BY <1>1, <1>2, <1>3, <1>4, <1>5

LEMMA SameMappingPlaced ==
  ASSUME NEW a \in EntryAddrs, NEW e \in PageTableEntries, NEW f \in PageTableEntries, Mapping(e) = Mapping(f)
  PROVE Placed(a, e) <=> Placed(a, f)
BY MappingFacts DEF Placed

\* The walker goes from state to state as the comment of the module tells.
LEMMA TlbNextStates ==
  ASSUME tlb.state \in TlbStates, tlb.valid \in BOOLEAN, NEW enable, NEW command, NEW vaddr, NEW granted \in BOOLEAN
  PROVE LET state == NextState(enable, command, vaddr, granted) IN
        /\ tlb.state = "Default" => \/ state = "Default" \/ (state = "Invalidate" /\ tlb.valid)
                                    \/ (state = "PageTableRead1" /\ ~tlb.valid)
        /\ tlb.state = "Invalidate" => IF granted THEN state \in {"Done", "PageTableRead1"} ELSE state = "Invalidate"
        /\ tlb.state = "PageTableRead1" => state = IF granted THEN "PageTableDecode1" ELSE "PageTableRead1"
        /\ tlb.state = "PageTableDecode1" =>
             state = IF IsLeafEntry(tlb.entry) \/ ~IsValidEntry(tlb.entry) THEN "Done" ELSE "PageTableRead0"
        /\ tlb.state = "PageTableRead0" => state = IF granted THEN "PageTableDecode0" ELSE "PageTableRead0"
        /\ tlb.state = "PageTableDecode0" => state = "Done"
        /\ tlb.state = "Done" => state = "Default"
BY DEF NextState, TlbStates

TablesKept == \A a \in EntryAddrs : Mapping(table'[a]) = Mapping(table[a])

\* What is written back maps as what it replaces.
LEMMA TableStep ==
  ASSUME TlbInv, NEW enable, NEW command, NEW vaddr \in Vaddrs, NEW granted \in BOOLEAN,
         TlbCycle(enable, command, vaddr, granted)
  PROVE /\ table' \in [EntryAddrs -> PageTableEntries]
        /\ \A a \in EntryAddrs : Placed(a, table'[a])
        /\ TablesKept
<1> DEFINE U == UpdatePageTableEntry(tlb.entry, tlb.dirty)
<1>1. CASE tlb.state = "Invalidate" /\ granted
  <2>1. U \in PageTableEntries /\ Mapping(U) = Mapping(tlb.entry)
    BY UpdatedMapping DEF TlbInv
  <2>2. Mapping(U) = Mapping(table[tlb.addr])
    BY <1>1, <2>1 DEF TlbInv, Copied
  <2>3. table' = [table EXCEPT ![tlb.addr] = U]
    BY <1>1 DEF TlbCycle, memWriteEnable
  <2> HIDE DEF U
  <2>4. table' \in [EntryAddrs -> PageTableEntries] /\ TablesKept
    BY <2>1, <2>2, <2>3 DEF TlbInv, TablesKept
  <2>5. QED
    BY <2>4, SameMappingPlaced DEF TablesKept, TlbInv
<1>2. CASE ~(tlb.state = "Invalidate" /\ granted)
  <2>1. table' = table
    BY <1>2 DEF TlbCycle, memWriteEnable
  <2>2. QED
    BY <2>1 DEF TlbInv, TablesKept
<1>3. QED
  BY <1>1, <1>2

\* The registers after a cycle.
LEMMA TlbFields ==
  ASSUME TlbInv, NEW enable, NEW command, NEW vaddr \in Vaddrs, NEW granted \in BOOLEAN,
         TlbCycle(enable, command, vaddr, granted)
  PROVE /\ tlb'.state = NextState(enable, command, vaddr, granted)
        /\ tlb'.valid = NextValid
        /\ tlb'.addr = NextAddr(tlb'.state, vaddr)
        /\ tlb'.entry = NextEntry(granted)
        /\ tlb'.state = "Done" => tlb'.vaddr = vaddr
        /\ tlb'.state \notin {"Done", "Invalidate"} => tlb'.vaddr = tlb.vaddr
BY DEF TlbCycle

LEMMA TlbStep ==
  ASSUME TlbInv, NEW enable, NEW command, NEW vaddr \in Vaddrs, NEW granted \in BOOLEAN,
         TlbCycle(enable, command, vaddr, granted)
  PROVE TlbInv'
<1>t. tlb.state \in TlbStates /\ tlb.valid \in BOOLEAN /\ tlb.addr \in EntryAddrs /\ tlb.entry \in PageTableEntries
      /\ table \in [EntryAddrs -> PageTableEntries]
  BY DEF TlbInv
<1>v. vaddr.VPN1 \in Indices /\ vaddr.VPN0 \in Indices
  BY DEF Vaddrs
<1>n. /\ tlb.state = "Default" => \/ tlb'.state = "Default" \/ (tlb'.state = "Invalidate" /\ tlb.valid)
                                  \/ (tlb'.state = "PageTableRead1" /\ ~tlb.valid)
      /\ tlb.state = "Invalidate" => IF granted THEN tlb'.state \in {"Done", "PageTableRead1"} ELSE tlb'.state = "Invalidate"
      /\ tlb.state = "PageTableRead1" => tlb'.state = IF granted THEN "PageTableDecode1" ELSE "PageTableRead1"
      /\ tlb.state = "PageTableDecode1" =>
           tlb'.state = IF IsLeafEntry(tlb.entry) \/ ~IsValidEntry(tlb.entry) THEN "Done" ELSE "PageTableRead0"
      /\ tlb.state = "PageTableRead0" => tlb'.state = IF granted THEN "PageTableDecode0" ELSE "PageTableRead0"
      /\ tlb.state = "PageTableDecode0" => tlb'.state = "Done"
      /\ tlb.state = "Done" => tlb'.state = "Default"
  BY <1>t, TlbFields, TlbNextStates
<1>f. /\ tlb'.valid <=> tlb.state = "Done" \/ (tlb.state # "Invalidate" /\ tlb.valid)
      /\ tlb'.valid \in BOOLEAN
  BY <1>t, TlbFields DEF NextValid
<1>a. /\ tlb'.state = "PageTableRead1" => tlb'.addr = [page |-> RootPage, index |-> vaddr.VPN1]
      /\ tlb'.state = "PageTableRead0" => tlb'.addr = [page |-> tlb.entry.page, index |-> vaddr.VPN0]
      /\ tlb'.state \notin {"PageTableRead1", "PageTableRead0"} => tlb'.addr = tlb.addr
  BY TlbFields DEF NextAddr
<1>e. tlb'.entry = IF tlb.state \in {"PageTableRead1", "PageTableRead0"} /\ granted THEN table[tlb.addr] ELSE tlb.entry
  BY TlbFields DEF NextEntry, memReadEnable, memReadValue
<1>1. tlb'.state \in TlbStates
  BY <1>t, <1>n DEF TlbStates
<1>2. tlb'.entry \in PageTableEntries
  BY <1>t, <1>e
<1>3. tlb'.state = "PageTableRead0" => tlb.entry.page \in TablePages \ {RootPage}
  <2>1. CASE tlb.state = "PageTableRead0"
    BY <2>1 DEF TlbInv
  <2>2. CASE tlb.state = "PageTableDecode1" /\ ~(IsLeafEntry(tlb.entry) \/ ~IsValidEntry(tlb.entry))
    <3>1. Placed(tlb.addr, tlb.entry)
      BY <1>t, <2>2, SameMappingPlaced DEF TlbInv, Copied
    <3>2. QED
      BY <2>2, <3>1 DEF Placed, TlbInv
  <2>3. QED
    BY <1>t, <1>n, <2>1, <2>2 DEF TlbStates
<1>4. tlb'.state = "PageTableRead0" => tlb'.entry.page \in TablePages \ {RootPage}
  BY <1>t, <1>n, <1>e, <1>3 DEF TlbStates
<1>5. tlb'.addr \in EntryAddrs
  BY <1>t, <1>v, <1>a, <1>1, <1>3, RootAssumption DEF EntryAddrs, TlbStates
<1>6. tlb'.state \in {"PageTableRead1", "PageTableDecode1"} => tlb'.addr.page = RootPage
  BY <1>t, <1>n, <1>a DEF TlbInv, TlbStates
<1>7. tlb'.state \in {"PageTableRead0", "PageTableDecode0"} => tlb'.addr.page # RootPage
  BY <1>t, <1>n, <1>a, <1>3 DEF TlbInv, TlbStates
<1>8. tlb'.state \in {"PageTableRead1", "PageTableDecode1", "PageTableRead0", "PageTableDecode0"} => ~tlb'.valid
  BY <1>t, <1>n, <1>f DEF TlbInv, TlbStates
<1>9. Copied' => Mapping(tlb'.entry) = Mapping(table'[tlb'.addr])
  <2>1. Mapping(table'[tlb.addr]) = Mapping(table[tlb.addr])
    BY <1>t, TableStep DEF TablesKept
  <2>2. Copied' => Copied \/ (tlb.state \in {"PageTableRead1", "PageTableRead0"} /\ granted)
    BY <1>t, <1>n, <1>f DEF Copied, TlbStates
  <2>3. Copied' => tlb'.addr = tlb.addr
    BY <1>8, <1>a DEF Copied
  <2>4. CASE tlb.state \in {"PageTableRead1", "PageTableRead0"} /\ granted
    BY <1>e, <2>1, <2>3, <2>4
  <2>5. CASE ~(tlb.state \in {"PageTableRead1", "PageTableRead0"} /\ granted)
    BY <1>e, <2>1, <2>2, <2>3, <2>5 DEF TlbInv
  <2>6. QED
    BY <2>4, <2>5
<1>10. QED
  BY <1>1, <1>2, <1>3, <1>4, <1>5, <1>6, <1>7, <1>8, <1>9, <1>f, TableStep DEF TlbInv

\* What the arrays are read with when translation is done: a page of programs.
LEMMA LeafPage ==
  ASSUME TlbInv, Copied, IsValidEntry(tlb.entry), IsLeafEntry(tlb.entry)
  PROVE tlb.entry.page \in Pages
BY SameMappingPlaced DEF TlbInv, Placed

-----------------------------------------------------------------------------
(* The invariant *)

Tags == [valid : BOOLEAN, tag : Pages \cup {ZeroPage}]
TypeInv ==
  /\ reg_state \in {"Default", "Invalidate", "ReplaceCache"} /\ reg_pc \in Pcs
  /\ reg_stall_counter \in 0 .. StallCycleAfterFlush
  /\ tagArray \in [LineIndices -> Tags] /\ dataArray \in [LineIndices -> Values]
  /\ memory \in [Lines -> Values] /\ fresh \in [Lines -> SUBSET Values]
  /\ replacer.state \in {"None", "InvalidateCache", "ReadMemory", "WriteCache"}
  /\ replacer.line \in Values /\ replacer.miss_addr \in Lines
  /\ invalidater.state \in {"None", "Invalidate"} /\ invalidater.index \in LineIndices
  /\ {invalidater.wait_icache, invalidater.wait_tlb, invalidater.do_icache, reg_cache_read} \subseteq BOOLEAN

\* Who may be at work when.
TurnInv ==
  /\ replacer.state # "None" => reg_state = "ReplaceCache" /\ ~reg_cache_read
  /\ reg_state = "Invalidate" => ~reg_cache_read
  /\ invalidater.state = "Invalidate" => reg_state = "Invalidate"

\* What has been read is in step with the arrays and the TLB; if it is repeated, it misses again.
ReadInv ==
  reg_cache_read =>
    /\ ~reg_tlb_fault /\ reg_stall_counter = 0
    /\ reg_paddr = [page |-> TlbPage(reg_pc.vaddr), index |-> reg_pc.index]
    /\ reg_paddr.page \in Pages
    /\ tagRead = tagArray[reg_paddr.index]
    /\ reg_state # "Default" => cache_miss

\* A line is of the lowest page or has been fetched since the last fence.
LineIsFresh(i) ==
  tagArray[i].valid /\ tagArray[i].tag # ZeroPage => dataArray[i] \in fresh[[page |-> tagArray[i].tag, index |-> i]]
LineIsDead(i) == ~tagArray[i].valid \/ tagArray[i].tag = ZeroPage
\* It need not be so while a fence waits or takes effect.
FreshInv ==
  /\ \A l \in Lines : memory[l] \in fresh[l]
  /\ FetchedIsFresh
  /\ ~waitInvalidate =>
       /\ reg_state # "Invalidate" => \A i \in LineIndices : LineIsFresh(i)
       /\ replacer.state = "WriteCache" => replacer.line \in fresh[replacer.miss_addr]
       /\ invalidater.state = "Invalidate" => \A i \in LineIndices : i < invalidater.index => LineIsDead(i)

FetchInv == TlbInv /\ TypeInv /\ TurnInv /\ ReadInv /\ FreshInv

-----------------------------------------------------------------------------
(* One cycle *)

LEMMA InputFacts ==
  ASSUME NEW in \in Inputs
  PROVE /\ in.stall \in BOOLEAN /\ in.request \in Requests
        /\ in.flush = NoFlush \/ \E t \in Targets : in.flush = {t}
<1> DEFINE Quiet == [flush |-> NoFlush, stall |-> FALSE, request |-> "none"]
<1>1. CASE in = Quiet
  <2>1. in.flush = NoFlush /\ in.stall = FALSE /\ in.request = "none"
    BY <1>1
  <2>2. QED
    BY <2>1, RequestsAssumption
<1>2. CASE in \in [flush : {NoFlush}, stall : Stalls, request : Requests]
  <2>1. in.flush = NoFlush /\ in.stall \in Stalls /\ in.request \in Requests
    BY <1>2
  <2>2. QED
    BY <2>1 DEF Stalls
<1>3. CASE in \in [flush : {{t} : t \in Targets}, stall : {FALSE}, request : Requests]
  <2>1. in.flush \in {{t} : t \in Targets} /\ in.stall = FALSE /\ in.request \in Requests
    BY <1>3
  <2>2. QED
    BY <2>1
<1>4. QED
  BY <1>1, <1>2, <1>3 DEF Inputs, AllInputs

LEMMA NextPcType ==
  ASSUME reg_pc \in Pcs, NEW in \in Inputs
  PROVE next_pc(in) \in Pcs
<1>1. ASSUME NEW t \in Targets, in.flush = {t}
      PROVE (CHOOSE u \in Pcs : u \in in.flush) \in Pcs
  <2>1. t \in Pcs /\ t \in in.flush
    BY <1>1, PcsAssumption
  <2>2. QED
    BY <2>1
<1>2. Following[reg_pc] \in Pcs
  BY PcsAssumption
<1>3. QED
  BY <1>1, <1>2, InputFacts DEF next_pc, flushed

LEMMA PcFields ==
  ASSUME NEW pc \in Pcs
  PROVE pc.vaddr \in Vaddrs /\ pc.index \in LineIndices
BY DEF Pcs

LEMMA InvalidaterIndex ==
  ASSUME NEW i \in LineIndices
  PROVE /\ (i + 1) % IndexCount \in LineIndices
        /\ (i + 1) % IndexCount = 0 => i = IndexCount - 1
        /\ (i + 1) % IndexCount # 0 => (i + 1) % IndexCount = i + 1
        /\ 0 \in LineIndices
<1>1. i \in Nat /\ i + 1 <= IndexCount /\ IndexCount \in Nat \ {0}
  BY IndexCountAssumption DEF LineIndices
<1>2. CASE i + 1 = IndexCount
  <2>1. (i + 1) % IndexCount = 0
    BY <1>1, <1>2
  <2>2. QED
    BY <1>1, <1>2, <2>1 DEF LineIndices
<1>3. CASE i + 1 < IndexCount
  <2>1. (i + 1) % IndexCount = i + 1
    BY <1>1, <1>3
  <2>2. QED
    BY <1>1, <1>3, <2>1 DEF LineIndices
<1>4. QED
  BY <1>1, <1>2, <1>3

\* What a read is started with stays as it is: the translation, the arrays, and what is fresh.
LEMMA ReadStarts ==
  ASSUME FetchInv, NEW in \in Inputs, NEW t \in BOOLEAN, NEW m \in BOOLEAN, Cycle(in, t, m), reg_cache_read'
  PROVE /\ reg_state = "Default" /\ ~waitInvalidate /\ ~flushed(in) /\ reg_stall_counter = 0
        /\ ~reg_tlb_fault' /\ reg_stall_counter' = 0
        /\ reg_paddr' = [page |-> TlbPage(reg_pc.vaddr)', index |-> reg_pc.index']
        /\ reg_paddr'.page = TlbPage(next_pc(in).vaddr)
        /\ reg_paddr'.page \in Pages
        /\ reg_paddr'.index \in LineIndices
        /\ tagRead' = tagArray[reg_paddr'.index] /\ dataRead' = dataArray[reg_paddr'.index]
        /\ tagArray' = tagArray /\ dataArray' = dataArray /\ fresh' = fresh
<1> DEFINE pc == next_pc(in)
           paddr == [page |-> TlbPage(pc.vaddr), index |-> pc.index]
<1>1. NextCacheRead(in)
  BY DEF Cycle
<1>2. /\ reg_state = "Default" /\ ~waitInvalidate /\ ~flushed(in) /\ reg_stall_counter = 0
      /\ TlbDone(tlb_enable, tlb_command, pc.vaddr) /\ ~TlbFault("Instruction")
  BY <1>1 DEF NextCacheRead, stalled
<1>3. pc \in Pcs /\ pc.vaddr \in Vaddrs /\ pc.index \in LineIndices
  BY NextPcType, PcFields DEF FetchInv, TypeInv
<1> HIDE DEF pc
<1>4. reg_pc' = pc /\ reg_paddr' = paddr
  BY DEF Cycle, pc
<1>5. ~reg_tlb_fault' /\ reg_stall_counter' = 0
  BY <1>2 DEF Cycle
<1>6. csr' = csr
  BY <1>2 DEF Cycle, StallCycleAfterFlush
<1>7. tlb_command = "Translate"
  BY <1>2 DEF tlb_command
<1>8. enable_translation => tlb.state \in {"Done", "Default"} /\ Copied
  BY <1>2, <1>7 DEF TlbDone, Copied, hit
<1>9. enable_translation => tlb'.entry = tlb.entry
  BY <1>8 DEF Cycle, TlbCycle, NextEntry, memReadEnable
<1>10. enable_translation' <=> enable_translation
  BY <1>6 DEF enable_translation
<1>11. TlbPage(reg_pc.vaddr)' = TlbPage(pc.vaddr)
  BY <1>4, <1>9, <1>10 DEF TlbPage
<1>12. TlbPage(pc.vaddr) \in Pages
  <2>1. CASE enable_translation
    <3>1. IsValidEntry(tlb.entry) /\ IsLeafEntry(tlb.entry)
      BY <1>2, <2>1 DEF TlbFault, IsFault
    <3>2. QED
      BY <1>8, <2>1, <3>1, LeafPage DEF TlbPage, FetchInv
  <2>2. CASE ~enable_translation
    BY <1>3, <2>2, SamePageAssumption DEF TlbPage
  <2>3. QED
    BY <2>1, <2>2
<1>13. TagIndex(paddr) = pc.index /\ DataIndex(paddr) = pc.index
  BY <1>2 DEF TagIndex, DataIndex
<1>14. TagWrite = {} /\ DataWrite = {}
  BY <1>2 DEF TagWrite, DataWrite
<1>15. tagArray' = tagArray /\ dataArray' = dataArray
  BY <1>14 DEF Cycle, Written, FetchInv, TypeInv
<1>16. tagRead' = tagArray[TagIndex(paddr)] /\ dataRead' = dataArray[DataIndex(paddr)]
  BY DEF Cycle, pc
<1>17. fresh' = fresh
  BY <1>2 DEF Cycle
<1>18. paddr.index = pc.index /\ paddr.page = TlbPage(pc.vaddr)
  OBVIOUS
<1>19. QED
  BY <1>2, <1>3, <1>4, <1>5, <1>11, <1>12, <1>13, <1>15, <1>16, <1>17, <1>18 DEF pc
-----------------------------------------------------------------------------
(* What a cycle keeps *)

LEMMA PaddrType ==
  ASSUME TypeInv, ReadInv, reg_cache_read
  PROVE reg_paddr \in Lines
BY PcFields DEF TypeInv, ReadInv, Lines

LEMMA TagWriteType ==
  ASSUME TypeInv
  PROVE TagWrite = {} \/ \E w \in Tags : TagWrite = {w}
<1>1. [valid |-> invalidater.do_icache, tag |-> ZeroPage] \in Tags
  BY DEF TypeInv, Tags
<1>2. [valid |-> TRUE, tag |-> replacer.miss_addr.page] \in Tags
  BY DEF TypeInv, Tags, Lines
<1>3. QED
  BY <1>1, <1>2 DEF TagWrite

LEMMA ArrayTypes ==
  ASSUME TypeInv, NEW paddr, paddr.index \in LineIndices
  PROVE /\ TagIndex(paddr) \in LineIndices /\ DataIndex(paddr) \in LineIndices
        /\ Written(tagArray, TagIndex(paddr), TagWrite) \in [LineIndices -> Tags]
        /\ Written(dataArray, DataIndex(paddr), DataWrite) \in [LineIndices -> Values]
<1>1. TagIndex(paddr) \in LineIndices /\ DataIndex(paddr) \in LineIndices
  BY DEF TagIndex, DataIndex, TypeInv, Lines
<1>2. ASSUME NEW i \in LineIndices
      PROVE Written(tagArray, i, TagWrite) \in [LineIndices -> Tags]
  BY TagWriteType DEF Written, TypeInv
<1>3. ASSUME NEW i \in LineIndices
      PROVE Written(dataArray, i, DataWrite) \in [LineIndices -> Values]
  BY DEF Written, TypeInv, DataWrite
<1>4. QED
  BY <1>1, <1>2, <1>3

LEMMA ReplacerFields ==
  ASSUME TypeInv, ReadInv, NEW m \in BOOLEAN, replacer' = ReplacerNext(cache_miss, m)
  PROVE /\ replacer'.state = ReplacerNextState(m)
        /\ replacer'.line = IF replacer.state = "ReadMemory" /\ m THEN memory[replacer.miss_addr] ELSE replacer.line
        /\ replacer'.miss_addr = IF cache_miss THEN reg_paddr ELSE replacer.miss_addr
        /\ replacer'.state \in {"None", "InvalidateCache", "ReadMemory", "WriteCache"}
        /\ replacer'.line \in Values /\ replacer'.miss_addr \in Lines
<1>1. /\ replacer'.state = ReplacerNextState(m)
      /\ replacer'.line = IF replacer.state = "ReadMemory" /\ m THEN memory[replacer.miss_addr] ELSE replacer.line
      /\ replacer'.miss_addr = IF cache_miss THEN reg_paddr ELSE replacer.miss_addr
  BY DEF ReplacerNext
<1>2. ReplacerNextState(m) \in {"None", "InvalidateCache", "ReadMemory", "WriteCache"}
  BY DEF ReplacerNextState, TypeInv
<1>3. replacer'.line \in Values
  BY <1>1 DEF TypeInv
<1>4. replacer'.miss_addr \in Lines
  BY <1>1, PaddrType DEF TypeInv, cache_miss
<1>5. QED
  BY <1>1, <1>2, <1>3, <1>4

LEMMA InvalidaterFields ==
  ASSUME TypeInv, NEW in \in Inputs, invalidater' = InvalidaterNext(in)
  PROVE LET starts == invalidater.state = "None" /\ reg_state = "Invalidate" IN
        /\ invalidater'.state = InvalidaterNextState
        /\ invalidater'.index = InvalidaterNextIndex
        /\ waitInvalidate' <=> ~starts /\ (waitInvalidate \/ in.request # "none")
        /\ invalidater'.state \in {"None", "Invalidate"} /\ invalidater'.index \in LineIndices
        /\ invalidater'.wait_icache \in BOOLEAN /\ invalidater'.wait_tlb \in BOOLEAN /\ invalidater'.do_icache \in BOOLEAN
<1> DEFINE icache == invalidater.wait_icache \/ in.request # "none"
           both == invalidater.wait_tlb \/ in.request = "sfence.vma"
           starts == invalidater.state = "None" /\ InvalidaterNextState = "Invalidate"
           ends == invalidater.state = "Invalidate" /\ InvalidaterNextState = "None"
<1>1. /\ invalidater'.state = InvalidaterNextState
      /\ invalidater'.index = InvalidaterNextIndex
      /\ invalidater'.wait_icache = (~starts /\ icache)
      /\ invalidater'.wait_tlb = (~starts /\ both)
      /\ invalidater'.do_icache = IF starts THEN icache ELSE ~ends /\ invalidater.do_icache
  BY DEF InvalidaterNext
<1>2. InvalidaterNextState \in {"None", "Invalidate"} /\ InvalidaterNextIndex \in LineIndices
  BY InvalidaterIndex, IndexCountAssumption DEF InvalidaterNextState, InvalidaterNextIndex, TypeInv, LineIndices
<1>3. starts <=> invalidater.state = "None" /\ reg_state = "Invalidate"
  BY DEF InvalidaterNextState
<1>4. icache \/ both <=> waitInvalidate \/ in.request # "none"
  BY DEF waitInvalidate
<1> HIDE DEF starts, icache, both, ends
<1>5. invalidater'.wait_icache \in BOOLEAN /\ invalidater'.wait_tlb \in BOOLEAN
  BY <1>1
<1>6. invalidater'.do_icache \in BOOLEAN
  BY <1>1 DEF TypeInv, icache
<1>7. waitInvalidate' <=> ~starts /\ (icache \/ both)
  BY <1>1 DEF waitInvalidate
<1>8. QED
  BY <1>1, <1>2, <1>3, <1>4, <1>5, <1>6, <1>7

LEMMA CycleType ==
  ASSUME FetchInv, NEW in \in Inputs, NEW t \in BOOLEAN, NEW m \in BOOLEAN, Cycle(in, t, m)
  PROVE TypeInv'
<1> DEFINE pc == next_pc(in)
           paddr == [page |-> TlbPage(pc.vaddr), index |-> pc.index]
<1> USE DEF FetchInv
<1>1. pc \in Pcs /\ paddr.index \in LineIndices
  BY NextPcType, PcFields DEF TypeInv
<1>2. reg_state' \in {"Default", "Invalidate", "ReplaceCache"}
  BY DEF Cycle, NextFetchState
<1>3. reg_stall_counter' \in 0 .. StallCycleAfterFlush
  BY DEF Cycle, TypeInv, StallCycleAfterFlush
<1>4. tagArray' \in [LineIndices -> Tags] /\ dataArray' \in [LineIndices -> Values]
  BY <1>1, ArrayTypes DEF Cycle
<1>5. memory' \in [Lines -> Values]
  BY DEF Cycle, TypeInv
<1>6. fresh' \in [Lines -> SUBSET Values]
  <2>1. [l \in Lines |-> {memory[l]}] \in [Lines -> SUBSET Values]
    BY DEF TypeInv
  <2>2. QED
    BY <2>1 DEF Cycle, TypeInv
<1>7. replacer' = ReplacerNext(cache_miss, m) /\ invalidater' = InvalidaterNext(in)
  BY DEF Cycle
<1>8. reg_cache_read' \in BOOLEAN
  BY DEF Cycle, NextCacheRead
<1>9. reg_pc' = pc
  BY DEF Cycle
<1>10. QED
  BY <1>1, <1>2, <1>3, <1>4, <1>5, <1>6, <1>7, <1>8, <1>9, ReplacerFields, InvalidaterFields DEF TypeInv

LEMMA CycleTurn ==
  ASSUME FetchInv, NEW in \in Inputs, NEW t \in BOOLEAN, NEW m \in BOOLEAN, Cycle(in, t, m)
  PROVE TurnInv'
<1>1. reg_state' = NextFetchState
  BY DEF Cycle
<1>2. replacer'.state = ReplacerNextState(m) /\ invalidater'.state = InvalidaterNextState
  BY ReplacerFields, InvalidaterFields DEF Cycle, FetchInv
<1>3. reg_cache_read' => reg_state = "Default" /\ ~waitInvalidate
  BY ReadStarts
<1>4. replacer'.state # "None" => reg_state' = "ReplaceCache" /\ ~reg_cache_read'
  <2>1. replacer'.state # "None" => reg_state = "ReplaceCache" /\ replacer.state # "WriteCache"
    BY <1>2 DEF ReplacerNextState, FetchInv, TurnInv, TypeInv
  <2>2. QED
    BY <1>1, <1>3, <2>1 DEF NextFetchState, replacerDone
<1>5. reg_state' = "Invalidate" => ~reg_cache_read'
  BY <1>1, <1>3 DEF NextFetchState
<1>6. invalidater'.state = "Invalidate" => reg_state' = "Invalidate"
  <2>1. invalidater'.state = "Invalidate" => reg_state = "Invalidate" /\ ~invalidaterDone
    BY <1>2 DEF InvalidaterNextState, invalidaterDone, FetchInv, TurnInv
  <2>2. QED
    BY <1>1, <2>1 DEF NextFetchState
<1>7. QED
  BY <1>4, <1>5, <1>6 DEF TurnInv

\* A read whose predecessor missed is of the same line and finds what that found.
LEMMA CycleRead ==
  ASSUME FetchInv, NEW in \in Inputs, NEW t \in BOOLEAN, NEW m \in BOOLEAN, Cycle(in, t, m)
  PROVE ReadInv'
<1> SUFFICES ASSUME reg_cache_read'
             PROVE /\ ~reg_tlb_fault' /\ reg_stall_counter' = 0
                   /\ reg_paddr' = [page |-> TlbPage(reg_pc.vaddr)', index |-> reg_pc.index']
                   /\ reg_paddr'.page \in Pages
                   /\ tagRead' = tagArray'[reg_paddr'.index]
                   /\ reg_state' # "Default" => cache_miss'
  BY DEF ReadInv
<1>1. ASSUME reg_state' # "Default"
      PROVE cache_miss'
  <2>1. reg_state = "Default" /\ ~waitInvalidate /\ ~flushed(in)
    BY ReadStarts
  <2>2. cache_miss
    BY <1>1, <2>1 DEF Cycle, NextFetchState
  <2>3. reg_cache_read /\ ~reg_tlb_fault
    BY <2>2 DEF cache_miss, FetchInv, ReadInv
  <2>4. ~valid
    BY <2>2, <2>3 DEF valid
  <2>5. next_pc(in) = reg_pc
    BY <2>1, <2>4 DEF next_pc
  <2>6. reg_pc' = reg_pc
    BY <2>5 DEF Cycle
  <2>7. reg_paddr' = reg_paddr
    BY <2>3, <2>5, <2>6, ReadStarts DEF FetchInv, ReadInv, Cycle
  <2>8. tagRead' = tagRead
    BY <2>3, <2>7, ReadStarts DEF FetchInv, ReadInv
  <2>9. QED
    BY <2>2, <2>7, <2>8 DEF cache_miss
<1>2. QED
  BY <1>1, ReadStarts

\* A hit is on a line that is fresh.
LEMMA CycleFetches ==
  ASSUME FetchInv, NEW in \in Inputs, NEW t \in BOOLEAN, NEW m \in BOOLEAN, Cycle(in, t, m)
  PROVE FetchedIsFresh'
<1> SUFFICES ASSUME valid'
             PROVE dataRead' \in fresh'[reg_paddr']
  BY DEF FetchedIsFresh
<1> DEFINE i == reg_paddr'.index
<1>1. reg_cache_read'
  BY DEF valid
<1>2. ~cache_miss'
  BY <1>1, ReadStarts DEF valid
<1>3. tagRead'.valid /\ tagRead'.tag = reg_paddr'.page
  BY <1>1, <1>2 DEF cache_miss
<1>4. reg_state = "Default" /\ ~waitInvalidate /\ i \in LineIndices /\ reg_paddr'.page \in Pages
      /\ tagRead' = tagArray[i] /\ dataRead' = dataArray[i] /\ fresh' = fresh
  BY <1>1, ReadStarts
<1>5. LineIsFresh(i)
  BY <1>4 DEF FetchInv, FreshInv
<1>6. dataArray[i] \in fresh[[page |-> reg_paddr'.page, index |-> i]]
  BY <1>3, <1>4, <1>5, ZeroPageAssumption DEF LineIsFresh
<1>7. reg_paddr' = [page |-> reg_paddr'.page, index |-> i]
  BY <1>1, ReadStarts
<1>8. QED
  BY <1>4, <1>6, <1>7

\* Nothing is written unless lines are invalidated or replaced.
LEMMA ArraysStep ==
  ASSUME FetchInv, NEW in \in Inputs, NEW t \in BOOLEAN, NEW m \in BOOLEAN, Cycle(in, t, m)
  PROVE /\ invalidater.state = "Invalidate" =>
             tagArray' = [tagArray EXCEPT ![invalidater.index] = [valid |-> invalidater.do_icache, tag |-> ZeroPage]]
        /\ reg_state = "ReplaceCache" /\ replacerDone =>
             /\ tagArray' = [tagArray EXCEPT ![replacer.miss_addr.index] = [valid |-> TRUE, tag |-> replacer.miss_addr.page]]
             /\ dataArray' = [dataArray EXCEPT ![replacer.miss_addr.index] = replacer.line]
        /\ ~(reg_state = "ReplaceCache" /\ replacerDone) => dataArray' = dataArray
        /\ ~(reg_state = "ReplaceCache" /\ replacerDone) /\ invalidater.state # "Invalidate" => tagArray' = tagArray
<1> DEFINE pc == next_pc(in)
           paddr == [page |-> TlbPage(pc.vaddr), index |-> pc.index]
<1>1. /\ tagArray' = Written(tagArray, TagIndex(paddr), TagWrite)
      /\ dataArray' = Written(dataArray, DataIndex(paddr), DataWrite)
  BY DEF Cycle
<1> HIDE DEF paddr
<1>2. invalidater.state = "Invalidate" => reg_state = "Invalidate"
  BY DEF FetchInv, TurnInv
<1>3. ASSUME invalidater.state = "Invalidate"
      PROVE tagArray' = [tagArray EXCEPT ![invalidater.index] = [valid |-> invalidater.do_icache, tag |-> ZeroPage]]
  <2>1. TagWrite = {[valid |-> invalidater.do_icache, tag |-> ZeroPage]} /\ TagIndex(paddr) = invalidater.index
    BY <1>2, <1>3 DEF TagWrite, TagIndex
  <2>2. QED
    BY <1>1, <2>1 DEF Written
<1>4. ASSUME reg_state = "ReplaceCache", replacerDone
      PROVE /\ tagArray' = [tagArray EXCEPT ![replacer.miss_addr.index] = [valid |-> TRUE, tag |-> replacer.miss_addr.page]]
            /\ dataArray' = [dataArray EXCEPT ![replacer.miss_addr.index] = replacer.line]
  <2>1. TagWrite = {[valid |-> TRUE, tag |-> replacer.miss_addr.page]} /\ TagIndex(paddr) = replacer.miss_addr.index
    BY <1>4 DEF TagWrite, TagIndex
  <2>2. DataWrite = {replacer.line} /\ DataIndex(paddr) = replacer.miss_addr.index
    BY <1>4 DEF DataWrite, DataIndex
  <2>3. QED
    BY <1>1, <2>1, <2>2 DEF Written
<1>5. ~(reg_state = "ReplaceCache" /\ replacerDone) => dataArray' = dataArray
  BY <1>1 DEF DataWrite, Written, FetchInv, TypeInv
<1>6. ASSUME ~(reg_state = "ReplaceCache" /\ replacerDone), invalidater.state # "Invalidate"
      PROVE tagArray' = tagArray
  <2>1. TagWrite = {}
    BY <1>6 DEF TagWrite
  <2>2. QED
    BY <1>1, <2>1 DEF Written, FetchInv, TypeInv
<1>7. QED
  BY <1>3, <1>4, <1>5, <1>6

\* While no fence waits and no invalidation begins, the old lines stay as fresh as they were.
LEMMA LinesStep ==
  ASSUME FetchInv, NEW in \in Inputs, NEW t \in BOOLEAN, NEW m \in BOOLEAN, Cycle(in, t, m),
         ~waitInvalidate, fresh' = fresh
  PROVE /\ reg_state' # "Invalidate" => \A i \in LineIndices : LineIsFresh(i)'
        /\ replacer'.state = "WriteCache" => replacer'.line \in fresh'[replacer'.miss_addr]
        /\ invalidater.state = "Invalidate" /\ invalidater'.state = "Invalidate" =>
             \A i \in LineIndices : i < invalidater'.index => LineIsDead(i)'
<1>t. invalidater.index \in LineIndices /\ tagArray \in [LineIndices -> Tags] /\ dataArray \in [LineIndices -> Values]
      /\ replacer.miss_addr \in Lines /\ invalidater.state \in {"None", "Invalidate"}
      /\ replacer.state \in {"None", "InvalidateCache", "ReadMemory", "WriteCache"}
  BY DEF FetchInv, TypeInv
<1>s. invalidater'.state = InvalidaterNextState /\ invalidater'.index = InvalidaterNextIndex
  BY InvalidaterFields DEF Cycle, FetchInv
<1>r. reg_state' = NextFetchState
  BY DEF Cycle
<1>1. ASSUME invalidater.state = "Invalidate", NEW i \in LineIndices, i <= invalidater.index
      PROVE LineIsDead(i)'
  <2>1. tagArray' = [tagArray EXCEPT ![invalidater.index] = [valid |-> invalidater.do_icache, tag |-> ZeroPage]]
    BY <1>1, ArraysStep
  <2>2. CASE i = invalidater.index
    BY <1>t, <2>1, <2>2 DEF LineIsDead
  <2>3. CASE i < invalidater.index
    BY <1>t, <1>1, <2>1, <2>3 DEF LineIsDead, FetchInv, FreshInv
  <2>4. QED
    BY <1>t, <1>1, <2>2, <2>3, IndexCountAssumption DEF LineIndices
<1>2. ASSUME reg_state' # "Invalidate", NEW i \in LineIndices
      PROVE LineIsFresh(i)'
  <2>1. CASE reg_state = "Invalidate"
    <3>1. invalidater.state = "Invalidate" /\ InvalidaterNextIndex = 0
      BY <1>r, <1>2, <2>1 DEF NextFetchState, invalidaterDone, InvalidaterNextState
    <3>2. invalidater.index = IndexCount - 1
      BY <1>t, <3>1, InvalidaterIndex DEF InvalidaterNextIndex
    <3>3. i <= invalidater.index
      BY <3>2, IndexCountAssumption DEF LineIndices
    <3>4. QED
      BY <1>1, <3>1, <3>3 DEF LineIsDead, LineIsFresh
  <2>2. CASE reg_state # "Invalidate" /\ reg_state = "ReplaceCache" /\ replacerDone
    <3> DEFINE l == replacer.miss_addr
    <3>1. /\ tagArray' = [tagArray EXCEPT ![l.index] = [valid |-> TRUE, tag |-> l.page]]
          /\ dataArray' = [dataArray EXCEPT ![l.index] = replacer.line]
      BY <2>2, ArraysStep
    <3>2. replacer.line \in fresh[l]
      BY <2>2 DEF replacerDone, FetchInv, FreshInv
    <3>3. l.index \in LineIndices /\ l = [page |-> l.page, index |-> l.index]
      BY <1>t DEF Lines
    <3>4. CASE i = l.index
      BY <1>t, <3>1, <3>2, <3>3, <3>4 DEF LineIsFresh
    <3>5. CASE i # l.index
      <4>1. tagArray'[i] = tagArray[i] /\ dataArray'[i] = dataArray[i]
        BY <1>t, <3>1, <3>5
      <4>2. LineIsFresh(i)
        BY <2>2 DEF FetchInv, FreshInv
      <4>3. QED
        BY <4>1, <4>2 DEF LineIsFresh
    <3>6. QED
      BY <3>4, <3>5
  <2>3. CASE reg_state # "Invalidate" /\ ~(reg_state = "ReplaceCache" /\ replacerDone)
    <3>1. invalidater.state # "Invalidate"
      BY <2>3 DEF FetchInv, TurnInv
    <3>2. tagArray' = tagArray /\ dataArray' = dataArray
      BY <2>3, <3>1, ArraysStep
    <3>3. LineIsFresh(i)
      BY <2>3 DEF FetchInv, FreshInv
    <3>4. QED
      BY <3>2, <3>3 DEF LineIsFresh
  <2>4. QED
    BY <2>1, <2>2, <2>3
<1>3. ASSUME replacer'.state = "WriteCache"
      PROVE replacer'.line \in fresh'[replacer'.miss_addr]
  <2>1. /\ replacer'.state = ReplacerNextState(m)
        /\ replacer'.line = IF replacer.state = "ReadMemory" /\ m THEN memory[replacer.miss_addr] ELSE replacer.line
        /\ replacer'.miss_addr = IF cache_miss THEN reg_paddr ELSE replacer.miss_addr
    BY ReplacerFields DEF Cycle, FetchInv
  <2>2. replacer.state = "ReadMemory" /\ m
    BY <1>t, <1>3, <2>1 DEF ReplacerNextState
  <2>3. ~cache_miss
    BY <2>2 DEF cache_miss, FetchInv, TurnInv
  <2>4. QED
    BY <1>t, <2>1, <2>2, <2>3 DEF FetchInv, FreshInv
<1>4. ASSUME invalidater.state = "Invalidate", invalidater'.state = "Invalidate",
             NEW i \in LineIndices, i < invalidater'.index
      PROVE LineIsDead(i)'
  <2>1. invalidater'.index = (invalidater.index + 1) % IndexCount /\ (invalidater.index + 1) % IndexCount # 0
    BY <1>s, <1>4 DEF InvalidaterNextState, InvalidaterNextIndex
  <2>2. invalidater'.index = invalidater.index + 1
    BY <1>t, <2>1, InvalidaterIndex
  <2>3. i <= invalidater.index
    BY <1>t, <1>4, <2>2, IndexCountAssumption DEF LineIndices
  <2>4. QED
    BY <1>1, <1>4, <2>3
<1>5. QED
  BY <1>2, <1>3, <1>4

\* A fence that has come takes effect at the end of an invalidation that begins later.
LEMMA CycleFresh ==
  ASSUME FetchInv, NEW in \in Inputs, NEW t \in BOOLEAN, NEW m \in BOOLEAN, Cycle(in, t, m)
  PROVE FreshInv'
<1>1. \A l \in Lines : memory'[l] \in fresh'[l]
  BY DEF Cycle, FetchInv, FreshInv
<1>2. FetchedIsFresh'
  BY CycleFetches
<1>3. ASSUME ~waitInvalidate'
      PROVE /\ reg_state' # "Invalidate" => \A i \in LineIndices : LineIsFresh(i)'
            /\ replacer'.state = "WriteCache" => replacer'.line \in fresh'[replacer'.miss_addr]
            /\ invalidater'.state = "Invalidate" => \A i \in LineIndices : i < invalidater'.index => LineIsDead(i)'
  <2> DEFINE starts == invalidater.state = "None" /\ reg_state = "Invalidate"
  <2>1. /\ invalidater'.state = InvalidaterNextState
        /\ invalidater'.index = InvalidaterNextIndex
        /\ waitInvalidate' <=> ~starts /\ (waitInvalidate \/ in.request # "none")
    BY InvalidaterFields DEF Cycle, FetchInv
  <2>2. CASE starts
    <3>1. reg_state' = "Invalidate"
      BY <2>2 DEF Cycle, NextFetchState, invalidaterDone
    <3>2. replacer'.state = "None"
      BY <3>1, CycleTurn DEF TurnInv
    <3>3. invalidater'.index = 0
      BY <2>1, <2>2 DEF InvalidaterNextIndex
    <3>4. \A i \in LineIndices : ~(i < 0)
      BY IndexCountAssumption DEF LineIndices
    <3>5. QED
      BY <3>1, <3>2, <3>3, <3>4
  <2>3. CASE ~starts
    <3>1. ~waitInvalidate /\ in.request = "none"
      BY <1>3, <2>1, <2>3
    <3>2. fresh' = fresh
      BY <3>1 DEF Cycle
    <3>3. invalidater'.state = "Invalidate" => invalidater.state = "Invalidate"
      BY <2>1, <2>3 DEF InvalidaterNextState, FetchInv, TypeInv
    <3>4. QED
      BY <3>1, <3>2, <3>3, LinesStep
  <2>4. QED
    BY <2>2, <2>3
<1>4. QED
  BY <1>1, <1>2, <1>3 DEF FreshInv

LEMMA CycleInv ==
  ASSUME FetchInv, NEW in \in Inputs, NEW t \in BOOLEAN, NEW m \in BOOLEAN, Cycle(in, t, m)
  PROVE FetchInv'
<1>1. TlbInv'
  <2>1. next_pc(in).vaddr \in Vaddrs
    BY NextPcType, PcFields DEF FetchInv, TypeInv
  <2>2. TlbCycle(tlb_enable, tlb_command, next_pc(in).vaddr, t)
    BY DEF Cycle
  <2>3. QED
    BY <2>1, <2>2, TlbStep DEF FetchInv
<1>2. QED
  BY <1>1, CycleType, CycleTurn, CycleRead, CycleFresh DEF FetchInv

LEMMA StoreInv ==
  ASSUME FetchInv, Store
  PROVE FetchInv'
<1>1. PICK s \in Stores :
        /\ memory' = [memory EXCEPT ![s.line] = s.value]
        /\ fresh' = [fresh EXCEPT ![s.line] = @ \cup {s.value}]
  BY DEF Store
<1>2. s.line \in Lines /\ s.value \in Values
  BY StoresAssumption
<1>3. UNCHANGED <<tlb, table, csr, reg_state, reg_pc, reg_paddr, reg_cache_read, reg_tlb_fault, reg_stall_counter,
                  tagArray, tagRead, dataArray, dataRead, replacer, invalidater>>
  BY DEF Store, fetch, arrays
<1>4. memory \in [Lines -> Values] /\ fresh \in [Lines -> SUBSET Values]
  BY DEF FetchInv, TypeInv
<1>5. memory' \in [Lines -> Values] /\ fresh' \in [Lines -> SUBSET Values]
  BY <1>1, <1>2, <1>4
<1>6. \A l \in Lines : fresh[l] \subseteq fresh'[l]
  BY <1>1, <1>2, <1>4
<1>7. TlbInv'
  BY <1>3 DEF FetchInv, TlbInv, Copied
<1>8. TypeInv' /\ TurnInv'
  BY <1>3, <1>5 DEF FetchInv, TypeInv, TurnInv
<1>9. ReadInv'
  BY <1>3 DEF FetchInv, ReadInv, cache_miss, TlbPage, enable_translation
<1>10. FreshInv'
  <2>1. \A l \in Lines : memory'[l] \in fresh'[l]
    BY <1>1, <1>2, <1>4 DEF FetchInv, FreshInv
  <2>2. FetchedIsFresh'
    <3>1. valid => reg_paddr \in Lines
      BY PaddrType DEF valid, FetchInv
    <3>2. QED
      BY <1>3, <1>6, <3>1 DEF FetchInv, FreshInv, FetchedIsFresh, valid, cache_miss
  <2>3. ASSUME NEW i \in LineIndices, LineIsFresh(i)
        PROVE LineIsFresh(i)'
    <3>1. [page |-> tagArray[i].tag, index |-> i] \in Lines
      BY DEF Lines, FetchInv, TypeInv, Tags
    <3>2. QED
      BY <1>3, <1>6, <2>3, <3>1 DEF LineIsFresh
  <2>4. replacer.miss_addr \in Lines
    BY DEF FetchInv, TypeInv
  <2>5. waitInvalidate' <=> waitInvalidate
    BY <1>3 DEF waitInvalidate
  <2>6. \A i \in LineIndices : LineIsDead(i)' <=> LineIsDead(i)
    BY <1>3 DEF LineIsDead
  <2>7. QED
    BY <1>3, <1>6, <2>1, <2>2, <2>3, <2>4, <2>5, <2>6 DEF FetchInv, FreshInv
<1>11. QED
  BY <1>7, <1>8, <1>9, <1>10 DEF FetchInv

\* After a reset, and to start with: nothing is cached, nothing is read.
Started ==
  /\ tlb = TlbReset /\ table \in [EntryAddrs -> PageTableEntries] /\ \A a \in EntryAddrs : Placed(a, table[a])
  /\ reg_state = "Default" /\ reg_pc = InitialPc /\ reg_cache_read = FALSE /\ reg_stall_counter = 0
  /\ tagArray = Empty /\ dataArray \in [LineIndices -> Values] /\ memory \in [Lines -> Values]
  /\ (\E line \in Values : replacer = ReplacerReset(line)) /\ invalidater = InvalidaterReset
  /\ fresh = [l \in Lines |-> {memory[l]}]

LEMMA StartedTlb == Started => TlbInv
<1> SUFFICES ASSUME Started PROVE TlbInv
  OBVIOUS
<1>1. Zero \in PageTableEntries
  BY RootAssumption DEF Zero, PageTableEntries
<1>2. /\ tlb.state = "Default" /\ tlb.valid = FALSE /\ tlb.entry = Zero
      /\ tlb.addr = [page |-> RootPage, index |-> 0]
  BY DEF Started, TlbReset
<1>3. tlb.addr \in EntryAddrs
  BY <1>2, RootAssumption, IndicesAssumption DEF EntryAddrs
<1>4. QED
  BY <1>1, <1>2, <1>3 DEF Started, TlbInv, TlbStates, Copied

LEMMA StartedInv == Started => FetchInv
<1> SUFFICES ASSUME Started PROVE FetchInv
  OBVIOUS
<1>1. PICK line \in Values : replacer = ReplacerReset(line)
  BY DEF Started
<1>2. replacer.state = "None" /\ replacer.line = line /\ replacer.miss_addr = [page |-> ZeroPage, index |-> 0]
  BY <1>1 DEF ReplacerReset
<1>3. /\ invalidater.state = "None" /\ invalidater.index = 0 /\ invalidater.do_icache = FALSE
      /\ invalidater.wait_icache = FALSE /\ invalidater.wait_tlb = FALSE
  BY DEF Started, InvalidaterReset
<1>4. 0 \in LineIndices
  BY IndexCountAssumption DEF LineIndices
<1>5. Empty \in [LineIndices -> Tags]
  BY DEF Empty, Tags
<1>6. memory \in [Lines -> Values] /\ fresh = [l \in Lines |-> {memory[l]}]
  BY DEF Started
<1>7. fresh \in [Lines -> SUBSET Values]
  BY <1>6
<1>8. replacer.miss_addr \in Lines
  BY <1>2, <1>4 DEF Lines
<1>9. TypeInv
  <2>1. reg_state = "Default" /\ reg_pc \in Pcs /\ reg_cache_read \in BOOLEAN /\ reg_stall_counter \in 0 .. StallCycleAfterFlush
    <3>1. reg_state = "Default" /\ reg_pc = InitialPc /\ reg_cache_read = FALSE /\ reg_stall_counter = 0
      BY DEF Started
    <3>2. InitialPc \in Pcs
      BY PcsAssumption
    <3>3. 0 \in 0 .. StallCycleAfterFlush
      BY DEF StallCycleAfterFlush
    <3>4. QED
      BY <3>1, <3>2, <3>3
  <2>2. tagArray \in [LineIndices -> Tags] /\ dataArray \in [LineIndices -> Values]
    BY <1>5 DEF Started
  <2>3. replacer.line \in Values /\ invalidater.index \in LineIndices
    BY <1>2, <1>3, <1>4
  <2>4. {invalidater.wait_icache, invalidater.wait_tlb, invalidater.do_icache, reg_cache_read} \subseteq BOOLEAN
    BY <1>3, <2>1
  <2>5. replacer.state \in {"None", "InvalidateCache", "ReadMemory", "WriteCache"}
        /\ invalidater.state \in {"None", "Invalidate"}
    BY <1>2, <1>3
  <2>6. QED
    BY <1>6, <1>7, <1>8, <2>1, <2>2, <2>3, <2>4, <2>5 DEF TypeInv
<1>10. TurnInv /\ ReadInv
  BY <1>2, <1>3 DEF Started, TurnInv, ReadInv
<1>11. FreshInv
  <2>1. \A l \in Lines : memory[l] \in fresh[l]
    BY <1>6
  <2>2. \A i \in LineIndices : ~tagArray[i].valid
    BY DEF Started, Empty
  <2>3. QED
    BY <1>2, <1>3, <2>1, <2>2 DEF Started, FreshInv, FetchedIsFresh, valid, LineIsFresh
<1>12. QED
  BY <1>9, <1>10, <1>11, StartedTlb DEF FetchInv

LEMMA InitStarted == Init => Started
<1> SUFFICES ASSUME Init PROVE Started
  OBVIOUS
<1>1. table \in [EntryAddrs -> PageTableEntries] /\ \A a \in EntryAddrs : Placed(a, table[a])
  BY PageTablesAssumption DEF Init, Placed
<1>2. memory \in [Lines -> Values]
  BY MemoriesAssumption DEF Init
<1>3. ZeroLine \in Lines
  BY IndexCountAssumption DEF ZeroLine, Lines, LineIndices
<1>4. dataRead \in Values /\ dataArray \in [LineIndices -> Values]
  BY <1>2, <1>3 DEF Init
<1>5. QED
  BY <1>1, <1>2, <1>4 DEF Init, Started

LEMMA ResetStarted ==
  ASSUME FetchInv, Reset
  PROVE Started'
<1>1. /\ tlb' = TlbReset /\ reg_state' = "Default" /\ reg_pc' = InitialPc /\ reg_cache_read' = FALSE
      /\ reg_stall_counter' = 0 /\ tagArray' = Empty /\ replacer' = ReplacerReset(replacer.line)
      /\ invalidater' = InvalidaterReset /\ fresh' = [l \in Lines |-> {memory[l]}]
      /\ table' = table /\ dataArray' = dataArray /\ memory' = memory
  BY DEF Reset
<1>2. QED
  BY <1>1 DEF Started, FetchInv, TlbInv, TypeInv

LEMMA StutterInv ==
  ASSUME FetchInv, UNCHANGED <<tlb, table, csr, fetch, arrays, replacer, invalidater, memory, fresh>>
  PROVE FetchInv'
<1>1. UNCHANGED <<tlb, table, csr, reg_state, reg_pc, reg_paddr, reg_cache_read, reg_tlb_fault, reg_stall_counter,
                  tagArray, tagRead, dataArray, dataRead, replacer, invalidater, memory, fresh>>
  BY DEF fetch, arrays
<1>2. TlbInv'
  BY <1>1 DEF FetchInv, TlbInv, Copied
<1>3. TypeInv' /\ TurnInv'
  BY <1>1 DEF FetchInv, TypeInv, TurnInv
<1>4. ReadInv'
  BY <1>1 DEF FetchInv, ReadInv, cache_miss, TlbPage, enable_translation
<1>5. FreshInv'
  BY <1>1 DEF FetchInv, FreshInv, FetchedIsFresh, valid, cache_miss, LineIsFresh, LineIsDead, waitInvalidate
<1>6. QED
  BY <1>2, <1>3, <1>4, <1>5 DEF FetchInv

LEMMA GrantTypes == TlbGrants \subseteq BOOLEAN /\ MemGrants \subseteq BOOLEAN
BY DEF TlbGrants, MemGrants

LEMMA FetchStep == FetchInv /\ [Next]_vars => FetchInv'
<1> SUFFICES ASSUME FetchInv, [Next]_vars
             PROVE FetchInv'
  OBVIOUS
<1>1. CASE Take
  BY <1>1, GrantTypes, CycleInv DEF Take
<1>2. CASE Wait
  BY <1>2, GrantTypes, CycleInv DEF Wait
<1>3. CASE Redirect
  BY <1>3, GrantTypes, CycleInv DEF Redirect
<1>4. CASE Store
  BY <1>4, StoreInv
<1>5. CASE Settle
  BY <1>5, StutterInv DEF Settle
<1>6. CASE Reset
  <2>1. Started'
    BY <1>6, ResetStarted
  <2>2. QED
    BY <2>1, StartedInv, PTL
<1>7. CASE UNCHANGED vars
  BY <1>7, StutterInv DEF vars
<1>8. QED
  BY <1>1, <1>2, <1>3, <1>4, <1>5, <1>6, <1>7 DEF Next

\* The states of the unit, its replacer, its invalidater and its TLB, how they take turns, and what
\* the lines of the cache hold: whatever the size of the cache, the page tables and the program.
THEOREM FetchTypes == Spec => []FetchInv
<1>1. Init => FetchInv
  BY InitStarted, StartedInv
<1>2. QED
  BY <1>1, FetchStep, PTL DEF Spec

\* FetchUnit.sv with ICacheReplacer.sv and FetchUnitInvalidater.sv: an instruction that is delivered
\* is one that memory held at its physical address at some time since the last fence took effect.
THEOREM FetchesWhatIsFresh == Spec => []FetchedIsFresh
<1>1. FetchInv => FetchedIsFresh
  BY DEF FetchInv, FreshInv
<1>2. QED
  BY <1>1, FetchTypes, PTL

\* FetchUnit.sv, next_pc: the unit leaves the instruction that is taken, and no other.
THEOREM LeavesWhatIsTaken == Spec => TakenOnce
<1>1. FetchInv /\ [Next]_vars => [MovesOnWhenTaken]_vars
  <2> SUFFICES ASSUME FetchInv PROVE MovesOnWhenTaken
    OBVIOUS
  <2>1. ASSUME Take PROVE reg_pc' = Following[reg_pc]
    <3>1. PICK in \in Inputs, t \in TlbGrants, m \in MemGrants :
            ~flushed(in) /\ ~in.stall /\ Cycle(in, t, m)
      BY <2>1 DEF Take
    <3>2. valid
      BY <2>1 DEF Take
    <3>3. reg_cache_read /\ ~reg_tlb_fault /\ reg_stall_counter = 0 /\ ~cache_miss
      BY <3>2 DEF valid, FetchInv, ReadInv
    <3>4. reg_state = "Default"
      BY <3>3 DEF FetchInv, ReadInv
    <3>5. next_pc(in) = Following[reg_pc]
      BY <3>1, <3>2, <3>3, <3>4 DEF next_pc, stalled
    <3>6. QED
      BY <3>1, <3>5 DEF Cycle
  <2>2. ASSUME Wait PROVE reg_pc' = reg_pc
    <3>1. PICK in \in Inputs, t \in TlbGrants, m \in MemGrants :
            ~flushed(in) /\ (~valid \/ in.stall) /\ Cycle(in, t, m)
      BY <2>2 DEF Wait
    <3>2. next_pc(in) = reg_pc
      BY <3>1 DEF next_pc, stalled
    <3>3. QED
      BY <3>1, <3>2 DEF Cycle
  <2>3. QED
    BY <2>1, <2>2 DEF MovesOnWhenTaken
<1>2. QED
  BY <1>1, FetchTypes, PTL DEF Spec, TakenOnce
=============================================================================
