--------------------------------- MODULE Tlb ---------------------------------
(***************************************************************************)
(* The one-entry TLB and page table walker of the HDL core (cache/Tlb.sv), *)
(* of which the load/store unit and the fetch unit have one each.  Its     *)
(* client drives enable, command and vaddr; the bus grants a read or a     *)
(* write of one page table entry after any number of cycles, and its value *)
(* is looked at in the cycle of the grant only.                            *)
(*                                                                         *)
(* A virtual address is its two page numbers; offsets go around the TLB.   *)
(***************************************************************************)
EXTENDS Naturals

CONSTANTS Indices,      \* values of VPN1 and of VPN0
          Pages,        \* physical pages of programs and data
          TablePages,   \* physical pages that hold page tables
          RootPage,     \* satp.PPN
          Contexts,     \* values of satp.MODE, status and priv
          SamePage,     \* the physical page of an address that is not translated
          PageTables    \* contents of the page tables

ASSUME IndicesAssumption == 0 \in Indices
ASSUME RootAssumption == RootPage \in TablePages

Machine == 3
Supervisor == 1
User == 0

Vaddrs == [VPN1 : Indices, VPN0 : Indices]
EntryAddrs == [page : TablePages, index : Indices]
Flags == {"V", "R", "W", "X", "U", "A", "D"}
PageTableEntries == [flags : SUBSET Flags, page : Pages \cup TablePages]
AllContexts == [priv : {User, Supervisor, Machine}, translate : BOOLEAN, SUM : BOOLEAN, MXR : BOOLEAN]

ASSUME ContextsAssumption == Contexts \subseteq AllContexts
ASSUME SamePageAssumption == SamePage \in [Vaddrs -> Pages]

VARIABLES
  tlb,      \* the registers
  table,    \* the page table entries in memory
  csr       \* satp.MODE, status and priv

Zero == [flags |-> {}, page |-> RootPage]
TlbReset ==
  [state |-> "Default", valid |-> FALSE, dirty |-> FALSE, vaddr |-> [VPN1 |-> 0, VPN0 |-> 0],
   addr |-> [page |-> RootPage, index |-> 0], entry |-> Zero]

-----------------------------------------------------------------------------

IsLeafEntry(entry) == entry.flags \cap {"R", "X"} # {}
IsValidEntry(entry) == "V" \in entry.flags

\* Entries of the first level lead to tables, all others to pages, valid or not.
ASSUME PageTablesAssumption ==
  /\ PageTables \subseteq [EntryAddrs -> PageTableEntries]
  /\ \A t \in PageTables : \A a \in EntryAddrs :
       t[a].page \in (IF a.page = RootPage /\ IsValidEntry(t[a]) /\ ~IsLeafEntry(t[a])
                      THEN TablePages \ {RootPage} ELSE Pages)

IsFault(entry, accessType) ==
  \/ ~IsValidEntry(entry)
  \/ ~IsLeafEntry(entry)
  \/ csr.priv = Supervisor /\ ~csr.SUM /\ "U" \in entry.flags
  \/ csr.priv = User /\ "U" \notin entry.flags
  \/ accessType = "Instruction" /\ "X" \notin entry.flags
  \/ accessType = "Load" /\ "R" \notin entry.flags /\ ~(csr.MXR /\ "X" \in entry.flags)
  \/ accessType = "Store" /\ "W" \notin entry.flags

UpdatePageTableEntry(entry, dirty) ==
  [entry EXCEPT !.flags = (@ \ {"D"}) \cup {"A"} \cup (IF dirty THEN {"D"} ELSE {})]

\* Mutant: only the first page number is compared.
hitFirst(vaddr) == tlb.valid /\ tlb.vaddr.VPN1 = vaddr.VPN1
hit(vaddr) == tlb.valid /\ tlb.vaddr = vaddr
enable_translation == csr.priv # Machine /\ csr.translate

NextState(enable, command, vaddr, granted) ==
  CASE tlb.state = "Default" /\ enable /\ command = "Invalidate" /\ tlb.valid -> "Invalidate"
    [] tlb.state = "Default" /\ enable /\ command = "Translate" /\ enable_translation /\ ~hit(vaddr) ->
         IF tlb.valid THEN "Invalidate" ELSE "PageTableRead1"
    [] tlb.state = "Invalidate" /\ granted -> IF command = "Invalidate" THEN "Done" ELSE "PageTableRead1"
    [] tlb.state = "PageTableRead1" /\ granted -> "PageTableDecode1"
    [] tlb.state = "PageTableDecode1" ->
         IF IsLeafEntry(tlb.entry) \/ ~IsValidEntry(tlb.entry) THEN "Done" ELSE "PageTableRead0"
    [] tlb.state = "PageTableRead0" /\ granted -> "PageTableDecode0"
    [] tlb.state = "PageTableDecode0" -> "Done"
    [] tlb.state = "Done" -> "Default"
    [] OTHER -> tlb.state

NextValid == tlb.state = "Done" \/ (tlb.state # "Invalidate" /\ tlb.valid)
NextDirty(enable, command) ==
  \/ enable /\ command = "MarkDirty" /\ tlb.valid
  \/ tlb.state # "Done" /\ tlb.dirty

memReadEnable == tlb.state \in {"PageTableRead1", "PageTableRead0"}
memWriteEnable == tlb.state = "Invalidate"
memReadValue == table[tlb.addr]

\* The address of the entry read next is made of the entry read before.
\* Mutant: the next walk takes its first address before the old entry is written back.
NextAddrEarly(state, vaddr) ==
  CASE state \in {"PageTableRead1", "Invalidate"} -> [page |-> RootPage, index |-> vaddr.VPN1]
    [] state = "PageTableRead0" -> [page |-> tlb.entry.page, index |-> vaddr.VPN0]
    [] OTHER -> tlb.addr
NextAddr(state, vaddr) ==
  CASE state = "PageTableRead1" -> [page |-> RootPage, index |-> vaddr.VPN1]
    [] state = "PageTableRead0" -> [page |-> tlb.entry.page, index |-> vaddr.VPN0]
    [] OTHER -> tlb.addr

NextEntry(granted) == IF memReadEnable /\ granted THEN memReadValue ELSE tlb.entry

\* One cycle.  The table changes when an entry that is replaced has been written back.
TlbCycle(enable, command, vaddr, granted) ==
  LET state == NextState(enable, command, vaddr, granted) IN
  /\ tlb' = [state |-> state,
             valid |-> NextValid,
             dirty |-> NextDirty(enable, command),
             vaddr |-> CASE state = "Done" -> vaddr
                         [] state = "Invalidate" -> TlbReset.vaddr
                         [] OTHER -> tlb.vaddr,
             addr |-> NextAddr(state, vaddr),
             entry |-> NextEntry(granted)]
  /\ table' = IF memWriteEnable /\ granted
              THEN [table EXCEPT ![tlb.addr] = UpdatePageTableEntry(tlb.entry, tlb.dirty)]
              ELSE table

\* The answer to the client.
TlbDone(enable, command, vaddr) ==
  \/ ~enable_translation
  \/ enable /\ command = "MarkDirty"
  \/ enable /\ command = "Invalidate" /\ (tlb.state = "Done" \/ (tlb.state = "Default" /\ ~tlb.valid))
  \/ enable /\ command = "Translate" /\ (tlb.state = "Done" \/ (tlb.state = "Default" /\ hit(vaddr)))
TlbFault(accessType) == enable_translation /\ IsFault(tlb.entry, accessType)

TlbPage(vaddr) == IF enable_translation THEN tlb.entry.page ELSE SamePage[vaddr]

-----------------------------------------------------------------------------
(* What the page tables say. *)

\* A leaf of the first level maps all its addresses to one page: the code leaves VPN0 out of
\* the physical address.
WalkOf(tables, vaddr) ==
  LET first == tables[[page |-> RootPage, index |-> vaddr.VPN1]] IN
  IF IsLeafEntry(first) \/ ~IsValidEntry(first) THEN first
  ELSE tables[[page |-> first.page, index |-> vaddr.VPN0]]
Walk(vaddr) == WalkOf(table, vaddr)

\* An entry without its accessed and dirty bits.
Mapping(entry) == [entry EXCEPT !.flags = @ \ {"A", "D"}]
==============================================================================
