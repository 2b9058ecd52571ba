--------------------------- MODULE MCLoadStoreUnit ---------------------------
(* LoadStoreUnit for TLC: a page table of two levels, with a page of each    *)
(* kind, and instructions of every kind.  A byte stands for a word of the    *)
(* bus, so that an instruction may store one word or two.                    *)
EXTENDS LoadStoreUnit

Vaddr(i, j) == [VPN1 |-> i, VPN0 |-> j]
At(page, i) == [page |-> page, index |-> i]
Entry(flags, page) == [flags |-> flags, page |-> page]

MCSamePage == [v \in Vaddrs |-> IF v.VPN0 = 0 THEN "p" ELSE "q"]
MCContexts == {[priv |-> Machine, translate |-> TRUE, SUM |-> FALSE, MXR |-> FALSE],
               [priv |-> User, translate |-> TRUE, SUM |-> FALSE, MXR |-> FALSE]}

\* Addresses 0,0 and 0,1 are mapped by the second level, read-write and read-only; 1,0 and 1,1
\* by one entry of the first level.
MCPageTables ==
  {[a \in EntryAddrs |->
      CASE a = At("root", 0) -> Entry({"V"}, "t")
        [] a = At("root", 1) -> Entry({"V", "R", "X", "U"}, "q")
        [] a = At("t", 0) -> Entry({"V", "R", "W", "U", "D"}, "p")
        [] a = At("t", 1) -> Entry({"R", "W", "U"}, "q")]}

Insn(command, vaddr, offset, size, signed, value, atomic) ==
  [command |-> command, vaddr |-> vaddr, offset |-> offset, type |-> [size |-> size, signed |-> signed],
   value |-> value, atomic |-> atomic]
MCInsns ==
  {Insn("Load", Vaddr(1, 0), 1, 1, TRUE, 0, "Swap"),
   Insn("Store", Vaddr(0, 0), 1, 1, FALSE, 1, "Swap"), Insn("Store", Vaddr(0, 1), 0, 2, FALSE, 2, "Swap"),
   Insn("AtomicMemOp", Vaddr(0, 0), 0, 2, TRUE, 1, "Add"),
   Insn("LoadReserved", Vaddr(0, 0), 0, 2, TRUE, 0, "Swap"),
   Insn("StoreConditional", Vaddr(0, 0), 0, 2, TRUE, 3, "Swap"),
   Insn("Invalidate", Vaddr(0, 1), 0, 2, TRUE, 0, "Swap")}
MCWordOf == [i \in Lanes |-> i]
MCMemories == {[p \in Pages |-> [i \in Lanes |-> IF p = "q" THEN i ELSE 0]]}
==============================================================================
