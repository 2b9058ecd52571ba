----------------------------- MODULE MCFetchUnit -----------------------------
(* FetchUnit for TLC: two virtual pages, mapped to two physical pages one    *)
(* way with translation and the other way without, and a cache of one line   *)
(* for each index of a page.                                                 *)
EXTENDS FetchUnit

Vaddr(i, j) == [VPN1 |-> i, VPN0 |-> j]
Entry(flags, page) == [flags |-> flags, page |-> page]

MCSamePage == [v \in Vaddrs |-> IF v.VPN0 = 0 THEN "p" ELSE "q"]
MCContexts == {[priv |-> Machine, translate |-> TRUE, SUM |-> FALSE, MXR |-> FALSE],
               [priv |-> User, translate |-> TRUE, SUM |-> FALSE, MXR |-> FALSE]}
MCPageTables ==
  {[a \in EntryAddrs |->
      IF a.page = "root" THEN Entry({"V"}, "t")
      ELSE Entry({"V", "X", "U", "A"}, IF a.index = 0 THEN "q" ELSE "p")]}

Pc(j, i) == [vaddr |-> Vaddr(0, j), index |-> i]

\* Two lines of one page, over and over.
MCInitialPc == Pc(0, 0)
MCTargets == {Pc(0, 1)}
MCFollowing == [pc \in Pcs |-> Pc(0, 1 - pc.index)]

\* The last line of one page and the first of the next.
PagesInitialPc == Pc(0, 1)
PagesTargets == {Pc(0, 1)}
PagesFollowing == [pc \in Pcs |-> IF pc.vaddr.VPN0 = 0 THEN Pc(1, 0) ELSE Pc(0, 1)]

\* One line can be stored to.
MCStores == {[line |-> [page |-> "p", index |-> 1], value |-> 1]}
MCMemories == {[l \in Lines |-> IF l.page = "q" THEN 1 ELSE 0]}
==============================================================================
