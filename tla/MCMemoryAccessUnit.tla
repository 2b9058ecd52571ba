------------------------- MODULE MCMemoryAccessUnit -------------------------
(***************************************************************************)
(* MemoryAccessUnit for TLC: Sv32, two pages of two words, one after the   *)
(* other.  Words are an unused entry, a pointer to the second page, a page *)
(* that a user may write, whose number is too large for an address and     *)
(* leaves that of the second page, and a page of read-only code; a leaf in *)
(* the root table maps more, and is misaligned if it maps the second page. *)
(***************************************************************************)
EXTENDS MemoryAccessUnit

Page(i) == [n \in Fields |-> IF n = Levels THEN i ELSE 0]
MCPages == {Page(0), Page(1)}
MCNextPage == [page \in MCPages |-> IF page = Page(0) THEN {Page(1)} ELSE {}]
Far == [n \in Fields |-> IF n = 1 THEN VpnCount ELSE 1]
MCPpns == MCPages \union {Far}

Entry(bits, ppn) == [bits |-> bits, ppn |-> ppn]
MCEntries ==
  {Entry({"V"}, Page(1)), Entry({"V", "R", "W", "U"}, Far), Entry({"V", "R", "X", "A"}, Page(0))}

\* A machine that sets up the tables, and a program whose data is accessed with
\* the privileges of a user, before a trap, and with its own after one.
Status(priv, mpp, bare) ==
  [priv |-> priv, MPP |-> mpp, MPRV |-> ~bare, SUM |-> FALSE, MXR |-> FALSE,
   bare |-> bare, root |-> Page(0)]
MCStatuses == {Status("Machine", "Machine", TRUE), Status("Supervisor", "User", FALSE)}
=============================================================================
