---------------------------- MODULE BusAccessUnit ----------------------------
(***************************************************************************)
(* The bus master of the HDL core (core/BusAccessUnit.sv): it takes one    *)
(* request at a time from the data TLB, the data cache, the instruction    *)
(* TLB and the instruction cache, in this order of priority, and moves a   *)
(* line or a page table entry over a 32-bit bus with Setup and Access      *)
(* phases.                                                                 *)
(*                                                                         *)
(* A client raises a request between two clock edges and holds it, address *)
(* and value included, until the cycle of its grant; only the address of a *)
(* page table entry that the instruction TLB is reading follows the pc of  *)
(* the fetch unit, which a flush changes.  The bus slave answers an access *)
(* after any number of cycles.                                             *)
(***************************************************************************)
EXTENDS Naturals

CONSTANTS LineAddrs,        \* addresses of lines
          WordCount,        \* DCACHE_WORD_COUNT, ICACHE_WORD_COUNT
          Words             \* values of a word

ASSUME WordCountAssumption == WordCount \in Nat \ {0}
ASSUME WordsAssumption == 0 \in Words

Caches == {"dcache", "icache"}
Ports == {"dtlb", "dcache", "itlb", "icache"}
WordIndices == 0 .. WordCount - 1
LinesOfWords == [WordIndices -> Words]

\* The instruction cache never writes (FetchUnit.sv leaves icacheWriteReq alone).
Kinds(port) == IF port = "icache" THEN {"Read"} ELSE {"Read", "Write"}

VARIABLES
  reg_state,                \* the transfer in progress: a port and a kind
  reg_bus_state, reg_done,
  reg_index,                \* the index register of the cache in progress
  reg_value,                \* the value register of the port in progress; the
                            \* other ones are zero, or not looked at.  A TLB has
                            \* the one word it asks for
  request,                  \* the wires from the clients
  memory                    \* the memory behind the bus

registers == <<reg_state, reg_bus_state, reg_done, reg_index, reg_value>>
vars == <<registers, request, memory>>

Idle == [port |-> "none", kind |-> "None"]
NoRequest(addr) ==
  [kind |-> "None", addr |-> addr, word |-> 0, value |-> [i \in WordIndices |-> 0]]

-----------------------------------------------------------------------------
(* Combinational logic *)

Requesting(port) == request[port].kind # "None"

\* The order in which State_Idle looks at the requests.
Higher(p, q) ==
  \/ p = "dtlb" /\ q # "dtlb"
  \/ p = "dcache" /\ q \in {"itlb", "icache"}
  \/ p = "itlb" /\ q = "icache"

Current == request[reg_state.port]

\* Which word of the line is on the bus.
Word == IF reg_state.port \in Caches THEN reg_index ELSE Current.word

\* Mutant: the write signal lists no TLB at all.
MutWriteForgetsTlb == reg_state.kind = "Write" /\ reg_state.port \in Caches

\* The write signal lists the data TLB twice and the instruction TLB never.
Write == reg_state.kind = "Write" /\ reg_state.port \in {"dcache", "dtlb", "icache"}

\* Mutant: the last word of a line is not waited for.
MutLastTooEarly == reg_state.port \in Caches => reg_index + 2 >= WordCount

Last == reg_state.port \in Caches => reg_index = WordCount - 1

\* Mutant: the index is wider than the line.
MutNextIndexGrows == IF reg_state.port \in Caches THEN reg_index + 1 ELSE 0

NextIndex == IF reg_state.port \in Caches THEN (reg_index + 1) % WordCount ELSE 0

\* The value register after a cycle with these data on the bus: a cache takes
\* them when they are valid, a TLB takes them always, and a write takes its value
\* from the client in every cycle.
NextValue(rdata, valid) ==
  IF reg_state.kind = "Write" THEN Current.value
  ELSE IF valid \/ reg_state.port \notin Caches THEN [reg_value EXCEPT ![Word] = rdata]
  ELSE reg_value

-----------------------------------------------------------------------------
(* Between two edges *)

\* A client that is not served raises a request.
Raise(port, kind, addr, word, value) ==
  /\ ~Requesting(port)
  /\ kind \in Kinds(port)
  /\ request' = [request EXCEPT ![port] =
                   [kind |-> kind, addr |-> addr, word |-> word, value |-> value]]
  /\ UNCHANGED <<registers, memory>>

\* A flush moves the pc while the instruction TLB reads: next_entry_paddr is
\* computed anew in every cycle of State_PageTableRead1 and State_PageTableRead0.
Move(addr, word) ==
  /\ request["itlb"].kind = "Read"
  /\ request' = [request EXCEPT !["itlb"].addr = addr, !["itlb"].word = word]
  /\ UNCHANGED <<registers, memory>>

-----------------------------------------------------------------------------
(* Clock edges *)

NothingToDo ==
  /\ reg_state = Idle
  /\ \A port \in Ports : ~Requesting(port)
  /\ reg_value' = [i \in WordIndices |-> 0]
  /\ UNCHANGED <<reg_state, reg_bus_state, reg_done, reg_index, request, memory>>

Choose(port) ==
  /\ reg_state = Idle
  /\ Requesting(port)
  /\ \A other \in Ports : Higher(other, port) => ~Requesting(other)
  /\ reg_state' = [port |-> port, kind |-> request[port].kind]
  /\ reg_value' = IF request[port].kind = "Write" THEN request[port].value
                                                  ELSE [i \in WordIndices |-> 0]
  /\ UNCHANGED <<reg_bus_state, reg_done, reg_index, request, memory>>

Setup(rdata) ==
  /\ reg_state # Idle /\ ~reg_done
  /\ reg_bus_state \in {"Idle", "Setup"}
  /\ reg_bus_state' = IF reg_bus_state = "Idle" THEN "Setup" ELSE "Access"
  /\ reg_value' = NextValue(rdata, FALSE)
  /\ UNCHANGED <<reg_state, reg_done, reg_index, request, memory>>

AccessWait(rdata) ==
  /\ reg_state # Idle
  /\ reg_bus_state = "Access"
  /\ reg_value' = NextValue(rdata, FALSE)
  /\ UNCHANGED <<reg_state, reg_bus_state, reg_done, reg_index, request, memory>>

\* The slave is ready: the word is transferred.
Access ==
  /\ reg_state # Idle
  /\ reg_bus_state = "Access"
  /\ reg_bus_state' = "Idle"
  /\ reg_done' = Last
  /\ reg_index' = NextIndex
  /\ reg_value' = NextValue(memory[Current.addr][Word], TRUE)
  /\ memory' = IF Write
               THEN [memory EXCEPT ![Current.addr][Word] = reg_value[Word]]
               ELSE memory
  /\ UNCHANGED <<reg_state, request>>

\* Mutant: the grant is given, but the state machine does not go back to Idle.
MutGrantStays ==
  /\ reg_done
  /\ reg_done' = FALSE
  /\ request' = [request EXCEPT ![reg_state.port] = NoRequest(@.addr)]
  /\ UNCHANGED <<reg_state, reg_bus_state, reg_index, reg_value, memory>>

\* The cycle of the grant: the client takes the value and lowers its request.
\* The value register is lost in the next cycle.
Grant ==
  /\ reg_done
  /\ reg_state' = Idle
  /\ reg_done' = FALSE
  /\ reg_value' = [i \in WordIndices |-> 0]
  /\ request' = [request EXCEPT ![reg_state.port] = NoRequest(@.addr)]
  /\ UNCHANGED <<reg_bus_state, reg_index, memory>>

\* `rst' resets the clients too; what is written stays written.
Reset ==
  /\ reg_state' = Idle
  /\ reg_bus_state' = "Idle"
  /\ reg_done' = FALSE
  /\ reg_index' = 0
  /\ reg_value' = [i \in WordIndices |-> 0]
  /\ request' = [port \in Ports |-> NoRequest(request[port].addr)]
  /\ UNCHANGED memory

-----------------------------------------------------------------------------

Init ==
  /\ reg_state = Idle
  /\ reg_bus_state = "Idle"
  /\ reg_done = FALSE
  /\ reg_index = 0
  /\ reg_value = [i \in WordIndices |-> 0]
  /\ \E addr \in LineAddrs : request = [port \in Ports |-> NoRequest(addr)]
  /\ memory \in [LineAddrs -> LinesOfWords]

\* What a client may ask for: a cache names no word, a read has no value, a TLB
\* has the value of one word.
WordsOf(port) == IF port \in Caches THEN {0} ELSE WordIndices
ValuesOf(port, kind, word) ==
  IF kind = "Read" THEN {[i \in WordIndices |-> 0]}
  ELSE IF port \in Caches THEN LinesOfWords
  ELSE {[i \in WordIndices |-> IF i = word THEN value ELSE 0] : value \in Words}

Progress ==
  \/ \E port \in Ports : Choose(port)
  \/ \E rdata \in Words : Setup(rdata)
  \/ Access \/ Grant

Next ==
  \/ \E port \in Ports, kind \in {"Read", "Write"}, addr \in LineAddrs :
       \E word \in WordsOf(port) : \E value \in ValuesOf(port, kind, word) :
         Raise(port, kind, addr, word, value)
  \/ \E addr \in LineAddrs, word \in WordIndices : Move(addr, word)
  \/ NothingToDo
  \/ \E rdata \in Words : AccessWait(rdata)
  \/ Progress
  \/ Reset

Spec == Init /\ [][Next]_vars

\* The clock runs and the slave answers.
FairSpec == Spec /\ WF_vars(Progress)
-----------------------------------------------------------------------------
(* Properties *)

Requests == [kind : {"None", "Read", "Write"}, addr : LineAddrs,
             word : WordIndices, value : LinesOfWords]

\* Every register of the bus master and every wire to it keeps to its width:
\* no index leaves its line (BusAccessUnit.sv).
TypeOK ==
  /\ reg_state \in [port : Ports, kind : {"Read", "Write"}] \union {Idle}
  /\ reg_bus_state \in {"Idle", "Setup", "Access"}
  /\ reg_done \in BOOLEAN
  /\ reg_index \in WordIndices
  /\ reg_value \in LinesOfWords
  /\ request \in [Ports -> Requests]
  /\ memory \in [LineAddrs -> LinesOfWords]

\* The words the transfer in progress is about, and those it has moved so far.
Span == IF reg_state.port \in Caches THEN WordIndices ELSE {Current.word}
Moved == IF reg_done THEN Span
         ELSE IF reg_state.port \in Caches THEN 0 .. reg_index - 1
         ELSE {}

\* Whatever the others ask for meanwhile, a transfer belongs to the port it was
\* chosen for until its grant, and the bus is quiet without one.
OneOwner ==
  /\ reg_state # Idle => reg_state.kind = Current.kind
  /\ reg_state = Idle => reg_bus_state = "Idle" /\ ~reg_done /\ reg_index = 0
  /\ reg_done => reg_bus_state = "Idle" /\ reg_index = 0

\* The words a read has moved are those memory holds now; in the cycle of the
\* grant that is the whole line, or the page table entry: none is torn, stale or
\* of another port.  Not so for the instruction TLB, whose address moves.
ReadsAreWhole ==
  reg_state.kind = "Read" /\ reg_state.port # "itlb" =>
    \A i \in Moved : reg_value[i] = memory[Current.addr][i]

WriteHasLanded == \A i \in Moved : memory[Current.addr][i] = Current.value[i]

\* The words a write of the data side has moved are in memory, at its grant all.
DataWritesLand ==
  reg_state.kind = "Write" /\ reg_state.port # "itlb" => WriteHasLanded

\* Memory changes only in the words of the write in progress, to the values its
\* client asked for.
RequestedChange ==
  \A addr \in LineAddrs, i \in WordIndices :
    memory'[addr][i] # memory[addr][i] =>
      /\ reg_state.kind = "Write" /\ addr = Current.addr /\ i \in Span
      /\ memory'[addr][i] = Current.value[i]

OnlyRequestedChanges == [][RequestedChange]_vars

\* A request is granted, or dropped by a reset, unless ports of higher priority
\* ask again and again: the arbiter has no other fairness.
EveryPortServed ==
  \A port \in Ports :
    \/ []<>~Requesting(port)
    \/ []<>(\E other \in Ports : Higher(other, port) /\ Requesting(other))
=============================================================================
