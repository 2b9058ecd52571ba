-------------------------------- MODULE DCache --------------------------------
(***************************************************************************)
(* The data cache of the HDL core (cache/DCache.sv): direct mapped, write  *)
(* through, write allocate, with a reservation bit per line.  Every action *)
(* but Request is one clock cycle of the state machine; the tag and data   *)
(* arrays are block RAMs whose output register is loaded with the entry    *)
(* before the cycle's write.                                               *)
(*                                                                         *)
(* The bus moves a line word by word, and a line that is written is in     *)
(* memory before the bus unit grants the write: a reset in between leaves  *)
(* there what is written.                                                  *)
(*                                                                         *)
(* The core (LoadStoreUnit.sv) holds its request until `done' and lowers   *)
(* `enable' at that edge.  The memory side (BusAccessUnit.sv) answers      *)
(* after any number of cycles.                                             *)
(***************************************************************************)
EXTENDS Naturals

CONSTANTS Tags, Indices,    \* the two fields of a line address
          Lanes,            \* byte positions of a line
          Bytes,            \* values of a byte
          WordCount,        \* words of a line
          WordOf            \* the word a byte position belongs to

\* Reset writes zero to the tag array and to the line register.
ASSUME ZeroAssumption == 0 \in Tags /\ 0 \in Bytes

ASSUME WordsAssumption == WordCount \in Nat \ {0} /\ WordOf \in [Lanes -> 0 .. WordCount - 1]

Addrs == [tag : Tags, index : Indices]
Lines == [Lanes -> Bytes]
Commands == {"Load", "LoadReserved", "Store", "StoreConditional", "Invalidate"}
Stores == {"Store", "StoreConditional"}
TagArrayEntries == [valid : BOOLEAN, reserved : BOOLEAN, tag : Tags]
Requests == [enable : BOOLEAN, command : Commands, addr : Addrs,
             writeMask : SUBSET Lanes, writeValue : Lines]

VARIABLES
  reg_state, reg_line,      \* the registers of the state machine
  tagArray, dataArray,      \* the bodies of the block RAMs ...
  tagArrayReadValue,        \* ... and their output registers
  dataArrayReadValue,
  request,                  \* the wires from the core
  result,                   \* what the core latched at the last `done'
  memory,                   \* the memory behind the bus
  written,                  \* how many words of the line the bus has written
  before                    \* history: the line in memory before its first word

cache == <<reg_state, reg_line, tagArray, dataArray>>
outputs == <<tagArrayReadValue, dataArrayReadValue>>
behind == <<memory, written, before>>
vars == <<cache, outputs, request, result, behind>>

-----------------------------------------------------------------------------
(* Combinational logic *)

MakeLineWithWriteMask(value, writeValue, writeMask) ==
  [i \in Lanes |-> IF i \in writeMask THEN writeValue[i] ELSE value[i]]

Hit == tagArrayReadValue.valid /\ tagArrayReadValue.tag = request.addr.tag

StoreConditionalFailure ==
  /\ request.command = "StoreConditional"
  /\ reg_state = "ReadCache"
  /\ ~Hit \/ ~tagArrayReadValue.reserved

\* The line the core reads in a cycle with `done'.
ReadValue == IF reg_state = "ReadCache" THEN dataArrayReadValue ELSE reg_line

WriteTag(valid, reserved) ==
  tagArray' = [tagArray EXCEPT ![request.addr.index] =
    [valid |-> valid, reserved |-> reserved, tag |-> request.addr.tag]]

\* Both block RAMs read the addressed entry on every edge.
ReadArrays ==
  /\ tagArrayReadValue' = tagArray[request.addr.index]
  /\ dataArrayReadValue' = dataArray[request.addr.index]

\* A cycle with `done': the core latches the answer and lowers `enable'.
Done(value, failed) ==
  /\ result' = [command |-> request.command, value |-> value, failed |-> failed]
  /\ request' = [request EXCEPT !.enable = FALSE]

Busy == UNCHANGED <<request, result>>

-----------------------------------------------------------------------------
(* Clock cycles *)

Zeroes == [i \in Lanes |-> 0]
ZeroEntry == [valid |-> FALSE, reserved |-> FALSE, tag |-> 0]
NoResult == [command |-> "None", value |-> Zeroes, failed |-> FALSE]

\* State_Initial with `enable' low; the core may raise it at this edge.
Request(command, addr, writeMask, writeValue) ==
  /\ reg_state = "Initial" /\ ~request.enable
  /\ request' = [enable |-> TRUE, command |-> command, addr |-> addr,
                 writeMask |-> writeMask, writeValue |-> writeValue]
  /\ ReadArrays
  /\ UNCHANGED <<cache, result, behind>>

Idle ==
  /\ reg_state = "Initial" /\ ~request.enable
  /\ ReadArrays /\ Busy
  /\ UNCHANGED <<cache, behind>>

Accept ==
  /\ reg_state = "Initial" /\ request.enable
  /\ reg_state' = IF request.command = "Invalidate" THEN "Invalidate" ELSE "ReadCache"
  /\ ReadArrays /\ Busy
  /\ UNCHANGED <<reg_line, tagArray, dataArray, behind>>

\* State_ReadCache, its four outcomes.
\* Mutant: `done' does not include storeConditionalFailure.
MutFailIsNotDone ==
  /\ StoreConditionalFailure
  /\ reg_state' = "Initial"
  /\ reg_line' = dataArrayReadValue
  /\ ReadArrays /\ Busy
  /\ UNCHANGED <<tagArray, dataArray, behind>>

FailStoreConditional ==
  /\ StoreConditionalFailure
  /\ reg_state' = "Initial"
  /\ reg_line' = dataArrayReadValue
  /\ ReadArrays
  /\ Done(result.value, TRUE)
  /\ UNCHANGED <<tagArray, dataArray, behind>>

HitLoad ==
  /\ reg_state = "ReadCache" /\ Hit
  /\ request.command \in {"Load", "LoadReserved"}
  /\ reg_state' = "Initial"
  /\ reg_line' = dataArrayReadValue
  /\ IF request.command = "LoadReserved"
     THEN WriteTag(TRUE, TRUE)
     ELSE UNCHANGED tagArray
  /\ ReadArrays
  /\ Done(ReadValue, FALSE)
  /\ UNCHANGED <<dataArray, behind>>

HitStore ==
  /\ reg_state = "ReadCache" /\ Hit
  /\ request.command \in Stores /\ ~StoreConditionalFailure
  /\ reg_state' = "Store"
  /\ reg_line' = dataArrayReadValue
  /\ ReadArrays /\ Busy
  /\ UNCHANGED <<tagArray, dataArray, behind>>

Miss ==
  /\ reg_state = "ReadCache" /\ ~Hit /\ ~StoreConditionalFailure
  /\ reg_state' = "Invalidate"
  /\ reg_line' = dataArrayReadValue
  /\ ReadArrays /\ Busy
  /\ UNCHANGED <<tagArray, dataArray, behind>>

\* State_Invalidate: the end of an Invalidate command, the start of a fill.
Invalidate ==
  /\ reg_state = "Invalidate"
  /\ WriteTag(FALSE, FALSE)
  /\ ReadArrays
  /\ IF request.command = "Invalidate"
     THEN reg_state' = "Initial" /\ Done(result.value, FALSE)
     ELSE reg_state' = "ReadMemory" /\ Busy
  /\ UNCHANGED <<reg_line, dataArray, behind>>

\* State_ReadMemory: reg_line follows the bus; the line is whole at memReadDone.
ReadMemoryWait ==
  /\ reg_state = "ReadMemory"
  /\ reg_line' \in Lines
  /\ ReadArrays /\ Busy
  /\ UNCHANGED <<reg_state, tagArray, dataArray, behind>>

ReadMemoryDone ==
  /\ reg_state = "ReadMemory"
  /\ reg_state' = "WriteCache"
  /\ reg_line' = memory[request.addr]
  /\ ReadArrays /\ Busy
  /\ UNCHANGED <<tagArray, dataArray, behind>>

WriteCache ==
  /\ reg_state = "WriteCache"
  /\ WriteTag(TRUE, request.command = "LoadReserved")
  /\ dataArray' = [dataArray EXCEPT ![request.addr.index] = reg_line]
  /\ reg_line' = MakeLineWithWriteMask(reg_line, request.writeValue, request.writeMask)
  /\ ReadArrays
  /\ IF request.command \in Stores
     THEN reg_state' = "Store" /\ Busy
     ELSE reg_state' = "Initial" /\ Done(ReadValue, FALSE)
  /\ UNCHANGED behind

\* Mutant: a store leaves the line reserved.
MutStoreKeepsReservation ==
  /\ reg_state = "Store"
  /\ reg_state' = "WriteMemory"
  /\ dataArray' = [dataArray EXCEPT ![request.addr.index] =
                     MakeLineWithWriteMask(@, request.writeValue, request.writeMask)]
  /\ reg_line' = MakeLineWithWriteMask(reg_line, request.writeValue, request.writeMask)
  /\ before' = memory[request.addr]
  /\ ReadArrays /\ Busy
  /\ UNCHANGED <<tagArray, memory, written>>

\* Mutant: the masked write of the data array is forgotten.
MutStoreSkipsArray ==
  /\ reg_state = "Store"
  /\ reg_state' = "WriteMemory"
  /\ WriteTag(TRUE, FALSE)
  /\ reg_line' = MakeLineWithWriteMask(reg_line, request.writeValue, request.writeMask)
  /\ before' = memory[request.addr]
  /\ ReadArrays /\ Busy
  /\ UNCHANGED <<dataArray, memory, written>>

Store ==
  /\ reg_state = "Store"
  /\ reg_state' = "WriteMemory"
  /\ WriteTag(TRUE, FALSE)
  /\ dataArray' = [dataArray EXCEPT ![request.addr.index] =
                     MakeLineWithWriteMask(@, request.writeValue, request.writeMask)]
  /\ reg_line' = MakeLineWithWriteMask(reg_line, request.writeValue, request.writeMask)
  /\ before' = memory[request.addr]
  /\ ReadArrays /\ Busy
  /\ UNCHANGED <<memory, written>>

\* State_WriteMemory.  The bus writes the whole line, not the bytes of the mask,
\* one word after the other (BusAccessUnit), and then grants the write.
WriteMemoryWait ==
  /\ reg_state = "WriteMemory"
  /\ ReadArrays /\ Busy
  /\ UNCHANGED <<cache, behind>>

WriteMemoryWord ==
  /\ reg_state = "WriteMemory"
  /\ written < WordCount
  /\ memory' = [memory EXCEPT ![request.addr] =
                  [i \in Lanes |-> IF WordOf[i] = written THEN reg_line[i] ELSE @[i]]]
  /\ written' = written + 1
  /\ ReadArrays /\ Busy
  /\ UNCHANGED <<cache, before>>

WriteMemoryDone ==
  /\ reg_state = "WriteMemory"
  /\ written = WordCount
  /\ reg_state' = "Initial"
  /\ written' = 0
  /\ before' = Zeroes
  /\ ReadArrays
  /\ Done(result.value, FALSE)
  /\ UNCHANGED <<reg_line, tagArray, dataArray, memory>>

\* `rst' between any two cycles, held until the tag array is cleared; it
\* resets the load/store unit too, which lowers `enable', and the bus unit, which
\* forgets how far it was and takes nothing back.
Reset ==
  /\ reg_state' = "Initial"
  /\ reg_line' = Zeroes
  /\ tagArray' = [i \in Indices |-> ZeroEntry]
  /\ result' = NoResult
  /\ tagArrayReadValue' \in {tagArray[request.addr.index], ZeroEntry}
  /\ dataArrayReadValue' = dataArray[request.addr.index]
  /\ request' = [request EXCEPT !.enable = FALSE]
  /\ written' = 0
  /\ before' = Zeroes
  /\ UNCHANGED <<dataArray, memory>>

-----------------------------------------------------------------------------

Init ==
  /\ reg_state = "Initial"
  /\ reg_line = Zeroes
  /\ tagArray = [i \in Indices |-> ZeroEntry]
  /\ dataArray \in [Indices -> Lines]
  /\ tagArrayReadValue = ZeroEntry
  /\ dataArrayReadValue \in Lines
  /\ request \in [enable : {FALSE}, command : {"Load"}, addr : Addrs,
                  writeMask : {{}}, writeValue : {Zeroes}]
  /\ result = NoResult
  /\ memory \in [Addrs -> Lines]
  /\ written = 0
  /\ before = Zeroes

\* The cycles that take a request further.
Progress ==
  \/ Accept
  \/ FailStoreConditional \/ HitLoad \/ HitStore \/ Miss
  \/ Invalidate \/ ReadMemoryDone \/ WriteCache
  \/ Store \/ WriteMemoryWord \/ WriteMemoryDone

\* An access has at least one byte (StoreValueUnit.sv).
Next ==
  \/ \E command \in Commands, addr \in Addrs,
        writeMask \in SUBSET Lanes \ {{}}, writeValue \in Lines :
       Request(command, addr, writeMask, writeValue)
  \/ Idle \/ ReadMemoryWait \/ WriteMemoryWait
  \/ Progress
  \/ Reset

\* The clock runs and the bus answers.
Fairness == WF_vars(Progress)

Spec == Init /\ [][Next]_vars

FairSpec == Spec /\ Fairness
-----------------------------------------------------------------------------
(* Properties *)

\* Every register, array, output register and wire of the cache keeps to its
\* width, and the request is one the load/store unit can make (DCache.sv).
TypeOK ==
  /\ reg_state \in {"Initial", "ReadCache", "Invalidate", "ReadMemory",
                    "WriteCache", "Store", "WriteMemory"}
  /\ reg_line \in Lines
  /\ tagArray \in [Indices -> TagArrayEntries]
  /\ dataArray \in [Indices -> Lines]
  /\ tagArrayReadValue \in TagArrayEntries
  /\ dataArrayReadValue \in Lines
  /\ request \in Requests
  /\ result \in [command : Commands \union {"None"}, value : Lines, failed : BOOLEAN]
  /\ memory \in [Addrs -> Lines]
  /\ written \in 0 .. WordCount
  /\ before \in Lines

Holds(addr) == tagArray[addr.index].valid /\ tagArray[addr.index].tag = addr.tag
LineOf(addr) == dataArray[addr.index]
Stored(line) == MakeLineWithWriteMask(line, request.writeValue, request.writeMask)

\* The line being stored differs from memory until the bus has written it all.
StoreInFlight(addr) == reg_state = "WriteMemory" /\ addr = request.addr

\* Write through: every line the cache holds is the line of memory, except the
\* one whose store is on its way to memory, which is memory with that store
\* applied.  Wrong if a fill, a masked write or an eviction misses a byte.
Coherent ==
  \A addr \in Addrs :
    Holds(addr) => LineOf(addr) = IF StoreInFlight(addr) THEN Stored(memory[addr])
                                                        ELSE memory[addr]

\* Each cycle works on what the cycle before it left: the output registers that
\* decide hit or miss are not one cycle behind the arrays, reg_line is the line
\* being filled or stored, and only a reserved line is stored conditionally.
InStep ==
  /\ reg_state # "Initial" => request.enable
  /\ reg_state = "ReadCache" =>
       /\ tagArrayReadValue = tagArray[request.addr.index]
       /\ dataArrayReadValue = dataArray[request.addr.index]
       /\ request.command # "Invalidate"
  /\ reg_state = "Invalidate" /\ request.command # "Invalidate" =>
       /\ ~Holds(request.addr)
       /\ request.command # "StoreConditional"
  /\ reg_state \in {"ReadMemory", "WriteCache"} =>
       /\ ~tagArray[request.addr.index].valid
       /\ request.command \notin {"StoreConditional", "Invalidate"}
  /\ reg_state = "WriteCache" => reg_line = memory[request.addr]
  /\ reg_state = "Store" =>
       /\ Holds(request.addr)
       /\ request.command \in Stores
       /\ request.command = "StoreConditional" => tagArray[request.addr.index].reserved
       /\ Stored(reg_line) = Stored(memory[request.addr])
  /\ reg_state = "WriteMemory" =>
       /\ Holds(request.addr)
       /\ request.command \in Stores
       /\ ~tagArray[request.addr.index].reserved
       /\ reg_line = Stored(before)
       /\ \A i \in Lanes : memory[request.addr][i] =
                          IF WordOf[i] < written THEN reg_line[i] ELSE before[i]
  /\ reg_state # "WriteMemory" => written = 0

\* The bus writes whole lines, yet a write changes only the bytes the core
\* asked for, and only for a store in progress: no neighbour is rolled back.
MaskedWrite ==
  \A addr \in Addrs, i \in Lanes : memory'[addr][i] # memory[addr][i] =>
    /\ request.enable /\ request.command \in Stores /\ addr = request.addr
    /\ i \in request.writeMask /\ memory'[addr][i] = request.writeValue[i]

OnlyMaskedBytesChange == [][MaskedWrite]_vars

\* The line addresses for which a store-conditional would succeed: the reserved
\* lines of the cache, and the line a store-conditional is already writing.
Reservation ==
  {addr \in Addrs : Holds(addr) /\ tagArray[addr.index].reserved}
    \union (IF reg_state = "WriteMemory" /\ request.command = "StoreConditional"
            THEN {request.addr} ELSE {})

SameSet(a, b) == a.index = b.index

\* Memory as a store finds it that the bus has not been granted yet.
MemoryBefore ==
  IF reg_state = "WriteMemory" THEN [memory EXCEPT ![request.addr] = before] ELSE memory

\* The cache implements an atomic memory with LR/SC: each load returns the line
\* of memory, a store-conditional succeeds only on a line nobody stored to since
\* it was reserved, and fails only if that reservation was lost.  A reset may
\* leave the first words of the store it interrupts, and of no other request.
Atomic == INSTANCE AtomicMemory WITH
            memory <- MemoryBefore, reservation <- Reservation

ImplementsAtomicMemory == Atomic!Spec

\* Every request is answered, or dropped by a reset.
EveryRequestEnds == request.enable ~> ~request.enable
=============================================================================
