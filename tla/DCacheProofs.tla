---------------------------- MODULE DCacheProofs ----------------------------
(***************************************************************************)
(* Theorems about the data cache, for any tags, indices, line size and     *)
(* byte values.                                                            *)
(***************************************************************************)
EXTENDS DCache, TLAPS

\* Merging two lines gives a line.
LEMMA MergeType ==
  ASSUME NEW old \in Lines, NEW new \in Lines, NEW mask \in SUBSET Lanes
  PROVE  MakeLineWithWriteMask(old, new, mask) \in Lines
BY DEF MakeLineWithWriteMask, Lines

\* Storing the same bytes twice is storing them once.
LEMMA MergeTwice ==
  ASSUME NEW old \in Lines, NEW new \in Lines, NEW mask \in SUBSET Lanes
  PROVE  MakeLineWithWriteMask(MakeLineWithWriteMask(old, new, mask), new, mask)
           = MakeLineWithWriteMask(old, new, mask)
BY DEF MakeLineWithWriteMask, Lines

LEMMA ZeroTypes == Zeroes \in Lines /\ ZeroEntry \in TagArrayEntries
BY ZeroAssumption DEF Zeroes, ZeroEntry, Lines, TagArrayEntries

\* The bus counts from no word to all words of a line.
LEMMA Counting ==
  /\ WordCount \in Nat /\ 0 \in 0 .. WordCount
  /\ \A n \in 0 .. WordCount : n < WordCount => n + 1 \in 0 .. WordCount /\ n + 1 \in 1 .. WordCount
  /\ \A i \in Lanes : WordOf[i] \in Nat /\ WordOf[i] < WordCount
<1>1. \A i \in Lanes : WordOf[i] \in 0 .. WordCount - 1
  BY WordsAssumption
<1> QED
  BY <1>1, WordsAssumption

-----------------------------------------------------------------------------
(* Type correctness *)

LEMMA InitTypeOK == Init => TypeOK
<1> SUFFICES ASSUME Init PROVE TypeOK
  OBVIOUS
<1>1. request \in Requests
  BY ZeroTypes DEF Init, Requests, Commands
<1>2. tagArray \in [Indices -> TagArrayEntries]
  BY ZeroTypes DEF Init
<1>3. result \in [command : Commands \union {"None"}, value : Lines, failed : BOOLEAN]
  BY ZeroTypes DEF Init, NoResult
<1> QED
  BY <1>1, <1>2, <1>3, ZeroTypes, Counting DEF Init, TypeOK

LEMMA NextTypeOK == TypeOK /\ [Next]_vars => TypeOK'
<1> SUFFICES ASSUME TypeOK, [Next]_vars PROVE TypeOK'
  OBVIOUS
<1> USE DEF TypeOK, behind
<1>f. request.addr \in Addrs /\ request.addr.index \in Indices /\ request.addr.tag \in Tags
  BY DEF Requests, Addrs
<1>r. ReadArrays => /\ tagArrayReadValue' \in TagArrayEntries
                    /\ dataArrayReadValue' \in Lines
  BY <1>f DEF ReadArrays
<1>l. MakeLineWithWriteMask(reg_line, request.writeValue, request.writeMask) \in Lines
  BY MergeType DEF Requests
<1>w. ASSUME NEW v \in BOOLEAN, NEW s \in BOOLEAN, WriteTag(v, s)
      PROVE  tagArray' \in [Indices -> TagArrayEntries]
  BY <1>f, <1>w DEF WriteTag, TagArrayEntries
<1>d. ASSUME NEW v \in Lines, NEW f \in BOOLEAN, Done(v, f)
      PROVE  /\ request' \in Requests
             /\ result' \in [command : Commands \union {"None"}, value : Lines, failed : BOOLEAN]
  BY <1>d DEF Done, Requests
<1>1. ASSUME NEW command \in Commands, NEW addr \in Addrs,
             NEW writeMask \in SUBSET Lanes, NEW writeValue \in Lines,
             Request(command, addr, writeMask, writeValue)
      PROVE  TypeOK'
  BY <1>1, <1>r DEF Request, Requests, cache
<1>2. CASE Idle
  BY <1>2, <1>r DEF Idle, Busy, cache
<1>3. CASE ReadMemoryWait
  BY <1>3, <1>r DEF ReadMemoryWait, Busy
<1>4. CASE WriteMemoryWait
  BY <1>4, <1>r DEF WriteMemoryWait, Busy, cache
<1>5. CASE Accept
  BY <1>5, <1>r DEF Accept, Busy
<1>6. CASE FailStoreConditional
  BY <1>6, <1>r, <1>d DEF FailStoreConditional
<1>7. CASE HitLoad
  <2>1. ReadValue \in Lines
    BY DEF ReadValue
  <2>2. tagArray' \in [Indices -> TagArrayEntries]
    BY <1>7, <1>w DEF HitLoad
  <2> QED
    BY <1>7, <2>1, <2>2, <1>r, <1>d DEF HitLoad
<1>8. CASE HitStore
  BY <1>8, <1>r DEF HitStore, Busy
<1>9. CASE Miss
  BY <1>9, <1>r DEF Miss, Busy
<1>10. CASE Invalidate
  BY <1>10, <1>r, <1>w, <1>d DEF Invalidate, Busy
<1>11. CASE ReadMemoryDone
  BY <1>11, <1>r, <1>f DEF ReadMemoryDone, Busy
<1>12. CASE WriteCache
  <2>1. ReadValue \in Lines
    BY DEF ReadValue
  <2>2. tagArray' \in [Indices -> TagArrayEntries]
    BY <1>12, <1>w DEF WriteCache
  <2>3. dataArray' \in [Indices -> Lines]
    BY <1>12, <1>f DEF WriteCache
  <2> QED
    BY <1>12, <2>1, <2>2, <2>3, <1>r, <1>d, <1>l DEF WriteCache, Busy
<1>13. CASE Store
  <2>1. tagArray' \in [Indices -> TagArrayEntries]
    BY <1>13, <1>w DEF Store
  <2>2. dataArray' \in [Indices -> Lines]
    BY <1>13, <1>f, MergeType DEF Store, Requests
  <2>3. memory[request.addr] \in Lines
    BY <1>f
  <2> QED
    BY <1>13, <2>1, <2>2, <2>3, <1>r, <1>l DEF Store, Busy
<1>14. CASE WriteMemoryDone
  BY <1>14, <1>r, <1>d, <1>f, ZeroTypes, Counting DEF WriteMemoryDone
<1>15. CASE Reset
  BY <1>15, <1>f, ZeroTypes, Counting DEF Reset, NoResult, Requests
<1>17. CASE WriteMemoryWord
  <2>1. [i \in Lanes |-> IF WordOf[i] = written THEN reg_line[i] ELSE memory[request.addr][i]] \in Lines
    BY <1>f DEF Lines
  <2>2. memory' \in [Addrs -> Lines]
    BY <1>17, <1>f, <2>1 DEF WriteMemoryWord
  <2>3. written' \in 0 .. WordCount
    BY <1>17, Counting DEF WriteMemoryWord
  <2> QED
    BY <1>17, <1>r, <2>2, <2>3 DEF WriteMemoryWord, Busy, cache
<1>16. CASE UNCHANGED vars
  BY <1>16 DEF vars, cache, outputs
<1> QED
  BY <1>1, <1>2, <1>3, <1>4, <1>5, <1>6, <1>7, <1>8, <1>9, <1>10, <1>11, <1>12,
     <1>13, <1>14, <1>15, <1>16, <1>17 DEF Next, Progress

\* Every register, array and wire of the cache keeps its type.
THEOREM TypeCorrectness == Spec => []TypeOK
BY InitTypeOK, NextTypeOK, PTL DEF Spec

-----------------------------------------------------------------------------
(* Coherence with memory.  Coherent alone is not inductive: that a fill or a *)
(* store leaves the right line depends on what the earlier cycles of the     *)
(* same request left in reg_line and in the arrays, which is InStep.         *)

Inv == TypeOK /\ InStep /\ Coherent

\* However far the bus is with the line, memory with the store applied is the
\* line; when the bus has written it all, memory is the line.
LEMMA LineOnItsWay ==
  ASSUME TypeOK, InStep, reg_state = "WriteMemory"
  PROVE  /\ Stored(memory[request.addr]) = reg_line
         /\ written = WordCount => memory[request.addr] = reg_line
<1>1. /\ request.addr \in Addrs /\ memory[request.addr] \in Lines /\ reg_line \in Lines
      /\ before \in Lines /\ written \in Nat
  BY Counting DEF TypeOK, Requests
<1>2. /\ reg_line = MakeLineWithWriteMask(before, request.writeValue, request.writeMask)
      /\ \A i \in Lanes : memory[request.addr][i] = IF WordOf[i] < written THEN reg_line[i] ELSE before[i]
  BY DEF InStep, Stored
<1>3. \A i \in Lanes : reg_line[i] = IF i \in request.writeMask THEN request.writeValue[i] ELSE before[i]
  BY <1>2 DEF MakeLineWithWriteMask
<1>4. Stored(memory[request.addr]) = [i \in Lanes |-> reg_line[i]]
  BY <1>2, <1>3 DEF Stored, MakeLineWithWriteMask
<1>5. written = WordCount => \A i \in Lanes : memory[request.addr][i] = reg_line[i]
  BY <1>2, Counting
<1> QED
  BY <1>1, <1>4, <1>5 DEF Lines

LEMMA InitInv == Init => Inv
<1> SUFFICES ASSUME Init PROVE InStep /\ Coherent
  BY InitTypeOK DEF Inv
<1>1. InStep
  BY DEF Init, InStep
<1>2. Coherent
  BY DEF Init, Coherent, Holds, ZeroEntry, Addrs
<1> QED
  BY <1>1, <1>2

LEMMA NextInv == Inv /\ [Next]_vars => Inv'
<1> SUFFICES ASSUME Inv, [Next]_vars PROVE InStep' /\ Coherent'
  BY NextTypeOK DEF Inv
<1> USE DEF behind
<1>t. TypeOK /\ TypeOK'
  BY NextTypeOK DEF Inv
<1>f. /\ request.addr \in Addrs /\ request.addr.index \in Indices /\ request.addr.tag \in Tags
      /\ request.writeMask \in SUBSET Lanes /\ request.writeValue \in Lines
      /\ \A a \in Addrs : a.index \in Indices /\ a.tag \in Tags
      /\ \A a, b \in Addrs : a.tag = b.tag /\ a.index = b.index => a = b
  BY <1>t DEF TypeOK, Requests, Addrs
<1>w. \A e : tagArray' = [tagArray EXCEPT ![request.addr.index] = e] =>
        /\ tagArray'[request.addr.index] = e
        /\ \A i \in Indices : i # request.addr.index => tagArray'[i] = tagArray[i]
  BY <1>f, <1>t DEF TypeOK
<1>d. ASSUME NEW v, NEW f, Done(v, f)
      PROVE  /\ request'.addr = request.addr /\ request'.command = request.command
             /\ request'.writeMask = request.writeMask
             /\ request'.writeValue = request.writeValue
  BY <1>t, <1>d DEF Done, TypeOK, Requests
<1>1. ASSUME NEW command \in Commands, NEW addr \in Addrs,
             NEW writeMask \in SUBSET Lanes, NEW writeValue \in Lines,
             Request(command, addr, writeMask, writeValue)
      PROVE  InStep' /\ Coherent'
  BY <1>1 DEF Inv, InStep, Coherent, StoreInFlight, Holds, LineOf, Request, cache
<1>2. CASE Idle
  BY <1>2 DEF Inv, InStep, Coherent, StoreInFlight, Holds, LineOf, Idle, Busy, cache
<1>3. CASE ReadMemoryWait
  BY <1>3 DEF Inv, InStep, Coherent, StoreInFlight, Holds, LineOf, ReadMemoryWait, Busy
<1>4. CASE WriteMemoryWait
  BY <1>4 DEF Inv, InStep, Coherent, StoreInFlight, Holds, LineOf, Stored,
              WriteMemoryWait, Busy, cache
<1>5. CASE Accept
  <2>1. Coherent'
    BY <1>5 DEF Inv, Coherent, StoreInFlight, Holds, LineOf, Accept, Busy
  <2>2. InStep'
    BY <1>5 DEF Inv, InStep, Accept, Busy, ReadArrays
  <2> QED
    BY <2>1, <2>2
<1>6. CASE FailStoreConditional
  <2>1. /\ UNCHANGED <<tagArray, dataArray, behind>>
        /\ reg_state = "ReadCache" /\ reg_state' = "Initial"
    BY <1>6 DEF FailStoreConditional, StoreConditionalFailure
  <2>2. InStep'
    BY <2>1 DEF Inv, InStep
  <2>3. Coherent'
    BY <2>1 DEF Inv, Coherent, StoreInFlight, Holds, LineOf
  <2> QED
    BY <2>2, <2>3
<1>7. CASE HitLoad
  <2>1. InStep'
    BY <1>7 DEF Inv, InStep, HitLoad
  <2>2. \A i \in Indices : /\ tagArray'[i].valid => tagArray[i].valid
                           /\ tagArray'[i].valid => tagArray'[i].tag = tagArray[i].tag
    <3>1. CASE request.command = "LoadReserved"
      BY <1>7, <1>w, <1>f, <3>1 DEF HitLoad, WriteTag, Hit, Inv, InStep
    <3>2. CASE request.command # "LoadReserved"
      BY <1>7, <3>2 DEF HitLoad
    <3> QED
      BY <3>1, <3>2
  <2>3. Coherent'
    <3> SUFFICES ASSUME NEW a \in Addrs, Holds(a)'
                 PROVE  dataArray'[a.index] = memory[a]
      BY <1>7 DEF Coherent, LineOf, StoreInFlight, HitLoad
    <3>1. Holds(a)
      BY <2>2, <1>f DEF Holds
    <3> QED
      BY <3>1, <1>7 DEF Inv, Coherent, LineOf, StoreInFlight, HitLoad
  <2> QED
    BY <2>1, <2>3
<1>8. CASE HitStore
  <2>1. Coherent'
    BY <1>8 DEF Inv, Coherent, StoreInFlight, Holds, LineOf, HitStore, Busy
  <2>2. Holds(request.addr)
    BY <1>8 DEF Inv, InStep, HitStore, Hit, Holds
  <2>3. dataArrayReadValue = memory[request.addr]
    BY <1>8, <1>f, <2>2 DEF Inv, InStep, Coherent, StoreInFlight, LineOf, HitStore
  <2>4. InStep'
    BY <1>8, <2>2, <2>3 DEF Inv, InStep, HitStore, Busy, Stored, Holds, Stores,
                            StoreConditionalFailure
  <2> QED
    BY <2>1, <2>4
<1>9. CASE Miss
  <2>1. Coherent'
    BY <1>9 DEF Inv, Coherent, StoreInFlight, Holds, LineOf, Miss, Busy
  <2>2. InStep'
    BY <1>9 DEF Inv, InStep, Miss, Busy, Holds, Hit, StoreConditionalFailure
  <2> QED
    BY <2>1, <2>2
<1>10. CASE Invalidate
  <2>1. /\ ~tagArray'[request.addr.index].valid
        /\ \A i \in Indices : i # request.addr.index => tagArray'[i] = tagArray[i]
    BY <1>10, <1>w DEF Invalidate, WriteTag
  <2>2. Coherent'
    BY <1>10, <2>1, <1>f, <1>d DEF Inv, Coherent, StoreInFlight, Holds, LineOf, Invalidate, Busy
  <2>3. InStep'
    BY <1>10, <2>1 DEF Inv, InStep, Invalidate, Busy
  <2> QED
    BY <2>2, <2>3
<1>11. CASE ReadMemoryDone
  <2>1. Coherent'
    BY <1>11 DEF Inv, Coherent, StoreInFlight, Holds, LineOf, ReadMemoryDone, Busy
  <2>2. InStep'
    BY <1>11 DEF Inv, InStep, ReadMemoryDone, Busy
  <2> QED
    BY <2>1, <2>2
<1>12. CASE WriteCache
  <2>1. /\ Holds(request.addr)'
        /\ \A i \in Indices : i # request.addr.index => tagArray'[i] = tagArray[i]
        /\ request'.addr = request.addr
    BY <1>12, <1>w, <1>d DEF WriteCache, WriteTag, Busy, Holds
  <2>2. /\ dataArray'[request.addr.index] = memory[request.addr]
        /\ \A i \in Indices : i # request.addr.index => dataArray'[i] = dataArray[i]
    BY <1>12, <1>f, <1>t DEF WriteCache, Inv, InStep, TypeOK
  <2>3. Coherent'
    <3> SUFFICES ASSUME NEW a \in Addrs, Holds(a)'
                 PROVE  dataArray'[a.index] = memory[a]
      BY <1>12 DEF Coherent, LineOf, StoreInFlight, WriteCache
    <3>1. CASE a.index = request.addr.index
      BY <3>1, <2>1, <2>2, <1>f DEF Holds
    <3>2. CASE a.index # request.addr.index
      BY <3>2, <2>1, <2>2, <1>12, <1>f DEF Inv, Coherent, Holds, LineOf, StoreInFlight, WriteCache
    <3> QED
      BY <3>1, <3>2
  <2>4. CASE request.command \in Stores
    <3>1. Stored(reg_line)' = Stored(memory[request.addr])'
      BY <1>12, <2>4, <1>f, <1>t, MergeTwice DEF WriteCache, Busy, Inv, InStep, Stored, TypeOK
    <3>2. /\ reg_state = "WriteCache" /\ reg_state' = "Store" /\ UNCHANGED <<request, behind>>
          /\ request.command # "StoreConditional" /\ request.enable /\ written' = 0
      BY <1>12, <2>4 DEF WriteCache, Busy, Inv, InStep
    <3>3. InStep'
      BY <2>1, <2>4, <3>1, <3>2 DEF InStep, Stores
    <3> QED
      BY <2>3, <3>3
  <2>5. CASE request.command \notin Stores
    BY <1>12, <2>3, <2>5 DEF WriteCache, Inv, InStep
  <2> QED
    BY <2>4, <2>5
<1>13. CASE Store
  <2>1. /\ Holds(request.addr)'
        /\ \A i \in Indices : i # request.addr.index => tagArray'[i] = tagArray[i]
        /\ request' = request /\ memory' = memory
    BY <1>13, <1>w DEF Store, WriteTag, Busy, Holds
  <2>2. dataArray[request.addr.index] = memory[request.addr]
    BY <1>13, <1>f DEF Store, Inv, InStep, Coherent, StoreInFlight, LineOf
  <2>3. /\ dataArray'[request.addr.index] = Stored(memory[request.addr])
        /\ \A i \in Indices : i # request.addr.index => dataArray'[i] = dataArray[i]
    BY <1>13, <2>2, <1>f, <1>t DEF Store, Stored, TypeOK
  <2>4. Coherent'
    <3> SUFFICES ASSUME NEW a \in Addrs, Holds(a)'
                 PROVE  dataArray'[a.index] = IF a = request.addr THEN Stored(memory[a])
                                                                  ELSE memory[a]
      BY <1>13, <2>1 DEF Coherent, LineOf, StoreInFlight, Store, Stored
    <3>1. CASE a.index = request.addr.index
      BY <3>1, <2>1, <2>3, <1>f DEF Holds
    <3>2. CASE a.index # request.addr.index
      BY <3>2, <2>1, <2>3, <1>13, <1>f DEF Inv, Coherent, Holds, LineOf, StoreInFlight, Store
    <3> QED
      BY <3>1, <3>2
  <2>5. ~tagArray'[request.addr.index].reserved
    BY <1>13, <1>w DEF Store, WriteTag
  <2>6. /\ before' = memory[request.addr] /\ written' = 0
        /\ reg_line' = Stored(memory[request.addr])
    BY <1>13 DEF Store, Stored, Inv, InStep
  <2>7. \A i \in Lanes : ~(WordOf[i] < 0)
    BY Counting
  <2>8. InStep'
    BY <1>13, <2>1, <2>5, <2>6, <2>7 DEF Store, Stored, Inv, InStep
  <2> QED
    BY <2>4, <2>8
<1>14. CASE WriteMemoryDone
  <2>1. memory' = memory /\ memory[request.addr] = Stored(memory[request.addr])
    BY <1>14, <1>t, LineOnItsWay DEF WriteMemoryDone, Inv
  <2>2. Coherent'
    BY <1>14, <2>1, <1>f DEF WriteMemoryDone, Inv, Coherent, Holds, LineOf, StoreInFlight
  <2>3. InStep'
    BY <1>14 DEF WriteMemoryDone, InStep
  <2> QED
    BY <2>2, <2>3
<1>17. CASE WriteMemoryWord
  <2>1. /\ UNCHANGED <<reg_state, reg_line, tagArray, dataArray, request, before>>
        /\ reg_state = "WriteMemory"
        /\ written' = written + 1 /\ written < WordCount /\ written \in Nat
    BY <1>17, <1>t, Counting DEF WriteMemoryWord, Busy, cache, TypeOK
  <2>2. /\ \A i \in Lanes : memory'[request.addr][i] =
                           IF WordOf[i] = written THEN reg_line[i] ELSE memory[request.addr][i]
        /\ \A a \in Addrs : a # request.addr => memory'[a] = memory[a]
    BY <1>17, <1>f, <1>t DEF WriteMemoryWord, TypeOK
  <2>3. \A i \in Lanes : WordOf[i] < written + 1 <=> WordOf[i] < written \/ WordOf[i] = written
    BY <2>1, Counting
  <2>4. InStep'
    <3>1. \A i \in Lanes : memory'[request.addr][i] =
                          IF WordOf[i] < written + 1 THEN reg_line[i] ELSE before[i]
      BY <2>1, <2>2, <2>3 DEF Inv, InStep
    <3> QED
      BY <2>1, <3>1 DEF Inv, InStep, Holds, Stored
  <2>5. /\ Stored(memory[request.addr]) = reg_line
        /\ Stored(memory[request.addr])' = reg_line
    <3>1. Stored(memory[request.addr]) = reg_line
      BY <1>t, <2>1, LineOnItsWay DEF Inv
    <3>2. \A i \in Lanes : reg_line[i] = IF i \in request.writeMask THEN request.writeValue[i] ELSE memory[request.addr][i]
      BY <3>1 DEF Stored, MakeLineWithWriteMask
    <3>3. Stored(memory[request.addr])' = [i \in Lanes |-> reg_line[i]]
      BY <2>1, <2>2, <3>2 DEF Stored, MakeLineWithWriteMask
    <3> QED
      BY <3>1, <3>3, <1>t DEF TypeOK, Lines
  <2>6. Coherent'
    BY <2>1, <2>2, <2>5, <1>f DEF Inv, Coherent, Holds, LineOf, StoreInFlight, Stored
  <2> QED
    BY <2>4, <2>6
<1>15. CASE Reset
  BY <1>15, <1>f DEF Reset, InStep, Coherent, Holds, ZeroEntry
<1>16. CASE UNCHANGED vars
  BY <1>16 DEF vars, cache, outputs, Inv, InStep, Coherent, StoreInFlight, Holds, LineOf, Stored
<1> QED
  BY <1>1, <1>2, <1>3, <1>4, <1>5, <1>6, <1>7, <1>8, <1>9, <1>10, <1>11, <1>12,
     <1>13, <1>14, <1>15, <1>16, <1>17 DEF Next, Progress

LEMMA Invariance == Spec => []Inv
BY InitInv, NextInv, PTL DEF Spec

\* Every line the cache holds is the line of memory, or that line with the store
\* in flight applied.
THEOREM Coherence == Spec => []Coherent
BY Invariance, PTL DEF Inv

\* Each cycle finds the arrays and registers as the one before it left them.
THEOREM Stepping == Spec => []InStep
BY Invariance, PTL DEF Inv

-----------------------------------------------------------------------------
(* Writes and refinement *)

\* Memory changes only by the masked bytes of the store in progress, although
\* the bus writes the whole line.
THEOREM WritesAreMasked == Spec => OnlyMaskedBytesChange
<1>1. Inv /\ [Next]_vars => [MaskedWrite]_vars
  <2> SUFFICES ASSUME Inv, Next, NEW addr \in Addrs, NEW i \in Lanes, memory'[addr][i] # memory[addr][i]
               PROVE  /\ request.enable /\ request.command \in Stores /\ addr = request.addr
                      /\ i \in request.writeMask /\ memory'[addr][i] = request.writeValue[i]
    BY DEF MaskedWrite
  <2>1. WriteMemoryWord
    BY DEF Next, Progress, Request, Idle, ReadMemoryWait, WriteMemoryWait, Accept,
           FailStoreConditional, HitLoad, HitStore, Miss, Invalidate, ReadMemoryDone,
           WriteCache, Store, WriteMemoryDone, Reset, behind
  <2>2. reg_state = "WriteMemory" /\ request.enable /\ request.command \in Stores
    BY <2>1 DEF WriteMemoryWord, Inv, InStep
  <2>3. addr = request.addr /\ memory'[addr][i] = reg_line[i]
    BY <2>1 DEF WriteMemoryWord, Inv, TypeOK
  <2>4. reg_line[i] = IF i \in request.writeMask THEN request.writeValue[i] ELSE memory[request.addr][i]
    BY <2>2, LineOnItsWay DEF Inv, Stored, MakeLineWithWriteMask
  <2> QED
    BY <2>2, <2>3, <2>4
<1> QED
  BY <1>1, Invariance, PTL DEF Spec, OnlyMaskedBytesChange

LEMMA InitRefines == Init => Atomic!Init
<1> SUFFICES ASSUME Init PROVE Atomic!Init
  OBVIOUS
<1>1. Reservation = {}
  BY DEF Init, Reservation, ZeroEntry, Holds, Addrs
<1>2. ~request.enable
  BY DEF Init
<1>3. MemoryBefore = memory
  BY DEF Init, MemoryBefore
<1> QED
  BY <1>1, <1>2, <1>3 DEF Init, Atomic!Init, Lines, Atomic!Lines

LEMMA NextRefines == Inv /\ Inv' /\ [Next]_vars => [Atomic!Next]_(Atomic!vars)
<1> SUFFICES ASSUME Inv, Inv', [Next]_vars
             PROVE  Atomic!Next \/ UNCHANGED Atomic!vars
  OBVIOUS
<1> USE DEF behind
<1>t. TypeOK /\ TypeOK' /\ InStep /\ InStep' /\ Coherent
  BY DEF Inv
<1>m. ASSUME UNCHANGED memory, reg_state # "WriteMemory", reg_state' # "WriteMemory"
      PROVE  MemoryBefore = memory /\ MemoryBefore' = memory
  BY <1>m DEF MemoryBefore
<1>f. /\ request.addr \in Addrs /\ request.addr.index \in Indices /\ request.addr.tag \in Tags
      /\ \A a \in Addrs : a.index \in Indices /\ a.tag \in Tags
      /\ \A a, b \in Addrs : a.tag = b.tag /\ a.index = b.index => a = b
  BY <1>t DEF TypeOK, Requests, Addrs
<1>w. \A e : tagArray' = [tagArray EXCEPT ![request.addr.index] = e] =>
        /\ tagArray'[request.addr.index] = e
        /\ \A i \in Indices : i # request.addr.index => tagArray'[i] = tagArray[i]
  BY <1>t, <1>f DEF TypeOK
<1>s. ASSUME UNCHANGED <<tagArray, request>>, reg_state # "WriteMemory", reg_state' # "WriteMemory"
      PROVE  UNCHANGED Reservation
  BY <1>s DEF Reservation, Holds
<1>1. ASSUME NEW command \in Commands, NEW addr \in Addrs,
             NEW writeMask \in SUBSET Lanes, NEW writeValue \in Lines,
             Request(command, addr, writeMask, writeValue)
      PROVE  Atomic!Issue
  BY <1>1, <1>m DEF Request, cache, Atomic!Issue, Reservation, Holds
<1>2. CASE Idle \/ ReadMemoryWait \/ Accept \/ HitStore \/ Miss \/ ReadMemoryDone
  BY <1>2, <1>s, <1>m DEF Idle, ReadMemoryWait, Accept, HitStore, Miss, ReadMemoryDone,
                          Busy, cache, Atomic!vars
<1>3. CASE WriteMemoryWait
  BY <1>3 DEF WriteMemoryWait, Busy, cache, Atomic!vars, Reservation, Holds, MemoryBefore
<1>12. CASE WriteMemoryWord
  <2>1. UNCHANGED MemoryBefore
    BY <1>12, <1>t DEF WriteMemoryWord, Busy, cache, MemoryBefore, TypeOK
  <2> QED
    BY <1>12, <2>1 DEF WriteMemoryWord, Busy, cache, Atomic!vars, Reservation, Holds
<1>4. CASE FailStoreConditional
  <2>1. request.addr \notin Reservation
    BY <1>4, <1>t DEF FailStoreConditional, StoreConditionalFailure, Reservation, Hit, Holds, InStep
  <2>2. UNCHANGED Reservation
    BY <1>4 DEF FailStoreConditional, StoreConditionalFailure, Reservation, Holds, Done
  <2>3. Atomic!Pending({"StoreConditional"})
    BY <1>4, <1>t DEF FailStoreConditional, StoreConditionalFailure, InStep, Atomic!Pending
  <2>4. UNCHANGED MemoryBefore
    BY <1>4, <1>m DEF FailStoreConditional, StoreConditionalFailure
  <2>5. Atomic!DoFail
    BY <1>4, <2>1, <2>2, <2>3, <2>4 DEF FailStoreConditional, Done, Atomic!DoFail, Atomic!Answer
  <2> QED
    BY <2>5 DEF Atomic!Next
<1>5. CASE HitLoad
  <2>1. dataArrayReadValue = memory[request.addr] /\ Holds(request.addr)
    BY <1>5, <1>t, <1>f DEF HitLoad, Hit, Holds, InStep, Coherent, LineOf, StoreInFlight
  <2>2. Reservation' = IF request.command = "LoadReserved"
                       THEN Reservation \union {request.addr} ELSE Reservation
    <3>1. CASE request.command = "LoadReserved"
      <4>1. \A a \in Addrs : Holds(a)' /\ tagArray'[a.index].reserved
                           <=> (Holds(a) /\ tagArray[a.index].reserved) \/ a = request.addr
        BY <1>5, <3>1, <2>1, <1>w, <1>f DEF HitLoad, WriteTag, Holds
      <4> QED
        BY <4>1, <3>1, <1>5, <1>f DEF HitLoad, Reservation
    <3>2. CASE request.command # "LoadReserved"
      BY <1>5, <3>2 DEF HitLoad, Reservation, Holds
    <3> QED
      BY <3>1, <3>2
  <2>3. Atomic!Pending({"Load", "LoadReserved"})
    BY <1>5, <1>t DEF HitLoad, InStep, Atomic!Pending
  <2>4. MemoryBefore = memory /\ MemoryBefore' = memory
    BY <1>5, <1>m DEF HitLoad
  <2>5. Atomic!DoLoad
    BY <1>5, <2>1, <2>2, <2>3, <2>4 DEF HitLoad, Done, ReadValue, Atomic!DoLoad, Atomic!Answer
  <2> QED
    BY <2>5 DEF Atomic!Next
<1>6. CASE Invalidate
  <2>1. \A a \in Addrs : a.index = request.addr.index => ~Holds(a)'
    BY <1>6, <1>w DEF Invalidate, WriteTag, Holds
  <2>2. \A a \in Addrs : a.index # request.addr.index =>
          (Holds(a)' <=> Holds(a)) /\ tagArray'[a.index] = tagArray[a.index]
    BY <1>6, <1>w, <1>f DEF Invalidate, WriteTag, Holds
  <2>3. /\ Reservation' = {a \in Reservation : a.index # request.addr.index}
        /\ Reservation' \in SUBSET Reservation
        /\ request.addr \notin Reservation'
        /\ \A a \in Reservation \ Reservation' : SameSet(a, request.addr)
    <3>1. Reservation = {a \in Addrs : Holds(a) /\ tagArray[a.index].reserved}
      BY <1>6 DEF Invalidate, Reservation
    <3>2. Reservation' = {a \in Addrs : Holds(a)' /\ tagArray'[a.index].reserved}
      BY <1>6 DEF Invalidate, Reservation
    <3> QED
      BY <3>1, <3>2, <2>1, <2>2 DEF SameSet
  <2>6. UNCHANGED MemoryBefore
    BY <1>6, <1>m DEF Invalidate
  <2>4. CASE request.command = "Invalidate"
    <3>1. Atomic!Pending({"Invalidate"})
      BY <1>6, <2>4, <1>t DEF Invalidate, InStep, Atomic!Pending
    <3>2. Atomic!DoInvalidate
      BY <1>6, <2>3, <2>4, <2>6, <3>1 DEF Invalidate, Done, Atomic!DoInvalidate, Atomic!Answer
    <3> QED
      BY <3>2 DEF Atomic!Next
  <2>5. CASE request.command # "Invalidate"
    <3>1. request.addr \notin Reservation
      BY <1>6, <2>5, <1>t DEF Invalidate, InStep, Reservation
    <3>2. Atomic!Evict
      BY <1>6, <2>3, <2>5, <2>6, <3>1, <1>t DEF Invalidate, Busy, InStep, Atomic!Evict
    <3> QED
      BY <3>2 DEF Atomic!Next
  <2> QED
    BY <2>4, <2>5
<1>7. CASE WriteCache
  <2>1. /\ tagArray'[request.addr.index].valid
        /\ tagArray'[request.addr.index].tag = request.addr.tag
        /\ tagArray'[request.addr.index].reserved <=> request.command = "LoadReserved"
        /\ \A i \in Indices : i # request.addr.index => tagArray'[i] = tagArray[i]
    BY <1>7, <1>w DEF WriteCache, WriteTag
  <2>2. Reservation' = IF request.command = "LoadReserved"
                       THEN Reservation \union {request.addr} ELSE Reservation
    <3>1. \A a \in Addrs : Holds(a)' /\ tagArray'[a.index].reserved
            <=> \/ Holds(a) /\ tagArray[a.index].reserved
                \/ a = request.addr /\ request.command = "LoadReserved"
      <4> SUFFICES ASSUME NEW a \in Addrs
                   PROVE  Holds(a)' /\ tagArray'[a.index].reserved
                            <=> \/ Holds(a) /\ tagArray[a.index].reserved
                                \/ a = request.addr /\ request.command = "LoadReserved"
        OBVIOUS
      <4>1. CASE a.index = request.addr.index
        BY <4>1, <2>1, <1>f, <1>7, <1>t DEF Holds, WriteCache, InStep
      <4>2. CASE a.index # request.addr.index
        BY <4>2, <2>1, <1>f DEF Holds
      <4> QED
        BY <4>1, <4>2
    <3>2. Reservation = {a \in Addrs : Holds(a) /\ tagArray[a.index].reserved}
      BY <1>7 DEF WriteCache, Reservation
    <3>3. Reservation' = {a \in Addrs : Holds(a)' /\ tagArray'[a.index].reserved}
      BY <1>7 DEF WriteCache, Reservation
    <3> QED
      BY <3>1, <3>2, <3>3, <1>f
  <2>5. MemoryBefore = memory /\ MemoryBefore' = memory
    BY <1>7, <1>m DEF WriteCache, Done, Busy
  <2>3. CASE request.command \in Stores
    BY <1>7, <2>2, <2>3, <2>5 DEF WriteCache, Busy, Stores, Atomic!vars
  <2>4. CASE request.command \notin Stores
    <3>1. Atomic!Pending({"Load", "LoadReserved"})
      BY <1>7, <2>4, <1>t DEF WriteCache, InStep, TypeOK, Requests, Commands, Stores, Atomic!Pending
    <3>2. Atomic!DoLoad
      BY <1>7, <2>2, <2>4, <2>5, <3>1, <1>t DEF WriteCache, Done, ReadValue, InStep,
                                          Atomic!DoLoad, Atomic!Answer
    <3> QED
      BY <3>2 DEF Atomic!Next
  <2> QED
    BY <2>3, <2>4
<1>8. CASE Store
  <2>1. /\ ~tagArray'[request.addr.index].reserved
        /\ \A i \in Indices : i # request.addr.index => tagArray'[i] = tagArray[i]
    BY <1>8, <1>w DEF Store, WriteTag
  <2>2. \A a \in Addrs : Holds(a)' /\ tagArray'[a.index].reserved
          <=> Holds(a) /\ tagArray[a.index].reserved /\ a # request.addr
    <3> SUFFICES ASSUME NEW a \in Addrs
                 PROVE  Holds(a)' /\ tagArray'[a.index].reserved
                          <=> Holds(a) /\ tagArray[a.index].reserved /\ a # request.addr
      OBVIOUS
    <3>1. CASE a.index = request.addr.index
      BY <3>1, <2>1, <1>f, <1>8, <1>t DEF Holds, Store, InStep
    <3>2. CASE a.index # request.addr.index
      BY <3>2, <2>1, <1>f DEF Holds
    <3> QED
      BY <3>1, <3>2
  <2>3. Reservation = {a \in Addrs : Holds(a) /\ tagArray[a.index].reserved}
    BY <1>8 DEF Store, Reservation
  <2>4. Reservation' = {a \in Addrs : Holds(a)' /\ tagArray'[a.index].reserved}
          \union (IF request.command = "StoreConditional" THEN {request.addr} ELSE {})
    BY <1>8 DEF Store, Busy, Reservation
  <2>7. UNCHANGED MemoryBefore
    BY <1>8, <1>t, <1>f DEF Store, Busy, MemoryBefore, TypeOK
  <2>5. CASE request.command = "StoreConditional"
    <3>1. request.addr \in Reservation
      BY <1>8, <2>5, <2>3, <1>t, <1>f DEF Store, InStep
    <3>2. Reservation' = Reservation
      BY <2>2, <2>3, <2>4, <2>5, <3>1
    <3> QED
      BY <1>8, <2>7, <3>2 DEF Store, Busy, Atomic!vars
  <2>6. CASE request.command # "StoreConditional"
    <3>1. Reservation' = Reservation \ {request.addr}
      BY <2>2, <2>3, <2>4, <2>6
    <3>2. request.command = "Store" /\ request.enable
      BY <1>8, <2>6, <1>t DEF Store, InStep, Stores
    <3>3. Atomic!Evict
      BY <1>8, <2>7, <3>1, <3>2 DEF Store, Busy, SameSet, Atomic!Evict
    <3> QED
      BY <3>3 DEF Atomic!Next
  <2> QED
    BY <2>5, <2>6
<1>9. CASE WriteMemoryDone
  <2>1. MemoryBefore' = [MemoryBefore EXCEPT ![request.addr] =
                           Atomic!Merge(@, request.writeValue, request.writeMask)]
    <3>1. /\ MemoryBefore = [memory EXCEPT ![request.addr] = before]
          /\ MemoryBefore' = memory
      BY <1>9 DEF WriteMemoryDone, MemoryBefore
    <3>2. memory[request.addr] = Atomic!Merge(before, request.writeValue, request.writeMask)
      BY <1>9, <1>t, LineOnItsWay DEF WriteMemoryDone, InStep, Stored, MakeLineWithWriteMask, Atomic!Merge
    <3> QED
      BY <3>1, <3>2, <1>t, <1>f DEF TypeOK
  <2>2. Reservation' = Reservation \ {request.addr}
    BY <1>9, <1>t, <1>f DEF WriteMemoryDone, InStep, Reservation, Holds, Done
  <2>3. /\ Atomic!Pending({"Store", "StoreConditional"})
        /\ request.command = "StoreConditional" => request.addr \in Reservation
    BY <1>9, <1>t DEF WriteMemoryDone, InStep, Stores, Reservation, Atomic!Pending
  <2>4. Atomic!DoStore
    BY <1>9, <2>1, <2>2, <2>3 DEF WriteMemoryDone, Done, Atomic!DoStore, Atomic!Answer
  <2> QED
    BY <2>4 DEF Atomic!Next
<1>10. CASE Reset
  <2>1. Reservation' = {}
    BY <1>10, <1>f DEF Reset, Reservation, Holds, ZeroEntry
  <2>2. MemoryBefore' = memory
    BY <1>10 DEF Reset, MemoryBefore
  <2>3. CASE reg_state = "WriteMemory" /\ written # 0
    <3>1. Atomic!Pending({"Store", "StoreConditional"})
      BY <2>3, <1>t DEF InStep, Stores, Atomic!Pending
    <3>2. request.command = "StoreConditional" => request.addr \in Reservation
      BY <2>3 DEF Reservation
    <3>3. MemoryBefore = [memory EXCEPT ![request.addr] = before]
      BY <2>3 DEF MemoryBefore
    <3>4. memory[request.addr] =
            Atomic!Merge(before, request.writeValue, Atomic!Reached(request.writeMask, written))
      <4>1. \A i \in Lanes : memory[request.addr][i] =
              IF i \in request.writeMask /\ WordOf[i] < written THEN request.writeValue[i] ELSE before[i]
        BY <2>3, <1>t DEF InStep, Stored, MakeLineWithWriteMask
      <4>2. memory[request.addr] = [i \in Lanes |-> memory[request.addr][i]]
        BY <1>t, <1>f DEF TypeOK, Lines
      <4> QED
        BY <4>1, <4>2 DEF Atomic!Merge, Atomic!Reached
    <3>5. MemoryBefore' = [MemoryBefore EXCEPT ![request.addr] =
            Atomic!Merge(@, request.writeValue, Atomic!Reached(request.writeMask, written))]
      BY <2>2, <3>3, <3>4, <1>t, <1>f DEF TypeOK
    <3>6. written \in 1 .. WordCount
      BY <2>3, <1>t, Counting DEF TypeOK
    <3> QED
      BY <1>10, <2>1, <3>1, <3>2, <3>5, <3>6 DEF Reset, NoResult, Atomic!Abort, Atomic!Next
  <2>4. CASE reg_state = "WriteMemory" /\ written = 0
    <3>1. \A i \in Lanes : memory[request.addr][i] = before[i]
      BY <2>4, <1>t, Counting DEF InStep
    <3>2. memory[request.addr] = before
      BY <3>1, <1>t, <1>f DEF TypeOK, Lines
    <3>3. MemoryBefore = memory
      BY <2>4, <3>2, <1>t, <1>f DEF MemoryBefore, TypeOK
    <3> QED
      BY <1>10, <2>1, <2>2, <3>3 DEF Reset, NoResult, Atomic!Abort, Atomic!Next
  <2>5. CASE reg_state # "WriteMemory"
    BY <1>10, <2>1, <2>2, <2>5 DEF Reset, NoResult, MemoryBefore, Atomic!Abort, Atomic!Next
  <2> QED
    BY <2>3, <2>4, <2>5
<1>11. CASE UNCHANGED vars
  BY <1>11 DEF vars, cache, outputs, Atomic!vars, Reservation, Holds, MemoryBefore
<1> QED
  BY <1>1, <1>2, <1>3, <1>4, <1>5, <1>6, <1>7, <1>8, <1>9, <1>10, <1>11, <1>12
     DEF Next, Progress, Atomic!Next

\* The cache implements an atomic memory with load-reserved and
\* store-conditional.
THEOREM Refinement == Spec => ImplementsAtomicMemory
<1>1. Inv /\ Inv' /\ [Next]_vars => [Atomic!Next]_(Atomic!vars)
  BY NextRefines
<1> QED
  BY <1>1, InitRefines, Invariance, PTL DEF Spec, Atomic!Spec, ImplementsAtomicMemory
=============================================================================
