------------------------ MODULE BusAccessUnitProofs ------------------------
(***************************************************************************)
(* Proofs about BusAccessUnit, for any lines, words and memory.            *)
(***************************************************************************)
EXTENDS BusAccessUnit, TLAPS

Zeroes == [i \in WordIndices |-> 0]

LEMMA ZeroTypes ==
  /\ Zeroes \in LinesOfWords /\ 0 \in WordIndices
  /\ \A addr \in LineAddrs : NoRequest(addr) \in Requests
  BY WordCountAssumption, WordsAssumption
     DEF Zeroes, LinesOfWords, WordIndices, NoRequest, Requests

LEMMA NextIndexType ==
  ASSUME NEW i \in WordIndices
  PROVE  /\ (i + 1) % WordCount \in WordIndices
         /\ i # WordCount - 1 => (i + 1) % WordCount = i + 1
         /\ i = WordCount - 1 => (i + 1) % WordCount = 0
  BY WordCountAssumption, SMT DEF WordIndices

\* A transfer has a port, and its request is typed.
LEMMA OwnerType ==
  ASSUME TypeOK, reg_state # Idle
  PROVE  /\ reg_state.port \in Ports /\ reg_state.kind \in {"Read", "Write"}
         /\ Current \in Requests /\ Word \in WordIndices /\ Word \in Span
         /\ Span \subseteq WordIndices
<1>1. reg_state.port \in Ports /\ reg_state.kind \in {"Read", "Write"}
  BY DEF TypeOK
<1>2. Current \in Requests
  BY <1>1 DEF TypeOK, Current
<1> QED
  BY <1>1, <1>2 DEF TypeOK, Word, Span, Requests

LEMMA NextValueType ==
  ASSUME TypeOK, reg_state # Idle, NEW rdata \in Words, NEW valid \in BOOLEAN
  PROVE  NextValue(rdata, valid) \in LinesOfWords
  BY OwnerType DEF NextValue, TypeOK, LinesOfWords, Requests

LEMMA InitTypeOK == Init => TypeOK
<1> SUFFICES ASSUME Init PROVE TypeOK
  OBVIOUS
<1>1. reg_value \in LinesOfWords /\ reg_index \in WordIndices /\ reg_done \in BOOLEAN
  BY ZeroTypes DEF Init, Zeroes
<1>2. request \in [Ports -> Requests]
  BY ZeroTypes DEF Init
<1> QED
  BY <1>1, <1>2 DEF Init, TypeOK

LEMMA NextTypeOK == TypeOK /\ OneOwner /\ [Next]_vars => TypeOK'
<1> SUFFICES ASSUME TypeOK, OneOwner, [Next]_vars PROVE TypeOK'
  OBVIOUS
<1> USE DEF TypeOK
<1>1. ASSUME NEW port \in Ports, NEW kind \in {"Read", "Write"}, NEW addr \in LineAddrs,
             NEW word \in WordsOf(port), NEW value \in ValuesOf(port, kind, word),
             Raise(port, kind, addr, word, value)
      PROVE  TypeOK'
  <2>1. word \in WordIndices
    BY ZeroTypes DEF WordsOf
  <2>2. value \in LinesOfWords
    BY WordsAssumption DEF ValuesOf, LinesOfWords
  <2>3. [kind |-> kind, addr |-> addr, word |-> word, value |-> value] \in Requests
    BY <2>1, <2>2 DEF Requests
  <2>4. request' \in [Ports -> Requests]
    BY <1>1, <2>3 DEF Raise
  <2> QED
    BY <1>1, <2>4 DEF Raise, registers
<1>2. CASE NothingToDo
  BY <1>2, ZeroTypes DEF NothingToDo, Zeroes
<1>3. ASSUME NEW port \in Ports, Choose(port) PROVE TypeOK'
  <2>1. reg_state' \in [port : Ports, kind : {"Read", "Write"}]
    BY <1>3 DEF Choose, Requesting, Requests
  <2>2. reg_value' \in LinesOfWords
    BY <1>3, ZeroTypes DEF Choose, Requests, Zeroes
  <2> QED
    BY <1>3, <2>1, <2>2 DEF Choose
<1>4. ASSUME NEW rdata \in Words, Setup(rdata) PROVE TypeOK'
  BY <1>4, NextValueType DEF Setup
<1>5. ASSUME NEW rdata \in Words, AccessWait(rdata) PROVE TypeOK'
  BY <1>5, NextValueType DEF AccessWait
<1>6. CASE Access
  <2>1. Current \in Requests /\ Word \in WordIndices
    BY <1>6, OwnerType DEF Access
  <2>2. memory[Current.addr][Word] \in Words
    BY <2>1 DEF Requests, LinesOfWords
  <2>3. reg_value' \in LinesOfWords
    BY <1>6, <2>2, NextValueType DEF Access
  <2>4. memory' \in [LineAddrs -> LinesOfWords]
    BY <1>6, <2>1 DEF Access, Requests, LinesOfWords
  <2>5. reg_index' \in WordIndices
    BY <1>6, NextIndexType, ZeroTypes DEF Access, NextIndex
  <2>6. reg_done' \in BOOLEAN
    BY <1>6 DEF Access, Last
  <2> QED
    BY <1>6, <2>3, <2>4, <2>5, <2>6 DEF Access
<1>7. CASE Grant
  <2>1. reg_state # Idle
    BY <1>7 DEF Grant, OneOwner
  <2>2. request' \in [Ports -> Requests]
    BY <1>7, <2>1, OwnerType, ZeroTypes DEF Grant, Requests
  <2>3. reg_value' \in LinesOfWords /\ reg_done' \in BOOLEAN
    BY <1>7, ZeroTypes DEF Grant, Zeroes
  <2> QED
    BY <1>7, <2>2, <2>3 DEF Grant
<1>8. CASE Reset
  <2>1. request' \in [Ports -> Requests]
    BY <1>8, ZeroTypes DEF Reset, Requests
  <2>2. reg_value' \in LinesOfWords /\ reg_done' \in BOOLEAN /\ reg_index' \in WordIndices
    BY <1>8, ZeroTypes DEF Reset, Zeroes
  <2> QED
    BY <1>8, <2>1, <2>2 DEF Reset
<1>9. CASE UNCHANGED vars
  BY <1>9 DEF vars, registers
<1>10. ASSUME NEW addr \in LineAddrs, NEW word \in WordIndices, Move(addr, word)
       PROVE  TypeOK'
  <2>1. "itlb" \in Ports
    BY DEF Ports
  <2>2. [request["itlb"] EXCEPT !.addr = addr, !.word = word] \in Requests
    BY <2>1 DEF Requests
  <2>3. request' = [request EXCEPT !["itlb"] =
                      [request["itlb"] EXCEPT !.addr = addr, !.word = word]]
    BY <1>10, <2>1 DEF Move, Requests
  <2> QED
    BY <1>10, <2>2, <2>3 DEF Move, registers
<1> QED
  BY <1>1, <1>2, <1>3, <1>4, <1>5, <1>6, <1>7, <1>8, <1>9, <1>10 DEF Next, Progress

-----------------------------------------------------------------------------
(* The inductive invariant: a write drives what its client asked for. *)

Driven == reg_state.kind = "Write" => reg_value = Current.value

Inv == TypeOK /\ OneOwner /\ Driven /\ ReadsAreWhole /\ DataWritesLand

LEMMA InitInv == Init => Inv
<1> SUFFICES ASSUME Init PROVE Inv
  OBVIOUS
<1>1. reg_state.kind = "None" /\ reg_state = Idle
  BY DEF Init, Idle
<1>2. OneOwner /\ Driven /\ ReadsAreWhole /\ DataWritesLand
  BY <1>1 DEF Init, OneOwner, Driven, ReadsAreWhole, DataWritesLand
<1> QED
  BY <1>2, InitTypeOK DEF Inv

\* What an access adds to the words already moved.
LEMMA AccessMoves ==
  ASSUME Inv, Access
  PROVE  /\ ~reg_done
         /\ Moved' \subseteq Moved \union {Word}
         /\ reg_done' => reg_index' = 0
         /\ Word \notin Moved
         /\ Moved \subseteq WordIndices
<1> USE DEF Inv
<1>1. reg_state # Idle /\ ~reg_done
  BY DEF Access, OneOwner
<1>2. reg_state' = reg_state /\ request' = request
  BY DEF Access
<1>3. Span' = Span
  BY <1>2 DEF Span, Current
<1>4. reg_index \in WordIndices /\ WordCount \in Nat \ {0} /\ WordIndices = 0 .. WordCount - 1
  BY WordCountAssumption DEF TypeOK, WordIndices
<1>5. CASE reg_state.port \in Caches
  <2>1. /\ Word = reg_index /\ Moved = 0 .. reg_index - 1 /\ Span = WordIndices
        /\ reg_index' = (reg_index + 1) % WordCount
        /\ reg_done' <=> (reg_index = WordCount - 1)
    BY <1>1, <1>5 DEF Access, Word, Moved, NextIndex, Last, Span
  <2>4. reg_index \notin 0 .. reg_index - 1 /\ (0 .. reg_index - 1) \subseteq WordIndices
    BY <1>4
  <2>2. CASE reg_index = WordCount - 1
    <3>1. reg_done' /\ reg_index' = 0
      BY <1>4, <2>1, <2>2, NextIndexType
    <3>2. Moved' = WordIndices
      BY <1>3, <2>1, <3>1 DEF Moved
    <3>3. WordIndices = (0 .. reg_index - 1) \union {reg_index}
      BY <1>4, <2>2
    <3> QED
      BY <1>1, <2>1, <2>4, <3>1, <3>2, <3>3
  <2>3. CASE reg_index # WordCount - 1
    <3>0. reg_index' = reg_index + 1
      BY <1>4, <2>1, <2>3, NextIndexType
    <3>1. ~reg_done' /\ reg_index' - 1 = reg_index
      BY <1>4, <2>1, <2>3, <3>0
    <3>2. Moved' = 0 .. reg_index
      BY <1>2, <1>5, <3>1 DEF Moved
    <3>3. 0 .. reg_index = (0 .. reg_index - 1) \union {reg_index}
      BY <1>4
    <3> QED
      BY <1>1, <2>1, <2>4, <3>1, <3>2, <3>3
  <2> QED
    BY <2>2, <2>3
<1>6. CASE reg_state.port \notin Caches
  <2>1. /\ Moved = {} /\ Span = {Word} /\ reg_index' = 0 /\ reg_done' = TRUE
    BY <1>1, <1>6 DEF Access, Word, Moved, NextIndex, Last, Span
  <2>2. Moved' = {Word}
    BY <1>3, <2>1 DEF Moved
  <2> QED
    BY <1>1, <2>1, <2>2
<1> QED
  BY <1>5, <1>6

LEMMA NextInv == Inv /\ [Next]_vars => Inv'
<1> SUFFICES ASSUME Inv, [Next]_vars
             PROVE  OneOwner' /\ Driven' /\ ReadsAreWhole' /\ DataWritesLand'
  BY NextTypeOK DEF Inv
<1> DEFINE Goal == OneOwner /\ Driven /\ ReadsAreWhole /\ DataWritesLand
<1> SUFFICES Goal'
  OBVIOUS
<1> USE DEF Inv
\* A step that moves nothing keeps what has been moved.
<1>k. ASSUME reg_state' = reg_state, reg_done' = reg_done, reg_index' = reg_index,
             reg_state # Idle => Current' = Current,
             memory' = memory, reg_state # Idle,
             reg_state.kind = "Write" => reg_value' = Current.value,
             \A i \in Moved : reg_value'[i] = reg_value[i]
      PROVE  Driven' /\ ReadsAreWhole' /\ DataWritesLand'
  <2>1. Moved' = Moved
    BY <1>k DEF Moved, Span
  <2> QED
    BY <1>k, <2>1 DEF Driven, ReadsAreWhole, DataWritesLand, WriteHasLanded
<1>1. ASSUME NEW port \in Ports, NEW kind \in {"Read", "Write"}, NEW addr \in LineAddrs,
             NEW word \in WordsOf(port), NEW value \in ValuesOf(port, kind, word),
             Raise(port, kind, addr, word, value)
      PROVE  Goal'
  <2>1. CASE reg_state = Idle
    BY <1>1, <2>1 DEF Raise, registers, OneOwner, Driven, ReadsAreWhole, DataWritesLand, Idle
  <2>2. CASE reg_state # Idle
    <3>1. reg_state.port # port
      BY <1>1, <2>2, OwnerType DEF Raise, Requesting, OneOwner, Current
    <3>2. Current' = Current
      BY <1>1, <2>2, <3>1, OwnerType DEF Raise, registers, Current, TypeOK
    <3>3. Driven' /\ ReadsAreWhole' /\ DataWritesLand'
      BY <1>1, <1>k, <2>2, <3>2 DEF Raise, registers, Driven
    <3> QED
      BY <1>1, <2>2, <3>2, <3>3 DEF Raise, registers, OneOwner
  <2> QED
    BY <2>1, <2>2
<1>2. CASE NothingToDo
  BY <1>2 DEF NothingToDo, OneOwner, Driven, ReadsAreWhole, DataWritesLand, Idle
<1>3. ASSUME NEW port \in Ports, Choose(port) PROVE Goal'
  <2>1. /\ reg_state'.port = port /\ reg_state'.kind = request[port].kind
        /\ Current' = request[port] /\ reg_done' = FALSE /\ reg_index' = 0
        /\ reg_bus_state' = "Idle"
    BY <1>3 DEF Choose, Current, OneOwner
  <2>2. Moved' = {}
    BY <2>1 DEF Moved
  <2> QED
    BY <1>3, <2>1, <2>2
       DEF Choose, OneOwner, Driven, ReadsAreWhole, DataWritesLand, WriteHasLanded,
           Idle, Requesting
\* Before an access, only words that have not been moved are overwritten.
<1>w. ASSUME NEW rdata \in Words, reg_state # Idle, ~reg_done,
             reg_value' = NextValue(rdata, FALSE)
      PROVE  /\ reg_state.kind = "Write" => reg_value' = Current.value
             /\ \A i \in Moved : reg_value'[i] = reg_value[i]
  <2>1. reg_state.port \notin Caches => Moved = {}
    BY <1>w DEF Moved
  <2> QED
    BY <1>w, <2>1 DEF NextValue, Driven
<1>4. ASSUME NEW rdata \in Words, Setup(rdata) PROVE Goal'
  <2>1. Current' = Current
    BY <1>4 DEF Setup, Current
  <2>2. Driven' /\ ReadsAreWhole' /\ DataWritesLand'
    BY <1>4, <1>k, <1>w, <2>1 DEF Setup
  <2> QED
    BY <1>4, <2>1, <2>2 DEF Setup, OneOwner
<1>5. ASSUME NEW rdata \in Words, AccessWait(rdata) PROVE Goal'
  <2>1. Current' = Current /\ ~reg_done
    BY <1>5 DEF AccessWait, Current, OneOwner
  <2>2. Driven' /\ ReadsAreWhole' /\ DataWritesLand'
    BY <1>5, <1>k, <1>w, <2>1 DEF AccessWait
  <2> QED
    BY <1>5, <2>1, <2>2 DEF AccessWait, OneOwner
<1>6. CASE Access
  <2>1. /\ reg_state # Idle /\ reg_state' = reg_state /\ Current' = Current
        /\ reg_bus_state' = "Idle"
    BY <1>6 DEF Access, Current
  <2>t. /\ Current.addr \in LineAddrs /\ Word \in WordIndices
        /\ memory \in [LineAddrs -> LinesOfWords] /\ reg_value \in LinesOfWords
        /\ reg_state.kind \in {"Read", "Write"} /\ reg_state.port \in Ports
    BY <2>1, OwnerType DEF TypeOK, Requests
  <2>2. OneOwner'
    BY <1>6, <2>1, AccessMoves DEF OneOwner
  <2>3. CASE reg_state.kind = "Read"
    <3>1. reg_value' = [reg_value EXCEPT ![Word] = memory[Current.addr][Word]] /\ memory' = memory
      BY <1>6, <2>3 DEF Access, NextValue, Write
    <3>2. reg_state.port # "itlb" =>
            \A i \in Moved' : reg_value'[i] = memory'[Current.addr][i]
      BY <1>6, <2>3, <2>t, <3>1, AccessMoves DEF LinesOfWords, ReadsAreWhole
    <3> QED
      BY <2>1, <2>2, <2>3, <3>2 DEF Driven, ReadsAreWhole, DataWritesLand
  <2>4. CASE reg_state.kind = "Write"
    <3>1. reg_value' = Current.value /\ reg_value = Current.value
      BY <1>6, <2>4 DEF Access, NextValue, Driven
    <3>2. CASE reg_state.port # "itlb"
      <4>1. memory' = [memory EXCEPT ![Current.addr][Word] = reg_value[Word]]
        BY <1>6, <2>4, <2>t, <3>2 DEF Access, Write, Ports
      <4>2. \A i \in Moved' : memory'[Current.addr][i] = Current.value[i]
        BY <1>6, <2>4, <2>t, <3>1, <3>2, <4>1, AccessMoves
           DEF LinesOfWords, DataWritesLand, WriteHasLanded
      <4> QED
        BY <2>1, <2>2, <2>4, <3>1, <4>2
           DEF Driven, ReadsAreWhole, DataWritesLand, WriteHasLanded
    <3>3. CASE reg_state.port = "itlb"
      BY <2>1, <2>2, <2>4, <3>1, <3>3 DEF Driven, ReadsAreWhole, DataWritesLand
    <3> QED
      BY <3>2, <3>3
  <2> QED
    BY <2>3, <2>4, <2>t
<1>7. CASE Grant
  <2>1. reg_bus_state = "Idle" /\ reg_index = 0
    BY <1>7 DEF Grant, OneOwner
  <2> QED
    BY <1>7, <2>1 DEF Grant, OneOwner, Driven, ReadsAreWhole, DataWritesLand, Idle
<1>8. CASE Reset
  BY <1>8 DEF Reset, OneOwner, Driven, ReadsAreWhole, DataWritesLand, Idle
<1>9. CASE UNCHANGED vars
  BY <1>9 DEF vars, registers, OneOwner, Driven, ReadsAreWhole, DataWritesLand,
              WriteHasLanded, Current, Moved, Span
<1>10. ASSUME NEW addr \in LineAddrs, NEW word \in WordIndices, Move(addr, word)
       PROVE  Goal'
  <2>0. "itlb" \in Ports
    BY DEF Ports
  <2>1. CASE reg_state = Idle
    BY <1>10, <2>1 DEF Move, registers, OneOwner, Driven, ReadsAreWhole, DataWritesLand, Idle
  <2>2. CASE reg_state # Idle /\ reg_state.port = "itlb"
    <3>1. Current'.kind = Current.kind /\ Current.kind = "Read"
      BY <1>10, <2>0, <2>2 DEF Move, registers, Current, Requests, TypeOK
    <3>2. reg_state' = reg_state /\ reg_state.kind = "Read"
      BY <1>10, <2>2, <3>1 DEF Move, registers, OneOwner
    <3> QED
      BY <1>10, <2>2, <3>1, <3>2
         DEF Move, registers, OneOwner, Driven, ReadsAreWhole, DataWritesLand
  <2>3. CASE reg_state # Idle /\ reg_state.port # "itlb"
    <3>1. Current' = Current
      BY <1>10, <2>3, OwnerType DEF Move, registers, Current, TypeOK
    <3>2. Driven' /\ ReadsAreWhole' /\ DataWritesLand'
      BY <1>10, <1>k, <2>3, <3>1 DEF Move, registers, Driven
    <3> QED
      BY <1>10, <2>3, <3>1, <3>2 DEF Move, registers, OneOwner
  <2> QED
    BY <2>1, <2>2, <2>3
<1> QED
  BY <1>1, <1>2, <1>3, <1>4, <1>5, <1>6, <1>7, <1>8, <1>9, <1>10 DEF Next, Progress

LEMMA Invariance == Spec => []Inv
  BY InitInv, NextInv, PTL DEF Spec

\* Every register of the bus master and every wire keeps to its type.
THEOREM TypeCorrectness == Spec => []TypeOK
<1>1. Inv => TypeOK
  BY DEF Inv
<1> QED
  BY <1>1, Invariance, PTL

\* No read is torn, stale or given to another port, whatever the width of a line.
THEOREM WholeReads == Spec => []ReadsAreWhole
<1>1. Inv => ReadsAreWhole
  BY DEF Inv
<1> QED
  BY <1>1, Invariance, PTL

\* A granted write of the data cache or the data TLB is in memory.
THEOREM LandedWrites == Spec => []DataWritesLand
<1>1. Inv => DataWritesLand
  BY DEF Inv
<1> QED
  BY <1>1, Invariance, PTL

\* Memory changes only where, and to what, the served client asked for.
THEOREM RequestedChanges == Spec => OnlyRequestedChanges
<1>1. Inv /\ [Next]_vars => [RequestedChange]_vars
  <2> SUFFICES ASSUME Inv, [Next]_vars, memory' # memory PROVE RequestedChange
    BY DEF RequestedChange
  <2>1. Access /\ Write
    BY DEF Next, Progress, vars, registers, Raise, Move, NothingToDo, Choose, Setup, AccessWait,
           Access, Grant, Reset
  <2>2. reg_state # Idle
    BY <2>1 DEF Access
  <2>3. /\ Word \in Span /\ reg_value = Current.value
        /\ memory' = [memory EXCEPT ![Current.addr][Word] = reg_value[Word]]
    BY <2>1, <2>2, OwnerType DEF Access, Write, Driven, Inv
  <2>4. memory \in [LineAddrs -> LinesOfWords] /\ Word \in WordIndices
    BY <2>2, OwnerType DEF Inv, TypeOK
  <2> QED
    BY <2>1, <2>3, <2>4 DEF RequestedChange, Write, LinesOfWords
<1> QED
  BY <1>1, Invariance, PTL DEF Spec, OnlyRequestedChanges
=============================================================================
