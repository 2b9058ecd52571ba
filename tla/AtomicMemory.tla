---------------------------- MODULE AtomicMemory ----------------------------
(***************************************************************************)
(* What the data cache promises the load/store unit: one request at a time *)
(* against a memory in which every operation takes effect at one instant,  *)
(* with load-reserved / store-conditional.  Two things show through: lines *)
(* share sets, so that an access to a line may cost the reservation of     *)
(* another line of its set; and a line goes to memory word by word, so     *)
(* that a reset may cut a store short.                                     *)
(***************************************************************************)
EXTENDS Naturals

CONSTANTS Addrs,            \* line addresses
          Lanes,            \* byte positions of a line
          Bytes,            \* values of a byte
          WordCount,        \* words of a line
          WordOf,           \* the word a byte position belongs to
          SameSet(_, _)     \* do two line addresses share a set of the cache

Lines == [Lanes -> Bytes]

VARIABLES memory,           \* [Addrs -> Lines]
          reservation,      \* the line addresses a store-conditional may write
          request,          \* the request on the port
          result            \* the last answer: [command, value, failed]

vars == <<memory, reservation, request, result>>

Merge(old, new, mask) == [i \in Lanes |-> IF i \in mask THEN new[i] ELSE old[i]]

Pending(commands) == request.enable /\ request.command \in commands

Init == /\ memory \in [Addrs -> Lines]
        /\ reservation = {}
        /\ ~request.enable

Issue ==
  /\ ~request.enable
  /\ request'.enable
  /\ UNCHANGED <<memory, reservation, result>>

Answer(value, failed) ==
  /\ result' = [command |-> request.command, value |-> value, failed |-> failed]
  /\ request' = [request EXCEPT !.enable = FALSE]

DoLoad ==
  /\ Pending({"Load", "LoadReserved"})
  /\ reservation' = IF request.command = "LoadReserved"
                    THEN reservation \union {request.addr}
                    ELSE reservation
  /\ Answer(memory[request.addr], FALSE)
  /\ UNCHANGED memory

\* A store-conditional writes only while its line is still reserved.
DoStore ==
  /\ Pending({"Store", "StoreConditional"})
  /\ request.command = "StoreConditional" => request.addr \in reservation
  /\ memory' = [memory EXCEPT ![request.addr] =
                  Merge(@, request.writeValue, request.writeMask)]
  /\ reservation' = reservation \ {request.addr}
  /\ Answer(result.value, FALSE)

\* ... and fails only when the reservation is gone.
DoFail ==
  /\ Pending({"StoreConditional"})
  /\ request.addr \notin reservation
  /\ Answer(result.value, TRUE)
  /\ UNCHANGED <<memory, reservation>>

DoInvalidate ==
  /\ Pending({"Invalidate"})
  /\ \E kept \in SUBSET reservation :
       /\ request.addr \notin kept
       /\ \A a \in reservation \ kept : SameSet(a, request.addr)
       /\ reservation' = kept
  /\ Answer(result.value, FALSE)
  /\ UNCHANGED memory

\* A pending access may cost the reservations of its set: those of other lines,
\* and its own when it is going to store.
Evict ==
  /\ request.enable
  /\ \E kept \in SUBSET reservation :
       /\ \A a \in reservation \ kept :
            /\ SameSet(a, request.addr)
            /\ a = request.addr => request.command = "Store"
       /\ reservation' = kept
  /\ UNCHANGED <<memory, request, result>>

\* The masked bytes of a line's first n words.
Reached(mask, n) == {i \in mask : WordOf[i] < n}

\* A reset drops every reservation and the request in progress, which has no
\* effect, unless it is a store that may take effect: then the words it has
\* reached, in the order of the line, stay written, all of them at most.
Abort ==
  /\ \/ UNCHANGED memory
     \/ /\ Pending({"Store", "StoreConditional"})
        /\ request.command = "StoreConditional" => request.addr \in reservation
        /\ \E n \in 1 .. WordCount :
             memory' = [memory EXCEPT ![request.addr] =
                          Merge(@, request.writeValue, Reached(request.writeMask, n))]
  /\ reservation' = {}
  /\ request' = [request EXCEPT !.enable = FALSE]
  /\ result'.command = "None"

Next == Issue \/ DoLoad \/ DoStore \/ DoFail \/ DoInvalidate \/ Evict \/ Abort

Spec == Init /\ [][Next]_vars
=============================================================================
