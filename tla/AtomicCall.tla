------------------------------ MODULE AtomicCall ------------------------------
(***************************************************************************)
(* What a native operation promises its callers: it reads its arguments at *)
(* one moment, the one at which it is called, and answers once, with a     *)
(* value computed from what it read, with an exception, or by the end of   *)
(* the process.                                                            *)
(***************************************************************************)
EXTENDS Naturals

CONSTANTS Thread, Container, Operation, Reads, MaxChange

VARIABLES heap,    \* changes made to each container
          phase,   \* "idle", "open" or "answered"
          seen,    \* what the call of each thread read
          result,  \* what it answered
          crashed

vars == <<heap, phase, seen, result, crashed>>

Exceptions == {"interrupt", "CoreError", "DecodeError", "SerializationError",
               "NativeError", "BuiltinError", "MemoryError"}

Init ==
    /\ heap = [c \in Container |-> 0]
    /\ phase = [t \in Thread |-> "idle"]
    /\ seen = [t \in Thread |-> <<>>]
    /\ result = [t \in Thread |-> [kind |-> "none"]]
    /\ crashed = FALSE

(* Python code of any thread changes an argument, whatever calls are open. *)
Mutate(c) ==
    /\ heap[c] < MaxChange
    /\ heap' = [heap EXCEPT ![c] = @ + 1]
    /\ UNCHANGED <<phase, seen, result, crashed>>

Call(t, o) ==
    /\ phase[t] = "idle"
    /\ phase' = [phase EXCEPT ![t] = "open"]
    /\ seen' = [seen EXCEPT ![t] = [c \in Reads[o] |-> heap[c]]]
    /\ UNCHANGED <<heap, result, crashed>>

Respond(t, r) ==
    /\ phase[t] = "open"
    /\ r \in {[kind |-> "value", of |-> seen[t]]} \cup [kind : Exceptions]
    /\ phase' = [phase EXCEPT ![t] = "answered"]
    /\ result' = [result EXCEPT ![t] = r]
    /\ UNCHANGED <<heap, seen, crashed>>

Return(t) ==
    /\ phase[t] = "answered"
    /\ phase' = [phase EXCEPT ![t] = "idle"]
    /\ seen' = [seen EXCEPT ![t] = <<>>]
    /\ result' = [result EXCEPT ![t] = [kind |-> "none"]]
    /\ UNCHANGED <<heap, crashed>>

(* The process ends, and only because of a call. *)
Crash(t) ==
    /\ phase[t] = "open"
    /\ crashed' = TRUE
    /\ UNCHANGED <<heap, phase, seen, result>>

Next ==
    /\ ~crashed
    /\ \/ \E c \in Container : Mutate(c)
       \/ \E t \in Thread :
             \/ \E o \in Operation : Call(t, o)
             \/ \E r \in {[kind |-> "value", of |-> seen[t]]} \cup [kind : Exceptions] : Respond(t, r)
             \/ Return(t) \/ Crash(t)

Spec == Init /\ [][Next]_vars
===============================================================================
