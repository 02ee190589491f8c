------------------------------ MODULE NativeCall ------------------------------
(***************************************************************************)
(* A call of a native operation from several Python threads:               *)
(* rust/src/panic_boundary.rs (boundary, detached), attached_boundary.rs,  *)
(* error.rs (Failure::python, structured) and the shape the operations of  *)
(* operations.rs, artifact_interface.rs, policy_interface.rs, batch*.rs    *)
(* and collection.rs share: bind and admit the arguments with the GIL      *)
(* held, run the owned request in core without it, take the GIL back, run  *)
(* the signal handlers that are due, then map the result.                  *)
(*                                                                         *)
(* No attached step tests the GIL: that one thread at a time inspects      *)
(* Python objects is a consequence of where the code releases it, and is   *)
(* stated as an invariant.  The arguments are containers other threads may *)
(* change; a container is a number of changes made to it.                  *)
(*                                                                         *)
(* ReadReleasing, DetachHolding, ReattachUnchecked, RaiseUnfinished and    *)
(* DisposeKeepingOutcome are faults, part of no specification: the         *)
(* properties are tested against them.                                     *)
(***************************************************************************)
EXTENDS Naturals, FiniteSets

CONSTANTS Thread,
          Main,       \* the thread that runs signal handlers
          NoThread,
          Container,  \* mutable arguments: dicts and lists
          Signal,
          Operation,
          Reads,      \* the containers an operation converts
          Detached,   \* the operations that call core through detached
          Decoders,   \* the operations that parse JSON text (from_json)
          Hung,       \* threads whose core call may never end
          Fields,     \* fallible calls that build a structured exception
          MaxChange   \* bound on the changes of a container

ASSUME NativeCallAssumption ==
    /\ Main \in Thread
    /\ NoThread \notin Thread
    /\ Reads \in [Operation -> SUBSET Container]
    /\ Detached \subseteq Operation
    /\ Decoders \subseteq Operation
    /\ Hung \subseteq Thread
    /\ Fields \in Nat \ {0}
    /\ "none" \notin Operation
    /\ MaxChange \in Nat

VARIABLES gil,      \* the thread that holds the GIL, or NoThread
          heap,     \* changes made to each container
          pending,  \* signals that arrived and were not handled
          aborted,  \* the process called std::process::abort
          pc,
          op,       \* operation of the current or last call
          read,     \* containers converted so far
          request,  \* the Rust-owned copy of each container
          outcome,  \* what core or the attached code left to map
          fields,   \* calls made on the exception under construction
          answer,   \* what the caller gets
          began,    \* history: the heap when the call began
          handled,  \* signals the pass of check_signals has handled
          owed,     \* history: the signals pending when the GIL came back
          raised,   \* history: a handler raised during the call
          panics    \* history: panics during the call

vars == <<gil, heap, pending, aborted, pc, op, read, request, outcome, fields, answer,
          began, handled, owed, raised, panics>>

call == <<op, read, request, began>>
history == <<handled, owed, raised, panics>>
world == <<heap, pending, aborted>>

-------------------------------------------------------------------------------
(* Failure variants with one constructor per Python class (error.rs). *)
Structured == {"Core", "Decode", "Export", "Panic"}

Failure == Structured \cup {"Argument", "Memory"}

(* Failure::python: the class of the exception. *)
Class == [f \in Failure |->
            CASE f = "Core"     -> "CoreError"
              [] f = "Decode"   -> "DecodeError"
              [] f = "Export"   -> "SerializationError"
              [] f = "Panic"    -> "NativeError"
              [] f = "Argument" -> "BuiltinError"
              [] f = "Memory"   -> "MemoryError"]

StructuredClass == {Class[f] : f \in Structured}

Answer == {"none", "value", "interrupt"} \cup {Class[f] : f \in Failure}

PC == {"python",   \* interpreted code, between calls
       "admit",    \* bind, then convert the arguments
       "native",   \* in core, without the GIL
       "reattach", \* core is done, waiting for the GIL
       "signals",  \* check_signals
       "handler",  \* interpreted code of a signal handler
       "map",      \* export the value or build the exception
       "unwind",   \* a panic reached boundary
       "return"}

(* Interpreted code takes and gives up the GIL; the rest of a call keeps it. *)
Interpreted == {"python", "handler"}

Attached == {"admit", "signals", "map", "unwind", "return"}

Goto(t, to) == pc' = [pc EXCEPT ![t] = to]

-------------------------------------------------------------------------------
Fresh == [c \in Container |-> 0]

(* No call: what a call keeps exists from its beginning to its return. *)
Init ==
    /\ gil = NoThread
    /\ heap = Fresh
    /\ pending = {}
    /\ aborted = FALSE
    /\ pc = [t \in Thread |-> "python"]
    /\ op = [t \in Thread |-> "none"]
    /\ read = [t \in Thread |-> {}]
    /\ request = [t \in Thread |-> Fresh]
    /\ outcome = [t \in Thread |-> "none"]
    /\ fields = [t \in Thread |-> 0]
    /\ answer = [t \in Thread |-> "none"]
    /\ began = [t \in Thread |-> Fresh]
    /\ handled = [t \in Thread |-> {}]
    /\ owed = [t \in Thread |-> {}]
    /\ raised = [t \in Thread |-> FALSE]
    /\ panics = [t \in Thread |-> 0]

(* The interpreter: the evaluation loop switches threads between bytecodes, *)
(* and Python code of any thread may change a container it shares.          *)
Acquire(t) ==
    /\ pc[t] \in Interpreted /\ gil = NoThread
    /\ gil' = t
    /\ UNCHANGED <<pc, outcome, fields, answer, call, history, world>>

Release(t) ==
    /\ pc[t] \in Interpreted /\ gil = t
    /\ gil' = NoThread
    /\ UNCHANGED <<pc, outcome, fields, answer, call, history, world>>

Mutate(t, c) ==
    /\ pc[t] \in Interpreted /\ gil = t
    /\ heap[c] < MaxChange
    /\ heap' = [heap EXCEPT ![c] = @ + 1]
    /\ UNCHANGED <<gil, pending, aborted, pc, outcome, fields, answer, call, history>>

(* A signal arrives at any time; the main thread handles it between         *)
(* bytecodes, those of another handler included.                            *)
Arrive(s) ==
    /\ s \notin pending
    /\ pending' = pending \cup {s}
    /\ UNCHANGED <<gil, heap, aborted, pc, outcome, fields, answer, call, history>>

Handle(s) ==
    /\ pc[Main] \in Interpreted /\ gil = Main
    /\ s \in pending
    /\ pending' = pending \ {s}
    /\ IF pc[Main] = "handler"
       THEN handled' = [handled EXCEPT ![Main] = @ \cup {s}]
       ELSE UNCHANGED handled
    /\ UNCHANGED <<gil, heap, aborted, pc, outcome, fields, answer, call, owed, raised, panics>>

-------------------------------------------------------------------------------
(* boundary, entered from interpreted code *)
Begin(t, o) ==
    /\ pc[t] = "python" /\ gil = t
    /\ Goto(t, "admit")
    /\ op' = [op EXCEPT ![t] = o]
    /\ read' = [read EXCEPT ![t] = {}]
    /\ began' = [began EXCEPT ![t] = heap]
    /\ UNCHANGED <<gil, request, outcome, fields, answer, history, world>>

ReadReleasing(t, c) ==
    /\ pc[t] = "admit" /\ c \in Reads[op[t]] \ read[t]
    /\ gil' = NoThread
    /\ read' = [read EXCEPT ![t] = @ \cup {c}]
    /\ request' = [request EXCEPT ![t][c] = heap[c]]
    /\ UNCHANGED <<pc, op, outcome, fields, answer, began, history, world>>

(* Conversion of one argument into the request. *)
Read(t, c) ==
    /\ pc[t] = "admit" /\ c \in Reads[op[t]] \ read[t]
    /\ read' = [read EXCEPT ![t] = @ \cup {c}]
    /\ request' = [request EXCEPT ![t][c] = heap[c]]
    /\ UNCHANGED <<gil, pc, op, outcome, fields, answer, began, history, world>>

(* Binding or conversion refuses the arguments. *)
Refuse(t, f) ==
    /\ pc[t] = "admit"
    /\ f \in {"Argument", "Memory"} \/ (f = "Decode" /\ op[t] \in Decoders)
    /\ outcome' = [outcome EXCEPT ![t] = f]
    /\ Goto(t, "map")
    /\ UNCHANGED <<gil, fields, answer, call, history, world>>

(* Py::detach gives up the GIL and runs the closure. *)
DetachHolding(t) ==
    /\ pc[t] = "admit" /\ read[t] = Reads[op[t]] /\ op[t] \in Detached
    /\ Goto(t, "native")
    /\ UNCHANGED <<gil, outcome, fields, answer, call, history, world>>

Detach(t) ==
    /\ pc[t] = "admit" /\ read[t] = Reads[op[t]] /\ op[t] \in Detached
    /\ gil' = NoThread
    /\ Goto(t, "native")
    /\ UNCHANGED <<outcome, fields, answer, call, history, world>>

(* Policy.to_dict and the getters read their own immutable value attached. *)
StayAttached(t) ==
    /\ pc[t] = "admit" /\ read[t] = Reads[op[t]] /\ op[t] \notin Detached
    /\ outcome' = [outcome EXCEPT ![t] = "value"]
    /\ Goto(t, "map")
    /\ UNCHANGED <<gil, fields, answer, call, history, world>>

(* Core returns a value or a failure. *)
Finish(t, result) ==
    /\ pc[t] = "native"
    /\ result \in {"value"} \cup (Failure \ {"Panic", "Decode"})
    /\ outcome' = [outcome EXCEPT ![t] = result]
    /\ Goto(t, "reattach")
    /\ UNCHANGED <<gil, fields, answer, call, history, world>>

(* Core panics; the guard takes the GIL back before the unwinding goes on. *)
PanicDetached(t) ==
    /\ pc[t] = "native"
    /\ outcome' = [outcome EXCEPT ![t] = "Panic"]
    /\ panics' = [panics EXCEPT ![t] = @ + 1]
    /\ Goto(t, "reattach")
    /\ UNCHANGED <<gil, fields, answer, call, handled, owed, raised, world>>

ReattachUnchecked(t) ==
    /\ pc[t] = "reattach" /\ gil = NoThread
    /\ gil' = t
    /\ owed' = [owed EXCEPT ![t] = pending]
    /\ Goto(t, IF outcome[t] = "Panic" THEN "unwind" ELSE "map")
    /\ UNCHANGED <<outcome, fields, answer, call, handled, raised, panics, world>>

Reattach(t) ==
    /\ pc[t] = "reattach" /\ gil = NoThread
    /\ gil' = t
    /\ owed' = [owed EXCEPT ![t] = pending]
    /\ Goto(t, IF outcome[t] = "Panic" THEN "unwind" ELSE "signals")
    /\ UNCHANGED <<outcome, fields, answer, call, handled, raised, panics, world>>

-------------------------------------------------------------------------------
(* check_signals: one pass over the signals, in which the main thread runs  *)
(* the handler of each that is pending; the first that raises ends the      *)
(* pass.  A signal may still arrive while the pass runs.  Other threads     *)
(* pass without handling any.                                               *)
RunHandler(t, s) ==
    /\ pc[t] = "signals" /\ t = Main
    /\ s \in pending \ handled[t]
    /\ pending' = pending \ {s}
    /\ handled' = [handled EXCEPT ![t] = @ \cup {s}]
    /\ Goto(t, "handler")
    /\ UNCHANGED <<gil, heap, aborted, outcome, fields, answer, call, owed, raised, panics>>

HandlerReturns(t) ==
    /\ pc[t] = "handler" /\ gil = t
    /\ Goto(t, "signals")
    /\ UNCHANGED <<gil, outcome, fields, answer, call, history, world>>

(* check_signals()? : the exception replaces the result, which is dropped. *)
HandlerRaises(t) ==
    /\ pc[t] = "handler" /\ gil = t
    /\ raised' = [raised EXCEPT ![t] = TRUE]
    /\ answer' = [answer EXCEPT ![t] = "interrupt"]
    /\ Goto(t, "return")
    /\ UNCHANGED <<gil, outcome, fields, call, handled, owed, panics, world>>

NoSignalDue(t) ==
    /\ pc[t] = "signals"
    /\ t = Main => owed[t] \cap pending \subseteq handled[t]
    /\ Goto(t, "map")
    /\ UNCHANGED <<gil, outcome, fields, answer, call, history, world>>

-------------------------------------------------------------------------------
(* Py::new or the export of the value succeeds; nothing was visible before. *)
Publish(t) ==
    /\ pc[t] = "map" /\ outcome[t] = "value"
    /\ answer' = [answer EXCEPT ![t] = "value"]
    /\ Goto(t, "return")
    /\ UNCHANGED <<gil, outcome, fields, call, history, world>>

(* A Python allocation of the export fails; what was built is dropped. *)
ExportFails(t, f) ==
    /\ pc[t] = "map" /\ outcome[t] = "value"
    /\ f \in {"Memory", "Export"}
    /\ outcome' = [outcome EXCEPT ![t] = f]
    /\ UNCHANGED <<gil, pc, fields, answer, call, history, world>>

(* Failure::python for a built-in class: no field to set. *)
RaisePlain(t) ==
    /\ pc[t] = "map" /\ outcome[t] \in Failure \ Structured
    /\ answer' = [answer EXCEPT ![t] = Class[outcome[t]]]
    /\ Goto(t, "return")
    /\ UNCHANGED <<gil, outcome, fields, call, history, world>>

(* structured: one fallible call after the other, any failure is memory. *)
SetField(t) ==
    /\ pc[t] = "map" /\ outcome[t] \in Structured /\ fields[t] < Fields
    /\ \/ /\ fields' = [fields EXCEPT ![t] = @ + 1]
          /\ UNCHANGED outcome
       \/ /\ outcome' = [outcome EXCEPT ![t] = "Memory"]
          /\ UNCHANGED fields
    /\ UNCHANGED <<gil, pc, answer, call, history, world>>

RaiseUnfinished(t) ==
    /\ pc[t] = "map" /\ outcome[t] \in Structured /\ fields[t] > 0
    /\ answer' = [answer EXCEPT ![t] = Class[outcome[t]]]
    /\ Goto(t, "return")
    /\ UNCHANGED <<gil, outcome, fields, call, history, world>>

RaiseStructured(t) ==
    /\ pc[t] = "map" /\ outcome[t] \in Structured /\ fields[t] = Fields
    /\ answer' = [answer EXCEPT ![t] = Class[outcome[t]]]
    /\ Goto(t, "return")
    /\ UNCHANGED <<gil, outcome, fields, call, history, world>>

(* A panic of attached code reaches boundary, unless boundary itself is     *)
(* building the NativeError: then there is no one left to catch it.         *)
PanicAttached(t) ==
    /\ pc[t] \in {"admit", "map"}
    /\ panics' = [panics EXCEPT ![t] = @ + 1]
    /\ IF panics[t] = 0
       THEN Goto(t, "unwind") /\ UNCHANGED aborted
       ELSE aborted' = TRUE /\ UNCHANGED pc
    /\ UNCHANGED <<gil, heap, pending, outcome, fields, answer, call, handled, owed, raised>>

DisposeKeepingOutcome(t) ==
    /\ pc[t] = "unwind"
    /\ Goto(t, "map")
    /\ UNCHANGED <<gil, outcome, fields, answer, call, history, world>>

(* dispose drops the payload, whose destructor may panic in turn; then the  *)
(* NativeError is built.                                                    *)
Dispose(t) ==
    /\ pc[t] = "unwind"
    /\ outcome' = [outcome EXCEPT ![t] = "Panic"]
    /\ fields' = [fields EXCEPT ![t] = 0]
    /\ Goto(t, "map")
    /\ UNCHANGED <<gil, answer, call, history, world>>

DisposePanics(t) ==
    /\ pc[t] = "unwind"
    /\ panics' = [panics EXCEPT ![t] = @ + 1]
    /\ aborted' = TRUE
    /\ UNCHANGED <<gil, heap, pending, pc, outcome, fields, answer, call, handled, owed, raised>>

(* The caller has its answer and the call's locals are gone. *)
Return(t) ==
    /\ pc[t] = "return"
    /\ Goto(t, "python")
    /\ op' = [op EXCEPT ![t] = "none"]
    /\ read' = [read EXCEPT ![t] = {}]
    /\ request' = [request EXCEPT ![t] = Fresh]
    /\ outcome' = [outcome EXCEPT ![t] = "none"]
    /\ fields' = [fields EXCEPT ![t] = 0]
    /\ answer' = [answer EXCEPT ![t] = "none"]
    /\ began' = [began EXCEPT ![t] = Fresh]
    /\ handled' = [handled EXCEPT ![t] = {}]
    /\ owed' = [owed EXCEPT ![t] = {}]
    /\ raised' = [raised EXCEPT ![t] = FALSE]
    /\ panics' = [panics EXCEPT ![t] = 0]
    /\ UNCHANGED <<gil, world>>

-------------------------------------------------------------------------------
(* A call that has begun: the adapter's own steps, core's, and a handler's end. *)
Adapter(t) ==
    \/ \E c \in Container : Read(t, c)
    \/ \E f \in Failure : Refuse(t, f) \/ ExportFails(t, f)
    \/ Detach(t) \/ StayAttached(t)
    \/ \E s \in Signal : RunHandler(t, s)
    \/ NoSignalDue(t)
    \/ Publish(t) \/ RaisePlain(t) \/ SetField(t) \/ RaiseStructured(t)
    \/ PanicAttached(t) \/ Dispose(t) \/ DisposePanics(t)
    \/ Return(t)

Core(t) == PanicDetached(t) \/ \E result \in {"value"} \cup Failure : Finish(t, result)

HandlerEnds(t) == HandlerReturns(t) \/ HandlerRaises(t)

Next ==
    /\ ~aborted
    /\ \/ \E t \in Thread :
             \/ Acquire(t) \/ Release(t)
             \/ \E c \in Container : Mutate(t, c)
             \/ \E o \in Operation : Begin(t, o)
             \/ Adapter(t) \/ Core(t) \/ Reattach(t) \/ HandlerEnds(t)
       \/ \E s \in Signal : Arrive(s) \/ Handle(s)

Spec == Init /\ [][Next]_vars

(* The adapter's code runs on.  The interpreter honours a request to give   *)
(* up the GIL and hands it to every waiting thread in the end, and a signal *)
(* handler ends.  Core is assumed to answer the threads not in Hung only.   *)
Fairness ==
    \A t \in Thread :
       /\ WF_vars(~aborted /\ Adapter(t))
       /\ SF_vars(~aborted /\ Acquire(t))
       /\ SF_vars(~aborted /\ Release(t))
       /\ SF_vars(~aborted /\ Reattach(t))
       /\ SF_vars(~aborted /\ HandlerEnds(t))
       /\ t \notin Hung => WF_vars(~aborted /\ Core(t))

LiveSpec == Spec /\ Fairness

-------------------------------------------------------------------------------
(* The variables have their types. *)
TypeOK ==
    /\ gil \in Thread \cup {NoThread}
    /\ heap \in [Container -> 0 .. MaxChange]
    /\ pending \subseteq Signal
    /\ aborted \in BOOLEAN
    /\ pc \in [Thread -> PC]
    /\ op \in [Thread -> Operation \cup {"none"}]
    /\ read \in [Thread -> SUBSET Container]
    /\ request \in [Thread -> [Container -> 0 .. MaxChange]]
    /\ outcome \in [Thread -> {"none", "value"} \cup Failure]
    /\ fields \in [Thread -> 0 .. Fields]
    /\ answer \in [Thread -> Answer]
    /\ began \in [Thread -> [Container -> 0 .. MaxChange]]
    /\ handled \in [Thread -> SUBSET Signal]
    /\ owed \in [Thread -> SUBSET Signal]
    /\ raised \in [Thread -> BOOLEAN]
    /\ panics \in [Thread -> Nat]

(* Every attached step of the adapter, the unwinding of a panic included,   *)
(* runs in the one thread that holds the GIL; core runs without it.         *)
(* (panic_boundary.rs:38-48, attached_boundary.rs:15-19)                    *)
GilInv ==
    \A t \in Thread :
       /\ pc[t] \in Attached => gil = t
       /\ pc[t] \in {"native", "reattach"} => gil # t

(* Whatever other threads do to the arguments, each container copied into   *)
(* the request is copied as it was when the call began: core works on one   *)
(* moment of the arguments.  (attached_boundary.rs:15-20, conversion.rs)    *)
RequestIsSnapshot ==
    \A t \in Thread, c \in Container : c \in read[t] => request[t][c] = began[t][c]

(* A signal that was pending when the main thread got the GIL back is       *)
(* handled before anything core answered becomes visible, and a handler     *)
(* that raises takes the place of a value or failure already computed.      *)
(* (panic_boundary.rs:43-48)                                                *)
SignalsComeFirst ==
    /\ pc[Main] \in {"map", "return"} /\ ~raised[Main] /\ panics[Main] = 0
          => owed[Main] \subseteq handled[Main]
    /\ \A t \in Thread : raised[t] => answer[t] = "interrupt"

(* A panic on either side of detach ends in boundary: the caller gets a     *)
(* NativeError or, when memory runs out, a MemoryError, never the value or  *)
(* the failure that was being produced.  The process is aborted only when   *)
(* disposal or the NativeError panics in turn.  (panic_boundary.rs:12-36)   *)
PanicsAreContained ==
    /\ \A t \in Thread : panics[t] > 0 => answer[t] \in {"none", "NativeError", "MemoryError"}
    /\ aborted => \E t \in Thread : panics[t] > 1

(* A structured exception is raised with all of its fields or not at all,   *)
(* and a value only when every argument was read and nothing failed.        *)
(* (error.rs:77-104,159-160)                                                *)
AnswersAreWhole ==
    \A t \in Thread :
       /\ answer[t] \in StructuredClass => fields[t] = Fields
       /\ answer[t] = "value" => outcome[t] = "value" /\ read[t] = Reads[op[t]]

(* A call returns, unless core itself never answers it, even while core     *)
(* hangs in another thread.  (panic_boundary.rs:38-48)                      *)
CallsReturn ==
    \A t \in Thread \ Hung : pc[t] = "admit" ~> aborted \/ pc[t] = "python"

-------------------------------------------------------------------------------
(* What a caller may rely on: see AtomicCall. *)
Taken(t, state) == [c \in Reads[op[t]] |-> state[t][c]]

Atomic == INSTANCE AtomicCall WITH
    phase <- [t \in Thread |-> CASE pc[t] = "python" -> "idle"
                                 [] pc[t] = "return" -> "answered"
                                 [] OTHER -> "open"],
    seen <- [t \in Thread |-> IF pc[t] = "python" THEN <<>> ELSE Taken(t, began)],
    result <- [t \in Thread |-> IF answer[t] = "value"
                                 THEN [kind |-> "value", of |-> Taken(t, request)]
                                 ELSE [kind |-> answer[t]]],
    crashed <- aborted

(* Every behaviour of the adapter is one of atomic calls.                   *)
ImplementsAtomicCall == Atomic!Spec
===============================================================================
