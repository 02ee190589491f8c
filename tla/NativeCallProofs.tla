---------------------------- MODULE NativeCallProofs ----------------------------
(***************************************************************************)
(* Theorems about NativeCall for any number of threads, arguments, signals *)
(* and operations.                                                         *)
(***************************************************************************)
EXTENDS NativeCall, TLAPS

(* The inductive invariant.  A call that is admitting its arguments holds   *)
(* the GIL, so nobody has changed the heap since it began.                  *)
HeapUnchanged == \A t \in Thread : pc[t] = "admit" => began[t] = heap

IInv == TypeOK /\ GilInv /\ RequestIsSnapshot /\ HeapUnchanged

(* Every failure has a class of exception (error.rs). *)
LEMMA Classes == \A f \in Failure : Class[f] \in Answer
  BY DEF Class, Failure, Structured, Answer

(* No call is open and nobody is in core at first. *)
LEMMA InitIInv == Init => IInv
<1> SUFFICES ASSUME Init PROVE IInv
  OBVIOUS
<1> USE DEF Init
<1>1. Fresh \in [Container -> 0 .. MaxChange]
  BY NativeCallAssumption DEF Fresh
<1>2. TypeOK
  <2>1. gil \in Thread \cup {NoThread} /\ pending \subseteq Signal /\ aborted \in BOOLEAN
    OBVIOUS
  <2>2. pc \in [Thread -> PC] /\ op \in [Thread -> Operation \cup {"none"}]
    BY DEF PC
  <2>3. /\ read \in [Thread -> SUBSET Container] /\ heap \in [Container -> 0 .. MaxChange]
        /\ request \in [Thread -> [Container -> 0 .. MaxChange]]
        /\ began \in [Thread -> [Container -> 0 .. MaxChange]]
    BY <1>1
  <2>4. /\ outcome \in [Thread -> {"none", "value"} \cup Failure]
        /\ answer \in [Thread -> Answer]
    BY DEF Answer
  <2>5. fields \in [Thread -> 0 .. Fields] /\ panics \in [Thread -> Nat]
    BY NativeCallAssumption
  <2>6. /\ handled \in [Thread -> SUBSET Signal] /\ owed \in [Thread -> SUBSET Signal]
        /\ raised \in [Thread -> BOOLEAN]
    OBVIOUS
  <2> QED BY <2>1, <2>2, <2>3, <2>4, <2>5, <2>6 DEF TypeOK
<1>3. GilInv /\ RequestIsSnapshot /\ HeapUnchanged
  BY DEF GilInv, RequestIsSnapshot, HeapUnchanged, Attached
<1> QED BY <1>2, <1>3 DEF IInv

-------------------------------------------------------------------------------
(* Every step keeps the types. *)
LEMMA TypeStep == TypeOK /\ [Next]_vars => TypeOK'
<1> SUFFICES ASSUME TypeOK, [Next]_vars PROVE TypeOK'
  OBVIOUS
<1> USE NativeCallAssumption, Classes DEF TypeOK, call, history, world, Goto, PC, Answer
<1>1. ASSUME NEW t \in Thread, Acquire(t) \/ Release(t) PROVE TypeOK'
  BY <1>1 DEF Acquire, Release
<1>2. ASSUME NEW t \in Thread, NEW c \in Container, Mutate(t, c) PROVE TypeOK'
  BY <1>2 DEF Mutate
<1>3. ASSUME NEW t \in Thread, NEW o \in Operation, Begin(t, o) PROVE TypeOK'
  BY <1>3 DEF Begin
<1>4. ASSUME NEW t \in Thread, NEW c \in Container, Read(t, c) PROVE TypeOK'
  <2>1. read' \in [Thread -> SUBSET Container]
    BY <1>4 DEF Read
  <2>2. request' \in [Thread -> [Container -> 0 .. MaxChange]]
    <3>1. [request[t] EXCEPT ![c] = heap[c]] \in [Container -> 0 .. MaxChange]
      OBVIOUS
    <3>2. request' = [request EXCEPT ![t] = [request[t] EXCEPT ![c] = heap[c]]]
      BY <1>4 DEF Read
    <3> QED BY <3>1, <3>2
  <2> QED BY <1>4, <2>1, <2>2 DEF Read
<1>5. ASSUME NEW t \in Thread, NEW f \in Failure, Refuse(t, f) \/ ExportFails(t, f)
      PROVE TypeOK'
  <2>1. CASE Refuse(t, f)
    BY <2>1 DEF Refuse
  <2>2. CASE ExportFails(t, f)
    BY <2>2 DEF ExportFails
  <2> QED BY <1>5, <2>1, <2>2
<1>6. ASSUME NEW t \in Thread, Detach(t) \/ StayAttached(t) PROVE TypeOK'
  <2>1. CASE Detach(t)
    BY <2>1 DEF Detach
  <2>2. CASE StayAttached(t)
    <3>1. outcome' \in [Thread -> {"none", "value"} \cup Failure]
      BY <2>2 DEF StayAttached
    <3> QED BY <2>2, <3>1 DEF StayAttached
  <2> QED BY <1>6, <2>1, <2>2
<1>7. ASSUME NEW t \in Thread, NEW result \in {"value"} \cup Failure, Finish(t, result)
      PROVE TypeOK'
  BY <1>7 DEF Finish
<1>8. ASSUME NEW t \in Thread, PanicDetached(t) PROVE TypeOK'
  BY <1>8 DEF PanicDetached, Failure, Structured
<1>9. ASSUME NEW t \in Thread, Reattach(t) PROVE TypeOK'
  BY <1>9 DEF Reattach
<1>10. ASSUME NEW t \in Thread, NEW s \in Signal, RunHandler(t, s) PROVE TypeOK'
  BY <1>10 DEF RunHandler
<1>11. ASSUME NEW t \in Thread, HandlerReturns(t) \/ HandlerRaises(t) \/ NoSignalDue(t)
       PROVE TypeOK'
  BY <1>11 DEF HandlerReturns, HandlerRaises, NoSignalDue
<1>12. ASSUME NEW t \in Thread, Publish(t) \/ RaisePlain(t) \/ RaiseStructured(t)
       PROVE TypeOK'
  <2>1. CASE Publish(t)
    BY <2>1 DEF Publish
  <2>2. CASE RaisePlain(t) \/ RaiseStructured(t)
    <3>1. outcome[t] \in Failure
      BY <2>2 DEF RaisePlain, RaiseStructured, Failure
    <3>2. Class[outcome[t]] \in Answer
      BY <3>1, Classes
    <3>3. /\ answer' = [answer EXCEPT ![t] = Class[outcome[t]]]
          /\ pc' = [pc EXCEPT ![t] = "return"]
          /\ UNCHANGED <<gil, outcome, fields, op, read, request, began, handled, owed,
                         raised, panics, heap, pending, aborted>>
      BY <2>2 DEF RaisePlain, RaiseStructured
    <3> HIDE DEF Answer
    <3> QED BY <3>2, <3>3
  <2> QED BY <1>12, <2>1, <2>2
<1>13. ASSUME NEW t \in Thread, SetField(t) PROVE TypeOK'
  <2>1. fields' \in [Thread -> 0 .. Fields]
    <3>1. fields[t] < Fields => fields[t] + 1 \in 0 .. Fields
      OBVIOUS
    <3> QED BY <1>13, <3>1 DEF SetField
  <2>2. outcome' \in [Thread -> {"none", "value"} \cup Failure]
    BY <1>13 DEF SetField, Failure
  <2> QED BY <1>13, <2>1, <2>2 DEF SetField
<1>14. ASSUME NEW t \in Thread, PanicAttached(t) PROVE TypeOK'
  <2>1. panics' \in [Thread -> Nat]
    <3>1. panics[t] + 1 \in Nat
      OBVIOUS
    <3> QED BY <1>14, <3>1 DEF PanicAttached
  <2>2. pc' \in [Thread -> PC] /\ aborted' \in BOOLEAN
    BY <1>14 DEF PanicAttached
  <2> QED BY <1>14, <2>1, <2>2 DEF PanicAttached
<1>15. ASSUME NEW t \in Thread, Dispose(t) \/ DisposePanics(t) PROVE TypeOK'
  <2>1. CASE Dispose(t)
    <3>1. outcome' \in [Thread -> {"none", "value"} \cup Failure]
      BY <2>1 DEF Dispose, Failure, Structured
    <3>2. fields' \in [Thread -> 0 .. Fields] /\ pc' \in [Thread -> PC]
      BY <2>1 DEF Dispose
    <3> QED BY <2>1, <3>1, <3>2 DEF Dispose
  <2>2. CASE DisposePanics(t)
    <3>1. panics' \in [Thread -> Nat]
      BY <2>2 DEF DisposePanics
    <3> QED BY <2>2, <3>1 DEF DisposePanics
  <2> QED BY <1>15, <2>1, <2>2
<1>16. ASSUME NEW t \in Thread, Return(t) PROVE TypeOK'
  BY <1>16 DEF Return, Fresh
<1>17. ASSUME NEW s \in Signal, Arrive(s) \/ Handle(s) PROVE TypeOK'
  <2>1. CASE Arrive(s)
    BY <2>1 DEF Arrive
  <2>2. CASE Handle(s)
    <3>1. handled' \in [Thread -> SUBSET Signal]
      <4>1. handled[Main] \cup {s} \in SUBSET Signal
        OBVIOUS
      <4>2. handled' = handled \/ handled' = [handled EXCEPT ![Main] = handled[Main] \cup {s}]
        BY <2>2 DEF Handle
      <4> QED BY <4>1, <4>2
    <3> QED BY <2>2, <3>1 DEF Handle
  <2> QED BY <1>17, <2>1, <2>2
<1>18. CASE UNCHANGED vars
  BY <1>18 DEF vars
<1> QED
  BY <1>1, <1>2, <1>3, <1>4, <1>5, <1>6, <1>7, <1>8, <1>9, <1>10, <1>11, <1>12, <1>13,
     <1>14, <1>15, <1>16, <1>17, <1>18 DEF Next, Adapter, Core, HandlerEnds

-------------------------------------------------------------------------------
(* The steps that leave one thread attached, or take it there, keep the     *)
(* other threads where they were.                                           *)
LEMMA GilStep == TypeOK /\ GilInv /\ [Next]_vars => GilInv'
<1> SUFFICES ASSUME TypeOK, GilInv, [Next]_vars PROVE GilInv'
  OBVIOUS
<1> USE NativeCallAssumption DEF GilInv, Attached, Interpreted, Goto, call, history, world
<1>0. pc \in [Thread -> PC] /\ gil \in Thread \cup {NoThread}
  BY DEF TypeOK
<1>1. ASSUME NEW t \in Thread, Acquire(t) \/ Release(t) PROVE GilInv'
  BY <1>0, <1>1 DEF Acquire, Release
<1>2. ASSUME NEW t \in Thread, NEW c \in Container, Mutate(t, c) \/ Read(t, c) PROVE GilInv'
  BY <1>0, <1>2 DEF Mutate, Read
<1>3. ASSUME NEW t \in Thread, NEW o \in Operation, Begin(t, o) PROVE GilInv'
  BY <1>0, <1>3 DEF Begin
<1>4. ASSUME NEW t \in Thread, NEW f \in Failure, Refuse(t, f) PROVE GilInv'
  BY <1>0, <1>4 DEF Refuse
<1>5. ASSUME NEW t \in Thread, NEW f \in Failure, ExportFails(t, f) PROVE GilInv'
  BY <1>0, <1>5 DEF ExportFails
<1>6. ASSUME NEW t \in Thread, Detach(t) PROVE GilInv'
  BY <1>0, <1>6 DEF Detach
<1>7. ASSUME NEW t \in Thread, StayAttached(t) PROVE GilInv'
  BY <1>0, <1>7 DEF StayAttached
<1>8. ASSUME NEW t \in Thread, NEW result \in {"value"} \cup Failure,
             Finish(t, result) \/ PanicDetached(t)
      PROVE GilInv'
  BY <1>0, <1>8 DEF Finish, PanicDetached
<1>9. ASSUME NEW t \in Thread, Reattach(t) PROVE GilInv'
  BY <1>0, <1>9 DEF Reattach
<1>10. ASSUME NEW t \in Thread, NEW s \in Signal, RunHandler(t, s) PROVE GilInv'
  BY <1>0, <1>10 DEF RunHandler
<1>11. ASSUME NEW t \in Thread, HandlerReturns(t) \/ HandlerRaises(t) PROVE GilInv'
  BY <1>0, <1>11 DEF HandlerReturns, HandlerRaises
<1>12. ASSUME NEW t \in Thread, NoSignalDue(t) PROVE GilInv'
  BY <1>0, <1>12 DEF NoSignalDue
<1>13. ASSUME NEW t \in Thread, Publish(t) \/ RaisePlain(t) \/ RaiseStructured(t)
       PROVE GilInv'
  BY <1>0, <1>13 DEF Publish, RaisePlain, RaiseStructured
<1>14. ASSUME NEW t \in Thread, SetField(t) \/ PanicAttached(t) PROVE GilInv'
  BY <1>0, <1>14 DEF SetField, PanicAttached
<1>15. ASSUME NEW t \in Thread, Dispose(t) \/ DisposePanics(t) PROVE GilInv'
  BY <1>0, <1>15 DEF Dispose, DisposePanics
<1>16. ASSUME NEW t \in Thread, Return(t) PROVE GilInv'
  BY <1>0, <1>16 DEF Return
<1>17. ASSUME NEW s \in Signal, Arrive(s) \/ Handle(s) PROVE GilInv'
  BY <1>17 DEF Arrive, Handle
<1>18. CASE UNCHANGED vars
  BY <1>18 DEF vars
<1> QED
  BY <1>1, <1>2, <1>3, <1>4, <1>5, <1>6, <1>7, <1>8, <1>9, <1>10, <1>11, <1>12, <1>13,
     <1>14, <1>15, <1>16, <1>17, <1>18 DEF Next, Adapter, Core, HandlerEnds

(* Only interpreted code changes the heap, and it holds the GIL that an     *)
(* admitting thread would hold.                                             *)
LEMMA SnapshotStep ==
    IInv /\ [Next]_vars => RequestIsSnapshot' /\ HeapUnchanged'
<1> SUFFICES ASSUME IInv, [Next]_vars PROVE RequestIsSnapshot' /\ HeapUnchanged'
  OBVIOUS
<1> USE NativeCallAssumption DEF IInv, RequestIsSnapshot, HeapUnchanged, Goto, call, history, world
<1>0. /\ pc \in [Thread -> PC] /\ read \in [Thread -> SUBSET Container]
      /\ request \in [Thread -> [Container -> 0 .. MaxChange]]
      /\ began \in [Thread -> [Container -> 0 .. MaxChange]]
      /\ heap \in [Container -> 0 .. MaxChange]
  BY DEF TypeOK
<1> DEFINE Goal == RequestIsSnapshot' /\ HeapUnchanged'
           Quiet(t, to) == /\ UNCHANGED <<read, request, began, heap>>
                           /\ pc' = [pc EXCEPT ![t] = to]
<1>1. ASSUME NEW t \in Thread, NEW to \in PC \ {"admit"}, Quiet(t, to) PROVE Goal
  BY <1>0, <1>1
<1>2. ASSUME UNCHANGED <<read, request, began, heap, pc>> PROVE Goal
  BY <1>2
<1>3. ASSUME NEW t \in Thread, Acquire(t) \/ Release(t) \/ SetField(t) \/ DisposePanics(t)
      PROVE Goal
  <2>1. UNCHANGED <<read, request, began, heap, pc>>
    BY <1>3 DEF Acquire, Release, SetField, DisposePanics
  <2> QED BY <1>2, <2>1
<1>4. ASSUME NEW t \in Thread, NEW c \in Container, Mutate(t, c) PROVE Goal
  <2>1. \A u \in Thread : pc[u] # "admit"
    BY <1>4 DEF Mutate, GilInv, Interpreted, Attached
  <2> QED BY <1>4, <2>1 DEF Mutate
<1>5. ASSUME NEW t \in Thread, NEW o \in Operation, Begin(t, o) PROVE Goal
  BY <1>0, <1>5 DEF Begin
<1>6. ASSUME NEW t \in Thread, NEW c \in Container, Read(t, c) PROVE Goal
  <2>1. request' = [request EXCEPT ![t] = [request[t] EXCEPT ![c] = heap[c]]]
    BY <1>6 DEF Read
  <2>2. /\ pc[t] = "admit" /\ began[t] = heap
        /\ read' = [read EXCEPT ![t] = read[t] \cup {c}]
        /\ UNCHANGED <<pc, began, heap>>
    BY <1>6 DEF Read
  <2>3. \A u \in Thread, d \in Container : d \in read'[u] => request'[u][d] = began'[u][d]
    <3> TAKE u \in Thread, d \in Container
    <3>1. CASE u = t
      BY <1>0, <2>1, <2>2, <3>1
    <3>2. CASE u # t
      BY <1>0, <2>1, <2>2, <3>2
    <3> QED BY <3>1, <3>2
  <2> QED BY <2>2, <2>3
<1>7. ASSUME NEW t \in Thread, NEW f \in Failure, Refuse(t, f) PROVE Goal
  BY <1>1, <1>7 DEF Refuse, PC
<1>8. ASSUME NEW t \in Thread, NEW f \in Failure, ExportFails(t, f) PROVE Goal
  BY <1>2, <1>8 DEF ExportFails
<1>9. ASSUME NEW t \in Thread, Detach(t) PROVE Goal
  BY <1>1, <1>9 DEF Detach, PC
<1>10. ASSUME NEW t \in Thread, StayAttached(t) PROVE Goal
  BY <1>1, <1>10 DEF StayAttached, PC
<1>11. ASSUME NEW t \in Thread, NEW result \in {"value"} \cup Failure, Finish(t, result)
       PROVE Goal
  BY <1>1, <1>11 DEF Finish, PC
<1>12. ASSUME NEW t \in Thread, PanicDetached(t) PROVE Goal
  BY <1>1, <1>12 DEF PanicDetached, PC
<1>13. ASSUME NEW t \in Thread, Reattach(t) PROVE Goal
  BY <1>1, <1>13 DEF Reattach, PC
<1>14. ASSUME NEW t \in Thread, NEW s \in Signal, RunHandler(t, s) PROVE Goal
  BY <1>1, <1>14 DEF RunHandler, PC
<1>15. ASSUME NEW t \in Thread, HandlerReturns(t) \/ HandlerRaises(t) \/ NoSignalDue(t)
       PROVE Goal
  BY <1>1, <1>15 DEF HandlerReturns, HandlerRaises, NoSignalDue, PC
<1>16. ASSUME NEW t \in Thread, Publish(t) \/ RaisePlain(t) \/ RaiseStructured(t)
       PROVE Goal
  BY <1>1, <1>16 DEF Publish, RaisePlain, RaiseStructured, PC
<1>17. ASSUME NEW t \in Thread, PanicAttached(t) PROVE Goal
  BY <1>1, <1>2, <1>17 DEF PanicAttached, PC
<1>18. ASSUME NEW t \in Thread, Dispose(t) PROVE Goal
  BY <1>1, <1>18 DEF Dispose, PC
<1>19. ASSUME NEW t \in Thread, Return(t) PROVE Goal
  BY <1>0, <1>19 DEF Return
<1>20. ASSUME NEW s \in Signal, Arrive(s) \/ Handle(s) PROVE Goal
  BY <1>2, <1>20 DEF Arrive, Handle
<1>21. CASE UNCHANGED vars
  BY <1>2, <1>21 DEF vars
<1> QED
  BY <1>3, <1>4, <1>5, <1>6, <1>7, <1>8, <1>9, <1>10, <1>11, <1>12, <1>13, <1>14, <1>15,
     <1>16, <1>17, <1>18, <1>19, <1>20, <1>21 DEF Next, Adapter, Core, HandlerEnds

(* The invariant holds in every state. *)
THEOREM Invariance == Spec => []IInv
<1>1. IInv /\ [Next]_vars => IInv'
  BY TypeStep, GilStep, SnapshotStep DEF IInv
<1> QED BY InitIInv, <1>1, PTL DEF Spec

(* The variables keep their types, for any number of threads. *)
THEOREM TypeCorrect == Spec => []TypeOK
  BY Invariance, PTL DEF IInv

(* Attached code and unwinding run under the GIL and core without it,       *)
(* though no attached step tests for it.  (panic_boundary.rs:38-48)         *)
THEOREM GilCorrect == Spec => []GilInv
  BY Invariance, PTL DEF IInv

(* Core works on the arguments as they were when the call began, whatever   *)
(* other threads and signal handlers do.  (attached_boundary.rs:15-20)      *)
THEOREM SnapshotCorrect == Spec => []RequestIsSnapshot
  BY Invariance, PTL DEF IInv

-------------------------------------------------------------------------------
(* Calls.  In these places nothing has been answered to the call yet. *)
Unanswered == {"python", "admit", "native"}

(* What is true of a call at each place of it: where there is an outcome,   *)
(* where signals are owed, and where a panic can have been.                 *)
CallInv(t) ==
    /\ answer[t] # "none" => pc[t] = "return"
    /\ pc[t] \in Unanswered => outcome[t] = "none"
    /\ pc[t] \in Unanswered \cup {"reattach"} => owed[t] = {}
    /\ pc[t] = "native" \/ outcome[t] = "value" => read[t] = Reads[op[t]]
    /\ outcome[t] = "Panic" \/ pc[t] = "unwind" => panics[t] > 0
    /\ panics[t] > 0 => pc[t] \in {"reattach", "unwind", "map", "return"}
    /\ panics[t] > 0 /\ pc[t] = "reattach" => outcome[t] = "Panic"
    /\ panics[t] > 0 /\ pc[t] = "map" => outcome[t] \in {"Panic", "Memory"}

Whole(t) ==
    /\ answer[t] \in StructuredClass => fields[t] = Fields
    /\ answer[t] = "value" => outcome[t] = "value" /\ read[t] = Reads[op[t]]

Contained(t) == panics[t] > 0 => answer[t] \in {"none", "NativeError", "MemoryError"}

Raised(t) == raised[t] => answer[t] = "interrupt"

Local(t) == CallInv(t) /\ Whole(t) /\ Contained(t) /\ Raised(t)

(* The classes of exceptions by their names. *)
LEMMA ClassNames ==
    /\ Class["Core"] = "CoreError" /\ Class["Decode"] = "DecodeError"
    /\ Class["Export"] = "SerializationError" /\ Class["Panic"] = "NativeError"
    /\ Class["Argument"] = "BuiltinError" /\ Class["Memory"] = "MemoryError"
    /\ StructuredClass = {"CoreError", "DecodeError", "SerializationError", "NativeError"}
<1>1. /\ Class["Core"] = "CoreError" /\ Class["Decode"] = "DecodeError"
      /\ Class["Export"] = "SerializationError" /\ Class["Panic"] = "NativeError"
      /\ Class["Argument"] = "BuiltinError" /\ Class["Memory"] = "MemoryError"
  BY DEF Class, Failure, Structured
<1> QED BY <1>1 DEF StructuredClass, Structured

Same(u) == /\ pc'[u] = pc[u] /\ answer'[u] = answer[u] /\ outcome'[u] = outcome[u]
           /\ owed'[u] = owed[u] /\ read'[u] = read[u] /\ op'[u] = op[u]
           /\ panics'[u] = panics[u] /\ fields'[u] = fields[u] /\ raised'[u] = raised[u]
           /\ request'[u] = request[u] /\ began'[u] = began[u]

(* A call that nothing happens to is as it was. *)
LEMMA SameLocal == ASSUME NEW u, Local(u), Same(u) PROVE Local(u)'
  BY DEF Local, CallInv, Whole, Contained, Raised, Same

(* A step of an open call, or the one that opens it. *)
InCall(t) ==
    \/ Adapter(t) \/ Core(t) \/ Reattach(t) \/ HandlerEnds(t)
    \/ \E o \in Operation : Begin(t, o)

(* What a thread does in its call is done to no other call. *)
LEMMA Elsewhere ==
    ASSUME TypeOK, NEW t \in Thread, NEW u \in Thread, u # t,
           InCall(t)
    PROVE  Same(u)
<1> USE DEF TypeOK, Same, Goto, call, history, world
<1>1. CASE \E o \in Operation : Begin(t, o)
  BY <1>1 DEF Begin
<1>2. CASE \E c \in Container : Read(t, c)
  BY <1>2 DEF Read
<1>3. CASE \E f \in Failure : Refuse(t, f)
  BY <1>3 DEF Refuse
<1>4. CASE \E f \in Failure : ExportFails(t, f)
  BY <1>4 DEF ExportFails
<1>5. CASE Detach(t)
  BY <1>5 DEF Detach
<1>6. CASE StayAttached(t)
  BY <1>6 DEF StayAttached
<1>7. CASE \E result \in {"value"} \cup Failure : Finish(t, result)
  BY <1>7 DEF Finish
<1>8. CASE PanicDetached(t)
  BY <1>8 DEF PanicDetached
<1>9. CASE Reattach(t)
  BY <1>9 DEF Reattach
<1>10. CASE \E s \in Signal : RunHandler(t, s)
  BY <1>10 DEF RunHandler
<1>11. CASE HandlerReturns(t)
  BY <1>11 DEF HandlerReturns
<1>12. CASE NoSignalDue(t)
  BY <1>12 DEF NoSignalDue
<1>13. CASE HandlerRaises(t)
  BY <1>13 DEF HandlerRaises
<1>14. CASE Publish(t)
  BY <1>14 DEF Publish
<1>15. CASE RaisePlain(t)
  BY <1>15 DEF RaisePlain
<1>16. CASE RaiseStructured(t)
  BY <1>16 DEF RaiseStructured
<1>17. CASE SetField(t)
  BY <1>17 DEF SetField
<1>18. CASE PanicAttached(t)
  BY <1>18 DEF PanicAttached
<1>19. CASE Dispose(t)
  BY <1>19 DEF Dispose
<1>20. CASE DisposePanics(t)
  BY <1>20 DEF DisposePanics
<1>21. CASE Return(t)
  BY <1>21 DEF Return
<1> QED
  BY <1>1, <1>2, <1>3, <1>4, <1>5, <1>6, <1>7, <1>8, <1>9, <1>10, <1>11, <1>12, <1>13,
     <1>14, <1>15, <1>16, <1>17, <1>18, <1>19, <1>20, <1>21 DEF InCall, Adapter, Core, HandlerEnds

(* Each step keeps what is said of calls. *)
LEMMA LocalStep ==
    TypeOK /\ (\A u \in Thread : Local(u)) /\ [Next]_vars => \A u \in Thread : Local(u)'
<1> SUFFICES ASSUME TypeOK, \A u \in Thread : Local(u), [Next]_vars, NEW u \in Thread
             PROVE  Local(u)'
  OBVIOUS
<1> USE NativeCallAssumption
    DEF Goto, call, history, world, Unanswered, Interpreted, Local, CallInv, Whole, Contained, Raised
<1>0. /\ pc \in [Thread -> PC] /\ op \in [Thread -> Operation \cup {"none"}]
      /\ read \in [Thread -> SUBSET Container] /\ owed \in [Thread -> SUBSET Signal]
      /\ outcome \in [Thread -> {"none", "value"} \cup Failure]
      /\ fields \in [Thread -> 0 .. Fields] /\ answer \in [Thread -> Answer]
      /\ raised \in [Thread -> BOOLEAN] /\ panics \in [Thread -> Nat]
  BY DEF TypeOK
<1>1. Local(u)
  OBVIOUS
<1>2. CASE Same(u)
  BY <1>1, <1>2, SameLocal
<1>3. CASE \E o \in Operation : Begin(u, o)
  BY <1>0, <1>1, <1>3 DEF Begin
<1>4. CASE \E c \in Container : Read(u, c)
  BY <1>0, <1>1, <1>4 DEF Read
<1>5. CASE \E f \in Failure : Refuse(u, f)
  BY <1>0, <1>1, <1>5 DEF Refuse
<1>6. CASE \E f \in Failure : ExportFails(u, f)
  BY <1>0, <1>1, <1>6 DEF ExportFails
<1>7. CASE Detach(u)
  BY <1>0, <1>1, <1>7 DEF Detach
<1>8. CASE StayAttached(u)
  BY <1>0, <1>1, <1>8 DEF StayAttached
<1>9. CASE \E result \in {"value"} \cup Failure : Finish(u, result)
  BY <1>0, <1>1, <1>9 DEF Finish
<1>10. CASE PanicDetached(u)
  BY <1>0, <1>1, <1>10 DEF PanicDetached
<1>11. CASE Reattach(u)
  BY <1>0, <1>1, <1>11 DEF Reattach
<1>12. CASE \E s \in Signal : RunHandler(u, s)
  BY <1>0, <1>1, <1>12 DEF RunHandler
<1>13. CASE HandlerReturns(u)
  BY <1>0, <1>1, <1>13 DEF HandlerReturns
<1>14. CASE NoSignalDue(u)
  BY <1>0, <1>1, <1>14 DEF NoSignalDue
<1>15. CASE HandlerRaises(u)
  BY <1>0, <1>1, <1>15, ClassNames DEF HandlerRaises
<1>16. CASE Publish(u)
  BY <1>0, <1>1, <1>16, ClassNames DEF Publish
<1>17. CASE RaisePlain(u)
  BY <1>0, <1>1, <1>17, ClassNames DEF RaisePlain, Failure, Structured
<1>18. CASE RaiseStructured(u)
  BY <1>0, <1>1, <1>18, ClassNames DEF RaiseStructured, Structured
<1>19. CASE SetField(u)
  BY <1>0, <1>1, <1>19, ClassNames DEF SetField
<1>20. CASE PanicAttached(u)
  BY <1>0, <1>1, <1>20 DEF PanicAttached
<1>21. CASE Dispose(u)
  BY <1>0, <1>1, <1>21, ClassNames DEF Dispose
<1>22. CASE DisposePanics(u)
  BY <1>0, <1>1, <1>22 DEF DisposePanics
<1>23. CASE Return(u)
  BY <1>0, <1>1, <1>23, ClassNames DEF Return
<1>24. CASE \E t \in Thread : \/ Acquire(t) \/ Release(t)
                             \/ \E c \in Container : Mutate(t, c)
  <2>1. Same(u)
    BY <1>24 DEF Acquire, Release, Mutate, Same
  <2> QED BY <1>2, <2>1
<1>25. CASE \E s \in Signal : Arrive(s) \/ Handle(s)
  <2>1. Same(u)
    BY <1>25 DEF Arrive, Handle, Same
  <2> QED BY <1>2, <2>1
<1>26. CASE UNCHANGED vars
  <2>1. Same(u)
    BY <1>26 DEF vars, Same
  <2> QED BY <1>2, <2>1
<1>27. ASSUME NEW t \in Thread \ {u}, InCall(t) PROVE Local(u)'
  BY <1>2, <1>27, Elsewhere
<1> HIDE DEF Local
<1>28. CASE InCall(u)
  BY <1>28, <1>3, <1>4, <1>5, <1>6, <1>7, <1>8, <1>9, <1>10, <1>11, <1>12, <1>13,
     <1>14, <1>15, <1>16, <1>17, <1>18, <1>19, <1>20, <1>21, <1>22, <1>23
     DEF InCall, Adapter, Core, HandlerEnds
<1> QED
  <2>1. \/ \E t \in Thread : \/ Acquire(t) \/ Release(t)
                          \/ \E c \in Container : Mutate(t, c)
        \/ \E t \in Thread : InCall(t)
        \/ \E s \in Signal : Arrive(s) \/ Handle(s)
        \/ UNCHANGED vars
    BY DEF Next, InCall
  <2>2. CASE \E t \in Thread : InCall(t)
    BY <1>27, <1>28, <2>2
  <2> QED BY <1>24, <1>25, <1>26, <2>1, <2>2

(* Between taking the GIL back and the answer, what the main thread owes is *)
(* still pending or has been handled.                                       *)
Owing ==
    /\ pc[Main] \in {"signals", "handler"} => owed[Main] \subseteq pending \cup handled[Main]
    /\ pc[Main] \in {"map", "return"} /\ ~raised[Main] /\ panics[Main] = 0
          => owed[Main] \subseteq handled[Main]

(* A handler runs only what is pending, and check_signals ends when nothing *)
(* owed is.                                                                 *)
LEMMA OwingStep ==
    TypeOK /\ (\A u \in Thread : Local(u)) /\ Owing /\ [Next]_vars => Owing'
<1> SUFFICES ASSUME TypeOK, \A u \in Thread : Local(u), Owing, [Next]_vars
             PROVE  Owing'
  OBVIOUS
<1> USE NativeCallAssumption DEF Owing, Goto, call, history, world
<1> DEFINE Kept == /\ pc'[Main] = pc[Main] /\ owed'[Main] = owed[Main]
                   /\ handled'[Main] = handled[Main] /\ raised'[Main] = raised[Main]
                   /\ panics'[Main] = panics[Main]
<1>0. /\ pc \in [Thread -> PC] /\ owed \in [Thread -> SUBSET Signal]
      /\ handled \in [Thread -> SUBSET Signal] /\ panics \in [Thread -> Nat]
      /\ raised \in [Thread -> BOOLEAN] /\ pending \subseteq Signal
  BY DEF TypeOK
<1>1. CallInv(Main)
  BY DEF Local
<1>2. CASE Kept /\ pending \subseteq pending'
  BY <1>2
<1>3. CASE \E t \in Thread : \/ Acquire(t) \/ Release(t)
                             \/ \E c \in Container : Mutate(t, c)
  BY <1>2, <1>3 DEF Acquire, Release, Mutate
<1>4. CASE \E s \in Signal : Arrive(s)
  BY <1>2, <1>4 DEF Arrive
<1>5. CASE \E s \in Signal : Handle(s)
  BY <1>0, <1>5 DEF Handle, Interpreted
<1>6. CASE UNCHANGED vars
  BY <1>2, <1>6 DEF vars
<1>7. ASSUME NEW t \in Thread \ {Main}, InCall(t) PROVE Owing'
  <2>1. ASSUME NEW s \in Signal PROVE ~RunHandler(t, s)
    BY DEF RunHandler
  <2>2. pending' = pending /\ handled'[Main] = handled[Main]
    BY <1>0, <1>7, <2>1
       DEF InCall, Adapter, Core, HandlerEnds, Begin, Read, Refuse, ExportFails, Detach,
           StayAttached, Finish, PanicDetached, Reattach, HandlerReturns, NoSignalDue,
           HandlerRaises, Publish, RaisePlain, SetField, RaiseStructured, PanicAttached,
           Dispose, DisposePanics, Return
  <2>3. Same(Main)
    BY <1>7, Elsewhere
  <2> QED BY <1>2, <2>2, <2>3 DEF Same
<1>8. CASE \E o \in Operation : Begin(Main, o)
  BY <1>0, <1>8 DEF Begin
<1>9. CASE \E c \in Container : Read(Main, c)
  BY <1>2, <1>9 DEF Read
<1>10. CASE \E f \in Failure : Refuse(Main, f)
  BY <1>0, <1>1, <1>10 DEF Refuse, CallInv, Unanswered
<1>11. CASE \E f \in Failure : ExportFails(Main, f)
  BY <1>2, <1>11 DEF ExportFails
<1>12. CASE Detach(Main)
  BY <1>0, <1>12 DEF Detach
<1>13. CASE StayAttached(Main)
  BY <1>0, <1>1, <1>13 DEF StayAttached, CallInv, Unanswered
<1>14. CASE \E s \in Signal : RunHandler(Main, s)
  BY <1>0, <1>14 DEF RunHandler
<1>15. CASE HandlerReturns(Main)
  BY <1>0, <1>15 DEF HandlerReturns
<1>16. CASE NoSignalDue(Main)
  BY <1>0, <1>16 DEF NoSignalDue
<1>17. CASE HandlerRaises(Main)
  BY <1>0, <1>17 DEF HandlerRaises
<1>18. CASE Publish(Main) \/ RaisePlain(Main) \/ RaiseStructured(Main)
  BY <1>0, <1>18 DEF Publish, RaisePlain, RaiseStructured
<1>19. CASE SetField(Main)
  BY <1>2, <1>19 DEF SetField
<1>20. CASE PanicAttached(Main)
  BY <1>0, <1>20 DEF PanicAttached
<1>21. CASE Dispose(Main)
  BY <1>0, <1>1, <1>21 DEF Dispose, CallInv
<1>22. CASE DisposePanics(Main)
  BY <1>0, <1>22 DEF DisposePanics
<1>23. CASE Return(Main)
  BY <1>0, <1>23 DEF Return
<1>24. CASE PanicDetached(Main) \/ \E result \in {"value"} \cup Failure : Finish(Main, result)
  BY <1>0, <1>24 DEF PanicDetached, Finish
<1>25. CASE Reattach(Main)
  BY <1>0, <1>25 DEF Reattach
<1> QED
  <2>1. \/ \E t \in Thread : \/ Acquire(t) \/ Release(t)
                          \/ \E c \in Container : Mutate(t, c)
        \/ \E t \in Thread : InCall(t)
        \/ \E s \in Signal : Arrive(s) \/ Handle(s)
        \/ UNCHANGED vars
    BY DEF Next, InCall
  <2>2. CASE InCall(Main)
    BY <1>8, <1>9, <1>10, <1>11, <1>12, <1>13, <1>14, <1>15, <1>16, <1>17, <1>18, <1>19,
       <1>20, <1>21, <1>22, <1>23, <1>24, <1>25, <2>2 DEF InCall, Adapter, Core, HandlerEnds
  <2>3. CASE \E t \in Thread : InCall(t)
    BY <1>7, <2>2, <2>3
  <2> QED BY <1>3, <1>4, <1>5, <1>6, <2>1, <2>3

(* The process aborts when a panic is met by another. *)
AbortedByTwo == aborted => \E t \in Thread : panics[t] > 1

(* Only dispose and the building of an exception can meet a second panic. *)
LEMMA AbortStep ==
    TypeOK /\ (\A u \in Thread : Local(u)) /\ AbortedByTwo /\ [Next]_vars => AbortedByTwo'
<1> SUFFICES ASSUME TypeOK, \A u \in Thread : Local(u), AbortedByTwo, [Next]_vars, aborted'
             PROVE  \E t \in Thread : panics'[t] > 1
  BY DEF AbortedByTwo
<1>1. CASE UNCHANGED vars
  BY <1>1 DEF vars, AbortedByTwo
<1>2. CASE Next
  <2>1. \E t \in Thread : PanicAttached(t) \/ DisposePanics(t)
    <3> SUFFICES ASSUME \A t \in Thread : ~PanicAttached(t) /\ ~DisposePanics(t)
                 PROVE  aborted' = aborted
      BY <1>2 DEF Next
    <3>1. ASSUME NEW t \in Thread, Adapter(t) PROVE aborted' = aborted
      BY <3>1 DEF Adapter, world, Read, Refuse, ExportFails, Detach, StayAttached, RunHandler,
                  NoSignalDue, Publish, RaisePlain, SetField, RaiseStructured, Dispose, Return
    <3>2. ASSUME NEW t \in Thread, Core(t) \/ HandlerEnds(t) \/ Reattach(t)
          PROVE  aborted' = aborted
      BY <3>2 DEF Core, HandlerEnds, world, Finish, PanicDetached, Reattach, HandlerReturns,
                  HandlerRaises
    <3>3. ASSUME NEW t \in Thread,
                 \/ Acquire(t) \/ Release(t) \/ \E c \in Container : Mutate(t, c)
                 \/ \E o \in Operation : Begin(t, o)
          PROVE  aborted' = aborted
      BY <3>3 DEF world, Acquire, Release, Mutate, Begin
    <3>4. ASSUME NEW s \in Signal, Arrive(s) \/ Handle(s) PROVE aborted' = aborted
      BY <3>4 DEF Arrive, Handle
    <3> QED BY <1>2, <3>1, <3>2, <3>3, <3>4 DEF Next
  <2>2. PICK t \in Thread : PanicAttached(t) \/ DisposePanics(t)
    BY <2>1
  <2>3. panics \in [Thread -> Nat] /\ panics'[t] = panics[t] + 1
    <3>1. panics \in [Thread -> Nat]
      BY DEF TypeOK
    <3>2. CASE PanicAttached(t)
      BY <3>1, <3>2 DEF PanicAttached
    <3>3. CASE DisposePanics(t)
      BY <3>1, <3>3 DEF DisposePanics
    <3> QED BY <2>2, <3>1, <3>2, <3>3
  <2>4. panics[t] > 0
    <3>1. aborted' # aborted
      BY <1>2 DEF Next
    <3>2. CASE PanicAttached(t)
      <4>1. panics[t] # 0
        BY <3>1, <3>2, Zenon DEF PanicAttached
      <4> QED BY <2>3, <4>1
    <3>3. CASE DisposePanics(t)
      BY <3>3 DEF DisposePanics, Local, CallInv
    <3> QED BY <2>2, <3>2, <3>3
  <2> QED BY <2>3, <2>4
<1> QED BY <1>1, <1>2

(* All that is said of calls, as one inductive invariant (with TypeOK). *)
CallsInv == (\A u \in Thread : Local(u)) /\ Owing /\ AbortedByTwo

(* What is said of calls holds of every state. *)
THEOREM CallsInvariance == Spec => []CallsInv
<1>1. Init => CallsInv
  <2> SUFFICES ASSUME Init PROVE CallsInv
    OBVIOUS
  <2>1. ASSUME NEW u \in Thread PROVE Local(u)
    BY <2>1, ClassNames
       DEF Init, Local, CallInv, Whole, Contained, Raised, Unanswered
  <2>2. Owing /\ AbortedByTwo
    BY NativeCallAssumption DEF Init, Owing, AbortedByTwo
  <2> QED BY <2>1, <2>2 DEF CallsInv
<1>2. TypeOK /\ CallsInv /\ [Next]_vars => CallsInv'
  BY LocalStep, OwingStep, AbortStep DEF CallsInv
<1> QED BY <1>1, <1>2, TypeCorrect, PTL DEF Spec

(* Signals that were pending when the main thread got the GIL back are      *)
(* handled before its answer, and a handler that raises is the answer, for  *)
(* any number of signals.  (panic_boundary.rs:43-48)                        *)
THEOREM SignalsCorrect == Spec => []SignalsComeFirst
<1>1. CallsInv => SignalsComeFirst
  BY NativeCallAssumption DEF CallsInv, Owing, SignalsComeFirst, Local, Raised
<1> QED BY <1>1, CallsInvariance, PTL

(* A panic becomes a NativeError or a MemoryError, and the process is       *)
(* aborted only by a panic within a panic, in any number of threads.        *)
(* (panic_boundary.rs:12-36)                                                *)
THEOREM PanicsCorrect == Spec => []PanicsAreContained
<1>1. CallsInv => PanicsAreContained
  BY DEF CallsInv, AbortedByTwo, PanicsAreContained, Local, Contained
<1> QED BY <1>1, CallsInvariance, PTL

(* An exception has all its fields, however many there are, and a value is  *)
(* made of all its arguments.  (error.rs:77-104,159-160)                    *)
THEOREM AnswersCorrect == Spec => []AnswersAreWhole
<1>1. CallsInv => AnswersAreWhole
  BY DEF CallsInv, AnswersAreWhole, Local, Whole
<1> QED BY <1>1, CallsInvariance, PTL

-------------------------------------------------------------------------------
(* The refinement.  What Atomic sees of one thread. *)
Phase(t) == CASE pc[t] = "python" -> "idle"
              [] pc[t] = "return" -> "answered"
              [] OTHER -> "open"

Seen(t) == IF pc[t] = "python" THEN <<>> ELSE Taken(t, began)

Result(t) == IF answer[t] = "value"
             THEN [kind |-> "value", of |-> Taken(t, request)]
             ELSE [kind |-> answer[t]]

Phases == [t \in Thread |-> Phase(t)]
Seens == [t \in Thread |-> Seen(t)]
Results == [t \in Thread |-> Result(t)]

Alike(u) == Phase(u)' = Phase(u) /\ Seen(u)' = Seen(u) /\ Result(u)' = Result(u)

(* Nothing that Atomic sees has changed. *)
LEMMA Stutters ==
    ASSUME \A u \in Thread : Alike(u), UNCHANGED <<heap, aborted>>
    PROVE  UNCHANGED Atomic!vars
<1>1. Phases' = Phases /\ Seens' = Seens /\ Results' = Results
  BY DEF Phases, Seens, Results, Alike
<1> QED BY <1>1 DEF Atomic!vars, Phases, Seens, Results, Phase, Seen, Result

(* Atomic's answers are those of the adapter. *)
LEMMA Responds ==
    ASSUME NEW t \in Thread, \A u \in Thread \ {t} : Alike(u), UNCHANGED <<heap, aborted>>,
           Phase(t) = "open", Phase(t)' = "answered", Seen(t)' = Seen(t),
           Result(t)' \in {[kind |-> "value", of |-> Seen(t)]} \cup [kind : Atomic!Exceptions],
           ~aborted
    PROVE  Atomic!Next
<1>1. PICK r \in {[kind |-> "value", of |-> Seen(t)]} \cup [kind : Atomic!Exceptions] :
          Result(t)' = r
  OBVIOUS
<1>2. /\ Phases' = [Phases EXCEPT ![t] = "answered"]
      /\ Results' = [Results EXCEPT ![t] = r]
      /\ Seens' = Seens
      /\ Phases[t] = "open" /\ Seens[t] = Seen(t)
  BY <1>1 DEF Phases, Seens, Results, Alike
<1>3. r \in {[kind |-> "value", of |-> Seens[t]]} \cup [kind : Atomic!Exceptions]
  BY <1>1, <1>2
<1>4. Atomic!Respond(t, r)
  BY <1>2, <1>3 DEF Atomic!Respond, Phases, Seens, Results, Phase, Seen, Result
<1> QED
  BY <1>3, <1>4 DEF Atomic!Next, Seens, Seen

(* The arguments are taken when the call begins. *)
LEMMA Calls ==
    ASSUME NEW t \in Thread, NEW o \in Operation, \A u \in Thread \ {t} : Alike(u),
           UNCHANGED <<heap, aborted>>, Phase(t) = "idle", Phase(t)' = "open",
           Seen(t)' = [c \in Reads[o] |-> heap[c]], Result(t)' = Result(t), ~aborted
    PROVE  Atomic!Next
<1>1. /\ Phases' = [Phases EXCEPT ![t] = "open"]
      /\ Seens' = [Seens EXCEPT ![t] = [c \in Reads[o] |-> heap[c]]]
      /\ Results' = Results /\ Phases[t] = "idle"
  BY DEF Phases, Seens, Results, Alike
<1>2. Atomic!Call(t, o)
  BY <1>1 DEF Atomic!Call, Phases, Seens, Results, Phase, Seen, Result
<1> QED
  BY <1>2 DEF Atomic!Next, Phases, Seens, Results, Phase, Seen, Result

(* The caller goes on. *)
LEMMA Returns ==
    ASSUME NEW t \in Thread, \A u \in Thread \ {t} : Alike(u),
           UNCHANGED <<heap, aborted>>, Phase(t) = "answered", Phase(t)' = "idle",
           Seen(t)' = <<>>, Result(t)' = [kind |-> "none"], ~aborted
    PROVE  Atomic!Next
<1>1. /\ Phases' = [Phases EXCEPT ![t] = "idle"]
      /\ Seens' = [Seens EXCEPT ![t] = <<>>]
      /\ Results' = [Results EXCEPT ![t] = [kind |-> "none"]] /\ Phases[t] = "answered"
  BY DEF Phases, Seens, Results, Alike
<1>2. Atomic!Return(t)
  BY <1>1 DEF Atomic!Return, Phases, Seens, Results, Phase, Seen, Result
<1> QED
  BY <1>2 DEF Atomic!Next, Phases, Seens, Results, Phase, Seen, Result

(* The process ends in an open call. *)
LEMMA Crashes ==
    ASSUME NEW t \in Thread, \A u \in Thread : Alike(u),
           heap' = heap, aborted' = TRUE, Phase(t) = "open", ~aborted
    PROVE  Atomic!Next
<1>1. Phases' = Phases /\ Seens' = Seens /\ Results' = Results /\ Phases[t] = "open"
  BY DEF Phases, Seens, Results, Alike
<1>2. Atomic!Crash(t)
  BY <1>1 DEF Atomic!Crash, Phases, Seens, Results, Phase, Seen, Result
<1> QED
  BY <1>2 DEF Atomic!Next, Phases, Seens, Results, Phase, Seen, Result

(* Other code changes an argument. *)
LEMMA Mutates ==
    ASSUME NEW c \in Container, \A u \in Thread : Alike(u),
           heap[c] < MaxChange, heap' = [heap EXCEPT ![c] = @ + 1],
           UNCHANGED aborted, ~aborted
    PROVE  Atomic!Next
<1>1. Phases' = Phases /\ Seens' = Seens /\ Results' = Results
  BY DEF Phases, Seens, Results, Alike
<1>2. Atomic!Mutate(c)
  BY <1>1 DEF Atomic!Mutate, Phases, Seens, Results, Phase, Seen, Result
<1> QED
  BY <1>2 DEF Atomic!Next, Phases, Seens, Results, Phase, Seen, Result

(* No call is open at first. *)
LEMMA InitMaps == Init => Atomic!Init
  BY DEF Init, Fresh, Atomic!Init

(* A call that nothing happens to looks the same. *)
LEMMA SameAlike == ASSUME NEW u, Same(u) PROVE Alike(u)
<1>1. /\ Taken(u, began)' = Taken(u, began) /\ Taken(u, request)' = Taken(u, request)
  BY DEF Same, Taken
<1> QED BY <1>1 DEF Same, Alike, Phase, Seen, Result

(* So does one that is read for and goes on inside. *)
LEMMA OpenAlike ==
    ASSUME NEW u, pc[u] \notin {"python", "return"}, pc'[u] \notin {"python", "return"},
           op'[u] = op[u], began'[u] = began[u], answer[u] = "none", answer'[u] = "none"
    PROVE  Alike(u)
<1>1. Taken(u, began)' = Taken(u, began)
  BY DEF Taken
<1> QED BY <1>1 DEF Alike, Phase, Seen, Result

(* Each step is one of the abstract specification, or none. *)
LEMMA AtomicStep ==
    TypeOK /\ RequestIsSnapshot /\ (\A u \in Thread : Local(u)) /\ [Next]_vars
        => [Atomic!Next]_(Atomic!vars)
<1> SUFFICES ASSUME TypeOK, RequestIsSnapshot, \A u \in Thread : Local(u), [Next]_vars
             PROVE  Atomic!Next \/ UNCHANGED Atomic!vars
  OBVIOUS
<1> DEFINE Goal == Atomic!Next \/ UNCHANGED Atomic!vars
<1> SUFFICES Goal OBVIOUS
<1> USE DEF Goto, call, history, world
<1>0. /\ pc \in [Thread -> PC] /\ op \in [Thread -> Operation \cup {"none"}]
      /\ read \in [Thread -> SUBSET Container] /\ answer \in [Thread -> Answer]
      /\ request \in [Thread -> [Container -> 0 .. MaxChange]]
      /\ began \in [Thread -> [Container -> 0 .. MaxChange]]
      /\ outcome \in [Thread -> {"none", "value"} \cup Failure]
  BY DEF TypeOK
<1>1. ASSUME \A u \in Thread : Same(u), UNCHANGED <<heap, aborted>> PROVE Goal
  BY <1>1, SameAlike, Stutters
<1>2. ASSUME Next, NEW t \in Thread, InCall(t) PROVE Goal
  <2>0. /\ \A u \in Thread \ {t} : Alike(u)
        /\ ~aborted
        /\ answer[t] # "none" => pc[t] = "return"
        /\ pc[t] \in PC /\ answer[t] \in Answer
    <3>1. \A u \in Thread \ {t} : Alike(u)
      BY <1>2, Elsewhere, SameAlike
    <3>2. ~aborted
      BY <1>2 DEF Next
    <3> QED BY <1>0, <3>1, <3>2 DEF Local, CallInv
  <2>1. ASSUME Alike(t), UNCHANGED <<heap, aborted>> PROVE Goal
    BY <2>0, <2>1, Stutters
  <2>2. ASSUME pc[t] \notin {"python", "return"}, pc'[t] \notin {"python", "return"},
               op'[t] = op[t], began'[t] = began[t], answer'[t] = answer[t],
               UNCHANGED <<heap, aborted>>
        PROVE  Goal
    BY <2>0, <2>1, <2>2, OpenAlike
  <2>3. CASE \E o \in Operation : Begin(t, o)
    <3>1. PICK o \in Operation : Begin(t, o)
      BY <2>3
    <3>2. answer[t] = "none" /\ answer'[t] = "none"
      BY <2>0, <3>1 DEF Begin
    <3>3. /\ pc[t] = "python" /\ pc'[t] = "admit" /\ op'[t] = o /\ began'[t] = heap
          /\ UNCHANGED <<heap, aborted>>
      BY <1>0, <3>1 DEF Begin
    <3>4. /\ Phase(t) = "idle" /\ Phase(t)' = "open" /\ Result(t)' = Result(t)
          /\ Seen(t)' = [c \in Reads[o] |-> heap[c]]
      BY <3>2, <3>3 DEF Phase, Seen, Result, Taken
    <3> QED BY <2>0, <3>3, <3>4, Calls
  <2>4. CASE \E c \in Container : Read(t, c)
    BY <1>0, <2>2, <2>4 DEF Read
  <2>5. CASE \E f \in Failure : Refuse(t, f) \/ ExportFails(t, f)
    BY <1>0, <2>2, <2>5 DEF Refuse, ExportFails
  <2>6. CASE Detach(t) \/ StayAttached(t)
    BY <1>0, <2>2, <2>6 DEF Detach, StayAttached
  <2>7. CASE PanicDetached(t) \/ \E result \in {"value"} \cup Failure : Finish(t, result)
    BY <1>0, <2>2, <2>7 DEF PanicDetached, Finish
  <2>8. CASE Reattach(t)
    BY <1>0, <2>2, <2>8 DEF Reattach
  <2>9. CASE \E s \in Signal : RunHandler(t, s)
    BY <1>0, <2>2, <2>9 DEF RunHandler
  <2>10. CASE HandlerReturns(t) \/ NoSignalDue(t)
    BY <1>0, <2>2, <2>10 DEF HandlerReturns, NoSignalDue
  <2>11. CASE SetField(t) \/ Dispose(t)
    BY <1>0, <2>2, <2>11 DEF SetField, Dispose
  <2>12. ASSUME pc[t] \notin {"python", "return"}, pc'[t] = "return",
                UNCHANGED <<heap, aborted, op, began, request>>,
                \/ answer'[t] \in Atomic!Exceptions
                \/ answer'[t] = "value" /\ Taken(t, request) = Taken(t, began)
         PROVE  Goal
    <3>1. Phase(t) = "open" /\ Phase(t)' = "answered"
      BY <2>12 DEF Phase
    <3>2. Seen(t)' = Seen(t) /\ Seen(t) = Taken(t, began)
      BY <2>12 DEF Seen, Taken
    <3>3. Result(t)' \in {[kind |-> "value", of |-> Seen(t)]} \cup [kind : Atomic!Exceptions]
      <4>1. CASE answer'[t] \in Atomic!Exceptions
        BY <4>1 DEF Result, Atomic!Exceptions
      <4>2. CASE answer'[t] = "value" /\ Taken(t, request) = Taken(t, began)
        BY <2>12, <3>2, <4>2 DEF Result, Taken
      <4> QED BY <2>12, <4>1, <4>2
    <3> QED BY <2>0, <2>12, <3>1, <3>2, <3>3, Responds
  <2>13. CASE HandlerRaises(t)
    BY <1>0, <2>12, <2>13 DEF HandlerRaises, Atomic!Exceptions
  <2>14. CASE Publish(t)
    <3>1. read[t] = Reads[op[t]]
      BY <2>14 DEF Publish, Local, CallInv
    <3>2. \A c \in Reads[op[t]] : request[t][c] = began[t][c]
      BY <1>0, <3>1 DEF RequestIsSnapshot
    <3>3. Taken(t, request) = Taken(t, began)
      BY <3>2 DEF Taken
    <3> QED BY <1>0, <2>12, <2>14, <3>3 DEF Publish
  <2>15. CASE RaisePlain(t) \/ RaiseStructured(t)
    <3>1. outcome[t] \in Failure
      BY <2>15 DEF RaisePlain, RaiseStructured, Failure
    <3>2. Class[outcome[t]] \in Atomic!Exceptions
      BY <3>1, ClassNames DEF Failure, Structured, Atomic!Exceptions
    <3> QED BY <1>0, <2>12, <2>15, <3>2 DEF RaisePlain, RaiseStructured
  <2>16. ASSUME pc[t] \notin {"python", "return"}, UNCHANGED <<pc, op, began, answer, heap>>,
                aborted' = TRUE
         PROVE  Goal
    <3>1. Alike(t)
      BY <2>0, <2>16, OpenAlike
    <3>2. Phase(t) = "open"
      BY <2>16 DEF Phase
    <3> QED BY <2>0, <2>16, <3>1, <3>2, Crashes
  <2>17. CASE PanicAttached(t)
    <3>1. CASE panics[t] = 0
      BY <1>0, <2>2, <2>17, <3>1 DEF PanicAttached
    <3>2. CASE panics[t] # 0
      BY <2>16, <2>17, <3>2 DEF PanicAttached
    <3> QED BY <3>1, <3>2
  <2>18. CASE DisposePanics(t)
    BY <2>16, <2>18 DEF DisposePanics
  <2>19. CASE Return(t)
    <3>1. /\ pc[t] = "return" /\ pc'[t] = "python" /\ answer'[t] = "none"
          /\ UNCHANGED <<heap, aborted>>
      BY <1>0, <2>19 DEF Return
    <3>2. /\ Phase(t) = "answered" /\ Phase(t)' = "idle"
          /\ Seen(t)' = <<>> /\ Result(t)' = [kind |-> "none"]
      BY <3>1 DEF Phase, Seen, Result
    <3> QED BY <2>0, <3>1, <3>2, Returns
  <2> HIDE DEF Goal
  <2> QED
    BY <1>2, <2>3, <2>4, <2>5, <2>6, <2>7, <2>8, <2>9, <2>10, <2>11, <2>13, <2>14, <2>15,
       <2>17, <2>18, <2>19 DEF InCall, Adapter, Core, HandlerEnds
<1>3. CASE \E t \in Thread : Acquire(t) \/ Release(t)
  BY <1>1, <1>3 DEF Acquire, Release, Same
<1>4. CASE \E s \in Signal : Arrive(s) \/ Handle(s)
  BY <1>1, <1>4 DEF Arrive, Handle, Same
<1>5. CASE UNCHANGED vars
  BY <1>1, <1>5 DEF vars, Same
<1>6. ASSUME Next, NEW t \in Thread, NEW c \in Container, Mutate(t, c) PROVE Goal
  <2>1. \A u \in Thread : Alike(u)
    BY <1>6, SameAlike DEF Mutate, Same
  <2>2. ~aborted
    BY <1>6 DEF Next
  <2> QED BY <1>6, <2>1, <2>2, Mutates DEF Mutate
<1> HIDE DEF Goal
<1>7. CASE Next
  <2>1. \/ \E t \in Thread : InCall(t)
        \/ \E t \in Thread : Acquire(t) \/ Release(t)
        \/ \E t \in Thread : \E c \in Container : Mutate(t, c)
        \/ \E s \in Signal : Arrive(s) \/ Handle(s)
    BY <1>7 DEF Next, InCall
  <2> QED BY <1>2, <1>3, <1>4, <1>6, <1>7, <2>1
<1> QED BY <1>5, <1>7

(* For any number of threads, arguments and signals, a program of threads   *)
(* that call native operations is one of atomic calls: each reads its       *)
(* arguments at the moment it is made and is answered once.                 *)
(* (panic_boundary.rs:12-48, attached_boundary.rs:15-20)                    *)
THEOREM Refinement == Spec => ImplementsAtomicCall
<1>1. /\ CallsInv => \A u \in Thread : Local(u)
      /\ IInv => TypeOK /\ RequestIsSnapshot
  BY DEF CallsInv, IInv
<1> QED
  BY <1>1, InitMaps, AtomicStep, Invariance, CallsInvariance, PTL
     DEF Spec, ImplementsAtomicCall, Atomic!Spec
===============================================================================
