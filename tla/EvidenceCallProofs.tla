--------------------------- MODULE EvidenceCallProofs ---------------------------
(***************************************************************************)
(* Theorems about ArgumentBinding for every signature and every call, and  *)
(* about EvidenceCall for every request and all limits.  What is proved of *)
(* the binding alone holds of it within the whole operation.               *)
(***************************************************************************)
EXTENDS EvidenceCall, FiniteSetTheorems, TotalsProofs

(* The keywords already bound. *)
Bound == 1 .. next - 1

(* Each slot is filled by what the caller passed for it so far. *)
SlotsFilled ==
    \A i \in Slots :
       /\ values[i] # Absent =>
             \/ i \in DOMAIN call.args /\ values[i] = call.args[i]
             \/ \E j \in Bound : call.kwargs[j].key = i /\ values[i] = call.kwargs[j].value
       /\ values[i] = Absent =>
             i \notin DOMAIN call.args /\ \A j \in Bound : call.kwargs[j].key # i

(* Nothing bound so far is misplaced. *)
KeywordsPlaced ==
    /\ Len(call.args) =< signature.positional
    /\ \A j \in Bound : call.kwargs[j].key \in Slots /\ call.kwargs[j].key > Len(call.args)

IInv ==
    /\ TypeOK
    /\ status \in {"keywords", "bound"} => SlotsFilled /\ KeywordsPlaced
    /\ status = "bound" => /\ next = Len(call.kwargs) + 1
                           /\ \A i \in 1 .. signature.required : values[i] # Absent
    /\ status = "start" => next = 1
    /\ status = "type" => ~WellFormed

(* What the assumption says of one signature and one call. *)
LEMMA Shapes ==
    ASSUME signature \in Signatures, call \in Calls
    PROVE  /\ signature.slots \in Nat /\ signature.positional \in Nat /\ signature.required \in Nat
           /\ signature.positional =< signature.slots /\ signature.required =< signature.slots
           /\ call.args \in Seq(Object) /\ call.kwargs \in Seq(Keyword)
           /\ Len(call.args) \in Nat /\ Len(call.kwargs) \in Nat
           /\ DOMAIN call.args = 1 .. Len(call.args) /\ DOMAIN call.kwargs = 1 .. Len(call.kwargs)
           /\ \A j \in DOMAIN call.kwargs :
                 call.kwargs[j].key \in Nat /\ call.kwargs[j].value \in Object
           /\ \A i \in DOMAIN call.args : call.args[i] \in Object
           /\ \A i, j \in DOMAIN call.kwargs :
                 call.kwargs[i].key # 0 /\ call.kwargs[i].key = call.kwargs[j].key => i = j
           /\ Absent \notin Object
<1>1. signature \in Signature /\ signature.positional =< signature.slots
          /\ signature.required =< signature.slots
  BY BindingAssumption
<1>2. call \in [args : Seq(Object), kwargs : Seq(Keyword)]
  BY BindingAssumption
<1>3. call.args \in Seq(Object) /\ call.kwargs \in Seq(Keyword)
  BY <1>2
<1>4. \A j \in DOMAIN call.kwargs : call.kwargs[j] \in Keyword
  BY <1>3
<1>5. \A i, j \in DOMAIN call.kwargs :
         call.kwargs[i].key # 0 /\ call.kwargs[i].key = call.kwargs[j].key => i = j
  BY BindingAssumption
<1>6. \A j \in DOMAIN call.kwargs : call.kwargs[j].key \in Nat /\ call.kwargs[j].value \in Object
  BY <1>4 DEF Keyword
<1>7. \A i \in DOMAIN call.args : call.args[i] \in Object
  BY <1>3
<1> QED
  BY <1>1, <1>3, <1>5, <1>6, <1>7, BindingAssumption DEF Signature

(* More keywords than slots are never well formed: two of them would name   *)
(* the same slot.  This is why bind may refuse by counting.                 *)
(* (argument_binding.rs:22-24)                                              *)
LEMMA TooManyIsMisfit ==
    ASSUME signature \in Signatures, call \in Calls, TooMany
    PROVE  ~WellFormed
<1> SUFFICES ASSUME WellFormed PROVE FALSE
  OBVIOUS
<1>1. Len(call.kwargs) > signature.slots
  BY Shapes DEF TooMany, WellFormed
<1> DEFINE K == DOMAIN call.kwargs
           f == [j \in K |-> call.kwargs[j].key]
<1>2. f \in [K -> Slots]
  BY DEF WellFormed
<1>3. K = 1 .. Len(call.kwargs) /\ Len(call.kwargs) \in Nat /\ signature.slots \in Nat
  BY Shapes
<1>4. \A n \in Nat : IsFiniteSet(1 .. n) /\ Cardinality(1 .. n) = n
  <2> TAKE n \in Nat
  <2>1. IsFiniteSet(1 .. n) /\ Cardinality(1 .. n) = IF 1 > n THEN 0 ELSE n - 1 + 1
    BY FS_Interval
  <2> QED BY <2>1
<1>5. /\ IsFiniteSet(K) /\ IsFiniteSet(Slots)
      /\ Cardinality(Slots) < Cardinality(K)
  BY <1>1, <1>3, <1>4 DEF Slots
<1>6. \E i, j \in K : i # j /\ f[i] = f[j]
  <2> HIDE DEF K, f
  <2> QED BY <1>2, <1>5, FS_PigeonHole
<1>7. PICK i \in K, j \in K : i # j /\ call.kwargs[i].key = call.kwargs[j].key
  BY <1>6
<1>8. call.kwargs[i].key \in Slots
  BY DEF WellFormed
<1> QED
  BY <1>7, <1>8, Shapes DEF Slots

(* Whether a call is well formed is a matter of the call and the signature. *)
LEMMA WellFormedStable ==
    ASSUME UNCHANGED <<signature, call>>
    PROVE  WellFormed' <=> WellFormed
<1>1. signature' = signature /\ call' = call
  OBVIOUS
<1>2. Slots' = Slots
  BY <1>1 DEF Slots
<1>3. \A i : PassedFor(i)' = PassedFor(i)
  BY <1>1 DEF PassedFor
<1> QED BY <1>1, <1>2, <1>3 DEF WellFormed

(* The slots are empty before binding. *)
LEMMA Initially == Init => IInv
<1> SUFFICES ASSUME Init PROVE IInv
  OBVIOUS
<1>1. Len(call.kwargs) \in Nat
  BY Shapes DEF Init
<1> QED
  BY <1>1 DEF Init, IInv, TypeOK

(* A refusal that says nothing of the arguments. *)
LEMMA OutOfMemory ==
    ASSUME IInv, Refuse("memory")
    PROVE  IInv'
  BY DEF IInv, TypeOK, Refuse, Slots

(* A refusal of a call that is a misfit. *)
LEMMA Misfit ==
    ASSUME IInv, Refuse("type"), ~WellFormed
    PROVE  IInv'
<1>1. TypeOK'
  BY DEF IInv, TypeOK, Refuse, Slots
<1>2. ~WellFormed'
  BY WellFormedStable DEF Refuse
<1> QED BY <1>1, <1>2 DEF IInv, Refuse

(* Placing the positional arguments fills the first slots (argument_binding.rs). *)
LEMMA PlaceStep ==
    ASSUME IInv, Place
    PROVE  IInv'
<1> USE DEF IInv
<1>1. CASE TooMany /\ Refuse("type")
  BY <1>1, Misfit, TooManyIsMisfit DEF TypeOK
<1>2. CASE Refuse("memory")
  BY <1>2, OutOfMemory
<1>3. CASE /\ ~TooMany
           /\ values' = [i \in Slots |-> IF i =< Len(call.args) THEN call.args[i] ELSE Absent]
           /\ status' = "keywords"
           /\ UNCHANGED <<signature, call, next>>
  <2>1. next = 1 /\ Bound' = {}
    BY <1>3 DEF Place, Bound
  <2>2. Len(call.args) =< signature.positional
    BY <1>3, Shapes DEF TooMany, TypeOK
  <2>3. \A i \in Slots : values'[i] = IF i \in DOMAIN call.args THEN call.args[i] ELSE Absent
    BY <1>3, Shapes DEF TypeOK, Slots
  <2>4. values' \in [Slots -> Object \cup {Absent}]
    BY <1>3, <2>3, Shapes DEF TypeOK
  <2>5. SlotsFilled'
    BY <1>3, <2>1, <2>3, Shapes DEF SlotsFilled, TypeOK, Slots
  <2>6. KeywordsPlaced'
    BY <1>3, <2>1, <2>2 DEF KeywordsPlaced
  <2> QED
    BY <1>3, <2>4, <2>5, <2>6 DEF TypeOK, Slots
<1> QED
  BY <1>1, <1>2, <1>3 DEF Place

(* A keyword fills its own slot or ends the binding. *)
LEMMA BindKeywordStep ==
    ASSUME IInv, BindKeyword
    PROVE  IInv'
<1> USE DEF IInv
<1>0. /\ status = "keywords" /\ next \in 1 .. Len(call.kwargs) /\ next \in DOMAIN call.kwargs
      /\ signature \in Signatures /\ call \in Calls
      /\ SlotsFilled /\ KeywordsPlaced
      /\ values \in [Slots -> Object \cup {Absent}]
  BY Shapes DEF BindKeyword, TypeOK
<1>1. CASE /\ Keyworded.key \in Slots => values[Keyworded.key] # Absent
           /\ Refuse("type")
  <2>1. CASE Keyworded.key \notin Slots
    <3>1. ~WellFormed
      BY <1>0, <2>1 DEF WellFormed, Keyworded
    <3> QED BY <1>1, <3>1, Misfit
  <2>2. CASE Keyworded.key \in Slots
    <3> DEFINE i == Keyworded.key
    <3>1. values[i] # Absent
      BY <1>1, <2>2
    <3>2. \/ i \in DOMAIN call.args
          \/ \E j \in Bound : call.kwargs[j].key = i
      BY <1>0, <2>2, <3>1 DEF SlotsFilled
    <3>3. \A j \in Bound : call.kwargs[j].key # i
      <4> SUFFICES ASSUME NEW j \in Bound, call.kwargs[j].key = i PROVE FALSE
        OBVIOUS
      <4>1. j \in DOMAIN call.kwargs /\ j # next
        BY <1>0, Shapes DEF Bound
      <4>2. call.kwargs[j].key # 0 /\ call.kwargs[j].key = call.kwargs[next].key
        BY <2>2, Shapes DEF Keyworded, Slots
      <4> QED BY <1>0, <4>1, <4>2, Shapes
    <3>4. i =< Len(call.args)
      BY <1>0, <3>2, <3>3, Shapes
    <3>5. ~WellFormed
      BY <1>0, <3>4, Shapes DEF WellFormed, Keyworded
    <3> QED BY <1>1, <3>5, Misfit
  <2> QED BY <2>1, <2>2
<1>2. CASE Refuse("memory")
  BY <1>2, OutOfMemory
<1>3. CASE /\ Keyworded.key \in Slots /\ values[Keyworded.key] = Absent
           /\ values' = [values EXCEPT ![Keyworded.key] = Keyworded.value]
           /\ next' = next + 1
           /\ UNCHANGED <<signature, call, status>>
  <2> DEFINE i == Keyworded.key
  <2>1. Bound' = Bound \cup {next}
    BY <1>0, <1>3, Shapes DEF Bound
  <2>2. i \notin DOMAIN call.args /\ i > Len(call.args)
    BY <1>0, <1>3, Shapes DEF SlotsFilled, Slots
  <2>3. Keyworded.value \in Object /\ Keyworded.value # Absent
    BY <1>0, Shapes DEF Keyworded
  <2>4. values' \in [Slots -> Object \cup {Absent}]
    BY <1>0, <1>3, <2>3
  <2>5. SlotsFilled'
    <3> SUFFICES ASSUME NEW k \in Slots
                 PROVE  /\ values'[k] # Absent =>
                              \/ k \in DOMAIN call.args /\ values'[k] = call.args[k]
                              \/ \E j \in Bound' : call.kwargs[j].key = k /\ values'[k] = call.kwargs[j].value
                        /\ values'[k] = Absent =>
                              k \notin DOMAIN call.args /\ \A j \in Bound' : call.kwargs[j].key # k
      BY <1>3 DEF SlotsFilled, Slots
    <3>1. CASE k = i
      BY <1>0, <1>3, <2>1, <2>3, <3>1 DEF Keyworded
    <3>2. CASE k # i
      <4>1. values'[k] = values[k]
        BY <1>0, <1>3, <3>2
      <4>2. call.kwargs[next].key # k
        BY <3>2 DEF Keyworded
      <4> QED BY <1>0, <2>1, <4>1, <4>2 DEF SlotsFilled
    <3> QED BY <3>1, <3>2
  <2>6. KeywordsPlaced'
    BY <1>0, <1>3, <2>1, <2>2 DEF KeywordsPlaced, Keyworded, Slots
  <2>7. next' \in 1 .. Len(call.kwargs) + 1
    BY <1>0, <1>3, Shapes
  <2> QED
    BY <1>0, <1>3, <2>4, <2>5, <2>6, <2>7 DEF TypeOK, Slots
<1> QED
  BY <1>1, <1>2, <1>3 DEF BindKeyword

(* The binding ends well only if no required slot is empty. *)
LEMMA CheckRequiredStep ==
    ASSUME IInv, CheckRequired
    PROVE  IInv'
<1> USE DEF IInv
<1>0. /\ status = "keywords" /\ next = Len(call.kwargs) + 1 /\ Bound = DOMAIN call.kwargs
      /\ signature \in Signatures /\ call \in Calls
      /\ SlotsFilled /\ KeywordsPlaced
      /\ UNCHANGED <<signature, call, values, next>>
  BY Shapes DEF CheckRequired, TypeOK, Bound
<1>1. CASE \E i \in 1 .. signature.required : values[i] = Absent
  <2>1. PICK i \in 1 .. signature.required : values[i] = Absent
    BY <1>1
  <2>2. i \in Slots
    BY <1>0, Shapes DEF Slots
  <2>3. PassedFor(i) = {}
    BY <1>0, <2>1, <2>2 DEF SlotsFilled, PassedFor
  <2>4. ~WellFormed
    BY <2>3 DEF WellFormed
  <2>5. Refuse("type")
    BY <1>1 DEF CheckRequired, Refuse
  <2> QED BY <2>4, <2>5, Misfit
<1>2. CASE ~\E i \in 1 .. signature.required : values[i] = Absent
  <2>1. status' = "bound"
    BY <1>2 DEF CheckRequired
  <2> QED
    BY <1>0, <1>2, <2>1 DEF TypeOK, SlotsFilled, KeywordsPlaced, Bound, Slots
<1> QED BY <1>1, <1>2

(* Every step of bind keeps the invariant. *)
LEMMA Invariant == IInv /\ [Next]_vars => IInv'
<1> SUFFICES ASSUME IInv, [Next]_vars PROVE IInv'
  OBVIOUS
<1>1. CASE UNCHANGED vars
  <2>1. WellFormed' <=> WellFormed
    BY <1>1, WellFormedStable DEF vars
  <2>2. TypeOK'
    BY <1>1 DEF vars, IInv, TypeOK, Slots
  <2>3. status \in {"keywords", "bound"} => SlotsFilled' /\ KeywordsPlaced'
    BY <1>1 DEF vars, IInv, SlotsFilled, KeywordsPlaced, Bound, Slots
  <2> QED BY <1>1, <2>1, <2>2, <2>3 DEF vars, IInv
<1> QED
  BY <1>1, PlaceStep, BindKeywordStep, CheckRequiredStep DEF Next

(* The strengthened invariant of binding. *)
THEOREM Invariance == Spec => []IInv
  BY Initially, Invariant, PTL DEF Spec

(* The variables have their types: no slot is indexed out of bounds, for    *)
(* every signature.  (argument_binding.rs:26-66)                            *)
THEOREM TypeCorrect == Spec => []TypeOK
<1>1. IInv => TypeOK
  BY DEF IInv
<1> QED BY <1>1, Invariance, PTL

(* For every signature and call, a bound slot holds the one thing passed    *)
(* for it and a required one is never empty.  (argument_binding.rs:29-58)          *)
THEOREM BoundCorrect == Spec => []BoundAsPassed
<1>1. IInv => BoundAsPassed
  <2> SUFFICES ASSUME IInv, status = "bound", NEW i \in Slots
               PROVE  /\ values[i] # Absent => PassedFor(i) = {values[i]}
                      /\ values[i] = Absent => PassedFor(i) = {} /\ i > signature.required
    BY DEF BoundAsPassed
  <2>1. /\ SlotsFilled /\ KeywordsPlaced /\ Bound = DOMAIN call.kwargs
        /\ \A k \in 1 .. signature.required : values[k] # Absent
        /\ signature \in Signatures /\ call \in Calls
    BY Shapes DEF IInv, TypeOK, Bound
  <2>2. values[i] # Absent => PassedFor(i) = {values[i]}
    <3>1. CASE i \in DOMAIN call.args
      <4>1. \A j \in DOMAIN call.kwargs : call.kwargs[j].key # i
        BY <2>1, <3>1, Shapes DEF KeywordsPlaced
      <4>2. PassedFor(i) = {call.args[i]}
        BY <3>1, <4>1 DEF PassedFor
      <4> QED BY <2>1, <3>1, <4>1, <4>2 DEF SlotsFilled
    <3>2. CASE i \notin DOMAIN call.args /\ values[i] # Absent
      <4>1. PICK j \in DOMAIN call.kwargs :
               call.kwargs[j].key = i /\ values[i] = call.kwargs[j].value
        BY <2>1, <3>2 DEF SlotsFilled
      <4>2. \A k \in DOMAIN call.kwargs : call.kwargs[k].key = i => k = j
        BY <2>1, <4>1, Shapes DEF Slots
      <4> QED BY <3>2, <4>1, <4>2 DEF PassedFor
    <3> QED BY <3>1, <3>2
  <2>3. values[i] = Absent => PassedFor(i) = {}
    BY <2>1 DEF SlotsFilled, PassedFor
  <2>4. values[i] = Absent => i > signature.required
    BY <2>1, Shapes DEF IInv, TypeOK, Slots
  <2> QED BY <2>2, <2>3, <2>4
<1> QED BY <1>1, Invariance, PTL

(* For every signature, bind accepts exactly the well-formed calls, in      *)
(* every order of the keywords, unless memory runs out.                     *)
(* (argument_binding.rs:22-54)                                              *)
THEOREM BindingCorrect == Spec => []BindsExactlyWellFormed
<1>1. IInv => BindsExactlyWellFormed
  <2> SUFFICES ASSUME IInv, status = "bound" PROVE WellFormed
    BY DEF IInv, BindsExactlyWellFormed
  <2>1. /\ SlotsFilled /\ KeywordsPlaced /\ Bound = DOMAIN call.kwargs
        /\ \A i \in 1 .. signature.required : values[i] # Absent
    BY Shapes DEF IInv, TypeOK, Bound
  <2>2. \A i \in 1 .. signature.required : i \in Slots
    BY Shapes DEF IInv, TypeOK, Slots
  <2>3. \A i \in 1 .. signature.required : PassedFor(i) # {}
    BY <2>1, <2>2 DEF SlotsFilled, PassedFor
  <2> QED BY <2>1, <2>3 DEF KeywordsPlaced, WellFormed
<1> QED BY <1>1, Invariance, PTL

-------------------------------------------------------------------------------
Lists == {1, 2, 5}

(* The lists of a call and what was copied of them, at each check. *)
BatchInv ==
    /\ at =< 7 => error # "kind" /\ \A i \in Lists : owned[i] = <<>>
    /\ \A i \in Lists : at > i /\ Given(i) => values[i].is = "list"
    /\ at > 7 => ~CountsExceed(BATCH)
    /\ \A i \in Lists : owned[i] = <<>> \/ (Given(i) /\ owned[i] = values[i].items)

ValidateInv ==
    /\ at =< 11 => owned[6] = <<>>
    /\ at > 6 /\ Given(6) => values[6].is = "list"
    /\ at > 11 /\ Given(6) => Len(values[6].items) =< THERMAL
    /\ owned[6] = <<>> \/ (Given(6) /\ owned[6] = values[6].items)

EInv ==
    /\ at \in Nat \ {0}
    /\ DOMAIN owned = Slots
    /\ status # "bound" =>
          at = 1 /\ error = "none" /\ \A i \in Slots : owned[i] = <<>>
    /\ status = "bound" /\ signature = BatchCall => BatchInv
    /\ status = "bound" /\ signature = ValidateCall => ValidateInv

(* The checks of classify_batch: the lists by their types, their counts,    *)
(* and only then anything else of them.                                     *)
LEMMA BatchChecks ==
    /\ DOMAIN BatchProgram = 1 .. 17
    /\ \A i \in Lists : BatchProgram[i] = Check("exact", i, "list")
    /\ BatchProgram[7] = Check("counts", 1, BATCH)
    /\ \A k \in 1 .. 7 : BatchProgram[k].do \in {"exact", "counts"}
    /\ \A k \in 1 .. 17 : Owns(BatchProgram[k]) =>
          IF BatchProgram[k].slot \in Lists
          THEN k > 7 /\ BatchProgram[k].do = "handles" ELSE BatchProgram[k].slot \in {3, 4, 6}
    /\ \A k \in 1 .. 17 : BatchProgram[k].slot \in 1 .. 6
    /\ \A k \in 1 .. 17 : BatchProgram[k].do = "mode" => BatchProgram[k].slot = 4
  BY DEF BatchProgram, Check, Lists, Owns

(* Those of validate. *)
LEMMA ValidateChecks ==
    /\ DOMAIN ValidateProgram = 1 .. 19
    /\ ValidateProgram[6] = Check("exact", 6, "list")
    /\ ValidateProgram[11] = Check("count", 6, THERMAL)
    /\ \A k \in 1 .. 19 : Owns(ValidateProgram[k]) /\ ValidateProgram[k].slot = 6 =>
          k = 12 /\ ValidateProgram[k].do = "handles"
    /\ \A k \in 1 .. 19 : ValidateProgram[k].slot \in 1 .. 8
    /\ \A k \in 1 .. 19 : ValidateProgram[k].do = "mode" => ValidateProgram[k].slot = 4
  BY DEF ValidateProgram, Check, Owns

(* The two signatures and their programs. *)
LEMMA Programs ==
    /\ signature = BatchCall =>
          /\ Program = BatchProgram /\ Slots = 1 .. 6 /\ signature # ValidateCall
    /\ signature = ValidateCall =>
          /\ Program = ValidateProgram /\ Slots = 1 .. 8
  BY DEF Program, BatchCall, ValidateCall, Slots

(* Nothing was copied before the arguments are bound. *)
LEMMA EInitially == EInit => EInv
  BY DEF EInit, EInv, Init

(* Binding copies nothing. *)
LEMMA BindingStep == TypeOK /\ EInv /\ Binding => EInv'
<1> SUFFICES ASSUME TypeOK, EInv, Binding PROVE EInv'
  OBVIOUS
<1>1. status # "bound" /\ UNCHANGED <<at, error, owned, signature>>
  BY DEF Binding, Next, Place, BindKeyword, CheckRequired, Refuse
<1>2. Slots' = Slots
  BY <1>1 DEF Slots
<1>3. at = 1 /\ error = "none" /\ DOMAIN owned = Slots /\ \A i \in Slots : owned[i] = <<>>
  BY <1>1 DEF EInv
<1>4. signature = BatchCall => BatchInv'
  BY <1>1, <1>3, Programs DEF BatchInv, Lists
<1>5. signature = ValidateCall => ValidateInv'
  BY <1>1, <1>3, Programs DEF ValidateInv
<1> QED BY <1>1, <1>2, <1>3, <1>4, <1>5 DEF EInv

(* What the caller passed is not changed by the checks. *)
LEMMA Passed ==
    ASSUME UNCHANGED vars
    PROVE  /\ \A i : (Given(i)' <=> Given(i)) /\ Length(i)' = Length(i)
           /\ CountsExceed(BATCH)' <=> CountsExceed(BATCH)
           /\ UNCHANGED <<signature, call, values, next, status>> /\ Slots' = Slots
<1>1. UNCHANGED <<signature, call, values, next, status>>
  BY DEF vars
<1>2. \A i : Given(i)' <=> Given(i)
  BY <1>1 DEF Given, NoneIsAbsent
<1>3. \A i : Length(i)' = Length(i)
  BY <1>1, <1>2 DEF Length
<1>4. CountsExceed(BATCH)' <=> CountsExceed(BATCH)
  BY <1>3 DEF CountsExceed
<1> QED BY <1>1, <1>2, <1>3, <1>4 DEF Slots

(* The required arguments are always given. *)
LEMMA RequiredGiven ==
    ASSUME BoundAsPassed, status = "bound", signature = BatchCall
    PROVE  Given(1)
<1>1. 1 \in Slots /\ signature.required = 3
  BY Programs DEF BatchCall
<1>2. values[1] # Absent
  BY <1>1 DEF BoundAsPassed
<1> QED BY <1>2 DEF Given, NoneIsAbsent

(* An argument whose type was checked is a list of objects. *)
LEMMA ListIs ==
    ASSUME TypeOK, status = "bound", NEW i \in Slots, Given(i), values[i].is = "list"
    PROVE  values[i].items \in Seq(Object) /\ Len(values[i].items) \in Nat
<1>1. values[i] \in Object
  BY DEF TypeOK, Given
<1> QED BY <1>1, EvidenceAssumption

(* A check of the types or of the counts never finds a kind. *)
LEMMA NoKindEarly ==
    ASSUME NEW check, check.do \in {"exact", "counts"}
    PROVE  "kind" \notin CheckErrors(check)
  BY DEF CheckErrors

(* The checks of classify_batch. *)
LEMMA BatchStep ==
    ASSUME BoundAsPassed, EInv, Step, signature = BatchCall
    PROVE  EInv'
<1> DEFINE check == Program[at]
<1>1. /\ status = "bound" /\ error = "none" /\ at \in 1 .. 17 /\ BatchInv
      /\ check = BatchProgram[at] /\ Slots = 1 .. 6 /\ signature # ValidateCall
      /\ DOMAIN owned = 1 .. 6
  BY Programs, BatchChecks DEF Step, Running, EInv
<1>2. \/ Skip(check) \/ Do(check)
      \/ Refusal(check) \/ Exhausted(check)
  BY DEF Step
<1>3. /\ \A i \in Lists : at = i => check = Check("exact", i, "list")
      /\ at = 7 => check = Check("counts", 1, BATCH)
      /\ at =< 7 => check.do \in {"exact", "counts"}
      /\ Owns(check) => IF check.slot \in Lists THEN at > 7 /\ check.do = "handles"
                        ELSE check.slot \in {3, 4, 6}
      /\ check.do = "mode" => check.slot = 4
  BY <1>1, BatchChecks
<1> HIDE DEF check
<1>4. ASSUME NEW e, Fail(e), at =< 7 => e # "kind" PROVE EInv'
  <2>1. /\ error' = e /\ UNCHANGED <<at, owned>> /\ UNCHANGED vars
    BY <1>4 DEF Fail
  <2>2. BatchInv'
    BY <1>1, <1>4, <2>1, Passed DEF BatchInv
  <2> QED BY <1>1, <2>1, <2>2, Passed DEF EInv
<1>5. CASE Refusal(check)
  <2>1. PICK e \in CheckErrors(check) : Fail(e)
    BY <1>5 DEF Refusal
  <2>2. at =< 7 => e # "kind"
    BY <1>3, <2>1, NoKindEarly
  <2> QED BY <1>4, <2>1, <2>2
<1>6. CASE Exhausted(check)
  BY <1>4, <1>6 DEF Exhausted
<1>7. CASE Skip(check) \/ Do(check)
  <2>1. UNCHANGED vars /\ at' = at + 1 /\ error' = error
    BY <1>7 DEF Skip, Do, Pass
  <2>2. DOMAIN owned' = 1 .. 6
    BY <1>1, <1>7 DEF Skip, Do
  <2>3. ASSUME NEW i \in Lists
        PROVE  \/ owned'[i] = owned[i]
               \/ at > 7 /\ Given(i) /\ owned'[i] = values[i].items
    <3>1. i \in 1 .. 6 /\ i # 4
      BY DEF Lists
    <3>2. CASE Skip(check)
      BY <1>1, <1>3, <3>1, <3>2 DEF Skip
    <3>3. CASE Do(check)
      BY <1>1, <1>3, <3>1, <3>3 DEF Do, Copied
    <3> QED BY <1>7, <3>2, <3>3
  <2>4. ASSUME NEW i \in Lists, at' > i, Given(i) PROVE values[i].is = "list"
    <3>1. CASE at > i
      BY <1>1, <2>4, <3>1 DEF BatchInv
    <3>2. CASE ~(at > i)
      <4>1. at = i
        BY <1>1, <2>1, <2>4, <3>2 DEF Lists
      <4>2. check.slot = i /\ check.do = "exact" /\ check.arg = "list"
        BY <1>3, <4>1 DEF Check
      <4>3. CheckErrors(check) = {}
        BY <1>7, <2>4, <4>2 DEF Skip, Do
      <4> QED BY <4>2, <4>3 DEF CheckErrors
    <3> QED BY <3>1, <3>2
  <2>5. at' > 7 => ~CountsExceed(BATCH)
    <3>1. CASE at > 7
      BY <1>1, <3>1 DEF BatchInv
    <3>2. CASE at = 7
      <4>1. check.slot = 1 /\ check.do = "counts" /\ check.arg = BATCH
        BY <1>3, <3>2 DEF Check
      <4>2. CheckErrors(check) = {}
        BY <1>1, <1>7, <4>1, RequiredGiven DEF Skip, Do
      <4> QED BY <4>1, <4>2 DEF CheckErrors
    <3> QED BY <1>1, <2>1, <3>1, <3>2
  <2>6. BatchInv'
    <3>1. at' =< 7 => error' # "kind" /\ \A i \in Lists : owned'[i] = <<>>
      BY <1>1, <2>1, <2>3 DEF BatchInv
    <3>2. \A i \in Lists : owned'[i] = <<>> \/ (Given(i) /\ owned'[i] = values[i].items)
      BY <1>1, <2>3 DEF BatchInv
    <3> QED BY <2>1, <2>4, <2>5, <3>1, <3>2, Passed DEF BatchInv
  <2> QED BY <1>1, <2>1, <2>2, <2>6, Passed DEF EInv
<1> QED BY <1>2, <1>5, <1>6, <1>7

(* The checks of validate. *)
LEMMA ValidateStep ==
    ASSUME TypeOK, EInv, Step, signature = ValidateCall
    PROVE  EInv'
<1> DEFINE check == Program[at]
<1>1. /\ status = "bound" /\ error = "none" /\ at \in 1 .. 19 /\ ValidateInv
      /\ check = ValidateProgram[at] /\ Slots = 1 .. 8 /\ signature # BatchCall
      /\ DOMAIN owned = 1 .. 8
  BY Programs, ValidateChecks DEF Step, Running, EInv
<1>2. Skip(check) \/ Do(check) \/ Refusal(check) \/ Exhausted(check)
  BY DEF Step
<1>3. /\ at = 6 => check = Check("exact", 6, "list")
      /\ at = 11 => check = Check("count", 6, THERMAL)
      /\ Owns(check) /\ check.slot = 6 => at = 12 /\ check.do = "handles"
      /\ check.do = "mode" => check.slot = 4
  BY <1>1, ValidateChecks
<1> HIDE DEF check
<1>4. CASE Refusal(check) \/ Exhausted(check)
  <2>1. UNCHANGED <<at, owned>> /\ UNCHANGED vars
    BY <1>4 DEF Refusal, Exhausted, Fail
  <2>2. ValidateInv'
    BY <1>1, <2>1, Passed DEF ValidateInv
  <2> QED BY <1>1, <2>1, <2>2, Passed DEF EInv
<1>5. CASE Skip(check) \/ Do(check)
  <2>1. UNCHANGED vars /\ at' = at + 1 /\ error' = error
    BY <1>5 DEF Skip, Do, Pass
  <2>2. DOMAIN owned' = 1 .. 8
    BY <1>1, <1>5 DEF Skip, Do
  <2>3. \/ owned'[6] = owned[6]
        \/ at = 12 /\ Given(6) /\ owned'[6] = values[6].items
    <3>1. CASE Skip(check)
      BY <1>1, <1>3, <3>1 DEF Skip
    <3>2. CASE Do(check)
      BY <1>1, <1>3, <3>2 DEF Do, Copied
    <3> QED BY <1>5, <3>1, <3>2
  <2>4. ASSUME at' > 6, Given(6) PROVE values[6].is = "list"
    <3>1. CASE at = 6
      <4>1. check.slot = 6 /\ check.do = "exact" /\ check.arg = "list"
        BY <1>3, <3>1 DEF Check
      <4>2. CheckErrors(check) = {}
        BY <1>5, <2>4, <4>1 DEF Skip, Do
      <4> QED BY <4>1, <4>2 DEF CheckErrors
    <3> QED BY <1>1, <2>1, <2>4, <3>1 DEF ValidateInv
  <2>5. ASSUME at' > 11, Given(6) PROVE Len(values[6].items) =< THERMAL
    <3>1. CASE at = 11
      <4>1. check.slot = 6 /\ check.do = "count" /\ check.arg = THERMAL
        BY <1>3, <3>1 DEF Check
      <4>2. CheckErrors(check) = {}
        BY <1>5, <2>5, <4>1 DEF Skip, Do
      <4>3. ~(Len(values[6].items) > THERMAL)
        BY <4>1, <4>2 DEF CheckErrors
      <4>4. Len(values[6].items) \in Nat
        BY <1>1, <2>5, <3>1, ListIs DEF ValidateInv
      <4> QED BY <4>3, <4>4, EvidenceAssumption
    <3> QED BY <1>1, <2>1, <2>5, <3>1 DEF ValidateInv
  <2>6. ValidateInv'
    BY <1>1, <2>1, <2>3, <2>4, <2>5, Passed DEF ValidateInv
  <2> QED BY <1>1, <2>1, <2>2, <2>6, Passed DEF EInv
<1> QED BY <1>2, <1>4, <1>5

(* Every step of the operation keeps the invariant. *)
LEMMA EStep == TypeOK /\ BoundAsPassed /\ EInv /\ [ENext]_evars => EInv'
<1> SUFFICES ASSUME TypeOK, BoundAsPassed, EInv, [ENext]_evars PROVE EInv'
  OBVIOUS
<1>1. CASE Binding
  BY <1>1, BindingStep
<1>2. CASE Step
  <2>1. signature \in {BatchCall, ValidateCall}
    BY <1>2 DEF Step, Running, Program
  <2> QED BY <1>2, <2>1, BatchStep, ValidateStep
<1>3. CASE Call \/ UNCHANGED evars
  <2>1. UNCHANGED <<at, error, owned>> /\ UNCHANGED vars
    BY <1>3 DEF Call, evars
  <2> QED BY <2>1, Passed DEF EInv, BatchInv, ValidateInv
<1> QED BY <1>1, <1>2, <1>3 DEF ENext

(* The operation binds its arguments as the binding alone does.             *)
(* (argument_binding.rs:20-66)                                              *)
THEOREM BindingKept == ESpec => Spec
<1>1. EInit => Init
  BY DEF EInit
<1>2. [ENext]_evars => [Next]_vars
  BY DEF ENext, Binding, Step, Skip, Refusal, Exhausted, Do, Pass, Fail, Call, evars, vars
<1> QED BY <1>1, <1>2, PTL DEF ESpec, Spec

(* The invariant holds in every state. *)
THEOREM EInvariance == ESpec => []EInv
  BY EInitially, EStep, BindingKept, TypeCorrect, BoundCorrect, PTL DEF ESpec

(* The lists that were counted bound what was copied of them. *)
LEMMA CountsBound == TypeOK /\ EInv => WorkIsBounded
<1> SUFFICES ASSUME TypeOK, EInv, status = "bound" PROVE WorkIsBounded
  BY DEF WorkIsBounded
<1>1. {BATCH, PAIRS, THERMAL} \subseteq Nat
  BY EvidenceAssumption
<1>2. Len(<<>>) = 0
  OBVIOUS
<1>3. ASSUME signature = BatchCall
      PROVE  /\ \A i \in Lists : Len(owned[i]) =< BATCH
             /\ Len(owned[1]) * Len(owned[2]) =< PAIRS
             /\ error = "kind" => /\ \A i \in Lists : Length(i) =< BATCH
                                  /\ Length(1) * Length(2) =< PAIRS
  <2>1. BatchInv /\ Slots = 1 .. 6 /\ at \in Nat \ {0}
    BY <1>3, Programs DEF EInv
  <2>2. ASSUME at > 7, NEW i \in Lists
        PROVE  /\ Length(i) \in Nat
               /\ Given(i) => Length(i) = Len(values[i].items)
               /\ Length(i) =< BATCH
    <3>1. i \in Slots /\ at > i
      BY <2>1, <2>2 DEF Lists
    <3>2. Length(i) \in Nat
      BY <2>1, <3>1, ListIs DEF BatchInv, Length
    <3>3. ~(Length(i) > BATCH)
      BY <2>1, <2>2 DEF BatchInv, CountsExceed, Lists
    <3> QED BY <1>1, <3>2, <3>3 DEF Length
  <2>3. at > 7 => Length(1) * Length(2) =< PAIRS
    <3>1. SUFFICES ASSUME at > 7 PROVE Length(1) * Length(2) =< PAIRS
      OBVIOUS
    <3>2. ~(Length(1) * Length(2) > PAIRS)
      BY <2>1, <3>1 DEF BatchInv, CountsExceed
    <3>3. Length(1) \in Nat /\ Length(2) \in Nat
      BY <2>2, <3>1 DEF Lists
    <3>4. Length(1) * Length(2) \in Nat
      BY <3>3
    <3> QED BY <1>1, <3>2, <3>4
  <2>4. ASSUME NEW i \in Lists
        PROVE  /\ Len(owned[i]) = 0 \/ (at > 7 /\ Len(owned[i]) = Length(i))
               /\ Len(owned[i]) \in Nat
    <3>1. CASE owned[i] = <<>>
      BY <1>2, <3>1
    <3>2. CASE owned[i] # <<>>
      <4>1. Given(i) /\ owned[i] = values[i].items /\ at > 7
        BY <2>1, <3>2 DEF BatchInv
      <4>2. Length(i) \in Nat /\ Length(i) = Len(owned[i])
        BY <2>2, <4>1
      <4> QED BY <4>1, <4>2
    <3> QED BY <3>1, <3>2
  <2>5. \A i \in Lists : Len(owned[i]) =< BATCH
    BY <1>1, <2>2, <2>4
  <2>6. Len(owned[1]) * Len(owned[2]) =< PAIRS
    <3> DEFINE a == Len(owned[1])
               b == Len(owned[2])
    <3>1. a \in Nat /\ b \in Nat
      BY <2>4 DEF Lists
    <3>2. CASE a = 0 \/ b = 0
      <4> HIDE DEF a, b
      <4>1. a * b = 0
        BY <3>1, <3>2
      <4>2. a * b =< PAIRS
        BY <1>1, <4>1
      <4> QED BY <4>2, Zenon DEF a, b
    <3>3. CASE a # 0 /\ b # 0
      <4>1. at > 7 /\ a = Length(1) /\ b = Length(2)
        BY <2>4, <3>3 DEF Lists
      <4> QED BY <2>3, <4>1
    <3> QED BY <3>2, <3>3
  <2>7. error = "kind" => at > 7
    BY <2>1 DEF BatchInv
  <2> QED BY <2>2, <2>3, <2>5, <2>6, <2>7
<1>4. ASSUME signature = ValidateCall PROVE Len(owned[6]) =< THERMAL
  <2>1. ValidateInv /\ at \in Nat
    BY <1>4 DEF EInv
  <2>2. CASE owned[6] = <<>>
    BY <1>1, <1>2, <2>2
  <2>3. CASE owned[6] # <<>>
    BY <2>1, <2>3 DEF ValidateInv
  <2> QED BY <2>2, <2>3
<1> QED BY <1>3, <1>4 DEF WorkIsBounded, Lists

(* For all limits and however long the lists are, no more is copied of them *)
(* than the limits allow, and no handle of a list that is too long is       *)
(* looked at.  (batch_admission.rs:53-82, validate_admission.rs:31-40)      *)
THEOREM WorkCorrect == ESpec => []WorkIsBounded
  BY EInvariance, BindingKept, TypeCorrect, CountsBound, PTL

-------------------------------------------------------------------------------
(* What core gets.  By slot: what is passed for it, the check that copies   *)
(* it and the one that clones its payload.                                  *)
KindOf ==
    IF signature = ValidateCall
    THEN <<"artifact", "artifact", "str", "str", "artifact", "list", "int", "str">>
    ELSE <<"list", "list", "str", "str", "list", "int">>

CopiedAt == IF signature = ValidateCall THEN <<1, 2, 9, 15, 5, 12, 13, 14>>
                                        ELSE <<11, 12, 8, 14, 13, 10>>

ClonedAt == IF signature = ValidateCall THEN <<16, 17, 0, 0, 18, 19, 0, 0>>
                                        ELSE <<15, 16, 0, 0, 17, 0>>

Evidential(i) == KindOf[i] \in {"artifact", "list"}

CopyOf(i) == CASE KindOf[i] = "artifact"   -> <<values[i]>>
               [] KindOf[i] = "list"       -> values[i].items
               [] i = 4                    -> values[i].name
               [] OTHER                    -> values[i]

SlotInv(i) ==
    /\ at > i /\ Given(i) => values[i].is = KindOf[i]
    /\ at > CopiedAt[i] /\ Given(i) => owned[i] = CopyOf(i)
    /\ at > CopiedAt[i] /\ ~Given(i) /\ i = 4 => owned[i] = "contract_only"
    /\ ~Given(i) /\ i # 4 => owned[i] = <<>>
    /\ ~Given(i) => payload[i] = <<>>
    /\ Evidential(i) /\ at > ClonedAt[i] /\ Given(i) => payload[i] = CopyOf(i)

Detailed == signature \in {ValidateCall, BatchCall}

CoreInv ==
    /\ at \in Nat \ {0} /\ DOMAIN owned = Slots /\ DOMAIN payload = Slots
    /\ status # "bound" => at = 1 /\ \A i \in Slots : owned[i] = <<>> /\ payload[i] = <<>>
    /\ status = "bound" /\ Detailed => \A i \in Slots : SlotInv(i)
    /\ core # {} => /\ status = "bound" /\ Detailed /\ at > Len(Program)
                    /\ core = {[evidence |-> payload, options |-> owned]}

(* What a program says of its slots. *)
Planned(P, n, kind, copied, cloned) ==
    /\ \A i \in 1 .. n :
          /\ P[i].slot = i
          /\ \/ P[i].do = "exact" /\ P[i].arg = kind[i]
             \/ P[i].do = "handle" /\ kind[i] = "artifact"
          /\ P[copied[i]].slot = i /\ Owns(P[copied[i]])
          /\ i = 4 <=> P[copied[i]].do = "mode"
          /\ kind[i] = "artifact" <=> P[copied[i]].do = "handle"
          /\ kind[i] = "list" <=> P[copied[i]].do = "handles"
          /\ kind[i] \in {"artifact", "list"} =>
                /\ P[cloned[i]].slot = i /\ P[cloned[i]].do = "payload"
                /\ cloned[i] > copied[i]
    /\ \A k \in DOMAIN P :
          /\ P[k].slot \in 1 .. n
          /\ P[k].do = "mode" => P[k].slot = 4
          /\ Owns(P[k]) => k =< copied[P[k].slot]
          /\ P[k].do = "payload" =>
                k = cloned[P[k].slot] /\ kind[P[k].slot] \in {"artifact", "list"}

(* That of validate.  (validate_admission.rs:43-80, core_calls.rs:61-93) *)
LEMMA ValidatePlan ==
    Planned(ValidateProgram, 8,
            <<"artifact", "artifact", "str", "str", "artifact", "list", "int", "str">>,
            <<1, 2, 9, 15, 5, 12, 13, 14>>, <<16, 17, 0, 0, 18, 19, 0, 0>>)
  BY DEF Planned, ValidateProgram, Check, Owns

(* That of classify_batch.  (batch_admission.rs:39-97, batch.rs:19-55) *)
LEMMA BatchPlan ==
    Planned(BatchProgram, 6, <<"list", "list", "str", "str", "list", "int">>,
            <<11, 12, 8, 14, 13, 10>>, <<15, 16, 0, 0, 17, 0>>)
  BY DEF Planned, BatchProgram, Check, Owns

(* Either of them. *)
LEMMA Plan ==
    ASSUME Detailed
    PROVE  /\ Planned(Program, signature.slots, KindOf, CopiedAt, ClonedAt)
           /\ signature.slots \in {6, 8} /\ Slots = 1 .. signature.slots
           /\ Len(Program) \in {17, 19} /\ DOMAIN Program = 1 .. Len(Program)
           /\ \A i \in Slots : /\ CopiedAt[i] \in 1 .. Len(Program)
                               /\ ClonedAt[i] \in 0 .. Len(Program)
                               /\ i =< CopiedAt[i] /\ i \in 1 .. Len(Program)
                               /\ KindOf[i] \in {"artifact", "list", "str", "int"}
                               /\ Evidential(i) => ClonedAt[i] > CopiedAt[i]
<1>1. CASE signature = ValidateCall
  <2>1. /\ Program = ValidateProgram /\ Slots = 1 .. 8 /\ signature.slots = 8
    BY <1>1, Programs DEF ValidateCall
  <2>2. Len(Program) = 19 /\ DOMAIN Program = 1 .. 19
    BY <2>1, ValidateChecks DEF ValidateProgram
  <2>3. Planned(Program, 8, KindOf, CopiedAt, ClonedAt)
    BY <1>1, <2>1, ValidatePlan DEF KindOf, CopiedAt, ClonedAt
  <2>4. \A i \in 1 .. 8 : /\ CopiedAt[i] \in 1 .. 19 /\ ClonedAt[i] \in 0 .. 19
                          /\ i =< CopiedAt[i]
                          /\ KindOf[i] \in {"artifact", "list", "str", "int"}
                          /\ Evidential(i) => ClonedAt[i] > CopiedAt[i]
    BY <1>1 DEF KindOf, CopiedAt, ClonedAt, Evidential
  <2> QED BY <2>1, <2>2, <2>3, <2>4
<1>2. CASE signature = BatchCall
  <2>1. /\ Program = BatchProgram /\ Slots = 1 .. 6 /\ signature.slots = 6
        /\ signature # ValidateCall
    BY <1>2, Programs DEF BatchCall
  <2>2. Len(Program) = 17 /\ DOMAIN Program = 1 .. 17
    BY <2>1, BatchChecks DEF BatchProgram
  <2>3. Planned(Program, 6, KindOf, CopiedAt, ClonedAt)
    BY <2>1, BatchPlan DEF KindOf, CopiedAt, ClonedAt
  <2>4. \A i \in 1 .. 6 : /\ CopiedAt[i] \in 1 .. 17 /\ ClonedAt[i] \in 0 .. 17
                          /\ i =< CopiedAt[i]
                          /\ KindOf[i] \in {"artifact", "list", "str", "int"}
                          /\ Evidential(i) => ClonedAt[i] > CopiedAt[i]
    BY <2>1 DEF KindOf, CopiedAt, ClonedAt, Evidential
  <2> QED BY <2>1, <2>2, <2>3, <2>4
<1> QED BY <1>1, <1>2 DEF Detailed

(* What a check that passes leaves of a slot, in terms of the state before. *)
SlotNext(i) ==
    /\ at + 1 > i /\ Given(i) => values[i].is = KindOf[i]
    /\ at + 1 > CopiedAt[i] /\ Given(i) => owned'[i] = CopyOf(i)
    /\ at + 1 > CopiedAt[i] /\ ~Given(i) /\ i = 4 => owned'[i] = "contract_only"
    /\ ~Given(i) /\ i # 4 => owned'[i] = <<>>
    /\ ~Given(i) => payload'[i] = <<>>
    /\ Evidential(i) /\ at + 1 > ClonedAt[i] /\ Given(i) => payload'[i] = CopyOf(i)

(* A check that passes does to a slot what the program says of it. *)
LEMMA SlotStep ==
    ASSUME CoreInv, Detailed, Running, NEW i \in Slots,
           Skip(Program[at]) \/ Do(Program[at])
    PROVE  SlotNext(i)
<1> DEFINE check == Program[at]
           s == check.slot
<1>1. /\ at \in Nat \ {0} /\ at \in DOMAIN Program /\ SlotInv(i)
      /\ DOMAIN owned = Slots /\ DOMAIN payload = Slots
      /\ Slots = 1 .. signature.slots
      /\ CopiedAt[i] \in Nat /\ ClonedAt[i] \in Nat /\ i \in Nat
      /\ Evidential(i) => ClonedAt[i] > CopiedAt[i]
      /\ KindOf[i] \in {"artifact", "list", "str", "int"}
  BY Plan DEF Running, CoreInv
<1>2. /\ s \in Slots
      /\ check.do = "mode" => s = 4
      /\ Owns(check) => at =< CopiedAt[s]
      /\ check.do = "payload" => at = ClonedAt[s] /\ Evidential(s)
  BY <1>1, Plan DEF Planned, Evidential
<1>3. at = i => /\ s = i
                /\ \/ check.do = "exact" /\ check.arg = KindOf[i]
                   \/ check.do = "handle" /\ KindOf[i] = "artifact"
  BY <1>1, Plan DEF Planned
<1>4. at = CopiedAt[i] => /\ s = i /\ Owns(check)
                          /\ i = 4 <=> check.do = "mode"
                          /\ KindOf[i] = "artifact" <=> check.do = "handle"
                          /\ KindOf[i] = "list" <=> check.do = "handles"
  BY <1>1, Plan DEF Planned
<1>5. at = ClonedAt[i] /\ Evidential(i) => s = i /\ check.do = "payload"
  BY <1>1, Plan DEF Planned, Evidential
<1> HIDE DEF check
<1>6. Skip(check) \/ Do(check)
  BY DEF check
<1>7. ~Given(s) => /\ owned' = IF check.do = "mode" THEN [owned EXCEPT ![s] = "contract_only"]
                               ELSE owned
                   /\ payload' = payload
  BY <1>6 DEF Skip, Do
<1>8. Given(s) => /\ CheckErrors(check) = {}
                  /\ owned' = IF Owns(check) THEN [owned EXCEPT ![s] = Copied(check)] ELSE owned
                  /\ payload' = IF check.do = "payload"
                                THEN [payload EXCEPT ![s] = owned[s]] ELSE payload
  BY <1>6 DEF Skip, Do
<1>9. check.do = "mode" => Owns(check)
  BY DEF Owns
<1>10. ~(Owns(check) /\ s = i) => owned'[i] = owned[i]
  BY <1>1, <1>2, <1>7, <1>8, <1>9
<1>11. ~(check.do = "payload" /\ s = i) => payload'[i] = payload[i]
  BY <1>1, <1>2, <1>7, <1>8
<1>12. ASSUME at + 1 > i, Given(i) PROVE values[i].is = KindOf[i]
  <2>1. CASE at = i
    <3>1. CheckErrors(check) = {} /\ s = i
      BY <1>3, <1>8, <1>12, <2>1
    <3>2. CASE check.do = "exact" /\ check.arg = KindOf[i]
      BY <3>1, <3>2 DEF CheckErrors
    <3>3. CASE check.do = "handle" /\ KindOf[i] = "artifact"
      BY <3>1, <3>3 DEF CheckErrors, HandleErrors
    <3> QED BY <1>3, <2>1, <3>2, <3>3
  <2>2. CASE at # i
    BY <1>1, <1>12, <2>2 DEF SlotInv
  <2> QED BY <2>1, <2>2
<1>13. ASSUME at + 1 > CopiedAt[i], Given(i) PROVE owned'[i] = CopyOf(i)
  <2>1. CASE at = CopiedAt[i]
    <3>1. owned'[i] = Copied(check) /\ s = i /\ Owns(check)
      BY <1>1, <1>4, <1>8, <1>13, <2>1
    <3>2. Copied(check) = CopyOf(i)
      BY <1>1, <1>4, <2>1, <3>1 DEF Copied, CopyOf, Owns
    <3> QED BY <3>1, <3>2
  <2>2. CASE at # CopiedAt[i]
    BY <1>1, <1>2, <1>10, <1>13, <2>2 DEF SlotInv
  <2> QED BY <2>1, <2>2
<1>14. ASSUME at + 1 > CopiedAt[i], ~Given(i), i = 4 PROVE owned'[i] = "contract_only"
  <2>1. CASE at = CopiedAt[i]
    BY <1>1, <1>4, <1>7, <1>14, <2>1
  <2>2. CASE at # CopiedAt[i]
    BY <1>1, <1>2, <1>10, <1>14, <2>2 DEF SlotInv
  <2> QED BY <2>1, <2>2
<1>15. ASSUME ~Given(i) PROVE /\ i # 4 => owned'[i] = <<>>
                              /\ payload'[i] = <<>>
  BY <1>1, <1>2, <1>7, <1>10, <1>11, <1>15 DEF SlotInv
<1>16. ASSUME Evidential(i), at + 1 > ClonedAt[i], Given(i) PROVE payload'[i] = CopyOf(i)
  <2>1. CASE at = ClonedAt[i]
    <3>1. payload'[i] = owned[i]
      BY <1>1, <1>5, <1>8, <1>16, <2>1
    <3>2. owned[i] = CopyOf(i)
      BY <1>1, <1>16, <2>1 DEF SlotInv
    <3> QED BY <3>1, <3>2
  <2>2. CASE at # ClonedAt[i]
    BY <1>1, <1>2, <1>11, <1>16, <2>2 DEF SlotInv
  <2> QED BY <2>1, <2>2
<1> QED BY <1>12, <1>13, <1>14, <1>15, <1>16 DEF SlotNext

(* What is said of slots is said of the arguments, which do not change. *)
LEMMA PlanKept ==
    ASSUME UNCHANGED vars
    PROVE  /\ KindOf' = KindOf /\ CopiedAt' = CopiedAt /\ ClonedAt' = ClonedAt
           /\ \A i : CopyOf(i)' = CopyOf(i) /\ (Evidential(i)' <=> Evidential(i))
           /\ (Detailed' <=> Detailed) /\ Program' = Program
<1>1. UNCHANGED <<signature, values>>
  BY DEF vars
<1>2. KindOf' = KindOf /\ CopiedAt' = CopiedAt /\ ClonedAt' = ClonedAt
  BY <1>1 DEF KindOf, CopiedAt, ClonedAt
<1>3. \A i : CopyOf(i)' = CopyOf(i) /\ (Evidential(i)' <=> Evidential(i))
  BY <1>1, <1>2 DEF CopyOf, Evidential
<1>4. (Detailed' <=> Detailed) /\ Program' = Program
  BY <1>1 DEF Detailed, Program
<1> QED BY <1>2, <1>3, <1>4

(* Every step keeps what is said of the slots and of core. *)
LEMMA CoreStep == CoreInv /\ [ENext]_evars => CoreInv'
<1> SUFFICES ASSUME CoreInv, [ENext]_evars PROVE CoreInv'
  OBVIOUS
<1>1. CASE Binding
  <2>1. status # "bound" /\ UNCHANGED <<at, owned, payload, core, signature>>
    BY <1>1 DEF Binding, Next, Place, BindKeyword, CheckRequired, Refuse
  <2>2. /\ at = 1 /\ Slots' = Slots /\ core = {}
        /\ \A i \in Slots : owned[i] = <<>> /\ payload[i] = <<>>
    BY <2>1 DEF CoreInv, Slots
  <2>3. Detailed' => Detailed
    BY <2>1 DEF Detailed
  <2>4. ASSUME Detailed, NEW i \in Slots PROVE SlotInv(i)'
    <3>1. /\ i \in Nat \ {0} /\ CopiedAt[i] \in Nat \ {0} /\ ClonedAt[i] \in Nat
          /\ Evidential(i) => ClonedAt[i] > CopiedAt[i]
      BY <2>4, Plan
    <3>2. CopiedAt' = CopiedAt /\ ClonedAt' = ClonedAt /\ (Evidential(i)' <=> Evidential(i))
      BY <2>1 DEF CopiedAt, ClonedAt, Evidential, KindOf
    <3>3. /\ ~(1 > i) /\ ~(1 > CopiedAt[i])
          /\ Evidential(i) => ~(1 > ClonedAt[i])
      BY <3>1
    <3> QED BY <2>1, <2>2, <3>2, <3>3 DEF SlotInv
  <2> QED BY <2>1, <2>2, <2>3, <2>4 DEF CoreInv
<1>2. CASE Step
  <2> DEFINE check == Program[at]
  <2>1. /\ Running /\ Detailed /\ core = {} /\ UNCHANGED vars /\ core' = core
        /\ at \in 1 .. Len(Program) /\ status = "bound"
    <3>1. Running /\ Detailed /\ UNCHANGED vars /\ core' = core
      BY <1>2 DEF Step, Running, Program, Detailed, Skip, Refusal, Exhausted, Do, Pass, Fail
    <3>2. at \in 1 .. Len(Program) /\ Len(Program) \in Nat /\ status = "bound"
      BY <3>1, Plan DEF Running
    <3>3. core = {}
      BY <3>2 DEF CoreInv
    <3> QED BY <3>1, <3>2, <3>3
  <2>2. CASE Refusal(check) \/ Exhausted(check)
    <3>1. UNCHANGED <<at, owned, payload>>
      BY <2>2 DEF Refusal, Exhausted, Fail
    <3>2. ASSUME NEW i \in Slots PROVE SlotInv(i)'
      <4>1. SlotInv(i)
        BY <2>1 DEF CoreInv
      <4> QED BY <2>1, <3>1, <4>1, Passed, PlanKept DEF SlotInv
    <3> QED BY <2>1, <3>1, <3>2, Passed, PlanKept DEF CoreInv
  <2>3. CASE Skip(check) \/ Do(check)
    <3>1. at' = at + 1 /\ DOMAIN owned' = Slots /\ DOMAIN payload' = Slots
      BY <2>3 DEF Skip, Do, Pass, CoreInv
    <3>2. ASSUME NEW i \in Slots PROVE SlotInv(i)'
      <4>1. SlotNext(i)
        BY <2>1, <2>3, SlotStep
      <4> QED BY <2>1, <3>1, <4>1, Passed, PlanKept DEF SlotInv, SlotNext
    <3> QED BY <2>1, <3>1, <3>2, Passed, PlanKept DEF CoreInv
  <2> HIDE DEF check
  <2>4. Skip(check) \/ Do(check) \/ Refusal(check) \/ Exhausted(check)
    BY <1>2 DEF Step, check
  <2> QED BY <2>2, <2>3, <2>4
<1>3. CASE Call
  <2>1. /\ UNCHANGED vars /\ UNCHANGED <<at, owned, payload>> /\ status = "bound" /\ Detailed
        /\ at > Len(Program) /\ core' = {[evidence |-> payload, options |-> owned]}
    BY <1>3 DEF Call, Program, Detailed
  <2>2. ASSUME NEW i \in Slots PROVE SlotInv(i)'
    <3>1. SlotInv(i)
      BY <2>1 DEF CoreInv
    <3> QED BY <2>1, <3>1, Passed, PlanKept DEF SlotInv
  <2> QED BY <2>1, <2>2, Passed, PlanKept DEF CoreInv
<1>4. CASE UNCHANGED evars
  <2>1. UNCHANGED vars /\ UNCHANGED <<at, owned, payload, core>>
    BY <1>4 DEF evars
  <2>2. ASSUME NEW i \in Slots, SlotInv(i) PROVE SlotInv(i)'
    BY <2>1, <2>2, Passed, PlanKept DEF SlotInv
  <2> QED BY <2>1, <2>2, Passed, PlanKept DEF CoreInv
<1> QED BY <1>1, <1>2, <1>3, <1>4 DEF ENext

(* All checks done, a slot holds what was passed for it. *)
LEMMA CoreIsRequest == CoreInv => CoreGetsRequest
<1> SUFFICES ASSUME CoreInv, NEW request \in core, NEW i \in Slots
             PROVE  LET object == values[i] IN
                    IF ~Given(i)
                    THEN /\ request.evidence[i] = <<>>
                         /\ request.options[i] = IF i = 4 THEN "contract_only" ELSE <<>>
                    ELSE /\ object.is = "artifact" => request.evidence[i] = <<object>>
                         /\ object.is = "list" => request.evidence[i] = object.items
                         /\ i = 4 => request.options[i] = object.name
                         /\ object.is \in {"str", "int"} /\ i # 4 => request.options[i] = object
  BY DEF CoreGetsRequest
<1>1. /\ request.evidence = payload /\ request.options = owned /\ SlotInv(i) /\ Detailed
      /\ at > Len(Program) /\ at \in Nat
  BY DEF CoreInv
<1>2. /\ at > i /\ at > CopiedAt[i] /\ at > ClonedAt[i]
      /\ KindOf[i] \in {"artifact", "list", "str", "int"}
  BY <1>1, Plan
<1>3. i = 4 => ~Evidential(i)
  BY <1>1 DEF Detailed, Evidential, KindOf
<1> QED BY <1>1, <1>2, <1>3 DEF SlotInv, CopyOf, Evidential

(* For every request and all limits, core gets each handle the caller       *)
(* passed, in the caller's order, and each option as it was given.          *)
(* (core_calls.rs:61-93, batch.rs:19-55)                                    *)
THEOREM CoreCorrect == ESpec => []CoreGetsRequest
<1>1. EInit => CoreInv
  BY DEF EInit, Init, CoreInv
<1> QED BY <1>1, CoreStep, CoreIsRequest, PTL DEF ESpec

-------------------------------------------------------------------------------
(* Which requests are admitted.  A check other than the clone of a payload  *)
(* looks at the arguments alone.                                            *)
Passing(k) ==
    Program[k].do # "payload" /\ Given(Program[k].slot) => CheckErrors(Program[k]) = {}

AllPass == \A k \in DOMAIN Program : Passing(k)

(* A handle is refused for its type or its role and nothing else. *)
LEMMA HandleMeans ==
    ASSUME NEW object, NEW role
    PROVE  HandleErrors(object, role) = {} <=> Evidence(object, role)
  BY DEF HandleErrors, Evidence

(* A list of handles is refused exactly if one of them is. *)
LEMMA HandlesMean ==
    ASSUME NEW items \in Seq(Object), NEW role
    PROVE  FirstHandleErrors(items, role) = {} <=> \A o \in ToSet(items) : Evidence(o, role)
<1> DEFINE bad == {i \in DOMAIN items : HandleErrors(items[i], role) # {}}
           first == {j \in bad : \A k \in bad : j =< k}
<1>1. FirstHandleErrors(items, role) = UNION {HandleErrors(items[i], role) : i \in first}
  BY DEF FirstHandleErrors
<1>2. bad = {} <=> \A o \in ToSet(items) : Evidence(o, role)
  BY HandleMeans DEF ToSet
<1>3. bad \in SUBSET Nat
  OBVIOUS
<1>4. ASSUME bad # {} PROVE FirstHandleErrors(items, role) # {}
  <2>1. PICK i \in bad : \A k \in bad : i =< k
    <3> HIDE DEF bad
    <3> QED BY <1>3, <1>4, LeastNatural
  <2>2. HandleErrors(items[i], role) # {} /\ i \in first
    BY <2>1
  <2> QED BY <1>1, <2>2
<1>5. ASSUME bad = {} PROVE FirstHandleErrors(items, role) = {}
  BY <1>1, <1>5
<1> QED BY <1>2, <1>4, <1>5

(* What each check of the arguments means, given that it is asked. *)
LEMMA CheckMeans ==
    ASSUME NEW s, NEW a
    PROVE  /\ CheckErrors(Check("exact", s, a)) = {} <=> values[s].is = a
           /\ CheckErrors(Check("handle", s, a)) = {} <=> Evidence(values[s], a)
           /\ CheckErrors(Check("count", s, a)) = {} <=> ~(Len(values[s].items) > a)
           /\ CheckErrors(Check("counts", s, a)) = {} <=> ~CountsExceed(a)
           /\ CheckErrors(Check("text", s, a)) = {} <=>
                 ~(values[s].bytes > a) /\ ~values[s].lone_surrogate
           /\ CheckErrors(Check("number", s, a)) = {} <=> values[s].u64
           /\ CheckErrors(Check("handles", s, a)) =
                 FirstHandleErrors(values[s].items, a)
           /\ CheckErrors(Check("mode", s, a)) = {} <=> values[s].name \in Modes
<1>1. CheckErrors(Check("exact", s, a)) = {} <=> values[s].is = a
  BY DEF CheckErrors, Check
<1>2. CheckErrors(Check("handle", s, a)) = {} <=> Evidence(values[s], a)
  BY HandleMeans DEF CheckErrors, Check
<1>3. CheckErrors(Check("count", s, a)) = {} <=> ~(Len(values[s].items) > a)
  BY DEF CheckErrors, Check
<1>4. CheckErrors(Check("counts", s, a)) = {} <=> ~CountsExceed(a)
  BY DEF CheckErrors, Check
<1>5. CheckErrors(Check("text", s, a)) = {} <=>
                 ~(values[s].bytes > a) /\ ~values[s].lone_surrogate
  BY DEF CheckErrors, Check
<1>6. CheckErrors(Check("number", s, a)) = {} <=> values[s].u64
  BY DEF CheckErrors, Check
<1>7. CheckErrors(Check("handles", s, a)) = FirstHandleErrors(values[s].items, a)
  BY DEF CheckErrors, Check
<1>8. CheckErrors(Check("mode", s, a)) = {} <=> values[s].name \in Modes
  BY DEF CheckErrors, Check
<1> QED BY <1>1, <1>2, <1>3, <1>4, <1>5, <1>6, <1>7, <1>8

(* All checks of validate pass. *)
LEMMA ValidatePasses ==
    ASSUME signature = ValidateCall
    PROVE  AllPass <=>
             /\ Given(1) => CheckErrors(Check("handle", 1, "Contract")) = {}
             /\ Given(2) => CheckErrors(Check("handle", 2, "Profile")) = {}
             /\ Given(3) => /\ CheckErrors(Check("exact", 3, "str")) = {}
                            /\ CheckErrors(Check("text", 3, AT_BYTES)) = {}
             /\ Given(4) => /\ CheckErrors(Check("exact", 4, "str")) = {}
                            /\ CheckErrors(Check("text", 4, MODE_BYTES)) = {}
                            /\ CheckErrors(Check("mode", 4, 0)) = {}
             /\ Given(5) => CheckErrors(Check("handle", 5, "State")) = {}
             /\ Given(6) => /\ CheckErrors(Check("exact", 6, "list")) = {}
                            /\ CheckErrors(Check("count", 6, THERMAL)) = {}
                            /\ CheckErrors(Check("handles", 6, "Thermal")) = {}
             /\ Given(7) => /\ CheckErrors(Check("exact", 7, "int")) = {}
                            /\ CheckErrors(Check("number", 7, 0)) = {}
             /\ Given(8) => /\ CheckErrors(Check("exact", 8, "str")) = {}
                            /\ CheckErrors(Check("text", 8, NOTES_BYTES)) = {}
<1>1. Program = ValidateProgram
  BY Programs
<1>2. /\ DOMAIN ValidateProgram = 1 .. 19
      /\ ValidateProgram[1] = Check("handle", 1, "Contract")
      /\ ValidateProgram[2] = Check("handle", 2, "Profile")
      /\ ValidateProgram[3] = Check("exact", 3, "str")
      /\ ValidateProgram[4] = Check("exact", 4, "str")
      /\ ValidateProgram[5] = Check("handle", 5, "State")
      /\ ValidateProgram[6] = Check("exact", 6, "list")
      /\ ValidateProgram[7] = Check("exact", 7, "int")
      /\ ValidateProgram[8] = Check("exact", 8, "str")
      /\ ValidateProgram[9] = Check("text", 3, AT_BYTES)
      /\ ValidateProgram[10] = Check("text", 4, MODE_BYTES)
      /\ ValidateProgram[11] = Check("count", 6, THERMAL)
      /\ ValidateProgram[12] = Check("handles", 6, "Thermal")
      /\ ValidateProgram[13] = Check("number", 7, 0)
      /\ ValidateProgram[14] = Check("text", 8, NOTES_BYTES)
      /\ ValidateProgram[15] = Check("mode", 4, 0)
      /\ \A k \in 16 .. 19 : ValidateProgram[k].do = "payload"
  BY DEF ValidateProgram, Check
<1>3. \A d, s, a : Check(d, s, a).do = d /\ Check(d, s, a).slot = s
  BY DEF Check
<1>4. AllPass <=> \A k \in 1 .. 15 : Passing(k)
  BY <1>1, <1>2 DEF AllPass, Passing
<1>5. \A k \in 1 .. 15 : Passing(k) <=>
         (Given(ValidateProgram[k].slot) => CheckErrors(ValidateProgram[k]) = {})
  BY <1>1, <1>2, <1>3 DEF Passing
<1>6. /\ Passing(1) <=> (Given(1) => CheckErrors(Check("handle", 1, "Contract")) = {})
      /\ Passing(2) <=> (Given(2) => CheckErrors(Check("handle", 2, "Profile")) = {})
      /\ Passing(3) <=> (Given(3) => CheckErrors(Check("exact", 3, "str")) = {})
      /\ Passing(4) <=> (Given(4) => CheckErrors(Check("exact", 4, "str")) = {})
      /\ Passing(5) <=> (Given(5) => CheckErrors(Check("handle", 5, "State")) = {})
      /\ Passing(6) <=> (Given(6) => CheckErrors(Check("exact", 6, "list")) = {})
      /\ Passing(7) <=> (Given(7) => CheckErrors(Check("exact", 7, "int")) = {})
      /\ Passing(8) <=> (Given(8) => CheckErrors(Check("exact", 8, "str")) = {})
      /\ Passing(9) <=> (Given(3) => CheckErrors(Check("text", 3, AT_BYTES)) = {})
      /\ Passing(10) <=> (Given(4) => CheckErrors(Check("text", 4, MODE_BYTES)) = {})
      /\ Passing(11) <=> (Given(6) => CheckErrors(Check("count", 6, THERMAL)) = {})
      /\ Passing(12) <=> (Given(6) => CheckErrors(Check("handles", 6, "Thermal")) = {})
      /\ Passing(13) <=> (Given(7) => CheckErrors(Check("number", 7, 0)) = {})
      /\ Passing(14) <=> (Given(8) => CheckErrors(Check("text", 8, NOTES_BYTES)) = {})
      /\ Passing(15) <=> (Given(4) => CheckErrors(Check("mode", 4, 0)) = {})
  BY <1>2, <1>3, <1>5
<1>7. (\A k \in 1 .. 15 : Passing(k)) <=>
         /\ Passing(1) /\ Passing(2) /\ Passing(3) /\ Passing(4) /\ Passing(5)
         /\ Passing(6) /\ Passing(7) /\ Passing(8) /\ Passing(9) /\ Passing(10)
         /\ Passing(11) /\ Passing(12) /\ Passing(13) /\ Passing(14) /\ Passing(15)
  OBVIOUS
<1> QED BY <1>4, <1>6, <1>7

(* All checks of classify_batch pass. *)
LEMMA BatchPasses ==
    ASSUME signature = BatchCall
    PROVE  AllPass <=>
             /\ Given(1) => /\ CheckErrors(Check("exact", 1, "list")) = {}
                            /\ CheckErrors(Check("counts", 1, BATCH)) = {}
                            /\ CheckErrors(Check("handles", 1, "Contract")) = {}
             /\ Given(2) => /\ CheckErrors(Check("exact", 2, "list")) = {}
                            /\ CheckErrors(Check("handles", 2, "Profile")) = {}
             /\ Given(3) => /\ CheckErrors(Check("exact", 3, "str")) = {}
                            /\ CheckErrors(Check("text", 3, AT_BYTES)) = {}
             /\ Given(4) => /\ CheckErrors(Check("exact", 4, "str")) = {}
                            /\ CheckErrors(Check("text", 4, MODE_BYTES)) = {}
                            /\ CheckErrors(Check("mode", 4, 0)) = {}
             /\ Given(5) => /\ CheckErrors(Check("exact", 5, "list")) = {}
                            /\ CheckErrors(Check("handles", 5, "State")) = {}
             /\ Given(6) => /\ CheckErrors(Check("exact", 6, "int")) = {}
                            /\ CheckErrors(Check("number", 6, 0)) = {}
<1>1. Program = BatchProgram
  BY Programs
<1>2. /\ DOMAIN BatchProgram = 1 .. 17
      /\ BatchProgram[1] = Check("exact", 1, "list")
      /\ BatchProgram[2] = Check("exact", 2, "list")
      /\ BatchProgram[3] = Check("exact", 3, "str")
      /\ BatchProgram[4] = Check("exact", 4, "str")
      /\ BatchProgram[5] = Check("exact", 5, "list")
      /\ BatchProgram[6] = Check("exact", 6, "int")
      /\ BatchProgram[7] = Check("counts", 1, BATCH)
      /\ BatchProgram[8] = Check("text", 3, AT_BYTES)
      /\ BatchProgram[9] = Check("text", 4, MODE_BYTES)
      /\ BatchProgram[10] = Check("number", 6, 0)
      /\ BatchProgram[11] = Check("handles", 1, "Contract")
      /\ BatchProgram[12] = Check("handles", 2, "Profile")
      /\ BatchProgram[13] = Check("handles", 5, "State")
      /\ BatchProgram[14] = Check("mode", 4, 0)
      /\ \A k \in 15 .. 17 : BatchProgram[k].do = "payload"
  BY DEF BatchProgram, Check
<1>3. \A d, s, a : Check(d, s, a).do = d /\ Check(d, s, a).slot = s
  BY DEF Check
<1>4. AllPass <=> \A k \in 1 .. 14 : Passing(k)
  BY <1>1, <1>2 DEF AllPass, Passing
<1>5. \A k \in 1 .. 14 : Passing(k) <=>
         (Given(BatchProgram[k].slot) => CheckErrors(BatchProgram[k]) = {})
  BY <1>1, <1>2, <1>3 DEF Passing
<1>6. /\ Passing(1) <=> (Given(1) => CheckErrors(Check("exact", 1, "list")) = {})
      /\ Passing(2) <=> (Given(2) => CheckErrors(Check("exact", 2, "list")) = {})
      /\ Passing(3) <=> (Given(3) => CheckErrors(Check("exact", 3, "str")) = {})
      /\ Passing(4) <=> (Given(4) => CheckErrors(Check("exact", 4, "str")) = {})
      /\ Passing(5) <=> (Given(5) => CheckErrors(Check("exact", 5, "list")) = {})
      /\ Passing(6) <=> (Given(6) => CheckErrors(Check("exact", 6, "int")) = {})
      /\ Passing(7) <=> (Given(1) => CheckErrors(Check("counts", 1, BATCH)) = {})
      /\ Passing(8) <=> (Given(3) => CheckErrors(Check("text", 3, AT_BYTES)) = {})
      /\ Passing(9) <=> (Given(4) => CheckErrors(Check("text", 4, MODE_BYTES)) = {})
      /\ Passing(10) <=> (Given(6) => CheckErrors(Check("number", 6, 0)) = {})
      /\ Passing(11) <=> (Given(1) => CheckErrors(Check("handles", 1, "Contract")) = {})
      /\ Passing(12) <=> (Given(2) => CheckErrors(Check("handles", 2, "Profile")) = {})
      /\ Passing(13) <=> (Given(5) => CheckErrors(Check("handles", 5, "State")) = {})
      /\ Passing(14) <=> (Given(4) => CheckErrors(Check("mode", 4, 0)) = {})
  BY <1>2, <1>3, <1>5
<1>7. (\A k \in 1 .. 14 : Passing(k)) <=>
         /\ Passing(1) /\ Passing(2) /\ Passing(3) /\ Passing(4) /\ Passing(5)
         /\ Passing(6) /\ Passing(7) /\ Passing(8) /\ Passing(9) /\ Passing(10)
         /\ Passing(11) /\ Passing(12) /\ Passing(13) /\ Passing(14)
  OBVIOUS
<1> QED BY <1>4, <1>6, <1>7

(* A text passes its checks exactly if it is fine; so does a mode, an age   *)
(* and a list of evidence that is not too long.                             *)
LEMMA ObjectsMean ==
    ASSUME NEW s, values[s] \in Object, NEW a
    PROVE  /\ a \in Nat =>
                (FineText(values[s], a) <=> /\ CheckErrors(Check("exact", s, "str")) = {}
                                            /\ CheckErrors(Check("text", s, a)) = {})
           /\ FineMode(values[s]) <=> /\ CheckErrors(Check("exact", s, "str")) = {}
                                      /\ CheckErrors(Check("text", s, MODE_BYTES)) = {}
                                      /\ CheckErrors(Check("mode", s, 0)) = {}
           /\ FineAge(values[s]) <=> /\ CheckErrors(Check("exact", s, "int")) = {}
                                     /\ CheckErrors(Check("number", s, 0)) = {}
           /\ \A cap \in Nat :
                 EvidenceList(values[s], a, cap) <=>
                    /\ CheckErrors(Check("exact", s, "list")) = {}
                    /\ ~(Len(values[s].items) > cap)
                    /\ CheckErrors(Check("handles", s, a)) = {}
<1> DEFINE o == values[s]
<1>1. /\ o.is = "str" => o.bytes \in Nat
      /\ o.is = "list" => o.items \in Seq(Object) /\ Len(o.items) \in Nat
      /\ MODE_BYTES \in Nat
  BY EvidenceAssumption
<1> HIDE DEF o
<1>2. ASSUME NEW limit \in Nat
      PROVE  FineText(o, limit) <=> /\ CheckErrors(Check("exact", s, "str")) = {}
                                    /\ CheckErrors(Check("text", s, limit)) = {}
  <2>1. CheckErrors(Check("exact", s, "str")) = {} <=> o.is = "str"
    BY CheckMeans DEF o
  <2>2. CheckErrors(Check("text", s, limit)) = {} <=> ~(o.bytes > limit) /\ ~o.lone_surrogate
    BY CheckMeans DEF o
  <2>3. o.is = "str" => (~(o.bytes > limit) <=> o.bytes =< limit)
    BY <1>1
  <2> QED BY <2>1, <2>2, <2>3 DEF FineText
<1>3. CheckErrors(Check("mode", s, 0)) = {} <=> o.name \in Modes
  BY CheckMeans DEF o
<1>4. FineAge(o) <=> /\ CheckErrors(Check("exact", s, "int")) = {}
                     /\ CheckErrors(Check("number", s, 0)) = {}
  BY CheckMeans DEF o, FineAge
<1>5. ASSUME NEW cap \in Nat
      PROVE  EvidenceList(o, a, cap) <=>
                    /\ CheckErrors(Check("exact", s, "list")) = {}
                    /\ ~(Len(o.items) > cap)
                    /\ CheckErrors(Check("handles", s, a)) = {}
  <2>1. CheckErrors(Check("exact", s, "list")) = {} <=> o.is = "list"
    BY CheckMeans DEF o
  <2>2. CheckErrors(Check("handles", s, a)) = FirstHandleErrors(o.items, a)
    BY CheckMeans DEF o
  <2>3. o.is = "list" => /\ ~(Len(o.items) > cap) <=> Len(o.items) =< cap
                         /\ FirstHandleErrors(o.items, a) = {} <=>
                               \A x \in ToSet(o.items) : Evidence(x, a)
    BY <1>1, HandlesMean
  <2> QED BY <2>1, <2>2, <2>3 DEF EvidenceList
<1>6. FineMode(o) <=> /\ CheckErrors(Check("exact", s, "str")) = {}
                      /\ CheckErrors(Check("text", s, MODE_BYTES)) = {}
                      /\ CheckErrors(Check("mode", s, 0)) = {}
  BY <1>1, <1>2, <1>3 DEF FineMode
<1> QED BY <1>2, <1>4, <1>5, <1>6 DEF o

(* What is given of a request that is bound. *)
LEMMA GivenIs ==
    ASSUME TypeOK, BoundAsPassed, status = "bound", Detailed, NEW i \in Slots
    PROVE  /\ Given(i) => values[i] \in Object
           /\ i =< 3 => Given(i)
           /\ i =< 4 => (Given(i) <=> values[i] # Absent)
           /\ i > 4 => (Given(i) <=> values[i] # Absent /\ values[i] # None)
<1>1. i \in Nat /\ signature.required = 3
  BY Programs DEF Detailed, ValidateCall, BatchCall
<1>2. values[i] \in Object \cup {Absent}
  BY DEF TypeOK
<1>3. i =< 3 => values[i] # Absent
  BY <1>1 DEF BoundAsPassed
<1> QED BY <1>1, <1>2, <1>3 DEF Given, NoneIsAbsent

(* The requests of validate that pass all checks are the admissible ones. *)
LEMMA ValidateAdmits ==
    ASSUME TypeOK, BoundAsPassed, status = "bound", signature = ValidateCall
    PROVE  Admissible <=> AllPass
<1>1. Slots = 1 .. 8 /\ Detailed
  BY Programs DEF Detailed
<1>2. Admissible <=> \A i \in 1 .. 8 : values[i] # Absent => ValidateSlot(i, values[i])
  BY <1>1 DEF Admissible
<1>3. {AT_BYTES, MODE_BYTES, NOTES_BYTES, THERMAL} \subseteq Nat
  BY EvidenceAssumption
<1> DEFINE Fits(i) == values[i] # Absent => ValidateSlot(i, values[i])
<1>4. Fits(1) <=> (Given(1) => CheckErrors(Check("handle", 1, "Contract")) = {})
  BY <1>1, GivenIs, CheckMeans DEF ValidateSlot
<1>5. Fits(2) <=> (Given(2) => CheckErrors(Check("handle", 2, "Profile")) = {})
  BY <1>1, GivenIs, CheckMeans DEF ValidateSlot
<1>6. Fits(3) <=> (Given(3) => /\ CheckErrors(Check("exact", 3, "str")) = {}
                               /\ CheckErrors(Check("text", 3, AT_BYTES)) = {})
  <2>1. Fits(3) <=> (Given(3) => FineText(values[3], AT_BYTES))
    BY <1>1, GivenIs DEF ValidateSlot
  <2>2. Given(3) => values[3] \in Object
    BY <1>1, GivenIs
  <2> QED BY <1>3, <2>1, <2>2, ObjectsMean
<1>7. Fits(4) <=> (Given(4) => /\ CheckErrors(Check("exact", 4, "str")) = {}
                               /\ CheckErrors(Check("text", 4, MODE_BYTES)) = {}
                               /\ CheckErrors(Check("mode", 4, 0)) = {})
  <2>1. Fits(4) <=> (Given(4) => FineMode(values[4]))
    BY <1>1, GivenIs DEF ValidateSlot
  <2>2. Given(4) => values[4] \in Object
    BY <1>1, GivenIs
  <2> QED BY <2>1, <2>2, ObjectsMean
<1>8. Fits(5) <=> (Given(5) => CheckErrors(Check("handle", 5, "State")) = {})
  BY <1>1, GivenIs, CheckMeans DEF ValidateSlot
<1>9. Fits(6) <=> (Given(6) => /\ CheckErrors(Check("exact", 6, "list")) = {}
                               /\ CheckErrors(Check("count", 6, THERMAL)) = {}
                               /\ CheckErrors(Check("handles", 6, "Thermal")) = {})
  <2>1. Fits(6) <=> (Given(6) => EvidenceList(values[6], "Thermal", THERMAL))
    BY <1>1, GivenIs DEF ValidateSlot
  <2>2. Given(6) => values[6] \in Object
    BY <1>1, GivenIs
  <2>3. CheckErrors(Check("count", 6, THERMAL)) = {} <=> ~(Len(values[6].items) > THERMAL)
    BY CheckMeans
  <2> QED BY <1>3, <2>1, <2>2, <2>3, ObjectsMean
<1>10. Fits(7) <=> (Given(7) => /\ CheckErrors(Check("exact", 7, "int")) = {}
                                /\ CheckErrors(Check("number", 7, 0)) = {})
  <2>1. Fits(7) <=> (Given(7) => FineAge(values[7]))
    BY <1>1, GivenIs DEF ValidateSlot
  <2>2. Given(7) => values[7] \in Object
    BY <1>1, GivenIs
  <2> QED BY <2>1, <2>2, ObjectsMean
<1>11. Fits(8) <=> (Given(8) => /\ CheckErrors(Check("exact", 8, "str")) = {}
                                /\ CheckErrors(Check("text", 8, NOTES_BYTES)) = {})
  <2>1. Fits(8) <=> (Given(8) => FineText(values[8], NOTES_BYTES))
    BY <1>1, GivenIs DEF ValidateSlot
  <2>2. Given(8) => values[8] \in Object
    BY <1>1, GivenIs
  <2> QED BY <1>3, <2>1, <2>2, ObjectsMean
<1>12. Admissible <=> \A i \in 1 .. 8 : Fits(i)
  BY <1>2
<1> HIDE DEF Fits
<1>13. Admissible <=> /\ Fits(1) /\ Fits(2) /\ Fits(3) /\ Fits(4)
                      /\ Fits(5) /\ Fits(6) /\ Fits(7) /\ Fits(8)
  BY <1>12
<1> QED BY <1>4, <1>5, <1>6, <1>7, <1>8, <1>9, <1>10, <1>11, <1>13, ValidatePasses

(* As many pairs as contracts times profiles. *)
LEMMA PairsAre ==
    ASSUME NEW a, NEW b, a.items \in Seq(Object), b.items \in Seq(Object)
    PROVE  Cardinality(PairsOf(a, b)) = Len(a.items) * Len(b.items)
<1> DEFINE A == DOMAIN a.items
           B == DOMAIN b.items
<1>1. \A n \in Nat : IsFiniteSet(1 .. n) /\ Cardinality(1 .. n) = n
  <2> TAKE n \in Nat
  <2>1. IsFiniteSet(1 .. n) /\ Cardinality(1 .. n) = IF 1 > n THEN 0 ELSE n - 1 + 1
    BY FS_Interval
  <2> QED BY <2>1
<1>2. A = 1 .. Len(a.items) /\ B = 1 .. Len(b.items) /\ Len(a.items) \in Nat /\ Len(b.items) \in Nat
  OBVIOUS
<1>3. /\ IsFiniteSet(A) /\ Cardinality(A) = Len(a.items)
      /\ IsFiniteSet(B) /\ Cardinality(B) = Len(b.items)
  BY <1>1, <1>2
<1>4. PairsOf(a, b) = A \X B
  BY DEF PairsOf
<1> HIDE DEF A, B
<1>5. Cardinality(A \X B) = Cardinality(A) * Cardinality(B)
  BY <1>3, FS_Product
<1> QED BY <1>3, <1>4, <1>5

(* A slot that is given a list is counted, another counts nothing. *)
LEMMA CountsMean ==
    ASSUME TypeOK, BoundAsPassed, status = "bound", signature = BatchCall,
           \A i \in Lists : Given(i) => values[i].is = "list"
    PROVE  CountsExceed(BATCH) <=>
              \/ \E i \in Lists : Given(i) /\ Len(values[i].items) > BATCH
              \/ Cardinality(PairsOf(values[1], values[2])) > PAIRS
<1>1. Slots = 1 .. 6 /\ Detailed
  BY Programs DEF Detailed
<1>2. Given(1) /\ Given(2)
  BY <1>1, GivenIs
<1>3. values[1].items \in Seq(Object) /\ values[2].items \in Seq(Object)
  BY <1>1, <1>2, ListIs DEF Lists
<1>4. Length(1) * Length(2) = Cardinality(PairsOf(values[1], values[2]))
  <2>1. Length(1) = Len(values[1].items) /\ Length(2) = Len(values[2].items)
    BY <1>2 DEF Length
  <2>2. Cardinality(PairsOf(values[1], values[2])) = Len(values[1].items) * Len(values[2].items)
    BY <1>3, PairsAre
  <2> QED BY <2>1, <2>2, Zenon
<1>5. \A i \in Lists : Length(i) > BATCH <=> (Given(i) /\ Len(values[i].items) > BATCH)
  BY EvidenceAssumption DEF Length
<1>6. (Length(1) * Length(2) > PAIRS) <=> (Cardinality(PairsOf(values[1], values[2])) > PAIRS)
  BY <1>4, Zenon
<1> QED BY <1>5, <1>6, Zenon DEF CountsExceed, Lists

(* The requests of classify_batch that pass all checks are the admissible   *)
(* ones.                                                                    *)
LEMMA BatchAdmits ==
    ASSUME TypeOK, BoundAsPassed, status = "bound", signature = BatchCall
    PROVE  Admissible <=> AllPass
<1>1. Slots = 1 .. 6 /\ Detailed /\ signature # ValidateCall
  BY Programs DEF Detailed
<1> DEFINE Fits(i) == values[i] # Absent => BatchSlot(i, values[i])
           Few == Cardinality(PairsOf(values[1], values[2])) =< PAIRS
           Typed(i) == Given(i) => CheckErrors(Check("exact", i, "list")) = {}
           Short(i) == Given(i) => ~(Len(values[i].items) > BATCH)
<1>2. Admissible <=> (\A i \in 1 .. 6 : Fits(i)) /\ Few
  BY <1>1 DEF Admissible
<1>3. {AT_BYTES, MODE_BYTES, BATCH, PAIRS} \subseteq Nat
  BY EvidenceAssumption
<1>4. Fits(1) <=> /\ Typed(1) /\ Short(1)
                  /\ Given(1) => CheckErrors(Check("handles", 1, "Contract")) = {}
  <2>1. Fits(1) <=> (Given(1) => EvidenceList(values[1], "Contract", BATCH))
    BY <1>1, GivenIs DEF BatchSlot
  <2>2. Given(1) => values[1] \in Object
    BY <1>1, GivenIs
  <2> QED BY <1>3, <2>1, <2>2, ObjectsMean
<1>5. Fits(2) <=> /\ Typed(2) /\ Short(2)
                  /\ Given(2) => CheckErrors(Check("handles", 2, "Profile")) = {}
  <2>1. Fits(2) <=> (Given(2) => EvidenceList(values[2], "Profile", BATCH))
    BY <1>1, GivenIs DEF BatchSlot
  <2>2. Given(2) => values[2] \in Object
    BY <1>1, GivenIs
  <2> QED BY <1>3, <2>1, <2>2, ObjectsMean
<1>6. Fits(3) <=> (Given(3) => /\ CheckErrors(Check("exact", 3, "str")) = {}
                               /\ CheckErrors(Check("text", 3, AT_BYTES)) = {})
  <2>1. Fits(3) <=> (Given(3) => FineText(values[3], AT_BYTES))
    BY <1>1, GivenIs DEF BatchSlot
  <2>2. Given(3) => values[3] \in Object
    BY <1>1, GivenIs
  <2> QED BY <1>3, <2>1, <2>2, ObjectsMean
<1>7. Fits(4) <=> (Given(4) => /\ CheckErrors(Check("exact", 4, "str")) = {}
                               /\ CheckErrors(Check("text", 4, MODE_BYTES)) = {}
                               /\ CheckErrors(Check("mode", 4, 0)) = {})
  <2>1. Fits(4) <=> (Given(4) => FineMode(values[4]))
    BY <1>1, GivenIs DEF BatchSlot
  <2>2. Given(4) => values[4] \in Object
    BY <1>1, GivenIs
  <2> QED BY <2>1, <2>2, ObjectsMean
<1>8. Fits(5) <=> /\ Typed(5) /\ Short(5)
                  /\ Given(5) => CheckErrors(Check("handles", 5, "State")) = {}
  <2>1. Fits(5) <=> (Given(5) => EvidenceList(values[5], "State", BATCH))
    BY <1>1, GivenIs DEF BatchSlot
  <2>2. Given(5) => values[5] \in Object
    BY <1>1, GivenIs
  <2> QED BY <1>3, <2>1, <2>2, ObjectsMean
<1>9. Fits(6) <=> (Given(6) => /\ CheckErrors(Check("exact", 6, "int")) = {}
                               /\ CheckErrors(Check("number", 6, 0)) = {})
  <2>1. Fits(6) <=> (Given(6) => FineAge(values[6]))
    BY <1>1, GivenIs DEF BatchSlot
  <2>2. Given(6) => values[6] \in Object
    BY <1>1, GivenIs
  <2> QED BY <2>1, <2>2, ObjectsMean
<1>10. ASSUME Typed(1), Typed(2), Typed(5)
       PROVE  CheckErrors(Check("counts", 1, BATCH)) = {} <=>
                 /\ Short(1) /\ Short(2) /\ Short(5)
                 /\ Few
  <2>1. \A i \in Lists : Given(i) => values[i].is = "list"
    BY <1>10, CheckMeans DEF Lists
  <2>2. CheckErrors(Check("counts", 1, BATCH)) = {} <=> ~CountsExceed(BATCH)
    BY CheckMeans
  <2>3. Cardinality(PairsOf(values[1], values[2])) \in Nat
    <3>1. /\ values[1].items \in Seq(Object) /\ values[2].items \in Seq(Object)
          /\ Len(values[1].items) \in Nat /\ Len(values[2].items) \in Nat
      BY <1>1, <2>1, GivenIs, ListIs DEF Lists
    <3>2. Cardinality(PairsOf(values[1], values[2])) = Len(values[1].items) * Len(values[2].items)
      BY <3>1, PairsAre
    <3>3. \A m, n \in Nat : m * n \in Nat
      OBVIOUS
    <3>4. Len(values[1].items) * Len(values[2].items) \in Nat
      BY <3>1, <3>3, Zenon
    <3> QED BY <3>2, <3>4, Zenon
  <2>4. ~(Cardinality(PairsOf(values[1], values[2])) > PAIRS) <=> Few
    BY <1>3, <2>3
  <2>5. CountsExceed(BATCH) <=> \/ \E i \in Lists : Given(i) /\ Len(values[i].items) > BATCH
                                \/ Cardinality(PairsOf(values[1], values[2])) > PAIRS
    BY <2>1, CountsMean
  <2> QED BY <2>2, <2>4, <2>5 DEF Lists
<1>11. Given(1)
  BY <1>1, GivenIs
<1>12. (\A i \in 1 .. 6 : Fits(i)) <=>
          Fits(1) /\ Fits(2) /\ Fits(3) /\ Fits(4) /\ Fits(5) /\ Fits(6)
  <2> HIDE DEF Fits
  <2> QED OBVIOUS
<1>13. AllPass <=>
          /\ Typed(1) /\ CheckErrors(Check("counts", 1, BATCH)) = {}
          /\ Given(1) => CheckErrors(Check("handles", 1, "Contract")) = {}
          /\ Typed(2)
          /\ Given(2) => CheckErrors(Check("handles", 2, "Profile")) = {}
          /\ Given(3) => /\ CheckErrors(Check("exact", 3, "str")) = {}
                         /\ CheckErrors(Check("text", 3, AT_BYTES)) = {}
          /\ Given(4) => /\ CheckErrors(Check("exact", 4, "str")) = {}
                         /\ CheckErrors(Check("text", 4, MODE_BYTES)) = {}
                         /\ CheckErrors(Check("mode", 4, 0)) = {}
          /\ Typed(5)
          /\ Given(5) => CheckErrors(Check("handles", 5, "State")) = {}
          /\ Given(6) => /\ CheckErrors(Check("exact", 6, "int")) = {}
                         /\ CheckErrors(Check("number", 6, 0)) = {}
  BY <1>11, BatchPasses
<1> HIDE DEF Fits, Few, Typed, Short
<1> QED BY <1>2, <1>4, <1>5, <1>6, <1>7, <1>8, <1>9, <1>10, <1>12, <1>13

(* Every check passed so far passes, and a refusal names one that does not. *)
CheckedInv ==
    /\ error \notin {"none", "memory"} => status = "bound" /\ Detailed /\ ~AllPass
    /\ core # {} => error = "none"
    /\ status = "bound" /\ Detailed => \A k \in DOMAIN Program : k < at => Passing(k)

(* The clone of a payload asks for the role that was checked on admission.  *)
LEMMA RolesAgree ==
    ASSUME Detailed, NEW i \in Slots, Evidential(i)
    PROVE  /\ KindOf[i] = "artifact" => Program[CopiedAt[i]].do = "handle"
           /\ KindOf[i] = "list" => Program[CopiedAt[i]].do = "handles"
           /\ Program[CopiedAt[i]].slot = i /\ CopiedAt[i] \in DOMAIN Program
           /\ Program[ClonedAt[i]].arg = Program[CopiedAt[i]].arg
<1>1. /\ KindOf[i] = "artifact" => Program[CopiedAt[i]].do = "handle"
      /\ KindOf[i] = "list" => Program[CopiedAt[i]].do = "handles"
      /\ Program[CopiedAt[i]].slot = i /\ CopiedAt[i] \in DOMAIN Program
  BY Plan DEF Planned
<1>2. CASE signature = ValidateCall
  <2>1. Program = ValidateProgram /\ Slots = 1 .. 8 /\ i \in {1, 2, 5, 6}
    BY <1>2, Programs DEF Evidential, KindOf
  <2>2. \A j \in {1, 2, 5, 6} : ValidateProgram[ClonedAt[j]].arg = ValidateProgram[CopiedAt[j]].arg
    BY <1>2 DEF ClonedAt, CopiedAt, ValidateProgram, Check
  <2> QED BY <1>1, <2>1, <2>2
<1>3. CASE signature = BatchCall
  <2>1. Program = BatchProgram /\ Slots = 1 .. 6 /\ i \in {1, 2, 5} /\ signature # ValidateCall
    BY <1>3, Programs DEF Evidential, KindOf
  <2>2. \A j \in {1, 2, 5} : BatchProgram[ClonedAt[j]].arg = BatchProgram[CopiedAt[j]].arg
    BY <2>1 DEF ClonedAt, CopiedAt, BatchProgram, Check
  <2> QED BY <1>1, <2>1, <2>2
<1> QED BY <1>2, <1>3 DEF Detailed

(* Evidence that was admitted has its payload.                              *)
LEMMA PayloadsPass ==
    ASSUME TypeOK, CoreInv, CheckedInv, Running, Detailed, Program[at].do = "payload",
           Given(Program[at].slot)
    PROVE  CheckErrors(Program[at]) = {}
<1> DEFINE s == Program[at].slot
           role == Program[at].arg
           k == CopiedAt[s]
<1>1. /\ at \in DOMAIN Program /\ s \in Slots /\ at = ClonedAt[s] /\ Evidential(s)
  BY Plan DEF Running, Planned, Evidential
<1>2. /\ at > k /\ k \in DOMAIN Program /\ Program[k].slot = s /\ Program[k].arg = role
      /\ KindOf[s] = "artifact" => Program[k].do = "handle"
      /\ KindOf[s] = "list" => Program[k].do = "handles"
      /\ s =< k /\ k \in Nat /\ at \in Nat
  BY <1>1, Plan, RolesAgree
<1>3. owned[s] = CopyOf(s) /\ values[s].is = KindOf[s]
  BY <1>1, <1>2 DEF CoreInv, SlotInv, Running
<1>4. Passing(k) /\ values[s] \in Object
  BY <1>1, <1>2 DEF CheckedInv, Running, TypeOK, Given
<1> HIDE DEF k
<1>5. CheckErrors(Program[k]) = {}
  BY <1>1, <1>2, <1>4 DEF Passing, Evidential
<1>6. s # 4
  BY <1>1 DEF Detailed, Evidential, KindOf
<1>7. CheckErrors(Program[at]) = FirstHandleErrors(owned[s], role)
  BY DEF CheckErrors
<1>8. CASE KindOf[s] = "artifact"
  <2>1. HandleErrors(values[s], role) = {}
    BY <1>2, <1>5, <1>8 DEF CheckErrors
  <2>2. owned[s] = <<values[s]>>
    BY <1>3, <1>8, <1>6 DEF CopyOf
  <2>3. FirstHandleErrors(<<values[s]>>, role) = {}
    <3>1. <<values[s]>> \in Seq(Object) /\ ToSet(<<values[s]>>) = {values[s]}
      BY <1>4 DEF ToSet
    <3> QED BY <2>1, <3>1, HandleMeans, HandlesMean
  <2> QED BY <1>7, <2>2, <2>3
<1>9. CASE KindOf[s] = "list"
  <2>1. FirstHandleErrors(values[s].items, role) = {}
    BY <1>2, <1>5, <1>9 DEF CheckErrors
  <2>2. owned[s] = values[s].items
    BY <1>3, <1>9, <1>6 DEF CopyOf
  <2> QED BY <1>7, <2>1, <2>2
<1> QED BY <1>1, <1>8, <1>9 DEF Evidential

(* Whether a check passes is a matter of the arguments. *)
LEMMA PassingKept ==
    ASSUME UNCHANGED vars
    PROVE  /\ \A k : Passing(k)' <=> Passing(k)
           /\ AllPass' <=> AllPass
<1>1. UNCHANGED <<signature, values>> /\ Program' = Program /\ \A i : Given(i)' <=> Given(i)
  BY Passed, PlanKept
<1>2. ASSUME NEW k, Program[k].do # "payload"
      PROVE  CheckErrors(Program[k])' = CheckErrors(Program[k])
  <2> DEFINE check == Program[k]
  <2>1. \A a : CountsExceed(a)' <=> CountsExceed(a)
    BY <1>1 DEF CountsExceed, Length
  <2>2. check' = check
    BY <1>1
  <2> HIDE DEF check
  <2> QED BY <1>1, <1>2, <2>1, <2>2 DEF CheckErrors, check
<1>3. \A k : Passing(k)' <=> Passing(k)
  BY <1>1, <1>2 DEF Passing
<1> QED BY <1>1, <1>3 DEF AllPass

(* Every step keeps what is said of the checks. *)
LEMMA CheckedStep ==
    TypeOK /\ CoreInv /\ CheckedInv /\ [ENext]_evars => CheckedInv'
<1> SUFFICES ASSUME TypeOK, CoreInv, CheckedInv, [ENext]_evars PROVE CheckedInv'
  OBVIOUS
<1>1. CASE Binding
  <2>1. status # "bound" /\ UNCHANGED <<at, error, core, signature>>
    BY <1>1 DEF Binding, Next, Place, BindKeyword, CheckRequired, Refuse
  <2>2. at = 1 /\ core = {} /\ error \in {"none", "memory"}
    BY <2>1 DEF CoreInv, CheckedInv
  <2>3. Detailed' => \A k \in (DOMAIN Program)' : ~(k < 1)
    <3>1. (Detailed' <=> Detailed) /\ Program' = Program
      BY <2>1 DEF Detailed, Program
    <3>2. Detailed => \A k \in DOMAIN Program : k \in Nat \ {0}
      BY Plan
    <3> QED BY <3>1, <3>2
  <2> QED BY <2>1, <2>2, <2>3 DEF CheckedInv
<1>2. CASE Step
  <2> DEFINE check == Program[at]
  <2>1. /\ Running /\ Detailed /\ core = {} /\ UNCHANGED vars /\ core' = core
        /\ at \in DOMAIN Program /\ status = "bound" /\ error = "none"
        /\ DOMAIN Program \subseteq Nat
    <3>1. Running /\ Detailed /\ UNCHANGED vars /\ core' = core
      BY <1>2 DEF Step, Running, Program, Detailed, Skip, Refusal, Exhausted, Do, Pass, Fail
    <3>2. at \in 1 .. Len(Program) /\ DOMAIN Program = 1 .. Len(Program) /\ Len(Program) \in Nat
      BY <3>1, Plan DEF Running
    <3>3. core = {}
      BY <3>2 DEF CoreInv
    <3> QED BY <3>1, <3>2, <3>3 DEF Running
  <2>2. ASSUME NEW e, Fail(e), e \notin {"none", "memory"} => ~Passing(at) PROVE CheckedInv'
    <3>1. error' = e /\ at' = at
      BY <2>2 DEF Fail
    <3>2. e \notin {"none", "memory"} => ~AllPass
      BY <2>1, <2>2 DEF AllPass
    <3> QED BY <2>1, <3>1, <3>2, Passed, PlanKept, PassingKept DEF CheckedInv
  <2>3. CASE Refusal(check)
    <3>1. PICK e \in CheckErrors(check) : Fail(e)
      BY <2>3 DEF Refusal
    <3>2. Given(check.slot) /\ CheckErrors(check) # {}
      BY <2>3, <3>1 DEF Refusal
    <3>3. ~Passing(at)
      BY <2>1, <3>2, PayloadsPass DEF Passing
    <3> QED BY <2>2, <3>1, <3>3
  <2>4. CASE Exhausted(check)
    BY <2>2, <2>4 DEF Exhausted
  <2>5. CASE Skip(check) \/ Do(check)
    <3>1. at' = at + 1 /\ error' = error
      BY <2>5 DEF Skip, Do, Pass
    <3>2. Passing(at)
      BY <2>5 DEF Skip, Do, Passing
    <3>3. \A k \in DOMAIN Program : k < at + 1 => Passing(k)
      BY <2>1, <3>2 DEF CheckedInv, CoreInv
    <3> QED BY <2>1, <3>1, <3>3, Passed, PlanKept, PassingKept DEF CheckedInv
  <2> HIDE DEF check
  <2>6. Skip(check) \/ Do(check) \/ Refusal(check) \/ Exhausted(check)
    BY <1>2 DEF Step, check
  <2> QED BY <2>3, <2>4, <2>5, <2>6
<1>3. CASE Call \/ UNCHANGED evars
  <2>1. UNCHANGED vars /\ UNCHANGED <<at, error>> /\ (core' # {} => error = "none")
    BY <1>3 DEF Call, evars, CheckedInv
  <2> QED BY <2>1, Passed, PlanKept, PassingKept DEF CheckedInv
<1> QED BY <1>1, <1>2, <1>3 DEF ENext

(* Core was reached past all checks, a refusal names a check that fails. *)
LEMMA CheckedIsExact ==
    TypeOK /\ BoundAsPassed /\ CoreInv /\ CheckedInv => AdmitsExactlyAdmissible
<1> SUFFICES ASSUME TypeOK, BoundAsPassed, CoreInv, CheckedInv PROVE AdmitsExactlyAdmissible
  OBVIOUS
<1>1. status = "bound" /\ Detailed => (Admissible <=> AllPass)
  BY ValidateAdmits, BatchAdmits DEF Detailed
<1>2. ASSUME core # {} PROVE status = "bound" /\ Detailed /\ AllPass
  <2>1. status = "bound" /\ Detailed /\ at > Len(Program) /\ at \in Nat
    BY <1>2 DEF CoreInv
  <2>2. DOMAIN Program = 1 .. Len(Program) /\ Len(Program) \in Nat
    BY <2>1, Plan
  <2> QED BY <2>1, <2>2 DEF CheckedInv, AllPass
<1>3. error \notin {"none", "memory"} => status = "bound" /\ Detailed /\ ~AllPass
  BY DEF CheckedInv
<1> QED BY <1>1, <1>2, <1>3 DEF AdmitsExactlyAdmissible

(* For every request and all limits, unless memory runs out, core is        *)
(* reached by exactly the requests that are admissible: what the checks say *)
(* one after the other is what an admissible request is.                    *)
(* (validate_admission.rs:43-80, batch_admission.rs:39-97)                  *)
THEOREM AdmissionCorrect == ESpec => []AdmitsExactlyAdmissible
<1>1. EInit => CoreInv /\ CheckedInv
  BY DEF EInit, Init, CoreInv, CheckedInv
<1> QED
  BY <1>1, CoreStep, CheckedStep, CheckedIsExact, BindingKept, TypeCorrect, BoundCorrect, PTL
     DEF ESpec
=================================================================================
