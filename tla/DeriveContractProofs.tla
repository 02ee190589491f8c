------------------------- MODULE DeriveContractProofs -------------------------
(***************************************************************************)
(* Theorems about DeriveContract for every request and every limit.        *)
(***************************************************************************)
EXTENDS DeriveContract, TotalsProofs

IInv == TypeOK /\ CombinedWithin

(* What the request of a behaviour is made of. *)
LEMMA RequestParts ==
    ASSUME request \in Requests
    PROVE  /\ request.at \in Text
           /\ request.context \subseteq Document
           /\ request.notes \subseteq Text
           /\ Packs \in Seq(Document)
           /\ {request.survey} \subseteq {"survey", "kind", "type"}
<1>1. request \in Request
  BY DeriveAssumption
<1>2. request.packs \subseteq [list : BOOLEAN, items : Seq(Document)]
  BY <1>1 DEF Request
<1>3. Packs \in Seq(Document)
  <2>1. CASE request.packs = {}
    BY <2>1 DEF Packs
  <2>2. CASE request.packs # {}
    <3>1. (CHOOSE p \in request.packs : TRUE) \in request.packs
      BY <2>2
    <3> QED BY <1>2, <2>2, <3>1 DEF Packs
  <2> QED BY <2>1, <2>2
<1> QED
  BY <1>1, <1>3 DEF Request

(* A document that fits leaves the total within the limits of a request.    *)
(* (conversion_budget.rs:53-65)                                             *)
LEMMA DocumentWithin ==
    ASSUME NEW doc \in Document, combined \in Counts, DocumentOk(doc)
    PROVE  /\ WithDocument(doc) \in Counts
           /\ CountsWithin(WithDocument(doc), REQUEST_BYTES)
<1>1. doc.size \in Counts
  BY DEF Document
<1>2. ConfigurationBudget(combined).combined = {combined}
  BY DEF ConfigurationBudget
<1>3. Fits(combined.bytes, doc.size.bytes, REQUEST_BYTES) /\ Fits(combined.nodes, doc.size.nodes, NODES)
  BY <1>2 DEF DocumentOk, DocumentFits, Admits
<1> QED
  BY <1>1, <1>3 DEF WithDocument, Plus, Counts, CountsWithin, Fits

(* An error that ends the operation. *)
LEMMA FailStep ==
    ASSUME IInv, NEW e \in Errors, Fail(e)
    PROVE  IInv'
  BY DEF IInv, TypeOK, CombinedWithin, Fail, Errors, CoreSteps, Packs

(* What an admission step may fail with. *)
LEMMA ErrorTypes ==
    ASSUME request \in Requests
    PROVE  /\ TypeErrors \subseteq Errors
           /\ \A text \in Text, limit \in Nat : TextErrors(text, limit) \subseteq Errors
           /\ \A doc \in Document : DocumentErrors(doc) \subseteq Errors
           /\ \A notes \in Text : NotesErrors(notes) \subseteq Errors
<1>1. TypeErrors \subseteq Errors
  BY RequestParts DEF TypeErrors, Errors
<1>2. \A text, limit : TextErrors(text, limit) \subseteq Errors
  BY DEF TextErrors, Errors
<1>3. \A doc \in Document : DocumentErrors(doc) \subseteq Errors
  BY DEF DocumentErrors, Document, Errors
<1>4. \A notes \in Text : NotesErrors(notes) \subseteq Errors
  BY <1>2 DEF NotesErrors, Errors
<1> QED BY <1>1, <1>2, <1>3, <1>4

(* Nothing is charged before the first argument is read. *)
LEMMA Initially == Init => IInv
<1> SUFFICES ASSUME Init PROVE IInv
  OBVIOUS
<1>1. NoCounts \in Counts /\ CountsWithin(NoCounts, REQUEST_BYTES)
  BY BudgetAssumption DEF NoCounts, Counts, CountsWithin
<1>2. Len(Packs) \in Nat
  BY RequestParts DEF Init
<1>3. TypeOK
  BY <1>1, <1>2 DEF Init, TypeOK, AdmissionSteps
<1>4. CombinedWithin
  BY <1>1 DEF Init, CombinedWithin, CoreSteps
<1> QED BY <1>3, <1>4 DEF IInv

(* A call into core changes none of what was admitted. *)
LEMMA CallCoreStep ==
    ASSUME IInv, pc \in CoreSteps,
           NEW name \in Calls, NEW next, next \subseteq CoreSteps \cup {"done"},
           CallCore(name, next), loaded' \in 0 .. Len(Packs)
    PROVE  IInv'
<1>1. calls' \in Seq(Calls)
  BY DEF IInv, TypeOK, CallCore
<1>2. pc' \in CoreSteps \cup {"done", "core"}
  BY DEF CallCore
<1>3. TypeOK'
  BY <1>1, <1>2 DEF IInv, TypeOK, CallCore, Errors, Packs
<1>4. CombinedWithin'
  BY DEF IInv, CombinedWithin, CallCore
<1> QED BY <1>3, <1>4 DEF IInv

(* Every step of the operation keeps the invariant. *)
LEMMA Invariant == IInv /\ [Next]_vars => IInv'
<1> SUFFICES ASSUME IInv, [Next]_vars PROVE IInv'
  OBVIOUS
<1> USE DEF IInv
<1>0. /\ request.at \in Text
      /\ request.context \subseteq Document
      /\ request.notes \subseteq Text
      /\ Packs \in Seq(Document)
      /\ Len(Packs) \in Nat
      /\ REQUEST_BYTES \in Nat /\ NODES \in Nat \ {0} /\ AT_BYTES \in Nat
      /\ AT_BYTES =< REQUEST_BYTES
  BY RequestParts, BudgetAssumption, DeriveAssumption DEF TypeOK
<1>1. CASE AdmitTypes
  <2>1. CASE \E e \in TypeErrors : Fail(e)
    BY <2>1, FailStep, ErrorTypes DEF TypeOK
  <2>2. CASE pc' = "at" /\ UNCHANGED <<request, combined, admitted, loaded, calls>>
    BY <2>2 DEF TypeOK, CombinedWithin, AdmissionSteps, CoreSteps, Packs
  <2> QED BY <1>1, <2>1, <2>2 DEF AdmitTypes
<1>2. CASE AdmitAt
  <2>1. CASE \E e \in TextErrors(request.at, AT_BYTES) : Fail(e)
    BY <1>0, <2>1, FailStep, ErrorTypes DEF TypeOK
  <2>2. CASE /\ TextOk(request.at, AT_BYTES)
             /\ combined' = [bytes |-> request.at.bytes, nodes |-> 0]
             /\ pc' = "packs"
             /\ UNCHANGED <<request, admitted, loaded, calls>>
    <3>1. request.at.bytes \in Nat /\ request.at.bytes =< REQUEST_BYTES
      BY <1>0, <2>2 DEF Text, TextOk, Fits
    <3>2. combined' \in Counts /\ CountsWithin(combined', REQUEST_BYTES)
      BY <1>0, <2>2, <3>1 DEF Counts, CountsWithin
    <3> QED BY <2>2, <3>2 DEF TypeOK, CombinedWithin, AdmissionSteps, CoreSteps, Packs
  <2> QED BY <1>2, <2>1, <2>2 DEF AdmitAt
<1>3. CASE AdmitPacks
  <2>1. CASE pc' = "context" /\ UNCHANGED <<request, combined, admitted, loaded, calls>>
    BY <2>1 DEF TypeOK, CombinedWithin, AdmissionSteps, CoreSteps, Packs
  <2>2. CASE Fail(IF Len(Packs) > MAX_PACKS THEN "budget" ELSE "memory")
    BY <2>2, FailStep DEF Errors
  <2>3. CASE /\ combined' = [combined EXCEPT !.nodes = 1]
             /\ pc' = "pack"
             /\ UNCHANGED <<request, admitted, loaded, calls>>
    <3>1. combined' \in Counts /\ CountsWithin(combined', REQUEST_BYTES)
      BY <1>0, <2>3 DEF TypeOK, CombinedWithin, Counts, CountsWithin
    <3> QED BY <2>3, <3>1 DEF TypeOK, CombinedWithin, AdmissionSteps, CoreSteps, Packs
  <2> QED BY <1>3, <2>1, <2>2, <2>3 DEF AdmitPacks
<1>4. CASE AdmitPack
  <2>1. CASE /\ pc' = "context"
             /\ UNCHANGED <<request, combined, admitted, loaded, calls>>
    BY <2>1 DEF TypeOK, CombinedWithin, AdmissionSteps, CoreSteps, Packs
  <2>2. CASE admitted # Len(Packs)
    <3> DEFINE doc == Packs[admitted + 1]
    <3>1. doc \in Document /\ admitted + 1 \in 0 .. Len(Packs)
      BY <1>0, <2>2 DEF TypeOK
    <3>2. CASE \E e \in DocumentErrors(doc) : Fail(e)
      BY <3>1, <3>2, FailStep, ErrorTypes DEF TypeOK
    <3>3. CASE /\ DocumentOk(doc)
               /\ combined' = WithDocument(doc)
               /\ admitted' = admitted + 1
               /\ UNCHANGED <<request, pc, loaded, calls>>
      <4>1. combined' \in Counts /\ CountsWithin(combined', REQUEST_BYTES)
        BY <3>1, <3>3, DocumentWithin DEF TypeOK
      <4> QED BY <1>4, <3>1, <3>3, <4>1 DEF AdmitPack, TypeOK, CombinedWithin, CoreSteps, Packs
    <3> QED BY <1>4, <2>2, <3>2, <3>3 DEF AdmitPack
  <2> QED BY <1>4, <2>1, <2>2 DEF AdmitPack
<1>5. CASE AdmitContext
  <2>1. CASE request.context = {}
    BY <1>5, <2>1 DEF AdmitContext, TypeOK, CombinedWithin, AdmissionSteps, CoreSteps, Packs
  <2>2. CASE request.context # {}
    <3>1. PICK doc \in request.context :
             \/ \E e \in DocumentErrors(doc) : Fail(e)
             \/ /\ DocumentOk(doc)
                /\ combined' = WithDocument(doc)
                /\ pc' = "notes"
                /\ UNCHANGED <<request, admitted, loaded, calls>>
      BY <1>5, <2>2 DEF AdmitContext
    <3>2. doc \in Document
      BY <1>0
    <3>3. CASE \E e \in DocumentErrors(doc) : Fail(e)
      BY <3>2, <3>3, FailStep, ErrorTypes DEF TypeOK
    <3>4. CASE /\ DocumentOk(doc)
               /\ combined' = WithDocument(doc)
               /\ pc' = "notes"
               /\ UNCHANGED <<request, admitted, loaded, calls>>
      <4>1. combined' \in Counts /\ CountsWithin(combined', REQUEST_BYTES)
        BY <3>2, <3>4, DocumentWithin DEF TypeOK
      <4> QED BY <3>4, <4>1 DEF TypeOK, CombinedWithin, AdmissionSteps, CoreSteps, Packs
    <3> QED BY <3>1, <3>3, <3>4
  <2> QED BY <2>1, <2>2
<1>6. CASE AdmitNotes
  <2>1. CASE \E e \in UNION {NotesErrors(notes) : notes \in request.notes} : Fail(e)
    BY <1>0, <2>1, FailStep, ErrorTypes DEF TypeOK
  <2>2. CASE /\ \A notes \in request.notes :
                   /\ TextOk(notes, NOTES_BYTES)
                   /\ Fits(combined.bytes, notes.bytes, REQUEST_BYTES)
             /\ pc' = FirstCall
             /\ UNCHANGED <<request, combined, admitted, loaded, calls>>
    <3>1. pc' \in CoreSteps
      BY <2>2 DEF FirstCall, CoreSteps
    <3>2. \A notes \in request.notes : combined.bytes + notes.bytes =< REQUEST_BYTES
      BY <2>2 DEF Fits
    <3> QED BY <2>2, <3>1, <3>2 DEF TypeOK, CombinedWithin, Packs
  <2> QED BY <1>6, <2>1, <2>2 DEF AdmitNotes
<1>7. CASE LoadPacks
  <2>1. CASE loaded < Len(Packs)
    <3>1. loaded' \in 0 .. Len(Packs)
      BY <1>0, <1>7, <2>1 DEF LoadPacks, TypeOK
    <3>2. CallCore("load_pack", {"load_packs"}) /\ pc \in CoreSteps
      BY <1>7, <2>1 DEF LoadPacks, CoreSteps
    <3> QED BY <3>1, <3>2, CallCoreStep DEF Calls, CoreSteps
  <2>2. CASE ~(loaded < Len(Packs))
    BY <1>7, <2>2 DEF LoadPacks, TypeOK, CombinedWithin, CoreSteps, Packs
  <2> QED BY <2>1, <2>2
<1>8. CASE LoadContext
  <2>1. CASE request.context = {}
    BY <1>8, <2>1 DEF LoadContext, TypeOK, CombinedWithin, CoreSteps, Packs
  <2>2. CASE request.context # {}
    BY <1>8, <2>2, CallCoreStep DEF LoadContext, Calls, CoreSteps, TypeOK
  <2> QED BY <2>1, <2>2
<1>9. CASE Resolve
  BY <1>9, CallCoreStep DEF Resolve, Calls, CoreSteps, TypeOK
<1>10. CASE BuildBasis
  BY <1>10, CallCoreStep DEF BuildBasis, Calls, CoreSteps, TypeOK
<1>11. CASE Derive
  BY <1>11, CallCoreStep DEF Derive, Calls, CoreSteps, TypeOK
<1>12. CASE UNCHANGED vars
  BY <1>12 DEF vars, TypeOK, CombinedWithin, Packs
<1> QED
  BY <1>1, <1>2, <1>3, <1>4, <1>5, <1>6, <1>7, <1>8, <1>9, <1>10, <1>11, <1>12 DEF Next

(* The strengthened invariant of the whole operation. *)
THEOREM Invariance == Spec => []IInv
  BY Initially, Invariant, PTL DEF Spec

(* The variables have their types in every behaviour: in particular neither *)
(* loop over the packs passes the end of the list.                          *)
(* (derive_admission.rs:50-55, core_calls.rs:21-25)                         *)
THEOREM TypeCorrect == Spec => []TypeOK
<1>1. IInv => TypeOK
  BY DEF IInv
<1> QED BY <1>1, Invariance, PTL

(* For every request and all limits, the total of a request stays within    *)
(* them, and includes the notes before core is called.                      *)
(* (derive_admission.rs:41-67)                                              *)
THEOREM CombinedCorrect == Spec => []CombinedWithin
<1>1. IInv => CombinedWithin
  BY DEF IInv
<1> QED BY <1>1, Invariance, PTL

-------------------------------------------------------------------------------
(* Calls into core: what has been called at each place, for the packs and   *)
(* the context of any request.                                              *)
Early == Calls \ {"derive", "derive_extended"}

Loads(k) == [i \in 1 .. k |-> "load_pack"]

Loaded == Loads(Len(Packs)) \o (IF request.context = {} THEN <<>> ELSE <<"load_context">>)

Resolved == Append(Loaded, "resolve")

Based == Append(Resolved, "basis")

Before == IF IsConfigured THEN Configured ELSE <<>>

(* What can have been called when a call before the last one fails. *)
Partial == {Loads(k) : k \in 0 .. Len(Packs)} \cup {Loaded, Resolved, Based}

Whole == \/ calls = AllCalls("derive")
         \/ IsConfigured /\ calls = AllCalls("derive_extended")

Called ==
    /\ pc \notin CoreSteps \cup {"core", "done"} => calls = <<>> /\ loaded = 0
    /\ pc \in CoreSteps \ {"derive"} => IsConfigured
    /\ pc = "load_packs" => calls = Loads(loaded)
    /\ pc = "load_context" => calls = Loads(Len(Packs))
    /\ pc = "resolve" => calls = Loaded
    /\ pc = "basis" => calls = Resolved
    /\ pc \in {"derive", "derive_extended"} => calls = Before
    /\ pc = "core" => Whole \/ (IsConfigured /\ calls \in Partial)
    /\ pc = "done" => Whole

(* Two sequences after each other. *)
LEMMA ConcatIs ==
    ASSUME NEW S, NEW s \in Seq(S), NEW t \in Seq(S)
    PROVE  /\ s \o t \in Seq(S) /\ Len(s \o t) = Len(s) + Len(t)
           /\ \A i \in 1 .. Len(s) : (s \o t)[i] = s[i]
           /\ \A i \in Len(s) + 1 .. Len(s) + Len(t) : (s \o t)[i] = t[i - Len(s)]
  OBVIOUS

(* A sequence with one element more. *)
LEMMA AppendIs ==
    ASSUME NEW S, NEW s \in Seq(S), NEW x \in S
    PROVE  /\ Append(s, x) \in Seq(S) /\ Len(Append(s, x)) = Len(s) + 1
           /\ \A i \in 1 .. Len(s) : Append(s, x)[i] = s[i]
           /\ Append(s, x)[Len(s) + 1] = x
  OBVIOUS

(* Two sequences of the same length that agree everywhere. *)
LEMMA SameSequence ==
    ASSUME NEW S, NEW s \in Seq(S), NEW t \in Seq(S),
           Len(s) = Len(t), \A i \in 1 .. Len(s) : s[i] = t[i]
    PROVE  s = t
<1>1. s = [i \in 1 .. Len(s) |-> s[i]] /\ t = [i \in 1 .. Len(t) |-> t[i]]
  OBVIOUS
<1> QED BY <1>1

(* What agrees with the beginning of a sequence is a prefix of it. *)
LEMMA PrefixIs ==
    ASSUME NEW S, NEW s \in Seq(S), NEW t \in Seq(S), Len(s) =< Len(t),
           \A i \in 1 .. Len(s) : s[i] = t[i]
    PROVE  IsPrefix(s, t)
<1> DEFINE n == Len(s)
<1>1. n \in Nat /\ n =< Len(s) /\ n =< Len(t) /\ Len(t) \in Nat
  OBVIOUS
<1> HIDE DEF n
<1>2. /\ SubSeq(s, 1, n) \in Seq(S) /\ Len(SubSeq(s, 1, n)) = n
      /\ \A i \in 1 .. n : SubSeq(s, 1, n)[i] = s[i]
  BY <1>1
<1>3. /\ SubSeq(t, 1, n) \in Seq(S) /\ Len(SubSeq(t, 1, n)) = n
      /\ \A i \in 1 .. n : SubSeq(t, 1, n)[i] = t[i]
  BY <1>1
<1>4. \A i \in 1 .. n : SubSeq(s, 1, n)[i] = SubSeq(t, 1, n)[i]
  BY <1>2, <1>3 DEF n
<1>5. SubSeq(s, 1, n) = SubSeq(t, 1, n)
  BY <1>2, <1>3, <1>4, SameSequence
<1> QED BY <1>5 DEF n, IsPrefix

(* Loading the next pack, the first k of which have been loaded. *)
LEMMA LoadsIs ==
    ASSUME NEW k \in Nat
    PROVE  /\ Loads(k) \in Seq(Early) /\ Len(Loads(k)) = k
           /\ \A i \in 1 .. k : Loads(k)[i] = "load_pack"
           /\ Append(Loads(k), "load_pack") = Loads(k + 1)
           /\ Loads(0) = <<>>
<1>1. "load_pack" \in Early
  BY DEF Early, Calls
<1>2. ASSUME NEW j \in Nat
      PROVE  /\ Loads(j) \in Seq(Early) /\ Len(Loads(j)) = j
             /\ \A i \in 1 .. j : Loads(j)[i] = "load_pack"
  BY <1>1 DEF Loads
<1>3. Append(Loads(k), "load_pack") = Loads(k + 1)
  <2>1. k + 1 \in Nat
    OBVIOUS
  <2>2. /\ Append(Loads(k), "load_pack") \in Seq(Early)
        /\ Len(Append(Loads(k), "load_pack")) = k + 1
        /\ \A i \in 1 .. k : Append(Loads(k), "load_pack")[i] = Loads(k)[i]
        /\ Append(Loads(k), "load_pack")[k + 1] = "load_pack"
    BY <1>1, <1>2, AppendIs
  <2>3. \A i \in 1 .. k + 1 : Append(Loads(k), "load_pack")[i] = Loads(k + 1)[i]
    BY <1>2, <2>1, <2>2
  <2> QED BY <1>2, <2>1, <2>2, <2>3, SameSequence
<1>4. Loads(0) = <<>>
  BY DEF Loads
<1> QED BY <1>2, <1>3, <1>4

(* One sequence lies within another from its beginning. *)
Begins(s, t) == Len(s) =< Len(t) /\ \A i \in 1 .. Len(s) : s[i] = t[i]

(* The calls before the last one begin one another. *)
LEMMA StagesAre ==
    ASSUME Len(Packs) \in Nat
    PROVE  /\ Loaded \in Seq(Early) /\ Resolved \in Seq(Early) /\ Based \in Seq(Early)
           /\ \A k \in 0 .. Len(Packs) : Begins(Loads(k), Loaded)
           /\ Begins(Loaded, Resolved) /\ Begins(Resolved, Based)
           /\ Based = Configured
           /\ request.context = {} => Loaded = Loads(Len(Packs))
           /\ request.context # {} => Loaded = Append(Loads(Len(Packs)), "load_context")
<1> DEFINE n == Len(Packs)
           c == IF request.context = {} THEN <<>> ELSE <<"load_context">>
<1>1. {"load_context", "resolve", "basis"} \subseteq Early
  BY DEF Early, Calls
<1>2. c \in Seq(Early) /\ <<"load_context">> \in Seq(Early) /\ <<>> \in Seq(Early)
  BY <1>1
<1>3. /\ Loads(n) \in Seq(Early) /\ Len(Loads(n)) = n
      /\ \A i \in 1 .. n : Loads(n)[i] = "load_pack"
  BY LoadsIs
<1>4. Loaded = Loads(n) \o c
  BY DEF Loaded
<1> HIDE DEF c
<1>5. /\ Loaded \in Seq(Early) /\ Len(Loaded) = n + Len(c)
      /\ \A i \in 1 .. n : Loaded[i] = Loads(n)[i]
  <2> DEFINE l == Loads(n)
  <2>1. l \in Seq(Early) /\ Len(l) = n
    BY <1>3
  <2> HIDE DEF l
  <2>2. /\ l \o c \in Seq(Early) /\ Len(l \o c) = Len(l) + Len(c)
        /\ \A i \in 1 .. Len(l) : (l \o c)[i] = l[i]
    BY <1>2, <2>1, ConcatIs
  <2>3. Loaded = l \o c
    BY <1>4 DEF l
  <2> QED BY <2>1, <2>2, <2>3 DEF l
<1>6. /\ Resolved \in Seq(Early) /\ Len(Resolved) = Len(Loaded) + 1
      /\ \A i \in 1 .. Len(Loaded) : Resolved[i] = Loaded[i]
      /\ Resolved[Len(Loaded) + 1] = "resolve"
  BY <1>1, <1>5, AppendIs DEF Resolved
<1>7. /\ Based \in Seq(Early) /\ Len(Based) = Len(Resolved) + 1
      /\ \A i \in 1 .. Len(Resolved) : Based[i] = Resolved[i]
      /\ Based[Len(Resolved) + 1] = "basis"
  BY <1>1, <1>6, AppendIs DEF Based
<1>8. ASSUME NEW k \in 0 .. n PROVE Begins(Loads(k), Loaded)
  <2>1. k \in Nat /\ k =< n /\ Len(c) \in Nat
    BY <1>2
  <2>2. Len(Loads(k)) = k /\ \A i \in 1 .. k : Loads(k)[i] = "load_pack"
    BY <2>1, LoadsIs
  <2> QED BY <1>3, <1>5, <2>1, <2>2 DEF Begins
<1>9. Begins(Loaded, Resolved) /\ Begins(Resolved, Based)
  BY <1>5, <1>6, <1>7 DEF Begins
<1>10. Based = Configured
  <2> DEFINE r == <<"resolve", "basis">>
  <2>1. r \in Seq(Early) /\ Len(r) = 2 /\ r[1] = "resolve" /\ r[2] = "basis"
    BY <1>1
  <2>2. Configured = Loaded \o r
    BY DEF Configured, Loaded, Loads
  <2> HIDE DEF r
  <2>3. /\ Configured \in Seq(Early) /\ Len(Configured) = Len(Loaded) + 2
        /\ \A i \in 1 .. Len(Loaded) : Configured[i] = Loaded[i]
        /\ Configured[Len(Loaded) + 1] = "resolve" /\ Configured[Len(Loaded) + 2] = "basis"
    <3>1. Len(Loaded) \in Nat
      BY <1>5
    <3>2. /\ Configured \in Seq(Early) /\ Len(Configured) = Len(Loaded) + 2
          /\ \A i \in 1 .. Len(Loaded) : Configured[i] = Loaded[i]
          /\ \A i \in Len(Loaded) + 1 .. Len(Loaded) + 2 : Configured[i] = r[i - Len(Loaded)]
      <4>1. /\ Loaded \o r \in Seq(Early) /\ Len(Loaded \o r) = Len(Loaded) + Len(r)
            /\ \A i \in 1 .. Len(Loaded) : (Loaded \o r)[i] = Loaded[i]
            /\ \A i \in Len(Loaded) + 1 .. Len(Loaded) + Len(r) :
                  (Loaded \o r)[i] = r[i - Len(Loaded)]
        <5>1. Loaded \in Seq(Early) /\ r \in Seq(Early)
          BY <1>5, <2>1
        <5> QED BY <5>1, ConcatIs, Zenon
      <4>2. /\ Configured \in Seq(Early) /\ Len(Configured) = Len(Loaded) + Len(r)
            /\ \A i \in 1 .. Len(Loaded) : Configured[i] = Loaded[i]
            /\ \A i \in Len(Loaded) + 1 .. Len(Loaded) + Len(r) :
                  Configured[i] = r[i - Len(Loaded)]
        BY <2>2, <4>1, Zenon
      <4> QED BY <2>1, <4>2
    <3>3. /\ Configured[Len(Loaded) + 1] = r[(Len(Loaded) + 1) - Len(Loaded)]
          /\ Configured[Len(Loaded) + 2] = r[(Len(Loaded) + 2) - Len(Loaded)]
      BY <3>1, <3>2
    <3>4. (Len(Loaded) + 1) - Len(Loaded) = 1 /\ (Len(Loaded) + 2) - Len(Loaded) = 2
      BY <3>1
    <3> QED BY <2>1, <3>2, <3>3, <3>4
  <2>4. \A i \in 1 .. Len(Based) : Based[i] = Configured[i]
    <3>1. Len(Loaded) \in Nat
      BY <1>5
    <3> QED BY <1>6, <1>7, <2>3, <3>1
  <2>5. Len(Based) = Len(Configured)
    <3>1. Len(Loaded) \in Nat
      BY <1>5
    <3> QED BY <1>6, <1>7, <2>3, <3>1
  <2> QED BY <1>7, <2>3, <2>4, <2>5, SameSequence
<1>11. request.context = {} => Loaded = Loads(n)
  BY <1>3, <1>4 DEF c
<1>12. request.context # {} => Loaded = Append(Loads(n), "load_context")
  <2>1. SUFFICES ASSUME request.context # {} PROVE Loaded = Append(Loads(n), "load_context")
    OBVIOUS
  <2>2. c = <<"load_context">>
    BY <2>1 DEF c
  <2> QED BY <1>1, <1>3, <1>4, <2>2
<1> QED
  BY <1>5, <1>6, <1>7, <1>8, <1>9, <1>10, <1>11, <1>12

(* All calls but the last are what comes before it. *)
LEMMA AllCallsIs ==
    ASSUME Len(Packs) \in Nat, NEW last \in {"derive", "derive_extended"}
    PROVE  /\ AllCalls(last) = Append(Before, last)
           /\ Before \in Seq(Early) /\ Before \in Seq(Calls)
           /\ AllCalls(last) \in Seq(Calls) /\ Len(AllCalls(last)) = Len(Before) + 1
           /\ \A i \in 1 .. Len(Before) : AllCalls(last)[i] = Before[i]
           /\ AllCalls(last)[Len(Before) + 1] = last
<1>1. Before \in Seq(Early)
  BY StagesAre DEF Before
<1>2. Before \in Seq(Calls) /\ last \in Calls
  BY <1>1 DEF Early, Calls
<1>3. AllCalls(last) = Append(Before, last)
  <2>1. AllCalls(last) = Before \o <<last>>
    BY DEF AllCalls, Before
  <2> QED BY <1>2, <2>1
<1> QED BY <1>1, <1>2, <1>3, AppendIs

(* What has been called when a call fails begins all calls. *)
LEMMA PartialIs ==
    ASSUME Len(Packs) \in Nat, IsConfigured, NEW s \in Partial
    PROVE  s \in Seq(Early) /\ IsPrefix(s, AllCalls("derive"))
<1> DEFINE all == AllCalls("derive")
<1>1. /\ Before \in Seq(Early) /\ all \in Seq(Calls) /\ Len(all) = Len(Before) + 1
      /\ \A i \in 1 .. Len(Before) : all[i] = Before[i]
  BY AllCallsIs
<1>2. Before = Based
  BY StagesAre DEF Before
<1>3. s \in Seq(Early) /\ Begins(s, Based)
  <2>1. /\ Loaded \in Seq(Early) /\ Resolved \in Seq(Early) /\ Based \in Seq(Early)
        /\ Begins(Loaded, Resolved) /\ Begins(Resolved, Based)
    BY StagesAre
  <2>2. CASE s \in {Loaded, Resolved, Based}
    BY <2>1, <2>2 DEF Begins
  <2>3. CASE s \in {Loads(k) : k \in 0 .. Len(Packs)}
    <3>1. PICK k \in 0 .. Len(Packs) : s = Loads(k)
      BY <2>3
    <3>2. k \in Nat /\ s \in Seq(Early) /\ Begins(s, Loaded)
      BY <3>1, LoadsIs, StagesAre
    <3> QED BY <2>1, <3>2 DEF Begins
  <2> QED BY <2>2, <2>3 DEF Partial
<1> HIDE DEF all
<1>4. s \in Seq(Calls) /\ Len(s) =< Len(all) /\ \A i \in 1 .. Len(s) : s[i] = all[i]
  <2>1. s \in Seq(Calls)
    BY <1>3 DEF Early
  <2>2. Len(s) \in Nat /\ Len(Before) \in Nat /\ Len(s) =< Len(Before)
    BY <1>1, <1>2, <1>3 DEF Begins
  <2> QED BY <1>1, <1>2, <1>3, <2>1, <2>2 DEF Begins
<1>5. IsPrefix(s, all)
  BY <1>1, <1>4, PrefixIs
<1> QED BY <1>3, <1>5 DEF all

(* What is said of the calls is that they are in order. *)
LEMMA CalledInOrder == TypeOK /\ Called => CoreCallsInOrder
<1> SUFFICES ASSUME TypeOK, Called PROVE CoreCallsInOrder
  OBVIOUS
<1>1. Len(Packs) \in Nat
  BY RequestParts DEF TypeOK
<1>2. CASE calls = <<>> /\ pc # "done"
  <2>1. IsPrefix(calls, AllCalls("derive"))
    <3>1. calls \in Seq(Calls) /\ Len(calls) = 0
      BY <1>2
    <3>2. AllCalls("derive") \in Seq(Calls)
      BY <1>1, AllCallsIs
    <3>3. Len(calls) =< Len(AllCalls("derive")) /\ 1 .. Len(calls) = {}
      BY <3>1, <3>2
    <3> QED BY <3>1, <3>2, <3>3, PrefixIs
  <2> QED BY <1>2, <2>1 DEF CoreCallsInOrder
<1>3. CASE IsConfigured /\ calls \in Partial /\ pc \in CoreSteps \cup {"core"}
  <2>1. calls \in Seq(Early) /\ IsPrefix(calls, AllCalls("derive"))
    BY <1>1, <1>3, PartialIs
  <2>2. calls # <<>> => Last(calls) \in Early
    BY <2>1 DEF Last
  <2>3. pc # "done"
    BY <1>3 DEF CoreSteps
  <2> QED BY <1>3, <2>1, <2>2, <2>3 DEF CoreCallsInOrder, Early
<1>4. CASE Whole /\ pc \in {"core", "done"}
  <2>1. PICK last \in {"derive", "derive_extended"} :
           calls = AllCalls(last) /\ (last = "derive_extended" => IsConfigured)
    BY <1>4 DEF Whole
  <2>2. /\ AllCalls(last) \in Seq(Calls) /\ Len(AllCalls(last)) = Len(Before) + 1
        /\ Before \in Seq(Early) /\ AllCalls(last)[Len(Before) + 1] = last
    BY <1>1, AllCallsIs
  <2>3. calls # <<>> /\ Last(calls) = last
    BY <2>1, <2>2 DEF Last
  <2>4. IsPrefix(calls, AllCalls(last))
    BY <2>1, <2>2, PrefixIs
  <2> QED BY <1>4, <2>1, <2>3, <2>4 DEF CoreCallsInOrder
<1> QED
  <2>1. CASE pc \notin CoreSteps \cup {"core", "done"}
    BY <1>2, <2>1 DEF Called
  <2>2. CASE pc \in {"core", "done"}
    BY <1>3, <1>4, <2>2 DEF Called
  <2>3. CASE pc \in {"derive", "derive_extended"}
    <3>1. CASE IsConfigured
      BY <1>1, <1>3, <2>3, <3>1, StagesAre DEF Called, Before, Partial, CoreSteps
    <3>2. CASE ~IsConfigured
      BY <1>2, <2>3, <3>2 DEF Called, Before
    <3> QED BY <3>1, <3>2
  <2>4. CASE pc \in {"load_packs", "load_context", "resolve", "basis"}
    <3>1. IsConfigured /\ pc \in CoreSteps
      BY <2>4 DEF Called, CoreSteps
    <3>2. calls \in Partial
      <4>1. loaded \in 0 .. Len(Packs) /\ Len(Packs) \in 0 .. Len(Packs)
        BY <1>1 DEF TypeOK
      <4> QED BY <2>4, <4>1 DEF Called, Partial
    <3> QED BY <1>3, <3>1, <3>2
  <2> QED BY <2>1, <2>2, <2>3, <2>4 DEF CoreSteps

(* An error ends the operation before core is called. *)
LEMMA FailCalled ==
    ASSUME Called, pc \in AdmissionSteps, NEW e \in Errors \ {"core"}, Fail(e)
    PROVE  Called'
  BY DEF Called, Fail, AdmissionSteps, CoreSteps, Errors

(* Admission calls nothing; each call into core is the next one. *)
LEMMA CalledStep == TypeOK /\ Called /\ [Next]_vars => Called'
<1> SUFFICES ASSUME TypeOK, Called, [Next]_vars PROVE Called'
  OBVIOUS
<1>1. Len(Packs) \in Nat /\ loaded \in 0 .. Len(Packs)
  BY RequestParts DEF TypeOK
<1>2. CASE AdmitTypes \/ AdmitAt \/ AdmitPacks \/ AdmitPack \/ AdmitContext
  <2>1. /\ pc \in AdmissionSteps /\ UNCHANGED <<request, loaded, calls>>
        /\ pc' \in AdmissionSteps \cup (Errors \ {"core"})
    <3>1. /\ TypeErrors \subseteq Errors \ {"core"}
          /\ \A text, limit : TextErrors(text, limit) \subseteq Errors \ {"core"}
          /\ \A doc \in Document : DocumentErrors(doc) \subseteq Errors \ {"core"}
      BY RequestParts DEF TypeOK, TypeErrors, TextErrors, DocumentErrors, Document, Errors
    <3>2. /\ request.context \subseteq Document /\ Packs \in Seq(Document)
          /\ admitted \in 0 .. Len(Packs)
      BY RequestParts DEF TypeOK
    <3>3. CASE AdmitTypes
      BY <3>1, <3>3 DEF AdmitTypes, Fail, AdmissionSteps
    <3>4. CASE AdmitAt
      BY <3>1, <3>4 DEF AdmitAt, Fail, AdmissionSteps
    <3>5. CASE AdmitPacks
      BY <3>5 DEF AdmitPacks, Fail, AdmissionSteps, Errors
    <3>6. CASE AdmitPack
      <4>1. admitted # Len(Packs) => Packs[admitted + 1] \in Document
        BY <3>2
      <4> QED BY <3>1, <3>6, <4>1 DEF AdmitPack, Fail, AdmissionSteps
    <3>7. CASE AdmitContext
      BY <3>1, <3>2, <3>7 DEF AdmitContext, Fail, AdmissionSteps
    <3> QED BY <1>2, <3>3, <3>4, <3>5, <3>6, <3>7
  <2>2. calls = <<>> /\ loaded = 0
    BY <2>1 DEF Called, AdmissionSteps, CoreSteps
  <2> QED BY <2>1, <2>2 DEF Called, AdmissionSteps, CoreSteps, Errors
<1>3. CASE AdmitNotes
  <2>1. calls = <<>> /\ loaded = 0 /\ UNCHANGED <<request, loaded, calls>>
    BY <1>3 DEF AdmitNotes, Fail, Called, CoreSteps
  <2>2. CASE \E e \in UNION {NotesErrors(notes) : notes \in request.notes} : Fail(e)
    <3>1. PICK e \in UNION {NotesErrors(notes) : notes \in request.notes} : Fail(e)
      BY <2>2
    <3>2. e \in Errors \ {"core"}
      BY <3>1 DEF NotesErrors, TextErrors, Errors
    <3> QED BY <1>3, <3>1, <3>2, FailCalled DEF AdmitNotes, AdmissionSteps
  <2>3. CASE pc' = FirstCall
    <3>1. CASE IsConfigured
      <4>1. pc' = "load_packs"
        BY <2>3, <3>1 DEF FirstCall, IsConfigured
      <4>2. Loads(loaded) = <<>> /\ Loads(loaded)' = Loads(loaded)
        BY <2>1, LoadsIs DEF Loads
      <4>3. IsConfigured'
        BY <2>1, <3>1 DEF IsConfigured, Packs
      <4> QED BY <2>1, <4>1, <4>2, <4>3 DEF Called, CoreSteps
    <3>2. CASE ~IsConfigured
      <4>1. pc' = "derive" /\ Before' = <<>>
        BY <2>1, <2>3, <3>2 DEF FirstCall, IsConfigured, Before, Packs
      <4> QED BY <2>1, <4>1 DEF Called, CoreSteps
    <3> QED BY <3>1, <3>2
  <2> QED BY <1>3, <2>2, <2>3 DEF AdmitNotes
<1> DEFINE n == Len(Packs)
<1>4. /\ Loads(loaded) \in Partial /\ Loads(n) \in Partial
      /\ {Loaded, Resolved, Based} \subseteq Partial
      /\ loaded < n => Loads(loaded + 1) \in Partial
  BY <1>1 DEF Partial
<1>5. ASSUME UNCHANGED request
      PROVE  /\ Packs' = Packs /\ IsConfigured' = IsConfigured /\ Partial' = Partial
             /\ Loaded' = Loaded /\ Resolved' = Resolved /\ Based' = Based
             /\ Before' = Before
             /\ AllCalls("derive")' = AllCalls("derive")
             /\ AllCalls("derive_extended")' = AllCalls("derive_extended")
  BY <1>5 DEF Packs, IsConfigured, Partial, Loaded, Resolved, Based, Before, AllCalls,
              Configured, Loads
<1>6. ASSUME pc \in CoreSteps \ {"derive"}, UNCHANGED request, pc' = "core",
             calls' \in Partial
      PROVE  Called'
  BY <1>5, <1>6 DEF Called, CoreSteps
<1>7. CASE LoadPacks
  <2>1. calls = Loads(loaded) /\ IsConfigured /\ UNCHANGED request /\ pc \in CoreSteps \ {"derive"}
    BY <1>7 DEF LoadPacks, CallCore, Called, CoreSteps
  <2>2. CASE loaded < n
    <3>1. /\ calls' = Append(calls, "load_pack") /\ loaded' = loaded + 1
          /\ pc' \in {"load_packs", "core"}
      BY <1>7, <2>2 DEF LoadPacks, CallCore
    <3>2. calls' = Loads(loaded + 1)
      <4>1. loaded \in Nat
        BY <1>1
      <4>2. Append(Loads(loaded), "load_pack") = Loads(loaded + 1)
        BY <4>1, LoadsIs
      <4> QED BY <2>1, <3>1, <4>2, Zenon
    <3>3. calls' = Loads(loaded')
      BY <3>1, <3>2
    <3>4. CASE pc' = "core"
      BY <1>4, <1>6, <2>1, <2>2, <3>2, <3>4
    <3>5. CASE pc' = "load_packs"
      BY <1>5, <2>1, <3>3, <3>5 DEF Called, CoreSteps, Loads
    <3> QED BY <3>1, <3>4, <3>5
  <2>3. CASE ~(loaded < n)
    <3>1. loaded = n /\ pc' = "load_context" /\ calls' = calls
      BY <1>1, <1>7, <2>3 DEF LoadPacks
    <3> QED BY <1>5, <2>1, <3>1 DEF Called, CoreSteps, Loads
  <2> QED BY <2>2, <2>3
<1>8. CASE LoadContext
  <2>1. calls = Loads(n) /\ IsConfigured /\ UNCHANGED request /\ pc \in CoreSteps \ {"derive"}
    BY <1>8 DEF LoadContext, CallCore, Called, CoreSteps
  <2>2. calls' = Loaded /\ pc' \in {"resolve", "core"}
    <3>1. CASE request.context = {}
      BY <1>1, <1>8, <2>1, <3>1, StagesAre DEF LoadContext
    <3>2. CASE request.context # {}
      BY <1>1, <1>8, <2>1, <3>2, StagesAre DEF LoadContext, CallCore
    <3> QED BY <3>1, <3>2
  <2>3. CASE pc' = "core"
    BY <1>4, <1>6, <2>1, <2>2, <2>3
  <2>4. CASE pc' = "resolve"
    BY <1>5, <2>1, <2>2, <2>4 DEF Called, CoreSteps
  <2> QED BY <2>2, <2>3, <2>4
<1>9. CASE Resolve
  <2>1. /\ calls = Loaded /\ IsConfigured /\ UNCHANGED request /\ pc \in CoreSteps \ {"derive"}
        /\ calls' = Resolved /\ pc' \in {"basis", "core"}
    BY <1>9 DEF Resolve, CallCore, Called, CoreSteps, Resolved
  <2>2. CASE pc' = "core"
    BY <1>4, <1>6, <2>1, <2>2
  <2>3. CASE pc' = "basis"
    BY <1>5, <2>1, <2>3 DEF Called, CoreSteps
  <2> QED BY <2>1, <2>2, <2>3
<1>10. CASE BuildBasis
  <2>1. /\ IsConfigured /\ UNCHANGED request /\ pc \in CoreSteps \ {"derive"}
        /\ calls' = Based /\ pc' \in {"derive", "derive_extended", "core"}
    BY <1>10 DEF BuildBasis, CallCore, Called, CoreSteps, Based
  <2>2. CASE pc' = "core"
    BY <1>4, <1>6, <2>1, <2>2
  <2>3. CASE pc' \in {"derive", "derive_extended"}
    <3>1. calls' = Before
      BY <1>1, <2>1, StagesAre DEF Before
    <3> QED BY <1>5, <2>1, <2>3, <3>1 DEF Called, CoreSteps
  <2> QED BY <2>1, <2>2, <2>3
<1>11. CASE Derive
  <2>1. /\ calls = Before /\ UNCHANGED request /\ calls' = Append(Before, pc)
        /\ pc \in {"derive", "derive_extended"} /\ pc' \in {"done", "core"}
        /\ pc = "derive_extended" => IsConfigured
    BY <1>11 DEF Derive, CallCore, Called, CoreSteps
  <2>2. calls' = AllCalls(pc)
    BY <1>1, <2>1, AllCallsIs
  <2>3. Whole'
    BY <1>5, <2>1, <2>2 DEF Whole
  <2> QED BY <2>1, <2>3 DEF Called, CoreSteps
<1>12. CASE UNCHANGED vars
  <2>1. UNCHANGED <<request, pc, loaded, calls>>
    BY <1>12 DEF vars
  <2> QED BY <1>5, <2>1 DEF Called, Whole, Loads
<1> QED
  BY <1>2, <1>3, <1>7, <1>8, <1>9, <1>10, <1>11, <1>12 DEF Next

(* For every request, core is called only when the whole of it is admitted, *)
(* once for each thing and in order, and no more after a failure.           *)
(* (core_calls.rs:16-58, derive_admission.rs:4)                             *)
THEOREM CallsCorrect == Spec => []CoreCallsInOrder
<1>1. Init => Called
  BY DEF Init, Called, CoreSteps
<1> QED BY <1>1, CalledStep, CalledInOrder, TypeCorrect, PTL DEF Spec

-------------------------------------------------------------------------------
(* What is admitted: at each place of the admission, the total of what was  *)
(* charged, and that all of it is fine alone.                               *)
FineDocument(d) ==
    d.dict /\ d.defect = "none" /\ ~d.deep /\ CountsWithin(d.size, CONFIG_BYTES)

Accepted == CoreSteps \cup {"core", "done"}

AfterTypes == {"at", "packs", "pack", "context", "notes"} \cup Accepted

AfterAt == AfterTypes \ {"at"}

AfterPacks == {"context", "notes"} \cup Accepted

AfterContext == {"notes"} \cup Accepted

TextsFine ==
    /\ pc \in AfterTypes => ArgumentsTyped
    /\ pc \in AfterAt => request.at.bytes =< AT_BYTES /\ ~request.at.lone_surrogate
    /\ pc \in Accepted => \A n \in request.notes : n.bytes =< NOTES_BYTES /\ ~n.lone_surrogate

DocumentsFine ==
    /\ pc \in {"types", "at", "packs"} => admitted = 0
    /\ pc \in AfterPacks /\ request.packs # {} => admitted = Len(Packs)
    /\ pc = "pack" => request.packs # {}
    /\ pc \in {"pack"} \cup AfterPacks =>
          /\ Len(Packs) =< MAX_PACKS
          /\ \A i \in 1 .. admitted : FineDocument(Packs[i])
    /\ pc \in AfterContext => \A d \in request.context : FineDocument(d)

(* The bytes and nodes of the text, the list and the packs so far. *)
BytesCharged == request.at.bytes + Sums(PackBytes)[admitted]
NodesCharged == (IF request.packs = {} THEN 0 ELSE 1) + Sums(PackNodes)[admitted]

Charged ==
    /\ pc = "packs" => combined = [bytes |-> request.at.bytes, nodes |-> 0]
    /\ pc \in {"pack", "context"} =>
          combined.bytes = BytesCharged /\ combined.nodes = NodesCharged
    /\ pc \in AfterContext => /\ combined.bytes = BytesCharged + ContextSize.bytes
                              /\ combined.nodes = NodesCharged + ContextSize.nodes
    /\ pc \in Accepted => combined.bytes + NotesBytes =< REQUEST_BYTES

AdmittedInv == TextsFine /\ DocumentsFine /\ Charged /\ RefusalsAreTruthful

(* An argument that is given is the only one of its kind. *)
LEMMA GivenOnce ==
    ASSUME request \in Requests
    PROVE  /\ \A c \in request.context : ContextSize = c.size
           /\ \A n \in request.notes : NotesBytes = n.bytes
           /\ request.context = {} => ContextSize = NoCounts
           /\ request.notes = {} => NotesBytes = 0
           /\ ContextSize \in Counts /\ NotesBytes \in Nat
<1>1. /\ \A x, y \in request.context : x = y
      /\ \A x, y \in request.notes : x = y
      /\ request.context \subseteq Document /\ request.notes \subseteq Text
  BY DeriveAssumption, RequestParts
<1>2. ASSUME NEW c \in request.context PROVE ContextSize = c.size
  <2>1. (CHOOSE x \in request.context : TRUE) = c
    BY <1>1
  <2> QED BY <2>1 DEF ContextSize
<1>3. ASSUME NEW n \in request.notes PROVE NotesBytes = n.bytes
  <2>1. (CHOOSE x \in request.notes : TRUE) = n
    BY <1>1
  <2> QED BY <2>1 DEF NotesBytes
<1>4. NoCounts \in Counts
  BY DEF NoCounts, Counts
<1>5. ContextSize \in Counts
  <2>1. CASE request.context = {}
    BY <1>4, <2>1 DEF ContextSize
  <2>2. CASE request.context # {}
    <3>1. PICK c \in request.context : TRUE
      BY <2>2
    <3> QED BY <1>1, <1>2, <3>1 DEF Document
  <2> QED BY <2>1, <2>2
<1>6. NotesBytes \in Nat
  <2>1. CASE request.notes = {}
    BY <2>1 DEF NotesBytes
  <2>2. CASE request.notes # {}
    <3>1. PICK n \in request.notes : TRUE
      BY <2>2
    <3> QED BY <1>1, <1>3, <3>1 DEF Text
  <2> QED BY <2>1, <2>2
<1> QED BY <1>2, <1>3, <1>5, <1>6 DEF ContextSize, NotesBytes

(* The totals of the packs, one by one. *)
LEMMA PackTotals ==
    ASSUME request \in Requests
    PROVE  /\ Len(Packs) \in Nat
           /\ Sums(PackBytes)[0] = 0 /\ Sums(PackNodes)[0] = 0
           /\ \A k \in 0 .. Len(Packs) :
                 /\ Sums(PackBytes)[k] \in Nat /\ Sums(PackBytes)[k] =< Total(PackBytes)
                 /\ Sums(PackNodes)[k] \in Nat /\ Sums(PackNodes)[k] =< Total(PackNodes)
           /\ \A k \in 0 .. Len(Packs) - 1 :
                 /\ Sums(PackBytes)[k + 1] = Sums(PackBytes)[k] + Packs[k + 1].size.bytes
                 /\ Sums(PackNodes)[k + 1] = Sums(PackNodes)[k] + Packs[k + 1].size.nodes
           /\ Total(PackBytes) = Sums(PackBytes)[Len(Packs)]
           /\ Total(PackNodes) = Sums(PackNodes)[Len(Packs)]
           /\ Total(PackBytes) \in Nat /\ Total(PackNodes) \in Nat
<1> DEFINE n == Len(Packs)
<1>1. Packs \in Seq(Document) /\ n \in Nat
  BY RequestParts
<1>2. \A i \in 1 .. n : Packs[i].size.bytes \in Nat /\ Packs[i].size.nodes \in Nat
  <2>1. \A i \in 1 .. n : Packs[i] \in Document
    BY <1>1
  <2>2. \A d \in Document : d.size.bytes \in Nat /\ d.size.nodes \in Nat
    BY DEF Document, Counts
  <2> QED BY <2>1, <2>2
<1>3. /\ PackBytes \in Seq(Nat) /\ Len(PackBytes) = n
      /\ \A i \in 1 .. n : PackBytes[i] = Packs[i].size.bytes
  <2>1. DOMAIN Packs = 1 .. n
    BY <1>1
  <2> QED BY <1>1, <1>2, <2>1 DEF PackBytes
<1>4. /\ PackNodes \in Seq(Nat) /\ Len(PackNodes) = n
      /\ \A i \in 1 .. n : PackNodes[i] = Packs[i].size.nodes
  <2>1. DOMAIN Packs = 1 .. n
    BY <1>1
  <2> QED BY <1>1, <1>2, <2>1 DEF PackNodes
<1>5. ASSUME NEW f \in Seq(Nat), Len(f) = n
      PROVE  /\ Sums(f)[0] = 0
             /\ \A k \in 0 .. n : Sums(f)[k] \in Nat /\ Sums(f)[k] =< Total(f)
             /\ \A k \in 0 .. n - 1 : Sums(f)[k + 1] = Sums(f)[k] + f[k + 1]
             /\ Total(f) = Sums(f)[n] /\ Total(f) \in Nat
  <2>1. Sums(f) \in [0 .. n -> Nat] /\ Sums(f)[0] = 0
    BY <1>5, SumsAre
  <2>2. \A i \in 1 .. n : Sums(f)[i] = Sums(f)[i - 1] + f[i]
    BY <1>5, SumsAre
  <2>3. ASSUME NEW k \in 0 .. n - 1 PROVE Sums(f)[k + 1] = Sums(f)[k] + f[k + 1]
    <3>1. k + 1 \in 1 .. n /\ (k + 1) - 1 = k
      BY <1>1
    <3> QED BY <2>2, <3>1
  <2>4. Total(f) = Sums(f)[n]
    BY <1>5 DEF Total
  <2>5. ASSUME NEW k \in 0 .. n PROVE Sums(f)[k] =< Sums(f)[n]
    <3>1. n \in 0 .. Len(f)
      BY <1>1, <1>5
    <3> QED BY <3>1, SumsGrow
  <2>6. n \in 0 .. n
    BY <1>1
  <2> QED BY <2>1, <2>3, <2>4, <2>5, <2>6
<1>6. \A k \in 0 .. n - 1 : k + 1 \in 1 .. n
  BY <1>1
<1> HIDE DEF n
<1> QED BY <1>1, <1>3, <1>4, <1>5, <1>6 DEF n

(* A document is admitted if it is fine and there is room for it, and is    *)
(* refused for what is wrong with it.                                       *)
LEMMA DocumentMeans ==
    ASSUME NEW d \in Document, combined \in Counts
    PROVE  /\ DocumentOk(d) => FineDocument(d)
           /\ ~d.dict => DocumentErrors(d) = {"type"}
           /\ DocumentErrors(d) \subseteq {"type", "value", "overflow", "memory", "budget"}
           /\ \A e \in {"value", "overflow"} : e \in DocumentErrors(d) => d.defect = e
           /\ "type" \in DocumentErrors(d) => ~d.dict \/ d.defect = "type"
           /\ "budget" \in DocumentErrors(d) =>
                 \/ d.deep \/ ~CountsWithin(d.size, CONFIG_BYTES)
                 \/ combined.bytes + d.size.bytes > REQUEST_BYTES
                 \/ combined.nodes + d.size.nodes > NODES
<1>1. /\ d.size.bytes \in Nat /\ d.size.nodes \in Nat /\ d.dict \in BOOLEAN
      /\ d.defect \in {"none", "type", "value", "overflow"}
      /\ combined.bytes \in Nat /\ combined.nodes \in Nat
  BY DEF Document, Counts
<1>2. /\ WordSize \in Nat /\ CONFIG_BYTES \in Nat /\ REQUEST_BYTES \in Nat /\ NODES \in Nat
      /\ DEPTH \in Nat
      /\ CONFIG_BYTES < WordSize /\ REQUEST_BYTES < WordSize /\ NODES < WordSize
  BY BudgetAssumption
<1>3. DocumentFits(d) <=> /\ ~d.deep /\ CountsWithin(d.size, CONFIG_BYTES)
                          /\ combined.bytes + d.size.bytes =< REQUEST_BYTES
                          /\ combined.nodes + d.size.nodes =< NODES
  BY <1>1, <1>2 DEF DocumentFits, Admits, ConfigurationBudget, NoCounts, Fits, CountsWithin
<1>4. DocumentOk(d) => FineDocument(d)
  BY <1>3 DEF DocumentOk, FineDocument
<1>5. ~(combined.bytes + d.size.bytes =< REQUEST_BYTES) <=> combined.bytes + d.size.bytes > REQUEST_BYTES
  BY <1>1, <1>2
<1>6. ~(combined.nodes + d.size.nodes =< NODES) <=> combined.nodes + d.size.nodes > NODES
  BY <1>1, <1>2
<1>7. "budget" \in DocumentErrors(d) => ~DocumentFits(d)
  BY <1>1 DEF DocumentErrors
<1> QED BY <1>1, <1>3, <1>4, <1>5, <1>6, <1>7 DEF DocumentErrors

(* A text likewise. *)
LEMMA TextMeans ==
    ASSUME NEW t \in Text, NEW limit \in Nat, limit < WordSize
    PROVE  /\ TextOk(t, limit) <=> t.bytes =< limit /\ ~t.lone_surrogate
           /\ TextErrors(t, limit) \subseteq {"value", "memory", "budget"}
           /\ "value" \in TextErrors(t, limit) => t.lone_surrogate
           /\ "budget" \in TextErrors(t, limit) => t.bytes > limit
<1>1. t.bytes \in Nat /\ WordSize \in Nat
  BY BudgetAssumption DEF Text
<1>2. Fits(0, t.bytes, limit) <=> t.bytes =< limit
  BY <1>1 DEF Fits
<1>3. ~(t.bytes =< limit) <=> t.bytes > limit
  BY <1>1
<1> QED BY <1>2, <1>3 DEF TextOk, TextErrors

-------------------------------------------------------------------------------
(* The cause a refusal of each class has. *)
Truthful(e) ==
    /\ e = "kind" => request.survey = "kind"
    /\ e = "type" => ~ArgumentsTyped \/ HasDefect("type") \/ \E d \in ToSet(Packs) : ~d.dict
    /\ e = "value" => HasDefect("value") \/ \E t \in Texts : t.lone_surrogate
    /\ e = "overflow" => HasDefect("overflow")
    /\ e = "budget" => ~WithinLimits
    /\ e \in {"value", "overflow", "budget"} => ArgumentsTyped

(* What is said of a request is the same as long as the request is. *)
LEMMA RequestKept ==
    ASSUME UNCHANGED request
    PROVE  /\ Packs' = Packs /\ Documents' = Documents /\ Texts' = Texts
           /\ ContextSize' = ContextSize /\ NotesBytes' = NotesBytes
           /\ PackBytes' = PackBytes /\ PackNodes' = PackNodes
           /\ ArgumentsTyped' <=> ArgumentsTyped
           /\ WithinLimits' <=> WithinLimits
           /\ \A e : Truthful(e)' <=> Truthful(e)
<1>1. Packs' = Packs
  BY DEF Packs
<1>2. /\ Documents' = Documents /\ Texts' = Texts
      /\ ContextSize' = ContextSize /\ NotesBytes' = NotesBytes
      /\ PackBytes' = PackBytes /\ PackNodes' = PackNodes
  BY <1>1 DEF Documents, Texts, ContextSize, NotesBytes, PackBytes, PackNodes
<1>3. ArgumentsTyped' <=> ArgumentsTyped
  BY <1>2 DEF ArgumentsTyped
<1>4. TotalBytes' = TotalBytes /\ TotalNodes' = TotalNodes
  BY <1>2 DEF TotalBytes, TotalNodes
<1>5. WithinLimits' <=> WithinLimits
  BY <1>1, <1>2, <1>4 DEF WithinLimits
<1>6. \A e : HasDefect(e)' <=> HasDefect(e)
  BY <1>2 DEF HasDefect
<1>7. \A e : Truthful(e)' <=> Truthful(e)
  BY <1>1, <1>2, <1>3, <1>5, <1>6 DEF Truthful
<1> QED BY <1>1, <1>2, <1>3, <1>5, <1>7

(* A refusal that is truthful keeps the invariant. *)
LEMMA RefusedStep ==
    ASSUME NEW e \in Errors \ {"core"}, Fail(e), Truthful(e)
    PROVE  AdmittedInv'
<1>1. pc' = e /\ UNCHANGED request
  BY DEF Fail
<1>2. Truthful(e)'
  BY <1>1, RequestKept
<1>3. /\ e \notin AfterTypes /\ e \notin AfterAt /\ e \notin AfterPacks /\ e \notin AfterContext
      /\ e \notin Accepted /\ e \notin {"types", "at", "packs", "pack", "context", "notes"}
  BY DEF Errors, AfterTypes, AfterAt, AfterPacks, AfterContext, Accepted, CoreSteps
<1>4. TextsFine' /\ DocumentsFine' /\ Charged'
  BY <1>1, <1>3 DEF TextsFine, DocumentsFine, Charged
<1>5. RefusalsAreTruthful'
  BY <1>1, <1>2 DEF RefusalsAreTruthful, Truthful
<1> QED BY <1>4, <1>5 DEF AdmittedInv

(* A step that refuses nothing says nothing of a refusal. *)
LEMMA NotRefused == pc \notin Errors => RefusalsAreTruthful
  BY DEF RefusalsAreTruthful, Errors

(* The handles and the types. *)
LEMMA TypesStep == IInv /\ AdmittedInv /\ AdmitTypes => AdmittedInv'
<1> SUFFICES ASSUME IInv, AdmittedInv, AdmitTypes PROVE AdmittedInv'
  OBVIOUS
<1>1. CASE \E e \in TypeErrors : Fail(e)
  <2>1. PICK e \in TypeErrors : Fail(e)
    BY <1>1
  <2>2. e \in {"type", "kind"} /\ ~ArgumentsTyped /\ (e = "kind" => request.survey = "kind")
    BY <2>1, RequestParts DEF TypeErrors, ArgumentsTyped, Texts, IInv, TypeOK
  <2> QED BY <2>1, <2>2, RefusedStep DEF Truthful, Errors
<1>2. CASE TypeErrors = {} /\ pc' = "at" /\ UNCHANGED <<request, combined, admitted, loaded, calls>>
  <2>1. ArgumentsTyped
    BY <1>2 DEF TypeErrors, ArgumentsTyped, Texts
  <2>2. ArgumentsTyped' /\ admitted' = 0
    BY <1>2, <2>1, RequestKept DEF AdmittedInv, DocumentsFine, AdmitTypes
  <2>3. TextsFine' /\ DocumentsFine' /\ Charged'
    BY <1>2, <2>2 DEF TextsFine, DocumentsFine, Charged, AfterAt, AfterTypes, AfterPacks,
                      AfterContext, Accepted, CoreSteps
  <2> QED BY <1>2, <2>3 DEF AdmittedInv, RefusalsAreTruthful
<1> QED BY <1>1, <1>2 DEF AdmitTypes

(* The time, which is all that is charged yet. *)
LEMMA AtStep == IInv /\ AdmittedInv /\ AdmitAt => AdmittedInv'
<1> SUFFICES ASSUME IInv, AdmittedInv, AdmitAt PROVE AdmittedInv'
  OBVIOUS
<1>1. pc = "at" /\ ArgumentsTyped /\ admitted = 0 /\ request \in Requests
  BY DEF AdmitAt, AdmittedInv, TextsFine, DocumentsFine, AfterTypes, IInv, TypeOK
<1>2. /\ request.at \in Text /\ AT_BYTES \in Nat /\ AT_BYTES < WordSize
  BY <1>1, RequestParts, BudgetAssumption, DeriveAssumption
<1>3. CASE \E e \in TextErrors(request.at, AT_BYTES) : Fail(e)
  <2>1. PICK e \in TextErrors(request.at, AT_BYTES) : Fail(e)
    BY <1>3
  <2>2. e \in {"value", "memory", "budget"}
    BY <1>2, <2>1, TextMeans
  <2>3. e = "value" => \E t \in Texts : t.lone_surrogate
    BY <1>2, <2>1, TextMeans DEF Texts
  <2>4. e = "budget" => ~WithinLimits
    <3>1. e = "budget" => request.at.bytes > AT_BYTES
      BY <1>2, <2>1, TextMeans
    <3> QED BY <1>2, <3>1 DEF WithinLimits, Text
  <2>5. Truthful(e)
    BY <1>1, <2>2, <2>3, <2>4 DEF Truthful
  <2> QED BY <2>1, <2>2, <2>5, RefusedStep DEF Errors
<1>4. CASE /\ TextOk(request.at, AT_BYTES)
           /\ combined' = [bytes |-> request.at.bytes, nodes |-> 0]
           /\ pc' = "packs"
           /\ UNCHANGED <<request, admitted, loaded, calls>>
  <2>1. request.at.bytes =< AT_BYTES /\ ~request.at.lone_surrogate
    BY <1>2, <1>4, TextMeans
  <2>2. TextsFine'
    BY <1>1, <1>4, <2>1, RequestKept DEF TextsFine, Accepted, CoreSteps
  <2>3. DocumentsFine' /\ Charged'
    BY <1>1, <1>4 DEF DocumentsFine, Charged, AfterPacks, AfterContext, Accepted, CoreSteps
  <2> QED BY <1>4, <2>2, <2>3 DEF AdmittedInv, RefusalsAreTruthful
<1> QED BY <1>3, <1>4 DEF AdmitAt

(* The list of packs. *)
LEMMA PacksStep == IInv /\ AdmittedInv /\ AdmitPacks => AdmittedInv'
<1> SUFFICES ASSUME IInv, AdmittedInv, AdmitPacks PROVE AdmittedInv'
  OBVIOUS
<1>1. /\ pc = "packs" /\ ArgumentsTyped /\ admitted = 0 /\ request \in Requests
      /\ request.at.bytes =< AT_BYTES /\ ~request.at.lone_surrogate
      /\ combined = [bytes |-> request.at.bytes, nodes |-> 0]
  BY DEF AdmitPacks, AdmittedInv, TextsFine, DocumentsFine, Charged, AfterTypes, AfterAt, IInv, TypeOK
<1>2. /\ Len(Packs) \in Nat /\ MAX_PACKS \in Nat /\ request.at.bytes \in Nat
      /\ Sums(PackBytes)[0] = 0 /\ Sums(PackNodes)[0] = 0
  BY <1>1, PackTotals, RequestParts, DeriveAssumption DEF Text
<1>3. ASSUME UNCHANGED request, pc' \in {"context", "pack"} PROVE TextsFine'
  BY <1>1, <1>3, RequestKept DEF TextsFine, Accepted, CoreSteps
<1>4. ASSUME UNCHANGED request, admitted' = 0
      PROVE  BytesCharged' = request.at.bytes /\ NodesCharged' = (IF request.packs = {} THEN 0 ELSE 1)
  BY <1>2, <1>4, RequestKept DEF BytesCharged, NodesCharged
<1>5. CASE /\ request.packs = {} /\ pc' = "context"
           /\ UNCHANGED <<request, combined, admitted, loaded, calls>>
  <2>1. Len(Packs) = 0
    BY <1>5 DEF Packs
  <2>2. DocumentsFine'
    BY <1>1, <1>2, <1>5, <2>1, RequestKept DEF DocumentsFine, AfterContext, Accepted, CoreSteps
  <2>3. Charged'
    BY <1>1, <1>4, <1>5 DEF Charged, AfterContext, Accepted, CoreSteps
  <2> QED BY <1>3, <1>5, <2>2, <2>3 DEF AdmittedInv, RefusalsAreTruthful
<1>6. CASE Fail(IF Len(Packs) > MAX_PACKS THEN "budget" ELSE "memory")
  <2> DEFINE e == IF Len(Packs) > MAX_PACKS THEN "budget" ELSE "memory"
  <2>1. e = "budget" => ~WithinLimits
    BY <1>2 DEF WithinLimits
  <2>2. e \in {"budget", "memory"} /\ Fail(e)
    BY <1>6
  <2> HIDE DEF e
  <2>3. Truthful(e)
    BY <1>1, <2>1, <2>2 DEF Truthful
  <2> QED BY <2>2, <2>3, RefusedStep DEF Errors
<1>7. CASE /\ request.packs # {} /\ Len(Packs) =< MAX_PACKS
           /\ combined' = [combined EXCEPT !.nodes = 1]
           /\ pc' = "pack"
           /\ UNCHANGED <<request, admitted, loaded, calls>>
  <2>1. DocumentsFine'
    BY <1>1, <1>2, <1>7, RequestKept DEF DocumentsFine, AfterPacks, AfterContext, Accepted, CoreSteps
  <2>2. Charged'
    BY <1>1, <1>4, <1>7 DEF Charged, AfterContext, Accepted, CoreSteps
  <2> QED BY <1>3, <1>7, <2>1, <2>2 DEF AdmittedInv, RefusalsAreTruthful
<1> QED BY <1>5, <1>6, <1>7 DEF AdmitPacks

(* The fields of a document that is refused for its contents. *)
LEMMA DocumentRefused ==
    ASSUME NEW d \in Document, d \in Documents, request \in Requests, combined \in Counts,
           ArgumentsTyped, NEW e \in DocumentErrors(d),
           ~d.dict => d \in ToSet(Packs),
           combined.bytes + d.size.bytes =< TotalBytes,
           combined.nodes + d.size.nodes =< TotalNodes,
           TotalBytes \in Nat, TotalNodes \in Nat
    PROVE  e \in Errors \ {"core"} /\ Truthful(e)
<1>1. e \in {"type", "value", "overflow", "memory", "budget"}
  BY DocumentMeans
<1>2. e \in {"value", "overflow"} => HasDefect(e)
  BY DocumentMeans DEF HasDefect
<1>3. e = "type" => HasDefect("type") \/ \E p \in ToSet(Packs) : ~p.dict
  BY DocumentMeans DEF HasDefect
<1>4. e = "budget" => ~WithinLimits
  <2>1. SUFFICES ASSUME e = "budget", WithinLimits PROVE FALSE
    OBVIOUS
  <2>2. /\ combined.bytes \in Nat /\ combined.nodes \in Nat
        /\ d.size.bytes \in Nat /\ d.size.nodes \in Nat
        /\ REQUEST_BYTES \in Nat /\ NODES \in Nat
    BY BudgetAssumption DEF Document, Counts
  <2>3. ~d.deep /\ CountsWithin(d.size, CONFIG_BYTES)
        /\ TotalBytes =< REQUEST_BYTES /\ TotalNodes =< NODES
    BY <2>1 DEF WithinLimits
  <2>4. \/ combined.bytes + d.size.bytes > REQUEST_BYTES
        \/ combined.nodes + d.size.nodes > NODES
    BY <2>1, <2>3, DocumentMeans
  <2> QED BY <2>2, <2>3, <2>4
<1> QED BY <1>1, <1>2, <1>3, <1>4 DEF Truthful, Errors

(* The totals of the request are sums of naturals. *)
LEMMA TotalsAre ==
    ASSUME request \in Requests
    PROVE  /\ TotalBytes \in Nat /\ TotalNodes \in Nat
           /\ request.at.bytes \in Nat /\ NotesBytes \in Nat
           /\ ContextSize.bytes \in Nat /\ ContextSize.nodes \in Nat
           /\ Total(PackBytes) \in Nat /\ Total(PackNodes) \in Nat
<1>1. request.at.bytes \in Nat
  BY RequestParts DEF Text
<1>2. NotesBytes \in Nat /\ ContextSize.bytes \in Nat /\ ContextSize.nodes \in Nat
  BY GivenOnce DEF Counts
<1>3. Total(PackBytes) \in Nat /\ Total(PackNodes) \in Nat
  BY PackTotals
<1> QED BY <1>1, <1>2, <1>3 DEF TotalBytes, TotalNodes

(* The next pack. *)
LEMMA PackStep == IInv /\ AdmittedInv /\ AdmitPack => AdmittedInv'
<1> SUFFICES ASSUME IInv, AdmittedInv, AdmitPack PROVE AdmittedInv'
  OBVIOUS
<1>1. /\ pc = "pack" /\ ArgumentsTyped /\ request \in Requests /\ combined \in Counts
      /\ request.at.bytes =< AT_BYTES /\ ~request.at.lone_surrogate
      /\ request.packs # {} /\ admitted \in 0 .. Len(Packs) /\ Len(Packs) =< MAX_PACKS
      /\ \A i \in 1 .. admitted : FineDocument(Packs[i])
      /\ combined.bytes = BytesCharged /\ combined.nodes = NodesCharged
  BY DEF AdmitPack, AdmittedInv, TextsFine, DocumentsFine, Charged, AfterTypes, AfterAt, IInv, TypeOK
<1>2. Len(Packs) \in Nat /\ combined.bytes \in Nat /\ combined.nodes \in Nat
  BY <1>1, PackTotals DEF Counts
<1>3. ASSUME UNCHANGED request, pc' \in {"context", "pack"} PROVE TextsFine'
  BY <1>1, <1>3, RequestKept DEF TextsFine, Accepted, CoreSteps
<1>4. CASE /\ admitted = Len(Packs) /\ pc' = "context"
           /\ UNCHANGED <<request, combined, admitted, loaded, calls>>
  <2>1. DocumentsFine'
    BY <1>1, <1>4, RequestKept DEF DocumentsFine, AfterContext, Accepted, CoreSteps
  <2>2. BytesCharged' = BytesCharged /\ NodesCharged' = NodesCharged
    BY <1>4, RequestKept DEF BytesCharged, NodesCharged
  <2>3. Charged'
    BY <1>1, <1>4, <2>2 DEF Charged, AfterContext, Accepted, CoreSteps
  <2> QED BY <1>3, <1>4, <2>1, <2>3 DEF AdmittedInv, RefusalsAreTruthful
<1>5. CASE admitted # Len(Packs)
  <2> DEFINE next == admitted + 1
             d == Packs[next]
  <2>1. /\ next \in 1 .. Len(Packs) /\ d \in Document /\ d \in ToSet(Packs) /\ d \in Documents
        /\ admitted \in 0 .. Len(Packs) - 1 /\ next \in 0 .. Len(Packs)
    <3>1. next \in 1 .. Len(Packs) /\ admitted \in 0 .. Len(Packs) - 1 /\ next \in 0 .. Len(Packs)
      BY <1>1, <1>2, <1>5
    <3>2. Packs \in Seq(Document)
      BY <1>1, RequestParts
    <3>3. d \in Document /\ next \in DOMAIN Packs
      BY <3>1, <3>2
    <3> QED BY <3>1, <3>3 DEF ToSet, Documents
  <2>2. /\ Sums(PackBytes)[next] = Sums(PackBytes)[admitted] + d.size.bytes
        /\ Sums(PackNodes)[next] = Sums(PackNodes)[admitted] + d.size.nodes
        /\ Sums(PackBytes)[next] =< Total(PackBytes) /\ Sums(PackNodes)[next] =< Total(PackNodes)
        /\ Sums(PackBytes)[admitted] \in Nat /\ Sums(PackNodes)[admitted] \in Nat
    BY <1>1, <2>1, PackTotals
  <2>3. d.size.bytes \in Nat /\ d.size.nodes \in Nat
    BY <2>1 DEF Document, Counts
  <2> HIDE DEF d
  <2>4. /\ combined.bytes + d.size.bytes = request.at.bytes + Sums(PackBytes)[next]
        /\ combined.nodes + d.size.nodes = (IF request.packs = {} THEN 0 ELSE 1) + Sums(PackNodes)[next]
    <3>1. request.at.bytes \in Nat
      BY <1>1, TotalsAre
    <3>2. combined.bytes = request.at.bytes + Sums(PackBytes)[admitted]
      BY <1>1 DEF BytesCharged
    <3>3. combined.nodes = 1 + Sums(PackNodes)[admitted] /\ (IF request.packs = {} THEN 0 ELSE 1) = 1
      BY <1>1 DEF NodesCharged
    <3>4. Sums(PackBytes)[next] = Sums(PackBytes)[admitted] + d.size.bytes
      BY <2>2
    <3>5. Sums(PackNodes)[next] = Sums(PackNodes)[admitted] + d.size.nodes
      BY <2>2
    <3>6. Sums(PackBytes)[admitted] \in Nat /\ Sums(PackNodes)[admitted] \in Nat
      BY <2>2
    <3> HIDE DEF next
    <3>7. combined.bytes + d.size.bytes = request.at.bytes + Sums(PackBytes)[next]
      BY <2>3, <3>1, <3>2, <3>4, <3>6
    <3>8. combined.nodes + d.size.nodes = 1 + Sums(PackNodes)[next]
      BY <2>3, <3>3, <3>5, <3>6
    <3> QED BY <3>3, <3>7, <3>8
  <2>5. CASE \E e \in DocumentErrors(d) : Fail(e)
    <3>1. PICK e \in DocumentErrors(d) : Fail(e)
      BY <2>5
    <3>2. /\ combined.bytes + d.size.bytes =< TotalBytes
          /\ combined.nodes + d.size.nodes =< TotalNodes
          /\ TotalBytes \in Nat /\ TotalNodes \in Nat
      <4>1. /\ TotalBytes \in Nat /\ TotalNodes \in Nat
            /\ request.at.bytes \in Nat /\ NotesBytes \in Nat
            /\ ContextSize.bytes \in Nat /\ ContextSize.nodes \in Nat
            /\ Total(PackBytes) \in Nat /\ Total(PackNodes) \in Nat
        BY <1>1, TotalsAre
      <4> DEFINE b == Sums(PackBytes)[next]
                 n == Sums(PackNodes)[next]
      <4>2. b \in Nat /\ n \in Nat /\ b =< Total(PackBytes) /\ n =< Total(PackNodes)
        BY <2>2, <2>3
      <4>3. combined.bytes + d.size.bytes = request.at.bytes + b /\ combined.nodes + d.size.nodes = 1 + n
        BY <1>1, <2>4
      <4>4. TotalNodes = 1 + Total(PackNodes) + ContextSize.nodes
        BY <1>1 DEF TotalNodes
      <4> HIDE DEF b, n
      <4>5. request.at.bytes + b =< TotalBytes
        BY <4>1, <4>2 DEF TotalBytes
      <4>6. 1 + n =< TotalNodes
        BY <4>1, <4>2, <4>4
      <4> QED BY <4>1, <4>3, <4>5, <4>6
    <3>3. e \in Errors \ {"core"} /\ Truthful(e)
      BY <1>1, <2>1, <3>1, <3>2, DocumentRefused
    <3> QED BY <3>1, <3>3, RefusedStep
  <2>6. CASE /\ DocumentOk(d)
             /\ combined' = WithDocument(d)
             /\ admitted' = next
             /\ UNCHANGED <<request, pc, loaded, calls>>
    <3>1. FineDocument(d) /\ FineDocument(Packs[next])
      BY <1>1, <2>1, <2>6, DocumentMeans DEF d
    <3>2. \A i \in 1 .. next : FineDocument(Packs[i])
      <4>1. ASSUME NEW i \in 1 .. next, i # next PROVE i \in 1 .. admitted
        BY <1>1, <4>1
      <4> QED BY <1>1, <3>1, <4>1
    <3>3. DocumentsFine'
      <4>1. /\ pc' = "pack" /\ request' = request /\ Packs' = Packs
            /\ \A i \in 1 .. admitted' : FineDocument(Packs[i])
        BY <1>1, <2>6, <3>2, RequestKept
      <4> QED BY <1>1, <4>1 DEF DocumentsFine, AfterPacks, AfterContext, Accepted, CoreSteps
    <3>4. Charged'
      <4>1. /\ BytesCharged' = request.at.bytes + Sums(PackBytes)[next]
            /\ NodesCharged' = (IF request.packs = {} THEN 0 ELSE 1) + Sums(PackNodes)[next]
        BY <2>6, RequestKept DEF BytesCharged, NodesCharged
      <4>2. /\ combined'.bytes = combined.bytes + d.size.bytes
            /\ combined'.nodes = combined.nodes + d.size.nodes
        BY <1>1, <2>6 DEF WithDocument, Plus
      <4>3. combined'.bytes = BytesCharged' /\ combined'.nodes = NodesCharged' /\ pc' = "pack"
        BY <1>1, <2>4, <2>6, <4>1, <4>2
      <4> QED BY <4>3 DEF Charged, AfterContext, Accepted, CoreSteps
    <3>5. pc' \in {"context", "pack"} /\ UNCHANGED request
      BY <1>1, <2>6
    <3> QED BY <1>3, <3>3, <3>4, <3>5 DEF AdmittedInv, RefusalsAreTruthful
  <2> QED BY <1>5, <2>5, <2>6 DEF AdmitPack, d
<1> QED BY <1>4, <1>5 DEF AdmitPack

(* The context. *)
LEMMA ContextStep == IInv /\ AdmittedInv /\ AdmitContext => AdmittedInv'
<1> SUFFICES ASSUME IInv, AdmittedInv, AdmitContext PROVE AdmittedInv'
  OBVIOUS
<1>1. /\ pc = "context" /\ ArgumentsTyped /\ request \in Requests /\ combined \in Counts
      /\ request.at.bytes =< AT_BYTES /\ ~request.at.lone_surrogate
      /\ (request.packs # {} => admitted = Len(Packs)) /\ admitted \in 0 .. Len(Packs)
      /\ Len(Packs) =< MAX_PACKS
      /\ \A i \in 1 .. admitted : FineDocument(Packs[i])
      /\ combined.bytes = BytesCharged /\ combined.nodes = NodesCharged
  BY DEF AdmitContext, AdmittedInv, TextsFine, DocumentsFine, Charged, AfterTypes, AfterAt, AfterPacks,
         IInv, TypeOK
<1>2. ASSUME UNCHANGED <<request, admitted>>, pc' = "notes",
             \A d \in request.context : FineDocument(d),
             combined'.bytes = combined.bytes + ContextSize.bytes,
             combined'.nodes = combined.nodes + ContextSize.nodes
      PROVE  AdmittedInv'
  <2>1. TextsFine'
    BY <1>1, <1>2, RequestKept DEF TextsFine, Accepted, CoreSteps
  <2>2. DocumentsFine'
    BY <1>1, <1>2, RequestKept DEF DocumentsFine
  <2>3. BytesCharged' = BytesCharged /\ NodesCharged' = NodesCharged /\ ContextSize' = ContextSize
    BY <1>2, RequestKept DEF BytesCharged, NodesCharged
  <2>4. Charged'
    BY <1>1, <1>2, <2>3 DEF Charged, Accepted, CoreSteps
  <2> QED BY <1>2, <2>1, <2>2, <2>4 DEF AdmittedInv, RefusalsAreTruthful
<1>3. CASE /\ request.context = {} /\ pc' = "notes"
           /\ UNCHANGED <<request, combined, admitted, loaded, calls>>
  <2>1. ContextSize.bytes = 0 /\ ContextSize.nodes = 0
    BY <1>3 DEF ContextSize, NoCounts
  <2>2. combined.bytes \in Nat /\ combined.nodes \in Nat
    BY <1>1 DEF Counts
  <2>3. combined.bytes + 0 = combined.bytes /\ combined.nodes + 0 = combined.nodes
    BY <2>2
  <2> QED BY <1>2, <1>3, <2>1, <2>3
<1>4. CASE request.context # {}
  <2>1. PICK d \in request.context :
           \/ \E e \in DocumentErrors(d) : Fail(e)
           \/ /\ DocumentOk(d)
              /\ combined' = WithDocument(d)
              /\ pc' = "notes"
              /\ UNCHANGED <<request, admitted, loaded, calls>>
    BY <1>4 DEF AdmitContext
  <2>2. d \in Document /\ d \in Documents /\ d.dict /\ ContextSize = d.size
    BY <1>1, RequestParts, GivenOnce DEF Documents, ArgumentsTyped
  <2>3. CASE \E e \in DocumentErrors(d) : Fail(e)
    <3>1. PICK e \in DocumentErrors(d) : Fail(e)
      BY <2>3
    <3>2. /\ combined.bytes + d.size.bytes =< TotalBytes
          /\ combined.nodes + d.size.nodes =< TotalNodes
          /\ TotalBytes \in Nat /\ TotalNodes \in Nat
      <4>1. /\ TotalBytes \in Nat /\ TotalNodes \in Nat
            /\ request.at.bytes \in Nat /\ NotesBytes \in Nat
            /\ ContextSize.bytes \in Nat /\ ContextSize.nodes \in Nat
            /\ Total(PackBytes) \in Nat /\ Total(PackNodes) \in Nat
        BY <1>1, TotalsAre
      <4>2. /\ Sums(PackBytes)[admitted] \in Nat /\ Sums(PackNodes)[admitted] \in Nat
            /\ Sums(PackBytes)[admitted] =< Total(PackBytes)
            /\ Sums(PackNodes)[admitted] =< Total(PackNodes)
        BY <1>1, PackTotals
      <4> DEFINE b == Sums(PackBytes)[admitted]
                 n == Sums(PackNodes)[admitted]
                 list == IF request.packs = {} THEN 0 ELSE 1
      <4>3. b \in Nat /\ n \in Nat /\ b =< Total(PackBytes) /\ n =< Total(PackNodes) /\ list \in Nat
        BY <4>2
      <4>4. combined.bytes = request.at.bytes + b /\ combined.nodes = list + n
        BY <1>1 DEF BytesCharged, NodesCharged
      <4>5. TotalNodes = list + Total(PackNodes) + ContextSize.nodes
        BY DEF TotalNodes
      <4> HIDE DEF b, n, list
      <4>6. combined.bytes + ContextSize.bytes =< TotalBytes
        BY <4>1, <4>3, <4>4 DEF TotalBytes
      <4>7. combined.nodes + ContextSize.nodes =< TotalNodes
        BY <4>1, <4>3, <4>4, <4>5
      <4> QED BY <2>2, <4>1, <4>6, <4>7
    <3>3. e \in Errors \ {"core"} /\ Truthful(e)
      BY <1>1, <2>2, <3>1, <3>2, DocumentRefused
    <3> QED BY <3>1, <3>3, RefusedStep
  <2>4. CASE /\ DocumentOk(d)
             /\ combined' = WithDocument(d)
             /\ pc' = "notes"
             /\ UNCHANGED <<request, admitted, loaded, calls>>
    <3>1. FineDocument(d)
      BY <1>1, <2>2, <2>4, DocumentMeans
    <3>2. \A c \in request.context : c = d
      BY <1>1, DeriveAssumption
    <3>3. /\ combined'.bytes = combined.bytes + ContextSize.bytes
          /\ combined'.nodes = combined.nodes + ContextSize.nodes
      BY <1>1, <2>2, <2>4 DEF WithDocument, Plus
    <3> QED BY <1>2, <2>4, <3>1, <3>2, <3>3
  <2> QED BY <2>1, <2>3, <2>4
<1> QED BY <1>3, <1>4 DEF AdmitContext

(* The notes, after which core is called. *)
LEMMA NotesStep == IInv /\ AdmittedInv /\ AdmitNotes => AdmittedInv'
<1> SUFFICES ASSUME IInv, AdmittedInv, AdmitNotes PROVE AdmittedInv'
  OBVIOUS
<1>1. /\ pc = "notes" /\ ArgumentsTyped /\ request \in Requests /\ combined \in Counts
      /\ request.at.bytes =< AT_BYTES /\ ~request.at.lone_surrogate
      /\ (request.packs # {} => admitted = Len(Packs)) /\ admitted \in 0 .. Len(Packs)
      /\ Len(Packs) =< MAX_PACKS
      /\ \A i \in 1 .. admitted : FineDocument(Packs[i])
      /\ \A d \in request.context : FineDocument(d)
      /\ combined.bytes = BytesCharged + ContextSize.bytes
      /\ combined.nodes = NodesCharged + ContextSize.nodes
      /\ CountsWithin(combined, REQUEST_BYTES)
  BY DEF AdmitNotes, AdmittedInv, TextsFine, DocumentsFine, Charged, AfterTypes, AfterAt, AfterPacks,
         AfterContext, IInv, TypeOK, CombinedWithin
<1>2. /\ request.notes \subseteq Text /\ NOTES_BYTES \in Nat /\ WordSize \in Nat
      /\ REQUEST_BYTES \in Nat /\ combined.bytes \in Nat /\ combined.bytes =< REQUEST_BYTES
  BY <1>1, RequestParts, DeriveAssumption, BudgetAssumption DEF Counts, CountsWithin
<1>3. ASSUME NEW n \in request.notes
      PROVE  /\ n \in Text /\ n.bytes \in Nat /\ NotesBytes = n.bytes
             /\ Fits(0, n.bytes, NOTES_BYTES) => n.bytes =< NOTES_BYTES
             /\ Fits(combined.bytes, n.bytes, REQUEST_BYTES) => combined.bytes + n.bytes =< REQUEST_BYTES
             /\ n.bytes =< NOTES_BYTES /\ combined.bytes + n.bytes =< REQUEST_BYTES
                   => /\ Fits(0, n.bytes, NOTES_BYTES)
                      /\ Fits(combined.bytes, n.bytes, REQUEST_BYTES)
  <2>1. n \in Text /\ n.bytes \in Nat /\ NotesBytes = n.bytes
    BY <1>1, <1>2, GivenOnce DEF Text
  <2>2. REQUEST_BYTES < WordSize
    BY BudgetAssumption
  <2>3. combined.bytes + n.bytes \in Nat /\ n.bytes =< combined.bytes + n.bytes /\ 0 + n.bytes = n.bytes
    BY <1>2, <2>1
  <2> QED BY <1>2, <2>1, <2>2, <2>3 DEF Fits
<1>4. CASE \E e \in UNION {NotesErrors(notes) : notes \in request.notes} : Fail(e)
  <2>1. PICK n \in request.notes : \E e \in NotesErrors(n) : Fail(e)
    BY <1>4
  <2>2. PICK e \in NotesErrors(n) : Fail(e)
    BY <2>1
  <2>3. /\ e \in {"value", "memory", "budget"}
        /\ e = "value" => n.lone_surrogate
        /\ e = "budget" => ~Fits(0, n.bytes, NOTES_BYTES) \/ ~Fits(combined.bytes, n.bytes, REQUEST_BYTES)
    BY <2>2 DEF NotesErrors, TextErrors
  <2>4. e = "budget" => ~WithinLimits
    <3>1. SUFFICES ASSUME e = "budget", WithinLimits PROVE FALSE
      OBVIOUS
    <3>2. n.bytes =< NOTES_BYTES /\ TotalBytes =< REQUEST_BYTES
      BY <3>1 DEF WithinLimits
    <3>3. ~(combined.bytes + n.bytes =< REQUEST_BYTES)
      BY <1>3, <2>3, <3>1, <3>2
    <3>4. TotalBytes = combined.bytes + n.bytes
      <4>1. /\ request.at.bytes \in Nat /\ NotesBytes \in Nat /\ ContextSize.bytes \in Nat
            /\ Total(PackBytes) \in Nat
        BY <1>1, TotalsAre
      <4>2. Sums(PackBytes)[admitted] = Total(PackBytes)
        <5>1. Len(Packs) \in Nat /\ Total(PackBytes) = Sums(PackBytes)[Len(Packs)]
          BY <1>1, PackTotals
        <5>2. request.packs = {} => Len(Packs) = 0
          BY DEF Packs
        <5> QED BY <1>1, <5>1, <5>2
      <4> QED BY <1>1, <1>3, <4>1, <4>2 DEF TotalBytes, BytesCharged
    <3> QED BY <3>2, <3>3, <3>4
  <2>5. Truthful(e)
    BY <1>1, <2>3, <2>4 DEF Truthful, Texts
  <2> QED BY <2>2, <2>3, <2>5, RefusedStep DEF Errors
<1>5. CASE /\ \A notes \in request.notes :
                  /\ TextOk(notes, NOTES_BYTES)
                  /\ Fits(combined.bytes, notes.bytes, REQUEST_BYTES)
           /\ pc' = FirstCall
           /\ UNCHANGED <<request, combined, admitted, loaded, calls>>
  <2>1. pc' \in {"derive", "load_packs"}
    BY <1>5 DEF FirstCall
  <2>2. TextsFine'
    <3>1. \A n \in request.notes : n.bytes =< NOTES_BYTES /\ ~n.lone_surrogate
      BY <1>3, <1>5 DEF TextOk
    <3> QED BY <1>1, <1>5, <2>1, <3>1, RequestKept DEF TextsFine
  <2>3. DocumentsFine'
    BY <1>1, <1>5, <2>1, RequestKept DEF DocumentsFine
  <2>4. Charged'
    <3>1. combined.bytes + NotesBytes =< REQUEST_BYTES
      <4>1. CASE request.notes = {}
        BY <1>2, <4>1 DEF NotesBytes
      <4>2. CASE request.notes # {}
        BY <1>3, <1>5, <4>2
      <4> QED BY <4>1, <4>2
    <3>2. /\ BytesCharged' = BytesCharged /\ NodesCharged' = NodesCharged
          /\ ContextSize' = ContextSize /\ NotesBytes' = NotesBytes
      BY <1>5, RequestKept DEF BytesCharged, NodesCharged
    <3> QED BY <1>1, <1>5, <2>1, <3>1, <3>2 DEF Charged
  <2> QED BY <2>1, <2>2, <2>3, <2>4 DEF AdmittedInv, RefusalsAreTruthful
<1> QED BY <1>4, <1>5 DEF AdmitNotes

(* The calls into core change nothing that was admitted. *)
LEMMA CoreStep ==
    IInv /\ AdmittedInv /\ (LoadPacks \/ LoadContext \/ Resolve \/ BuildBasis \/ Derive) => AdmittedInv'
<1> SUFFICES ASSUME IInv, AdmittedInv, LoadPacks \/ LoadContext \/ Resolve \/ BuildBasis \/ Derive
             PROVE  AdmittedInv'
  OBVIOUS
<1>1. pc \in CoreSteps /\ pc' \in Accepted /\ UNCHANGED <<request, combined, admitted>>
  BY DEF LoadPacks, LoadContext, Resolve, BuildBasis, Derive, CallCore, CoreSteps, Accepted
<1>2. pc \in Accepted /\ pc \notin Errors \ {"core"}
      /\ pc' \notin {"types", "at", "packs", "pack", "context", "notes"}
      /\ pc' \notin {"kind", "type", "value", "overflow", "budget"}
      /\ pc \notin {"types", "at", "packs", "pack", "context", "notes"}
  BY <1>1 DEF Accepted, CoreSteps, Errors
<1>3. \A s \in {AfterTypes, AfterAt, AfterPacks, AfterContext, Accepted} : pc \in s /\ pc' \in s
  BY <1>1, <1>2 DEF AfterTypes, AfterAt, AfterPacks, AfterContext, Accepted, CoreSteps
<1>4. TextsFine'
  BY <1>1, <1>3, RequestKept DEF AdmittedInv, TextsFine
<1>5. DocumentsFine'
  BY <1>1, <1>2, <1>3, RequestKept DEF AdmittedInv, DocumentsFine
<1>6. Charged'
  <2>1. /\ BytesCharged' = BytesCharged /\ NodesCharged' = NodesCharged
        /\ ContextSize' = ContextSize /\ NotesBytes' = NotesBytes
    BY <1>1, RequestKept DEF BytesCharged, NodesCharged
  <2> QED BY <1>1, <1>2, <1>3, <2>1 DEF AdmittedInv, Charged
<1> QED BY <1>2, <1>4, <1>5, <1>6 DEF AdmittedInv, RefusalsAreTruthful

(* Every step keeps what is said of the admission. *)
LEMMA AdmittedStep == IInv /\ AdmittedInv /\ [Next]_vars => AdmittedInv'
<1> SUFFICES ASSUME IInv, AdmittedInv, [Next]_vars PROVE AdmittedInv'
  OBVIOUS
<1>1. CASE UNCHANGED vars
  <2>1. UNCHANGED <<request, pc, combined, admitted>>
    BY <1>1 DEF vars
  <2>2. /\ BytesCharged' = BytesCharged /\ NodesCharged' = NodesCharged
        /\ ContextSize' = ContextSize /\ NotesBytes' = NotesBytes
    BY <2>1, RequestKept DEF BytesCharged, NodesCharged
  <2>3. TextsFine' /\ DocumentsFine'
    BY <2>1, RequestKept DEF AdmittedInv, TextsFine, DocumentsFine
  <2>4. Charged'
    BY <2>1, <2>2 DEF AdmittedInv, Charged
  <2>5. RefusalsAreTruthful'
    <3>1. Truthful(pc)
      BY DEF AdmittedInv, RefusalsAreTruthful, Truthful
    <3>2. pc' = pc /\ Truthful(pc)'
      <4>1. \A e : Truthful(e)' <=> Truthful(e)
        BY <2>1, RequestKept
      <4> QED BY <2>1, <3>1, <4>1 DEF Truthful
    <3> QED BY <3>2 DEF RefusalsAreTruthful, Truthful
  <2> QED BY <2>3, <2>4, <2>5 DEF AdmittedInv
<1> QED
  BY <1>1, TypesStep, AtStep, PacksStep, PackStep, ContextStep, NotesStep, CoreStep DEF Next

(* What is admitted is admissible, and what is refused is not. *)
LEMMA AdmittedIsExact == IInv /\ AdmittedInv => AdmitsExactlyAdmissible
<1> SUFFICES ASSUME IInv, AdmittedInv PROVE AdmitsExactlyAdmissible
  OBVIOUS
<1>1. ASSUME pc \in CoreSteps \cup {"core", "done"} PROVE Admissible
  <2>1. /\ ArgumentsTyped /\ request \in Requests /\ combined \in Counts
        /\ request.at.bytes =< AT_BYTES /\ ~request.at.lone_surrogate
        /\ \A n \in request.notes : n.bytes =< NOTES_BYTES /\ ~n.lone_surrogate
        /\ (request.packs # {} => admitted = Len(Packs)) /\ admitted \in 0 .. Len(Packs)
        /\ Len(Packs) =< MAX_PACKS
        /\ \A i \in 1 .. admitted : FineDocument(Packs[i])
        /\ \A d \in request.context : FineDocument(d)
        /\ combined.bytes = BytesCharged + ContextSize.bytes
        /\ combined.nodes = NodesCharged + ContextSize.nodes
        /\ combined.bytes + NotesBytes =< REQUEST_BYTES
        /\ CountsWithin(combined, REQUEST_BYTES)
    <3>1. pc \in Accepted
      BY <1>1 DEF Accepted
    <3>2. pc \in AfterTypes /\ pc \in AfterAt /\ pc \in AfterPacks /\ pc \in AfterContext
      BY <3>1 DEF AfterTypes, AfterAt, AfterPacks, AfterContext, Accepted, CoreSteps
    <3>3. request \in Requests /\ combined \in Counts /\ admitted \in 0 .. Len(Packs)
          /\ CountsWithin(combined, REQUEST_BYTES)
      BY DEF IInv, TypeOK, CombinedWithin
    <3>4. /\ ArgumentsTyped /\ request.at.bytes =< AT_BYTES /\ ~request.at.lone_surrogate
          /\ \A n \in request.notes : n.bytes =< NOTES_BYTES /\ ~n.lone_surrogate
      BY <3>1, <3>2 DEF AdmittedInv, TextsFine
    <3>5. /\ (request.packs # {} => admitted = Len(Packs)) /\ Len(Packs) =< MAX_PACKS
          /\ \A i \in 1 .. admitted : FineDocument(Packs[i])
          /\ \A d \in request.context : FineDocument(d)
      BY <3>1, <3>2 DEF AdmittedInv, DocumentsFine
    <3>6. /\ combined.bytes = BytesCharged + ContextSize.bytes
          /\ combined.nodes = NodesCharged + ContextSize.nodes
          /\ combined.bytes + NotesBytes =< REQUEST_BYTES
      BY <3>1, <3>2 DEF AdmittedInv, Charged
    <3> QED BY <3>3, <3>4, <3>5, <3>6
  <2>2. /\ Len(Packs) \in Nat /\ admitted = Len(Packs)
        /\ Total(PackBytes) = Sums(PackBytes)[admitted] /\ Total(PackNodes) = Sums(PackNodes)[admitted]
    <3>1. /\ Len(Packs) \in Nat /\ Total(PackBytes) = Sums(PackBytes)[Len(Packs)]
          /\ Total(PackNodes) = Sums(PackNodes)[Len(Packs)]
      BY <2>1, PackTotals
    <3>2. request.packs = {} => Len(Packs) = 0
      BY DEF Packs
    <3> QED BY <2>1, <3>1, <3>2
  <2>3. \A d \in Documents : FineDocument(d)
    <3>1. DOMAIN Packs = 1 .. Len(Packs)
      BY <2>1, RequestParts
    <3> QED BY <2>1, <2>2, <3>1 DEF Documents, ToSet
  <2>4. TotalBytes =< REQUEST_BYTES /\ TotalNodes =< NODES
    <3>1. /\ request.at.bytes \in Nat /\ NotesBytes \in Nat
          /\ ContextSize.bytes \in Nat /\ ContextSize.nodes \in Nat
          /\ Total(PackBytes) \in Nat /\ Total(PackNodes) \in Nat
      BY <2>1, TotalsAre
    <3>2. TotalBytes = combined.bytes + NotesBytes /\ TotalNodes = combined.nodes
      BY <2>1, <2>2, <3>1 DEF TotalBytes, TotalNodes, BytesCharged, NodesCharged
    <3>3. combined.nodes =< NODES
      BY <2>1 DEF CountsWithin
    <3> QED BY <2>1, <3>2, <3>3
  <2> QED BY <2>1, <2>3, <2>4 DEF Admissible, WithinLimits, FineDocument, Texts
<1>2. ASSUME pc \in {"type", "kind", "value", "overflow", "budget"} PROVE ~Admissible
  <2>1. \A d \in ToSet(Packs) : d \in Documents
    BY DEF Documents
  <2>2. Truthful(pc)
    BY DEF AdmittedInv, RefusalsAreTruthful, Truthful
  <2> QED BY <1>2, <2>1, <2>2 DEF Truthful, Admissible, ArgumentsTyped, HasDefect
<1> QED BY <1>1, <1>2 DEF AdmitsExactlyAdmissible

(* Nothing is admitted yet. *)
LEMMA NothingAdmitted == Init => AdmittedInv
<1> SUFFICES ASSUME Init PROVE AdmittedInv
  OBVIOUS
<1> QED BY DEF Init, AdmittedInv, TextsFine, DocumentsFine, Charged, RefusalsAreTruthful, AfterTypes,
               AfterAt, AfterPacks, AfterContext, Accepted, CoreSteps

(* The whole invariant of the admission. *)
THEOREM AdmittedInvariance == Spec => []AdmittedInv
  BY NothingAdmitted, AdmittedStep, Invariance, PTL DEF Spec

(* For every request and all limits, core sees exactly the requests whose   *)
(* arguments have their types and whose documents and texts fit, each alone *)
(* and all together, unless memory runs out.  (derive_admission.rs:25-72)   *)
THEOREM AdmissionCorrect == Spec => []AdmitsExactlyAdmissible
  BY AdmittedIsExact, AdmittedInvariance, Invariance, PTL

(* For every request, the class of a refusal has its cause in the request,  *)
(* and no error about contents hides the wrong type of another argument.    *)
(* (derive_admission.rs:26-37, conversion.rs:13-50)                         *)
THEOREM RefusalsCorrect == Spec => []RefusalsAreTruthful
<1>1. AdmittedInv => RefusalsAreTruthful
  BY DEF AdmittedInv
<1> QED BY <1>1, AdmittedInvariance, PTL
===============================================================================
