------------------------- MODULE ImmutableValueProofs -------------------------
(***************************************************************************)
(* Theorems about Conversion for every object graph and every limit, and   *)
(* about ImmutableValue, which extends it, for any number of results.      *)
(***************************************************************************)
EXTENDS ImmutableValue, TotalsProofs, SequenceTheorems, FiniteSetTheorems

(* A charge that is admitted keeps both domains within their limits and     *)
(* leaves byte_limit alone.  (conversion_budget.rs:39-67)                   *)
LEMMA ChargeWithin ==
    ASSUME NEW b \in Budgets, BudgetWithin(b),
           NEW size \in Nat, NEW nodes \in Nat, NEW depth,
           Admits(b, size, nodes, depth)
    PROVE  /\ Charge(b, size, nodes) \in Budgets
           /\ BudgetWithin(Charge(b, size, nodes))
           /\ Charge(b, size, nodes).byte_limit = b.byte_limit
           /\ Charge(b, size, nodes).counts = Plus(b.counts, size, nodes)
           /\ Charge(b, size, nodes).combined =
                 {Plus(total, size, nodes) : total \in b.combined}
<1> DEFINE B == Charge(b, size, nodes)
<1>1. /\ B.counts = Plus(b.counts, size, nodes)
      /\ B.byte_limit = b.byte_limit
      /\ B.combined = {Plus(total, size, nodes) : total \in b.combined}
      /\ B = [counts |-> B.counts, byte_limit |-> B.byte_limit, combined |-> B.combined]
  BY DEF Charge, Budgets
<1>2. \A c \in Counts : /\ Plus(c, size, nodes) \in Counts
                        /\ Plus(c, size, nodes).bytes = c.bytes + size
                        /\ Plus(c, size, nodes).nodes = c.nodes + nodes
  BY DEF Plus, Counts
<1>3. b.counts \in Counts /\ b.byte_limit \in Nat /\ b.combined \subseteq Counts
  BY DEF Budgets
<1>4. B.counts \in Counts /\ B.combined \subseteq Counts
  BY <1>1, <1>2, <1>3
<1>5. B \in Budgets
  BY <1>1, <1>3, <1>4 DEF Budgets
<1>6. CountsWithin(B.counts, B.byte_limit)
  BY <1>1, <1>2, <1>3 DEF Admits, Fits, CountsWithin
<1>7. \A total \in B.combined : CountsWithin(total, REQUEST_BYTES)
  BY <1>1, <1>2, <1>3 DEF Admits, Fits, CountsWithin
<1> QED
  BY <1>1, <1>5, <1>6, <1>7 DEF BudgetWithin

(* Charging twice is charging the sum. *)
LEMMA PlusPlus ==
    ASSUME NEW c \in Counts, NEW b1 \in Nat, NEW n1 \in Nat, NEW b2 \in Nat, NEW n2 \in Nat
    PROVE  Plus(Plus(c, b1, n1), b2, n2) = Plus(c, b1 + b2, n1 + n2)
  BY DEF Plus, Counts

-------------------------------------------------------------------------------
(* What a successful call of scalar_string or of the scalar branches of     *)
(* convert guarantees about its charge.  (conversion.rs:101-137)            *)
LEMMA LeafCharge ==
    ASSUME NEW obj \in Leaf, NEW depth,
           StringError(obj, depth) = "none" \/ LeafError(obj, depth) = "none"
    PROVE  ScalarBytes(obj) \in Nat /\ Admits(budget, ScalarBytes(obj), 1, depth)
<1>1. obj \in Text \cup Scalar
  BY ConversionAssumption
<1>2. ScalarBytes(obj) \in Nat
  BY <1>1 DEF ScalarBytes, Text, Scalar
<1>3. CASE StringError(obj, depth) = "none"
  BY <1>2, <1>3 DEF StringError, ScalarBytes, ChargeError
<1>4. CASE LeafError(obj, depth) = "none"
  <2>1. CASE obj.kind = "str"
    BY <1>3, <1>4, <2>1 DEF LeafError
  <2>2. CASE obj.kind # "str"
    BY <1>2, <1>4, <2>2 DEF LeafError, ChargeError
  <2> QED BY <2>1, <2>2
<1> QED BY <1>3, <1>4

(* The errors the scalar branches return are among the errors of convert. *)
LEMMA LeafErrors ==
    ASSUME NEW obj, NEW depth
    PROVE  /\ StringError(obj, depth) \in Errors \cup {"none"}
           /\ LeafError(obj, depth) \in Errors \cup {"none"}
<1>1. StringError(obj, depth) \in Errors \cup {"none"}
  BY DEF StringError, Utf8Error, ChargeError, Errors
<1>2. ScalarDefect(obj) \in Errors \cup {"none"}
  BY DEF ScalarDefect, Errors
<1> QED
  BY <1>1, <1>2 DEF LeafError, ChargeError, Errors

-------------------------------------------------------------------------------
(* The inductive invariant.  Beyond the properties themselves it says that  *)
(* a call that has not begun has no open container and an untouched budget, *)
(* and that a running one has an open container.                            *)
BudgetKept ==
    /\ BudgetWithin(budget)
    /\ budget.byte_limit = budget0.byte_limit
    /\ budget0.byte_limit < WordSize
    /\ DomainsAgree

Started ==
    /\ status = "called" => frames = <<>> /\ budget = budget0
    /\ status = "running" => frames # <<>>

IInv ==
    /\ TypeOK
    /\ AncestorsAreOpenPath
    /\ AncestorsWithinReservation
    /\ BudgetKept
    /\ Started

(* No container is open before document is called. *)
LEMMA InitIInv == Init => IInv
<1> SUFFICES ASSUME Init PROVE IInv
  OBVIOUS
<1> USE DEF Init
<1>1. budget0 \in Budgets /\ BudgetWithin(budget0) /\ budget0.counts = NoCounts
  BY ConversionAssumption
<1>2. TypeOK
  <2>1. heap \in [Addr -> Cell] /\ root \in Object
    BY ConversionAssumption
  <2> QED BY <1>1, <2>1 DEF TypeOK
<1>3. AncestorsAreOpenPath
  BY DEF AncestorsAreOpenPath, IsInjective, Depth
<1>4. AncestorsWithinReservation
  BY BudgetAssumption DEF AncestorsWithinReservation
<1>5. BudgetKept
  <2>1. \A total \in budget0.combined : Plus(total, 0, 0) = total
    BY <1>1 DEF Plus, Budgets, Counts
  <2>2. DomainsAgree
    BY <1>1, <2>1 DEF DomainsAgree, NoCounts
  <2>3. budget0.byte_limit < WordSize
    BY ConversionAssumption, BudgetAssumption
  <2> QED BY <1>1, <2>2, <2>3 DEF BudgetKept
<1>6. Started
  BY DEF Started
<1> QED BY <1>2, <1>3, <1>4, <1>5, <1>6 DEF IInv

(* A step that charges what Admits accepted keeps the budget part. *)
LEMMA ChargeKept ==
    ASSUME TypeOK, BudgetKept,
           NEW size \in Nat, NEW nodes \in Nat, NEW depth,
           Admits(budget, size, nodes, depth),
           budget' = Charge(budget, size, nodes),
           budget0' = budget0
    PROVE  budget' \in Budgets /\ BudgetKept'
<1>1. /\ budget \in Budgets /\ budget0 \in Budgets /\ BudgetWithin(budget)
      /\ budget.counts \in Counts /\ budget0.combined \subseteq Counts
  BY DEF TypeOK, BudgetKept, Budgets
<1>2. /\ budget' \in Budgets
      /\ BudgetWithin(budget')
      /\ budget'.byte_limit = budget.byte_limit
      /\ budget'.counts = Plus(budget.counts, size, nodes)
      /\ budget'.combined = {Plus(total, size, nodes) : total \in budget.combined}
  BY <1>1, ChargeWithin
<1>3. DomainsAgree'
  <2> DEFINE cb == budget.counts.bytes
             cn == budget.counts.nodes
  <2>1. cb \in Nat /\ cn \in Nat
    BY <1>1 DEF Counts
  <2>2. budget'.counts.bytes = cb + size /\ budget'.counts.nodes = cn + nodes
    BY <1>2 DEF Plus
  <2>3. \A t \in budget0.combined :
           Plus(Plus(t, cb, cn), size, nodes) = Plus(t, cb + size, cn + nodes)
    <3> TAKE t \in budget0.combined
    <3>1. t \in Counts
      BY <1>1
    <3> HIDE DEF cb, cn
    <3> QED BY <2>1, <3>1, PlusPlus
  <2>4. budget.combined = {Plus(t, cb, cn) : t \in budget0.combined}
    BY DEF BudgetKept, DomainsAgree
  <2> HIDE DEF cb, cn
  <2>5. budget'.combined = {Plus(t, cb + size, cn + nodes) : t \in budget0.combined}
    BY <1>2, <2>3, <2>4
  <2> QED BY <2>2, <2>5 DEF DomainsAgree
<1> QED BY <1>1, <1>2, <1>3 DEF BudgetKept

-------------------------------------------------------------------------------
(* Opening a container extends the path by an item of its last container.  *)
LEMMA OpenKeepsIInv ==
    ASSUME IInv, NEW a \in Addr, NEW callers,
           \/ frames = <<>> /\ callers = <<>>
           \/ status = "running" /\ HasItem /\ Item = a /\ callers = Advanced,
           ContainerError(a) = "none",
           Open(a, callers)
    PROVE  IInv'
<1> USE DEF IInv
<1> DEFINE frame == [at |-> a, next |-> 1]
<1>1. /\ TypeOK /\ heap \in [Addr -> Cell] /\ frames \in Seq(Frame) /\ ancestors \in Seq(Addr)
      /\ out \in Seq(Token) /\ status \in {"called", "running", "done"} \cup Errors
  BY DEF TypeOK
<1>2. a \notin Range(ancestors) /\ Admits(budget, 0, 1, Depth + 1)
  BY DEF ContainerError
<1>3. /\ heap' = heap /\ root' = root /\ budget0' = budget0 /\ status' = "running"
      /\ budget' = Charge(budget, 0, 1)
      /\ ancestors' = Append(ancestors, a)
      /\ frames' = Append(callers, frame)
      /\ out' = Append(out, [kind |-> heap[a].kind])
  BY DEF Open
<1>4. /\ callers \in Seq(Frame)
      /\ Len(callers) = Depth
      /\ \A i \in 1 .. Depth : callers[i].at = frames[i].at
      /\ \A i \in 1 .. Depth - 1 : callers[i] = frames[i]
      /\ Depth > 0 => /\ callers[Depth].next = frames[Depth].next + 1
                      /\ HasItem /\ Item = a
  <2>1. CASE frames = <<>> /\ callers = <<>>
    BY <2>1 DEF Depth
  <2>2. CASE status = "running" /\ HasItem /\ Item = a /\ callers = Advanced
    <3>1. Depth \in Nat \ {0} /\ frames[Depth] \in Frame
      BY <1>1, <2>2 DEF Started, Depth
    <3>2. [frames[Depth] EXCEPT !.next = @ + 1] \in Frame
      BY <3>1 DEF Frame
    <3>3. /\ [frames[Depth] EXCEPT !.next = @ + 1].at = frames[Depth].at
          /\ [frames[Depth] EXCEPT !.next = @ + 1].next = frames[Depth].next + 1
      BY <3>1 DEF Frame
    <3>4. callers = [frames EXCEPT ![Depth] = [frames[Depth] EXCEPT !.next = @ + 1]]
      BY <2>2 DEF Advanced
    <3> QED BY <1>1, <2>2, <3>1, <3>2, <3>3, <3>4 DEF Depth
  <2> QED BY <2>1, <2>2
<1>5. frame \in Frame /\ frame.at = a /\ frame.next = 1
  BY DEF Frame
<1>6. /\ frames' \in Seq(Frame)
      /\ Depth \in Nat
      /\ Depth' = Depth + 1
      /\ frames'[Depth + 1] = frame
      /\ \A i \in 1 .. Depth : frames'[i] = callers[i]
  BY <1>1, <1>3, <1>4, <1>5 DEF Depth
<1>7. budget' \in Budgets /\ BudgetKept'
  BY <1>2, <1>3, ChargeKept
<1>8. TypeOK'
  <2>1. [kind |-> heap[a].kind] \in Token
    BY <1>1 DEF Token, Cell
  <2>2. ancestors' \in Seq(Addr) /\ out' \in Seq(Token)
    BY <1>1, <1>3, <2>1
  <2> QED BY <1>3, <1>6, <1>7, <2>2 DEF TypeOK
<1>9. AncestorsAreOpenPath'
  <2>1. /\ Len(ancestors) = Depth
        /\ \A i \in 1 .. Depth : ancestors[i] = frames[i].at
    BY <1>1, <1>6 DEF AncestorsAreOpenPath
  <2>2. /\ Len(ancestors') = Depth + 1
        /\ ancestors'[Depth + 1] = a
        /\ \A i \in 1 .. Depth : ancestors'[i] = ancestors[i]
        /\ ancestors' \in Seq(Addr)
    BY <1>1, <1>3, <2>1
  <2>3. \A i \in 1 .. Depth + 1 : ancestors'[i] = frames'[i].at
    BY <1>4, <1>5, <1>6, <2>1, <2>2
  <2>4. ancestors' = [i \in 1 .. Depth' |-> frames'[i].at]
    BY <1>6, <2>2, <2>3
  <2>5. IsInjective(ancestors')
    <3>1. \A i \in 1 .. Depth : ancestors[i] # a
      BY <1>1, <1>2, <2>1 DEF Range
    <3>2. \A i, j \in 1 .. Depth : ancestors[i] = ancestors[j] => i = j
      BY <1>1, <2>1 DEF AncestorsAreOpenPath, IsInjective
    <3> QED BY <1>6, <2>2, <3>1, <3>2 DEF IsInjective
  <2>6. ASSUME NEW i \in 1 .. Depth' - 1
        PROVE  /\ frames'[i].next > 1
               /\ frames'[i].next - 1 \in DOMAIN heap[frames'[i].at].items
               /\ heap[frames'[i].at].items[frames'[i].next - 1] = ancestors'[i + 1]
    <3>1. CASE i = Depth
      <4>1. /\ Depth > 0 /\ frames[Depth] \in Frame
            /\ frames'[i].at = frames[Depth].at
            /\ frames'[i].next = frames[Depth].next + 1
        BY <1>1, <1>4, <1>6, <3>1 DEF Depth
      <4>2. /\ HasItem /\ Item = a
            /\ heap[frames[Depth].at].items \in Seq(Object)
        BY <1>1, <1>4, <4>1 DEF Frame, Cell
      <4> QED BY <2>2, <3>1, <4>1, <4>2 DEF HasItem, Item, Top, Frame
    <3>2. CASE i # Depth
      <4>1. i \in 1 .. Depth - 1 /\ i + 1 \in 1 .. Depth
        BY <1>6, <3>2
      <4>2. frames'[i] = frames[i] /\ ancestors'[i + 1] = ancestors[i + 1]
        BY <1>4, <1>6, <2>2, <4>1
      <4> QED BY <4>1, <4>2 DEF AncestorsAreOpenPath
    <3> QED BY <3>1, <3>2
  <2> QED BY <1>3, <2>4, <2>5, <2>6 DEF AncestorsAreOpenPath
<1>10. AncestorsWithinReservation'
  BY <1>1, <1>2, <1>3, <1>6 DEF Admits, AncestorsWithinReservation, AncestorsAreOpenPath
<1>11. Started'
  BY <1>3, <1>6 DEF Started, Depth
<1> QED BY <1>7, <1>8, <1>9, <1>10, <1>11

(* Reading a leaf moves only the last frame's position and the budget. *)
LEMMA LeafKeepsIInv ==
    ASSUME IInv, status = "running", HasItem, Item \in Leaf,
           IF AtKey THEN StringError(Item, Depth) = "none" ELSE LeafError(Item, Depth) = "none",
           budget' = Charge(budget, ScalarBytes(Item), 1),
           \/ frames' = Advanced /\ out' = Append(out, Item) /\ status' = status
           \/ frames' = frames /\ out' = out /\ status' = "memory",
           UNCHANGED <<heap, root, budget0, ancestors>>
    PROVE  IInv'
<1> USE DEF IInv
<1>1. budget' \in Budgets /\ BudgetKept'
  BY LeafCharge, ChargeKept
<1>2. /\ frames \in Seq(Frame) /\ Depth \in Nat \ {0} /\ frames[Depth] \in Frame
  BY DEF TypeOK, Started, Depth
<1>3. /\ [frames[Depth] EXCEPT !.next = @ + 1] \in Frame
      /\ [frames[Depth] EXCEPT !.next = @ + 1].at = frames[Depth].at
  BY <1>2 DEF Frame
<1>4. Advanced = [frames EXCEPT ![Depth] = [frames[Depth] EXCEPT !.next = @ + 1]]
  BY DEF Advanced
<1>5. /\ frames' \in Seq(Frame)
      /\ Depth' = Depth
      /\ \A i \in 1 .. Depth : frames'[i].at = frames[i].at
      /\ \A i \in 1 .. Depth - 1 : frames'[i] = frames[i]
  <2>1. CASE frames' = Advanced
    BY <1>2, <1>3, <1>4, <2>1 DEF Depth
  <2>2. CASE frames' = frames
    BY <1>2, <2>2 DEF Depth
  <2> QED BY <2>1, <2>2
<1>6. TypeOK'
  <2>1. Item \in Token /\ out \in Seq(Token) /\ status' \in {"running", "memory"}
    BY DEF TypeOK, Token
  <2>2. out' \in Seq(Token)
    BY <2>1
  <2> QED BY <1>1, <1>5, <2>1, <2>2 DEF TypeOK, Errors
<1>7. AncestorsAreOpenPath'
  BY <1>2, <1>5 DEF AncestorsAreOpenPath
<1>8. AncestorsWithinReservation'
  BY DEF AncestorsWithinReservation
<1>9. Started'
  BY <1>2, <1>5 DEF Started, Depth
<1> QED BY <1>1, <1>6, <1>7, <1>8, <1>9

(* Leaving a container takes the last element of the path. *)
LEMMA LeaveKeepsIInv == IInv /\ LeaveContainer => IInv'
<1> SUFFICES ASSUME IInv, LeaveContainer PROVE IInv'
  OBVIOUS
<1> USE DEF IInv, LeaveContainer
<1>1. /\ frames \in Seq(Frame) /\ ancestors \in Seq(Addr) /\ out \in Seq(Token)
      /\ Depth \in Nat \ {0} /\ Len(ancestors) = Depth /\ Len(frames) = Depth
  BY DEF TypeOK, Started, Depth, AncestorsAreOpenPath
<1>2. /\ frames' \in Seq(Frame) /\ Depth' = Depth - 1
      /\ \A i \in 1 .. Depth - 1 : frames'[i] = frames[i]
  BY <1>1 DEF Front, Depth
<1>3. /\ ancestors' \in Seq(Addr) /\ Len(ancestors') = Depth - 1
      /\ \A i \in 1 .. Depth - 1 : ancestors'[i] = ancestors[i]
  BY <1>1 DEF Front
<1>4. TypeOK'
  <2>1. out' \in Seq(Token)
    BY <1>1 DEF Token
  <2>2. status' \in {"called", "running", "done"} \cup Errors
    BY DEF Errors
  <2> QED BY <1>2, <1>3, <2>1, <2>2 DEF TypeOK
<1>5. AncestorsAreOpenPath'
  <2>1. ancestors' = [i \in 1 .. Depth' |-> frames'[i].at]
    BY <1>1, <1>2, <1>3 DEF AncestorsAreOpenPath
  <2>2. IsInjective(ancestors')
    <3>1. \A i, j \in 1 .. Depth : ancestors[i] = ancestors[j] => i = j
      BY <1>1 DEF AncestorsAreOpenPath, IsInjective
    <3>2. ASSUME NEW i \in 1 .. Depth - 1, NEW j \in 1 .. Depth - 1,
                 ancestors'[i] = ancestors'[j]
          PROVE  i = j
      <4>1. ancestors'[i] = ancestors[i] /\ ancestors'[j] = ancestors[j]
        BY ONLY <1>3, i \in 1 .. Depth - 1, j \in 1 .. Depth - 1
      <4>2. i \in 1 .. Depth /\ j \in 1 .. Depth
        BY ONLY <1>1, i \in 1 .. Depth - 1, j \in 1 .. Depth - 1
      <4> QED BY <3>1, <3>2, <4>1, <4>2
    <3> QED BY <1>1, <1>3, <3>2 DEF IsInjective
  <2>3. ASSUME NEW i \in 1 .. Depth' - 1
        PROVE  /\ frames'[i].next > 1
               /\ frames'[i].next - 1 \in DOMAIN heap'[frames'[i].at].items
               /\ heap'[frames'[i].at].items[frames'[i].next - 1] = ancestors'[i + 1]
    <3>1. i \in 1 .. Depth - 1 /\ i + 1 \in 1 .. Depth - 1
      BY <1>1, <1>2
    <3>2. frames'[i] = frames[i] /\ ancestors'[i + 1] = ancestors[i + 1] /\ heap' = heap
      BY <1>2, <1>3, <3>1
    <3> QED BY <3>1, <3>2 DEF AncestorsAreOpenPath
  <2> QED BY <2>1, <2>2, <2>3 DEF AncestorsAreOpenPath
<1>6. AncestorsWithinReservation'
  BY <1>1, <1>3, BudgetAssumption DEF AncestorsWithinReservation
<1>7. BudgetKept'
  BY DEF BudgetKept, DomainsAgree
<1>8. Started'
  BY <1>1, <1>2 DEF Started, Depth
<1> QED BY <1>4, <1>5, <1>6, <1>7, <1>8

(* A refusal changes nothing but the status. *)
LEMMA FailKeepsIInv ==
    ASSUME IInv, NEW error \in Errors, Fail(error)
    PROVE  IInv'
  BY DEF IInv, Fail, TypeOK, AncestorsAreOpenPath, AncestorsWithinReservation, BudgetKept,
         DomainsAgree, Started, Errors, Depth

(* What convert may refuse a container with. *)
LEMMA ContainerErrors ==
    ASSUME NEW a
    PROVE  ContainerError(a) \in Errors \cup {"none"}
  BY DEF ContainerError, Errors

(* Every step of the conversion keeps the invariant. *)
LEMMA NextIInv == IInv /\ [Next]_vars => IInv'
<1> SUFFICES ASSUME IInv, [Next]_vars PROVE IInv'
  OBVIOUS
<1>1. CASE Document
  <2>1. CASE Fail("memory") \/ Fail("type")
    BY <2>1, FailKeepsIInv DEF Errors
  <2>2. CASE ContainerError(root) # "none" /\ Fail(ContainerError(root))
    BY <2>2, FailKeepsIInv, ContainerErrors
  <2>3. CASE root \in Addr /\ ContainerError(root) = "none" /\ Open(root, frames)
    <3>1. frames = <<>>
      BY <1>1 DEF Document, IInv, Started
    <3> QED BY <2>3, <3>1, OpenKeepsIInv
  <2> QED BY <1>1, <2>1, <2>2, <2>3 DEF Document
<1>2. CASE ConvertLeaf
  <2> DEFINE error == IF AtKey THEN StringError(Item, Depth) ELSE LeafError(Item, Depth)
  <2>1. CASE error = "none"
    BY <1>2, <2>1, LeafKeepsIInv DEF ConvertLeaf
  <2>2. CASE error # "none"
    BY <1>2, <2>2, LeafErrors, FailKeepsIInv DEF ConvertLeaf
  <2> QED BY <2>1, <2>2
<1>3. CASE LeafAllocationFails
  BY <1>3, LeafKeepsIInv DEF LeafAllocationFails
<1>4. CASE EnterContainer
  <2>1. CASE ContainerError(Item) = "none"
    BY <1>4, <2>1, OpenKeepsIInv DEF EnterContainer
  <2>2. CASE ContainerError(Item) # "none"
    BY <1>4, <2>2, ContainerErrors, FailKeepsIInv DEF EnterContainer
  <2> QED BY <2>1, <2>2
<1>5. CASE LeaveContainer
  BY <1>5, LeaveKeepsIInv
<1>6. CASE UNCHANGED vars
  BY <1>6 DEF vars, IInv, TypeOK, AncestorsAreOpenPath, AncestorsWithinReservation,
              BudgetKept, DomainsAgree, Started, Depth
<1> QED BY <1>1, <1>2, <1>3, <1>4, <1>5, <1>6 DEF Next

(* The invariant holds in every state a conversion reaches. *)
THEOREM Invariance == Spec => []IInv
<1>1. Init => IInv
  BY InitIInv
<1>2. IInv /\ [Next]_vars => IInv'
  BY NextIInv
<1> QED BY <1>1, <1>2, PTL DEF Spec

(* The variables keep their types, for every graph and every limit. *)
THEOREM TypeCorrect == Spec => []TypeOK
  BY Invariance, PTL DEF IInv

(* The ancestors are always the path of open containers, each once, so a   *)
(* cycle is refused the first time it closes and sharing never is.          *)
(* (conversion.rs:142-185)                                                  *)
THEOREM PathCorrect == Spec => []AncestorsAreOpenPath
  BY Invariance, PTL DEF IInv

(* The push of an ancestor always finds one of the DEPTH slots document     *)
(* reserved, for every DEPTH and graph.  (conversion.rs:87,160)             *)
THEOREM ReservationSuffices == Spec => []AncestorsWithinReservation
  BY Invariance, PTL DEF IInv

(* Subtracting below the limit does not wrap around. *)
LEMMA NoWrap ==
    ASSUME NEW word \in Nat, NEW rest \in Nat, rest < word
    PROVE  (word + rest) % word = rest
  BY SMTT(30)

(* The invariant bounds the counts, and what is left of the bytes with them. *)
LEMMA InvBudget == IInv => BudgetInv
<1> SUFFICES ASSUME IInv PROVE BudgetInv
  OBVIOUS
<1>1. /\ budget.byte_limit \in Nat /\ budget.counts.bytes \in Nat
      /\ budget.counts.bytes =< budget.byte_limit
      /\ budget.byte_limit < WordSize
  BY DEF IInv, TypeOK, Budgets, Counts, BudgetKept, BudgetWithin, CountsWithin
<1> DEFINE rest == budget.byte_limit - budget.counts.bytes
<1>2. /\ WordSize \in Nat /\ rest \in Nat /\ rest < WordSize
      /\ WordSize + budget.byte_limit - budget.counts.bytes = WordSize + rest
  BY <1>1, BudgetAssumption
<1> HIDE DEF rest
<1>3. (WordSize + rest) % WordSize = rest
  BY <1>2, NoWrap
<1>4. Remaining(budget) = budget.byte_limit - budget.counts.bytes
  BY <1>2, <1>3 DEF Remaining, rest
<1> QED BY <1>4 DEF IInv, BudgetKept, BudgetInv

(* No charge leaves a count over its limit, so the unsigned subtraction in  *)
(* scalar_string never wraps around, for every limit of the machine word.   *)
(* (conversion_budget.rs:39-67, conversion.rs:104)                          *)
THEOREM BudgetCorrect == Spec => []BudgetInv
  BY InvBudget, Invariance, PTL

(* The request total is always its value before the document plus the       *)
(* document's own counts.  (conversion_budget.rs:45-65)                     *)
THEOREM DomainsCorrect == Spec => []DomainsAgree
  BY Invariance, PTL DEF IInv, BudgetKept

-------------------------------------------------------------------------------
(* What an accepted document is.  The invariant of it says that what is    *)
(* written, followed by what the open containers still hold, is always the  *)
(* unfolding of the root, and that nothing converted so far has a defect.   *)

(* The unfoldings of the items of a container, each given by u. *)
Each(x, u) == [i \in DOMAIN heap[x].items |-> u[heap[x].items[i]]]

Opening(x) == [kind |-> heap[x].kind]
Ending == [kind |-> "end"]

(* What follows each item of a container, to a depth of n below it. *)
After(x, n) == CHOOSE r : Follows(Each(x, Unfolding[n]), Token, r)

(* An item of a container is an object, and there are as many unfoldings.   *)
LEMMA EachIs ==
    ASSUME TypeOK, NEW x \in Addr, NEW u \in [Object -> Seq(Token)]
    PROVE  /\ heap[x].items \in Seq(Object)
           /\ Each(x, u) \in Seq(Seq(Token))
           /\ Len(Each(x, u)) = Len(heap[x].items)
           /\ \A i \in DOMAIN heap[x].items : Each(x, u)[i] = u[heap[x].items[i]]
<1>1. heap[x] \in Cell
  BY DEF TypeOK
<1>2. heap[x].items \in Seq(Object)
  BY <1>1 DEF Cell
<1> DEFINE s == heap[x].items
<1>3. Each(x, u) = [i \in 1 .. Len(s) |-> u[s[i]]] /\ Len(s) \in Nat
  BY <1>2 DEF Each
<1>4. \A i \in 1 .. Len(s) : u[s[i]] \in Seq(Token)
  BY <1>2
<1> QED BY <1>2, <1>3, <1>4

(* An opening or ending is a token and no leaf; a leaf is a token. *)
LEMMA Tokens ==
    ASSUME TypeOK
    PROVE  /\ Leaf \subseteq Token /\ Ending \in Token
           /\ \A x \in Addr : Opening(x) \in Token
  BY DEF TypeOK, Token, Ending, Opening, Cell

(* Unfolding is what its definition says. *)
LEMMA UnfoldingIs ==
    ASSUME TypeOK
    PROVE  /\ Unfolding \in [0 .. DEPTH -> [Object -> Seq(Token)]]
           /\ \A n \in 0 .. DEPTH : \A x \in Leaf : Unfolding[n][x] = <<x>>
           /\ \A n \in 1 .. DEPTH : \A x \in Addr :
                 Unfolding[n][x] = <<Opening(x)>> \o FlattenSeq(Each(x, Unfolding[n - 1]))
                                   \o <<Ending>>
<1> DEFINE S == [Object -> Seq(Token)]
           Whole(x, u) == <<Opening(x)>> \o FlattenSeq(Each(x, u)) \o <<Ending>>
           first == [x \in Object |-> IF x \in Leaf THEN <<x>> ELSE <<>>]
           next1(u) == [x \in Object |-> IF x \in Leaf THEN <<x>> ELSE Whole(x, u)]
           g == [p \in (1 .. DEPTH) \X S |-> next1(p[2])]
           Is(f) == f = [n \in 0 .. DEPTH |->
                            [x \in Object |->
                                IF x \in Leaf THEN <<x>>
                                ELSE IF n = 0 THEN <<>> ELSE Whole(x, f[n - 1])]]
<1>1. DEPTH \in Nat /\ Addr \cap Leaf = {} /\ Object = Addr \cup Leaf
  BY BudgetAssumption, ConversionAssumption DEF Object
<1>2. ASSUME NEW u \in S, NEW x \in Addr PROVE Whole(x, u) \in Seq(Token)
  <2>1. Each(x, u) \in Seq(Seq(Token))
    BY EachIs
  <2>2. FlattenSeq(Each(x, u)) \in Seq(Token)
    BY <2>1, FlattenedIs
  <2>3. <<Opening(x)>> \in Seq(Token) /\ <<Ending>> \in Seq(Token)
    BY Tokens
  <2> DEFINE c == FlattenSeq(Each(x, u))
             a == <<Opening(x)>>
             e == <<Ending>>
  <2>4. a \in Seq(Token) /\ c \in Seq(Token) /\ e \in Seq(Token)
    BY <2>2, <2>3
  <2> HIDE DEF a, c, e
  <2>5. a \o c \o e \in Seq(Token)
    BY <2>4
  <2> QED BY <2>5 DEF a, c, e
<1>3. \A x \in Leaf : <<x>> \in Seq(Token)
  BY Tokens
<1> HIDE DEF Whole
<1>4. first \in S /\ \A u \in S : next1(u) \in S
  <2>1. <<>> \in Seq(Token)
    OBVIOUS
  <2>2. first \in S
    BY <1>1, <1>3, <2>1
  <2>3. ASSUME NEW u \in S PROVE next1(u) \in S
    BY <1>1, <1>2, <1>3
  <2> QED BY <2>2, <2>3
<1>5. PICK h : Recursive(h, DEPTH, S, first, g)
  <2> HIDE DEF next1, first
  <2>1. g \in [(1 .. DEPTH) \X S -> S]
    <3> HIDE DEF S
    <3>1. \A p \in (1 .. DEPTH) \X S : p[2] \in S
      OBVIOUS
    <3> QED BY <1>4, <3>1
  <2>2. g \in Nexts(DEPTH, S)
    BY <2>1 DEF Nexts
  <2> HIDE DEF g, S
  <2> QED BY <1>1, <1>4, <2>2, Recursion
<1>6. /\ h \in [0 .. DEPTH -> S] /\ h[0] = first
      /\ \A n \in 1 .. DEPTH : h[n] = next1(h[n - 1])
  <2> HIDE DEF next1, first
  <2>1. /\ h \in [0 .. DEPTH -> S] /\ h[0] = first
        /\ \A n \in 1 .. DEPTH : h[n] = g[<<n, h[n - 1]>>]
    <3> HIDE DEF g, S
    <3> QED BY <1>5 DEF Recursive
  <2>2. ASSUME NEW n \in 1 .. DEPTH PROVE g[<<n, h[n - 1]>>] = next1(h[n - 1])
    <3>1. n - 1 \in 0 .. DEPTH
      BY <1>1
    <3> HIDE DEF S
    <3>2. <<n, h[n - 1]>> \in (1 .. DEPTH) \X S
      BY <2>1, <3>1
    <3> QED BY <3>2
  <2> QED BY <2>1, <2>2
<1>7. Is(h)
  <2>1. ASSUME NEW n \in 0 .. DEPTH
        PROVE  h[n] = [x \in Object |->
                          IF x \in Leaf THEN <<x>>
                          ELSE IF n = 0 THEN <<>> ELSE Whole(x, h[n - 1])]
    <3>1. CASE n = 0
      BY <1>6, <3>1
    <3>2. CASE n # 0
      <4>1. n \in 1 .. DEPTH
        BY <1>1, <3>2
      <4> QED BY <1>6, <3>2, <4>1
    <3> QED BY <3>1, <3>2
  <2>2. h = [n \in 0 .. DEPTH |-> h[n]]
    BY <1>6
  <2> HIDE DEF first, next1, g, S
  <2> QED BY <2>1, <2>2
<1>8. Unfolding = CHOOSE f : Is(f)
  BY DEF Unfolding, Whole, Opening, Ending, Each
<1>9. Is(Unfolding)
  <2> HIDE DEF Is
  <2> QED BY <1>7, <1>8
<1> DEFINE U == Unfolding
<1>10. U = [n \in 0 .. DEPTH |->
              [x \in Object |->
                  IF x \in Leaf THEN <<x>>
                  ELSE IF n = 0 THEN <<>> ELSE Whole(x, U[n - 1])]]
  BY <1>9
<1> HIDE DEF U
<1>11. \A n \in 0 .. DEPTH :
          U[n] = [x \in Object |->
                     IF x \in Leaf THEN <<x>>
                     ELSE IF n = 0 THEN <<>> ELSE Whole(x, U[n - 1])]
  BY <1>10
<1>12. U[0] = first /\ \A n \in 1 .. DEPTH : U[n] = next1(U[n - 1])
  <2>1. 0 \in 0 .. DEPTH
    BY <1>1
  <2>2. U[0] = first
    BY <1>11, <2>1
  <2>3. ASSUME NEW n \in 1 .. DEPTH PROVE U[n] = next1(U[n - 1])
    <3>1. n \in 0 .. DEPTH /\ n # 0
      BY <1>1
    <3> QED BY <1>11, <3>1
  <2> QED BY <2>2, <2>3
<1> DEFINE T == {n \in 0 .. DEPTH : U[n] \in S}
<1>13. \A n \in 0 .. DEPTH : n \in T
  <2> HIDE DEF first, next1, S
  <2>1. 0 \in T
    BY <1>1, <1>4, <1>12
  <2>2. ASSUME NEW n \in 0 .. DEPTH - 1, n \in T PROVE n + 1 \in T
    <3>1. n + 1 \in 1 .. DEPTH /\ n + 1 \in 0 .. DEPTH /\ (n + 1) - 1 = n
      BY <1>1
    <3>2. U[n + 1] = next1(U[n]) /\ U[n] \in S
      BY <1>12, <2>2, <3>1
    <3> QED BY <1>4, <3>1, <3>2
  <2> HIDE DEF T
  <2> QED BY <1>1, <2>1, <2>2, Induction
<1>14. U \in [0 .. DEPTH -> S]
  <2>1. U = [n \in 0 .. DEPTH |-> U[n]]
    BY <1>10
  <2> HIDE DEF S
  <2> QED BY <1>13, <2>1
<1>15. ASSUME NEW n \in 0 .. DEPTH, NEW x \in Leaf PROVE U[n][x] = <<x>>
  <2>1. x \in Object
    BY <1>1
  <2> QED BY <1>11, <2>1
<1>16. ASSUME NEW n \in 1 .. DEPTH, NEW x \in Addr PROVE U[n][x] = Whole(x, U[n - 1])
  <2>1. x \in Object /\ x \notin Leaf /\ n \in 0 .. DEPTH /\ n # 0
    BY <1>1
  <2> QED BY <1>11, <2>1
<1> QED BY <1>14, <1>15, <1>16 DEF U, Whole

(* Shallow is what its definition says. *)
LEMMA ShallowIs ==
    /\ Shallow \in [0 .. DEPTH -> SUBSET Addr]
    /\ Shallow[0] = {}
    /\ \A n \in 1 .. DEPTH : Shallow[n] = {x \in Addr : Children(x) \subseteq Shallow[n - 1]}
<1> DEFINE S == SUBSET Addr
           step(u) == {x \in Addr : Children(x) \subseteq u}
           g == [p \in (1 .. DEPTH) \X S |-> step(p[2])]
           Is(f) == f = [n \in 0 .. DEPTH |-> IF n = 0 THEN {} ELSE step(f[n - 1])]
<1>1. DEPTH \in Nat
  BY BudgetAssumption
<1>2. {} \in S /\ \A u \in S : step(u) \in S
  OBVIOUS
<1> HIDE DEF step
<1>3. PICK h : Recursive(h, DEPTH, S, {}, g)
  <2>1. g \in [(1 .. DEPTH) \X S -> S]
    <3> HIDE DEF S
    <3>1. \A p \in (1 .. DEPTH) \X S : p[2] \in S
      OBVIOUS
    <3> QED BY <1>2, <3>1
  <2>2. g \in Nexts(DEPTH, S)
    BY <2>1 DEF Nexts
  <2> HIDE DEF g, S
  <2> QED BY <1>1, <1>2, <2>2, Recursion
<1>4. /\ h \in [0 .. DEPTH -> S] /\ h[0] = {}
      /\ \A n \in 1 .. DEPTH : h[n] = step(h[n - 1])
  <2>1. /\ h \in [0 .. DEPTH -> S] /\ h[0] = {}
        /\ \A n \in 1 .. DEPTH : h[n] = g[<<n, h[n - 1]>>]
    <3> HIDE DEF g, S
    <3> QED BY <1>3 DEF Recursive
  <2>2. ASSUME NEW n \in 1 .. DEPTH PROVE g[<<n, h[n - 1]>>] = step(h[n - 1])
    <3>1. n - 1 \in 0 .. DEPTH
      BY <1>1
    <3> HIDE DEF S
    <3>2. <<n, h[n - 1]>> \in (1 .. DEPTH) \X S
      BY <2>1, <3>1
    <3> QED BY <3>2
  <2> QED BY <2>1, <2>2
<1> HIDE DEF S
<1>5. Is(h)
  <2>1. ASSUME NEW n \in 0 .. DEPTH
        PROVE  h[n] = IF n = 0 THEN {} ELSE step(h[n - 1])
    <3>1. n = 0 \/ n \in 1 .. DEPTH
      BY <1>1
    <3> QED BY <1>4, <3>1
  <2>2. h = [n \in 0 .. DEPTH |-> h[n]]
    BY <1>4
  <2> QED BY <2>1, <2>2
<1>6. Is(Shallow)
  <2>1. Shallow = CHOOSE f : Is(f)
    BY DEF Shallow, step
  <2> HIDE DEF Is
  <2> QED BY <1>5, <2>1
<1> DEFINE U == Shallow
<1>7. U = [n \in 0 .. DEPTH |-> IF n = 0 THEN {} ELSE step(U[n - 1])]
  BY <1>6
<1> HIDE DEF U
<1>8. \A n \in 0 .. DEPTH : U[n] = IF n = 0 THEN {} ELSE step(U[n - 1])
  BY <1>7
<1>9. U[0] = {} /\ \A n \in 1 .. DEPTH : U[n] = step(U[n - 1])
  <2>1. 0 \in 0 .. DEPTH /\ \A n \in 1 .. DEPTH : n \in 0 .. DEPTH /\ n # 0
    BY <1>1
  <2> QED BY <1>8, <2>1
<1>10. ASSUME NEW n \in 0 .. DEPTH PROVE U[n] \in SUBSET Addr
  BY <1>8 DEF step
<1>11. U \in [0 .. DEPTH -> SUBSET Addr]
  BY <1>7, <1>10
<1> QED BY <1>9, <1>11 DEF U, step

(* Below a container are its children and what is below them, no more.      *)
LEMMA BelowIs ==
    ASSUME NEW x \in Addr
    PROVE  /\ Below(x) \subseteq Addr /\ Children(x) \subseteq Below(x) /\ Closed(Below(x))
           /\ \A S \in SUBSET Addr : Closed(S) /\ Children(x) \subseteq S => Below(x) \subseteq S
<1>1. \A y : Children(y) \subseteq Addr
  BY DEF Children
<1> QED BY <1>1 DEF Below, Closed

(* From the root are reached the root and what is below it, no more. *)
LEMMA ReachedIs ==
    ASSUME root \in Addr
    PROVE  /\ Reached \subseteq Addr /\ root \in Reached /\ Closed(Reached)
           /\ \A S \in SUBSET Addr : Closed(S) /\ root \in S => Reached \subseteq S
<1>1. Reached = {root} \cup Below(root)
  BY DEF Reached
<1> QED BY <1>1, BelowIs DEF Closed

(* A graph of bounded height has no cycle. *)
LEMMA ShallowHasNoCycle == root \in Shallow[DEPTH] => ~Cyclic
<1> SUFFICES ASSUME root \in Shallow[DEPTH], Cyclic PROVE FALSE
  OBVIOUS
<1>1. DEPTH \in Nat /\ DEPTH \in 0 .. DEPTH
  BY BudgetAssumption
<1>2. root \in Addr
  BY <1>1, ShallowIs
<1> DEFINE Lower(m) == UNION {Shallow[j] : j \in 0 .. m}
<1>3. ASSUME NEW m \in 0 .. DEPTH PROVE Lower(m) \subseteq Addr /\ Closed(Lower(m))
  <2>1. \A j \in 0 .. m : j \in 0 .. DEPTH
    BY <1>1
  <2>2. ASSUME NEW y \in Lower(m) PROVE y \in Addr /\ Children(y) \subseteq Lower(m)
    <3>1. PICK j \in 0 .. m : y \in Shallow[j]
      OBVIOUS
    <3>2. j \in 1 .. DEPTH /\ j - 1 \in 0 .. m
      BY <1>1, <2>1, <3>1, ShallowIs
    <3> QED BY <3>1, <3>2, ShallowIs
  <2> QED BY <2>2 DEF Closed
<1>4. Reached \subseteq Lower(DEPTH)
  BY <1>1, <1>2, <1>3, ReachedIs
<1>5. PICK x \in Reached : x \in Below(x)
  BY DEF Cyclic
<1> DEFINE H == {n \in 0 .. DEPTH : x \in Shallow[n]}
<1>6. H \in SUBSET Nat /\ H # {}
  BY <1>4
<1>7. PICK n \in H : \A m \in H : n =< m
  <2> HIDE DEF H
  <2> QED BY <1>6, LeastNatural
<1>8. n \in 1 .. DEPTH /\ n - 1 \in 0 .. DEPTH /\ n - 1 \in 0 .. n - 1
  BY <1>1, <1>7, ShallowIs
<1>9. x \in Addr /\ Children(x) \subseteq Lower(n - 1)
  BY <1>7, <1>8, ShallowIs
<1>10. x \in Lower(n - 1)
  <2> HIDE DEF Lower
  <2> QED BY <1>3, <1>5, <1>8, <1>9, BelowIs
<1>11. PICK j \in 0 .. n - 1 : x \in Shallow[j]
  BY <1>10
<1>12. j \in H /\ j < n
  BY <1>1, <1>8, <1>11
<1> QED BY <1>7, <1>8, <1>12

(* What follows an item, from the first to the last. *)
LEMMA AfterIs ==
    ASSUME TypeOK, NEW x \in Addr, NEW n \in 0 .. DEPTH
    PROVE  LET s == heap[x].items IN
           /\ After(x, n) \in [0 .. Len(s) -> Seq(Token)]
           /\ After(x, n)[0] = FlattenSeq(Each(x, Unfolding[n]))
           /\ After(x, n)[Len(s)] = <<>>
           /\ \A i \in 1 .. Len(s) : After(x, n)[i - 1] = Unfolding[n][s[i]] \o After(x, n)[i]
<1> DEFINE s == heap[x].items
           e == Each(x, Unfolding[n])
<1>1. Unfolding[n] \in [Object -> Seq(Token)]
  BY UnfoldingIs
<1>2. /\ s \in Seq(Object) /\ e \in Seq(Seq(Token)) /\ Len(e) = Len(s)
      /\ \A i \in DOMAIN s : e[i] = Unfolding[n][s[i]]
  BY <1>1, EachIs
<1>3. After(x, n) = CHOOSE r : Follows(e, Token, r)
  BY DEF After
<1> HIDE DEF e
<1>4. Follows(e, Token, After(x, n))
  BY <1>2, <1>3, SomethingFollows
<1>5. /\ After(x, n) \in [0 .. Len(s) -> Seq(Token)]
      /\ After(x, n)[0] = FlattenSeq(e)
      /\ After(x, n)[Len(s)] = <<>>
      /\ \A i \in 1 .. Len(s) : After(x, n)[i - 1] = e[i] \o After(x, n)[i]
  BY <1>2, <1>4 DEF Follows
<1>6. \A i \in 1 .. Len(s) : e[i] = Unfolding[n][s[i]]
  BY <1>2
<1> QED BY <1>5, <1>6 DEF e

-----
(* The size of a document. *)
LEMMA TokensWeigh ==
    /\ \A token \in Token : TokenBytes(token) \in Nat /\ TokenNodes(token) \in {0, 1}
    /\ \A leaf \in Leaf : TokenBytes(leaf) = ScalarBytes(leaf) /\ TokenNodes(leaf) = 1
    /\ \A x \in {"list", "dict", "end"} : TokenBytes([kind |-> x]) = 0
    /\ \A x \in {"list", "dict"} : TokenNodes([kind |-> x]) = 1
    /\ TokenNodes([kind |-> "end"]) = 0
<1>1. \A leaf \in Leaf : leaf \in Text \cup Scalar /\ leaf.kind \notin {"list", "dict", "end"}
  BY ConversionAssumption DEF Text, Scalar
<1>2. \A leaf \in Leaf : ScalarBytes(leaf) \in Nat
  BY <1>1 DEF ScalarBytes, Text, Scalar
<1>3. \A x \in {"list", "dict", "end"} : [kind |-> x] \notin Leaf /\ [kind |-> x].kind = x
  BY <1>1
<1> QED BY <1>1, <1>2, <1>3 DEF Token, TokenBytes, TokenNodes

(* Two sequences in a row, item by item. *)
LEMMA JoinedIs ==
    ASSUME NEW T, NEW f \in Seq(T), NEW g \in Seq(T), NEW h \in Seq(T),
           Len(h) = Len(f) + Len(g),
           \A i \in 1 .. Len(h) : h[i] = IF i <= Len(f) THEN f[i] ELSE g[i - Len(f)]
    PROVE  h = f \o g
<1>1. /\ f \o g \in Seq(T) /\ Len(f \o g) = Len(f) + Len(g)
      /\ \A i \in 1 .. Len(f) + Len(g) :
            (f \o g)[i] = IF i <= Len(f) THEN f[i] ELSE g[i - Len(f)]
  BY ConcatProperties
<1> DEFINE j == f \o g
<1>2. /\ j \in Seq(T) /\ Len(h) = Len(j) /\ \A i \in 1 .. Len(h) : h[i] = j[i]
  BY <1>1
<1> HIDE DEF j
<1>3. h = j
  BY <1>2, SeqEqual
<1> QED BY <1>3 DEF j

(* The size of two documents, one after the other, is the sum of theirs.  *)
LEMMA SizeIs ==
    ASSUME NEW a \in Seq(Token), NEW b \in Seq(Token)
    PROVE  /\ Size(a) \in Counts
           /\ Size(a \o b) = Plus(Size(a), Size(b).bytes, Size(b).nodes)
<1> DEFINE wb(d) == [i \in DOMAIN d |-> TokenBytes(d[i])]
           wn(d) == [i \in DOMAIN d |-> TokenNodes(d[i])]
<1>1. ASSUME NEW d \in Seq(Token)
      PROVE  /\ wb(d) \in Seq(Nat) /\ Len(wb(d)) = Len(d) /\ DOMAIN d = 1 .. Len(d)
             /\ wn(d) \in Seq(Nat) /\ Len(wn(d)) = Len(d) /\ Len(d) \in Nat
  <2>1. DOMAIN d = 1 .. Len(d) /\ Len(d) \in Nat /\ \A i \in 1 .. Len(d) : d[i] \in Token
    OBVIOUS
  <2> HIDE DEF wb, wn
  <2>2. \A i \in 1 .. Len(d) : TokenBytes(d[i]) \in Nat /\ TokenNodes(d[i]) \in Nat
    <3>1. \A token \in Token : TokenBytes(token) \in Nat /\ TokenNodes(token) \in Nat
      BY ONLY TokensWeigh
    <3> QED BY ONLY <2>1, <3>1
  <2>3. /\ wb(d) = [i \in 1 .. Len(d) |-> TokenBytes(d[i])]
        /\ wn(d) = [i \in 1 .. Len(d) |-> TokenNodes(d[i])]
    BY <2>1 DEF wb, wn
  <2>4. wb(d) \in Seq(Nat) /\ Len(wb(d)) = Len(d)
    BY <2>1, <2>2, <2>3
  <2>5. wn(d) \in Seq(Nat) /\ Len(wn(d)) = Len(d)
    BY <2>1, <2>2, <2>3
  <2> QED BY <2>1, <2>4, <2>5
<1>2. ASSUME NEW d \in Seq(Token)
      PROVE  /\ Size(d) = [bytes |-> Total(wb(d)), nodes |-> Total(wn(d))]
             /\ Size(d) \in Counts /\ Size(d).bytes = Total(wb(d))
             /\ Size(d).nodes = Total(wn(d))
  <2>1. Size(d) = [bytes |-> Total(wb(d)), nodes |-> Total(wn(d))]
    BY DEF Size
  <2> HIDE DEF wb, wn
  <2>2. \A f \in Seq(Nat) : Total(f) \in Nat
    <3> TAKE f \in Seq(Nat)
    <3>1. Len(f) \in 0 .. Len(f) /\ Sums(f) \in [0 .. Len(f) -> Nat]
      BY SumsAre
    <3> QED BY <3>1 DEF Total
  <2>3. Total(wb(d)) \in Nat /\ Total(wn(d)) \in Nat
    BY <1>1, <2>2
  <2> QED BY <2>1, <2>3 DEF Counts
<1>3. a \o b \in Seq(Token)
  BY ConcatProperties
<1>4. wb(a \o b) = wb(a) \o wb(b) /\ wn(a \o b) = wn(a) \o wn(b)
  <2> DEFINE c == a \o b
  <2>1. /\ Len(c) = Len(a) + Len(b) /\ Len(a) \in Nat /\ Len(b) \in Nat /\ c \in Seq(Token)
        /\ \A i \in 1 .. Len(a) + Len(b) : c[i] = IF i <= Len(a) THEN a[i] ELSE b[i - Len(a)]
    BY ConcatProperties
  <2> HIDE DEF c
  <2>2. ASSUME NEW i \in 1 .. Len(c), ~(i <= Len(a)) PROVE i - Len(a) \in 1 .. Len(b)
    BY <2>1, <2>2
  <2>3. ASSUME NEW i \in 1 .. Len(c)
        PROVE  /\ wb(c)[i] = IF i <= Len(a) THEN wb(a)[i] ELSE wb(b)[i - Len(a)]
               /\ wn(c)[i] = IF i <= Len(a) THEN wn(a)[i] ELSE wn(b)[i - Len(a)]
    <3>1. i \in DOMAIN c /\ (i <= Len(a) => i \in DOMAIN a)
      BY <2>1
    <3>2. ~(i <= Len(a)) => i - Len(a) \in DOMAIN b
      BY <2>2
    <3>3. c[i] = IF i <= Len(a) THEN a[i] ELSE b[i - Len(a)]
      BY <2>1
    <3> QED BY <3>1, <3>2, <3>3
  <2>4. /\ wb(a) \in Seq(Nat) /\ wb(b) \in Seq(Nat) /\ wb(c) \in Seq(Nat)
        /\ wn(a) \in Seq(Nat) /\ wn(b) \in Seq(Nat) /\ wn(c) \in Seq(Nat)
        /\ Len(wb(a)) = Len(a) /\ Len(wb(b)) = Len(b) /\ Len(wb(c)) = Len(c)
        /\ Len(wn(a)) = Len(a) /\ Len(wn(b)) = Len(b) /\ Len(wn(c)) = Len(c)
    BY <1>1, <2>1
  <2> HIDE DEF wb, wn
  <2>5. wb(c) = wb(a) \o wb(b)
    <3> DEFINE f == wb(a)
               g == wb(b)
               h == wb(c)
    <3>1. f \in Seq(Nat) /\ g \in Seq(Nat) /\ h \in Seq(Nat) /\ Len(h) = Len(f) + Len(g)
      BY <2>1, <2>4
    <3>2. \A i \in 1 .. Len(h) : h[i] = IF i <= Len(f) THEN f[i] ELSE g[i - Len(f)]
      BY <2>1, <2>3, <2>4
    <3> HIDE DEF f, g, h
    <3>3. h = f \o g
      BY <3>1, <3>2, JoinedIs
    <3> QED BY <3>3 DEF f, g, h
  <2>6. wn(c) = wn(a) \o wn(b)
    <3> DEFINE f == wn(a)
               g == wn(b)
               h == wn(c)
    <3>1. f \in Seq(Nat) /\ g \in Seq(Nat) /\ h \in Seq(Nat) /\ Len(h) = Len(f) + Len(g)
      BY <2>1, <2>4
    <3>2. \A i \in 1 .. Len(h) : h[i] = IF i <= Len(f) THEN f[i] ELSE g[i - Len(f)]
      BY <2>1, <2>3, <2>4
    <3> HIDE DEF f, g, h
    <3>3. h = f \o g
      BY <3>1, <3>2, JoinedIs
    <3> QED BY <3>3 DEF f, g, h
  <2> QED BY <2>5, <2>6 DEF c
<1> HIDE DEF wb, wn
<1>5. Total(wb(a \o b)) = Total(wb(a)) + Total(wb(b))
      /\ Total(wn(a \o b)) = Total(wn(a)) + Total(wn(b))
  BY <1>1, <1>4, TotalJoins
<1>6. Size(a \o b) = [bytes |-> Total(wb(a \o b)), nodes |-> Total(wn(a \o b))]
  BY <1>2, <1>3
<1> QED BY <1>2, <1>5, <1>6 DEF Plus

(* Nothing has no size, and a token its own. *)
LEMMA SizeOfFew ==
    /\ Size(<<>>) = NoCounts
    /\ \A token \in Token :
          Size(<<token>>) = [bytes |-> TokenBytes(token), nodes |-> TokenNodes(token)]
<1>1. Size(<<>>) = NoCounts
  <2>1. [i \in DOMAIN <<>> |-> TokenBytes(<<>>[i])] = <<>>
        /\ [i \in DOMAIN <<>> |-> TokenNodes(<<>>[i])] = <<>>
    OBVIOUS
  <2> QED BY <2>1, TotalOfFew DEF Size, NoCounts
<1>2. ASSUME NEW token \in Token
      PROVE  Size(<<token>>) = [bytes |-> TokenBytes(token), nodes |-> TokenNodes(token)]
  <2> DEFINE x == TokenBytes(token)
             y == TokenNodes(token)
  <2>1. /\ [i \in DOMAIN <<token>> |-> TokenBytes(<<token>>[i])] = <<x>>
        /\ [i \in DOMAIN <<token>> |-> TokenNodes(<<token>>[i])] = <<y>>
    OBVIOUS
  <2>2. x \in Nat /\ y \in Nat
    BY TokensWeigh
  <2>3. Size(<<token>>) = [bytes |-> Total(<<x>>), nodes |-> Total(<<y>>)]
    BY <2>1 DEF Size
  <2> HIDE DEF x, y
  <2>4. Total(<<x>>) = x /\ Total(<<y>>) = y
    BY <2>2, TotalOfFew
  <2> QED BY <2>3, <2>4 DEF x, y
<1> QED BY <1>1, <1>2

(* The graph stays, and what it stands for. *)
LEMMA SameGraph ==
    ASSUME heap' = heap
    PROVE  /\ Unfolding' = Unfolding /\ Shallow' = Shallow
           /\ \A x : Children(x)' = Children(x) /\ Below(x)' = Below(x)
           /\ \A x, n : After(x, n)' = After(x, n)
<1>1. \A x : Children(x)' = Children(x)
  BY DEF Children
<1>2. \A x : Below(x)' = Below(x)
  BY <1>1 DEF Below, Closed
<1>3. Unfolding' = Unfolding
  BY DEF Unfolding
<1>4. Shallow' = Shallow
  BY <1>1 DEF Shallow
<1>5. \A x, u : Each(x, u)' = Each(x, u)
  BY DEF Each
<1>6. \A x, n : After(x, n)' = After(x, n)
  BY <1>3 DEF After, Each
<1> QED BY <1>1, <1>2, <1>3, <1>4, <1>6

CleanFrom(x) ==
    \A y \in {x} \cup Below(x) : \A i \in DOMAIN heap[y].items : ItemDefect(heap[y], i) = "none"

(* An item has no defect, nor has anything below it, and it is n levels high at most. *)
Good(x, i, n) ==
    LET item == heap[x].items[i]
    IN  /\ ItemDefect(heap[x], i) = "none"
        /\ item \in Addr => item \in Shallow[n] /\ CleanFrom(item)

(* The items of a frame's container that have been converted. *)
Settled(k) == IF k = Depth THEN frames[k].next - 1 ELSE frames[k].next - 2

PathGood ==
    \A k \in 1 .. Depth :
       /\ frames[k].next =< Len(heap[frames[k].at].items) + 1
       /\ \A i \in 1 .. Settled(k) : Good(frames[k].at, i, DEPTH - k)

(* What is left of the container of a frame at level k, and of all up to there. *)
Rest(frame, k) == After(frame.at, DEPTH - k)[frame.next - 1] \o <<Ending>>

Pending(p) ==
    /\ p \in [0 .. Depth -> Seq(Token)]
    /\ p[0] = <<>>
    /\ \A k \in 1 .. Depth : p[k] = Rest(frames[k], k) \o p[k - 1]

DocInv ==
    /\ status = "called" => out = <<>>
    /\ status = "running" => /\ IsDictRoot /\ frames[1].at = root
                             /\ PathGood
                             /\ \E p : Pending(p) /\ Unfolded = out \o p[Depth]
    /\ status = "done" => /\ IsDictRoot /\ root \in Shallow[DEPTH] /\ CleanFrom(root)
                          /\ out = Unfolded
    /\ status # "memory" => budget.counts = Size(out)
    /\ RefusalsAreTruthful

(* A container whose items are all good is good. *)
LEMMA ItemsGood ==
    ASSUME TypeOK, NEW x \in Addr, NEW n \in 1 .. DEPTH,
           \A i \in DOMAIN heap[x].items : Good(x, i, n - 1)
    PROVE  x \in Shallow[n] /\ CleanFrom(x)
<1>1. heap[x].items \in Seq(Object)
  BY DEF TypeOK, Cell
<1>2. ASSUME NEW y \in Children(x) PROVE y \in Addr /\ y \in Shallow[n - 1] /\ CleanFrom(y)
  <2>1. y \in Addr /\ \E i \in DOMAIN heap[x].items : heap[x].items[i] = y
    BY <1>1 DEF Children, ToSet
  <2> QED BY <2>1 DEF Good
<1>3. x \in Shallow[n]
  BY <1>2, ShallowIs
<1> DEFINE S == Children(x) \cup UNION {Below(y) : y \in Children(x)}
<1>4. S \in SUBSET Addr /\ Closed(S) /\ Children(x) \subseteq S
  BY <1>2, BelowIs DEF Closed
<1>5. Below(x) \subseteq S
  <2> HIDE DEF S
  <2> QED BY <1>4, BelowIs
<1>6. ASSUME NEW y \in {x} \cup Below(x), NEW i \in DOMAIN heap[y].items
      PROVE  ItemDefect(heap[y], i) = "none"
  <2>1. CASE y = x
    BY <2>1 DEF Good
  <2>2. CASE y \in Below(x)
    <3>1. PICK c \in Children(x) : y \in {c} \cup Below(c)
      BY <1>5, <2>2
    <3> QED BY <1>2, <3>1 DEF CleanFrom
  <2> QED BY <2>1, <2>2
<1> QED BY <1>3, <1>6 DEF CleanFrom

(* The open containers are reached from the root. *)
LEMMA OnPath ==
    ASSUME IInv, DocInv, status = "running"
    PROVE  \A k \in 1 .. Depth : frames[k].at \in Reached /\ frames[k].at \in Addr
<1>1. /\ frames \in Seq(Frame) /\ Depth \in Nat /\ Depth >= 1 /\ Len(frames) = Depth
  BY DEF IInv, TypeOK, Started, Depth
<1>2. \A k \in 1 .. Depth : frames[k].at \in Addr
  <2>1. \A k \in 1 .. Depth : frames[k] \in Frame
    BY <1>1
  <2> QED BY <2>1 DEF Frame
<1>3. root \in Addr /\ frames[1].at = root
  BY DEF DocInv, IsDictRoot
<1> DEFINE T == {k \in 0 .. Depth - 1 : frames[k + 1].at \in Reached}
<1>4. 0 \in T
  BY <1>1, <1>3, ReachedIs
<1>5. ASSUME NEW k \in 0 .. Depth - 1 - 1, k \in T PROVE k + 1 \in T
  <2>1. k + 1 \in 1 .. Depth - 1 /\ k + 1 \in 1 .. Depth /\ (k + 1) + 1 \in 1 .. Depth
        /\ k + 1 \in 0 .. Depth - 1
    BY <1>1
  <2>2. /\ frames[k + 1].next - 1 \in DOMAIN heap[frames[k + 1].at].items
        /\ heap[frames[k + 1].at].items[frames[k + 1].next - 1] = ancestors[(k + 1) + 1]
        /\ ancestors[(k + 1) + 1] = frames[(k + 1) + 1].at
    BY <2>1 DEF IInv, AncestorsAreOpenPath
  <2>3. frames[(k + 1) + 1].at \in Children(frames[k + 1].at)
    BY <1>2, <2>1, <2>2 DEF Children, ToSet
  <2>4. frames[k + 1].at \in Reached
    BY <1>5
  <2> QED BY <1>3, <2>1, <2>3, <2>4, ReachedIs DEF Closed
<1>6. \A k \in 0 .. Depth - 1 : k \in T
  <2> HIDE DEF T
  <2>1. Depth - 1 \in Nat
    BY <1>1
  <2> QED BY <1>4, <1>5, <2>1, Induction
<1>7. ASSUME NEW k \in 1 .. Depth PROVE frames[k].at \in Reached
  <2>1. k - 1 \in 0 .. Depth - 1 /\ (k - 1) + 1 = k
    BY <1>1
  <2>2. k - 1 \in T
    BY <1>6, <2>1
  <2> QED BY <2>1, <2>2
<1> QED BY <1>2, <1>7

(* An item that is one of the ancestors closes a cycle. *)
LEMMA AncestorIsCycle ==
    ASSUME IInv, DocInv, status = "running", HasItem, Item \in Addr, Item \in Range(ancestors)
    PROVE  Cyclic
<1>1. /\ frames \in Seq(Frame) /\ Depth \in Nat /\ Depth >= 1 /\ Len(frames) = Depth
      /\ Len(ancestors) = Depth /\ \A k \in 1 .. Depth : ancestors[k] = frames[k].at
  BY DEF IInv, TypeOK, Started, Depth, AncestorsAreOpenPath
<1>2. PICK j \in 1 .. Depth : Item = frames[j].at
  BY <1>1 DEF Range
<1>3. \A k \in 1 .. Depth : frames[k].at \in Reached /\ frames[k].at \in Addr
  BY OnPath
<1>4. ASSUME NEW k \in 1 .. Depth - 1 PROVE frames[k + 1].at \in Children(frames[k].at)
  <2>1. k \in 1 .. Depth /\ k + 1 \in 1 .. Depth
    BY <1>1
  <2>2. /\ frames[k].next - 1 \in DOMAIN heap[frames[k].at].items
        /\ heap[frames[k].at].items[frames[k].next - 1] = frames[k + 1].at
    BY <1>1, <2>1 DEF IInv, AncestorsAreOpenPath
  <2> QED BY <1>3, <2>1, <2>2 DEF Children, ToSet
<1>5. Item \in Children(frames[Depth].at)
  <2>1. /\ frames[Depth].next \in 1 .. Len(heap[frames[Depth].at].items)
        /\ heap[frames[Depth].at] \in Cell
    <3>1. frames[Depth] \in Frame /\ frames[Depth].at \in Addr
      BY <1>1, <1>3
    <3>2. heap[frames[Depth].at] \in Cell
      BY <3>1 DEF IInv, TypeOK
    <3> QED BY <3>1, <3>2 DEF HasItem, Top, Frame, Cell
  <2> QED BY <2>1 DEF Children, ToSet, Item, Top, Cell
<1>6. ASSUME NEW S \in SUBSET Addr, Closed(S), Children(Item) \subseteq S PROVE Item \in S
  <2>1. CASE j = Depth
    BY <1>2, <1>5, <1>6, <2>1
  <2>2. CASE j # Depth
    <3> DEFINE T == {k \in 0 .. Depth - (j + 1) : frames[(j + 1) + k].at \in S}
    <3>1. Depth - (j + 1) \in Nat /\ j \in 1 .. Depth - 1 /\ (j + 1) + 0 = j + 1
      BY <1>1, <2>2
    <3>2. 0 \in T
      BY <1>2, <1>4, <1>6, <3>1
    <3>3. ASSUME NEW k \in 0 .. Depth - (j + 1) - 1, k \in T PROVE k + 1 \in T
      <4>1. /\ (j + 1) + k \in 1 .. Depth - 1 /\ (j + 1) + (k + 1) = ((j + 1) + k) + 1
            /\ k + 1 \in 0 .. Depth - (j + 1)
        BY <1>1, <3>1
      <4>2. frames[((j + 1) + k) + 1].at \in Children(frames[(j + 1) + k].at)
        BY <1>4, <4>1
      <4> QED BY <1>6, <3>3, <4>1, <4>2 DEF Closed
    <3>4. frames[Depth].at \in S
      <4>1. Depth - (j + 1) \in 0 .. Depth - (j + 1) /\ (j + 1) + (Depth - (j + 1)) = Depth
        BY <1>1, <3>1
      <4>2. Depth - (j + 1) \in T
        <5> HIDE DEF T
        <5> QED BY <3>1, <3>2, <3>3, <4>1, Induction
      <4> QED BY <4>1, <4>2
    <3> QED BY <1>5, <1>6, <3>4 DEF Closed
  <2> QED BY <2>1, <2>2
<1>7. Item \in Below(Item)
  BY <1>6 DEF Below
<1> QED BY <1>2, <1>3, <1>7 DEF Cyclic

(* What is left begins with the item that comes next. *)
LEMMA NextComesFirst ==
    ASSUME IInv, DocInv, status = "running", HasItem,
           NEW p, Pending(p), Unfolded = out \o p[Depth]
    PROVE  LET rest == After(Top.at, DEPTH - Depth)[Top.next] \o <<Ending>> IN
           /\ Depth \in 1 .. DEPTH /\ DEPTH - Depth \in 0 .. DEPTH
           /\ Top \in Frame /\ Top.next \in 1 .. Len(heap[Top.at].items) /\ Item \in Object
           /\ rest \in Seq(Token) /\ p[Depth - 1] \in Seq(Token)
           /\ Unfolding[DEPTH - Depth][Item] \in Seq(Token)
           /\ p[Depth] = Unfolding[DEPTH - Depth][Item] \o (rest \o p[Depth - 1])
<1> DEFINE n == DEPTH - Depth
           after == After(Top.at, n)[Top.next]
           u == Unfolding[n][Item]
<1>1. /\ frames \in Seq(Frame) /\ Depth \in Nat /\ Depth >= 1 /\ Len(frames) = Depth
      /\ Len(ancestors) = Depth /\ Depth =< DEPTH
  BY DEF IInv, TypeOK, Started, Depth, AncestorsAreOpenPath, AncestorsWithinReservation
<1>2. Depth \in 1 .. DEPTH /\ n \in 0 .. DEPTH /\ Depth - 1 \in 0 .. Depth /\ DEPTH \in Nat
  BY <1>1, BudgetAssumption
<1>3. Top \in Frame /\ Top.at \in Addr /\ Top.next \in Nat \ {0}
  <2>1. Top \in Frame
    BY <1>1 DEF Top
  <2> QED BY <2>1 DEF Frame
<1>4. /\ heap[Top.at].items \in Seq(Object) /\ Top.next \in 1 .. Len(heap[Top.at].items)
      /\ Item \in Object
  <2>1. heap[Top.at].items \in Seq(Object)
    BY <1>3 DEF IInv, TypeOK, Cell
  <2>2. Top.next \in 1 .. Len(heap[Top.at].items)
    BY <1>3, <2>1 DEF HasItem
  <2> QED BY <2>1, <2>2 DEF Item
<1> HIDE DEF n
<1>5. /\ After(Top.at, n) \in [0 .. Len(heap[Top.at].items) -> Seq(Token)]
      /\ After(Top.at, n)[Top.next - 1] = Unfolding[n][Item] \o After(Top.at, n)[Top.next]
  <2>1. /\ After(Top.at, n) \in [0 .. Len(heap[Top.at].items) -> Seq(Token)]
        /\ \A i \in 1 .. Len(heap[Top.at].items) :
              After(Top.at, n)[i - 1]
                 = Unfolding[n][heap[Top.at].items[i]] \o After(Top.at, n)[i]
    BY <1>2, <1>3, AfterIs DEF IInv
  <2> QED BY <1>4, <2>1 DEF Item
<1>6. after \in Seq(Token) /\ u \in Seq(Token) /\ <<Ending>> \in Seq(Token)
  <2>1. Unfolding \in [0 .. DEPTH -> [Object -> Seq(Token)]]
    BY UnfoldingIs DEF IInv
  <2>2. u \in Seq(Token)
    BY <1>2, <1>4, <2>1
  <2>3. after \in Seq(Token)
    <3>1. Top.next \in 0 .. Len(heap[Top.at].items)
      BY <1>4
    <3> QED BY <1>5, <3>1
  <2>4. <<Ending>> \in Seq(Token)
    BY Tokens DEF IInv
  <2> QED BY <2>2, <2>3, <2>4
<1>7. p[Depth] = (u \o after \o <<Ending>>) \o p[Depth - 1] /\ p[Depth - 1] \in Seq(Token)
  <2>1. Rest(Top, Depth) = u \o after \o <<Ending>>
    BY <1>5 DEF Rest, n
  <2>2. Depth \in 1 .. Depth
    BY <1>1
  <2>3. p[Depth] = Rest(frames[Depth], Depth) \o p[Depth - 1]
    BY <2>2 DEF Pending
  <2>4. p[Depth - 1] \in Seq(Token)
    BY <1>2 DEF Pending
  <2> QED BY <2>1, <2>3, <2>4 DEF Top
<1> DEFINE q == p[Depth - 1]
           e == <<Ending>>
<1> HIDE DEF u, after, q, e
<1>8. (u \o after \o e) \o q = u \o ((after \o e) \o q)
  <2>1. u \in Seq(Token) /\ after \in Seq(Token) /\ e \in Seq(Token) /\ q \in Seq(Token)
    BY <1>6, <1>7 DEF q, e
  <2> QED BY <2>1
<1>9. after \o e \in Seq(Token)
  BY <1>6 DEF e
<1> QED BY <1>2, <1>3, <1>4, <1>6, <1>7, <1>8, <1>9 DEF u, after, q, e, n

(* A charge that is refused would pass a limit, if it is for a token that   *)
(* follows what has been charged.                                           *)
LEMMA OverLimits ==
    ASSUME TypeOK, BudgetKept, budget.counts = Size(out),
           NEW token \in Token, NEW q \in Seq(Token), Unfolded = out \o (<<token>> \o q),
           TokenNodes(token) = 1,
           NEW depth, depth =< DEPTH, ~Admits(budget, TokenBytes(token), 1, depth)
    PROVE  ~WithinLimits
<1> DEFINE x == TokenBytes(token)
           cb == budget.counts.bytes
           cn == budget.counts.nodes
           rb == Size(q).bytes
           rn == Size(q).nodes
           limit == budget.byte_limit
<1>1. /\ budget.counts \in Counts /\ limit \in Nat /\ limit < WordSize
      /\ limit = budget0.byte_limit
      /\ budget0.combined \subseteq Counts /\ WordSize \in Nat /\ out \in Seq(Token)
      /\ NODES \in Nat /\ NODES < WordSize /\ REQUEST_BYTES \in Nat /\ REQUEST_BYTES < WordSize
  BY BudgetAssumption DEF TypeOK, Budgets, BudgetKept
<1>2. x \in Nat /\ cb \in Nat /\ cn \in Nat /\ rb \in Nat /\ rn \in Nat
  <2>1. Size(q) \in Counts
    BY SizeIs
  <2> QED BY <1>1, <2>1, TokensWeigh DEF Counts
<1>3. Size(Unfolded).bytes = cb + (x + rb) /\ Size(Unfolded).nodes = cn + (1 + rn)
  <2> DEFINE f == <<token>>
  <2>1. f \in Seq(Token) /\ Size(f) = [bytes |-> x, nodes |-> 1]
    BY SizeOfFew
  <2> HIDE DEF f, x
  <2>2. f \o q \in Seq(Token)
    BY <2>1
  <2>3. Size(f \o q) = Plus(Size(f), rb, rn)
    BY <2>1, SizeIs
  <2>4. Size(f \o q).bytes = x + rb /\ Size(f \o q).nodes = 1 + rn
    BY <2>1, <2>3 DEF Plus
  <2>5. Size(out \o (f \o q)) = Plus(Size(out), Size(f \o q).bytes, Size(f \o q).nodes)
    BY <1>1, <2>2, SizeIs
  <2>6. Size(Unfolded) = Plus(budget.counts, x + rb, 1 + rn)
    BY <2>4, <2>5 DEF f
  <2> QED BY <2>6 DEF Plus
<1> HIDE DEF x, rb, rn
<1>4. CASE ~Fits(cb, x, limit)
  <2>1. cb + (x + rb) > limit
    BY <1>1, <1>2, <1>4 DEF Fits
  <2>2. ~(Size(Unfolded).bytes =< budget0.byte_limit)
    <3> HIDE DEF cb, limit
    <3> QED BY <1>1, <1>2, <1>3, <2>1
  <2> QED BY <2>2 DEF WithinLimits, CountsWithin
<1>5. CASE ~Fits(cn, 1, NODES)
  <2>1. cn + (1 + rn) > NODES
    BY <1>1, <1>2, <1>5 DEF Fits
  <2>2. ~(Size(Unfolded).nodes =< NODES)
    <3> HIDE DEF cn
    <3> QED BY <1>1, <1>2, <1>3, <2>1
  <2> QED BY <2>2 DEF WithinLimits, CountsWithin
<1>6. ASSUME NEW c \in budget.combined,
             ~(Fits(c.bytes, x, REQUEST_BYTES) /\ Fits(c.nodes, 1, NODES))
      PROVE  ~WithinLimits
  <2>1. PICK t \in budget0.combined : c = Plus(t, cb, cn)
    BY DEF BudgetKept, DomainsAgree
  <2>2. t \in Counts /\ c.bytes = t.bytes + cb /\ c.nodes = t.nodes + cn
    BY <1>1, <2>1 DEF Plus
  <2>3. t.bytes \in Nat /\ t.nodes \in Nat
    BY <2>2 DEF Counts
  <2> DEFINE tb == t.bytes
             tn == t.nodes
  <2>4. ~(Fits(tb + cb, x, REQUEST_BYTES) /\ Fits(tn + cn, 1, NODES))
    BY <1>6, <2>2
  <2>5. tb \in Nat /\ tn \in Nat
    BY <2>3
  <2> HIDE DEF tb, tn
  <2>6. tb + (cb + (x + rb)) > REQUEST_BYTES \/ tn + (cn + (1 + rn)) > NODES
    <3> HIDE DEF cb, cn
    <3> QED BY <1>1, <1>2, <2>4, <2>5 DEF Fits
  <2>7. ~CountsWithin(Plus(t, Size(Unfolded).bytes, Size(Unfolded).nodes), REQUEST_BYTES)
    <3> HIDE DEF cb, cn
    <3>1. Plus(t, Size(Unfolded).bytes, Size(Unfolded).nodes)
             = [bytes |-> tb + (cb + (x + rb)), nodes |-> tn + (cn + (1 + rn))]
      BY <1>3 DEF Plus, tb, tn
    <3>2. /\ tb + (cb + (x + rb)) \in Nat /\ tn + (cn + (1 + rn)) \in Nat
      BY <1>2, <2>5
    <3> QED BY <1>1, <2>6, <3>1, <3>2 DEF CountsWithin
  <2> QED BY <2>7 DEF WithinLimits
<1>7. \/ ~Fits(cb, x, limit) \/ ~Fits(cn, 1, NODES)
      \/ \E c \in budget.combined :
            ~(Fits(c.bytes, x, REQUEST_BYTES) /\ Fits(c.nodes, 1, NODES))
  BY DEF Admits, x
<1> QED BY <1>4, <1>5, <1>6, <1>7

(* The item that comes next is one a traversal meets. *)
LEMMA NextIsMet ==
    ASSUME IInv, DocInv, status = "running", HasItem
    PROVE  /\ ItemDefect(heap[Top.at], Top.next) \in Defects
           /\ Top.next \in DOMAIN heap[Top.at].items
<1>1. Depth \in 1 .. Depth
  BY DEF IInv, TypeOK, Started, Depth
<1>2. Top.at \in Reached /\ Top.at \in Addr
  BY <1>1, OnPath DEF Top
<1>3. PICK p : Pending(p) /\ Unfolded = out \o p[Depth]
  BY DEF DocInv
<1>4. Top.next \in 1 .. Len(heap[Top.at].items)
  BY <1>3, NextComesFirst
<1>5. Top.next \in DOMAIN heap[Top.at].items
  BY <1>2, <1>4 DEF IInv, TypeOK, Cell
<1> QED BY <1>2, <1>5 DEF Defects

(* A leaf is refused for its defect, or for the limits. *)
LEMMA LeafRefusal ==
    ASSUME IInv, DocInv, status = "running", HasItem, Item \in Leaf, NEW error,
           error = IF AtKey THEN StringError(Item, Depth) ELSE LeafError(Item, Depth),
           error # "none"
    PROVE  /\ error \in {"type", "value", "overflow", "budget"}
           /\ error # "budget" => error \in Defects
           /\ error = "budget" => ~WithinLimits
<1> DEFINE obj == Item
           defect == ItemDefect(heap[Top.at], Top.next)
<1>1. /\ defect \in Defects
      /\ defect = IF obj.kind = "str" THEN IF obj.lone_surrogate THEN "value" ELSE "none"
                  ELSE IF AtKey THEN "type" ELSE ScalarDefect(obj)
  <2>1. obj \notin Addr
    BY ConversionAssumption
  <2> QED BY <2>1, NextIsMet DEF ItemDefect, Item, AtKey
<1>2. ScalarDefect(obj) \in {"overflow", "value", "type", "none"}
  BY DEF ScalarDefect
<1>3. obj \in Text \cup Scalar /\ obj \in Token /\ TokenBytes(obj) = ScalarBytes(obj)
      /\ TokenNodes(obj) = 1
  BY ConversionAssumption, TokensWeigh DEF Token
<1>4. ASSUME ~Admits(budget, ScalarBytes(obj), 1, Depth) PROVE ~WithinLimits
  <2>1. PICK p : Pending(p) /\ Unfolded = out \o p[Depth]
    BY DEF DocInv
  <2> DEFINE n == DEPTH - Depth
             rest == After(Top.at, n)[Top.next] \o <<Ending>>
             q == rest \o p[Depth - 1]
  <2>2. /\ Depth \in 1 .. DEPTH /\ n \in 0 .. DEPTH /\ rest \in Seq(Token)
        /\ p[Depth - 1] \in Seq(Token)
        /\ p[Depth] = Unfolding[n][obj] \o q
    BY <2>1, NextComesFirst
  <2>3. Unfolding[n][obj] = <<obj>>
    BY <2>2, UnfoldingIs DEF IInv
  <2>4. q \in Seq(Token)
    <3> HIDE DEF rest
    <3> QED BY <2>2
  <2>5. Depth =< DEPTH /\ TypeOK /\ BudgetKept /\ budget.counts = Size(out)
    BY <2>2, BudgetAssumption DEF IInv, DocInv
  <2> HIDE DEF q, obj
  <2>6. Unfolded = out \o (<<obj>> \o q)
    BY <2>1, <2>2, <2>3
  <2> QED BY <1>3, <1>4, <2>4, <2>5, <2>6, OverLimits
<1>5. ASSUME obj.kind = "str", ~Fits(0, obj.bytes, Remaining(budget))
      PROVE  ~Admits(budget, ScalarBytes(obj), 1, Depth)
  <2>1. Remaining(budget) = budget.byte_limit - budget.counts.bytes
    BY InvBudget DEF BudgetInv
  <2>2. /\ budget.byte_limit \in Nat /\ budget.counts.bytes \in Nat /\ WordSize \in Nat
        /\ budget.counts.bytes =< budget.byte_limit
    BY BudgetAssumption DEF IInv, TypeOK, Budgets, Counts, BudgetKept, BudgetWithin,
                            CountsWithin
  <2>3. ScalarBytes(obj) = obj.bytes /\ obj.bytes \in Nat
    BY <1>3, <1>5 DEF ScalarBytes, Text, Scalar
  <2> DEFINE x == obj.bytes
             cb == budget.counts.bytes
             limit == budget.byte_limit
  <2>4. x \in Nat /\ cb \in Nat /\ limit \in Nat /\ ~(0 + x < WordSize /\ 0 + x =< limit - cb)
    BY <1>5, <2>1, <2>2, <2>3 DEF Fits
  <2>5. ~Fits(cb, x, limit)
    <3> HIDE DEF x, cb, limit
    <3> QED BY <2>2, <2>4 DEF Fits
  <2> QED BY <2>3, <2>5 DEF Admits
<1>6. ASSUME error = StringError(obj, Depth)
      PROVE  /\ error \in {"type", "value", "budget"}
             /\ error = "type" => obj.kind # "str"
             /\ error = "value" => obj.kind = "str" /\ obj.lone_surrogate
             /\ error = "budget" => ~Admits(budget, ScalarBytes(obj), 1, Depth)
  <2>1. obj.kind = "str" => ScalarBytes(obj) = obj.bytes
    BY DEF ScalarBytes
  <2> HIDE DEF obj
  <2> QED BY <1>5, <1>6, <2>1 DEF StringError, Utf8Error, ChargeError
<1>7. CASE AtKey
  BY <1>1, <1>4, <1>6, <1>7
<1>8. CASE ~AtKey /\ obj.kind = "str"
  <2>1. error = StringError(obj, Depth)
    BY <1>8 DEF LeafError
  <2> QED BY <1>1, <1>4, <1>6, <1>8, <2>1
<1>9. CASE ~AtKey /\ obj.kind # "str"
  <2>1. error = IF ScalarDefect(obj) # "none" THEN ScalarDefect(obj)
                ELSE ChargeError(ScalarBytes(obj), Depth)
    BY <1>9 DEF LeafError
  <2>2. defect = ScalarDefect(obj)
    BY <1>1, <1>9
  <2> QED BY <1>1, <1>2, <1>4, <2>1, <2>2 DEF ChargeError
<1> QED BY <1>7, <1>8, <1>9

(* In a graph that is shallow enough each open container is as low as its level allows. *)
LEMMA PathIsShallow ==
    ASSUME IInv, DocInv, status = "running", root \in Shallow[DEPTH]
    PROVE  \A k \in 1 .. Depth : frames[k].at \in Shallow[DEPTH - k + 1]
<1>1. /\ frames \in Seq(Frame) /\ Depth \in Nat /\ Depth >= 1 /\ Len(frames) = Depth
      /\ Len(ancestors) = Depth /\ Depth =< DEPTH /\ DEPTH \in Nat
  BY BudgetAssumption DEF IInv, TypeOK, Started, Depth, AncestorsAreOpenPath,
                          AncestorsWithinReservation
<1> DEFINE T == {k \in 0 .. Depth - 1 : frames[k + 1].at \in Shallow[DEPTH - k]}
<1>2. 0 \in T
  BY <1>1 DEF DocInv
<1>3. ASSUME NEW k \in 0 .. (Depth - 1) - 1, k \in T PROVE k + 1 \in T
  <2>1. /\ k + 1 \in 1 .. Depth - 1 /\ k + 1 \in 1 .. Depth /\ (k + 1) + 1 \in 1 .. Depth
        /\ DEPTH - k \in 1 .. DEPTH /\ (DEPTH - k) - 1 = DEPTH - (k + 1)
        /\ k + 1 \in 0 .. Depth - 1
    BY <1>1
  <2>2. /\ frames[k + 1].next - 1 \in DOMAIN heap[frames[k + 1].at].items
        /\ heap[frames[k + 1].at].items[frames[k + 1].next - 1] = ancestors[(k + 1) + 1]
        /\ ancestors[(k + 1) + 1] = frames[(k + 1) + 1].at
    BY <2>1 DEF IInv, AncestorsAreOpenPath
  <2>3. frames[(k + 1) + 1].at \in Children(frames[k + 1].at)
    BY <2>1, <2>2, OnPath DEF Children, ToSet
  <2>4. frames[k + 1].at \in Shallow[DEPTH - k]
    BY <1>3
  <2>5. Children(frames[k + 1].at) \subseteq Shallow[(DEPTH - k) - 1]
    BY <2>1, <2>4, ShallowIs
  <2> QED BY <2>1, <2>3, <2>5
<1>4. \A k \in 0 .. Depth - 1 : k \in T
  <2> HIDE DEF T
  <2>1. Depth - 1 \in Nat
    BY <1>1
  <2> QED BY <1>2, <1>3, <2>1, Induction
<1>5. ASSUME NEW k \in 1 .. Depth PROVE frames[k].at \in Shallow[DEPTH - k + 1]
  <2>1. k - 1 \in 0 .. Depth - 1 /\ (k - 1) + 1 = k /\ DEPTH - (k - 1) = DEPTH - k + 1
    BY <1>1
  <2>2. k - 1 \in T
    BY <1>4, <2>1
  <2> QED BY <2>1, <2>2
<1> QED BY <1>5

(* A container stands for what opens it, its items and what ends it. *)
LEMMA ContainerUnfolds ==
    ASSUME TypeOK, NEW x \in Addr, NEW n \in 1 .. DEPTH
    PROVE  LET within == After(x, n - 1)[0] \o <<Ending>> IN
           /\ within \in Seq(Token)
           /\ Opening(x) \in Token /\ TokenBytes(Opening(x)) = 0 /\ TokenNodes(Opening(x)) = 1
           /\ Unfolding[n][x] = <<Opening(x)>> \o within
<1>1. n - 1 \in 0 .. DEPTH /\ 0 \in 0 .. Len(heap[x].items)
  <2>1. heap[x].items \in Seq(Object)
    BY DEF TypeOK, Cell
  <2> QED BY <2>1, BudgetAssumption
<1>2. /\ After(x, n - 1)[0] \in Seq(Token)
      /\ After(x, n - 1)[0] = FlattenSeq(Each(x, Unfolding[n - 1]))
  BY <1>1, AfterIs
<1>3. Unfolding[n][x] = <<Opening(x)>> \o After(x, n - 1)[0] \o <<Ending>>
  BY <1>2, UnfoldingIs
<1>4. <<Opening(x)>> \in Seq(Token) /\ <<Ending>> \in Seq(Token)
  BY Tokens
<1> DEFINE a == <<Opening(x)>>
           f == After(x, n - 1)[0]
           e == <<Ending>>
<1>5. a \in Seq(Token) /\ f \in Seq(Token) /\ e \in Seq(Token)
  BY <1>2, <1>4
<1> HIDE DEF a, f, e
<1>6. a \o f \o e = a \o (f \o e) /\ f \o e \in Seq(Token)
  BY <1>5
<1>7. Opening(x) \in Token /\ TokenBytes(Opening(x)) = 0 /\ TokenNodes(Opening(x)) = 1
  <2>1. heap[x].kind \in {"list", "dict"}
    BY DEF TypeOK, Cell
  <2> QED BY <2>1, Tokens, TokensWeigh DEF Opening
<1> QED BY <1>3, <1>6, <1>7 DEF a, f, e

(* A container is refused for a cycle, or for the limits. *)
LEMMA ContainerRefusal ==
    ASSUME IInv, DocInv, status = "running", HasItem, Item \in Addr,
           ContainerError(Item) # "none"
    PROVE  \/ ContainerError(Item) = "cyclic" /\ Cyclic
           \/ ContainerError(Item) = "budget" /\ ~WithinLimits
<1>1. CASE Item \in Range(ancestors)
  BY <1>1, AncestorIsCycle DEF ContainerError
<1>2. CASE Item \notin Range(ancestors)
  <2>1. ContainerError(Item) = "budget" /\ ~Admits(budget, 0, 1, Depth + 1)
    BY <1>2 DEF ContainerError
  <2>2. PICK p : Pending(p) /\ Unfolded = out \o p[Depth]
    BY DEF DocInv
  <2> DEFINE n == DEPTH - Depth
             rest == After(Top.at, n)[Top.next] \o <<Ending>>
             q == rest \o p[Depth - 1]
             within == After(Item, n - 1)[0] \o <<Ending>>
  <2>3. /\ Depth \in 1 .. DEPTH /\ n \in 0 .. DEPTH /\ rest \in Seq(Token)
        /\ p[Depth - 1] \in Seq(Token)
        /\ p[Depth] = Unfolding[n][Item] \o q /\ Top \in Frame
    BY <2>2, NextComesFirst
  <2>4. q \in Seq(Token)
    <3> HIDE DEF rest
    <3> QED BY <2>3
  <2>5. DEPTH \in Nat
    BY BudgetAssumption
  <2> HIDE DEF q
  <2>6. CASE Depth = DEPTH
    <3>1. SUFFICES ASSUME root \in Shallow[DEPTH] PROVE FALSE
      BY <2>1 DEF WithinLimits
    <3>2. Top.at \in Shallow[1]
      <4>1. Depth \in 1 .. Depth /\ DEPTH - Depth + 1 = 1
        BY <2>3, <2>5, <2>6
      <4> QED BY <3>1, <4>1, PathIsShallow DEF Top
    <3>3. Item \in Children(Top.at)
      <4>1. heap[Top.at].items \in Seq(Object)
        BY <2>3 DEF IInv, TypeOK, Cell, Frame
      <4> QED BY <4>1, NextIsMet DEF Children, ToSet, Item
    <3>4. 1 \in 1 .. DEPTH /\ 1 - 1 = 0
      BY <2>3, <2>6
    <3> QED BY <3>2, <3>3, <3>4, ShallowIs
  <2>7. CASE Depth # DEPTH
    <3>1. n \in 1 .. DEPTH /\ Depth + 1 =< DEPTH
      BY <2>3, <2>5, <2>7
    <3> HIDE DEF n
    <3>2. /\ within \in Seq(Token) /\ Unfolding[n][Item] = <<Opening(Item)>> \o within
          /\ Opening(Item) \in Token /\ TokenBytes(Opening(Item)) = 0
          /\ TokenNodes(Opening(Item)) = 1
      BY <3>1, ContainerUnfolds DEF IInv
    <3> DEFINE a == <<Opening(Item)>>
    <3>3. a \in Seq(Token)
      BY <3>2
    <3> HIDE DEF within, a
    <3>4. (a \o within) \o q = a \o (within \o q) /\ within \o q \in Seq(Token)
      BY <2>4, <3>2, <3>3
    <3>5. Unfolded = out \o (<<Opening(Item)>> \o (within \o q))
      BY <2>2, <2>3, <3>2, <3>4 DEF a
    <3>6. TypeOK /\ BudgetKept /\ budget.counts = Size(out) /\ within \o q \in Seq(Token)
      BY <3>4 DEF IInv, DocInv
    <3>7. ~WithinLimits
      <4> DEFINE token == Opening(Item)
                 r == within \o q
      <4>1. /\ token \in Token /\ TokenNodes(token) = 1 /\ r \in Seq(Token)
            /\ Unfolded = out \o (<<token>> \o r) /\ TokenBytes(token) = 0
        BY <3>2, <3>5, <3>6
      <4>2. ~Admits(budget, TokenBytes(token), 1, Depth + 1)
        BY <2>1, <4>1
      <4> HIDE DEF token, r
      <4> QED BY <3>1, <3>6, <4>1, <4>2, OverLimits
    <3> QED BY <2>1, <3>7
  <2> QED BY <2>6, <2>7
<1> QED BY <1>1, <1>2

(* The graph and what is asked of it stay. *)
LEMMA SameQuestion ==
    ASSUME UNCHANGED <<heap, root, budget0>>
    PROVE  /\ \A x, i, n : Good(x, i, n)' = Good(x, i, n)
           /\ \A x : CleanFrom(x)' = CleanFrom(x)
           /\ \A f, k : Rest(f, k)' = Rest(f, k)
           /\ Unfolded' = Unfolded /\ Shallow' = Shallow
           /\ Cyclic' = Cyclic /\ IsDictRoot' = IsDictRoot
           /\ Defects' = Defects /\ WithinLimits' = WithinLimits
<1>1. /\ Unfolding' = Unfolding /\ Shallow' = Shallow
      /\ \A x : Children(x)' = Children(x) /\ Below(x)' = Below(x)
      /\ \A x, n : After(x, n)' = After(x, n)
  BY SameGraph
<1>2. \A x : CleanFrom(x)' = CleanFrom(x)
  BY <1>1 DEF CleanFrom
<1>3. \A x, i, n : Good(x, i, n)' = Good(x, i, n)
  BY <1>1, <1>2 DEF Good
<1>4. \A f, k : Rest(f, k)' = Rest(f, k)
  BY <1>1 DEF Rest
<1>5. Unfolded' = Unfolded
  BY <1>1 DEF Unfolded
<1>6. Reached' = Reached
  BY <1>1 DEF Reached
<1>7. Cyclic' = Cyclic
  BY <1>1, <1>6 DEF Cyclic
<1>8. Defects' = Defects
  BY <1>6 DEF Defects
<1>9. WithinLimits' = WithinLimits
  BY <1>1, <1>5 DEF WithinLimits
<1>10. IsDictRoot' = IsDictRoot
  BY DEF IsDictRoot
<1> QED BY <1>1, <1>2, <1>3, <1>4, <1>5, <1>7, <1>8, <1>9, <1>10

(* A refusal with a cause keeps the invariant. *)
LEMMA FailKeepsDoc ==
    ASSUME DocInv, status \in {"called", "running"}, NEW error \in Errors, Fail(error),
           error = "cyclic" => Cyclic,
           error = "type" => ~IsDictRoot \/ "type" \in Defects,
           error = "value" => "value" \in Defects,
           error = "overflow" => "overflow" \in Defects,
           error = "budget" => ~WithinLimits
    PROVE  DocInv'
<1>1. UNCHANGED <<heap, root, budget0, budget, out>> /\ status' = error
  BY DEF Fail
<1>2. /\ Cyclic' = Cyclic /\ IsDictRoot' = IsDictRoot /\ Defects' = Defects
      /\ WithinLimits' = WithinLimits
  BY <1>1, SameQuestion
<1>3. RefusalsAreTruthful'
  BY <1>1, <1>2 DEF RefusalsAreTruthful
<1>4. Size(out)' = Size(out)
  BY <1>1
<1> QED BY <1>1, <1>3, <1>4 DEF DocInv, Errors

(* Nothing is refused: what a state says of refusals holds of none. *)
LEMMA NoRefusal == status' \notin Errors \ {"memory"} => RefusalsAreTruthful'
  BY DEF RefusalsAreTruthful, Errors

(* A charge for a token is the growth of the document by it. *)
LEMMA ChargeIsSize ==
    ASSUME TypeOK, budget.counts = Size(out), NEW token \in Token,
           budget' = Charge(budget, TokenBytes(token), TokenNodes(token)),
           out' = Append(out, token)
    PROVE  budget'.counts = Size(out')
<1>1. out \in Seq(Token) /\ <<token>> \in Seq(Token) /\ out' = out \o <<token>>
  BY DEF TypeOK
<1>2. Size(out') = Plus(Size(out), Size(<<token>>).bytes, Size(<<token>>).nodes)
  BY <1>1, SizeIs
<1>3. Size(<<token>>).bytes = TokenBytes(token) /\ Size(<<token>>).nodes = TokenNodes(token)
  <2> DEFINE x == TokenBytes(token)
             y == TokenNodes(token)
  <2>1. Size(<<token>>) = [bytes |-> x, nodes |-> y]
    BY SizeOfFew
  <2> HIDE DEF x, y
  <2>2. Size(<<token>>).bytes = x /\ Size(<<token>>).nodes = y
    BY <2>1
  <2> QED BY <2>2 DEF x, y
<1>4. budget'.counts = Plus(budget.counts, TokenBytes(token), TokenNodes(token))
  BY DEF Charge
<1> HIDE DEF Size
<1> QED BY <1>2, <1>3, <1>4

(* The root is refused for the limits only, and when it is opened all of it is left. *)
LEMMA DocumentKeepsDoc == IInv /\ IInv' /\ DocInv /\ Document => DocInv'
<1> SUFFICES ASSUME IInv, IInv', DocInv, Document PROVE DocInv'
  OBVIOUS
<1>1. /\ status = "called" /\ frames = <<>> /\ out = <<>> /\ Depth = 0 /\ ancestors = <<>>
      /\ TypeOK /\ BudgetKept /\ budget.counts = Size(out)
  BY DEF Document, IInv, Started, DocInv, Depth, AncestorsAreOpenPath
<1>2. CASE ~IsDictRoot
  <2>1. Fail("type")
    BY <1>2 DEF Document, IsDictRoot
  <2> QED BY <1>1, <1>2, <2>1, FailKeepsDoc DEF Errors
<1>3. CASE IsDictRoot
  <2> DEFINE within == After(root, DEPTH - 1)[0] \o <<Ending>>
             token == Opening(root)
  <2>1. root \in Addr /\ heap[root].kind = "dict"
    BY <1>3 DEF IsDictRoot
  <2>2. DEPTH \in 1 .. DEPTH /\ DEPTH \in Nat
    BY BudgetAssumption
  <2>3. /\ within \in Seq(Token) /\ token \in Token
        /\ TokenBytes(token) = 0 /\ TokenNodes(token) = 1
        /\ Unfolded = <<token>> \o within
    BY <1>1, <2>1, <2>2, ContainerUnfolds DEF Unfolded
  <2>4. CASE Fail("memory")
    BY <1>1, <2>4, FailKeepsDoc DEF Errors
  <2>5. CASE ContainerError(root) # "none" /\ Fail(ContainerError(root))
    <3>1. ContainerError(root) = "budget" /\ ~Admits(budget, 0, 1, Depth + 1)
      BY <1>1, <2>5 DEF ContainerError, Range
    <3>2. Depth + 1 =< DEPTH
      BY <1>1, <2>2
    <3> HIDE DEF within, token
    <3>3. <<token>> \in Seq(Token) /\ <<token>> \o within \in Seq(Token)
      BY <2>3
    <3>4. Unfolded = out \o (<<token>> \o within)
      BY <1>1, <2>3, <3>3, ConcatEmptySeq
    <3>5. ~Admits(budget, TokenBytes(token), 1, Depth + 1)
      BY <2>3, <3>1
    <3>6. ~WithinLimits
      BY <1>1, <2>3, <3>2, <3>4, <3>5, OverLimits
    <3> QED BY <1>1, <2>5, <3>1, <3>6, FailKeepsDoc DEF Errors
  <2>6. CASE ContainerError(root) = "none" /\ Open(root, frames)
    <3> DEFINE frame == [at |-> root, next |-> 1]
    <3>1. /\ UNCHANGED <<heap, root, budget0>> /\ status' = "running"
          /\ budget' = Charge(budget, 0, 1) /\ out' = Append(out, token)
          /\ frames' = <<frame>>
      BY <1>1, <2>6 DEF Open, Opening
    <3>2. Depth' = 1 /\ frames'[1] = frame
      BY <3>1 DEF Depth
    <3>3. IsDictRoot' /\ (frames[1].at = root)'
      BY <1>3, <3>1, <3>2, SameQuestion
    <3>4. PathGood'
      <4>1. heap[root].items \in Seq(Object)
        BY <1>1, <2>1 DEF TypeOK, Cell
      <4>2. Len(heap[root].items) \in Nat
        BY <4>1
      <4>3. ASSUME NEW k \in (1 .. Depth)' PROVE k = 1 /\ Settled(k)' = 0 /\ frames'[k] = frame
        BY <3>2 DEF Settled
      <4> QED BY <3>1, <4>2, <4>3 DEF PathGood
    <3>5. \E p : Pending(p)' /\ Unfolded' = out' \o p[Depth']
      <4> HIDE DEF within
      <4>1. PICK p : p \in [0 .. 1 -> Seq(Token)] /\ p[0] = <<>> /\ p[1] = within
        <5> DEFINE r == [k \in 0 .. 1 |-> IF k = 0 THEN <<>> ELSE within]
        <5>1. r \in [0 .. 1 -> Seq(Token)] /\ r[0] = <<>> /\ r[1] = within
          BY <2>3
        <5> QED BY <5>1
      <4>2. Rest(frame, 1)' = within
        <5>1. Rest(frame, 1)' = Rest(frame, 1)
          BY <3>1, SameQuestion
        <5>2. Rest(frame, 1) = within
          BY DEF Rest, within
        <5> QED BY <5>1, <5>2
      <4>3. within = within \o <<>>
        BY <2>3, ConcatEmptySeq
      <4>4. Pending(p)'
        <5>1. ASSUME NEW k \in (1 .. Depth)' PROVE p[k] = Rest(frames[k], k)' \o p[k - 1]
          <6>1. k = 1 /\ frames'[k] = frame
            BY <3>2
          <6>2. Rest(frames[k], k)' = within
            BY <3>1, <4>2, <6>1, SameQuestion DEF Rest
          <6> QED BY <4>1, <4>3, <6>1, <6>2
        <5> QED BY <3>2, <4>1, <5>1 DEF Pending
      <4>5. Unfolded' = out' \o p[Depth']
        <5>1. out' = <<token>>
          BY <1>1, <3>1
        <5>2. Unfolded' = Unfolded
          BY <3>1, SameQuestion
        <5> QED BY <2>3, <3>2, <4>1, <5>1, <5>2
      <4> QED BY <4>4, <4>5
    <3>6. budget'.counts = Size(out')
      <4> HIDE DEF token
      <4> QED BY <1>1, <2>3, <3>1, ChargeIsSize
    <3>7. RefusalsAreTruthful'
      BY <3>1, NoRefusal DEF Errors
    <3> QED BY <3>1, <3>3, <3>4, <3>5, <3>6, <3>7 DEF DocInv
  <2> QED BY <2>1, <2>4, <2>5, <2>6 DEF Document
<1> QED BY <1>2, <1>3

(* Advanced is the call stack with its last frame at the next item. *)
LEMMA AdvancedIs ==
    ASSUME TypeOK, Depth >= 1
    PROVE  /\ Advanced \in Seq(Frame) /\ Len(Advanced) = Depth
           /\ Advanced[Depth] \in Frame
           /\ Advanced[Depth].at = Top.at /\ Advanced[Depth].next = Top.next + 1
           /\ \A k \in 1 .. Depth - 1 : Advanced[k] = frames[k]
<1>1. frames \in Seq(Frame) /\ Depth \in Nat \ {0} /\ Len(frames) = Depth
  BY DEF TypeOK, Depth
<1>2. frames[Depth] \in Frame
  BY <1>1
<1> DEFINE f == [frames[Depth] EXCEPT !.next = @ + 1]
<1>3. f \in Frame /\ f.at = frames[Depth].at /\ f.next = frames[Depth].next + 1
  BY <1>2 DEF Frame
<1>4. Advanced = [frames EXCEPT ![Depth] = f]
  BY DEF Advanced
<1> HIDE DEF f
<1>5. /\ Advanced \in Seq(Frame) /\ Len(Advanced) = Depth /\ Advanced[Depth] = f
      /\ \A k \in 1 .. Depth - 1 : Advanced[k] = frames[k]
  BY <1>1, <1>3, <1>4
<1> QED BY <1>3, <1>5 DEF Top

(* Opening an item puts a frame on the call stack, below which nothing but  *)
(* the position in the last container changes.                              *)
LEMMA OpenedIs ==
    ASSUME TypeOK, Depth >= 1, NEW a \in Addr, Open(a, Advanced)
    PROVE  /\ Depth' = Depth + 1
           /\ frames'[Depth + 1] = [at |-> a, next |-> 1]
           /\ frames'[Depth].at = Top.at /\ frames'[Depth].next = Top.next + 1
           /\ \A k \in 1 .. Depth - 1 : frames'[k] = frames[k]
<1> DEFINE f == [at |-> a, next |-> 1]
           s == Advanced
<1>1. /\ s \in Seq(Frame) /\ Len(s) = Depth /\ s[Depth].at = Top.at
      /\ s[Depth].next = Top.next + 1
      /\ \A k \in 1 .. Depth - 1 : s[k] = frames[k]
  BY AdvancedIs
<1>2. f \in Frame /\ Depth \in Nat
  BY <1>1 DEF Frame
<1>3. frames' = Append(s, f)
  BY DEF Open
<1> HIDE DEF s, f
<1>4. /\ Len(frames') = Depth + 1 /\ frames'[Depth + 1] = f
      /\ \A k \in 1 .. Depth : frames'[k] = s[k]
  BY <1>1, <1>2, <1>3
<1> QED BY <1>1, <1>2, <1>4 DEF Depth, f

(* A container that is opened is the first thing that is left, and goes to  *)
(* where the next tokens come from.                                         *)
LEMMA EnterKeepsDoc == IInv /\ IInv' /\ DocInv /\ EnterContainer => DocInv'
<1> SUFFICES ASSUME IInv, IInv', DocInv, EnterContainer PROVE DocInv'
  OBVIOUS
<1>1. /\ status = "running" /\ HasItem /\ Item \in Addr /\ TypeOK /\ BudgetKept
      /\ budget.counts = Size(out) /\ Depth >= 1
  BY DEF EnterContainer, IInv, DocInv, TypeOK, Started, Depth
<1>2. CASE ContainerError(Item) # "none"
  <2> DEFINE error == ContainerError(Item)
  <2>1. Fail(error) /\ error \in Errors
    BY <1>2 DEF EnterContainer, Errors, ContainerError
  <2>2. \/ error = "cyclic" /\ Cyclic
        \/ error = "budget" /\ ~WithinLimits
    BY <1>1, <1>2, ContainerRefusal
  <2> HIDE DEF error
  <2> QED BY <1>1, <2>1, <2>2, FailKeepsDoc
<1>3. CASE ContainerError(Item) = "none"
  <2>1. Open(Item, Advanced) /\ Depth + 1 =< DEPTH
    BY <1>3 DEF EnterContainer, ContainerError, Admits
  <2>2. PICK p : Pending(p) /\ Unfolded = out \o p[Depth]
    BY <1>1 DEF DocInv
  <2> DEFINE n == DEPTH - Depth
             rest == After(Top.at, n)[Top.next] \o <<Ending>>
             q == rest \o p[Depth - 1]
             within == After(Item, n - 1)[0] \o <<Ending>>
             token == Opening(Item)
  <2>3. /\ Depth \in 1 .. DEPTH /\ n \in 0 .. DEPTH /\ rest \in Seq(Token)
        /\ p[Depth - 1] \in Seq(Token)
        /\ p[Depth] = Unfolding[n][Item] \o q /\ Top \in Frame
        /\ Top.next \in 1 .. Len(heap[Top.at].items)
    BY <1>1, <2>2, NextComesFirst
  <2>4. q \in Seq(Token)
    <3> HIDE DEF rest
    <3> QED BY <2>3
  <2>5. DEPTH \in Nat /\ n \in 1 .. DEPTH /\ DEPTH - (Depth + 1) = n - 1
    BY <2>1, <2>3, BudgetAssumption
  <2>6. /\ within \in Seq(Token) /\ Unfolding[n][Item] = <<token>> \o within
        /\ token \in Token /\ TokenBytes(token) = 0 /\ TokenNodes(token) = 1
    <3> HIDE DEF n
    <3> QED BY <1>1, <2>5, ContainerUnfolds
  <2>7. /\ UNCHANGED <<heap, root, budget0>> /\ status' = "running"
        /\ budget' = Charge(budget, 0, 1) /\ out' = Append(out, token)
    BY <2>1 DEF Open, Opening
  <2>8. /\ Depth' = Depth + 1
        /\ frames'[Depth + 1] = [at |-> Item, next |-> 1]
        /\ frames'[Depth].at = Top.at /\ frames'[Depth].next = Top.next + 1
        /\ \A k \in 1 .. Depth - 1 : frames'[k] = frames[k]
    BY <1>1, <2>1, OpenedIs
  <2>9. IsDictRoot' /\ (frames[1].at = root)'
    <3>1. frames'[1].at = frames[1].at
      <4>1. CASE Depth = 1
        BY <2>8, <4>1 DEF Top
      <4>2. CASE Depth # 1
        BY <2>3, <2>8, <4>2
      <4> QED BY <4>1, <4>2
    <3> QED BY <1>1, <2>7, <3>1, SameQuestion DEF DocInv
  <2>10. PathGood'
    <3> SUFFICES ASSUME NEW k \in 1 .. Depth'
                 PROVE  /\ frames'[k].next =< Len(heap[frames'[k].at].items) + 1
                        /\ \A i \in 1 .. Settled(k)' : Good(frames'[k].at, i, DEPTH - k)
      BY <2>7, SameQuestion DEF PathGood
    <3>1. CASE k = Depth + 1
      <4>1. heap[Item].items \in Seq(Object)
        BY <1>1 DEF TypeOK, Cell
      <4>2. Len(heap[Item].items) \in Nat
        BY <4>1
      <4>3. Settled(k)' = 0
        BY <2>8, <3>1 DEF Settled
      <4> QED BY <2>8, <3>1, <4>2, <4>3
    <3>2. CASE k = Depth
      <4>1. Top.next \in Nat /\ Len(heap[Top.at].items) \in Nat
        <5>1. heap[Top.at].items \in Seq(Object)
          BY <1>1, <2>3 DEF TypeOK, Cell, Frame
        <5> QED BY <2>3, <5>1
      <4>2. Settled(k)' = Top.next - 1
        <5>1. Settled(k)' = frames'[k].next - 2
          BY <2>3, <2>8, <3>2 DEF Settled
        <5>2. frames'[k].next = Top.next + 1
          BY <2>8, <3>2
        <5> QED BY <4>1, <5>1, <5>2
      <4>3. Settled(k) = Top.next - 1
        BY <3>2 DEF Settled, Top
      <4>4. frames[k].at = Top.at /\ k \in 1 .. Depth
        BY <2>3, <3>2 DEF Top
      <4>5. \A i \in 1 .. Settled(k) : Good(frames[k].at, i, DEPTH - k)
        BY <1>1, <4>4 DEF DocInv, PathGood
      <4>6. frames'[k].at = Top.at /\ frames'[k].next = Top.next + 1
        BY <2>8, <3>2
      <4>7. Top.next + 1 =< Len(heap[Top.at].items) + 1
        BY <2>3, <4>1
      <4> HIDE DEF n
      <4> QED BY <4>2, <4>3, <4>4, <4>5, <4>6, <4>7
    <3>3. CASE k \notin {Depth, Depth + 1}
      <4>1. k \in 1 .. Depth - 1 /\ k \in 1 .. Depth
        BY <2>3, <2>8, <3>3
      <4>2. frames'[k] = frames[k]
        BY <2>8, <4>1
      <4>3. Settled(k)' = Settled(k)
        BY <2>8, <3>3, <4>2 DEF Settled
      <4> QED BY <1>1, <4>1, <4>2, <4>3 DEF DocInv, PathGood
    <3> QED BY <3>1, <3>2, <3>3
  <2>11. \E r : Pending(r)' /\ Unfolded' = out' \o r[Depth']
    <3> DEFINE d == Depth
               w == within \o q
    <3>1. w \in Seq(Token)
      <4> HIDE DEF within, q
      <4> QED BY <2>4, <2>6
    <3>2. /\ d \in Nat \ {0} /\ p \in [0 .. d -> Seq(Token)] /\ p[0] = <<>>
      BY <2>2, <2>3 DEF Pending
    <3>3. PICK r : /\ r \in [0 .. d + 1 -> Seq(Token)] /\ r[d + 1] = w /\ r[d] = q
                   /\ \A k \in 0 .. d - 1 : r[k] = p[k]
      <4> HIDE DEF w, q, d
      <4> DEFINE f == [k \in 0 .. d + 1 |-> IF k = d + 1 THEN w ELSE IF k = d THEN q ELSE p[k]]
      <4>1. \A k \in 0 .. d + 1 : f[k] \in Seq(Token)
        BY <2>4, <3>1, <3>2
      <4>2. f \in [0 .. d + 1 -> Seq(Token)]
        BY <4>1
      <4>3. f[d + 1] = w /\ f[d] = q /\ \A k \in 0 .. d - 1 : f[k] = p[k]
        BY <3>2
      <4> QED BY <4>2, <4>3
    <3>4. ASSUME NEW k \in 1 .. d + 1 PROVE r[k] = Rest(frames'[k], k) \o r[k - 1]
      <4>1. CASE k = d + 1
        <5>1. Rest(frames'[k], k) = within
          <6>1. frames'[k].at = Item /\ frames'[k].next - 1 = 0
            BY <2>8, <4>1
          <6>2. DEPTH - k = n - 1
            BY <2>5, <4>1
          <6> HIDE DEF n
          <6> QED BY <6>1, <6>2 DEF Rest
        <5>2. k - 1 = d
          BY <3>2, <4>1
        <5> HIDE DEF within, q
        <5> QED BY <3>3, <4>1, <5>1, <5>2
      <4>2. CASE k = d
        <5>1. frames'[k].next - 1 = Top.next /\ frames'[k].at = Top.at
          BY <2>3, <2>8, <4>2
        <5>2. Rest(frames'[k], k) = rest
          BY <4>2, <5>1 DEF Rest
        <5>3. k - 1 \in 0 .. d - 1
          BY <3>2, <4>2
        <5> HIDE DEF rest
        <5> QED BY <3>3, <4>2, <5>2, <5>3
      <4>3. CASE k \notin {d, d + 1}
        <5>1. k \in 1 .. d - 1 /\ k \in 1 .. d /\ k \in 0 .. d - 1 /\ k - 1 \in 0 .. d - 1
          BY <3>2, <4>3
        <5>2. frames'[k] = frames[k] /\ p[k] = Rest(frames[k], k) \o p[k - 1]
          BY <2>2, <2>8, <5>1 DEF Pending
        <5> QED BY <3>3, <5>1, <5>2
      <4> QED BY <4>1, <4>2, <4>3
    <3>5. Pending(r)'
      <4>1. ASSUME NEW k \in (1 .. Depth)' PROVE r[k] = Rest(frames[k], k)' \o r[k - 1]
        <5>1. Rest(frames[k], k)' = Rest(frames'[k], k)
          BY <2>7, SameGraph DEF Rest
        <5>2. k \in 1 .. d + 1
          BY <2>8
        <5> QED BY <3>4, <5>1, <5>2
      <4>2. r[0] = <<>>
        <5>1. 0 \in 0 .. d - 1
          BY <3>2
        <5> QED BY <3>2, <3>3, <5>1
      <4> QED BY <2>8, <3>3, <4>1, <4>2 DEF Pending
    <3>6. Unfolded' = out' \o r[Depth']
      <4> DEFINE a == <<token>>
                 o == out
      <4>1. a \in Seq(Token) /\ o \in Seq(Token) /\ out' = o \o a
        BY <1>1, <2>6, <2>7 DEF TypeOK
      <4>2. Unfolded' = o \o ((a \o within) \o q)
        BY <2>2, <2>3, <2>6, <2>7, SameQuestion
      <4>3. o \o ((a \o within) \o q) = (o \o a) \o (within \o q)
        <5> HIDE DEF a, o, within, q
        <5>1. \A x, y, z \in Seq(Token) : (x \o y) \o z = x \o (y \o z)
          BY Regroup
        <5>2. within \o q \in Seq(Token)
          BY <2>4, <2>6
        <5>3. (a \o within) \o q = a \o (within \o q)
          BY <2>4, <2>6, <4>1, <5>1
        <5>4. (o \o a) \o (within \o q) = o \o (a \o (within \o q))
          BY <4>1, <5>1, <5>2
        <5> QED BY <5>3, <5>4
      <4> QED BY <2>8, <3>3, <4>1, <4>2, <4>3
    <3> QED BY <3>5, <3>6
  <2>12. budget'.counts = Size(out')
    <3> HIDE DEF token
    <3> QED BY <1>1, <2>6, <2>7, ChargeIsSize
  <2>13. RefusalsAreTruthful'
    BY <2>7, NoRefusal DEF Errors
  <2> QED BY <2>7, <2>9, <2>10, <2>11, <2>12, <2>13 DEF DocInv
<1> QED BY <1>2, <1>3

(* A leaf that is accepted has no defect. *)
LEMMA LeafIsGood ==
    ASSUME Item \in Leaf, NEW n,
           (IF AtKey THEN StringError(Item, Depth) ELSE LeafError(Item, Depth)) = "none"
    PROVE  Good(Top.at, Top.next, n)
<1> DEFINE obj == Item
           defect == ItemDefect(heap[Top.at], Top.next)
<1>1. obj \notin Addr /\ obj = heap[Top.at].items[Top.next]
  BY ConversionAssumption DEF Item
<1>2. defect = IF obj.kind = "str" THEN IF obj.lone_surrogate THEN "value" ELSE "none"
               ELSE IF AtKey THEN "type" ELSE ScalarDefect(obj)
  BY <1>1 DEF ItemDefect, AtKey
<1>3. ASSUME StringError(obj, Depth) = "none" PROVE obj.kind = "str" /\ ~obj.lone_surrogate
  <2> HIDE DEF obj
  <2> QED BY <1>3 DEF StringError, Utf8Error
<1>4. defect = "none"
  <2>1. CASE AtKey
    BY <1>2, <1>3, <2>1
  <2>2. CASE ~AtKey /\ obj.kind = "str"
    BY <1>2, <1>3, <2>2 DEF LeafError
  <2>3. CASE ~AtKey /\ obj.kind # "str"
    <3>1. ScalarDefect(obj) = "none"
      <4> HIDE DEF obj
      <4>1. LeafError(obj, Depth) = "none"
        BY <2>3 DEF obj
      <4> QED BY <2>3, <4>1 DEF LeafError
    <3> QED BY <1>2, <2>3, <3>1
  <2> QED BY <2>1, <2>2, <2>3
<1> QED BY <1>1, <1>4 DEF Good

(* A leaf that is accepted is the next token. *)
LEMMA LeafKeepsDoc == IInv /\ IInv' /\ DocInv /\ ConvertLeaf => DocInv'
<1> SUFFICES ASSUME IInv, IInv', DocInv, ConvertLeaf PROVE DocInv'
  OBVIOUS
<1> DEFINE error == IF AtKey THEN StringError(Item, Depth) ELSE LeafError(Item, Depth)
<1>1. /\ status = "running" /\ HasItem /\ Item \in Leaf /\ TypeOK /\ BudgetKept
      /\ budget.counts = Size(out) /\ Depth >= 1
  BY DEF ConvertLeaf, IInv, DocInv, TypeOK, Started, Depth
<1>2. CASE error # "none"
  <2>1. /\ error \in {"type", "value", "overflow", "budget"}
        /\ error # "budget" => error \in Defects
        /\ error = "budget" => ~WithinLimits
    BY <1>1, <1>2, LeafRefusal
  <2>2. Fail(error)
    BY <1>2 DEF ConvertLeaf
  <2> HIDE DEF error
  <2>3. error \in Errors
    BY <2>1 DEF Errors
  <2> QED BY <1>1, <2>1, <2>2, <2>3, FailKeepsDoc
<1>3. CASE error = "none"
  <2>1. PICK p : Pending(p) /\ Unfolded = out \o p[Depth]
    BY <1>1 DEF DocInv
  <2> DEFINE n == DEPTH - Depth
             rest == After(Top.at, n)[Top.next] \o <<Ending>>
             q == rest \o p[Depth - 1]
             token == Item
             d == Depth
  <2>2. /\ d \in 1 .. DEPTH /\ n \in 0 .. DEPTH /\ rest \in Seq(Token)
        /\ p[d - 1] \in Seq(Token)
        /\ p[d] = Unfolding[n][token] \o q /\ Top \in Frame
        /\ Top.next \in 1 .. Len(heap[Top.at].items)
    BY <1>1, <2>1, NextComesFirst
  <2>3. q \in Seq(Token)
    <3> HIDE DEF rest
    <3> QED BY <2>2
  <2>4. Unfolding[n][token] = <<token>>
    BY <1>1, <2>2, UnfoldingIs
  <2>5. token \in Token /\ TokenBytes(token) = ScalarBytes(token) /\ TokenNodes(token) = 1
    BY <1>1, TokensWeigh DEF Token
  <2>6. /\ UNCHANGED <<heap, root, budget0, status>> /\ frames' = Advanced
        /\ budget' = Charge(budget, ScalarBytes(token), 1) /\ out' = Append(out, token)
    BY <1>3 DEF ConvertLeaf
  <2>7. /\ Depth' = d
        /\ frames'[d].at = Top.at /\ frames'[d].next = Top.next + 1
        /\ \A k \in 1 .. d - 1 : frames'[k] = frames[k]
    <3>1. Depth' = Len(Advanced)
      BY <2>6 DEF Depth
    <3> QED BY <1>1, <2>6, <3>1, AdvancedIs
  <2>8. d \in Nat \ {0} /\ Top.next \in Nat /\ Len(heap[Top.at].items) \in Nat
    <3>1. heap[Top.at].items \in Seq(Object)
      BY <1>1, <2>2 DEF TypeOK, Cell, Frame
    <3>2. d \in Nat \ {0} /\ Len(heap[Top.at].items) \in Nat
      BY <2>2, <3>1
    <3> QED BY <2>2, <3>2
  <2>9. IsDictRoot' /\ (frames[1].at = root)'
    <3>1. frames'[1].at = frames[1].at
      <4>1. CASE d = 1
        BY <2>7, <4>1 DEF Top
      <4>2. CASE d # 1
        BY <2>2, <2>7, <4>2
      <4> QED BY <4>1, <4>2
    <3> QED BY <1>1, <2>6, <3>1, SameQuestion DEF DocInv
  <2>10. PathGood'
    <3> SUFFICES ASSUME NEW k \in 1 .. d
                 PROVE  /\ frames'[k].next =< Len(heap[frames'[k].at].items) + 1
                        /\ \A i \in 1 .. Settled(k)' : Good(frames'[k].at, i, DEPTH - k)
      BY <2>6, <2>7, SameQuestion DEF PathGood
    <3>1. CASE k = d
      <4>1. Settled(k)' = Top.next
        <5>1. Settled(k)' = frames'[k].next - 1
          BY <2>7, <3>1 DEF Settled
        <5>2. frames'[k].next = Top.next + 1
          BY <2>7, <3>1
        <5> QED BY <2>8, <5>1, <5>2
      <4>2. Settled(k) = Top.next - 1
        BY <3>1 DEF Settled, Top
      <4>3. frames[k].at = Top.at /\ k \in 1 .. Depth
        BY <2>2, <3>1 DEF Top
      <4>4. \A i \in 1 .. Settled(k) : Good(frames[k].at, i, DEPTH - k)
        BY <1>1, <4>3 DEF DocInv, PathGood
      <4>5. frames'[k].at = Top.at /\ frames'[k].next = Top.next + 1
        BY <2>7, <3>1
      <4>6. Top.next + 1 =< Len(heap[Top.at].items) + 1
        BY <2>2, <2>8
      <4>7. Good(Top.at, Top.next, DEPTH - k)
        BY <1>1, <1>3, LeafIsGood
      <4>8. \A i \in 1 .. Top.next : i = Top.next \/ i \in 1 .. Top.next - 1
        BY <2>8
      <4> QED BY <4>1, <4>2, <4>3, <4>4, <4>5, <4>6, <4>7, <4>8
    <3>2. CASE k # d
      <4>1. k \in 1 .. d - 1 /\ k \in 1 .. Depth
        BY <2>2, <3>2
      <4>2. frames'[k] = frames[k]
        BY <2>7, <4>1
      <4>3. Settled(k)' = Settled(k)
        BY <2>7, <3>2, <4>2 DEF Settled
      <4> QED BY <1>1, <4>1, <4>2, <4>3 DEF DocInv, PathGood
    <3> QED BY <3>1, <3>2
  <2>11. \E r : Pending(r)' /\ Unfolded' = out' \o r[Depth']
    <3>1. p \in [0 .. d -> Seq(Token)] /\ p[0] = <<>>
      BY <2>1 DEF Pending
    <3>2. PICK r : /\ r \in [0 .. d -> Seq(Token)] /\ r[d] = q
                   /\ \A k \in 0 .. d - 1 : r[k] = p[k]
      <4> HIDE DEF q, d
      <4> DEFINE f == [k \in 0 .. d |-> IF k = d THEN q ELSE p[k]]
      <4>1. \A k \in 0 .. d : f[k] \in Seq(Token)
        BY <2>3, <3>1
      <4>2. f \in [0 .. d -> Seq(Token)]
        BY <4>1
      <4>3. f[d] = q /\ \A k \in 0 .. d - 1 : f[k] = p[k]
        BY <2>8
      <4> QED BY <4>2, <4>3
    <3>3. ASSUME NEW k \in 1 .. d PROVE r[k] = Rest(frames'[k], k) \o r[k - 1]
      <4>1. CASE k = d
        <5>1. frames'[k].next - 1 = Top.next /\ frames'[k].at = Top.at
          BY <2>7, <2>8, <4>1
        <5>2. Rest(frames'[k], k) = rest
          BY <4>1, <5>1 DEF Rest
        <5>3. k - 1 \in 0 .. d - 1
          BY <2>8, <4>1
        <5> HIDE DEF rest
        <5> QED BY <3>2, <4>1, <5>2, <5>3
      <4>2. CASE k # d
        <5>1. k \in 1 .. d - 1 /\ k \in 0 .. d - 1 /\ k - 1 \in 0 .. d - 1
          BY <2>8, <4>2
        <5>2. frames'[k] = frames[k] /\ p[k] = Rest(frames[k], k) \o p[k - 1]
          BY <2>1, <2>7, <5>1 DEF Pending
        <5> QED BY <3>2, <5>1, <5>2
      <4> QED BY <4>1, <4>2
    <3>4. Pending(r)'
      <4>1. ASSUME NEW k \in (1 .. Depth)' PROVE r[k] = Rest(frames[k], k)' \o r[k - 1]
        <5>1. Rest(frames[k], k)' = Rest(frames'[k], k)
          BY <2>6, SameGraph DEF Rest
        <5>2. k \in 1 .. d
          BY <2>7
        <5> QED BY <3>3, <5>1, <5>2
      <4>2. r[0] = <<>>
        <5>1. 0 \in 0 .. d - 1
          BY <2>8
        <5> QED BY <3>1, <3>2, <5>1
      <4> QED BY <2>7, <3>2, <4>1, <4>2 DEF Pending
    <3>5. Unfolded' = out' \o r[Depth']
      <4> DEFINE a == <<token>>
                 o == out
      <4>1. a \in Seq(Token) /\ o \in Seq(Token) /\ out' = o \o a
        BY <1>1, <2>5, <2>6 DEF TypeOK
      <4>2. Unfolded' = o \o (a \o q)
        BY <2>1, <2>2, <2>4, <2>6, SameQuestion
      <4>3. o \o (a \o q) = (o \o a) \o q
        <5> HIDE DEF a, o, q
        <5>1. \A x, y, z \in Seq(Token) : (x \o y) \o z = x \o (y \o z)
          BY Regroup
        <5> QED BY <2>3, <4>1, <5>1
      <4> QED BY <2>7, <3>2, <4>1, <4>2, <4>3
    <3> QED BY <3>4, <3>5
  <2>12. budget'.counts = Size(out')
    <3> HIDE DEF token
    <3> QED BY <1>1, <2>5, <2>6, ChargeIsSize
  <2>13. status' = "running" /\ RefusalsAreTruthful'
    <3>1. status' = "running"
      BY <1>1, <2>6
    <3> QED BY <3>1, NoRefusal DEF Errors
  <2> QED BY <2>9, <2>10, <2>11, <2>12, <2>13 DEF DocInv
<1> QED BY <1>2, <1>3

(* When nothing is left of a container all its items are good, and so is it. *)
LEMMA EndIsGood ==
    ASSUME IInv, DocInv, status = "running", ~HasItem
    PROVE  /\ Top \in Frame /\ Depth \in 1 .. DEPTH
           /\ Top.next - 1 = Len(heap[Top.at].items)
           /\ Top.at \in Shallow[DEPTH - Depth + 1] /\ CleanFrom(Top.at)
<1>1. /\ frames \in Seq(Frame) /\ Depth \in Nat /\ Depth >= 1 /\ Len(frames) = Depth
      /\ Len(ancestors) = Depth /\ Depth =< DEPTH /\ TypeOK /\ DEPTH \in Nat
  BY BudgetAssumption DEF IInv, TypeOK, Started, Depth, AncestorsAreOpenPath,
                          AncestorsWithinReservation
<1>2. Top \in Frame /\ Depth \in 1 .. Depth
  BY <1>1 DEF Top
<1>3. Top.at \in Addr /\ Top.next \in Nat
  BY <1>2 DEF Frame
<1>4. heap[Top.at].items \in Seq(Object)
  BY <1>1, <1>3 DEF TypeOK, Cell
<1> DEFINE len == Len(heap[Top.at].items)
<1>5. /\ Top.next =< len + 1
      /\ \A i \in 1 .. Settled(Depth) : Good(Top.at, i, DEPTH - Depth)
  BY <1>2 DEF DocInv, PathGood, Top
<1>6. len \in Nat /\ DOMAIN heap[Top.at].items = 1 .. len
  BY <1>4
<1>7. Top.next = len + 1
  <2>1. ~(Top.next =< len)
    BY DEF HasItem
  <2> HIDE DEF len
  <2> QED BY <1>3, <1>5, <1>6, <2>1
<1>8. Settled(Depth) = len
  <2>1. Settled(Depth) = Top.next - 1
    BY DEF Settled, Top
  <2> HIDE DEF len
  <2> QED BY <1>6, <1>7, <2>1
<1> DEFINE n == DEPTH - Depth + 1
<1>9. n \in 1 .. DEPTH /\ n - 1 = DEPTH - Depth
  BY <1>1
<1>10. \A i \in DOMAIN heap[Top.at].items : Good(Top.at, i, n - 1)
  <2> HIDE DEF n, len
  <2> QED BY <1>5, <1>6, <1>8, <1>9
<1>11. Top.at \in Shallow[n] /\ CleanFrom(Top.at)
  <2> HIDE DEF n
  <2> QED BY <1>1, <1>3, <1>9, <1>10, ItemsGood
<1> QED BY <1>1, <1>2, <1>6, <1>7, <1>11

(* A container that ends goes to its caller, whose item it is. *)
LEMMA LeaveKeepsDoc == IInv /\ IInv' /\ DocInv /\ LeaveContainer => DocInv'
<1> SUFFICES ASSUME IInv, IInv', DocInv, LeaveContainer PROVE DocInv'
  OBVIOUS
<1> DEFINE d == Depth
           e == <<Ending>>
<1>1. /\ status = "running" /\ ~HasItem /\ TypeOK /\ budget.counts = Size(out)
      /\ d \in 1 .. DEPTH /\ d \in Nat \ {0} /\ DEPTH \in Nat
  BY BudgetAssumption, EndIsGood DEF LeaveContainer, DocInv, IInv
<1>2. /\ UNCHANGED <<heap, root, budget0, budget>>
      /\ out' = Append(out, Ending) /\ frames' = Front(frames)
      /\ status' \in {"running", "done", "memory"}
      /\ status' = "done" => d = 1
      /\ status' = "running" => d > 1
  BY <1>1 DEF LeaveContainer, Ending
<1>3. /\ Depth' = d - 1
      /\ \A k \in 1 .. d - 1 : frames'[k] = frames[k]
  <2>1. frames \in Seq(Frame) /\ d = Len(frames)
    BY <1>1 DEF TypeOK, Depth
  <2>2. frames' = SubSeq(frames, 1, d - 1)
    BY <1>2, <2>1 DEF Front
  <2>3. d - 1 \in 0 .. Len(frames)
    BY <1>1, <2>1
  <2> HIDE DEF d
  <2>4. Len(frames') = d - 1 /\ \A k \in 1 .. d - 1 : frames'[k] = frames[k]
    BY <1>1, <2>1, <2>2, <2>3
  <2> QED BY <2>4 DEF Depth
<1>4. e \in Seq(Token) /\ out \in Seq(Token) /\ out' = out \o e
  <2>1. Ending \in Token /\ out \in Seq(Token)
    BY <1>1, Tokens DEF TypeOK
  <2> QED BY <1>2, <2>1
<1>5. /\ Top \in Frame /\ Top.next - 1 = Len(heap[Top.at].items)
      /\ Top.at \in Shallow[DEPTH - d + 1] /\ CleanFrom(Top.at)
  BY <1>1, EndIsGood
<1>6. budget'.counts = Size(out')
  <2>1. Size(out') = Plus(Size(out), Size(e).bytes, Size(e).nodes)
    <3> HIDE DEF e
    <3> QED BY <1>4, SizeIs
  <2>2. Size(e).bytes = 0 /\ Size(e).nodes = 0
    <3>1. Ending \in Token
      BY <1>1, Tokens
    <3>2. TokenBytes(Ending) = 0 /\ TokenNodes(Ending) = 0
      BY TokensWeigh DEF Ending
    <3>3. Size(e) = [bytes |-> TokenBytes(Ending), nodes |-> TokenNodes(Ending)]
      BY <3>1, SizeOfFew
    <3> QED BY <3>2, <3>3
  <2>3. Size(out) \in Counts
    BY <1>4, SizeIs
  <2>4. Plus(Size(out), 0, 0) = Size(out)
    <3> DEFINE c == Size(out)
    <3>1. c \in Counts
      BY <2>3
    <3> HIDE DEF c
    <3>2. Plus(c, 0, 0) = c
      BY <3>1 DEF Plus, Counts
    <3> QED BY <3>2 DEF c
  <2>5. budget' = budget
    BY <1>2
  <2> HIDE DEF Size
  <2> QED BY <1>1, <2>1, <2>2, <2>4, <2>5
<1>7. PICK p : Pending(p) /\ Unfolded = out \o p[d]
  BY <1>1 DEF DocInv
<1>8. /\ p \in [0 .. d -> Seq(Token)] /\ p[0] = <<>> /\ p[d - 1] \in Seq(Token)
      /\ Unfolded = out' \o p[d - 1]
  <2>1. p \in [0 .. d -> Seq(Token)] /\ p[0] = <<>> /\ p[d] = Rest(frames[d], d) \o p[d - 1]
    <3>1. d \in 1 .. d
      BY <1>1
    <3> QED BY <1>7, <3>1 DEF Pending
  <2>2. p[d - 1] \in Seq(Token)
    <3> HIDE DEF d
    <3>1. d - 1 \in 0 .. d
      BY <1>1
    <3> QED BY <2>1, <3>1
  <2>3. Rest(frames[d], d) = e
    <3>1. Top.at \in Addr /\ DEPTH - d \in 0 .. DEPTH
      BY <1>1, <1>5 DEF Frame
    <3> DEFINE n == DEPTH - d
    <3> HIDE DEF n
    <3>2. After(Top.at, n)[Len(heap[Top.at].items)] = <<>>
      BY <1>1, <3>1, AfterIs DEF n
    <3>3. Rest(Top, d) = <<>> \o e
      BY <1>5, <3>2 DEF Rest, n
    <3>4. <<>> \o e = e
      <4> HIDE DEF e
      <4> QED BY <1>4, ConcatEmptySeq
    <3> QED BY <3>3, <3>4 DEF Top
  <2>4. Unfolded = out \o (e \o p[d - 1])
    BY <1>7, <2>1, <2>3
  <2> DEFINE o == out
             q == p[d - 1]
  <2>5. o \o (e \o q) = (o \o e) \o q
    <3>1. \A x, y, z \in Seq(Token) : (x \o y) \o z = x \o (y \o z)
      BY Regroup
    <3>2. o \in Seq(Token) /\ e \in Seq(Token) /\ q \in Seq(Token)
      BY <1>4, <2>2
    <3> HIDE DEF o, e, q
    <3> QED BY <3>1, <3>2
  <2> QED BY <1>4, <2>1, <2>2, <2>4, <2>5
<1>9. RefusalsAreTruthful'
  BY <1>2, NoRefusal DEF Errors
<1>10. CASE status' = "memory"
  BY <1>9, <1>10 DEF DocInv
<1>11. CASE status' = "done"
  <2>1. d = 1 /\ DEPTH - d + 1 = DEPTH
    BY <1>1, <1>2, <1>11
  <2>2. Top.at = root /\ IsDictRoot
    BY <1>1, <2>1 DEF DocInv, Top
  <2>3. root \in Shallow[DEPTH] /\ CleanFrom(root)
    BY <1>5, <2>1, <2>2
  <2>4. Unfolded = out'
    <3>1. Unfolded = out' \o <<>>
      <4>1. d - 1 = 0
        BY <2>1
      <4> HIDE DEF d
      <4> QED BY <1>8, <4>1
    <3>2. out' \in Seq(Token)
      BY DEF IInv, TypeOK
    <3> QED BY <3>1, <3>2, ConcatEmptySeq
  <2>5. /\ IsDictRoot' /\ (root \in Shallow[DEPTH])' /\ CleanFrom(root)' /\ Unfolded' = out'
    BY <1>2, <2>2, <2>3, <2>4, SameQuestion
  <2> QED BY <1>6, <1>9, <1>11, <2>5 DEF DocInv
<1>12. CASE status' = "running"
  <2>1. d > 1 /\ d - 1 \in 1 .. d - 1 /\ d - 1 \in 1 .. d /\ 1 \in 1 .. d - 1
    BY <1>1, <1>2, <1>12
  <2>2. IsDictRoot' /\ (frames[1].at = root)'
    <3>1. frames'[1].at = frames[1].at
      BY <1>3, <2>1
    <3> QED BY <1>1, <1>2, <3>1, SameQuestion DEF DocInv
  <2>3. PathGood'
    <3> SUFFICES ASSUME NEW k \in 1 .. d - 1
                 PROVE  /\ frames'[k].next =< Len(heap[frames'[k].at].items) + 1
                        /\ \A i \in 1 .. Settled(k)' : Good(frames'[k].at, i, DEPTH - k)
      BY <1>2, <1>3, SameQuestion DEF PathGood
    <3>1. k \in 1 .. Depth /\ k # d /\ frames'[k] = frames[k] /\ frames[k].next \in Nat
      <4>1. k \in 1 .. Depth /\ k # d /\ frames'[k] = frames[k]
        BY <1>1, <1>3
      <4>2. frames[k] \in Frame
        BY <1>1, <4>1 DEF TypeOK, Depth
      <4> QED BY <4>1, <4>2 DEF Frame
    <3>2. Settled(k) = frames[k].next - 2
      BY <3>1 DEF Settled
    <3>3. /\ frames[k].next =< Len(heap[frames[k].at].items) + 1
          /\ \A i \in 1 .. Settled(k) : Good(frames[k].at, i, DEPTH - k)
      BY <1>1, <3>1 DEF DocInv, PathGood
    <3>4. CASE k = d - 1
      <4>1. Settled(k)' = frames[k].next - 1
        BY <1>3, <3>1, <3>4 DEF Settled
      <4>2. Good(frames[k].at, frames[k].next - 1, DEPTH - k)
        <5>1. heap[frames[k].at].items[frames[k].next - 1] = ancestors[k + 1]
          BY <1>1, <3>1 DEF IInv, AncestorsAreOpenPath
        <5>2. ancestors[k + 1] = frames[k + 1].at /\ k + 1 = Depth
          BY <1>1, <3>4 DEF IInv, AncestorsAreOpenPath
        <5>3. heap[frames[k].at].items[frames[k].next - 1] = Top.at
          BY <5>1, <5>2 DEF Top
        <5>4. Top.at \in Addr /\ DEPTH - k = DEPTH - d + 1
          BY <1>1, <1>5, <3>4 DEF Frame
        <5> QED BY <1>5, <5>3, <5>4 DEF Good, ItemDefect
      <4>3. \A i \in 1 .. frames[k].next - 1 :
               i = frames[k].next - 1 \/ i \in 1 .. frames[k].next - 2
        BY <3>1
      <4> QED BY <3>1, <3>2, <3>3, <4>1, <4>2, <4>3
    <3>5. CASE k # d - 1
      <4>1. Settled(k)' = Settled(k)
        BY <1>3, <3>1, <3>2, <3>5 DEF Settled
      <4> QED BY <3>1, <3>3, <4>1
    <3> QED BY <3>4, <3>5
  <2>4. \E r : Pending(r)' /\ Unfolded' = out' \o r[Depth']
    <3>1. PICK r : r \in [0 .. d - 1 -> Seq(Token)] /\ \A k \in 0 .. d - 1 : r[k] = p[k]
      <4> HIDE DEF d
      <4> DEFINE f == [k \in 0 .. d - 1 |-> p[k]]
      <4>1. \A k \in 0 .. d - 1 : f[k] \in Seq(Token)
        BY <1>1, <1>8
      <4>2. f \in [0 .. d - 1 -> Seq(Token)] /\ \A k \in 0 .. d - 1 : f[k] = p[k]
        BY <4>1
      <4> HIDE DEF f
      <4> QED BY <4>2
    <3>2. Pending(r)'
      <4>1. ASSUME NEW k \in (1 .. Depth)' PROVE r[k] = Rest(frames[k], k)' \o r[k - 1]
        <5>1. k \in 1 .. d - 1 /\ k \in 0 .. d - 1 /\ k - 1 \in 0 .. d - 1 /\ k \in 1 .. Depth
          BY <1>1, <1>3
        <5>2. Rest(frames[k], k)' = Rest(frames'[k], k)
          BY <1>2, SameGraph DEF Rest
        <5>3. frames'[k] = frames[k] /\ p[k] = Rest(frames[k], k) \o p[k - 1]
          BY <1>3, <1>7, <5>1 DEF Pending
        <5> QED BY <3>1, <5>1, <5>2, <5>3
      <4>2. r[0] = <<>>
        <5>1. 0 \in 0 .. d - 1
          BY <1>1
        <5> QED BY <1>8, <3>1, <5>1
      <4> QED BY <1>3, <3>1, <4>1, <4>2 DEF Pending
    <3>3. Unfolded' = out' \o r[Depth']
      <4>1. d - 1 \in 0 .. d - 1
        BY <1>1
      <4>2. Unfolded' = Unfolded
        BY <1>2, SameQuestion
      <4> QED BY <1>3, <1>8, <3>1, <4>1, <4>2
    <3> QED BY <3>2, <3>3
  <2> QED BY <1>6, <1>9, <1>12, <2>2, <2>3, <2>4 DEF DocInv
<1> QED BY <1>2, <1>10, <1>11, <1>12

(* Before document is called nothing is written and nothing is charged. *)
LEMMA InitDoc == Init => DocInv
<1> SUFFICES ASSUME Init PROVE DocInv
  OBVIOUS
<1>1. status = "called" /\ out = <<>> /\ budget.counts = NoCounts
  BY ConversionAssumption DEF Init
<1>2. budget.counts = Size(out)
  BY <1>1, SizeOfFew
<1> QED BY <1>1, <1>2 DEF DocInv, RefusalsAreTruthful

(* Every step of the conversion keeps the invariant of the document. *)
LEMMA NextDoc == IInv /\ IInv' /\ DocInv /\ [Next]_vars => DocInv'
<1> SUFFICES ASSUME IInv, IInv', DocInv, [Next]_vars PROVE DocInv'
  OBVIOUS
<1>1. CASE Document
  BY <1>1, DocumentKeepsDoc
<1>2. CASE ConvertLeaf
  BY <1>2, LeafKeepsDoc
<1>3. CASE LeafAllocationFails
  <2>1. status' = "memory"
    BY <1>3 DEF LeafAllocationFails
  <2>2. RefusalsAreTruthful'
    BY <2>1, NoRefusal
  <2> QED BY <2>1, <2>2 DEF DocInv
<1>4. CASE EnterContainer
  BY <1>4, EnterKeepsDoc
<1>5. CASE LeaveContainer
  BY <1>5, LeaveKeepsDoc
<1>6. CASE UNCHANGED vars
  <2>1. UNCHANGED <<heap, root, budget0, budget, frames, out, status>>
    BY <1>6 DEF vars
  <2>2. /\ RefusalsAreTruthful' = RefusalsAreTruthful
        /\ IsDictRoot' = IsDictRoot /\ Shallow' = Shallow /\ Unfolded' = Unfolded
        /\ CleanFrom(root)' = CleanFrom(root)
    BY <2>1, SameQuestion DEF RefusalsAreTruthful
  <2>3. PathGood' = PathGood
    <3>1. Depth' = Depth /\ \A k : Settled(k)' = Settled(k)
      BY <2>1 DEF Depth, Settled
    <3> QED BY <2>1, <3>1, SameQuestion DEF PathGood
  <2>4. \A p : Pending(p)' = Pending(p)
    BY <2>1, SameQuestion DEF Pending, Depth
  <2>5. Depth' = Depth /\ Size(out)' = Size(out)
    BY <2>1 DEF Depth
  <2> QED BY <2>1, <2>2, <2>3, <2>4, <2>5 DEF DocInv
<1> QED BY <1>1, <1>2, <1>3, <1>4, <1>5, <1>6 DEF Next

(* The invariant of the document holds in every state a conversion reaches. *)
THEOREM DocInvariance == Spec => []DocInv
<1>1. Init => DocInv
  BY InitDoc
<1>2. IInv /\ IInv' /\ DocInv /\ [Next]_vars => DocInv'
  BY NextDoc
<1>3. Spec => []IInv
  BY Invariance
<1> QED BY <1>1, <1>2, <1>3, PTL DEF Spec

(* A document that is done passed every test, and a refused one fails one.  *)
LEMMA DocIsAdmission == IInv /\ DocInv => AcceptsExactlyAdmissible
<1> SUFFICES ASSUME IInv, DocInv PROVE AcceptsExactlyAdmissible
  OBVIOUS
<1>1. ASSUME status = "done" PROVE Admissible
  <2>1. /\ IsDictRoot /\ root \in Shallow[DEPTH] /\ CleanFrom(root)
        /\ budget.counts = Size(Unfolded)
    BY <1>1 DEF DocInv
  <2>2. ~Cyclic
    BY <2>1, ShallowHasNoCycle
  <2>3. Defects \subseteq {"none"}
    BY <2>1 DEF Defects, Reached, CleanFrom, IsDictRoot
  <2>4. WithinLimits
    <3>1. /\ CountsWithin(budget.counts, budget0.byte_limit)
          /\ \A c \in budget.combined : CountsWithin(c, REQUEST_BYTES)
          /\ \A t \in budget0.combined :
                Plus(t, budget.counts.bytes, budget.counts.nodes) \in budget.combined
      BY DEF IInv, BudgetKept, BudgetWithin, DomainsAgree
    <3> HIDE DEF Size, Unfolded
    <3> QED BY <2>1, <3>1 DEF WithinLimits
  <2> QED BY <2>1, <2>2, <2>3, <2>4 DEF Admissible
<1>2. ASSUME status \in Errors \ {"memory"} PROVE ~Admissible
  BY <1>2 DEF DocInv, RefusalsAreTruthful, Errors, Admissible
<1> QED BY <1>1, <1>2 DEF AcceptsExactlyAdmissible

-------------------------------------------------------------------------------
allvars == <<vars, vvars>>

(* A value's life is a conversion, and steps that leave the conversion be.  *)
LEMMA StepOfConversion == [VNext]_allvars => [Next]_vars
<1> SUFFICES ASSUME [VNext]_allvars PROVE [Next]_vars
  OBVIOUS
<1>1. CASE Next
  BY <1>1
<1>2. CASE Load
  BY <1>2 DEF Load
<1>3. ASSUME NEW v \in Views, ToDict(v) PROVE UNCHANGED vars
  BY <1>3 DEF ToDict
<1>4. ASSUME NEW f \in {"core", "export"}, RenderFails(f) PROVE UNCHANGED vars
  BY <1>4 DEF RenderFails
<1>5. CASE ToJson \/ ToText \/ Assign
  BY <1>5 DEF ToJson, ToText, Assign
<1>6. CASE ExportLeaf \/ ExportOpen \/ ExportClose
  BY <1>6 DEF ExportLeaf, ExportOpen, ExportClose
<1>7. ASSUME NEW f \in {"MemoryError", "exception"}, ExportFails(f) PROVE UNCHANGED vars
  BY <1>7 DEF ExportFails
<1>8. CASE Write \/ ReservationFails \/ SerializerFails \/ EncodeFails \/ Encoded
  BY <1>8 DEF Write, ReservationFails, SerializerFails, EncodeFails, Encoded
<1>9. ASSUME NEW r \in DOMAIN results, NEW i \in DOMAIN objects, Change(r, i) PROVE UNCHANGED vars
  BY <1>9 DEF Change
<1>10. CASE UNCHANGED allvars
  BY <1>10 DEF allvars
<1> QED BY <1>1, <1>2, <1>3, <1>4, <1>5, <1>6, <1>7, <1>8, <1>9, <1>10 DEF VNext

(* Whatever is proved of a conversion holds of the one a value is made by:  *)
(* the operations of a value never touch it.                                *)
THEOREM ValueRefinesConversion == VSpec => Spec
<1>1. VInit => Init
  BY DEF VInit
<1>2. [VNext]_allvars => [Next]_vars
  BY StepOfConversion
<1> QED BY <1>1, <1>2, PTL DEF VSpec, Spec, allvars

-------------------------------------------------------------------------------
(* The shape of what exports make.                                          *)
Thing == Leaf \cup [kind : {"ref"}, at : Nat] \cup {[kind |-> "changed"]}

Made == [kind : {"list", "dict"}, items : Seq(Thing)]

Result == [root : Nat, of : Seq(Token), touched : BOOLEAN]

VTypes ==
    /\ value \in Seq(Token) /\ view \in Seq(Token) /\ bytes \in Seq(Token)
    /\ next \in Nat \ {0}
    /\ objects \in Seq(Made)
    /\ results \in Seq(Result)
    /\ filling \in Seq(Nat)

(* The containers up to Base were there before the open export. *)
Base == IF filling = <<>> THEN Len(objects) ELSE filling[1] - 1

Stack == \A a \in 1 .. Len(filling) :
            /\ filling[a] \in 1 .. Len(objects)
            /\ \A b \in 1 .. Len(filling) : a < b => filling[a] < filling[b]

(* No open container is held yet, and what was there before the export does *)
(* not hold what it makes.                                                  *)
Refs ==
    /\ \A r \in DOMAIN results : results[r].root \in 1 .. Base
    /\ \A j \in DOMAIN objects : \A k \in DOMAIN objects[j].items :
          IsRef(objects[j].items[k]) =>
             /\ objects[j].items[k].at \in 1 .. Len(objects)
             /\ \A a \in 1 .. Len(filling) : objects[j].items[k].at # filling[a]
             /\ j =< Base => objects[j].items[k].at =< Base

Shape == VTypes /\ Stack /\ Refs /\ NothingShared

(* A leaf refers to nothing. *)
LEMMA LeafIsNoRef == \A x \in Leaf : ~IsRef(x) /\ x \in Thing
<1> SUFFICES ASSUME NEW x \in Leaf PROVE ~IsRef(x)
  BY DEF Thing
<1>1. x \in Text \/ x \in Scalar
  BY ConversionAssumption
<1> QED BY <1>1 DEF Text, Scalar, IsRef

(* A reference is known by what it refers to. *)
LEMMA RefIs ==
    ASSUME NEW x \in Thing, IsRef(x)
    PROVE  x.at \in Nat /\ x = Ref(x.at)
<1>1. x \in [kind : {"ref"}, at : Nat]
  BY LeafIsNoRef DEF Thing, IsRef
<1> QED BY <1>1 DEF Ref

(* Ref makes references. *)
LEMMA RefIsThing ==
    ASSUME NEW i \in Nat
    PROVE  Ref(i) \in Thing /\ IsRef(Ref(i)) /\ Ref(i).at = i
  BY DEF Ref, IsRef, Thing

(* The elements of what was made. *)
LEMMA Elements ==
    ASSUME VTypes
    PROVE  /\ \A j \in DOMAIN objects :
                 /\ objects[j] \in Made /\ objects[j].items \in Seq(Thing)
                 /\ \A k \in DOMAIN objects[j].items : objects[j].items[k] \in Thing
           /\ \A r \in DOMAIN results : results[r] \in Result
           /\ DOMAIN objects = 1 .. Len(objects) /\ Len(objects) \in Nat
           /\ DOMAIN filling = 1 .. Len(filling) /\ Len(filling) \in Nat
           /\ DOMAIN results = 1 .. Len(results) /\ Len(results) \in Nat
<1>1. /\ \A j \in DOMAIN objects : objects[j] \in Made
      /\ \A r \in DOMAIN results : results[r] \in Result
  BY DEF VTypes
<1>2. \A j \in DOMAIN objects : objects[j].items \in Seq(Thing)
  BY <1>1 DEF Made
<1>3. \A j \in DOMAIN objects : \A k \in DOMAIN objects[j].items : objects[j].items[k] \in Thing
  BY <1>2
<1> QED BY <1>1, <1>2, <1>3 DEF VTypes

(* A container with one item more. *)
LEMMA PutIs ==
    ASSUME VTypes, NEW i \in DOMAIN objects, NEW x \in Thing, Put(i, x)
    PROVE  /\ objects' \in Seq(Made) /\ Len(objects') = Len(objects)
           /\ \A j \in DOMAIN objects : j # i => objects'[j] = objects[j]
           /\ objects'[i].items \in Seq(Thing)
           /\ Len(objects'[i].items) = Len(objects[i].items) + 1
           /\ \A k \in DOMAIN objects[i].items : objects'[i].items[k] = objects[i].items[k]
           /\ objects'[i].items[Len(objects[i].items) + 1] = x
<1> DEFINE old == objects[i].items
<1>1. objects[i] \in Made /\ old \in Seq(Thing)
  BY Elements
<1> DEFINE new == [objects[i] EXCEPT !.items = Append(old, x)]
<1>2. objects' = [objects EXCEPT ![i] = new]
  BY DEF Put
<1>3. /\ Append(old, x) \in Seq(Thing) /\ Len(Append(old, x)) = Len(old) + 1
      /\ \A k \in DOMAIN old : Append(old, x)[k] = old[k]
      /\ Append(old, x)[Len(old) + 1] = x
  BY <1>1
<1>4. new \in Made /\ new.items = Append(old, x)
  BY <1>1, <1>3 DEF Made
<1> HIDE DEF new, old
<1>5. objects \in Seq(Made)
  BY DEF VTypes
<1>6. /\ objects' \in Seq(Made) /\ Len(objects') = Len(objects) /\ objects'[i] = new
      /\ \A j \in DOMAIN objects : j # i => objects'[j] = objects[j]
  BY <1>2, <1>4, <1>5
<1> QED BY <1>3, <1>4, <1>6 DEF old

(* No reference where there was none, and the same results. *)
NoNewRef ==
    \A j \in DOMAIN objects' : \A k \in DOMAIN objects'[j].items :
       IsRef(objects'[j].items[k]) =>
          /\ j \in DOMAIN objects /\ k \in DOMAIN objects[j].items
          /\ objects'[j].items[k] = objects[j].items[k]

SameRoots ==
    /\ DOMAIN results' = DOMAIN results
    /\ \A r \in DOMAIN results : results'[r].root = results[r].root

(* Without new references nothing becomes shared. *)
LEMMA FewerRefs ==
    ASSUME VTypes, VTypes', NothingShared, NoNewRef, SameRoots
    PROVE  NothingShared'
<1>1. \A r, s \in DOMAIN results' : results'[r].root = results'[s].root => r = s
  BY DEF SameRoots, NothingShared
<1>2. ASSUME NEW i \in DOMAIN objects', NEW j \in DOMAIN objects',
             NEW k \in DOMAIN objects'[i].items, NEW m \in DOMAIN objects'[j].items,
             IsRef(objects'[i].items[k]), objects'[i].items[k] = objects'[j].items[m]
      PROVE  i = j /\ k = m
  <2>1. IsRef(objects'[j].items[m])
    BY <1>2
  <2>2. /\ i \in DOMAIN objects /\ k \in DOMAIN objects[i].items
        /\ objects'[i].items[k] = objects[i].items[k]
    BY <1>2 DEF NoNewRef
  <2>3. /\ j \in DOMAIN objects /\ m \in DOMAIN objects[j].items
        /\ objects'[j].items[m] = objects[j].items[m]
    BY <2>1 DEF NoNewRef
  <2>4. IsRef(objects[i].items[k]) /\ objects[i].items[k] = objects[j].items[m]
    BY <1>2, <2>2, <2>3
  <2> QED BY <2>2, <2>3, <2>4 DEF NothingShared
<1>3. ASSUME NEW r \in DOMAIN results', NEW j \in DOMAIN objects',
             NEW k \in DOMAIN objects'[j].items, objects'[j].items[k] = Ref(results'[r].root)
      PROVE  FALSE
  <2>1. r \in DOMAIN results /\ results'[r].root = results[r].root
    BY DEF SameRoots
  <2>2. results[r].root \in Nat
    BY <2>1, Elements DEF Result
  <2>3. IsRef(objects'[j].items[k])
    BY <1>3, <2>1, <2>2, RefIsThing
  <2>4. /\ j \in DOMAIN objects /\ k \in DOMAIN objects[j].items
        /\ objects'[j].items[k] = objects[j].items[k]
    BY <2>3 DEF NoNewRef
  <2> QED BY <1>3, <2>1, <2>4 DEF NothingShared
<1> QED BY <1>1, <1>2, <1>3 DEF NothingShared

(* A call begins or ends, or nothing is done to what exports made. *)
LEMMA QuietStep ==
    ASSUME Shape, VTypes', UNCHANGED <<objects, results>>,
           filling' = filling \/ filling' = <<>>
    PROVE  Shape'
<1> USE Elements DEF Shape
<1>1. NoNewRef /\ SameRoots
  BY DEF NoNewRef, SameRoots
<1>2. NothingShared'
  BY <1>1, FewerRefs
<1>3. CASE filling' = filling
  BY <1>2, <1>3 DEF Stack, Refs, Base
<1>4. CASE filling' = <<>>
  <2>1. Stack'
    BY <1>4 DEF Stack
  <2>2. Base' = Len(objects) /\ Base =< Len(objects) /\ Base \in Int
    BY <1>4 DEF Base, Stack, VTypes
  <2>3. Refs'
    BY <1>4, <2>2 DEF Refs
  <2> QED BY <1>2, <2>1, <2>3
<1> QED BY <1>3, <1>4

(* An item that is no reference adds none. *)
LEMMA PlainPut ==
    ASSUME VTypes, NEW i \in DOMAIN objects, NEW x \in Thing, ~IsRef(x), Put(i, x)
    PROVE  NoNewRef
<1> USE Elements
<1>1. /\ objects' \in Seq(Made) /\ Len(objects') = Len(objects)
      /\ \A j \in DOMAIN objects : j # i => objects'[j] = objects[j]
      /\ objects'[i].items \in Seq(Thing)
      /\ Len(objects'[i].items) = Len(objects[i].items) + 1
      /\ \A k \in DOMAIN objects[i].items : objects'[i].items[k] = objects[i].items[k]
      /\ objects'[i].items[Len(objects[i].items) + 1] = x
  BY PutIs
<1>2. DOMAIN objects' = DOMAIN objects
  BY <1>1
<1>3. objects[i].items \in Seq(Thing)
  BY DEF VTypes, Made
<1>4. \A k \in DOMAIN objects'[i].items :
         k \in DOMAIN objects[i].items \/ k = Len(objects[i].items) + 1
  BY <1>1, <1>3
<1>5. SUFFICES ASSUME NEW j \in DOMAIN objects, NEW k \in DOMAIN objects'[j].items,
                      IsRef(objects'[j].items[k])
               PROVE  /\ k \in DOMAIN objects[j].items
                      /\ objects'[j].items[k] = objects[j].items[k]
  BY <1>2 DEF NoNewRef
<1>6. CASE j # i
  BY <1>1, <1>5, <1>6
<1>7. CASE j = i
  BY <1>1, <1>4, <1>5, <1>7
<1> QED BY <1>6, <1>7

(* A container gets an item that is no reference. *)
LEMMA PlainStep ==
    ASSUME Shape, VTypes', NEW i \in DOMAIN objects, NEW x \in Thing, ~IsRef(x), Put(i, x),
           SameRoots, filling' = filling
    PROVE  Shape'
<1> USE Elements DEF Shape
<1>1. /\ objects' \in Seq(Made) /\ Len(objects') = Len(objects)
      /\ \A j \in DOMAIN objects : j # i => objects'[j] = objects[j]
  BY PutIs
<1>5. NoNewRef
  BY PlainPut
<1>6. NothingShared'
  BY <1>5, FewerRefs
<1>7. Base' = Base
  BY <1>1 DEF Base
<1>8. Stack'
  BY <1>1 DEF Stack
<1>9. Refs'
  <2>1. \A r \in DOMAIN results' : results'[r].root \in 1 .. Base'
    BY <1>7 DEF Refs, SameRoots
  <2>2. ASSUME NEW j \in DOMAIN objects', NEW k \in DOMAIN objects'[j].items,
               IsRef(objects'[j].items[k])
        PROVE  /\ objects'[j].items[k].at \in 1 .. Len(objects')
               /\ \A a \in 1 .. Len(filling') : objects'[j].items[k].at # filling'[a]
               /\ j =< Base' => objects'[j].items[k].at =< Base'
    <3>1. /\ j \in DOMAIN objects /\ k \in DOMAIN objects[j].items
          /\ objects'[j].items[k] = objects[j].items[k]
      BY <1>5, <2>2 DEF NoNewRef
    <3> QED BY <1>1, <1>7, <2>2, <3>1 DEF Refs
  <2> QED BY <2>1, <2>2 DEF Refs
<1> QED BY <1>6, <1>8, <1>9

(* A new container: it holds nothing and nothing holds it. *)
LEMMA OpenStep ==
    ASSUME Shape, VTypes', NEW c, c.items = <<>>, objects' = Append(objects, c),
           filling' = Append(filling, Len(objects) + 1), results' = results
    PROVE  Shape'
<1> USE Elements DEF Shape
<1> DEFINE n == Len(objects)
<1>1. /\ Len(objects') = n + 1 /\ DOMAIN objects' = 1 .. n + 1
      /\ \A j \in 1 .. n : objects'[j] = objects[j]
      /\ objects'[n + 1] = c
  OBVIOUS
<1>2. /\ Len(filling') = Len(filling) + 1 /\ filling'[Len(filling) + 1] = n + 1
      /\ \A a \in 1 .. Len(filling) : filling'[a] = filling[a]
  BY DEF VTypes
<1>3. NoNewRef /\ SameRoots
  BY <1>1 DEF NoNewRef, SameRoots
<1>4. NothingShared'
  BY <1>3, FewerRefs
<1>5. Base' = Base
  BY <1>2 DEF Base
<1>6. Stack'
  BY <1>1, <1>2 DEF Stack
<1>7. Refs'
  <2>1. \A r \in DOMAIN results' : results'[r].root \in 1 .. Base'
    BY <1>5 DEF Refs
  <2>2. ASSUME NEW j \in DOMAIN objects', NEW k \in DOMAIN objects'[j].items,
               IsRef(objects'[j].items[k])
        PROVE  /\ objects'[j].items[k].at \in 1 .. Len(objects')
               /\ \A a \in 1 .. Len(filling') : objects'[j].items[k].at # filling'[a]
               /\ j =< Base' => objects'[j].items[k].at =< Base'
    <3>1. /\ j \in DOMAIN objects /\ k \in DOMAIN objects[j].items
          /\ objects'[j].items[k] = objects[j].items[k]
      BY <1>3, <2>2 DEF NoNewRef
    <3>2. /\ objects[j].items[k].at \in 1 .. n
          /\ \A a \in 1 .. Len(filling) : objects[j].items[k].at # filling[a]
          /\ j =< Base => objects[j].items[k].at =< Base
      BY <2>2, <3>1 DEF Refs
    <3>3. \A a \in 1 .. Len(filling') : a \in 1 .. Len(filling) \/ a = Len(filling) + 1
      BY <1>2
    <3> QED BY <1>1, <1>2, <1>5, <3>1, <3>2, <3>3
  <2> QED BY <2>1, <2>2 DEF Refs
<1> QED BY <1>4, <1>6, <1>7

(* The export fails: what it made is gone, and nobody held it. *)
LEMMA DropStep ==
    ASSUME Shape, VTypes', filling # <<>>, Base \in 0 .. Len(objects), Len(objects') = Base,
           \A j \in 1 .. Base : objects'[j] = objects[j], filling' = <<>>, results' = results
    PROVE  Shape'
<1> USE Elements DEF Shape
<1>2. DOMAIN objects' = 1 .. Base
  BY DEF VTypes
<1>4. \A j \in 1 .. Base : j \in DOMAIN objects /\ objects'[j] = objects[j]
  OBVIOUS
<1>5. NoNewRef /\ SameRoots
  BY <1>2, <1>4 DEF NoNewRef, SameRoots
<1>6. NothingShared'
  BY <1>5, FewerRefs
<1>7. Base' = Base
  BY <1>4 DEF Base
<1>8. Stack'
  BY DEF Stack
<1>9. Refs'
  <2>1. \A r \in DOMAIN results' : results'[r].root \in 1 .. Base'
    BY <1>7 DEF Refs
  <2>2. ASSUME NEW j \in DOMAIN objects', NEW k \in DOMAIN objects'[j].items,
               IsRef(objects'[j].items[k])
        PROVE  /\ objects'[j].items[k].at \in 1 .. Len(objects')
               /\ \A a \in 1 .. Len(filling') : objects'[j].items[k].at # filling'[a]
               /\ j =< Base' => objects'[j].items[k].at =< Base'
    <3>1. /\ j \in DOMAIN objects /\ k \in DOMAIN objects[j].items /\ j =< Base
          /\ objects'[j].items[k] = objects[j].items[k]
      BY <1>2, <1>4
    <3>2. objects[j].items[k].at \in 1 .. Len(objects) /\ objects[j].items[k].at =< Base
      BY <2>2, <3>1 DEF Refs
    <3>3. Len(filling') = 0
      OBVIOUS
    <3> QED BY <1>2, <1>4, <1>7, <3>1, <3>2, <3>3
  <2> QED BY <2>1, <2>2 DEF Refs
<1> QED BY <1>6, <1>8, <1>9

(* The last container open becomes a result. *)
LEMMA ResultStep ==
    ASSUME Shape, VTypes', filling # <<>>, Len(filling) =< 1, NEW r0, r0.root = Inner,
           results' = Append(results, r0), filling' = <<>>, objects' = objects
    PROVE  Shape'
<1> USE Elements DEF Shape
<1> DEFINE top == filling[1]
           n == Len(results)
<1>1. Inner = top /\ Len(filling) = 1 /\ top \in 1 .. Len(objects) /\ Base = top - 1
  <2>1. Len(filling) = 1
    BY DEF VTypes
  <2> QED BY <2>1 DEF Inner, Stack, Base
<1>2. /\ DOMAIN results' = 1 .. n + 1 /\ results'[n + 1] = r0
      /\ \A r \in 1 .. n : results'[r] = results[r]
  OBVIOUS
<1>3. \A r \in 1 .. n : results[r].root # top
  BY <1>1 DEF Refs
<1>4. \A j \in DOMAIN objects : \A k \in DOMAIN objects[j].items : objects[j].items[k] # Ref(top)
  <2>1. SUFFICES ASSUME NEW j \in DOMAIN objects, NEW k \in DOMAIN objects[j].items,
                        objects[j].items[k] = Ref(top)
                 PROVE  FALSE
    OBVIOUS
  <2>2. IsRef(objects[j].items[k]) /\ objects[j].items[k].at = top
    BY <1>1, <2>1, RefIsThing
  <2> QED BY <1>1, <2>2 DEF Refs
<1>5. NothingShared'
  <2>1. \A r, s \in DOMAIN results' : results'[r].root = results'[s].root => r = s
    BY <1>1, <1>2, <1>3 DEF NothingShared
  <2>2. \A r \in DOMAIN results' : \/ results'[r].root = top
                                   \/ r \in DOMAIN results /\ results'[r] = results[r]
    BY <1>1, <1>2
  <2> QED BY <1>4, <2>1, <2>2 DEF NothingShared
<1>6. Stack'
  BY DEF Stack
<1>7. Base' = Len(objects)
  BY DEF Base
<1>8. Refs'
  <2>1. \A r \in DOMAIN results' : results'[r].root \in 1 .. Base'
    BY <1>1, <1>2, <1>7 DEF Refs
  <2> QED BY <1>7, <2>1 DEF Refs
<1> QED BY <1>5, <1>6, <1>8

(* A container ends and goes to the one it is an item of. *)
LEMMA HoldStep ==
    ASSUME Shape, VTypes', NEW p \in DOMAIN objects, NEW top \in DOMAIN objects,
           Len(filling) > 1, top = filling[Len(filling)], p = filling[Len(filling) - 1],
           Put(p, Ref(top)), results' = results, Len(filling') = Len(filling) - 1,
           \A a \in 1 .. Len(filling) - 1 : filling'[a] = filling[a]
    PROVE  Shape'
<1> USE Elements DEF Shape
<1> DEFINE last == Len(objects[p].items) + 1
<1>0. top \in Nat /\ Ref(top) \in Thing /\ IsRef(Ref(top)) /\ Ref(top).at = top
  BY RefIsThing
<1>1. /\ objects' \in Seq(Made) /\ Len(objects') = Len(objects)
      /\ \A j \in DOMAIN objects : j # p => objects'[j] = objects[j]
      /\ objects'[p].items \in Seq(Thing)
      /\ Len(objects'[p].items) = Len(objects[p].items) + 1
      /\ \A k \in DOMAIN objects[p].items : objects'[p].items[k] = objects[p].items[k]
      /\ objects'[p].items[last] = Ref(top)
  BY <1>0, PutIs
<1>2. objects[p].items \in Seq(Thing) /\ last \in Nat /\ last \notin DOMAIN objects[p].items
  <2>1. objects[p].items \in Seq(Thing)
    OBVIOUS
  <2> QED BY <2>1
<1>3. DOMAIN objects' = DOMAIN objects
  BY <1>1
<1> HIDE DEF last
<1>4. \A j \in DOMAIN objects : \A k \in DOMAIN objects'[j].items :
         \/ k \in DOMAIN objects[j].items /\ objects'[j].items[k] = objects[j].items[k]
         \/ j = p /\ k = last /\ objects'[j].items[k] = Ref(top)
  <2>1. SUFFICES ASSUME NEW j \in DOMAIN objects, NEW k \in DOMAIN objects'[j].items
                 PROVE  \/ k \in DOMAIN objects[j].items /\ objects'[j].items[k] = objects[j].items[k]
                        \/ j = p /\ k = last /\ objects'[j].items[k] = Ref(top)
    OBVIOUS
  <2>2. CASE j # p
    BY <1>1, <2>2
  <2>3. CASE j = p
    <3>1. k \in DOMAIN objects[p].items \/ k = last
      <4> DEFINE before == objects[p].items
                 after == objects'[p].items
      <4>1. /\ before \in Seq(Thing) /\ after \in Seq(Thing)
            /\ Len(after) = Len(before) + 1 /\ k \in DOMAIN after
        BY <1>1, <1>2, <2>3
      <4> HIDE DEF before, after
      <4>2. Len(before) \in Nat /\ k \in 1 .. Len(before) + 1 /\ DOMAIN before = 1 .. Len(before)
        BY <4>1
      <4>3. k \in DOMAIN before \/ k = Len(before) + 1
        BY <4>2
      <4> QED BY <4>3 DEF before, last
    <3>2. CASE k \in DOMAIN objects[p].items
      <4>1. objects'[p].items[k] = objects[p].items[k]
        BY <1>1, <3>2
      <4> QED BY <2>3, <3>2, <4>1
    <3>3. CASE k = last
      BY <1>1, <2>3, <3>3
    <3> QED BY <3>1, <3>2, <3>3
  <2> QED BY <2>2, <2>3
(* Nothing held the container that ends. *)
<1>5. \A j \in DOMAIN objects : \A k \in DOMAIN objects[j].items : objects[j].items[k] # Ref(top)
  <2>1. SUFFICES ASSUME NEW j \in DOMAIN objects, NEW k \in DOMAIN objects[j].items,
                        objects[j].items[k] = Ref(top)
                 PROVE  FALSE
    OBVIOUS
  <2>2. IsRef(objects[j].items[k]) /\ objects[j].items[k].at = top
    BY <1>0, <2>1
  <2> QED BY <2>2 DEF Refs
<1>6. /\ Base \in Nat /\ Base < p /\ p < top /\ filling[1] \in 1 .. Len(objects)
      /\ \A r \in DOMAIN results : results[r].root =< Base
  <2>1. Len(filling) \in Nat /\ Len(filling) - 1 \in 1 .. Len(filling) /\ 1 \in 1 .. Len(filling)
    OBVIOUS
  <2>2. p < top /\ filling[1] =< p /\ filling[1] \in 1 .. Len(objects)
    BY <2>1 DEF Stack
  <2>3. filling # <<>>
    BY <2>1
  <2>4. Base = filling[1] - 1
    BY <2>3 DEF Base
  <2>5. \A r \in DOMAIN results : results[r].root =< Base
    BY <2>2, <2>4 DEF Refs
  <2> QED BY <2>2, <2>4, <2>5
<1>7. \A r \in DOMAIN results : results[r].root \in Nat /\ Ref(results[r].root) # Ref(top)
  <2>1. SUFFICES ASSUME NEW r \in DOMAIN results
                 PROVE  results[r].root \in Nat /\ Ref(results[r].root) # Ref(top)
    OBVIOUS
  <2>2. results[r].root \in Nat /\ results[r].root # top
    BY <1>0, <1>6 DEF Result
  <2> QED BY <1>0, <2>2, RefIsThing
<1>8. NothingShared'
  <2>1. \A r, s \in DOMAIN results' : results'[r].root = results'[s].root => r = s
    BY DEF NothingShared
  <2>2. ASSUME NEW i \in DOMAIN objects, NEW j \in DOMAIN objects,
               NEW k \in DOMAIN objects'[i].items, NEW m \in DOMAIN objects'[j].items,
               IsRef(objects'[i].items[k]), objects'[i].items[k] = objects'[j].items[m]
        PROVE  i = j /\ k = m
    <3>1. CASE objects'[i].items[k] = Ref(top)
      <4>1. i = p /\ k = last
        BY <1>4, <1>5, <3>1
      <4>2. objects'[j].items[m] = Ref(top)
        BY <2>2, <3>1
      <4>3. j = p /\ m = last
        BY <1>4, <1>5, <4>2
      <4> QED BY <4>1, <4>3
    <3>2. CASE objects'[i].items[k] # Ref(top)
      <4>1. k \in DOMAIN objects[i].items /\ objects'[i].items[k] = objects[i].items[k]
        BY <1>4, <3>2
      <4>2. m \in DOMAIN objects[j].items /\ objects'[j].items[m] = objects[j].items[m]
        BY <1>4, <2>2, <3>2
      <4>3. IsRef(objects[i].items[k]) /\ objects[i].items[k] = objects[j].items[m]
        BY <2>2, <4>1, <4>2
      <4> QED BY <4>1, <4>2, <4>3 DEF NothingShared
    <3> QED BY <3>1, <3>2
  <2>3. \A r \in DOMAIN results, j \in DOMAIN objects :
           \A k \in DOMAIN objects'[j].items : objects'[j].items[k] # Ref(results[r].root)
    BY <1>4, <1>7 DEF NothingShared
  <2> QED BY <1>3, <2>1, <2>2, <2>3 DEF NothingShared
<1>9. Base' = Base
  <2>1. Len(filling) \in Nat /\ filling # <<>> /\ filling' # <<>> /\ 1 \in 1 .. Len(filling) - 1
    OBVIOUS
  <2> QED BY <2>1 DEF Base
<1>10. Stack'
  <2>1. Len(filling) \in Nat /\ \A a \in 1 .. Len(filling') : a \in 1 .. Len(filling) /\ filling'[a] = filling[a]
    OBVIOUS
  <2> QED BY <1>1, <2>1 DEF Stack
<1>11. Refs'
  <2>1. \A r \in DOMAIN results' : results'[r].root \in 1 .. Base'
    BY <1>9 DEF Refs
  <2>2. ASSUME NEW j \in DOMAIN objects', NEW k \in DOMAIN objects'[j].items,
               IsRef(objects'[j].items[k])
        PROVE  /\ objects'[j].items[k].at \in 1 .. Len(objects')
               /\ \A a \in 1 .. Len(filling') : objects'[j].items[k].at # filling'[a]
               /\ j =< Base' => objects'[j].items[k].at =< Base'
    <3>1. CASE k \in DOMAIN objects[j].items /\ objects'[j].items[k] = objects[j].items[k]
      BY <1>1, <1>3, <1>9, <2>2, <3>1 DEF Refs
    <3>2. CASE j = p /\ objects'[j].items[k] = Ref(top)
      <4>1. objects'[j].items[k].at = top
        BY <1>0, <3>2
      <4>2. \A a \in 1 .. Len(filling') : filling'[a] # top
        BY DEF Stack
      <4> QED BY <1>1, <1>6, <1>9, <3>2, <4>1, <4>2
    <3> QED BY <1>3, <1>4, <3>1, <3>2
  <2> QED BY <2>1, <2>2 DEF Refs
<1> QED BY <1>8, <1>10, <1>11

-------------------------------------------------------------------------------
(* The call that is open, and what it answers. *)
Calls ==
    /\ pc \in {"unloaded", "idle", "export", "encode", "unwritten"}
    /\ pc # "unloaded" => status = "done"
    /\ pc \in {"export", "encode", "unwritten"} => answer = "none"
    /\ pc \in {"export", "encode"} => cause = "none"
    /\ pc = "encode" => allocation_failed = FALSE
    /\ pc = "unwritten" =>
          \/ cause = "reservation" /\ allocation_failed = TRUE
          \/ cause = "serializer" /\ allocation_failed = FALSE

VInv == Shape /\ Calls /\ ValueNeverChanges /\ AnswersAreTruthful

(* A part of a document is a document. *)
LEMMA ViewsAreDocuments == VTypes => Views \subseteq Seq(Token)
<1> SUFFICES ASSUME VTypes, NEW v \in Views PROVE v \in Seq(Token)
  OBVIOUS
<1>1. CASE v = value
  BY <1>1 DEF VTypes
<1>2. CASE v # value
  <2>1. PICK p \in (DOMAIN value) \X (DOMAIN value) : v = SubSeq(value, p[1], p[2])
    BY <1>2 DEF Views, Parts
  <2>2. p[1] \in DOMAIN value /\ p[2] \in DOMAIN value
    BY <2>1
  <2>3. \A i, j \in DOMAIN value : SubSeq(value, i, j) \in Seq(Token)
    BY DEF VTypes
  <2> QED BY <2>1, <2>2, <2>3
<1> QED BY <1>1, <1>2

(* A text with one token more. *)
LEMMA Longer ==
    ASSUME NEW s \in Seq(Token), NEW n \in 1 .. Len(s)
    PROVE  Append(SubSeq(s, 1, n - 1), s[n]) = SubSeq(s, 1, n)
<1> DEFINE a == SubSeq(s, 1, n - 1)
           b == SubSeq(s, 1, n)
           c == Append(a, s[n])
<1>1. /\ a \in Seq(Token) /\ Len(a) = n - 1 /\ \A i \in 1 .. n - 1 : a[i] = s[i]
      /\ b \in Seq(Token) /\ Len(b) = n /\ \A i \in 1 .. n : b[i] = s[i]
      /\ s[n] \in Token
  OBVIOUS
<1> HIDE DEF a, b
<1>2. c \in Seq(Token) /\ Len(c) = n /\ c[n] = s[n] /\ \A i \in 1 .. n - 1 : c[i] = a[i]
  BY <1>1
<1> HIDE DEF c
<1>3. \A i \in 1 .. n : c[i] = b[i]
  BY <1>1, <1>2
<1>4. c = [i \in 1 .. Len(c) |-> c[i]] /\ b = [i \in 1 .. Len(b) |-> b[i]]
  BY <1>1, <1>2
<1>5. c = b
  BY <1>1, <1>2, <1>3, <1>4
<1> QED BY <1>5 DEF a, b, c

(* Nothing has been made before the value is loaded. *)
LEMMA InitVInv == VInit => VInv
<1> SUFFICES ASSUME VInit PROVE VInv
  OBVIOUS
<1> USE DEF VInit
<1>1. VTypes
  BY DEF VTypes
<1>2. Stack /\ Refs
  BY DEF Stack, Refs, Base
<1>3. NothingShared /\ Calls /\ ValueNeverChanges /\ AnswersAreTruthful
  BY DEF NothingShared, Calls, ValueNeverChanges, AnswersAreTruthful
<1> QED BY <1>1, <1>2, <1>3 DEF VInv, Shape

(* What is said of the calls, for a step that leaves the conversion be. *)
CallsInv == Calls /\ ValueNeverChanges /\ AnswersAreTruthful

(* Steps that begin or end a call and make nothing. *)
LEMMA QuietKeeps ==
    ASSUME VInv, TypeOK, \/ Load \/ ToJson \/ ToText \/ Assign
                         \/ \E v \in Views : ToDict(v)
                         \/ \E f \in {"core", "export"} : RenderFails(f)
                         \/ ReservationFails \/ SerializerFails \/ EncodeFails \/ Encoded
    PROVE  VInv'
<1> USE DEF VInv, CallsInv
<1>1. VTypes
  BY DEF Shape
<1>2. out \in Seq(Token)
  BY DEF TypeOK
<1> DEFINE Quiet == /\ UNCHANGED <<objects, results>>
                    /\ filling' = filling \/ filling' = <<>>
<1>3. CASE Load
  <2>1. VTypes' /\ Quiet
    BY <1>1, <1>2, <1>3 DEF Load, VTypes, kept, call, buffer
  <2>2. CallsInv'
    BY <1>3 DEF Load, Answered, Calls, ValueNeverChanges, AnswersAreTruthful, vars, kept, call, buffer
  <2> QED BY <2>1, <2>2, QuietStep
<1>4. ASSUME NEW v \in Views, ToDict(v) PROVE VInv'
  <2>1. v \in Seq(Token)
    BY <1>1, ViewsAreDocuments
  <2>2. VTypes' /\ Quiet
    BY <1>1, <1>4, <2>1 DEF ToDict, Called, VTypes, kept, buffer
  <2>3. CallsInv'
    BY <1>4 DEF ToDict, Called, Answered, Calls, ValueNeverChanges, AnswersAreTruthful, vars, kept, buffer
  <2> QED BY <2>2, <2>3, QuietStep
<1>5. CASE ToJson
  <2>1. VTypes' /\ Quiet
    BY <1>1, <1>5 DEF ToJson, Called, VTypes, kept
  <2>2. bytes' = <<>> /\ next' = 1 /\ out' = out
    BY <1>5 DEF ToJson, Called, vars
  <2>3. bytes' = SubSeq(out', 1, next' - 1)
    BY <1>2, <2>2
  <2>4. CallsInv'
    BY <1>5, <2>3 DEF ToJson, Called, Answered, Calls, ValueNeverChanges, AnswersAreTruthful, vars, kept
  <2> QED BY <2>1, <2>4, QuietStep
<1>6. CASE ToText \/ Assign \/ \E f \in {"core", "export"} : RenderFails(f)
  <2>1. VTypes' /\ Quiet
    BY <1>1, <1>6 DEF ToText, Assign, RenderFails, VTypes, kept, call, buffer
  <2>2. CallsInv'
    BY <1>6 DEF ToText, Assign, RenderFails, Answered, Calls, ValueNeverChanges, AnswersAreTruthful,
                vars, kept, call, buffer
  <2> QED BY <2>1, <2>2, QuietStep
<1>7. CASE ReservationFails \/ SerializerFails
  <2>1. VTypes' /\ Quiet
    BY <1>1, <1>7 DEF ReservationFails, SerializerFails, VTypes, kept, call, buffer
  <2>2. CallsInv'
    BY <1>7 DEF ReservationFails, SerializerFails, Calls, ValueNeverChanges, AnswersAreTruthful,
                vars, kept, call, buffer
  <2> QED BY <2>1, <2>2, QuietStep
<1>8. CASE EncodeFails
  <2>1. VTypes' /\ Quiet
    BY <1>1, <1>8 DEF EncodeFails, Returned, VTypes, kept
  <2>2. CallsInv'
    BY <1>8 DEF EncodeFails, Returned, Answered, Calls, ValueNeverChanges, AnswersAreTruthful, vars, kept
  <2> QED BY <2>1, <2>2, QuietStep
<1>9. CASE Encoded
  <2>0. /\ view' = <<>> /\ next' = 1 /\ filling' = <<>> /\ bytes' = <<>>
        /\ UNCHANGED <<value, objects, results>>
    BY <1>9 DEF Encoded, Returned, kept
  <2>1. VTypes' /\ Quiet
    BY <1>1, <2>0 DEF VTypes
  <2>2. CallsInv'
    BY <1>9 DEF Encoded, Returned, Answered, Calls, ValueNeverChanges, AnswersAreTruthful, vars, kept
  <2> QED BY <2>1, <2>2, QuietStep
<1> QED BY <1>3, <1>4, <1>5, <1>6, <1>7, <1>8, <1>9

(* One piece is written. *)
LEMMA WriteKeeps == ASSUME VInv, TypeOK, Write PROVE VInv'
<1> USE DEF VInv, CallsInv, Shape
<1>1. /\ pc = "encode" /\ next \in 1 .. Len(view) /\ view \in Seq(Token) /\ view = out
      /\ bytes \in Seq(Token) /\ bytes = SubSeq(out, 1, next - 1)
  BY DEF Write, VTypes, ValueNeverChanges
<1>2. bytes' = Append(bytes, view[next]) /\ next' = next + 1 /\ view' = view /\ out' = out
  BY DEF Write, Current, vars
<1>3. bytes' = SubSeq(out, 1, next)
  BY <1>1, <1>2, Longer
<1>4. bytes' \in Seq(Token) /\ next' \in Nat \ {0} /\ next' - 1 = next
  BY <1>1, <1>2
<1>5. VTypes' /\ UNCHANGED <<objects, results, filling>>
  BY <1>2, <1>4 DEF Write, VTypes, kept
<1>6. Shape'
  BY <1>5, QuietStep
<1>7. CallsInv'
  BY <1>1, <1>2, <1>3, <1>4 DEF Write, Calls, ValueNeverChanges, AnswersAreTruthful, vars, kept
<1> QED BY <1>6, <1>7

(* One container is made, filled or finished, or a caller changes one. *)
LEMMA ExportKeeps ==
    ASSUME VInv, TypeOK, \/ ExportLeaf \/ ExportOpen \/ ExportClose
                         \/ \E f \in {"MemoryError", "exception"} : ExportFails(f)
                         \/ \E r \in DOMAIN results, i \in DOMAIN objects : Change(r, i)
    PROVE  VInv'
<1> USE DEF VInv, CallsInv
<1>1. VTypes /\ Shape /\ Stack
  BY DEF Shape
<1>2. /\ DOMAIN objects = 1 .. Len(objects) /\ Len(objects) \in Nat /\ Len(filling) \in Nat
      /\ objects \in Seq(Made) /\ filling \in Seq(Nat) /\ results \in Seq(Result)
      /\ next \in Nat \ {0} /\ view \in Seq(Token) /\ value \in Seq(Token) /\ bytes \in Seq(Token)
  BY <1>1 DEF VTypes
<1>3. filling # <<>> => /\ Inner \in DOMAIN objects /\ Len(filling) \in 1 .. Len(filling)
                        /\ filling[1] \in 1 .. Len(objects)
  BY <1>1, <1>2 DEF Stack, Inner
<1>4. CASE ExportLeaf
  <2>1. Inner \in DOMAIN objects /\ Current \in Thing /\ ~IsRef(Current) /\ Put(Inner, Current)
    BY <1>3, <1>4, LeafIsNoRef DEF ExportLeaf
  <2>2. objects' \in Seq(Made)
    BY <1>1, <2>1, PutIs
  <2>3. VTypes' /\ SameRoots /\ filling' = filling
    BY <1>2, <1>4, <2>2 DEF ExportLeaf, VTypes, kept, buffer, SameRoots
  <2>4. Shape'
    BY <1>1, <2>1, <2>3, PlainStep
  <2>5. CallsInv'
    BY <1>4 DEF ExportLeaf, Calls, ValueNeverChanges, AnswersAreTruthful, vars, kept, buffer
  <2> QED BY <2>4, <2>5
<1>5. CASE ExportOpen
  <2> DEFINE c == [kind |-> Current.kind, items |-> <<>>]
  <2>1. /\ objects' = Append(objects, c) /\ filling' = Append(filling, Len(objects) + 1)
        /\ results' = results
    BY <1>5 DEF ExportOpen
  <2>2. c \in Made /\ c.items = <<>>
    BY <1>5 DEF ExportOpen, Opens, Made
  <2> HIDE DEF c
  <2>3. objects' \in Seq(Made) /\ filling' \in Seq(Nat)
    BY <1>2, <2>1, <2>2
  <2>4. VTypes'
    BY <1>2, <1>5, <2>3 DEF ExportOpen, VTypes, kept, buffer
  <2>5. Shape'
    BY <1>1, <2>1, <2>2, <2>4, OpenStep
  <2>6. CallsInv'
    BY <1>5 DEF ExportOpen, Calls, ValueNeverChanges, AnswersAreTruthful, vars, kept, buffer
  <2> QED BY <2>5, <2>6
<1>6. CASE ExportClose /\ Len(filling) > 1
  <2> DEFINE p == filling[Len(filling) - 1]
             top == filling[Len(filling)]
  <2>1. /\ Put(p, Ref(Inner)) /\ filling' = Front(filling) /\ results' = results
        /\ next' = next + 1 /\ UNCHANGED <<pc, view, answer, cause, vars, kept, buffer>>
    BY <1>6 DEF ExportClose
  <2>2. p \in DOMAIN objects /\ top \in DOMAIN objects /\ Inner = top
    BY <1>1, <1>2, <1>6 DEF Stack, Inner
  <2>3. Put(p, Ref(top)) /\ Ref(top) \in Thing
    BY <1>2, <2>1, <2>2, RefIsThing
  <2>4. objects' \in Seq(Made)
    BY <1>1, <2>2, <2>3, PutIs
  <2>5. /\ filling' \in Seq(Nat) /\ Len(filling') = Len(filling) - 1
        /\ \A a \in 1 .. Len(filling) - 1 : filling'[a] = filling[a]
    BY <1>2, <1>6, <2>1 DEF Front
  <2>6. VTypes'
    <3>1. value' = value /\ view' = view /\ bytes' = bytes /\ results' = results /\ next' \in Nat \ {0}
      BY <1>2, <2>1 DEF kept, buffer
    <3> QED BY <1>2, <2>4, <2>5, <3>1 DEF VTypes
  <2>7. Shape'
    BY <1>1, <1>6, <2>1, <2>2, <2>3, <2>5, <2>6, HoldStep
  <2>8. CallsInv'
    BY <1>6, <2>1 DEF ExportClose, Calls, ValueNeverChanges, AnswersAreTruthful, vars, kept, buffer
  <2> QED BY <2>7, <2>8
<1>7. CASE ExportClose /\ ~(Len(filling) > 1)
  <2> DEFINE r0 == [root |-> Inner, of |-> view, touched |-> FALSE]
  <2>1. /\ filling # <<>> /\ Len(filling) =< 1 /\ results' = Append(results, r0)
        /\ filling' = <<>> /\ objects' = objects /\ view' = <<>> /\ next' = 1
        /\ UNCHANGED <<vars, kept, buffer>>
    BY <1>2, <1>7 DEF ExportClose, Returned
  <2>2. r0 \in Result /\ r0.root = Inner
    BY <1>2, <1>3, <2>1 DEF Result
  <2> HIDE DEF r0
  <2>3. results' \in Seq(Result)
    BY <1>2, <2>1, <2>2
  <2>4. VTypes'
    BY <1>2, <2>1, <2>3 DEF VTypes, kept, buffer
  <2>5. Shape'
    BY <1>1, <2>1, <2>2, <2>4, ResultStep
  <2>6. CallsInv'
    BY <1>7 DEF ExportClose, Returned, Answered, Calls, ValueNeverChanges, AnswersAreTruthful,
                vars, kept, buffer
  <2> QED BY <2>5, <2>6
<1>8. ASSUME NEW f \in {"MemoryError", "exception"}, ExportFails(f) PROVE VInv'
  <2>1. /\ objects' = IF filling = <<>> THEN objects ELSE SubSeq(objects, 1, filling[1] - 1)
        /\ filling' = <<>> /\ results' = results /\ view' = <<>> /\ next' = 1
        /\ UNCHANGED <<vars, kept, buffer>>
    BY <1>8 DEF ExportFails, ExportFailure, Returned
  <2>2. CallsInv'
    BY <1>8 DEF ExportFails, ExportFailure, Returned, Answered, Calls, ValueNeverChanges,
                AnswersAreTruthful, vars, kept, buffer
  <2>3. CASE filling = <<>>
    <3>1. VTypes' /\ UNCHANGED <<objects, results>>
      BY <1>2, <2>1, <2>3 DEF VTypes, kept, buffer
    <3> QED BY <1>1, <2>1, <2>2, <3>1, QuietStep
  <2>4. CASE filling # <<>>
    <3>1. Base = filling[1] - 1 /\ Base \in 0 .. Len(objects)
      BY <1>3, <2>4 DEF Base
    <3>2. /\ objects' \in Seq(Made) /\ Len(objects') = Base
          /\ \A j \in 1 .. Base : objects'[j] = objects[j]
      <4> DEFINE m == filling[1] - 1
      <4>1. m \in 0 .. Len(objects) /\ objects' = SubSeq(objects, 1, m) /\ Base = m
        BY <1>3, <2>1, <2>4, <3>1
      <4> HIDE DEF m
      <4> QED BY <1>2, <4>1
    <3>3. VTypes'
      BY <1>2, <2>1, <3>2 DEF VTypes, kept, buffer
    <3> QED BY <1>1, <2>1, <2>2, <2>4, <3>1, <3>2, <3>3, DropStep
  <2> QED BY <2>3, <2>4
<1>9. ASSUME NEW r \in DOMAIN results, NEW i \in DOMAIN objects, Change(r, i) PROVE VInv'
  <2> DEFINE x == [kind |-> "changed"]
             n == [results[r] EXCEPT !.touched = TRUE]
  <2>1. Put(i, x) /\ results' = [results EXCEPT ![r] = n] /\ UNCHANGED <<vars, kept, pc, call, buffer, answer, cause>>
    BY <1>9 DEF Change
  <2>2. x \in Thing /\ ~IsRef(x)
    BY DEF Thing, IsRef
  <2>3. results[r] \in Result
    BY <1>2
  <2>4. n \in Result /\ n.root = results[r].root
    BY <2>3 DEF Result
  <2> HIDE DEF n, x
  <2>5. objects' \in Seq(Made)
    BY <1>1, <2>1, <2>2, PutIs
  <2>6. results' \in Seq(Result) /\ SameRoots
    BY <1>2, <2>1, <2>4 DEF SameRoots
  <2>7. VTypes' /\ filling' = filling
    BY <1>2, <2>1, <2>5, <2>6 DEF VTypes, kept, buffer, call
  <2>8. Shape'
    BY <1>1, <2>1, <2>2, <2>6, <2>7, PlainStep
  <2>9. CallsInv'
    BY <2>1 DEF Calls, ValueNeverChanges, AnswersAreTruthful, vars, kept, buffer, call
  <2> QED BY <2>8, <2>9
<1> QED BY <1>4, <1>5, <1>6, <1>7, <1>8, <1>9

(* No operation breaks the invariant. *)
LEMMA StepVInv == VInv /\ TypeOK /\ [VNext]_allvars => VInv'
<1> SUFFICES ASSUME VInv, TypeOK, [VNext]_allvars PROVE VInv'
  OBVIOUS
<1> DEFINE Still == UNCHANGED vvars /\ (status = "done" => UNCHANGED vars)
<1>1. CASE Still
  <2>1. VTypes' /\ UNCHANGED <<objects, results, filling>>
    BY <1>1 DEF VInv, Shape, VTypes, vvars, kept, call, buffer
  <2>2. Shape'
    BY <2>1, QuietStep DEF VInv
  <2>3. Calls' /\ ValueNeverChanges' /\ AnswersAreTruthful'
    BY <1>1 DEF VInv, Calls, ValueNeverChanges, AnswersAreTruthful, vars, vvars, kept, call, buffer
  <2> QED BY <2>2, <2>3 DEF VInv
<1>2. CASE Next /\ UNCHANGED vvars
  <2>1. status # "done"
    BY <1>2 DEF Next, Document, ConvertLeaf, LeafAllocationFails, EnterContainer, LeaveContainer
  <2> QED BY <1>1, <1>2, <2>1
<1>3. CASE UNCHANGED allvars
  BY <1>1, <1>3 DEF allvars
<1> QED BY <1>2, <1>3, QuietKeeps, WriteKeeps, ExportKeeps DEF VNext

(* The invariant holds in every state a value reaches. *)
LEMMA VInvariance == VSpec => []VInv
<1>1. VInit => VInv
  BY InitVInv
<1>2. VInv /\ TypeOK /\ [VNext]_allvars => VInv'
  BY StepVInv
<1>3. VSpec => []TypeOK
  BY ValueRefinesConversion, TypeCorrect
<1> QED BY <1>1, <1>2, <1>3, PTL DEF VSpec, allvars

-------------------------------------------------------------------------------
Word == Thing \cup Token

(* The words of a container's items, its parts being spelled so. *)
Words(made, spell, i) ==
    [k \in DOMAIN made[i].items |->
        IF IsRef(made[i].items[k]) THEN spell[made[i].items[k].at] ELSE <<made[i].items[k]>>]

Spelt(made, spell, i) ==
    <<[kind |-> made[i].kind]>> \o FlattenSeq(Words(made, spell, i)) \o <<[kind |-> "end"]>>

(* A container is made before what it holds. *)
Ascending(made) ==
    \A j \in DOMAIN made : \A k \in DOMAIN made[j].items :
       IsRef(made[j].items[k]) => made[j].items[k].at \in j + 1 .. Len(made)

(* There are as many words as items, each a sequence of tokens. *)
LEMMA WordsAre ==
    ASSUME NEW made \in Seq(Made), NEW i \in DOMAIN made, NEW spell \in [DOMAIN made -> Seq(Word)],
           \A k \in DOMAIN made[i].items :
              IsRef(made[i].items[k]) => made[i].items[k].at \in DOMAIN made
    PROVE  /\ Words(made, spell, i) \in Seq(Seq(Word))
           /\ Len(Words(made, spell, i)) = Len(made[i].items)
<1> DEFINE s == made[i].items
<1>0. made[i] \in Made
  OBVIOUS
<1>1. s \in Seq(Thing) /\ Thing \subseteq Word
  BY <1>0 DEF Made, Word
<1>2. \A k \in 1 .. Len(s) : (IF IsRef(s[k]) THEN spell[s[k].at] ELSE <<s[k]>>) \in Seq(Word)
  <2>1. DOMAIN s = 1 .. Len(s) /\ \A k \in DOMAIN s : IsRef(s[k]) => s[k].at \in DOMAIN made
    BY <1>1
  <2> HIDE DEF s
  <2>2. SUFFICES ASSUME NEW k \in 1 .. Len(s)
                 PROVE  (IF IsRef(s[k]) THEN spell[s[k].at] ELSE <<s[k]>>) \in Seq(Word)
    OBVIOUS
  <2>3. s[k] \in Word
    BY <1>1
  <2>4. <<s[k]>> \in Seq(Word)
    BY <2>3
  <2>5. IsRef(s[k]) => spell[s[k].at] \in Seq(Word)
    BY <2>1
  <2> QED BY <2>4, <2>5
<1>3. Words(made, spell, i) = [k \in 1 .. Len(s) |-> IF IsRef(s[k]) THEN spell[s[k].at] ELSE <<s[k]>>]
  BY <1>1 DEF Words
<1> HIDE DEF s
<1>4. Len(s) \in Nat
  BY <1>1
<1> QED BY <1>2, <1>3, <1>4 DEF s

(* So is the whole. *)
LEMMA SpeltIs ==
    ASSUME NEW made \in Seq(Made), NEW i \in DOMAIN made, NEW spell \in [DOMAIN made -> Seq(Word)],
           \A k \in DOMAIN made[i].items :
              IsRef(made[i].items[k]) => made[i].items[k].at \in DOMAIN made
    PROVE  /\ <<[kind |-> made[i].kind]>> \o FlattenSeq(Words(made, spell, i)) \in Seq(Word)
           /\ Spelt(made, spell, i) \in Seq(Word)
<1> DEFINE a == <<[kind |-> made[i].kind]>>
           b == FlattenSeq(Words(made, spell, i))
           c == <<[kind |-> "end"]>>
<1>1. made[i] \in Made
  OBVIOUS
<1>2. a \in Seq(Word) /\ c \in Seq(Word)
  BY <1>1 DEF Made, Word, Token
<1>3. b \in Seq(Word)
  BY WordsAre, FlattenedIs
<1>4. Spelt(made, spell, i) = (a \o b) \o c
  BY DEF Spelt
<1> HIDE DEF a, b, c
<1>5. a \o b \in Seq(Word) /\ (a \o b) \o c \in Seq(Word)
  BY <1>2, <1>3
<1> QED BY <1>4, <1>5 DEF a, b

(* It depends on the spelling of its parts only. *)
LEMMA SpeltAlike ==
    ASSUME NEW made, NEW i, NEW f, NEW g,
           \A k \in DOMAIN made[i].items :
              IsRef(made[i].items[k]) => f[made[i].items[k].at] = g[made[i].items[k].at]
    PROVE  Words(made, f, i) = Words(made, g, i) /\ Spelt(made, f, i) = Spelt(made, g, i)
<1>1. Words(made, f, i) = Words(made, g, i)
  BY DEF Words
<1> QED BY <1>1 DEF Spelt

(* Spelling is what its definition says: a container is made before what it *)
(* holds, so what is spelled is spelled to the end.                         *)
LEMMA SpellingIs ==
    ASSUME NEW made \in Seq(Made), Ascending(made)
    PROVE  /\ Spelling(made) \in [DOMAIN made -> Seq(Word)]
           /\ \A i \in DOMAIN made : Spelling(made)[i] = Spelt(made, Spelling(made), i)
<1> DEFINE N == Len(made)
           S == [DOMAIN made -> Seq(Word)]
           step(f) == [i \in DOMAIN made |-> Spelt(made, f, i)]
           first == [i \in DOMAIN made |-> <<>>]
           g == [p \in (1 .. N) \X S |-> step(p[2])]
           Is(f) == f = [i \in DOMAIN made |-> Spelt(made, f, i)]
<1>1. N \in Nat /\ DOMAIN made = 1 .. N
  OBVIOUS
<1>2. \A j \in DOMAIN made : \A k \in DOMAIN made[j].items :
         IsRef(made[j].items[k]) => made[j].items[k].at \in DOMAIN made /\ made[j].items[k].at > j
  <2>1. \A j \in DOMAIN made : \A m \in j + 1 .. N : m \in DOMAIN made /\ m > j
    BY <1>1
  <2> QED BY <2>1 DEF Ascending
<1>3. first \in S /\ \A f \in S : step(f) \in S
  <2>1. <<>> \in Seq(Word)
    OBVIOUS
  <2>2. ASSUME NEW f \in S PROVE step(f) \in S
    BY <1>2, SpeltIs
  <2> QED BY <2>1, <2>2
<1>4. PICK h : Recursive(h, N, S, first, g)
  <2> HIDE DEF step, first
  <2>1. g \in [(1 .. N) \X S -> S]
    <3> HIDE DEF S
    <3>1. \A p \in (1 .. N) \X S : p[2] \in S
      OBVIOUS
    <3> QED BY <1>3, <3>1
  <2>2. g \in Nexts(N, S)
    BY <2>1 DEF Nexts
  <2> HIDE DEF g, S, N
  <2> QED BY <1>1, <1>3, <2>2, Recursion
<1>5. h \in [0 .. N -> S] /\ h[0] = first /\ \A n \in 1 .. N : h[n] = step(h[n - 1])
  <2> HIDE DEF step, first
  <2>1. h \in [0 .. N -> S] /\ h[0] = first /\ \A n \in 1 .. N : h[n] = g[<<n, h[n - 1]>>]
    <3> HIDE DEF g, S, N
    <3> QED BY <1>4 DEF Recursive
  <2>2. ASSUME NEW n \in 1 .. N PROVE g[<<n, h[n - 1]>>] = step(h[n - 1])
    <3>1. n - 1 \in 0 .. N
      BY <1>1
    <3> HIDE DEF S, N
    <3>2. <<n, h[n - 1]>> \in (1 .. N) \X S
      BY <2>1, <3>1
    <3> QED BY <3>2
  <2> QED BY <2>1, <2>2
<1> HIDE DEF N, S, g, first
<1>6. ASSUME NEW n \in 1 .. N, NEW i \in DOMAIN made PROVE h[n][i] = Spelt(made, h[n - 1], i)
  BY <1>5
<1> HIDE DEF step
<1> DEFINE T == {n \in 0 .. N : n < N => \A i \in DOMAIN made : i > N - n => h[n][i] = h[n + 1][i]}
<1>7. 0 \in T
  BY <1>1
<1>8. ASSUME NEW n \in 0 .. N - 1, n \in T PROVE n + 1 \in T
  <2>1. SUFFICES ASSUME n + 1 < N, NEW i \in DOMAIN made, i > N - (n + 1)
                 PROVE  h[n + 1][i] = h[n + 2][i]
    <3>1. n + 1 \in 0 .. N /\ (n + 1) + 1 = n + 2
      BY <1>1
    <3> QED BY <3>1
  <2>2. n + 1 \in 1 .. N /\ n + 2 \in 1 .. N /\ (n + 1) - 1 = n /\ (n + 2) - 1 = n + 1 /\ n < N
    BY <1>1, <2>1
  <2>3. h[n + 1][i] = Spelt(made, h[n], i) /\ h[n + 2][i] = Spelt(made, h[n + 1], i)
    BY <1>6, <2>2
  <2>4. ASSUME NEW k \in DOMAIN made[i].items, IsRef(made[i].items[k])
        PROVE  h[n][made[i].items[k].at] = h[n + 1][made[i].items[k].at]
    <3>1. made[i].items[k].at \in DOMAIN made /\ made[i].items[k].at > i
      BY <1>2, <2>4
    <3>2. made[i].items[k].at > N - n
      BY <1>1, <2>1, <3>1
    <3> QED BY <1>8, <2>2, <3>1, <3>2
  <2>5. Spelt(made, h[n], i) = Spelt(made, h[n + 1], i)
    BY <2>4, SpeltAlike
  <2> QED BY <2>3, <2>5
<1>9. \A n \in 0 .. N : n \in T
  <2> HIDE DEF T
  <2> QED BY <1>1, <1>7, <1>8, Induction
<1>10. Is(h[N])
  <2>1. h[N] \in S
    BY <1>1, <1>5
  <2>2. ASSUME NEW i \in DOMAIN made PROVE h[N][i] = Spelt(made, h[N], i)
    <3>1. N \in 1 .. N /\ N - 1 \in 0 .. N /\ (N - 1) + 1 = N /\ N - 1 < N
      BY <1>1
    <3>2. h[N][i] = Spelt(made, h[N - 1], i)
      BY <1>6, <3>1
    <3>3. ASSUME NEW k \in DOMAIN made[i].items, IsRef(made[i].items[k])
          PROVE  h[N - 1][made[i].items[k].at] = h[N][made[i].items[k].at]
      <4>1. made[i].items[k].at \in DOMAIN made /\ made[i].items[k].at > i
        BY <1>2, <3>3
      <4>2. made[i].items[k].at > N - (N - 1)
        BY <1>1, <4>1
      <4> DEFINE m == N - 1
      <4>3. m \in 0 .. N /\ m + 1 = N /\ m < N
        BY <1>1, <3>1
      <4>4. m \in T
        <5> HIDE DEF T, m
        <5> QED BY <1>9, <4>3
      <4>5. \A j \in DOMAIN made : j > N - m => h[m][j] = h[m + 1][j]
        <5> HIDE DEF m
        <5> QED BY <4>3, <4>4
      <4> QED BY <4>1, <4>2, <4>3, <4>5
    <3>4. Spelt(made, h[N - 1], i) = Spelt(made, h[N], i)
      BY <3>3, SpeltAlike
    <3> QED BY <3>2, <3>4
  <2>3. h[N] = [i \in DOMAIN made |-> h[N][i]]
    BY <2>1 DEF S
  <2> QED BY <2>2, <2>3
<1>11. Spelling(made) = CHOOSE f : Is(f)
  BY DEF Spelling, Spelt, Words
<1>12. Is(Spelling(made))
  <2> HIDE DEF Is
  <2> QED BY <1>10, <1>11
<1> DEFINE f == Spelling(made)
<1>13. f = [i \in DOMAIN made |-> Spelt(made, f, i)]
  BY <1>12
<1> HIDE DEF f
<1>14. \A i \in DOMAIN made : f[i] = Spelt(made, f, i)
  BY <1>13
<1> DEFINE U == {n \in 0 .. N : \A i \in DOMAIN made : i > N - n => f[i] \in Seq(Word)}
<1>15. \A n \in 0 .. N : n \in U
  <2>1. 0 \in U
    BY <1>1
  <2>2. ASSUME NEW n \in 0 .. N - 1, n \in U PROVE n + 1 \in U
    <3>1. SUFFICES ASSUME NEW i \in DOMAIN made, i > N - (n + 1) PROVE f[i] \in Seq(Word)
      <4>1. n + 1 \in 0 .. N
        BY <1>1
      <4> QED BY <4>1
    <3> DEFINE e == [j \in DOMAIN made |-> IF j > N - n THEN f[j] ELSE <<>>]
    <3>2. e \in [DOMAIN made -> Seq(Word)]
      <4>1. <<>> \in Seq(Word)
        OBVIOUS
      <4> QED BY <2>2, <4>1
    <3>3. Spelt(made, e, i) \in Seq(Word)
      <4> HIDE DEF e
      <4> QED BY <1>2, <3>2, SpeltIs
    <3>4. \A k \in DOMAIN made[i].items :
             IsRef(made[i].items[k]) => f[made[i].items[k].at] = e[made[i].items[k].at]
      BY <1>1, <1>2, <3>1
    <3>5. Spelt(made, f, i) = Spelt(made, e, i)
      <4> HIDE DEF e
      <4> QED BY <3>4, SpeltAlike
    <3> QED BY <1>14, <3>3, <3>5
  <2> HIDE DEF U
  <2> QED BY <1>1, <2>1, <2>2, Induction
<1>16. ASSUME NEW i \in DOMAIN made PROVE f[i] \in Seq(Word)
  <2>1. N \in 0 .. N /\ i > N - N
    BY <1>1
  <2> QED BY <1>15, <2>1
<1>17. f \in [DOMAIN made -> Seq(Word)]
  BY <1>13, <1>16
<1> QED BY <1>14, <1>17 DEF f

(* Containers that are the same and hold only such are spelled the same. *)
LEMMA SpelledAlike ==
    ASSUME NEW made \in Seq(Made), NEW more \in Seq(Made), Ascending(made), Ascending(more),
           NEW S \in SUBSET (DOMAIN made \cap DOMAIN more),
           \A i \in S : /\ more[i] = made[i]
                        /\ \A k \in DOMAIN made[i].items :
                              IsRef(made[i].items[k]) => made[i].items[k].at \in S
    PROVE  \A i \in S : Spelling(more)[i] = Spelling(made)[i]
<1> DEFINE N == Len(made)
           f == Spelling(made)
           g == Spelling(more)
           B == {n \in 0 .. N : \E i \in S : i = N - n /\ g[i] # f[i]}
<1>1. N \in Nat /\ DOMAIN made = 1 .. N /\ S \subseteq 1 .. N
  OBVIOUS
<1>2. /\ \A i \in DOMAIN made : f[i] = Spelt(made, f, i)
      /\ \A i \in DOMAIN more : g[i] = Spelt(more, g, i)
  BY SpellingIs
<1> HIDE DEF N, f, g
<1>3. SUFFICES ASSUME NEW i0 \in S, g[i0] # f[i0] PROVE FALSE
  BY DEF f, g
<1>4. PICK n \in B : \A m \in B : n =< m
  <2>1. N - i0 \in B
    BY <1>1, <1>3
  <2>2. B \in SUBSET Nat
    OBVIOUS
  <2> HIDE DEF B
  <2> QED BY <2>1, <2>2, LeastNatural
<1>5. PICK i \in S : i = N - n /\ g[i] # f[i]
  BY <1>4
<1>6. ASSUME NEW k \in DOMAIN made[i].items, IsRef(made[i].items[k])
      PROVE  g[made[i].items[k].at] = f[made[i].items[k].at]
  <2> DEFINE j == made[i].items[k].at
  <2>1. j \in S /\ j \in i + 1 .. N
    BY <1>6 DEF Ascending, N
  <2> HIDE DEF j
  <2>2. N - j \in 0 .. N /\ N - j < n /\ j = N - (N - j)
    BY <1>1, <1>5, <2>1
  <2>3. N - j \notin B
    BY <1>4, <2>2
  <2> QED BY <2>1, <2>2, <2>3 DEF j
<1>7. Spelt(made, g, i) = Spelt(made, f, i)
  <2> HIDE DEF B
  <2> QED BY <1>6, SpeltAlike
<1>8. Spelt(more, g, i) = Spelt(made, g, i)
  BY DEF Spelt, Words
<1> QED BY <1>2, <1>5, <1>7, <1>8

-------------------------------------------------------------------------------
(* How many containers are open.                                            *)
Weight(token) == IF Opens(token) THEN 1 ELSE IF token.kind = "end" THEN -1 ELSE 0

(* One more is open behind an opening, one less behind an end. *)
LEMMA OpenNext ==
    ASSUME NEW doc
    PROVE  /\ OpenBefore(doc, 1) = 0
           /\ \A n \in Nat \ {0} : /\ OpenBefore(doc, n) \in Int
                                   /\ OpenBefore(doc, n + 1) = OpenBefore(doc, n) + Weight(doc[n])
<1> DEFINE O(n) == {i \in 1 .. n - 1 : Opens(doc[i])}
           E(n) == {i \in 1 .. n - 1 : doc[i].kind = "end"}
<1>1. \A n : OpenBefore(doc, n) = Cardinality(O(n)) - Cardinality(E(n))
  BY DEF OpenBefore
<1>2. ASSUME NEW n \in Nat \ {0}
      PROVE  /\ IsFiniteSet(O(n)) /\ Cardinality(O(n)) \in Nat
             /\ IsFiniteSet(E(n)) /\ Cardinality(E(n)) \in Nat
  <2>1. IsFiniteSet(1 .. n - 1)
    BY FS_Interval
  <2>2. O(n) \in SUBSET (1 .. n - 1) /\ E(n) \in SUBSET (1 .. n - 1)
    OBVIOUS
  <2>3. IsFiniteSet(O(n)) /\ IsFiniteSet(E(n))
    <3> HIDE DEF O, E
    <3> QED BY <2>1, <2>2, FS_Subset
  <2> HIDE DEF O, E
  <2> QED BY <2>3, FS_CardinalityType
<1>3. OpenBefore(doc, 1) = 0
  <2>1. O(1) = {} /\ E(1) = {}
    OBVIOUS
  <2> HIDE DEF O, E
  <2>2. Cardinality(O(1)) = 0 /\ Cardinality(E(1)) = 0
    BY <2>1, FS_EmptySet
  <2> QED BY <1>1, <2>2
<1>4. ASSUME NEW n \in Nat \ {0}
      PROVE  /\ OpenBefore(doc, n) \in Int
             /\ OpenBefore(doc, n + 1) = OpenBefore(doc, n) + Weight(doc[n])
  <2>1. \A i : i \in 1 .. (n + 1) - 1 <=> i \in 1 .. n - 1 \/ i = n
    OBVIOUS
  <2>2. n \notin O(n) /\ n \notin E(n)
    OBVIOUS
  <2>3. /\ O(n + 1) = IF Opens(doc[n]) THEN O(n) \cup {n} ELSE O(n)
        /\ E(n + 1) = IF doc[n].kind = "end" THEN E(n) \cup {n} ELSE E(n)
    BY <2>1
  <2>4. Opens(doc[n]) => doc[n].kind # "end"
    BY DEF Opens
  <2> HIDE DEF O, E
  <2>5. /\ Cardinality(O(n) \cup {n}) = Cardinality(O(n)) + 1
        /\ Cardinality(E(n) \cup {n}) = Cardinality(E(n)) + 1
    BY <1>2, <2>2, FS_AddElement
  <2> DEFINE x == Cardinality(O(n))
             y == Cardinality(E(n))
  <2>6. x \in Nat /\ y \in Nat
    BY <1>2
  <2>7. /\ Cardinality(O(n + 1)) = IF Opens(doc[n]) THEN x + 1 ELSE x
        /\ Cardinality(E(n + 1)) = IF doc[n].kind = "end" THEN y + 1 ELSE y
    BY <2>3, <2>5
  <2>8. OpenBefore(doc, n) = x - y
    BY <1>1
  <2>9. OpenBefore(doc, n + 1) = Cardinality(O(n + 1)) - Cardinality(E(n + 1))
    BY <1>1
  <2> HIDE DEF x, y
  <2> QED BY <2>4, <2>6, <2>7, <2>8, <2>9 DEF Weight
<1> QED BY <1>3, <1>4

(* What is open before a place of a sequence depends on what comes before. *)
LEMMA OpenAlike ==
    ASSUME NEW doc, NEW more, NEW n \in Nat \ {0}, \A i \in 1 .. n - 1 : more[i] = doc[i]
    PROVE  OpenBefore(more, n) = OpenBefore(doc, n)
<1>1. /\ {i \in 1 .. n - 1 : Opens(doc[i])} = {i \in 1 .. n - 1 : Opens(more[i])}
      /\ {i \in 1 .. n - 1 : doc[i].kind = "end"} = {i \in 1 .. n - 1 : more[i].kind = "end"}
  OBVIOUS
<1> QED BY <1>1 DEF OpenBefore

(* A container, its end, and within it what belongs to it. *)
Balanced(doc) ==
    /\ doc # <<>> /\ Opens(doc[1])
    /\ \A n \in 2 .. Len(doc) : OpenBefore(doc, n) >= 1
    /\ OpenBefore(doc, Len(doc) + 1) = 0

(* A part of a document is balanced. *)
LEMMA PartsAreBalanced ==
    ASSUME NEW doc \in Seq(Token), Balanced(doc), NEW part \in Parts(doc)
    PROVE  Balanced(part)
<1>1. CASE part = doc
  BY <1>1
<1>2. CASE part # doc
  <2>1. PICK p \in (DOMAIN doc) \X (DOMAIN doc) :
                IsPart(doc, p[1], p[2]) /\ part = SubSeq(doc, p[1], p[2])
    BY <1>2 DEF Parts
  <2> DEFINE i == p[1]
             j == p[2]
  <2>2. /\ i \in DOMAIN doc /\ j \in DOMAIN doc /\ IsPart(doc, i, j) /\ part = SubSeq(doc, i, j)
    BY <2>1
  <2> HIDE DEF i, j
  <2>3. i \in 1 .. Len(doc) /\ j \in 1 .. Len(doc) /\ Len(doc) \in Nat
    BY <2>2
  <2>4. /\ i < j /\ doc[i].kind = "list" /\ doc[j].kind = "end"
        /\ OpenBefore(doc, i) >= 1 /\ OpenBefore(doc, j) = OpenBefore(doc, i) + 1
        /\ \A n \in i + 1 .. j : OpenBefore(doc, n) > OpenBefore(doc, i)
    BY <2>2 DEF IsPart
  <2> DEFINE level == OpenBefore(doc, i)
             m == j - i + 1
  <2>12. level \in Int
    BY <2>3, OpenNext
  <2> HIDE DEF level
  <2>5. m \in Nat /\ m >= 2 /\ Len(part) = m /\ \A n \in 1 .. m : part[n] = doc[i + n - 1]
    BY <2>2, <2>3, <2>4
  <2> DEFINE T == {n \in 0 .. m : OpenBefore(part, n + 1) = OpenBefore(doc, i + n) - level}
  <2>6. 0 \in T
    <3>1. 0 \in 0 .. m /\ i + 0 = i /\ 0 + 1 = 1
      BY <2>3, <2>5
    <3>2. OpenBefore(part, 0 + 1) = 0 /\ OpenBefore(doc, i + 0) = level
      BY <3>1, OpenNext DEF level
    <3> QED BY <2>12, <3>1, <3>2
  <2>7. ASSUME NEW n \in 0 .. m - 1, n \in T PROVE n + 1 \in T
    <3>0. i \in Nat /\ i >= 1 /\ m \in Nat /\ n \in 0 .. m - 1
      BY <2>3, <2>5
    <3>1. /\ n + 1 \in Nat \ {0} /\ i + n \in Nat \ {0} /\ n + 1 \in 0 .. m /\ n + 1 \in 1 .. m
          /\ i + (n + 1) = (i + n) + 1 /\ i + (n + 1) - 1 = i + n
      <4> HIDE DEF m
      <4> QED BY ONLY <3>0
    <3>2. part[n + 1] = doc[i + n]
      BY <2>5, <3>1
    <3> DEFINE a == OpenBefore(part, n + 1)
               b == OpenBefore(doc, i + n)
               w == Weight(doc[i + n])
               k == n + 1
               l == i + n
    <3>5. w \in Int
      BY DEF Weight
    <3>6. a = b - level
      BY <2>7
    <3>7. k \in Nat \ {0} /\ l \in Nat \ {0} /\ part[k] = doc[l]
      BY <3>1, <3>2
    <3>8. /\ OpenBefore(part, k + 1) = OpenBefore(part, k) + Weight(doc[l])
          /\ OpenBefore(doc, l + 1) = OpenBefore(doc, l) + Weight(doc[l])
          /\ OpenBefore(doc, l) \in Int
      <4> HIDE DEF k, l, T, m
      <4> QED BY <3>7, OpenNext
    <3>3. /\ OpenBefore(part, (n + 1) + 1) = a + w
          /\ OpenBefore(doc, (i + n) + 1) = b + w
          /\ a = b - level /\ b \in Int /\ w \in Int
      BY <3>5, <3>6, <3>8
    <3> HIDE DEF a, b, w
    <3>4. a + w = (b + w) - level
      BY <2>12, <3>3
    <3> QED BY <3>1, <3>3, <3>4
  <2>8. \A n \in 0 .. m : OpenBefore(part, n + 1) = OpenBefore(doc, i + n) - level
    <3>1. \A n \in 0 .. m : n \in T
      <4> HIDE DEF T, m
      <4> QED BY <2>5, <2>6, <2>7, Induction
    <3> QED BY <3>1
  <2> HIDE DEF T
  <2>9. part # <<>> /\ Opens(part[1])
    <3>1. 1 \in 1 .. m /\ i + 1 - 1 = i
      BY <2>3, <2>5
    <3>2. part[1] = doc[i]
      BY <2>5, <3>1
    <3>3. part # <<>>
      BY <2>5
    <3> QED BY <2>4, <3>2, <3>3 DEF Opens
  <2>10. ASSUME NEW n \in 2 .. Len(part) PROVE OpenBefore(part, n) >= 1
    <3>0. n \in 2 .. m /\ i \in Nat /\ j \in Nat /\ i >= 1
      BY <2>3, <2>5
    <3>1. n - 1 \in 0 .. m /\ (n - 1) + 1 = n /\ i + (n - 1) \in i + 1 .. j /\ i + (n - 1) \in Nat \ {0}
      BY <3>0
    <3>2. /\ OpenBefore(part, n) = OpenBefore(doc, i + (n - 1)) - level
          /\ OpenBefore(doc, i + (n - 1)) > level /\ OpenBefore(doc, i + (n - 1)) \in Int
      BY <2>4, <2>8, <3>1, OpenNext DEF level
    <3> QED BY <2>12, <3>2
  <2>11. OpenBefore(part, Len(part) + 1) = 0
    <3>1. m \in 0 .. m /\ i + m = j + 1 /\ j \in Nat \ {0}
      BY <2>3, <2>5
    <3>2. OpenBefore(part, m + 1) = OpenBefore(doc, j + 1) - level
      BY <2>8, <3>1
    <3>3. OpenBefore(doc, j + 1) = (level + 1) + Weight(doc[j])
      BY <2>4, <3>1, OpenNext DEF level
    <3>4. Weight(doc[j]) = -1
      BY <2>4 DEF Weight, Opens
    <3> QED BY <2>5, <2>12, <3>2, <3>3, <3>4
  <2> QED BY <2>9, <2>10, <2>11 DEF Balanced
<1> QED BY <1>1, <1>2

(* What is open in the document under construction is on the call stack. *)
OutInv ==
    /\ status = "called" => out = <<>>
    /\ out # <<>> => Opens(out[1])
    /\ \A n \in 2 .. Len(out) : OpenBefore(out, n) >= 1
    /\ OpenBefore(out, Len(out) + 1) = Depth
    /\ status \in {"running", "done"} => out # <<>>
    /\ status = "done" => Depth = 0

(* A token is written where something is open, or first. *)
LEMMA TokenKeepsOut ==
    ASSUME TypeOK, OutInv, NEW token, out' = Append(out, token),
           Depth' = Depth + Weight(token),
           IF out = <<>> THEN Opens(token) ELSE Depth >= 1
    PROVE  /\ out' # <<>> /\ Opens(out'[1])
           /\ \A n \in 2 .. Len(out') : OpenBefore(out', n) >= 1
           /\ OpenBefore(out', Len(out') + 1) = Depth'
<1> DEFINE o == out
           e == out'
           l == Len(out)
<1>1. o \in Seq(Token) /\ l \in Nat /\ l = Len(o) /\ e = Append(o, token)
  BY DEF TypeOK
<1>2. Len(e) = l + 1 /\ e[l + 1] = token /\ \A i \in 1 .. l : e[i] = o[i]
  BY <1>1
<1>3. /\ o # <<>> => Opens(o[1])
      /\ \A n \in 2 .. l : OpenBefore(o, n) >= 1
      /\ OpenBefore(o, l + 1) = Depth
      /\ o = <<>> <=> l = 0
  BY <1>1 DEF OutInv
<1> HIDE DEF o, e, l
<1>4. \A n \in 1 .. l + 1 : OpenBefore(e, n) = OpenBefore(o, n)
  <2>1. ASSUME NEW n \in 1 .. l + 1 PROVE OpenBefore(e, n) = OpenBefore(o, n)
    <3>1. n \in Nat \ {0} /\ \A i \in 1 .. n - 1 : e[i] = o[i]
      BY <1>1, <1>2
    <3> QED BY <3>1, OpenAlike
  <2> QED BY <2>1
<1>5. OpenBefore(e, (l + 1) + 1) = Depth'
  <2>1. l + 1 \in Nat \ {0} /\ l + 1 \in 1 .. l + 1
    BY <1>1
  <2>2. OpenBefore(e, (l + 1) + 1) = OpenBefore(e, l + 1) + Weight(e[l + 1])
    BY <2>1, OpenNext
  <2> QED BY <1>2, <1>3, <1>4, <2>1, <2>2
<1>6. ASSUME NEW n \in 2 .. Len(e) PROVE OpenBefore(e, n) >= 1
  <2>1. n \in 1 .. l + 1 /\ (n \in 2 .. l \/ n = l + 1) /\ l # 0
    BY <1>1, <1>2
  <2> QED BY <1>3, <1>4, <2>1 DEF o
<1>7. e # <<>> /\ Opens(e[1])
  <2>1. e # <<>>
    BY <1>1, <1>2
  <2>2. CASE l = 0
    BY <1>2, <1>3, <2>2 DEF o
  <2>3. CASE l # 0
    <3>1. 1 \in 1 .. l
      BY <1>1, <2>3
    <3>2. e[1] = o[1] /\ o # <<>>
      BY <1>2, <1>3, <2>3, <3>1
    <3> QED BY <1>3, <2>1, <3>2
  <2> QED BY <2>1, <2>2, <2>3
<1> QED BY <1>2, <1>5, <1>6, <1>7 DEF e

(* Every step keeps it. *)
LEMMA NextOut == IInv /\ OutInv /\ [Next]_vars => OutInv'
<1> SUFFICES ASSUME IInv, OutInv, [Next]_vars PROVE OutInv'
  OBVIOUS
<1> USE DEF IInv
<1>1. /\ frames \in Seq(Frame) /\ Depth \in Nat /\ out \in Seq(Token)
      /\ heap \in [Addr -> Cell] /\ Depth = Len(frames)
  BY DEF TypeOK, Depth
<1>2. Started
  OBVIOUS
<1>3. ASSUME NEW error \in Errors, Fail(error) PROVE OutInv'
  BY <1>3 DEF Fail, OutInv, Depth, Errors
<1>4. ASSUME NEW a \in Addr, NEW callers \in Seq(Frame), Len(callers) = Depth, Open(a, callers),
             status = "called" \/ Depth >= 1
      PROVE  OutInv'
  <2> DEFINE token == [kind |-> heap[a].kind]
  <2>1. out' = Append(out, token) /\ status' = "running" /\ Len(frames') = Depth + 1
    BY <1>1, <1>4 DEF Open
  <2>2. Opens(token) /\ Weight(token) = 1
    <3>1. heap[a] \in Cell
      BY <1>1
    <3> QED BY <3>1 DEF Cell, Opens, Weight
  <2>3. Depth' = Depth + Weight(token)
    BY <2>1, <2>2 DEF Depth
  <2>4. IF out = <<>> THEN Opens(token) ELSE Depth >= 1
    BY <1>4, <2>2 DEF OutInv
  <2> HIDE DEF token
  <2> QED BY <2>1, <2>3, <2>4, TokenKeepsOut DEF OutInv
<1>5. CASE Document
  <2>1. \A e : ContainerError(e) \in {"cyclic", "budget", "none"}
    BY DEF ContainerError
  <2>2. CASE \E e \in Errors : Fail(e)
    BY <1>3, <2>2
  <2>3. CASE root \in Addr /\ Open(root, frames)
    <3>1. status = "called" /\ frames \in Seq(Frame) /\ Len(frames) = Depth
      BY <1>1, <1>5 DEF Document
    <3> QED BY <1>4, <2>3, <3>1
  <2> QED BY <1>5, <2>1, <2>2, <2>3 DEF Document, Errors
<1>6. CASE ConvertLeaf
  <2>1. status = "running" /\ Item \in Leaf /\ Depth >= 1
    BY <1>1, <1>2, <1>6 DEF ConvertLeaf, Started
  <2>2. CASE \E e \in Errors : Fail(e)
    BY <1>3, <2>2
  <2>3. CASE /\ frames' = Advanced /\ out' = Append(out, Item) /\ status' = status
    <3>1. Len(frames') = Depth
      BY <1>1, <2>3 DEF Advanced
    <3>2. Weight(Item) = 0
      <4>1. Item \in Text \cup Scalar
        BY <2>1, ConversionAssumption
      <4>2. Item.kind \notin {"list", "dict", "end"}
        BY <4>1 DEF Text, Scalar
      <4> QED BY <4>2 DEF Weight, Opens
    <3>3. Depth' = Depth + Weight(Item)
      BY <1>1, <3>1, <3>2 DEF Depth
    <3>4. IF out = <<>> THEN Opens(Item) ELSE Depth >= 1
      BY <2>1 DEF OutInv
    <3> QED BY <2>1, <2>3, <3>3, <3>4, TokenKeepsOut DEF OutInv
  <2> QED BY <1>6, <2>2, <2>3, LeafErrors DEF ConvertLeaf
<1>7. CASE LeafAllocationFails
  BY <1>7 DEF LeafAllocationFails, OutInv, Depth
<1>8. CASE EnterContainer
  <2>1. status = "running" /\ Item \in Addr /\ Depth >= 1
    BY <1>1, <1>2, <1>8 DEF EnterContainer, Started
  <2>2. \A e : ContainerError(e) \in {"cyclic", "budget", "none"}
    BY DEF ContainerError
  <2>3. CASE \E e \in Errors : Fail(e)
    BY <1>3, <2>3
  <2>4. CASE Open(Item, Advanced)
    <3>1. Advanced \in Seq(Frame) /\ Len(Advanced) = Depth
      BY <2>1, AdvancedIs
    <3> QED BY <1>4, <2>1, <2>4, <3>1
  <2> QED BY <1>8, <2>2, <2>3, <2>4 DEF EnterContainer, Errors
<1>9. CASE LeaveContainer
  <2> DEFINE token == [kind |-> "end"]
  <2>1. /\ status = "running" /\ Depth >= 1 /\ out' = Append(out, token) /\ frames' = Front(frames)
        /\ status' \in {"running", "memory", "done"} /\ (status' = "done" => Depth = 1)
    BY <1>1, <1>2, <1>9 DEF LeaveContainer, Started
  <2>2. Len(frames') = Depth - 1
    BY <1>1, <2>1 DEF Front
  <2>3. Weight(token) = -1
    BY DEF Weight, Opens
  <2>4. Depth' = Depth + Weight(token)
    BY <1>1, <2>2, <2>3 DEF Depth
  <2>5. IF out = <<>> THEN Opens(token) ELSE Depth >= 1
    BY <2>1 DEF OutInv
  <2> HIDE DEF token
  <2>6. status' = "done" => Depth' = 0
    BY <2>1, <2>3, <2>4
  <2> QED BY <2>1, <2>4, <2>5, <2>6, TokenKeepsOut DEF OutInv
<1>10. CASE UNCHANGED vars
  BY <1>10 DEF vars, OutInv, Depth
<1> QED BY <1>5, <1>6, <1>7, <1>8, <1>9, <1>10 DEF Next

(* It holds in every state a conversion reaches. *)
LEMMA OutInvariance == Spec => []OutInv
<1>1. Init => OutInv
  <2> SUFFICES ASSUME Init PROVE OutInv
    OBVIOUS
  <2>1. out = <<>> /\ frames = <<>> /\ status = "called"
    BY DEF Init
  <2>2. OpenBefore(<<>>, 1) = 0 /\ Len(<<>>) + 1 = 1
    BY OpenNext
  <2> QED BY <2>1, <2>2 DEF OutInv, Depth
<1>2. IInv /\ OutInv /\ [Next]_vars => OutInv'
  BY NextOut
<1> QED BY <1>1, <1>2, Invariance, PTL DEF Spec

-------------------------------------------------------------------------------
(* What a container spells up to its end. *)
Begun(made, i) == <<[kind |-> made[i].kind]>> \o FlattenSeq(Words(made, Spelling(made), i))

Begins(made, open) == [k \in DOMAIN open |-> Begun(made, open[k])]

(* A container spells what it has begun and its end. *)
LEMMA BegunIs ==
    ASSUME NEW made \in Seq(Made), Ascending(made), NEW i \in DOMAIN made
    PROVE  /\ Begun(made, i) \in Seq(Word)
           /\ Spelling(made)[i] = Begun(made, i) \o <<Ending>>
<1>1. /\ Spelling(made) \in [DOMAIN made -> Seq(Word)]
      /\ Spelling(made)[i] = Spelt(made, Spelling(made), i)
  BY SpellingIs
<1>2. \A k \in DOMAIN made[i].items :
         IsRef(made[i].items[k]) => made[i].items[k].at \in DOMAIN made
  <2>1. Len(made) \in Nat /\ i \in Nat /\ DOMAIN made = 1 .. Len(made)
    OBVIOUS
  <2>2. i + 1 .. Len(made) \subseteq DOMAIN made
    BY <2>1
  <2> QED BY <2>2 DEF Ascending
<1>3. Begun(made, i) \in Seq(Word)
  <2> DEFINE f == Spelling(made)
  <2>1. f \in [DOMAIN made -> Seq(Word)] /\ Begun(made, i) = <<[kind |-> made[i].kind]>> \o FlattenSeq(Words(made, f, i))
    BY <1>1 DEF Begun
  <2> HIDE DEF f
  <2> QED BY <1>2, <2>1, SpeltIs
<1>4. Spelt(made, Spelling(made), i) = Begun(made, i) \o <<Ending>>
  BY DEF Spelt, Begun, Ending
<1> QED BY <1>1, <1>3, <1>4

(* A container that gets an item has begun one word more, and no container  *)
(* that does not hold it is spelled differently.                            *)
LEMMA PutSpells ==
    ASSUME VTypes, Ascending(objects), NEW i \in DOMAIN objects, NEW x \in Thing, Put(i, x),
           IsRef(x) => x.at \in i + 1 .. Len(objects),
           \A j \in DOMAIN objects : \A k \in DOMAIN objects[j].items :
              IsRef(objects[j].items[k]) => objects[j].items[k].at # i
    PROVE  /\ Ascending(objects')
           /\ \A j \in DOMAIN objects \ {i} :
                 /\ Spelling(objects')[j] = Spelling(objects)[j]
                 /\ Begun(objects', j) = Begun(objects, j)
           /\ Begun(objects', i) =
                 Begun(objects, i) \o (IF IsRef(x) THEN Spelling(objects)[x.at] ELSE <<x>>)
<1>1. /\ objects' \in Seq(Made) /\ Len(objects') = Len(objects)
      /\ \A j \in DOMAIN objects : j # i => objects'[j] = objects[j]
      /\ objects'[i].items \in Seq(Thing)
      /\ Len(objects'[i].items) = Len(objects[i].items) + 1
      /\ \A k \in DOMAIN objects[i].items : objects'[i].items[k] = objects[i].items[k]
      /\ objects'[i].items[Len(objects[i].items) + 1] = x
  BY PutIs
<1>2. /\ objects \in Seq(Made) /\ DOMAIN objects = 1 .. Len(objects) /\ Len(objects) \in Nat
      /\ DOMAIN objects' = DOMAIN objects /\ objects[i].items \in Seq(Thing)
  BY <1>1, Elements DEF VTypes
<1>3. objects'[i].kind = objects[i].kind
  <2>1. objects[i] \in Made
    BY Elements
  <2> QED BY <1>2, <2>1 DEF Put, Made
<1> DEFINE old == objects[i].items
           new == objects'[i].items
           n == Len(old)
<1>4. /\ n \in Nat /\ DOMAIN old = 1 .. n /\ DOMAIN new = 1 .. n + 1 /\ new[n + 1] = x
      /\ \A k \in 1 .. n : new[k] = old[k]
      /\ \A k \in 1 .. n + 1 : k \in 1 .. n \/ k = n + 1
  BY <1>1, <1>2
<1> HIDE DEF old, new, n
<1>5. Ascending(objects')
  <2>1. SUFFICES ASSUME NEW j \in DOMAIN objects, NEW k \in DOMAIN objects'[j].items,
                        IsRef(objects'[j].items[k])
                 PROVE  objects'[j].items[k].at \in j + 1 .. Len(objects)
    BY <1>1, <1>2 DEF Ascending
  <2>2. CASE j # i
    BY <1>1, <2>1, <2>2 DEF Ascending
  <2>3. CASE j = i
    <3>1. CASE k \in 1 .. n
      BY <1>4, <2>1, <2>3, <3>1 DEF Ascending, new, old
    <3>2. CASE k = n + 1
      BY <1>4, <2>1, <2>3, <3>2 DEF new
    <3> QED BY <1>4, <2>3, <3>1, <3>2 DEF new
  <2> QED BY <2>2, <2>3
<1> DEFINE f == Spelling(objects)
           g == Spelling(objects')
           S == DOMAIN objects \ {i}
<1>6. \A j \in S : /\ objects'[j] = objects[j]
                   /\ \A k \in DOMAIN objects[j].items :
                         IsRef(objects[j].items[k]) => objects[j].items[k].at \in S
  <2>1. \A j \in DOMAIN objects : j + 1 .. Len(objects) \subseteq DOMAIN objects
    BY <1>2
  <2> QED BY <1>1, <2>1 DEF Ascending
<1>7. \A j \in S : g[j] = f[j]
  <2>1. S \in SUBSET (DOMAIN objects \cap DOMAIN objects')
    BY <1>2
  <2> HIDE DEF S
  <2> QED BY <1>1, <1>2, <1>5, <1>6, <2>1, SpelledAlike
<1>8. f \in [DOMAIN objects -> Seq(Word)] /\ g \in [DOMAIN objects -> Seq(Word)]
  BY <1>1, <1>2, <1>5, SpellingIs
<1> HIDE DEF f, g
<1>9. ASSUME NEW j \in S PROVE Begun(objects', j) = Begun(objects, j)
  <2>1. Words(objects', g, j) = Words(objects, f, j)
    BY <1>6, <1>7 DEF Words
  <2> QED BY <1>6, <2>1 DEF Begun, f, g
<1>10. Begun(objects', i) = Begun(objects, i) \o (IF IsRef(x) THEN f[x.at] ELSE <<x>>)
  <2> DEFINE w == IF IsRef(x) THEN f[x.at] ELSE <<x>>
             a == Words(objects, f, i)
             b == Words(objects', g, i)
             h == <<[kind |-> objects[i].kind]>>
  <2>1. i + 1 .. Len(objects) \subseteq S
    BY <1>2
  <2>2. w \in Seq(Word)
    <3>1. Thing \subseteq Word
      BY DEF Word
    <3> QED BY <1>8, <2>1, <3>1
  <2>3. a \in Seq(Seq(Word)) /\ Len(a) = n
    <3>1. \A k \in DOMAIN objects[i].items :
             IsRef(objects[i].items[k]) => objects[i].items[k].at \in DOMAIN objects
      BY <2>1 DEF Ascending
    <3> QED BY <1>2, <1>8, <3>1, WordsAre DEF n, old
  <2>4. \A k \in 1 .. n : IsRef(old[k]) => g[old[k].at] = f[old[k].at]
    <3>1. \A k \in 1 .. n : IsRef(old[k]) => old[k].at \in S
      BY <1>4, <2>1 DEF Ascending, old
    <3> QED BY <1>7, <3>1
  <2>5. /\ a = [k \in 1 .. n |-> IF IsRef(old[k]) THEN f[old[k].at] ELSE <<old[k]>>]
        /\ b = [k \in 1 .. n + 1 |-> IF IsRef(new[k]) THEN g[new[k].at] ELSE <<new[k]>>]
    BY <1>4 DEF Words, old, new
  <2>6. IsRef(x) => g[x.at] = f[x.at]
    BY <1>7, <2>1
  <2> HIDE DEF a, b, S, w
  <2>7. b[n + 1] = w /\ \A k \in 1 .. n : b[k] = a[k]
    <3>1. n + 1 \in 1 .. n + 1 /\ \A k \in 1 .. n : k \in 1 .. n + 1
      BY <1>4
    <3>2. b[n + 1] = w
      BY <1>4, <2>5, <2>6, <3>1 DEF w
    <3>3. \A k \in 1 .. n : b[k] = a[k]
      BY <1>4, <2>4, <2>5, <3>1
    <3> QED BY <3>2, <3>3
  <2>8. b = Append(a, w)
    <3> DEFINE c == Append(a, w)
    <3>1. /\ c \in Seq(Seq(Word)) /\ Len(c) = n + 1 /\ c[n + 1] = w
          /\ \A k \in 1 .. n : c[k] = a[k]
      BY <2>2, <2>3
    <3> HIDE DEF c
    <3>2. \A k \in 1 .. n + 1 : c[k] = b[k]
      BY <1>4, <2>7, <3>1
    <3>3. c = [k \in 1 .. n + 1 |-> c[k]] /\ b = [k \in 1 .. n + 1 |-> b[k]]
      BY <2>5, <3>1
    <3>4. b = c
      BY <3>2, <3>3
    <3> QED BY <3>4 DEF c
  <2>9. FlattenSeq(b) = FlattenSeq(a) \o w
    BY <2>2, <2>3, <2>8, FlattenAppend
  <2>10. FlattenSeq(a) \in Seq(Word) /\ h \in Seq(Word)
    <3>1. objects[i] \in Made
      BY Elements
    <3>2. h \in Seq(Word)
      BY <3>1 DEF Made, Word, Token
    <3> QED BY <2>3, <3>2, FlattenedIs
  <2>11. Begun(objects, i) = h \o FlattenSeq(a) /\ Begun(objects', i) = h \o FlattenSeq(b)
    BY <1>3 DEF Begun, a, b, f, g
  <2> DEFINE y == FlattenSeq(a)
  <2>12. y \in Seq(Word) /\ h \in Seq(Word) /\ w \in Seq(Word)
    BY <2>2, <2>10
  <2>13. Begun(objects, i) = h \o y /\ Begun(objects', i) = h \o (y \o w)
    BY <2>9, <2>11
  <2> HIDE DEF y, h
  <2>14. h \o (y \o w) = (h \o y) \o w
    BY ONLY <2>12, ConcatAssociative
  <2> QED BY <2>13, <2>14 DEF w
<1> QED BY <1>5, <1>7, <1>9, <1>10 DEF f, g

(* What is below a container is in every set that has it and all that its   *)
(* members hold.                                                            *)
LEMMA UnderStays ==
    ASSUME NEW C, \A j \in C : Holds(j) \subseteq C, NEW i \in C
    PROVE  Under(i) \subseteq C
<1> DEFINE S == SUBSET C
           more(R) == R \cup UNION {Holds(j) : j \in R}
           g == [p \in (1 .. DEPTH) \X S |-> more(p[2])]
           Is(f) == f = [n \in 0 .. DEPTH |-> IF n = 0 THEN {i} ELSE more(f[n - 1])]
<1>1. DEPTH \in Nat
  BY BudgetAssumption
<1>2. {i} \in S /\ \A R \in S : more(R) \in S
  OBVIOUS
<1> HIDE DEF more
<1>3. PICK h : Recursive(h, DEPTH, S, {i}, g)
  <2>1. g \in [(1 .. DEPTH) \X S -> S]
    <3> HIDE DEF S
    <3>1. \A p \in (1 .. DEPTH) \X S : p[2] \in S
      OBVIOUS
    <3> QED BY <1>2, <3>1
  <2>2. g \in Nexts(DEPTH, S)
    BY <2>1 DEF Nexts
  <2> HIDE DEF g, S
  <2> QED BY <1>1, <1>2, <2>2, Recursion
<1>4. h \in [0 .. DEPTH -> S] /\ h[0] = {i} /\ \A n \in 1 .. DEPTH : h[n] = more(h[n - 1])
  <2>1. h \in [0 .. DEPTH -> S] /\ h[0] = {i} /\ \A n \in 1 .. DEPTH : h[n] = g[<<n, h[n - 1]>>]
    <3> HIDE DEF g, S
    <3> QED BY <1>3 DEF Recursive
  <2>2. ASSUME NEW n \in 1 .. DEPTH PROVE g[<<n, h[n - 1]>>] = more(h[n - 1])
    <3>1. n - 1 \in 0 .. DEPTH
      BY <1>1
    <3> HIDE DEF S
    <3>2. <<n, h[n - 1]>> \in (1 .. DEPTH) \X S
      BY <2>1, <3>1
    <3> QED BY <3>2
  <2> QED BY <2>1, <2>2
<1>5. Is(h)
  <2>1. \A n \in 0 .. DEPTH : n # 0 => n \in 1 .. DEPTH
    BY <1>1
  <2>2. \A n \in 0 .. DEPTH : h[n] = IF n = 0 THEN {i} ELSE more(h[n - 1])
    BY <1>4, <2>1
  <2>3. h = [n \in 0 .. DEPTH |-> h[n]]
    BY <1>4
  <2> HIDE DEF g, S
  <2> QED BY <2>2, <2>3
<1> DEFINE r == CHOOSE f : Is(f)
<1>6. Under(i) = r[DEPTH]
  BY DEF Under, more
<1>7. Is(r)
  <2> HIDE DEF Is
  <2> QED BY <1>5
<1> HIDE DEF r
<1>8. r[0] = {i} /\ \A n \in 1 .. DEPTH : r[n] = more(r[n - 1])
  <2>1. \A n \in 0 .. DEPTH : r[n] = IF n = 0 THEN {i} ELSE more(r[n - 1])
    <3> DEFINE b == r
    <3>1. r = [n \in 0 .. DEPTH |-> IF n = 0 THEN {i} ELSE more(b[n - 1])]
      BY <1>7
    <3> HIDE DEF b
    <3>2. \A n \in 0 .. DEPTH : r[n] = IF n = 0 THEN {i} ELSE more(b[n - 1])
      BY <3>1
    <3> QED BY <3>2 DEF b
  <2>2. 0 \in 0 .. DEPTH /\ \A n \in 1 .. DEPTH : n \in 0 .. DEPTH /\ n # 0
    BY <1>1
  <2> QED BY <2>1, <2>2
<1> DEFINE T == {n \in 0 .. DEPTH : r[n] \in S}
<1>9. 0 \in T
  BY <1>1, <1>2, <1>8
<1>10. ASSUME NEW n \in 0 .. DEPTH - 1, n \in T PROVE n + 1 \in T
  <2>1. n + 1 \in 1 .. DEPTH /\ n + 1 \in 0 .. DEPTH /\ (n + 1) - 1 = n
    BY <1>1
  <2> HIDE DEF S
  <2> QED BY <1>2, <1>8, <1>10, <2>1
<1>11. DEPTH \in T
  <2>1. DEPTH \in 0 .. DEPTH
    BY <1>1
  <2> HIDE DEF T
  <2> QED BY <1>1, <1>9, <1>10, <2>1, Induction
<1> QED BY <1>6, <1>11

-------------------------------------------------------------------------------
(* Why exports are copies.                                                  *)
Wanted == IF class = "BatchReport" THEN Parts(out) ELSE {out}

(* What was made before a result holds nothing of it. *)
Separate ==
    \A r \in DOMAIN results, j \in DOMAIN objects : \A k \in DOMAIN objects[j].items :
       IsRef(objects[j].items[k]) /\ j < results[r].root
          => objects[j].items[k].at < results[r].root

Exact ==
    \A r \in DOMAIN results :
       /\ results[r].of \in Wanted
       /\ ~results[r].touched => Spelling(objects)[results[r].root] = results[r].of

AllHeld == \A i \in DOMAIN objects \ Range(filling) : Held(i)

(* The open containers have begun what comes before the next token. *)
Exporting ==
    /\ view \in Views /\ Balanced(view)
    /\ next \in 1 .. Len(view)
    /\ Len(filling) = OpenBefore(view, next)
    /\ FlattenSeq(Begins(objects, filling)) = SubSeq(view, 1, next - 1)

Exports ==
    /\ Ascending(objects) /\ Separate /\ Exact /\ AllHeld
    /\ pc = "unloaded" => results = <<>>
    /\ pc # "export" => filling = <<>>
    /\ pc = "export" => Exporting

(* The tokens of a balanced document before its last leave something open.  *)
LEMMA NextToken ==
    ASSUME NEW doc \in Seq(Token), Balanced(doc), NEW n \in 1 .. Len(doc)
    PROVE  /\ OpenBefore(doc, n + 1) = OpenBefore(doc, n) + Weight(doc[n])
           /\ OpenBefore(doc, n + 1) >= 1 => n + 1 \in 1 .. Len(doc)
           /\ OpenBefore(doc, n + 1) = 0 => n = Len(doc)
           /\ SubSeq(doc, 1, n) = SubSeq(doc, 1, n - 1) \o <<doc[n]>>
<1>1. Len(doc) \in Nat /\ n \in Nat \ {0} /\ n =< Len(doc) /\ 1 \in 1 .. Len(doc) /\ n \in 1 .. Len(doc)
  OBVIOUS
<1>2. OpenBefore(doc, n + 1) = OpenBefore(doc, n) + Weight(doc[n])
  BY <1>1, OpenNext
<1>3. OpenBefore(doc, n + 1) >= 1 => n + 1 \in 1 .. Len(doc)
  <2>1. n = Len(doc) => OpenBefore(doc, n + 1) = 0
    BY DEF Balanced
  <2> QED BY <1>1, <2>1
<1>4. OpenBefore(doc, n + 1) = 0 => n = Len(doc)
  <2>1. n # Len(doc) => n + 1 \in 2 .. Len(doc)
    BY <1>1
  <2> QED BY <2>1 DEF Balanced
<1>5. SubSeq(doc, 1, n) = SubSeq(doc, 1, n - 1) \o <<doc[n]>>
  BY <1>1, SubSeqRecursiveSecond
<1> QED BY <1>2, <1>3, <1>4, <1>5

(* What a token is and weighs. *)
LEMMA TokenIs ==
    ASSUME NEW token \in Token
    PROVE  /\ token \in Leaf => Weight(token) = 0 /\ ~Opens(token) /\ token.kind # "end"
           /\ Opens(token) => Weight(token) = 1 /\ token = [kind |-> token.kind]
           /\ token.kind = "end" => Weight(token) = -1 /\ token = Ending
<1>1. CASE token \in Leaf
  <2>1. token \in Text \cup Scalar
    BY <1>1, ConversionAssumption
  <2>2. token.kind \notin {"list", "dict", "end"}
    BY <2>1 DEF Text, Scalar
  <2> QED BY <2>2 DEF Weight, Opens
<1>2. CASE token \notin Leaf
  <2>1. token \in [kind : {"list", "dict", "end"}]
    BY <1>2 DEF Token
  <2> QED BY <1>2, <2>1 DEF Weight, Opens, Ending
<1> QED BY <1>1, <1>2

(* What the open containers have begun. *)
LEMMA BeginsAre ==
    ASSUME NEW made \in Seq(Made), Ascending(made), NEW open \in Seq(Nat),
           \A k \in 1 .. Len(open) : open[k] \in DOMAIN made
    PROVE  /\ Begins(made, open) \in Seq(Seq(Word)) /\ Len(Begins(made, open)) = Len(open)
           /\ \A k \in 1 .. Len(open) : Begins(made, open)[k] = Begun(made, open[k])
<1>1. Begins(made, open) = [k \in 1 .. Len(open) |-> Begun(made, open[k])] /\ Len(open) \in Nat
  BY DEF Begins
<1>2. \A k \in 1 .. Len(open) : Begun(made, open[k]) \in Seq(Word)
  BY BegunIs
<1> QED BY <1>1, <1>2

(* The open containers are after those made before, each once. *)
LEMMA OpenOnes ==
    ASSUME Shape
    PROVE  /\ Len(filling) \in Nat
           /\ \A k \in 1 .. Len(filling) : filling[k] \in DOMAIN objects /\ filling[k] > Base
           /\ \A k, m \in 1 .. Len(filling) : filling[k] = filling[m] => k = m
           /\ Base \in 0 .. Len(objects)
           /\ \A r \in DOMAIN results :
                 /\ results[r].root \in DOMAIN objects
                 /\ \A k \in 1 .. Len(filling) : results[r].root < filling[k]
<1> USE Elements DEF Shape
<1>1. Len(filling) \in Nat /\ Len(objects) \in Nat /\ DOMAIN objects = 1 .. Len(objects)
  OBVIOUS
<1>2. \A k \in 1 .. Len(filling) : filling[k] \in 1 .. Len(objects)
  BY DEF Stack
<1>3. ASSUME NEW k \in 1 .. Len(filling) PROVE Base = filling[1] - 1 /\ filling[1] =< filling[k]
  <2>1. filling # <<>> /\ 1 \in 1 .. Len(filling) /\ (k = 1 \/ 1 < k)
    BY <1>1
  <2>2. filling[1] =< filling[k]
    BY <1>2, <2>1 DEF Stack
  <2> QED BY <2>1, <2>2 DEF Base
<1>4. \A k \in 1 .. Len(filling) : filling[k] > Base
  BY <1>2, <1>3
<1>5. \A k, m \in 1 .. Len(filling) : filling[k] = filling[m] => k = m
  <2>1. \A k, m \in 1 .. Len(filling) : k < m \/ m < k \/ k = m
    BY <1>1
  <2>2. \A k, m \in 1 .. Len(filling) : k < m => filling[k] < filling[m]
    BY DEF Stack
  <2> QED BY <1>2, <2>1, <2>2
<1>6. Base \in 0 .. Len(objects)
  <2>1. CASE filling = <<>>
    BY <1>1, <2>1 DEF Base
  <2>2. CASE filling # <<>>
    <3>1. 1 \in 1 .. Len(filling)
      BY <1>1, <2>2
    <3> QED BY <1>1, <1>2, <1>3, <3>1
  <2> QED BY <2>1, <2>2
<1>7. \A r \in DOMAIN results : results[r].root \in 1 .. Base
  BY DEF Refs
<1>8. ASSUME NEW r \in DOMAIN results
      PROVE  /\ results[r].root \in DOMAIN objects
             /\ \A k \in 1 .. Len(filling) : results[r].root < filling[k]
  <2>1. results[r].root \in 1 .. Base
    BY <1>7
  <2>2. results[r].root \in Nat /\ results[r].root =< Base /\ results[r].root \in 1 .. Len(objects)
    BY <1>1, <1>6, <2>1
  <2> HIDE DEF Shape
  <2>3. ASSUME NEW k \in 1 .. Len(filling) PROVE results[r].root < filling[k]
    <3>1. filling[k] \in Nat /\ filling[k] > Base /\ Base \in Nat
      BY <1>1, <1>2, <1>4, <1>6
    <3> QED BY <2>2, <3>1
  <2> QED BY <1>1, <2>2, <2>3
<1> HIDE DEF Shape
<1> QED BY <1>1, <1>2, <1>4, <1>5, <1>6, <1>8

(* Nothing is made: a call begins, goes on writing, or ends. *)
LEMMA QuietExports ==
    ASSUME Exports, UNCHANGED <<objects, results>>, filling = <<>>, filling' = <<>>,
           results = <<>> \/ Wanted' = Wanted,
           pc' = "unloaded" => results = <<>>,
           pc' = "export" => Exporting'
    PROVE  Exports'
<1>1. Ascending(objects)' /\ Separate' /\ AllHeld'
  BY DEF Exports, Ascending, Separate, AllHeld, Held
<1>2. Exact'
  BY DEF Exports, Exact
<1> QED BY <1>1, <1>2 DEF Exports

(* What is in an item is held. *)
LEMMA HeldIs ==
    ASSUME NEW i
    PROVE  Held(i) <=> \/ \E r \in DOMAIN results : results[r].root = i
                       \/ \E j \in DOMAIN objects : \E k \in DOMAIN objects[j].items :
                             objects[j].items[k] = Ref(i)
  BY DEF Held, Range

(* An open container gets an item, and the one that leaves the stack is it. *)
LEMMA PutExports ==
    ASSUME Shape, Shape', Exports, NEW n \in 1 .. Len(filling), NEW i, i = filling[n],
           NEW x \in Thing, Put(i, x),
           IsRef(x) => x.at \in i + 1 .. Len(objects) /\ x = Ref(x.at),
           \A j \in Range(filling) : j \in Range(filling') \/ (IsRef(x) /\ j = x.at),
           results' = results, Wanted' = Wanted
    PROVE  Ascending(objects)' /\ Separate' /\ Exact' /\ AllHeld'
<1> USE DEF Shape
<1>1. /\ i \in DOMAIN objects /\ i > Base /\ Base \in 0 .. Len(objects)
      /\ \A r \in DOMAIN results : results[r].root \in DOMAIN objects /\ results[r].root < i
  BY OpenOnes
<1>2. \A j \in DOMAIN objects : \A k \in DOMAIN objects[j].items :
         IsRef(objects[j].items[k]) => objects[j].items[k].at # i
  BY DEF Refs
<1>3. /\ Ascending(objects')
      /\ \A j \in DOMAIN objects \ {i} : Spelling(objects')[j] = Spelling(objects)[j]
  BY <1>1, <1>2, PutSpells DEF Exports
<1>4. /\ objects' \in Seq(Made) /\ Len(objects') = Len(objects)
      /\ \A j \in DOMAIN objects : j # i => objects'[j] = objects[j]
      /\ objects'[i].items \in Seq(Thing)
      /\ Len(objects'[i].items) = Len(objects[i].items) + 1
      /\ \A k \in DOMAIN objects[i].items : objects'[i].items[k] = objects[i].items[k]
      /\ objects'[i].items[Len(objects[i].items) + 1] = x
  BY <1>1, PutIs
<1> DEFINE n1 == Len(objects[i].items)
<1>5. /\ DOMAIN objects' = DOMAIN objects /\ DOMAIN objects = 1 .. Len(objects)
      /\ n1 \in Nat /\ DOMAIN objects[i].items = 1 .. n1 /\ DOMAIN objects'[i].items = 1 .. n1 + 1
  <2>1. objects[i].items \in Seq(Thing)
    BY <1>1, Elements
  <2> QED BY <1>4, <2>1, Elements
<1> HIDE DEF n1
<1>6. \A j \in DOMAIN objects : \A k \in DOMAIN objects'[j].items :
         \/ k \in DOMAIN objects[j].items /\ objects'[j].items[k] = objects[j].items[k]
         \/ j = i /\ k = n1 + 1 /\ objects'[j].items[k] = x
  <2>1. SUFFICES ASSUME NEW j \in DOMAIN objects, NEW k \in DOMAIN objects'[j].items
                 PROVE  \/ k \in DOMAIN objects[j].items /\ objects'[j].items[k] = objects[j].items[k]
                        \/ j = i /\ k = n1 + 1 /\ objects'[j].items[k] = x
    OBVIOUS
  <2>2. CASE j # i
    BY <1>4, <2>2
  <2>3. CASE j = i
    <3>1. k \in 1 .. n1 + 1
      BY <1>5, <2>3
    <3>2. k \in 1 .. n1 \/ k = n1 + 1
      BY <1>5, <3>1
    <3> QED BY <1>4, <1>5, <2>3, <3>2 DEF n1
  <2> QED BY <2>2, <2>3
<1>7. Separate'
  <2>1. SUFFICES ASSUME NEW r \in DOMAIN results, NEW j \in DOMAIN objects,
                        NEW k \in DOMAIN objects'[j].items,
                        IsRef(objects'[j].items[k]), j < results[r].root
                 PROVE  objects'[j].items[k].at < results[r].root
    BY <1>5 DEF Separate
  <2>2. j # i
    BY <1>1, <1>5, <2>1
  <2> QED BY <1>6, <2>1, <2>2 DEF Exports, Separate
<1>8. Exact'
  <2>1. \A r \in DOMAIN results : Spelling(objects')[results[r].root] = Spelling(objects)[results[r].root]
    <3>1. \A r \in DOMAIN results : results[r].root \in DOMAIN objects \ {i}
      BY <1>1, <1>5
    <3> QED BY <1>3, <3>1
  <2> QED BY <2>1 DEF Exports, Exact
<1>9. AllHeld'
  <2>1. SUFFICES ASSUME NEW m \in DOMAIN objects, m \notin Range(filling') PROVE Held(m)'
    BY <1>5 DEF AllHeld
  <2>2. CASE m \in Range(filling)
    <3>1. objects'[i].items[n1 + 1] = Ref(m)
      BY <1>4, <2>1, <2>2 DEF n1
    <3>2. n1 + 1 \in DOMAIN objects'[i].items /\ i \in DOMAIN objects'
      BY <1>1, <1>5
    <3> QED BY <3>1, <3>2 DEF Held, Range
  <2>3. CASE m \notin Range(filling)
    <3>1. Held(m)
      BY <2>3 DEF Exports, AllHeld
    <3>2. CASE \E r \in DOMAIN results : results[r].root = m
      BY <3>2 DEF Held, Range
    <3>3. CASE \E j \in DOMAIN objects : \E k \in DOMAIN objects[j].items : objects[j].items[k] = Ref(m)
      <4>0. PICK j \in DOMAIN objects : \E k \in DOMAIN objects[j].items : objects[j].items[k] = Ref(m)
        BY <3>3
      <4>1. PICK k \in DOMAIN objects[j].items : objects[j].items[k] = Ref(m)
        BY <4>0
      <4>2. k \in DOMAIN objects'[j].items /\ objects'[j].items[k] = Ref(m)
        <5>1. CASE j # i
          BY <1>4, <4>1, <5>1
        <5>2. CASE j = i
          <6>1. k \in 1 .. n1 /\ k \in 1 .. n1 + 1
            BY <1>5, <5>2
          <6> QED BY <1>4, <1>5, <4>1, <5>2, <6>1
        <5> QED BY <5>1, <5>2
      <4> QED BY <1>5, <4>1, <4>2 DEF Held, Range
    <3> QED BY <3>1, <3>2, <3>3, HeldIs
  <2> QED BY <2>2, <2>3
<1> QED BY <1>3, <1>7, <1>8, <1>9

(* A leaf is an item more of the container that is open last. *)
LEMMA LeafExports ==
    ASSUME Shape, Shape', Exports, ExportLeaf
    PROVE  Exports'
<1> USE DEF Shape
<1> DEFINE n == Len(filling)
           s == Begins(objects, filling)
           t == Begins(objects', filling)
           w == <<Current>>
<1>1. /\ pc = "export" /\ filling # <<>> /\ Current \in Leaf /\ Put(Inner, Current)
      /\ next' = next + 1 /\ UNCHANGED <<vars, kept, results, pc, view, filling>>
  BY DEF ExportLeaf
<1>2. Exporting /\ Ascending(objects)
  BY <1>1 DEF Exports
<1>3. /\ n \in 1 .. n /\ n \in Nat /\ Inner = filling[n] /\ Current \in Thing /\ ~IsRef(Current)
      /\ Current \in Token /\ Current = view[next] /\ view \in Seq(Token)
      /\ objects \in Seq(Made) /\ objects' \in Seq(Made) /\ filling \in Seq(Nat)
  BY <1>1, LeafIsNoRef DEF VTypes, Inner, Current, Token
<1>4. Wanted' = Wanted
  BY <1>1 DEF Wanted, vars, kept
<1>5. Ascending(objects)' /\ Separate' /\ Exact' /\ AllHeld'
  <2>1. Range(filling') = Range(filling) /\ results' = results
    BY <1>1
  <2>2. \A j \in Range(filling) : j \in Range(filling') \/ (IsRef(Current) /\ j = Current.at)
    <3> HIDE DEF n
    <3> QED BY ONLY <2>1
  <2>3. n \in 1 .. Len(filling) /\ Inner = filling[n] /\ Current \in Thing /\ Put(Inner, Current)
    BY <1>1, <1>3
  <2>4. IsRef(Current) => Current.at \in Inner + 1 .. Len(objects) /\ Current = Ref(Current.at)
    BY <1>3
  <2> HIDE DEF n, Shape
  <2> QED BY <1>4, <2>1, <2>2, <2>3, <2>4, PutExports
<1>6. /\ \A j \in DOMAIN objects \ {Inner} : Begun(objects', j) = Begun(objects, j)
      /\ Begun(objects', Inner) = Begun(objects, Inner) \o w
  <2>1. Inner \in DOMAIN objects
    BY <1>3, OpenOnes
  <2>2. \A j \in DOMAIN objects : \A k \in DOMAIN objects[j].items :
           IsRef(objects[j].items[k]) => objects[j].items[k].at # Inner
    BY <1>3 DEF Refs
  <2> QED BY <1>1, <1>2, <1>3, <2>1, <2>2, PutSpells
<1>7. /\ \A k \in 1 .. n : filling[k] \in DOMAIN objects /\ filling[k] \in DOMAIN objects'
      /\ \A k \in 1 .. n - 1 : k \in 1 .. n /\ filling[k] \in DOMAIN objects \ {Inner}
  <2>1. /\ \A k \in 1 .. n : filling[k] \in DOMAIN objects
        /\ \A k, m \in 1 .. n : filling[k] = filling[m] => k = m
    BY OpenOnes
  <2>2. DOMAIN objects' = DOMAIN objects
    <3>1. Inner \in DOMAIN objects
      BY <1>3, <2>1
    <3>2. Len(objects') = Len(objects)
      BY <1>1, <1>3, <3>1, PutIs
    <3> QED BY <1>3, <3>2
  <2>3. \A k \in 1 .. n - 1 : k \in 1 .. n /\ k # n
    BY <1>3
  <2> QED BY <1>3, <2>1, <2>2, <2>3
<1>8. /\ s \in Seq(Seq(Word)) /\ Len(s) = n /\ \A k \in 1 .. n : s[k] = Begun(objects, filling[k])
      /\ t \in Seq(Seq(Word)) /\ Len(t) = n /\ \A k \in 1 .. n : t[k] = Begun(objects', filling[k])
  <2>1. Ascending(objects')
    BY <1>5
  <2> QED BY <1>2, <1>3, <1>7, <2>1, BeginsAre
<1> HIDE DEF s, t
<1>9. FlattenSeq(t) = FlattenSeq(s) \o w
  <2>1. t[n] = s[n] \o w /\ \A k \in 1 .. n - 1 : t[k] = s[k]
    BY <1>3, <1>6, <1>7, <1>8
  <2>2. w \in Seq(Word) /\ s # <<>>
    BY <1>3, <1>8 DEF Word
  <2> HIDE DEF w, n
  <2> QED BY <1>8, <2>1, <2>2, FlattenGrows
<1>10. /\ view \in Views /\ Balanced(view) /\ next \in 1 .. Len(view)
       /\ n = OpenBefore(view, next) /\ FlattenSeq(s) = SubSeq(view, 1, next - 1)
  BY <1>2 DEF Exporting, s
<1>11. /\ OpenBefore(view, next + 1) = n /\ next + 1 \in 1 .. Len(view)
       /\ SubSeq(view, 1, next) = SubSeq(view, 1, next - 1) \o w
  <2>1. Weight(view[next]) = 0
    BY <1>1, <1>3, TokenIs
  <2>2. /\ OpenBefore(view, next + 1) = n + Weight(view[next])
        /\ OpenBefore(view, next + 1) >= 1 => next + 1 \in 1 .. Len(view)
        /\ SubSeq(view, 1, next) = SubSeq(view, 1, next - 1) \o w
    BY <1>3, <1>10, NextToken
  <2>3. OpenBefore(view, next + 1) = n /\ n \in Nat /\ n >= 1
    BY <1>3, <2>1, <2>2
  <2> HIDE DEF n, w
  <2> QED BY <2>2, <2>3
<1>12. Exporting'
  <2>1. Views' = Views
    BY <1>1 DEF Views, kept
  <2>2. next' - 1 = next
    BY <1>1, <1>10
  <2>3. FlattenSeq(t) = SubSeq(view, 1, next)
    BY <1>9, <1>10, <1>11
  <2> QED BY <1>1, <1>10, <1>11, <2>1, <2>2, <2>3 DEF Exporting, t
<1> QED BY <1>1, <1>5, <1>12 DEF Exports

(* Containers that are the same and hold only such have begun the same. *)
LEMMA BegunAlike ==
    ASSUME NEW made \in Seq(Made), NEW more \in Seq(Made), Ascending(made), Ascending(more),
           NEW S \in SUBSET (DOMAIN made \cap DOMAIN more),
           \A i \in S : /\ more[i] = made[i]
                        /\ \A k \in DOMAIN made[i].items :
                              IsRef(made[i].items[k]) => made[i].items[k].at \in S
    PROVE  \A i \in S : Begun(more, i) = Begun(made, i)
<1>1. \A i \in S : Spelling(more)[i] = Spelling(made)[i]
  BY SpelledAlike
<1>2. SUFFICES ASSUME NEW i \in S PROVE Begun(more, i) = Begun(made, i)
  OBVIOUS
<1>3. more[i] = made[i]
  OBVIOUS
<1>4. Words(more, Spelling(more), i) = Words(made, Spelling(made), i)
  BY <1>1, <1>3 DEF Words
<1> QED BY <1>3, <1>4 DEF Begun

(* A new container has begun with its kind, and changes no other. *)
LEMMA NewBegun ==
    ASSUME NEW made \in Seq(Made), Ascending(made), NEW c \in Made, c.items = <<>>
    PROVE  /\ Append(made, c) \in Seq(Made) /\ Ascending(Append(made, c))
           /\ \A i \in DOMAIN made : /\ Append(made, c)[i] = made[i]
                                     /\ Spelling(Append(made, c))[i] = Spelling(made)[i]
                                     /\ Begun(Append(made, c), i) = Begun(made, i)
           /\ Begun(Append(made, c), Len(made) + 1) = <<[kind |-> c.kind]>>
<1> DEFINE more == Append(made, c)
           m == Len(made)
<1>1. /\ more \in Seq(Made) /\ Len(more) = m + 1 /\ m \in Nat
      /\ DOMAIN made = 1 .. m /\ DOMAIN more = 1 .. m + 1
      /\ \A i \in 1 .. m : more[i] = made[i]
      /\ more[m + 1] = c
  OBVIOUS
<1> HIDE DEF more
<1>2. Ascending(more)
  <2>1. SUFFICES ASSUME NEW j \in 1 .. m + 1, NEW k \in DOMAIN more[j].items, IsRef(more[j].items[k])
                 PROVE  more[j].items[k].at \in j + 1 .. m + 1
    BY <1>1 DEF Ascending
  <2>2. CASE j = m + 1
    <3>1. DOMAIN <<>> = {}
      OBVIOUS
    <3> QED BY <1>1, <2>1, <2>2, <3>1
  <2>3. CASE j # m + 1
    <3>1. j \in 1 .. m /\ more[j] = made[j]
      BY <1>1, <2>3
    <3>2. more[j].items[k].at \in j + 1 .. m
      BY <1>1, <2>1, <3>1 DEF Ascending
    <3> QED BY <1>1, <3>1, <3>2
  <2> QED BY <2>2, <2>3
<1> DEFINE S == DOMAIN made
<1>3. /\ S \in SUBSET (DOMAIN made \cap DOMAIN more)
      /\ \A i \in S : /\ more[i] = made[i]
                      /\ \A k \in DOMAIN made[i].items :
                            IsRef(made[i].items[k]) => made[i].items[k].at \in S
  <2>1. \A i \in S : i + 1 .. m \subseteq S
    BY <1>1
  <2> QED BY <1>1, <2>1 DEF Ascending
<1>4. \A i \in S : Spelling(more)[i] = Spelling(made)[i] /\ Begun(more, i) = Begun(made, i)
  <2> HIDE DEF S
  <2> QED BY <1>1, <1>2, <1>3, SpelledAlike, BegunAlike
<1>5. Begun(more, m + 1) = <<[kind |-> c.kind]>>
  <2> DEFINE h == <<[kind |-> c.kind]>>
             w == Words(more, Spelling(more), m + 1)
  <2>1. w = <<>>
    BY <1>1 DEF Words
  <2>2. FlattenSeq(w) = <<>>
    <3> HIDE DEF w
    <3> QED BY <2>1 DEF FlattenSeq
  <2>3. h \in Seq(Word)
    BY DEF Made, Word, Token
  <2>4. Begun(more, m + 1) = h \o FlattenSeq(w)
    BY <1>1 DEF Begun
  <2> HIDE DEF h, w
  <2>5. h \o <<>> = h
    BY <2>3, ConcatEmptySeq
  <2> QED BY <2>2, <2>4, <2>5 DEF h
<1> QED BY <1>1, <1>2, <1>4, <1>5 DEF more

(* A container is opened: it has begun with its kind. *)
LEMMA OpenExports ==
    ASSUME Shape, Shape', Exports, ExportOpen
    PROVE  Exports'
<1> USE DEF Shape
<1> DEFINE c == [kind |-> Current.kind, items |-> <<>>]
           m == Len(objects)
           n == Len(filling)
           s == Begins(objects, filling)
           t == Begins(objects', filling')
           w == <<Current>>
<1>1. /\ pc = "export" /\ Opens(Current)
      /\ objects' = Append(objects, c) /\ filling' = Append(filling, m + 1)
      /\ next' = next + 1 /\ UNCHANGED <<vars, kept, results, pc, view>>
  BY DEF ExportOpen
<1>2. Exporting /\ Ascending(objects)
  BY <1>1 DEF Exports
<1>3. /\ objects \in Seq(Made) /\ m \in Nat /\ filling \in Seq(Nat) /\ n \in Nat
      /\ view \in Seq(Token) /\ view \in Views /\ Balanced(view) /\ next \in 1 .. Len(view)
      /\ n = OpenBefore(view, next) /\ FlattenSeq(s) = SubSeq(view, 1, next - 1)
      /\ objects' \in Seq(Made) /\ filling' \in Seq(Nat)
      /\ DOMAIN objects = 1 .. m /\ DOMAIN filling = 1 .. n
  BY <1>2 DEF VTypes, Exporting
<1>4. /\ Current \in Token /\ Current = view[next] /\ Weight(Current) = 1
      /\ Current = [kind |-> Current.kind]
  <2>1. Current \in Token /\ Current = view[next]
    BY <1>3 DEF Current
  <2> QED BY <1>1, <2>1, TokenIs
<1>5. c \in Made /\ c.items = <<>> /\ c.kind = Current.kind
  BY <1>1 DEF Opens, Made
<1> HIDE DEF c
<1>0. m \in Nat /\ n \in Nat
  BY <1>3
<1>6. /\ Ascending(objects')
      /\ \A i \in DOMAIN objects : /\ objects'[i] = objects[i]
                                   /\ Spelling(objects')[i] = Spelling(objects)[i]
                                   /\ Begun(objects', i) = Begun(objects, i)
      /\ Begun(objects', m + 1) = w
  <2>1. /\ Ascending(objects')
        /\ \A i \in DOMAIN objects : /\ objects'[i] = objects[i]
                                     /\ Spelling(objects')[i] = Spelling(objects)[i]
                                     /\ Begun(objects', i) = Begun(objects, i)
        /\ Begun(objects', m + 1) = <<[kind |-> c.kind]>>
    BY <1>1, <1>2, <1>3, <1>5, NewBegun
  <2> QED BY <1>4, <1>5, <2>1
<1>7. /\ DOMAIN objects' = 1 .. m + 1 /\ Len(filling') = n + 1 /\ filling'[n + 1] = m + 1
      /\ \A k \in 1 .. n : filling'[k] = filling[k]
      /\ DOMAIN filling' = 1 .. n + 1
  BY <1>1, <1>3
<1>8. /\ \A k \in 1 .. n : filling[k] \in DOMAIN objects
      /\ \A r \in DOMAIN results : results[r].root \in DOMAIN objects
  BY OpenOnes
<1> HIDE DEF m, n, s, t, w
<1>9. Separate'
  <2>1. SUFFICES ASSUME NEW r \in DOMAIN results, NEW j \in DOMAIN objects',
                        NEW k \in DOMAIN objects'[j].items,
                        IsRef(objects'[j].items[k]), j < results[r].root
                 PROVE  objects'[j].items[k].at < results[r].root
    BY <1>1 DEF Separate
  <2>2. j \in DOMAIN objects
    BY <1>3, <1>7, <1>8, <2>1
  <2> QED BY <1>6, <2>1, <2>2 DEF Exports, Separate
<1>10. Exact'
  <2>1. \A r \in DOMAIN results : Spelling(objects')[results[r].root] = Spelling(objects)[results[r].root]
    BY <1>6, <1>8
  <2>2. results' = results /\ Wanted' = Wanted
    BY <1>1 DEF Wanted, vars, kept
  <2> QED BY <2>1, <2>2 DEF Exports, Exact
<1>11. AllHeld'
  <2>1. SUFFICES ASSUME NEW i \in DOMAIN objects', i \notin Range(filling') PROVE Held(i)'
    BY DEF AllHeld
  <2>2. n + 1 \in DOMAIN filling' /\ \A k \in 1 .. n : k \in DOMAIN filling'
    BY <1>3, <1>7
  <2>3. i # m + 1 /\ \A k \in 1 .. n : i # filling[k]
    BY <1>7, <2>1, <2>2 DEF Range
  <2>4. i \in DOMAIN objects /\ i \notin Range(filling)
    BY <1>3, <1>7, <2>3 DEF Range
  <2>5. Held(i)
    BY <2>4 DEF Exports, AllHeld
  <2>6. CASE \E r \in DOMAIN results : results[r].root = i
    BY <1>1, <2>6 DEF Held, Range
  <2>7. CASE \E j \in DOMAIN objects : \E k \in DOMAIN objects[j].items : objects[j].items[k] = Ref(i)
    <3>1. PICK j \in DOMAIN objects : \E k \in DOMAIN objects[j].items : objects[j].items[k] = Ref(i)
      BY <2>7
    <3>2. j \in DOMAIN objects' /\ objects'[j] = objects[j]
      BY <1>3, <1>6, <1>7
    <3> QED BY <3>1, <3>2 DEF Held, Range
  <2> QED BY <2>5, <2>6, <2>7, HeldIs
<1>12. Exporting'
  <2>1. /\ s \in Seq(Seq(Word)) /\ Len(s) = n /\ \A k \in 1 .. n : s[k] = Begun(objects, filling[k])
    BY <1>2, <1>3, <1>8, BeginsAre DEF n, s
  <2>2. /\ t \in Seq(Seq(Word)) /\ Len(t) = n + 1
        /\ \A k \in 1 .. n + 1 : t[k] = Begun(objects', filling'[k])
    <3>1. \A k \in 1 .. n + 1 : filling'[k] \in DOMAIN objects'
      <4>1. m + 1 \in 1 .. m + 1 /\ \A k \in 1 .. n + 1 : k \in 1 .. n \/ k = n + 1
        BY <1>0
      <4>2. \A i \in 1 .. m : i \in 1 .. m + 1
        BY <1>0
      <4> QED BY <1>3, <1>7, <1>8, <4>1, <4>2
    <3> QED BY <1>3, <1>6, <1>7, <3>1, BeginsAre DEF t
  <2>3. w \in Seq(Word)
    BY <1>4 DEF w, Word
  <2>4. t = Append(s, w)
    <3> DEFINE a == Append(s, w)
    <3>1. a \in Seq(Seq(Word)) /\ Len(a) = n + 1 /\ a[n + 1] = w /\ \A k \in 1 .. n : a[k] = s[k]
      BY <1>3, <2>1, <2>3
    <3> HIDE DEF a
    <3>2. ASSUME NEW k \in 1 .. n + 1 PROVE a[k] = t[k]
      <4>1. CASE k = n + 1
        BY <1>6, <1>7, <2>2, <3>1, <4>1
      <4>2. CASE k \in 1 .. n
        BY <1>6, <1>7, <1>8, <2>1, <2>2, <3>1, <4>2
      <4> QED BY <1>0, <4>1, <4>2
    <3>3. a = t
      BY <2>2, <3>1, <3>2, SeqEqual
    <3> QED BY <3>3 DEF a
  <2>5. FlattenSeq(t) = FlattenSeq(s) \o w
    BY <2>1, <2>3, <2>4, FlattenAppend
  <2>6. /\ OpenBefore(view, next + 1) = n + 1 /\ next + 1 \in 1 .. Len(view)
        /\ SubSeq(view, 1, next) = SubSeq(view, 1, next - 1) \o w
    <3>1. /\ OpenBefore(view, next + 1) = OpenBefore(view, next) + Weight(view[next])
          /\ OpenBefore(view, next + 1) >= 1 => next + 1 \in 1 .. Len(view)
          /\ SubSeq(view, 1, next) = SubSeq(view, 1, next - 1) \o <<view[next]>>
      BY <1>3, NextToken
    <3>2. OpenBefore(view, next + 1) = n + 1 /\ n + 1 >= 1
      BY <1>3, <1>4, <3>1
    <3> QED BY <1>4, <3>1, <3>2 DEF w
  <2>7. Views' = Views
    BY <1>1 DEF Views, kept
  <2>8. next' - 1 = next
    BY <1>1, <1>3
  <2>9. FlattenSeq(t) = SubSeq(view, 1, next)
    BY <1>3, <2>5, <2>6
  <2> QED BY <1>1, <1>3, <1>7, <2>6, <2>7, <2>8, <2>9 DEF Exporting, t
<1> QED BY <1>1, <1>6, <1>9, <1>10, <1>11, <1>12 DEF Exports

(* A container ends: what it spells goes to the one it is an item of.       *)
LEMMA HoldExports ==
    ASSUME Shape, Shape', Exports, ExportClose, Len(filling) > 1
    PROVE  Exports'
<1> USE DEF Shape
<1> DEFINE n == Len(filling)
           p == filling[n - 1]
           top == filling[n]
           s == Begins(objects, filling)
           t == Begins(objects', filling')
           w == <<Current>>
<1>1. /\ pc = "export" /\ Current.kind = "end" /\ Inner = top /\ Put(p, Ref(top))
      /\ filling' = Front(filling) /\ next' = next + 1
      /\ UNCHANGED <<vars, kept, results, pc, view>>
  BY DEF ExportClose, Inner
<1>2. Exporting /\ Ascending(objects)
  BY <1>1 DEF Exports
<1>3. /\ objects \in Seq(Made) /\ filling \in Seq(Nat)
      /\ view \in Seq(Token) /\ view \in Views /\ Balanced(view) /\ next \in 1 .. Len(view)
      /\ n = OpenBefore(view, next) /\ FlattenSeq(s) = SubSeq(view, 1, next - 1)
      /\ objects' \in Seq(Made)
  BY <1>2 DEF VTypes, Exporting
<1>4. n \in Nat /\ n > 1 /\ n \in 1 .. n /\ n - 1 \in 1 .. n /\ 1 \in 1 .. n
  BY <1>3
<1>5. /\ \A k \in 1 .. n : filling[k] \in DOMAIN objects
      /\ \A k, m \in 1 .. n : filling[k] = filling[m] => k = m
      /\ \A r \in DOMAIN results : results[r].root \in DOMAIN objects
  BY OpenOnes
<1>6. /\ filling' \in Seq(Nat) /\ Len(filling') = n - 1
      /\ \A k \in 1 .. n - 1 : filling'[k] = filling[k]
  BY <1>1, <1>3, <1>4 DEF Front
<1>7. /\ p \in DOMAIN objects /\ top \in DOMAIN objects /\ top \in p + 1 .. Len(objects) /\ top \in Nat
  <2>1. p \in 1 .. Len(objects) /\ top \in 1 .. Len(objects) /\ p < top
    BY <1>4 DEF Stack
  <2>2. Len(objects) \in Nat /\ DOMAIN objects = 1 .. Len(objects)
    BY <1>3
  <2> HIDE DEF p, top
  <2> QED BY <2>1, <2>2
<1>8. /\ \A j \in DOMAIN objects : \A k \in DOMAIN objects[j].items :
            IsRef(objects[j].items[k]) => objects[j].items[k].at # p
      /\ Ref(top) \in Thing /\ IsRef(Ref(top)) /\ Ref(top).at = top
  BY <1>4, <1>7, RefIsThing DEF Refs
<1>9. /\ Current \in Token /\ Current = view[next] /\ Weight(Current) = -1 /\ Current = Ending
  <2>1. Current \in Token /\ Current = view[next]
    BY <1>3 DEF Current
  <2> QED BY <1>1, <2>1, TokenIs
<1> HIDE DEF p, top
<1>10. Ascending(objects)' /\ Separate' /\ Exact' /\ AllHeld'
  <2>1. \A j \in Range(filling) : j \in Range(filling') \/ (IsRef(Ref(top)) /\ j = Ref(top).at)
    <3>0. \A j \in Range(filling) : \E k \in 1 .. n : j = filling[k]
      BY <1>3 DEF Range
    <3>1. SUFFICES ASSUME NEW k \in 1 .. n, k # n PROVE filling[k] \in Range(filling')
      <4> HIDE DEF n, Shape
      <4> QED BY <1>8, <3>0 DEF top
    <3>2. k \in 1 .. n - 1
      BY <1>4, <3>1
    <3>3. k \in DOMAIN filling' /\ filling'[k] = filling[k]
      <4> HIDE DEF n
      <4> QED BY <1>6, <3>2
    <3> QED BY <3>3 DEF Range
  <2>2. results' = results /\ Wanted' = Wanted
    BY <1>1 DEF Wanted, vars, kept
  <2>3. n - 1 \in 1 .. Len(filling) /\ p = filling[n - 1] /\ Put(p, Ref(top))
    BY <1>1, <1>4 DEF p
  <2> HIDE DEF n, Shape
  <2> QED BY <1>7, <1>8, <2>1, <2>2, <2>3, PutExports
<1>11. /\ \A j \in DOMAIN objects \ {p} : Begun(objects', j) = Begun(objects, j)
       /\ Begun(objects', p) = Begun(objects, p) \o (Begun(objects, top) \o w)
  <2>1. /\ \A j \in DOMAIN objects \ {p} : Begun(objects', j) = Begun(objects, j)
        /\ Begun(objects', p) = Begun(objects, p) \o Spelling(objects)[top]
    <3>1. VTypes
      OBVIOUS
    <3> HIDE DEF Shape
    <3>2. IsRef(Ref(top)) => Ref(top).at \in p + 1 .. Len(objects)
      BY <1>7, <1>8
    <3>3. Ascending(objects) /\ Put(p, Ref(top)) /\ p \in DOMAIN objects /\ Ref(top) \in Thing
      BY <1>1, <1>2, <1>7, <1>8
    <3>4. /\ \A j \in DOMAIN objects \ {p} :
                /\ Spelling(objects')[j] = Spelling(objects)[j]
                /\ Begun(objects', j) = Begun(objects, j)
          /\ Begun(objects', p) =
                Begun(objects, p) \o
                   (IF IsRef(Ref(top)) THEN Spelling(objects)[Ref(top).at] ELSE <<Ref(top)>>)
      BY <1>8, <3>1, <3>2, <3>3, PutSpells
    <3> QED BY <1>8, <3>4
  <2>2. Spelling(objects)[top] = Begun(objects, top) \o <<Ending>>
    BY <1>2, <1>3, <1>7, BegunIs
  <2> QED BY <1>9, <2>1, <2>2
<1>12. /\ s \in Seq(Seq(Word)) /\ Len(s) = n /\ \A k \in 1 .. n : s[k] = Begun(objects, filling[k])
  BY <1>2, <1>3, <1>5, BeginsAre
<1>13. /\ t \in Seq(Seq(Word)) /\ Len(t) = n - 1
       /\ \A k \in 1 .. n - 1 : t[k] = Begun(objects', filling'[k])
  <2>1. Len(objects') = Len(objects)
    BY <1>1, <1>7, <1>8, PutIs
  <2>2. DOMAIN objects' = DOMAIN objects
    BY <1>3, <2>1
  <2>3. \A k \in 1 .. n - 1 : k \in 1 .. n
    BY <1>4
  <2>4. \A k \in 1 .. n - 1 : filling'[k] \in DOMAIN objects'
    BY <1>5, <1>6, <2>2, <2>3
  <2>5. Ascending(objects')
    BY <1>10
  <2> HIDE DEF n
  <2> QED BY <1>3, <1>6, <2>4, <2>5, BeginsAre
<1> HIDE DEF n, s, t, w, Shape
<1>14. FlattenSeq(t) = FlattenSeq(s) \o w
  <2>1. ASSUME NEW k \in 1 .. n - 2 PROVE t[k] = s[k]
    <3>1. k \in 1 .. n - 1 /\ k \in 1 .. n /\ k # n - 1
      BY <1>4
    <3>2. filling[k] \in DOMAIN objects \ {p}
      BY <1>4, <1>5, <3>1 DEF p
    <3> QED BY <1>6, <1>11, <1>12, <1>13, <3>1, <3>2
  <2>2. t[n - 1] = s[n - 1] \o (s[n] \o w)
    <3>1. n - 1 \in 1 .. n - 1
      BY <1>4
    <3>2. t[n - 1] = Begun(objects', p)
      BY <1>6, <1>13, <3>1 DEF p
    <3>3. s[n - 1] = Begun(objects, p) /\ s[n] = Begun(objects, top)
      BY <1>4, <1>12 DEF p, top
    <3> QED BY <1>11, <3>2, <3>3
  <2>3. w \in Seq(Word)
    BY <1>9 DEF w, Word
  <2> QED BY <1>4, <1>12, <1>13, <2>1, <2>2, <2>3, FlattenFolds
<1>15. /\ OpenBefore(view, next + 1) = n - 1 /\ next + 1 \in 1 .. Len(view)
       /\ SubSeq(view, 1, next) = SubSeq(view, 1, next - 1) \o w
  <2>1. /\ OpenBefore(view, next + 1) = OpenBefore(view, next) + Weight(view[next])
        /\ OpenBefore(view, next + 1) >= 1 => next + 1 \in 1 .. Len(view)
        /\ SubSeq(view, 1, next) = SubSeq(view, 1, next - 1) \o <<view[next]>>
    BY <1>3, NextToken
  <2>2. OpenBefore(view, next + 1) = n - 1 /\ n - 1 >= 1
    BY <1>3, <1>4, <1>9, <2>1
  <2> QED BY <1>9, <2>1, <2>2 DEF w
<1>16. Exporting'
  <2>1. Views' = Views
    BY <1>1 DEF Views, kept
  <2>2. next' - 1 = next
    BY <1>1, <1>3
  <2>3. FlattenSeq(t) = SubSeq(view, 1, next)
    BY <1>3, <1>14, <1>15
  <2> QED BY <1>1, <1>3, <1>6, <1>15, <2>1, <2>2, <2>3 DEF Exporting, t
<1> QED BY <1>1, <1>10, <1>16 DEF Exports

(* The last container ends: a result spells the view it was exported from. *)
LEMMA ResultExports ==
    ASSUME Shape, Exports, ValueNeverChanges, ExportClose, ~(Len(filling) > 1)
    PROVE  Exports'
<1> USE DEF Shape
<1> DEFINE top == filling[1]
           r0 == [root |-> top, of |-> view, touched |-> FALSE]
           n == Len(results)
           s == Begins(objects, filling)
<1>1. /\ pc = "export" /\ Current.kind = "end" /\ filling # <<>>
      /\ results' = Append(results, [root |-> Inner, of |-> view, touched |-> FALSE])
      /\ pc' = "idle" /\ filling' = <<>> /\ objects' = objects
      /\ UNCHANGED <<vars, kept>>
  BY DEF ExportClose, Returned
<1>2. Exporting /\ Ascending(objects)
  BY <1>1 DEF Exports
<1>3. /\ objects \in Seq(Made) /\ filling \in Seq(Nat) /\ results \in Seq(Result)
      /\ view \in Seq(Token) /\ view \in Views /\ Balanced(view) /\ next \in 1 .. Len(view)
      /\ Len(filling) = OpenBefore(view, next) /\ FlattenSeq(s) = SubSeq(view, 1, next - 1)
  BY <1>2 DEF VTypes, Exporting
<1>4. Len(filling) = 1 /\ Inner = top
  BY <1>1, <1>3 DEF Inner
<1>5. top \in DOMAIN objects /\ Base = top - 1 /\ top \in Nat /\ 1 \in 1 .. Len(filling)
  BY <1>1, <1>3, <1>4 DEF Stack, Base
<1>6. /\ n \in Nat /\ results' = Append(results, r0) /\ DOMAIN results' = 1 .. n + 1
      /\ results'[n + 1] = r0 /\ DOMAIN results = 1 .. n
      /\ \A r \in 1 .. n : results'[r] = results[r]
      /\ r0.root = top /\ r0.of = view
  BY <1>1, <1>3, <1>4
<1> HIDE DEF top, r0, n
<1>7. \A r \in 1 .. n + 1 : r \in 1 .. n \/ r = n + 1
  BY <1>6
<1>8. Spelling(objects)[top] = view
  <2> DEFINE e == Begun(objects, top)
  <2>1. e \in Seq(Word) /\ Spelling(objects)[top] = e \o <<Ending>>
    BY <1>2, <1>3, <1>5, BegunIs
  <2>2. FlattenSeq(s) = e
    <3>1. s \in Seq(Seq(Word)) /\ Len(s) = 1 /\ s[1] = e
      <4>1. \A k \in 1 .. Len(filling) : filling[k] \in DOMAIN objects
        BY OpenOnes
      <4>2. /\ s \in Seq(Seq(Word)) /\ Len(s) = Len(filling)
            /\ \A k \in 1 .. Len(filling) : s[k] = Begun(objects, filling[k])
        BY <1>2, <1>3, <4>1, BeginsAre
      <4> HIDE DEF s
      <4> QED BY <1>4, <1>5, <4>2 DEF top
    <3> HIDE DEF s, e
    <3>2. s = Append(<<>>, e)
      BY <2>1, <3>1
    <3>3. <<>> \in Seq(Seq(Word))
      OBVIOUS
    <3>4. FlattenSeq(<<>>) = <<>>
      BY DEF FlattenSeq
    <3>5. FlattenSeq(s) = <<>> \o e
      BY <2>1, <3>2, <3>3, <3>4, FlattenAppend
    <3> QED BY <2>1, <3>5, ConcatEmptySeq
  <2>3. /\ Current \in Token /\ Current = view[next] /\ Weight(Current) = -1 /\ Current = Ending
    <3>1. Current \in Token /\ Current = view[next]
      BY <1>3 DEF Current
    <3> QED BY <1>1, <3>1, TokenIs
  <2>4. next = Len(view) /\ SubSeq(view, 1, next) = SubSeq(view, 1, next - 1) \o <<view[next]>>
    <3>1. /\ OpenBefore(view, next + 1) = OpenBefore(view, next) + Weight(view[next])
          /\ OpenBefore(view, next + 1) = 0 => next = Len(view)
          /\ SubSeq(view, 1, next) = SubSeq(view, 1, next - 1) \o <<view[next]>>
      BY <1>3, NextToken
    <3> QED BY <1>3, <1>4, <2>3, <3>1
  <2>5. SubSeq(view, 1, next) = view
    BY <1>3, <2>4, SubSeqFull
  <2> HIDE DEF e
  <2> QED BY <1>3, <2>1, <2>2, <2>3, <2>4, <2>5
<1>9. Wanted' = Wanted /\ view \in Wanted
  <2>1. value = out
    BY <1>1 DEF ValueNeverChanges
  <2> QED BY <1>1, <1>3, <2>1 DEF Wanted, Views, vars, kept
<1>10. Separate'
  <2>1. SUFFICES ASSUME NEW r \in 1 .. n + 1, NEW j \in DOMAIN objects,
                        NEW k \in DOMAIN objects[j].items,
                        IsRef(objects[j].items[k]), j < results'[r].root
                 PROVE  objects[j].items[k].at < results'[r].root
    BY <1>1, <1>6 DEF Separate
  <2>2. CASE r \in 1 .. n
    BY <1>6, <2>1, <2>2 DEF Exports, Separate
  <2>3. CASE r = n + 1
    <3>1. j \in 1 .. Len(objects) /\ j < top /\ Len(objects) \in Nat
      BY <1>3, <1>6, <2>1, <2>3
    <3>2. objects[j].items[k].at \in 1 .. Len(objects) /\ (j =< Base => objects[j].items[k].at =< Base)
      BY <2>1 DEF Refs
    <3> QED BY <1>5, <1>6, <2>3, <3>1, <3>2
  <2> QED BY <1>7, <2>2, <2>3
<1>11. Exact'
  <2>1. SUFFICES ASSUME NEW r \in 1 .. n + 1
                 PROVE  /\ results'[r].of \in Wanted
                        /\ ~results'[r].touched => Spelling(objects)[results'[r].root] = results'[r].of
    BY <1>1, <1>6, <1>9 DEF Exact
  <2>2. CASE r \in 1 .. n
    BY <1>6, <2>2 DEF Exports, Exact
  <2>3. CASE r = n + 1
    BY <1>6, <1>8, <1>9, <2>3
  <2> QED BY <1>7, <2>2, <2>3
<1>12. AllHeld'
  <2>1. SUFFICES ASSUME NEW i \in DOMAIN objects PROVE Held(i)'
    BY <1>1 DEF AllHeld
  <2>2. CASE i = top
    <3>1. n + 1 \in DOMAIN results'
      BY <1>6
    <3> QED BY <1>6, <2>2, <3>1 DEF Held, Range
  <2>3. CASE i # top
    <3>1. Range(filling) = {top}
      BY <1>3, <1>4 DEF Range, top
    <3>2. Held(i)
      BY <2>3, <3>1 DEF Exports, AllHeld
    <3>3. CASE \E r \in DOMAIN results : results[r].root = i
      <4>1. PICK r \in DOMAIN results : results[r].root = i
        BY <3>3
      <4>2. r \in DOMAIN results' /\ results'[r].root = i
        BY <1>6, <4>1
      <4> QED BY <4>2 DEF Held, Range
    <3>4. CASE \E j \in DOMAIN objects : \E k \in DOMAIN objects[j].items : objects[j].items[k] = Ref(i)
      BY <1>1, <3>4 DEF Held, Range
    <3> QED BY <3>2, <3>3, <3>4, HeldIs
  <2> QED BY <2>2, <2>3
<1> QED BY <1>1, <1>2, <1>10, <1>11, <1>12 DEF Exports

(* An export that fails leaves what was there before it, all of it held. *)
LEMMA FailExports ==
    ASSUME Shape, Exports, NEW f, ExportFails(f)
    PROVE  Exports'
<1> USE DEF Shape
<1>1. /\ pc = "export" /\ pc' = "idle" /\ filling' = <<>>
      /\ objects' = IF filling = <<>> THEN objects ELSE SubSeq(objects, 1, filling[1] - 1)
      /\ UNCHANGED <<vars, kept, results>>
  BY DEF ExportFails, ExportFailure, Returned
<1>2. Wanted' = Wanted
  BY <1>1 DEF Wanted, vars, kept
<1>3. CASE filling = <<>>
  <2>1. UNCHANGED <<objects, results>> /\ pc' # "unloaded" /\ pc' # "export"
    BY <1>1, <1>3
  <2> QED BY <1>1, <1>2, <1>3, <2>1, QuietExports
<1>4. CASE filling # <<>>
  <2>1. /\ Base \in 0 .. Len(objects) /\ \A k \in 1 .. Len(filling) : filling[k] > Base
        /\ \A r \in DOMAIN results : results[r].root \in 1 .. Base
        /\ objects \in Seq(Made) /\ Len(objects) \in Nat /\ DOMAIN objects = 1 .. Len(objects)
        /\ DOMAIN filling = 1 .. Len(filling)
    BY OpenOnes, Elements DEF Refs, VTypes
  <2>2. objects' = SubSeq(objects, 1, Base)
    BY <1>1, <1>4 DEF Base
  <2> DEFINE B == Base
  <2>3. /\ B \in Nat /\ B =< Len(objects)
        /\ objects' \in Seq(Made) /\ Len(objects') = B /\ DOMAIN objects' = 1 .. B
        /\ \A j \in 1 .. B : j \in DOMAIN objects /\ objects'[j] = objects[j]
    <3> HIDE DEF Shape
    <3> QED BY <2>1, <2>2
  <2>4. \A j \in 1 .. B : \A k \in DOMAIN objects[j].items :
           IsRef(objects[j].items[k]) => objects[j].items[k].at \in j + 1 .. B
    <3>1. SUFFICES ASSUME NEW j \in 1 .. B, NEW k \in DOMAIN objects[j].items,
                          IsRef(objects[j].items[k])
                   PROVE  objects[j].items[k].at \in j + 1 .. B
      OBVIOUS
    <3>2. objects[j].items[k].at \in j + 1 .. Len(objects)
      BY <2>3, <3>1 DEF Exports, Ascending
    <3>3. objects[j].items[k].at =< Base
      BY <2>3, <3>1 DEF Refs
    <3> HIDE DEF Shape
    <3> QED BY <2>1, <2>3, <3>2, <3>3
  <2> HIDE DEF B, Shape
  <2>5. Ascending(objects')
    BY <2>3, <2>4 DEF Ascending
  <2>6. \A i \in 1 .. B : Spelling(objects')[i] = Spelling(objects)[i]
    <3> DEFINE S == 1 .. B
    <3>1. /\ S \in SUBSET (DOMAIN objects \cap DOMAIN objects')
          /\ \A i \in S : /\ objects'[i] = objects[i]
                          /\ \A k \in DOMAIN objects[i].items :
                                IsRef(objects[i].items[k]) => objects[i].items[k].at \in S
      <4>1. \A i \in S : i + 1 .. B \subseteq S
        BY <2>3
      <4> QED BY <2>3, <2>4, <4>1
    <3>2. Ascending(objects)
      BY DEF Exports
    <3> HIDE DEF S
    <3>3. \A i \in S : Spelling(objects')[i] = Spelling(objects)[i]
      BY <2>1, <2>3, <2>5, <3>1, <3>2, SpelledAlike
    <3> QED BY <3>3 DEF S
  <2>7. Separate'
    <3>1. SUFFICES ASSUME NEW r \in DOMAIN results, NEW j \in 1 .. B, NEW k \in DOMAIN objects'[j].items,
                          IsRef(objects'[j].items[k]), j < results[r].root
                   PROVE  objects'[j].items[k].at < results[r].root
      BY <1>1, <2>3 DEF Separate
    <3>2. j \in DOMAIN objects /\ objects'[j] = objects[j]
      BY <2>3
    <3> QED BY <3>1, <3>2 DEF Exports, Separate
  <2>8. Exact'
    <3>1. \A r \in DOMAIN results : Spelling(objects')[results[r].root] = Spelling(objects)[results[r].root]
      BY <2>1, <2>6 DEF B
    <3> QED BY <1>1, <1>2, <3>1 DEF Exports, Exact
  <2>9. AllHeld'
    <3>1. SUFFICES ASSUME NEW i \in 1 .. B PROVE Held(i)'
      BY <2>3 DEF AllHeld
    <3>2. i \in DOMAIN objects /\ i \notin Range(filling)
      <4>1. \A k \in 1 .. Len(filling) : i # filling[k]
        BY <2>1, <2>3 DEF B
      <4> QED BY <2>1, <2>3, <4>1 DEF Range
    <3>3. Held(i)
      BY <3>2 DEF Exports, AllHeld
    <3>4. CASE \E r \in DOMAIN results : results[r].root = i
      BY <1>1, <3>4 DEF Held, Range
    <3>5. CASE \E j \in DOMAIN objects : \E k \in DOMAIN objects[j].items : objects[j].items[k] = Ref(i)
      <4>1. PICK j \in DOMAIN objects : \E k \in DOMAIN objects[j].items : objects[j].items[k] = Ref(i)
        BY <3>5
      <4>2. PICK k \in DOMAIN objects[j].items : objects[j].items[k] = Ref(i)
        BY <4>1
      <4>3. IsRef(Ref(i)) /\ Ref(i).at = i
        BY <2>3, RefIsThing
      <4>4. i \in j + 1 .. Len(objects)
        BY <4>2, <4>3 DEF Exports, Ascending
      <4>5. j \in 1 .. B
        BY <2>1, <2>3, <4>4
      <4> QED BY <2>3, <4>2, <4>5 DEF Held, Range
    <3> QED BY <3>3, <3>4, <3>5, HeldIs
  <2> QED BY <1>1, <2>5, <2>7, <2>8, <2>9 DEF Exports
<1> QED BY <1>3, <1>4

(* What two results are made of is apart: what is below the one is not      *)
(* among the containers the other one is spelled from.                      *)
LEMMA ResultsApart ==
    ASSUME Shape, Exports, NEW r \in DOMAIN results, NEW s \in DOMAIN results, r # s,
           NEW i \in Under(results[r].root)
    PROVE  \E S \in SUBSET DOMAIN objects :
              /\ i \notin S /\ results[s].root \in S
              /\ \A j \in S : \A k \in DOMAIN objects[j].items :
                    IsRef(objects[j].items[k]) => objects[j].items[k].at \in S
<1> USE DEF Shape
<1> DEFINE a == results[r].root
           b == results[s].root
           At(j, k) == objects[j].items[k].at
<1>1. a \in DOMAIN objects /\ b \in DOMAIN objects /\ a # b
  BY OpenOnes DEF NothingShared
<1>2. /\ \A j \in DOMAIN objects : objects[j].items \in Seq(Thing)
      /\ DOMAIN objects = 1 .. Len(objects) /\ Len(objects) \in Nat
  BY Elements
<1>3. \A j \in DOMAIN objects : \A k \in DOMAIN objects[j].items :
         IsRef(objects[j].items[k]) => /\ At(j, k) \in DOMAIN objects
                                       /\ At(j, k) > j
                                       /\ j < a => At(j, k) < a
                                       /\ j < b => At(j, k) < b
  <2>1. \A j \in DOMAIN objects : \A m \in j + 1 .. Len(objects) : m \in DOMAIN objects /\ m > j
    BY <1>2
  <2> QED BY <2>1 DEF Exports, Ascending, Separate
<1> HIDE DEF Shape, a, b
<1>4. ASSUME NEW C, \A j \in C : j \in DOMAIN objects, a \in C,
             \A j \in C : \A k \in DOMAIN objects[j].items :
                IsRef(objects[j].items[k]) => At(j, k) \in C
      PROVE  i \in C
  <2>1. ASSUME NEW j \in C PROVE Holds(j) \subseteq C
    <3>1. SUFFICES ASSUME NEW x \in Range(objects[j].items), x.kind = "ref" PROVE x.at \in C
      BY DEF Holds
    <3>2. PICK k \in DOMAIN objects[j].items : x = objects[j].items[k]
      BY DEF Range
    <3> QED BY <1>4, <2>1, <3>1, <3>2 DEF IsRef
  <2>2. Under(a) \subseteq C
    BY <1>4, <2>1, UnderStays
  <2> QED BY <2>2 DEF a
<1>5. CASE a < b
  <2> DEFINE S == {j \in DOMAIN objects : ~(j < b)}
             C == {j \in DOMAIN objects : j < b}
  <2>1. \A j \in S : \A k \in DOMAIN objects[j].items : IsRef(objects[j].items[k]) => At(j, k) \in S
    BY <1>1, <1>2, <1>3
  <2>2. \A j \in C : \A k \in DOMAIN objects[j].items : IsRef(objects[j].items[k]) => At(j, k) \in C
    BY <1>3
  <2>3. a \in C /\ b \in S /\ \A j \in C : j \in DOMAIN objects
    BY <1>1, <1>2, <1>5
  <2>4. i \in C
    <3> HIDE DEF C
    <3> QED BY <1>4, <2>2, <2>3
  <2>5. i \notin S /\ S \in SUBSET DOMAIN objects
    BY <2>4
  <2> HIDE DEF S, C
  <2> QED BY <2>1, <2>3, <2>5 DEF b
<1>6. CASE b < a
  <2> DEFINE S == {j \in DOMAIN objects : j < a}
             C == {j \in DOMAIN objects : ~(j < a)}
  <2>1. \A j \in S : \A k \in DOMAIN objects[j].items : IsRef(objects[j].items[k]) => At(j, k) \in S
    BY <1>3
  <2>2. \A j \in C : \A k \in DOMAIN objects[j].items : IsRef(objects[j].items[k]) => At(j, k) \in C
    BY <1>1, <1>2, <1>3
  <2>3. a \in C /\ b \in S /\ \A j \in C : j \in DOMAIN objects
    BY <1>1, <1>2, <1>6
  <2>4. i \in C
    <3> HIDE DEF C
    <3> QED BY <1>4, <2>2, <2>3
  <2>5. i \notin S /\ S \in SUBSET DOMAIN objects
    BY <2>4
  <2> HIDE DEF S, C
  <2> QED BY <2>1, <2>3, <2>5 DEF b
<1> QED BY <1>1, <1>2, <1>5, <1>6

(* A caller changes what one result is made of, and no other result. *)
LEMMA ChangeExports ==
    ASSUME Shape, Shape', Exports, NEW r \in DOMAIN results, NEW i \in DOMAIN objects, Change(r, i)
    PROVE  Exports'
<1> USE DEF Shape
<1> DEFINE x == [kind |-> "changed"]
           n == [results[r] EXCEPT !.touched = TRUE]
<1>1. /\ pc # "export" /\ ~results[r].touched /\ i \in Under(results[r].root) /\ Put(i, x)
      /\ results' = [results EXCEPT ![r] = n] /\ UNCHANGED <<vars, kept, pc, call>>
  BY DEF Change
<1>2. filling = <<>> /\ filling' = <<>>
  BY <1>1 DEF Exports, call
<1>3. x \in Thing /\ ~IsRef(x)
  BY DEF Thing, IsRef
<1>4. /\ DOMAIN results' = DOMAIN results
      /\ \A s \in DOMAIN results : /\ results'[s].root = results[s].root
                                   /\ results'[s].of = results[s].of
                                   /\ ~results'[s].touched => s # r /\ ~results[s].touched
  <2>1. results \in Seq(Result) /\ results[r] \in Result
    BY Elements DEF VTypes
  <2>2. n.root = results[r].root /\ n.of = results[r].of /\ n.touched = TRUE
    BY <2>1 DEF Result
  <2> HIDE DEF n
  <2> QED BY <1>1, <2>1, <2>2
<1> HIDE DEF n, x
<1>5. /\ objects' \in Seq(Made) /\ Len(objects') = Len(objects)
      /\ \A j \in DOMAIN objects : j # i => objects'[j] = objects[j]
      /\ objects'[i].items \in Seq(Thing)
      /\ Len(objects'[i].items) = Len(objects[i].items) + 1
      /\ \A k \in DOMAIN objects[i].items : objects'[i].items[k] = objects[i].items[k]
  BY <1>1, <1>3, PutIs
<1>6. NoNewRef
  BY <1>1, <1>3, PlainPut
<1>7. objects \in Seq(Made) /\ DOMAIN objects' = DOMAIN objects /\ objects[i].items \in Seq(Thing)
  BY <1>5, Elements DEF VTypes
<1>8. Ascending(objects')
  BY <1>5, <1>6, <1>7 DEF NoNewRef, Exports, Ascending
<1>9. Separate'
  BY <1>4, <1>6, <1>7 DEF NoNewRef, Exports, Separate
<1>10. Exact'
  <2>1. Wanted' = Wanted
    BY <1>1 DEF Wanted, vars, kept
  <2>2. ASSUME NEW s \in DOMAIN results, ~results'[s].touched
        PROVE  Spelling(objects')[results[s].root] = Spelling(objects)[results[s].root]
    <3>1. s # r
      BY <1>4, <2>2
    <3>2. PICK S \in SUBSET DOMAIN objects :
             /\ i \notin S /\ results[s].root \in S
             /\ \A j \in S : \A k \in DOMAIN objects[j].items :
                   IsRef(objects[j].items[k]) => objects[j].items[k].at \in S
      BY <1>1, <3>1, ResultsApart
    <3>3. S \in SUBSET (DOMAIN objects \cap DOMAIN objects') /\ \A j \in S : objects'[j] = objects[j]
      BY <1>5, <1>7, <3>2
    <3>4. Ascending(objects)
      BY DEF Exports
    <3>5. \A j \in S : Spelling(objects')[j] = Spelling(objects)[j]
      <4> HIDE DEF Shape
      <4> QED BY <1>5, <1>7, <1>8, <3>2, <3>3, <3>4, SpelledAlike
    <3> QED BY <3>2, <3>5
  <2> QED BY <1>4, <2>1, <2>2 DEF Exports, Exact
<1>11. AllHeld'
  <2>1. SUFFICES ASSUME NEW m \in DOMAIN objects PROVE Held(m)'
    BY <1>7 DEF AllHeld
  <2>2. Held(m)
    <3>1. m \notin Range(filling)
      BY <1>2 DEF Range
    <3> QED BY <3>1 DEF Exports, AllHeld
  <2>3. CASE \E s \in DOMAIN results : results[s].root = m
    BY <1>4, <2>3 DEF Held, Range
  <2>4. CASE \E j \in DOMAIN objects : \E k \in DOMAIN objects[j].items : objects[j].items[k] = Ref(m)
    <3>1. PICK j \in DOMAIN objects : \E k \in DOMAIN objects[j].items : objects[j].items[k] = Ref(m)
      BY <2>4
    <3>2. PICK k \in DOMAIN objects[j].items : objects[j].items[k] = Ref(m)
      BY <3>1
    <3>3. k \in DOMAIN objects'[j].items /\ objects'[j].items[k] = Ref(m)
      <4>1. CASE j # i
        BY <1>5, <3>2, <4>1
      <4>2. CASE j = i
        <5>1. k \in 1 .. Len(objects[i].items) /\ Len(objects[i].items) \in Nat
              /\ DOMAIN objects'[i].items = 1 .. Len(objects[i].items) + 1
          BY <1>5, <1>7, <4>2
        <5> QED BY <1>5, <3>2, <4>2, <5>1
      <4> QED BY <4>1, <4>2
    <3> QED BY <1>7, <3>3 DEF Held, Range
  <2> QED BY <2>2, <2>3, <2>4, HeldIs
<1>12. pc' # "export" /\ pc' = pc
  BY <1>1
<1>13. pc # "unloaded"
  BY DEF Exports
<1> QED BY <1>2, <1>8, <1>9, <1>10, <1>11, <1>12, <1>13 DEF Exports

(* A document of an accepted value is balanced, and so is each of its parts. *)
LEMMA ViewsAreBalanced ==
    ASSUME VInv, TypeOK, OutInv, pc # "unloaded", NEW v \in Views
    PROVE  v \in Seq(Token) /\ Balanced(v)
<1>1. status = "done" /\ value = out /\ VTypes
  BY DEF VInv, Calls, ValueNeverChanges, Shape
<1>2. Balanced(out)
  BY <1>1 DEF OutInv, Balanced
<1>3. v \in Seq(Token)
  BY <1>1, ViewsAreDocuments
<1>4. v \in Parts(out)
  BY <1>1 DEF Views, Parts
<1>5. out \in Seq(Token)
  BY DEF TypeOK
<1> QED BY <1>2, <1>3, <1>4, <1>5, PartsAreBalanced

(* An export begins with nothing open. *)
LEMMA BeginExports ==
    ASSUME VInv, TypeOK, OutInv, Exports, NEW v \in Views, ToDict(v)
    PROVE  Exports'
<1>1. /\ pc = "idle" /\ view' = v /\ next' = 1 /\ filling' = <<>>
      /\ UNCHANGED <<vars, kept, objects, results>>
  BY DEF ToDict, Called
<1>2. filling = <<>>
  BY <1>1 DEF Exports
<1>3. v \in Seq(Token) /\ Balanced(v)
  BY <1>1, ViewsAreBalanced
<1>4. Wanted' = Wanted /\ Views' = Views
  BY <1>1 DEF Wanted, Views, vars, kept
<1>5. Exporting'
  <2>1. 1 \in 1 .. Len(v)
    BY <1>3 DEF Balanced
  <2>2. OpenBefore(v, 1) = 0
    BY OpenNext
  <2>3. FlattenSeq(Begins(objects', <<>>)) = <<>>
    <3>1. Begins(objects', <<>>) = <<>>
      BY DEF Begins
    <3> QED BY <3>1 DEF FlattenSeq
  <2>4. SubSeq(v, 1, 1 - 1) = <<>>
    BY <1>3
  <2> QED BY <1>1, <1>3, <1>4, <2>1, <2>2, <2>3, <2>4 DEF Exporting
<1>6. results' = results /\ objects' = objects /\ pc' # "unloaded"
  BY <1>1 DEF ToDict, Called
<1> QED BY <1>1, <1>2, <1>4, <1>5, <1>6, QuietExports

(* Nothing is exported before the value is loaded. *)
LEMMA InitExports == VInit => Exports
<1> SUFFICES ASSUME VInit PROVE Exports
  OBVIOUS
<1>1. objects = <<>> /\ results = <<>> /\ filling = <<>> /\ pc = "unloaded"
  BY DEF VInit
<1>2. DOMAIN objects = {} /\ DOMAIN results = {}
  BY <1>1
<1> QED BY <1>1, <1>2 DEF Exports, Ascending, Separate, Exact, AllHeld

(* No operation breaks it. *)
LEMMA StepExports == VInv /\ VInv' /\ TypeOK /\ OutInv /\ Exports /\ [VNext]_allvars => Exports'
<1> SUFFICES ASSUME VInv, VInv', TypeOK, OutInv, Exports, [VNext]_allvars PROVE Exports'
  OBVIOUS
<1>1. Shape /\ Shape' /\ ValueNeverChanges
  BY DEF VInv
<1> DEFINE Quiet == /\ UNCHANGED <<objects, results>> /\ filling = <<>> /\ filling' = <<>>
                    /\ results = <<>> \/ Wanted' = Wanted
                    /\ pc' = "unloaded" => results = <<>>
                    /\ pc' # "export"
<1>2. CASE Quiet
  BY <1>2, QuietExports
<1>3. CASE Next /\ UNCHANGED vvars
  <2>1. status # "done"
    BY <1>3 DEF Next, Document, ConvertLeaf, LeafAllocationFails, EnterContainer, LeaveContainer
  <2>2. pc = "unloaded"
    BY <2>1 DEF VInv, Calls
  <2> QED BY <1>2, <1>3, <2>2 DEF Exports, vvars, call
<1>4. CASE UNCHANGED allvars
  <2>1. UNCHANGED <<objects, results, pc, view, next, filling, value, class, out>>
    BY <1>4 DEF allvars, vars, vvars, kept, call
  <2>2. Wanted' = Wanted /\ Views' = Views
    BY <2>1 DEF Wanted, Views
  <2>3. Exporting' <=> Exporting
    BY <2>1, <2>2 DEF Exporting
  <2>4. Ascending(objects)' /\ Separate' /\ AllHeld' /\ Exact'
    BY <2>1, <2>2 DEF Exports, Ascending, Separate, AllHeld, Held, Exact
  <2> QED BY <2>1, <2>3, <2>4 DEF Exports
<1>5. CASE Load
  <2>1. pc = "unloaded" /\ pc' \in {"idle", "unloaded"} /\ UNCHANGED <<objects, results, call>>
    BY <1>5 DEF Load
  <2> QED BY <1>2, <2>1 DEF Exports, call
<1>6. CASE \E f \in {"core", "export"} : RenderFails(f)
  BY <1>2, <1>6 DEF RenderFails, Exports, Wanted, vars, kept, call
<1>7. CASE ToJson
  BY <1>2, <1>7 DEF ToJson, Called, Exports, Wanted, vars, kept
<1>8. CASE ToText \/ Assign
  BY <1>2, <1>8 DEF ToText, Assign, Exports, Wanted, vars, kept, call
<1>9. CASE Write \/ ReservationFails \/ SerializerFails
  BY <1>2, <1>9 DEF Write, ReservationFails, SerializerFails, Exports, Wanted, vars, kept, call
<1>10. CASE EncodeFails \/ Encoded
  BY <1>2, <1>10 DEF EncodeFails, Encoded, Returned, Exports, Wanted, vars, kept
<1>11. CASE \E v \in Views : ToDict(v)
  BY <1>11, BeginExports
<1>12. CASE ExportLeaf
  BY <1>1, <1>12, LeafExports
<1>13. CASE ExportOpen
  BY <1>1, <1>13, OpenExports
<1>14. CASE ExportClose
  BY <1>1, <1>14, HoldExports, ResultExports
<1>15. CASE \E f \in {"MemoryError", "exception"} : ExportFails(f)
  BY <1>1, <1>15, FailExports
<1>16. CASE \E r \in DOMAIN results, i \in DOMAIN objects : Change(r, i)
  BY <1>1, <1>16, ChangeExports
<1> QED BY <1>3, <1>4, <1>5, <1>6, <1>7, <1>8, <1>9, <1>10, <1>11, <1>12, <1>13, <1>14, <1>15, <1>16 DEF VNext

(* It holds in every state a value reaches. *)
LEMMA ExportsInvariance == VSpec => []Exports
<1>1. VInit => Exports
  BY InitExports
<1>2. VInv /\ VInv' /\ TypeOK /\ OutInv /\ Exports /\ [VNext]_allvars => Exports'
  BY StepExports
<1>3. VSpec => []TypeOK
  BY ValueRefinesConversion, TypeCorrect
<1>4. VSpec => []OutInv
  BY ValueRefinesConversion, OutInvariance
<1> QED BY <1>1, <1>2, <1>3, <1>4, VInvariance, PTL DEF VSpec, allvars

-------------------------------------------------------------------------------
(* The conversion a value is made by has the open containers as ancestors,  *)
(* within the slots reserved for them.  (conversion.rs:87,142-185)          *)
THEOREM AncestorsCorrect == VSpec => []AncestorsInv
  BY ValueRefinesConversion, PathCorrect, ReservationSuffices, PTL DEF AncestorsInv

(* A value is the document it was loaded from whatever its callers do, and  *)
(* to_json writes all of it.  (values.rs:77-81, json_encode.rs:30-36)       *)
THEOREM ValueCorrect == VSpec => []ValueNeverChanges
  BY VInvariance, PTL DEF VInv

(* However often a value is exported and whatever callers do to the         *)
(* results, no two places hold the same container: a dictionary is          *)
(* independent of the value and of every other one.                         *)
(* (serialization.rs:33-79)                                                 *)
THEOREM SharingCorrect == VSpec => []NothingShared
  BY VInvariance, PTL DEF VInv, Shape

(* An export answers with a MemoryError exactly when memory ran out, for    *)
(* the encoder because the flag is set by the write that failed.            *)
(* (json_encode.rs:19-34, error.rs:69-75)                                   *)
THEOREM AnswersCorrect == VSpec => []AnswersAreTruthful
  BY VInvariance, PTL DEF VInv

(* Unless memory runs out, a document is accepted exactly when it is a dict *)
(* whose graph has no cycle, whose leaves are representable, and whose      *)
(* unfolding is within the depth, byte and node limits of the document and  *)
(* of the request, for every graph and every limit.  (conversion.rs:82-187) *)
THEOREM AdmissionCorrect == VSpec => []AcceptsExactlyAdmissible
<1>1. Spec => []AcceptsExactlyAdmissible
  BY DocIsAdmission, Invariance, DocInvariance, PTL
<1> QED BY <1>1, ValueRefinesConversion, PTL

(* An accepted document is its unfolding: every item of every container, in *)
(* its place and as often as it is reached, and what was charged is what    *)
(* that counts.  (conversion.rs:161-186)                                    *)
THEOREM UnfoldingCorrect == VSpec => []DoneIsUnfolding
<1>1. DocInv => DoneIsUnfolding
  BY DEF DocInv, DoneIsUnfolding
<1>2. Spec => []DoneIsUnfolding
  BY <1>1, DocInvariance, PTL
<1> QED BY <1>2, ValueRefinesConversion, PTL

(* Each error of the conversion has a cause of its own kind in the graph,   *)
(* and a MemoryError says that memory ran out.  (conversion.rs:13-35,64-80, *)
(* 132-159, json_encode.rs:16-36, error.rs:69-75)                           *)
THEOREM ErrorsCorrect == VSpec => []ErrorsAreTruthful
<1>1. DocInv => RefusalsAreTruthful
  BY DEF DocInv
<1>2. Spec => []RefusalsAreTruthful
  BY <1>1, DocInvariance, PTL
<1> QED BY <1>2, ValueRefinesConversion, AnswersCorrect, PTL DEF ErrorsAreTruthful

(* What to_dict, rows and to_json give is the document that was loaded or   *)
(* its part, for every document, number of results and changes their        *)
(* holders make: the containers an untouched result is made of spell what   *)
(* it was exported from, each in one place, and an export that fails leaves *)
(* none behind.  (serialization.rs:33-79, policy_interface.rs:55-92,        *)
(* batch_value.rs:50-60)                                                    *)
THEOREM ExportCorrect == VSpec => []ExportsAreCopies
<1>1. Exports /\ VInv => ExportsAreCopies
  BY DEF Exports, Exact, Wanted, AllHeld, VInv, Shape, ExportsAreCopies
<1> QED BY <1>1, VInvariance, ExportsInvariance, PTL
===============================================================================
