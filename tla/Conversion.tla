------------------------------ MODULE Conversion ------------------------------
(***************************************************************************)
(* conversion::document of rust/src/conversion.rs: a Python object graph   *)
(* becomes an owned JSON value under a Budget.                             *)
(*                                                                         *)
(* The heap is the graph the caller passes.  A container is an address; a  *)
(* leaf is a record of what the conversion can tell apart in a scalar.     *)
(* Lists and dicts may be shared, and may contain themselves.  The GIL is  *)
(* held and only exact built-ins are read, so no other code runs between   *)
(* two steps and the heap does not change.                                 *)
(*                                                                         *)
(* convert is recursive: frames is its call stack (one frame per open      *)
(* container), and depth is the height of that stack.  out is the value    *)
(* under construction, written in the order of a traversal: one token per  *)
(* scalar and key, one where a container opens and one where it ends.      *)
(*                                                                         *)
(* ChargeErrorAhead, ContainerErrorBlind, ContainerErrorDeep and           *)
(* LeaveWithoutPop are faults, part of no specification: the properties    *)
(* are tested against them.                                                *)
(***************************************************************************)
EXTENDS AdmissionBudget, Totals, SequencesExt

CONSTANTS Addr,     \* addresses of lists and dicts (value.as_ptr())
          Leaf,     \* the other objects
          Heaps,    \* the graphs the caller may pass
          Roots,    \* the objects passed as the document
          Budgets0  \* the budgets document is called with

(* lone_surrogate: a code point that is no Unicode scalar follows the bytes. *)
Text == [kind : {"str"}, bytes : Nat, lone_surrogate : BOOLEAN]

Scalar == [kind : {"None", "True", "False", "other"}]
              \cup [kind : {"int"}, digits : Nat \ {0}, in_range : BOOLEAN]
              \cup [kind : {"float"}, finite : BOOLEAN]

Object == Addr \cup Leaf

Cell == [kind : {"list", "dict"}, items : Seq(Object)]

(* The items of a dict alternate: the odd positions are its keys.  A key is *)
(* hashable, so it is never a list or a dict.                               *)
IsKey(cell, i) == cell.kind = "dict" /\ i % 2 = 1

ASSUME ConversionAssumption ==
    /\ Leaf \subseteq Text \cup Scalar
    /\ Addr \cap Leaf = {}
    /\ Heaps \subseteq [Addr -> Cell]
    /\ \A h \in Heaps, a \in Addr :
          h[a].kind = "dict" =>
              /\ Len(h[a].items) % 2 = 0
              /\ \A i \in DOMAIN h[a].items : IsKey(h[a], i) => h[a].items[i] \in Leaf
    /\ Roots \subseteq Object
    /\ \A b \in Budgets0 :
          /\ b \in Budgets
          /\ b.counts = NoCounts
          /\ b.byte_limit = IF b.combined = {} THEN DOCUMENT_BYTES ELSE CONFIG_BYTES
          /\ BudgetWithin(b)

Errors == {"type", "value", "cyclic", "overflow", "budget", "memory"}

VARIABLES heap, root,
          budget0,    \* the budget document was called with
          budget,
          ancestors,  \* addresses of the containers being converted
          frames,     \* call stack: a container and the position of its next item
          out,        \* the value built so far
          status      \* "called", "running", "done" or the error returned

vars == <<heap, root, budget0, budget, ancestors, frames, out, status>>

-------------------------------------------------------------------------------
(* Scalars.  An operator named ...Error is the failure a call returns, or   *)
(* "none".                                                                  *)

(* utf8_size: counting passes the limit before a surrogate that follows.   *)
Utf8Error(text, limit) ==
    IF ~Fits(0, text.bytes, limit) THEN "budget"
    ELSE IF text.lone_surrogate THEN "value"
    ELSE "none"

ChargeErrorAhead(bytes, depth) ==
    IF Admits(budget, bytes, 2, depth) THEN "none" ELSE "budget"

ChargeError(bytes, depth) ==
    IF Admits(budget, bytes, 1, depth) THEN "none" ELSE "budget"

(* scalar_string, up to the copy *)
StringError(obj, depth) ==
    IF obj.kind # "str" THEN "type"
    ELSE IF Utf8Error(obj, Remaining(budget)) # "none"
         THEN Utf8Error(obj, Remaining(budget))
         ELSE ChargeError(obj.bytes, depth)

(* What a scalar is charged: its text, or the literal's length, or 8. *)
ScalarBytes(obj) ==
    CASE obj.kind = "str" -> obj.bytes
      [] obj.kind = "int" -> obj.digits
      [] obj.kind \in {"None", "True"} -> 4
      [] obj.kind = "False" -> 5
      [] OTHER -> 8

(* Refusals that come before the charge: integer, from_f64 and the last     *)
(* type test.                                                               *)
ScalarDefect(obj) ==
    CASE obj.kind = "int" /\ ~obj.in_range -> "overflow"
      [] obj.kind = "float" /\ ~obj.finite -> "value"
      [] obj.kind = "other" -> "type"
      [] OTHER -> "none"

LeafError(obj, depth) ==
    IF obj.kind = "str" THEN StringError(obj, depth)
    ELSE IF ScalarDefect(obj) # "none" THEN ScalarDefect(obj)
    ELSE ChargeError(ScalarBytes(obj), depth)

-------------------------------------------------------------------------------
Depth == Len(frames)

Top == frames[Depth]

HasItem == Top.next =< Len(heap[Top.at].items)

Item == heap[Top.at].items[Top.next]

AtKey == IsKey(heap[Top.at], Top.next)

Advanced == [frames EXCEPT ![Depth].next = @ + 1]

Fail(error) ==
    /\ status' = error
    /\ UNCHANGED <<heap, root, budget0, budget, ancestors, frames, out>>

(* The beginning of convert for a container, called from a frame stack. *)
ContainerErrorBlind(a) ==
    IF Admits(budget, 0, 1, Depth + 1) THEN "none" ELSE "budget"

ContainerErrorDeep(a) ==
    IF a \in Range(ancestors) THEN "cyclic" ELSE
    IF Admits(budget, 0, 1, Depth) THEN "none" ELSE "budget"

ContainerError(a) ==
    IF a \in Range(ancestors) THEN "cyclic" ELSE
    IF Admits(budget, 0, 1, Depth + 1) THEN "none" ELSE "budget"

Open(a, callers) ==
    /\ budget' = Charge(budget, 0, 1)
    /\ ancestors' = Append(ancestors, a)
    /\ frames' = Append(callers, [at |-> a, next |-> 1])
    /\ out' = Append(out, [kind |-> heap[a].kind])
    /\ status' = "running"
    /\ UNCHANGED <<heap, root, budget0>>

-------------------------------------------------------------------------------
Init ==
    /\ heap \in Heaps
    /\ root \in Roots
    /\ budget0 \in Budgets0
    /\ budget = budget0
    /\ ancestors = <<>>
    /\ frames = <<>>
    /\ out = <<>>
    /\ status = "called"

(* document: an exact dict, room for DEPTH ancestors, then convert. *)
Document ==
    /\ status = "called"
    /\ IF root \in Addr /\ heap[root].kind = "dict"
       THEN \/ Fail("memory")
            \/ /\ ContainerError(root) = "none"
               /\ Open(root, frames)
            \/ /\ ContainerError(root) # "none"
               /\ Fail(ContainerError(root))
       ELSE Fail("type")

(* A dict key, or a scalar of a list or a dict. *)
ConvertLeaf ==
    /\ status = "running" /\ HasItem /\ Item \in Leaf
    /\ LET error == IF AtKey THEN StringError(Item, Depth) ELSE LeafError(Item, Depth)
       IN  IF error = "none"
           THEN /\ budget' = Charge(budget, ScalarBytes(Item), 1)
                /\ frames' = Advanced
                /\ out' = Append(out, Item)
                /\ UNCHANGED <<heap, root, budget0, ancestors, status>>
           ELSE Fail(error)

(* After its charge a string is copied and a list makes room for the item: *)
(* both allocations may fail.                                              *)
LeafAllocationFails ==
    /\ status = "running" /\ HasItem /\ Item \in Leaf
    /\ \/ AtKey /\ StringError(Item, Depth) = "none"
       \/ ~AtKey /\ LeafError(Item, Depth) = "none"
    /\ Item.kind = "str" \/ heap[Top.at].kind = "list"
    /\ status' = "memory"
    /\ budget' = Charge(budget, ScalarBytes(Item), 1)
    /\ UNCHANGED <<heap, root, budget0, ancestors, frames, out>>

EnterContainer ==
    /\ status = "running" /\ HasItem /\ Item \in Addr
    /\ IF ContainerError(Item) = "none"
       THEN Open(Item, Advanced)
       ELSE Fail(ContainerError(Item))

LeaveWithoutPop ==
    /\ status = "running" /\ ~HasItem
    /\ frames' = Front(frames)
    /\ out' = Append(out, [kind |-> "end"])
    /\ status' = IF Depth = 1 THEN "done" ELSE "running"
    /\ UNCHANGED <<heap, root, budget0, budget, ancestors>>

(* The end of convert for a container: the ancestor is popped and the value *)
(* goes to the caller, where a list must first make room for it.            *)
LeaveContainer ==
    /\ status = "running" /\ ~HasItem
    /\ ancestors' = Front(ancestors)
    /\ frames' = Front(frames)
    /\ out' = Append(out, [kind |-> "end"])
    /\ \/ status' = IF Depth = 1 THEN "done" ELSE "running"
       \/ /\ Depth > 1 /\ heap[frames[Depth - 1].at].kind = "list"
          /\ status' = "memory"
    /\ UNCHANGED <<heap, root, budget0, budget>>

Next ==
    \/ Document
    \/ ConvertLeaf
    \/ LeafAllocationFails
    \/ EnterContainer
    \/ LeaveContainer

Spec == Init /\ [][Next]_vars

-------------------------------------------------------------------------------
Frame == [at : Addr, next : Nat \ {0}]

Token == Leaf \cup [kind : {"list", "dict", "end"}]

(* The variables have their types.  (conversion.rs, conversion_budget.rs) *)
TypeOK ==
    /\ heap \in [Addr -> Cell]
    /\ root \in Object
    /\ budget0 \in Budgets
    /\ budget \in Budgets
    /\ ancestors \in Seq(Addr)
    /\ frames \in Seq(Frame)
    /\ out \in Seq(Token)
    /\ status \in {"called", "running", "done"} \cup Errors

(* The ancestors are exactly the containers on the call stack, each an item *)
(* of the one before it, no container twice: a cycle is seen the first time *)
(* it closes, a shared container that is not open is not a cycle, and       *)
(* nothing stays behind when a container ends.  (conversion.rs:142-185)     *)
AncestorsAreOpenPath ==
    /\ ancestors = [i \in 1 .. Depth |-> frames[i].at]
    /\ IsInjective(ancestors)
    /\ \A i \in 1 .. Depth - 1 :
          /\ frames[i].next > 1
          /\ frames[i].next - 1 \in DOMAIN heap[frames[i].at].items
          /\ heap[frames[i].at].items[frames[i].next - 1] = ancestors[i + 1]

(* ancestors.push never grows past the DEPTH slots document reserved, so it *)
(* cannot allocate, which is why the push has no failure path.              *)
(* (conversion.rs:87,160)                                                   *)
AncestorsWithinReservation == Len(ancestors) =< DEPTH

(* The ancestors are the open path and fit the reserved vector, so the push *)
(* after a charge cannot grow it and the pop always leaves the path of the  *)
(* container that goes on.  (conversion.rs:87,142-185)                      *)
AncestorsInv == AncestorsAreOpenPath /\ AncestorsWithinReservation

(* No charge, accepted or refused half way, leaves a count over its limit;  *)
(* scalar_string relies on it when it subtracts the bytes already counted   *)
(* from byte_limit in unsigned arithmetic.  (conversion_budget.rs:39-67,    *)
(* conversion.rs:104)                                                       *)
BudgetInv ==
    /\ BudgetWithin(budget)
    /\ budget.byte_limit = budget0.byte_limit
    /\ Remaining(budget) = budget.byte_limit - budget.counts.bytes

(* The document and the whole request are charged alike: the request total  *)
(* is what it was before the document plus the document's own counts.       *)
(* (conversion_budget.rs:45-65)                                             *)
DomainsAgree ==
    budget.combined = {Plus(total, budget.counts.bytes, budget.counts.nodes) :
                          total \in budget0.combined}
-------------------------------------------------------------------------------
(* What a document stands for, said without a stack, a budget or an order   *)
(* of evaluation.                                                           *)
Children(x) == ToSet(heap[x].items) \cap Addr

Closed(S) == \A x \in S : Children(x) \subseteq S

(* The containers below x: the least closed set that has its children. *)
Below(x) ==
    {y \in Addr : \A S \in SUBSET Addr : Closed(S) /\ Children(x) \subseteq S => y \in S}

Reached == IF root \in Addr THEN {root} \cup Below(root) ELSE {}

Cyclic == \E x \in Reached : x \in Below(x)

(* What is wrong with an item, other than its size. *)
ItemDefect(cell, i) ==
    LET obj == cell.items[i]
    IN  IF obj \in Addr THEN "none"
        ELSE IF obj.kind = "str" THEN IF obj.lone_surrogate THEN "value" ELSE "none"
        ELSE IF IsKey(cell, i) THEN "type"
        ELSE ScalarDefect(obj)

Defects == UNION {{ItemDefect(heap[x], i) : i \in DOMAIN heap[x].items} : x \in Reached}

(* The containers no more than n levels high. *)
Shallow ==
    LET shallow[n \in 0 .. DEPTH] ==
            IF n = 0 THEN {} ELSE {x \in Addr : Children(x) \subseteq shallow[n - 1]}
    IN  shallow

(* The value an object stands for, as a sequence of tokens, to a depth of n. *)
Unfolding ==
    LET unfold[n \in 0 .. DEPTH] ==
            [x \in Object |->
                IF x \in Leaf THEN <<x>>
                ELSE IF n = 0 THEN <<>>
                ELSE <<[kind |-> heap[x].kind]>>
                     \o FlattenSeq([i \in DOMAIN heap[x].items |-> unfold[n - 1][heap[x].items[i]]])
                     \o <<[kind |-> "end"]>>]
    IN  unfold

Unfolded == Unfolding[DEPTH][root]

(* A scalar or key counts its bytes and, as a container does, one node. *)
TokenBytes(token) == IF token \in Leaf THEN ScalarBytes(token) ELSE 0
TokenNodes(token) == IF token.kind = "end" THEN 0 ELSE 1

Size(doc) ==
    [bytes |-> Total([i \in DOMAIN doc |-> TokenBytes(doc[i])]),
     nodes |-> Total([i \in DOMAIN doc |-> TokenNodes(doc[i])])]

WithinLimits ==
    LET size == Size(Unfolded)
    IN  /\ root \in Shallow[DEPTH]
        /\ CountsWithin(size, budget0.byte_limit)
        /\ \A t \in budget0.combined :
              CountsWithin(Plus(t, size.bytes, size.nodes), REQUEST_BYTES)

IsDictRoot == root \in Addr /\ heap[root].kind = "dict"

Admissible == IsDictRoot /\ ~Cyclic /\ Defects \subseteq {"none"} /\ WithinLimits

(* Unless memory runs out, a document is accepted exactly when it is a dict *)
(* whose graph has no cycle (sharing is allowed and each use is charged),   *)
(* whose leaves are representable, and whose unfolding is within the depth, *)
(* byte and node limits of the document and of the request.                 *)
(* (conversion.rs:82-187)                                                   *)
AcceptsExactlyAdmissible ==
    /\ status = "done" => Admissible
    /\ status \in Errors \ {"memory"} => ~Admissible

(* An accepted document becomes its unfolding, charged to the last byte and *)
(* node.  (conversion.rs:161-186)                                           *)
DoneIsUnfolding == status = "done" => out = Unfolded /\ budget.counts = Size(Unfolded)

(* Each error of the conversion has a cause of its own kind that a          *)
(* traversal of the graph from the root meets.  (conversion.rs:13-35,64-80, *)
(* 132-159)                                                                 *)
RefusalsAreTruthful ==
    /\ status = "cyclic" => Cyclic
    /\ status = "type" => ~IsDictRoot \/ "type" \in Defects
    /\ status = "value" => "value" \in Defects
    /\ status = "overflow" => "overflow" \in Defects
    /\ status = "budget" => ~WithinLimits
===============================================================================
