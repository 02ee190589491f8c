----------------------------- MODULE MCConversion -----------------------------
(***************************************************************************)
(* Instances of Conversion and of the value made of its result for TLC.    *)
(***************************************************************************)
EXTENDS ImmutableValue

CONSTANTS a, b, c

None  == [kind |-> "None"]
True  == [kind |-> "True"]
False == [kind |-> "False"]
Str(n)    == [kind |-> "str", bytes |-> n, lone_surrogate |-> FALSE]
Broken(n) == [kind |-> "str", bytes |-> n, lone_surrogate |-> TRUE]
Integer(n, ok) == [kind |-> "int", digits |-> n, in_range |-> ok]
Float(ok)  == [kind |-> "float", finite |-> ok]
Other == [kind |-> "other"]

List(S) == {[kind |-> "list", items |-> s] : s \in S}
Dict(S) == {[kind |-> "dict", items |-> s] : s \in S}

(* Every graph of a dict, a list and a dict of at most two items each. *)
GraphAddr == {a, b, c}
GraphLeaf == {Str(1), Str(2), True}
GraphValue == GraphAddr \cup {True}
GraphEntries == {<<>>} \cup {<<Str(1), x>> : x \in GraphValue}
                    \cup {<<Str(1), x, Str(2), y>> : x, y \in GraphValue}
GraphHeaps == {a :> x @@ b :> y @@ c :> z :
                  x \in Dict(GraphEntries),
                  y \in List(BoundedSeq(GraphValue, 2)),
                  z \in Dict(GraphEntries)}

(* Every kind of scalar and key in a dict and a list or dict below it. *)
LeafLeaf == {Str(1), Str(3), Broken(2), None, False, Integer(2, TRUE), Integer(20, FALSE),
             Float(TRUE), Float(FALSE), Other}
LeafKeys == {Str(1), Str(3), Broken(2), Integer(2, TRUE)}
LeafHeaps ==
    {a :> x @@ b :> y @@ c :> [kind |-> "list", items |-> <<>>] :
        x \in Dict({<<>>} \cup {<<k, v>> : k \in LeafKeys, v \in LeafLeaf}
                   \cup {<<k, v, Str(1), w>> :
                            k \in LeafKeys, v \in LeafLeaf, w \in LeafLeaf \cup {b}}),
        y \in List(BoundedSeq(LeafLeaf, 1)) \cup Dict({<<>>, <<Str(1), None>>})}

AllLeaf == GraphLeaf \cup LeafLeaf
AllHeaps == GraphHeaps \cup LeafHeaps
AllRoots == {a, b, Str(1)}

(* A document, and a configuration in a request that is nearly spent. *)
AllBudgets == {DocumentBudget(DOCUMENT_BYTES), ConfigurationBudget(NoCounts),
               ConfigurationBudget([bytes |-> REQUEST_BYTES - 6, nodes |-> NODES - 3])}
(* What a loaded value depends on: the conversion is over. *)
Loaded == IF pc = "unloaded" THEN <<vars, answer>> ELSE <<out, vvars>>
===============================================================================
