-------------------------- MODULE CollectionAdmission --------------------------
(***************************************************************************)
(* The admission of collect_state (state of                                *)
(* rust/src/collection_admission.rs): three lists and three flags are      *)
(* tested, counted and copied in passes over the same Python objects, each *)
(* pass looking every field up anew.  The GIL is held and only exact       *)
(* built-ins are read, so the request does not change between two passes.  *)
(*                                                                         *)
(* A step that looks a field up or copies may fail for memory.  A text is  *)
(* its size and whether a code point that is no Unicode scalar follows; it *)
(* cannot be longer than its own limit, so the total never comes near the  *)
(* machine word.                                                           *)
(*                                                                         *)
(* FlagTypesUnchecked, ShapesWithoutCounts, ChargeUntotalled and           *)
(* BooleanIfGiven are faults, part of no specification: the properties are *)
(* tested against them.                                                    *)
(***************************************************************************)
EXTENDS Naturals, Sequences, SequencesExt, Totals

CONSTANTS Caps,        \* entries of each list: <<16, 16, 4>>
          ID_BYTES,    \* 128
          PATH_BYTES,  \* 4096
          TOTAL_BYTES, \* 65536
          Requests     \* the requests callers make

CHECK == <<"path_id", "path", "probe_links", "probe_health">>
PAIR == <<"from_path_id", "to_path_id">>

(* The names an entry of a list may have; a config is a path and no dict. *)
Names == <<CHECK, PAIR, <<>>>>

Key == ToSet(CHECK) \cup ToSet(PAIR) \cup {"unknown", "unreadable", "no_string"}

Value == [kind : {"str"}, bytes : Nat, lone_surrogate : BOOLEAN]
             \cup [kind : {"bool"}, value : BOOLEAN] \cup {[kind |-> "other"]}

Dict == [kind : {"dict"}, entries : Seq([key : Key, value : Value])]

(* None is an absent list. *)
Lists == {[kind |-> "None"], [kind |-> "other"]} \cup [kind : {"list"}, items : Seq(Value \cup Dict)]

Flags == {"absent", "true", "false", "other"}

ASSUME CollectionAssumption ==
    /\ Caps \in [1 .. 3 -> Nat] /\ {ID_BYTES, PATH_BYTES, TOTAL_BYTES} \subseteq Nat
    /\ Requests \subseteq [lists : [1 .. 3 -> Lists], flags : [1 .. 3 -> Flags]]

VARIABLES request,
          pc,     \* the pass, "done" or the error returned
          next,   \* the item or text the pass is at
          bytes,
          copied  \* owned items, in the order of the copies

vars == <<request, pc, next, bytes, copied>>

Errors == {"type", "arguments", "value", "budget", "memory"}

Items(i) ==
    IF request.lists[i].kind # "list" THEN <<>>
    ELSE [k \in DOMAIN request.lists[i].items |-> [list |-> i, item |-> request.lists[i].items[k]]]

AllItems == Items(1) \o Items(2) \o Items(3)

(* value.get_item(name): keys are unique. *)
Has(dict, name) == \E e \in ToSet(dict.entries) : e.key = name
Field(dict, name) == (CHOOSE e \in ToSet(dict.entries) : e.key = name).value

(* What is charged for an item, with the limit of each text. *)
TextsOf(x) ==
    IF x.list = 3 THEN <<[text |-> x.item, limit |-> PATH_BYTES]>>
    ELSE [i \in 1 .. 2 |->
             [text |-> Field(x.item, Names[x.list][i]),
              limit |-> IF x.list = 1 /\ i = 2 THEN PATH_BYTES ELSE ID_BYTES]]

AllTexts == FlattenSeq([k \in DOMAIN AllItems |-> TextsOf(AllItems[k])])

-------------------------------------------------------------------------------
Init ==
    /\ request \in Requests
    /\ pc = "types" /\ next = 1 /\ bytes = 0 /\ copied = <<>>

Fail(e) == pc' = e /\ UNCHANGED <<request, next, bytes, copied>>

Begin(pass) == pc' = pass /\ next' = 1 /\ UNCHANGED <<request, bytes, copied>>

FlagTypesUnchecked ==
    /\ pc = "types"
    /\ IF \E i \in 1 .. 3 : request.lists[i].kind = "other"
       THEN Fail("type") ELSE Begin("counts")

AdmitTypes ==
    /\ pc = "types"
    /\ IF \E i \in 1 .. 3 : request.lists[i].kind = "other" \/ request.flags[i] = "other"
       THEN Fail("type") ELSE Begin("counts")

ShapesWithoutCounts == pc = "counts" /\ Begin("shapes")

AdmitCounts ==
    /\ pc = "counts"
    /\ IF \E i \in 1 .. 3 : Len(Items(i)) > Caps[i] THEN Fail("budget") ELSE Begin("shapes")

EntryErrors(e, names) ==
    IF e.key = "no_string" THEN {"type"}
    ELSE IF e.key \notin ToSet(names) THEN {"arguments"}
    ELSE IF e.value.kind # (IF e.key \in {names[1], names[2]} THEN "str" ELSE "bool") THEN {"type"}
    ELSE {}

(* shape: the entries in the order of the dict, then the names it must have. *)
ShapeErrors(x) ==
    IF x.list = 3 THEN IF x.item.kind = "str" THEN {} ELSE {"type"}
    ELSE IF x.item.kind # "dict" THEN {"type"}
    ELSE LET names == Names[x.list]
             errors == [k \in DOMAIN x.item.entries |-> EntryErrors(x.item.entries[k], names)]
             bad == {k \in DOMAIN errors : errors[k] # {}}
         IN  IF bad # {} THEN errors[CHOOSE k \in bad : \A j \in bad : k =< j]
             ELSE IF Has(x.item, names[1]) /\ Has(x.item, names[2]) THEN {} ELSE {"arguments"}

AdmitShape ==
    /\ pc = "shapes"
    /\ IF next > Len(AllItems) THEN Begin("bytes")
       ELSE \/ \E e \in ShapeErrors(AllItems[next]) \cup {"memory"} : Fail(e)
            \/ /\ ShapeErrors(AllItems[next]) = {}
               /\ next' = next + 1
               /\ UNCHANGED <<request, pc, bytes, copied>>

ChargeUntotalled ==
    /\ pc = "bytes"
    /\ IF next > Len(AllTexts) THEN Begin("reserve")
       ELSE LET t == AllTexts[next]
            IN  IF t.text.bytes > t.limit THEN Fail("budget")
                ELSE IF t.text.lone_surrogate THEN Fail("value")
                ELSE /\ bytes' = bytes + t.text.bytes
                     /\ next' = next + 1
                     /\ UNCHANGED <<request, pc, copied>>

(* utf8_size of the text, then the total. *)
TextErrors(t) ==
    IF t.text.bytes > t.limit THEN {"budget"}
    ELSE IF t.text.lone_surrogate THEN {"value"}
    ELSE IF bytes + t.text.bytes > TOTAL_BYTES THEN {"budget"}
    ELSE {}

ChargeText ==
    /\ pc = "bytes"
    /\ IF next > Len(AllTexts) THEN Begin("reserve")
       ELSE \/ \E e \in TextErrors(AllTexts[next]) \cup {"memory"} : Fail(e)
            \/ /\ TextErrors(AllTexts[next]) = {}
               /\ bytes' = bytes + AllTexts[next].text.bytes
               /\ next' = next + 1
               /\ UNCHANGED <<request, pc, copied>>

Reserve == pc = "reserve" /\ (Begin("copy") \/ Fail("memory"))

BooleanIfGiven(dict, name) == Has(dict, name)

(* boolean: a flag that is not given is false. *)
Boolean(dict, name) == Has(dict, name) /\ Field(dict, name).value

Owned(x) ==
    IF x.list = 3 THEN <<x.item>>
    ELSE [i \in DOMAIN Names[x.list] |->
             IF i =< 2 THEN Field(x.item, Names[x.list][i])
             ELSE [kind |-> "bool", value |-> Boolean(x.item, Names[x.list][i])]]

Copy ==
    /\ pc = "copy"
    /\ IF next > Len(AllItems) THEN Begin("done")
       ELSE \/ Fail("memory")
            \/ /\ copied' = Append(copied, [list |-> AllItems[next].list, owned |-> Owned(AllItems[next])])
               /\ next' = next + 1
               /\ UNCHANGED <<request, pc, bytes>>

Next == AdmitTypes \/ AdmitCounts \/ AdmitShape \/ ChargeText \/ Reserve \/ Copy

Spec == Init /\ [][Next]_vars

-------------------------------------------------------------------------------
(* The request as a whole: what a well-formed one is, said without passes   *)
(* or an order.                                                             *)
Typed == \A i \in 1 .. 3 : request.lists[i].kind # "other" /\ request.flags[i] # "other"

Counted == \A i \in 1 .. 3 : Len(Items(i)) =< Caps[i]

Required(names) == {names[1], names[2]}

(* A dict with exactly the names it must and may have, of their types. *)
WellShaped(x) ==
    IF x.list = 3 THEN x.item.kind = "str"
    ELSE LET names == Names[x.list]
             keys == {e.key : e \in ToSet(x.item.entries)}
         IN  /\ x.item.kind = "dict"
             /\ Required(names) \subseteq keys /\ keys \subseteq ToSet(names)
             /\ \A e \in ToSet(x.item.entries) :
                   e.value.kind = IF e.key \in Required(names) THEN "str" ELSE "bool"

Shaped == \A x \in ToSet(AllItems) : WellShaped(x)

(* Has an entry of the wrong type, or lacks a name or has one too many. *)
IllTyped(x) ==
    IF x.list = 3 \/ x.item.kind # "dict" THEN ~WellShaped(x)
    ELSE \E e \in ToSet(x.item.entries) :
            \/ e.key = "no_string"
            \/ /\ e.key \in ToSet(Names[x.list])
               /\ e.value.kind # IF e.key \in Required(Names[x.list]) THEN "str" ELSE "bool"

IllNamed(x) ==
    /\ x.list # 3 /\ x.item.kind = "dict"
    /\ LET keys == {e.key : e \in ToSet(x.item.entries)}
       IN  ~(Required(Names[x.list]) \subseteq keys /\ keys \subseteq ToSet(Names[x.list]))

TextBytes == [k \in DOMAIN AllTexts |-> AllTexts[k].text.bytes]

TotalBytes == Total(TextBytes)

WithinBytes ==
    /\ \A t \in ToSet(AllTexts) : t.text.bytes =< t.limit
    /\ TotalBytes =< TOTAL_BYTES

Admissible ==
    /\ Typed /\ Counted /\ Shaped
    /\ WithinBytes /\ \A t \in ToSet(AllTexts) : ~t.text.lone_surrogate

(* Unless memory runs out, exactly the well-formed requests within every    *)
(* limit are admitted.  (collection_admission.rs:97-196)                    *)
AdmitsExactlyAdmissible ==
    /\ pc = "done" => Admissible
    /\ pc \in Errors \ {"memory"} => ~Admissible

(* "Validate all top-level types before any count, shape or byte rejection" *)
(* and every refusal has its cause in the request: counts are refused       *)
(* before shapes, shapes before bytes, whatever else is wrong.              *)
(* (collection_admission.rs:98-150)                                         *)
RefusalsInOrder ==
    /\ pc = "type" => ~Typed \/ (Counted /\ \E x \in ToSet(AllItems) : IllTyped(x))
    /\ pc = "arguments" => Typed /\ Counted /\ \E x \in ToSet(AllItems) : IllNamed(x)
    /\ pc = "value" => Typed /\ Counted /\ Shaped /\ \E t \in ToSet(AllTexts) : t.text.lone_surrogate
    /\ pc = "budget" => Typed /\ (~Counted \/ (Shaped /\ ~WithinBytes))

(* "Complete byte admission before allocating any owned input payload":     *)
(* nothing is copied of a request that may still be refused.                *)
(* (collection_admission.rs:135)                                            *)
NothingCopiedEarly == copied # <<>> => Admissible

(* An owned item holds what the item of the request does, and a flag that   *)
(* is not given is false.                                                   *)
IsCopyOf(c, x) ==
    /\ c.list = x.list
    /\ x.list = 3 => c.owned = <<x.item>>
    /\ x.list # 3 =>
          \A i \in DOMAIN Names[x.list] :
              IF Has(x.item, Names[x.list][i])
              THEN [key |-> Names[x.list][i], value |-> c.owned[i]] \in ToSet(x.item.entries)
              ELSE c.owned[i] = [kind |-> "bool", value |-> FALSE]

(* What core gets is the request in its order, item by item, and a probe    *)
(* that was not asked for is not made.  (collection_admission.rs:153-195)   *)
CopiedIsRequest ==
    pc = "done" =>
        /\ Len(copied) = Len(AllItems)
        /\ \A k \in DOMAIN copied : IsCopyOf(copied[k], AllItems[k])
===============================================================================
