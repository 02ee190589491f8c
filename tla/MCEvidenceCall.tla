---------------------------- MODULE MCEvidenceCall ----------------------------
(***************************************************************************)
(* An instance of EvidenceCall for TLC: validate and classify_batch with   *)
(* every argument at its limit, past it, of another type and absent, and   *)
(* signatures with the shapes of to_dict, from_dict, redact, collect_state *)
(* and derive_contract with all calls of up to two positional and three    *)
(* keyword arguments.                                                      *)
(***************************************************************************)
EXTENDS EvidenceCall

Artifact(role, id) == [is |-> "artifact", role |-> role, id |-> id]
ListOf(items) == [is |-> "list", items |-> items]
Text(bytes, lone, name) == [is |-> "str", bytes |-> bytes, lone_surrogate |-> lone, name |-> name]
Age(u64) == [is |-> "int", u64 |-> u64]
Other(id) == [is |-> "other", id |-> id]

Contract(id) == Artifact("Contract", id)
Profile(id)  == Artifact("Profile", id)
State(id)    == Artifact("State", id)
Thermal(id)  == Artifact("Thermal", id)

-------------------------------------------------------------------------------
Shape(slots, positional, required) ==
    [slots |-> slots, positional |-> positional, required |-> required]

AllSignatures ==
    {Shape(0, 0, 0), Shape(1, 1, 1), Shape(2, 1, 2), Shape(3, 0, 0), Shape(4, 2, 3),
     ValidateCall, BatchCall}

AllKeywords == [key : 0 .. 4, defect : {"none"}, value : {Other(1), Other(2), Other(3)}]
                  \cup [key : {0}, defect : Unreadable, value : {Other(1), Other(2), Other(3)}]

(* A keyword's value tells its position in the call from the others. *)
AllKwargs ==
    {s \in BoundedSeq(AllKeywords, 3) :
        \A i, j \in DOMAIN s :
           /\ s[i].value = Other(i)
           /\ s[i].key # 0 /\ s[i].key = s[j].key => i = j}

PlainCalls ==
    [args : {<<>>, <<Other(1)>>, <<Other(2), Other(3)>>, <<Other(1), Other(2), Other(3)>>},
     kwargs : AllKwargs]

(* A call with two positional arguments and the others by keyword. *)
CallOf(first, second, rest) ==
    [args |-> <<first, second>>,
     kwargs |-> SelectSeq([i \in DOMAIN rest |->
                              [key |-> i + 2, defect |-> "none", value |-> rest[i]]],
                          LAMBDA k : k.value # Absent)]

Instants == {Text(bytes, lone, "text") : bytes \in {2, 3}, lone \in BOOLEAN} \cup {None}
ModeTexts == {Absent, None, Text(2, FALSE, "state_required"), Text(2, FALSE, "text"),
              Text(4, FALSE, "text")}

BatchCalls ==
    {CallOf(c, p, <<i, m, s, a>>) :
        c \in {ListOf(<<>>), ListOf(<<Contract(1), Contract(2)>>), ListOf(<<Profile(1), Other(1)>>),
               ListOf(<<Other(1), Other(1), Other(1)>>), Contract(1)},
        p \in {ListOf(<<Profile(2), Profile(1)>>), ListOf(<<Profile(1)>>),
               ListOf(<<Profile(1), Other(1)>>), ListOf(<<Profile(1), Contract(1)>>)},
        s \in {Absent, None, ListOf(<<State(1)>>), ListOf(<<State(1), State(1), State(2)>>),
               ListOf(<<Thermal(1)>>)},
        i \in Instants, m \in ModeTexts,
        a \in {Absent, Age(TRUE), Age(FALSE)}}

ValidateCalls ==
    {CallOf(c, p, <<i, m, s, t, a, n>>) :
        c \in {Contract(1), Profile(1)},
        p \in {Profile(1), Other(1)},
        i \in Instants, m \in ModeTexts,
        s \in {Absent, None, State(1), Thermal(1)},
        t \in {Absent, ListOf(<<Thermal(2), Thermal(1)>>), ListOf(<<Thermal(1), Other(1)>>),
               ListOf(<<Other(1), Other(1), Other(1)>>), State(1)},
        a \in {None, Age(TRUE), Age(FALSE)},
        n \in {Absent, Text(4, FALSE, "text"), Text(5, FALSE, "text")}}

AllCalls == PlainCalls \cup BatchCalls \cup ValidateCalls

ObjectsOf(c) == ToSet(c.args) \cup {k.value : k \in ToSet(c.kwargs)}

Objects ==
    LET passed == UNION {ObjectsOf(c) : c \in AllCalls}
    IN  passed \cup UNION {ToSet(o.items) : o \in {l \in passed : l.is = "list"}}
===============================================================================
