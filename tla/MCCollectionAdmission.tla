------------------------- MODULE MCCollectionAdmission -------------------------
(***************************************************************************)
(* An instance of CollectionAdmission for TLC: requests of up to two       *)
(* checks, two pairs and a config, around every limit.                     *)
(***************************************************************************)
EXTENDS CollectionAdmission

SmallCaps == <<2, 2, 1>>

Str(n)    == [kind |-> "str", bytes |-> n, lone_surrogate |-> FALSE]
Broken(n) == [kind |-> "str", bytes |-> n, lone_surrogate |-> TRUE]
Bool(b)   == [kind |-> "bool", value |-> b]
Other     == [kind |-> "other"]

Entry(k, v) == [key |-> k, value |-> v]
DictOf(s) == [kind |-> "dict", entries |-> s]

CheckOf(x, y) == <<Entry("path_id", x), Entry("path", y)>>
PairOf(x, y) == DictOf(<<Entry("to_path_id", y), Entry("from_path_id", x)>>)

(* Texts at their limit and one past it, optional fields in every form, and *)
(* each fault of a shape alone and with another before or after it.         *)
FineChecks ==
    {DictOf(CheckOf(Str(1), Str(n))) : n \in {0, 3}}
    \cup {DictOf(CheckOf(Str(2), Str(1)) \o <<Entry("probe_health", Bool(b))>>) : b \in BOOLEAN}
Checks ==
    FineChecks
    \cup {DictOf(CheckOf(x, y)) : x \in {Str(1), Str(3), Broken(2), Broken(3)}, y \in {Str(4), Broken(1)}}
    \cup {DictOf(s) : s \in {<<>>, <<Entry("path", Str(4))>>,
                             <<Entry("path_id", Other), Entry("unknown", Other)>>,
                             <<Entry("unreadable", Other), Entry("no_string", Other)>>,
                             <<Entry("no_string", Other), Entry("path_id", Str(1))>>}}
    \cup {DictOf(CheckOf(Str(1), Str(4)) \o <<Entry("probe_links", v)>>) : v \in {Str(1), Other}}
    \cup {Other}
Pairs == {PairOf(Str(1), Str(2)), PairOf(Str(1), Str(3)), PairOf(Broken(1), Str(1)),
          DictOf(<<Entry("from_path_id", Str(1))>>),
          DictOf(<<Entry("path", Str(1))>>), DictOf(<<Entry("to_path_id", Bool(TRUE))>>)}
Configs == {Str(0), Str(3), Str(4), Broken(2), Other}

ListOf(s) == [kind |-> "list", items |-> s]
None == [kind |-> "None"]

CheckLists ==
    {None, Other, ListOf(<<>>), ListOf(<<Other, Other, Other>>)}
    \cup {ListOf(<<x>>) : x \in Checks}
    \cup {ListOf(<<x, y>>) : x \in FineChecks, y \in Checks}
PairLists ==
    {None, Other, ListOf(<<PairOf(Str(1), Str(2)), PairOf(Str(0), Str(2))>>)}
    \cup {ListOf(<<x>>) : x \in Pairs}
ConfigLists == {None, Other, ListOf(<<Str(1), Str(1)>>)} \cup {ListOf(<<x>>) : x \in Configs}

SmallRequests ==
    [lists : {<<x, y, z>> : x \in CheckLists, y \in PairLists, z \in ConfigLists},
     flags : {<<"absent", "true", "false">>, <<"true", "absent", "other">>}]
===============================================================================
