--------------------------- MODULE MCDeriveContract ---------------------------
(***************************************************************************)
(* An instance of DeriveContract for TLC: documents and texts around every *)
(* limit, alone and together, and each argument of a wrong type in turn.   *)
(***************************************************************************)
EXTENDS DeriveContract

Str(n)    == [string |-> TRUE, bytes |-> n, lone_surrogate |-> FALSE]
Broken(n) == [string |-> TRUE, bytes |-> n, lone_surrogate |-> TRUE]
NoString  == [string |-> FALSE, bytes |-> 0, lone_surrogate |-> FALSE]

Doc(bytes, nodes) ==
    [dict |-> TRUE, size |-> [bytes |-> bytes, nodes |-> nodes], deep |-> FALSE, defect |-> "none"]
NoDict  == [Doc(0, 1) EXCEPT !.dict = FALSE]
Deep    == [Doc(0, 2) EXCEPT !.deep = TRUE]
Defective(d) == [Doc(1, 2) EXCEPT !.defect = d]

(* Around the limits: two documents fit one by one and not together, or     *)
(* together and not with the notes.                                         *)
Fine == {Doc(0, 1), Doc(4, 2), Doc(8, 4)}
SmallDocuments == Fine \cup {Doc(9, 1), Deep, NoDict} \cup {Defective(d) : d \in {"type", "value", "overflow"}}
Lists == {<<>>} \cup {<<d>> : d \in SmallDocuments} \cup {<<d, e>> : d \in Fine, e \in SmallDocuments}
             \cup {<<Doc(0, 1), Doc(0, 1), d>> : d \in SmallDocuments}
NotesTexts == {Str(0), Str(4), Str(5), Str(6), Broken(2), Broken(6)}

Optional(S) == {{}} \cup {{x} : x \in S}

WellTyped ==
    [survey : {"survey"}, policy : {"policy"}, at : {Str(0), Str(3), Str(4), Broken(1), Broken(4)},
     packs : Optional([list : {TRUE}, items : Lists]),
     context : Optional(SmallDocuments \ {NoDict}),
     notes : Optional(NotesTexts)]

(* Each argument of a wrong type in turn, before or after contents that     *)
(* would be refused too.                                                    *)
IllTyped ==
    LET bad == CHOOSE r \in WellTyped : r.at = Str(4) /\ r.packs # {} /\ r.context # {} /\ r.notes # {}
    IN  {[bad EXCEPT !.survey = k] : k \in {"kind", "type"}}
            \cup {[bad EXCEPT !.survey = "kind", !.policy = "type"],
                  [bad EXCEPT !.policy = "type"],
                  [bad EXCEPT !.at = NoString],
                  [bad EXCEPT !.packs = {[list |-> FALSE, items |-> <<>>]}],
                  [bad EXCEPT !.context = {NoDict}],
                  [bad EXCEPT !.notes = {NoString}]}

AllRequests == WellTyped \cup IllTyped
===============================================================================
