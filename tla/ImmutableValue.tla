---------------------------- MODULE ImmutableValue ----------------------------
(***************************************************************************)
(* A Policy, Artifact or BatchReport from the document it is loaded from   *)
(* to what its callers get out of it: rust/src/values.rs, batch_value.rs,  *)
(* policy_interface.rs, batch_interface.rs, the exporters of               *)
(* artifact_interface.rs, serialization.rs and json_encode.rs.             *)
(*                                                                         *)
(* The document is what Conversion built.  to_dict rebuilds it as Python   *)
(* containers, one call of the C API after the other with the GIL held;    *)
(* to_json writes it to a buffer without the GIL, so callers run between   *)
(* two writes.  Callers keep the dictionaries they got and change them.    *)
(* What core renders of an Artifact or a report is taken to be the         *)
(* document it was loaded from.                                            *)
(*                                                                         *)
(* ToDictCached, EncodeFailsBlind and ExportFailsKeeping are faults, part  *)
(* of no specification: the properties are tested against them.            *)
(***************************************************************************)
EXTENDS Conversion

CONSTANTS Classes,    \* of {"Policy", "Artifact", "BatchReport"}
          MaxResults  \* bound on the dictionaries callers keep

ASSUME ValueAssumption ==
    Classes \subseteq {"Policy", "Artifact", "BatchReport"} /\ MaxResults \in Nat

VARIABLES class,
          value,    \* the document the value keeps, as Conversion's out
          objects,  \* Python containers made by exports
          results,  \* the dictionaries and lists callers hold
          pc,       \* "unloaded", "idle", "export", "encode" or "unwritten"
          view,     \* the part of the value the open call exports
          next,     \* the token of the view that comes next
          filling,  \* call stack of value(): the containers that are open
          bytes,    \* Buffer: what is written
          allocation_failed,
          answer,   \* what the last call answered
          cause     \* history: what failed in the last call

call == <<view, next, filling>>
buffer == <<bytes, allocation_failed>>
kept == <<class, value>>
vvars == <<kept, objects, results, pc, call, buffer, answer, cause>>

-------------------------------------------------------------------------------
Ref(i) == [kind |-> "ref", at |-> i]

Opens(token) == token.kind \in {"list", "dict"}

(* How many containers are open before position n of a document. *)
OpenBefore(doc, n) ==
    Cardinality({i \in 1 .. n - 1 : Opens(doc[i])})
        - Cardinality({i \in 1 .. n - 1 : doc[i].kind = "end"})

(* From i to j is a list below the root, on whatever level. *)
IsPart(doc, i, j) ==
    /\ i < j /\ doc[i].kind = "list" /\ doc[j].kind = "end"
    /\ OpenBefore(doc, i) >= 1 /\ OpenBefore(doc, j) = OpenBefore(doc, i) + 1
    /\ \A n \in i + 1 .. j : OpenBefore(doc, n) > OpenBefore(doc, i)

(* Part: the whole report, or a list in it.  The code takes three, which    *)
(* are in core.report and so two levels below the document.                 *)
Parts(doc) ==
    {doc} \cup {SubSeq(doc, p[1], p[2]) : p \in
                   {q \in (DOMAIN doc) \X (DOMAIN doc) : IsPart(doc, q[1], q[2])}}

Views == IF class = "BatchReport" THEN Parts(value) ELSE {value}

-------------------------------------------------------------------------------
VInit ==
    /\ Init
    /\ class = "none"
    /\ value = <<>> /\ objects = <<>> /\ results = <<>>
    /\ pc = "unloaded"
    /\ view = <<>> /\ next = 1 /\ filling = <<>>
    /\ bytes = <<>> /\ allocation_failed = FALSE
    /\ answer = "none" /\ cause = "none"

Answered(with, because) ==
    /\ answer' = with
    /\ cause' = because

(* The locals of a call are gone when it returns. *)
Returned(with, because) ==
    /\ pc' = "idle"
    /\ view' = <<>> /\ next' = 1 /\ filling' = <<>>
    /\ Answered(with, because)

(* load: core validates a copy, and the new object is allocated. *)
Load ==
    /\ pc = "unloaded" /\ status = "done" /\ answer = "none"
    /\ \/ value' = out /\ class' \in Classes /\ pc' = "idle" /\ Answered("value", "none")
       \/ UNCHANGED <<kept, pc>> /\ Answered("core", "core")
       \/ UNCHANGED <<kept, pc>> /\ Answered("memory", "MemoryError")
    /\ UNCHANGED <<vars, objects, results, call, buffer>>

Called(v, to) ==
    /\ pc = "idle"
    /\ view' = v /\ next' = 1 /\ filling' = <<>>
    /\ pc' = to
    /\ Answered("none", "none")

ToDictCached(v) ==
    /\ pc = "idle" /\ Len(results) < MaxResults
    /\ IF \E r \in Range(results) : r.of = v
       THEN /\ results' = Append(results, CHOOSE r \in Range(results) : r.of = v)
            /\ Answered("value", "none")
            /\ UNCHANGED <<vars, kept, objects, pc, call, buffer>>
       ELSE Called(v, "export") /\ UNCHANGED <<vars, kept, objects, results, buffer>>

(* to_dict, and rows, contract_summaries and service_profile_summaries. *)
ToDict(v) ==
    /\ Len(results) < MaxResults
    /\ Called(v, "export")
    /\ UNCHANGED <<vars, kept, objects, results, buffer>>

(* Before that, core renders an Artifact, and serde a report. *)
RenderFails(f) ==
    /\ pc = "idle"
    /\ \/ class = "Artifact" /\ f = "core"
       \/ class = "BatchReport" /\ f = "export"
    /\ Answered(f, IF f = "core" THEN "core" ELSE "exception")
    /\ UNCHANGED <<vars, kept, objects, results, pc, call, buffer>>

(* to_json: encode begins with Buffer::default(). *)
ToJson ==
    /\ Called(value, "encode")
    /\ bytes' = <<>> /\ allocation_failed' = FALSE
    /\ UNCHANGED <<vars, kept, objects, results>>

(* semantic_hash, semantic_bytes, export_csv and the getters of the         *)
(* envelope: one text, number or bytes object; export_csv refuses views it  *)
(* does not know.  A Policy has none of these.                              *)
ToText ==
    /\ pc = "idle" /\ class # "Policy"
    /\ \/ Answered("value", "none")
       \/ Answered("memory", "MemoryError")
       \/ Answered("export", "exception")
       \/ class = "Artifact" /\ Answered("core", "core")
       \/ class = "BatchReport" /\ Answered("argument", "view")
    /\ UNCHANGED <<vars, kept, objects, results, pc, call, buffer>>

(* __setattr__ and __delattr__ *)
Assign ==
    /\ pc = "idle"
    /\ Answered("immutable", "assignment")
    /\ UNCHANGED <<vars, kept, objects, results, pc, call, buffer>>

-------------------------------------------------------------------------------
(* serialization::value, called for each item.                             *)
Current == view[next]
Inner == filling[Len(filling)]

(* append and set_item *)
Put(i, item) == objects' = [objects EXCEPT ![i].items = Append(@, item)]

(* A scalar or a key; a document is a container, so one is open.  A key     *)
(* waits in a local until its value is built: with the GIL held the         *)
(* difference cannot be seen.                                               *)
ExportLeaf ==
    /\ pc = "export" /\ filling # <<>> /\ Current \in Leaf
    /\ Put(Inner, Current)
    /\ next' = next + 1
    /\ UNCHANGED <<vars, kept, results, pc, view, filling, buffer, answer, cause>>

ExportOpen ==
    /\ pc = "export" /\ Opens(Current)
    /\ objects' = Append(objects, [kind |-> Current.kind, items |-> <<>>])
    /\ filling' = Append(filling, Len(objects) + 1)
    /\ next' = next + 1
    /\ UNCHANGED <<vars, kept, results, pc, view, buffer, answer, cause>>

ExportClose ==
    /\ pc = "export" /\ filling # <<>> /\ Current.kind = "end"
    /\ IF Len(filling) > 1
       THEN /\ Put(filling[Len(filling) - 1], Ref(Inner))
            /\ filling' = Front(filling)
            /\ next' = next + 1
            /\ UNCHANGED <<results, pc, view, answer, cause>>
       ELSE /\ results' = Append(results, [root |-> Inner, of |-> view, touched |-> FALSE])
            /\ Returned("value", "none")
            /\ UNCHANGED objects
    /\ UNCHANGED <<vars, kept, buffer>>

ExportFailure(f) == Returned(IF f = "MemoryError" THEN "memory" ELSE "export", f)

ExportFailsKeeping(f) ==
    /\ pc = "export"
    /\ Current.kind = "end" => Len(filling) > 1
    /\ ExportFailure(f)
    /\ UNCHANGED <<vars, kept, objects, results, buffer>>

(* owned, append or set_item fails: every open frame drops what it holds.  *)
ExportFails(f) ==
    /\ pc = "export"
    /\ Current.kind = "end" => Len(filling) > 1
    /\ objects' = IF filling = <<>> THEN objects ELSE SubSeq(objects, 1, filling[1] - 1)
    /\ ExportFailure(f)
    /\ UNCHANGED <<vars, kept, results, buffer>>

-------------------------------------------------------------------------------
(* json_encode::encode, detached.                                          *)
Write ==
    /\ pc = "encode" /\ next =< Len(view)
    /\ bytes' = Append(bytes, Current)
    /\ next' = next + 1
    /\ UNCHANGED <<vars, kept, objects, results, pc, view, filling, allocation_failed,
                   answer, cause>>

ReservationFails ==
    /\ pc = "encode" /\ next =< Len(view)
    /\ allocation_failed' = TRUE
    /\ pc' = "unwritten"
    /\ cause' = "reservation"
    /\ UNCHANGED <<vars, kept, objects, results, call, bytes, answer>>

(* to_writer fails for a reason of its own. *)
SerializerFails ==
    /\ pc = "encode" /\ next =< Len(view)
    /\ pc' = "unwritten"
    /\ cause' = "serializer"
    /\ UNCHANGED <<vars, kept, objects, results, call, buffer, answer>>

EncodeFailsBlind ==
    /\ pc = "unwritten"
    /\ Returned("json_encode", cause)
    /\ bytes' = <<>> /\ allocation_failed' = FALSE
    /\ UNCHANGED <<vars, kept, objects, results>>

EncodeFails ==
    /\ pc = "unwritten"
    /\ Returned(IF allocation_failed THEN "memory" ELSE "json_encode", cause)
    /\ bytes' = <<>> /\ allocation_failed' = FALSE
    /\ UNCHANGED <<vars, kept, objects, results>>

(* The buffer becomes a str, with the GIL held again. *)
Encoded ==
    /\ pc = "encode" /\ next > Len(view)
    /\ \/ Returned("text", "none")
       \/ Returned("memory", "MemoryError")
       \/ Returned("export", "exception")
    /\ bytes' = <<>> /\ allocation_failed' = FALSE
    /\ UNCHANGED <<vars, kept, objects, results>>

-------------------------------------------------------------------------------
(* The containers below a container. *)
Holds(i) == {item.at : item \in {x \in Range(objects[i].items) : x.kind = "ref"}}

Under(i) ==
    LET round[n \in 0 .. DEPTH] ==
            IF n = 0 THEN {i} ELSE round[n - 1] \cup UNION {Holds(j) : j \in round[n - 1]}
    IN  round[DEPTH]

(* A caller that holds a result adds an item to it or to a container in it, *)
(* once per result: at any time another thread has the GIL.                 *)
Change(r, i) ==
    /\ pc # "export" /\ ~results[r].touched
    /\ i \in Under(results[r].root)
    /\ Put(i, [kind |-> "changed"])
    /\ results' = [results EXCEPT ![r].touched = TRUE]
    /\ UNCHANGED <<vars, kept, pc, call, buffer, answer, cause>>

VNext ==
    \/ Next /\ UNCHANGED vvars
    \/ Load
    \/ \E v \in Views : ToDict(v)
    \/ \E f \in {"core", "export"} : RenderFails(f)
    \/ ToJson \/ ToText \/ Assign
    \/ ExportLeaf \/ ExportOpen \/ ExportClose
    \/ \E f \in {"MemoryError", "exception"} : ExportFails(f)
    \/ Write \/ ReservationFails \/ SerializerFails \/ EncodeFails \/ Encoded
    \/ \E r \in DOMAIN results, i \in DOMAIN objects : Change(r, i)

VSpec == VInit /\ [][VNext]_<<vars, vvars>>

-------------------------------------------------------------------------------
(* A value is the document it was loaded from, for good, and the text of it *)
(* is written in full before it is a str.  (values.rs:77-81,                *)
(* json_encode.rs:30-36)                                                    *)
ValueNeverChanges ==
    /\ pc # "unloaded" => value = out
    /\ pc = "encode" => view = out /\ bytes = SubSeq(out, 1, next - 1)

IsRef(item) == item.kind = "ref"

(* Every container of every result is in one place: no result shares one    *)
(* with another result, nor with another place of its own.                  *)
(* (serialization.rs:52-77)                                                 *)
NothingShared ==
    /\ \A r, s \in DOMAIN results : results[r].root = results[s].root => r = s
    /\ \A i, j \in DOMAIN objects :
          \A k \in DOMAIN objects[i].items, m \in DOMAIN objects[j].items :
             IsRef(objects[i].items[k]) /\ objects[i].items[k] = objects[j].items[m]
                => i = j /\ k = m
    /\ \A r \in DOMAIN results, j \in DOMAIN objects :
          \A k \in DOMAIN objects[j].items : objects[j].items[k] # Ref(results[r].root)

(* A MemoryError says that memory ran out, in Python or in the buffer, and  *)
(* no other answer does.  (json_encode.rs:19-34, error.rs:69-75)            *)
AnswersAreTruthful ==
    /\ answer = "memory" <=> cause \in {"MemoryError", "reservation"} /\ pc # "unwritten"
    /\ answer = "export" => cause = "exception"
    /\ answer = "json_encode" => cause = "serializer"

-------------------------------------------------------------------------------
(* What each Python container spells: itself, its items and its end.        *)
Spelling(made) ==
    LET spell[i \in DOMAIN made] ==
            <<[kind |-> made[i].kind]>>
            \o FlattenSeq([k \in DOMAIN made[i].items |->
                              IF IsRef(made[i].items[k]) THEN spell[made[i].items[k].at]
                              ELSE <<made[i].items[k]>>])
            \o <<[kind |-> "end"]>>
    IN  spell

(* A caller holds it, or a container. *)
Held(i) == \/ \E r \in Range(results) : r.root = i
           \/ \E o \in Range(objects) : Ref(i) \in Range(o.items)

(* A value never changes and no two results share anything: what to_dict,   *)
(* rows and to_json give is the document that was loaded or its part,       *)
(* whatever callers did to earlier results or tried to assign; a shared     *)
(* container of the loaded object becomes as many containers, each held in  *)
(* one place; an export that fails leaves none behind.                      *)
(* (serialization.rs:33-79, policy_interface.rs:55-92, batch_value.rs:50-60)*)
ExportsAreCopies ==
    /\ \A r \in DOMAIN results :
          /\ results[r].of \in IF class = "BatchReport" THEN Parts(out) ELSE {out}
          /\ ~results[r].touched => Spelling(objects)[results[r].root] = results[r].of
    /\ \A i \in DOMAIN objects \ Range(filling) : Held(i)
    /\ NothingShared
    /\ ValueNeverChanges

(* The class of an error tells the truth: each error of the conversion has  *)
(* a cause of its own kind that a traversal of the graph from the root      *)
(* meets, and an export answers with a MemoryError exactly when memory ran  *)
(* out, in Python or in the buffer of the encoder.  (conversion.rs:13-35,   *)
(* 64-80,132-159, json_encode.rs:16-36, error.rs:69-75)                     *)
ErrorsAreTruthful == RefusalsAreTruthful /\ AnswersAreTruthful
===============================================================================
