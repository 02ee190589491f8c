---------------------------- MODULE ArgumentBinding ----------------------------
(***************************************************************************)
(* Arguments::bind of rust/src/argument_binding.rs, the first step of      *)
(* every operation: positional and keyword arguments fill the slots of a   *)
(* fixed signature, one after the other, and any misfit is ARGUMENTS.      *)
(*                                                                         *)
(* A signature names its slots; the first positional of them may be given  *)
(* by position and the first required of them must be given.  A key that   *)
(* can be read names a slot, or none (0); one that is no exact str, has no *)
(* UTF-8 or is over 32 bytes long cannot be read.  Keywords are a dict:    *)
(* they come in the caller's order and none names a slot twice.            *)
(*                                                                         *)
(* BindKeywordOver and CheckRequiredCount are faults, part of no           *)
(* specification: the properties are tested against them.                  *)
(***************************************************************************)
EXTENDS Naturals, Sequences, SequencesExt

CONSTANTS Object,      \* what is passed
          Absent,      \* the slot of an argument that is not given
          Signatures,  \* of the operations
          Calls        \* the arguments callers pass

Signature == [slots : Nat, positional : Nat, required : Nat]

Unreadable == {"not_str", "surrogate", "long"}

Keyword == [key : Nat, defect : Unreadable \cup {"none"}, value : Object]

ASSUME BindingAssumption ==
    /\ Absent \notin Object
    /\ Signatures \subseteq Signature
    /\ \A s \in Signatures : s.positional =< s.slots /\ s.required =< s.slots
    /\ Calls \subseteq [args : Seq(Object), kwargs : Seq(Keyword)]
    /\ \A c \in Calls : \A i, j \in DOMAIN c.kwargs :
          /\ c.kwargs[i].defect # "none" => c.kwargs[i].key = 0
          /\ c.kwargs[i].key # 0 /\ c.kwargs[i].key = c.kwargs[j].key => i = j

VARIABLES signature, call,
          values,  \* the slots, empty until they are allocated
          next,    \* position of the next keyword
          status   \* "start", "keywords", "bound", "type" or "memory"

vars == <<signature, call, values, next, status>>

Slots == 1 .. signature.slots

-------------------------------------------------------------------------------
Init ==
    /\ signature \in Signatures
    /\ call \in Calls
    /\ values = <<>>
    /\ next = 1
    /\ status = "start"

Refuse(error) ==
    /\ status' = error
    /\ UNCHANGED <<signature, call, values, next>>

TooMany == Len(call.args) > signature.positional \/ Len(call.kwargs) > signature.slots

(* The counts, then the slots, then the positional arguments. *)
Place ==
    /\ status = "start"
    /\ \/ TooMany /\ Refuse("type")
       \/ ~TooMany /\ Refuse("memory")
       \/ /\ ~TooMany
          /\ values' = [i \in Slots |-> IF i =< Len(call.args) THEN call.args[i] ELSE Absent]
          /\ status' = "keywords"
          /\ UNCHANGED <<signature, call, next>>

Keyworded == call.kwargs[next]

BindKeywordOver ==
    /\ status = "keywords" /\ next =< Len(call.kwargs)
    /\ \/ Keyworded.key \notin Slots /\ Refuse("type")
       \/ Keyworded.defect = "none" /\ Refuse("memory")
       \/ /\ Keyworded.key \in Slots
          /\ values' = [values EXCEPT ![Keyworded.key] = Keyworded.value]
          /\ next' = next + 1
          /\ UNCHANGED <<signature, call, status>>

(* The name is copied before it is looked up. *)
BindKeyword ==
    /\ status = "keywords" /\ next =< Len(call.kwargs)
    /\ \/ /\ Keyworded.key \in Slots => values[Keyworded.key] # Absent
          /\ Refuse("type")
       \/ /\ Keyworded.defect = "none"
          /\ Refuse("memory")
       \/ /\ Keyworded.key \in Slots /\ values[Keyworded.key] = Absent
          /\ values' = [values EXCEPT ![Keyworded.key] = Keyworded.value]
          /\ next' = next + 1
          /\ UNCHANGED <<signature, call, status>>

CheckRequiredCount ==
    /\ status = "keywords" /\ next > Len(call.kwargs)
    /\ Refuse(IF Len(call.args) + Len(call.kwargs) < signature.required THEN "type" ELSE "bound")

CheckRequired ==
    /\ status = "keywords" /\ next > Len(call.kwargs)
    /\ status' = IF \E i \in 1 .. signature.required : values[i] = Absent
                 THEN "type" ELSE "bound"
    /\ UNCHANGED <<signature, call, values, next>>

Next == Place \/ BindKeyword \/ CheckRequired

Spec == Init /\ [][Next]_vars

-------------------------------------------------------------------------------
(* The variables have their types; there is one value for every slot, so    *)
(* no index of bind, required, optional or supplied is out of bounds.       *)
(* (argument_binding.rs:26-66)                                              *)
TypeOK ==
    /\ signature \in Signatures
    /\ call \in Calls
    /\ status \in {"start", "keywords", "bound", "type", "memory"}
    /\ next \in 1 .. Len(call.kwargs) + 1
    /\ \/ values = <<>>
       \/ values \in [Slots -> Object \cup {Absent}]
    /\ status \in {"keywords", "bound"} => values \in [Slots -> Object \cup {Absent}]

(* What the caller passes for slot i. *)
PassedFor(i) ==
    {call.args[j] : j \in {i} \cap DOMAIN call.args}
        \cup {call.kwargs[j].value : j \in {k \in DOMAIN call.kwargs : call.kwargs[k].key = i}}

(* A bound slot holds the one thing the caller passed for it, so that       *)
(* nothing passed is lost, and is empty only if the caller passed nothing;  *)
(* the slots required unwraps are never empty.                              *)
(* (argument_binding.rs:29-58)                                              *)
BoundAsPassed ==
    status = "bound" =>
        \A i \in Slots :
           /\ values[i] # Absent => PassedFor(i) = {values[i]}
           /\ values[i] = Absent => PassedFor(i) = {} /\ i > signature.required

(* The calls that Python itself would accept for the signature. *)
WellFormed ==
    /\ Len(call.args) =< signature.positional
    /\ \A k \in DOMAIN call.kwargs :
          call.kwargs[k].key \in Slots /\ call.kwargs[k].key > Len(call.args)
    /\ \A i \in 1 .. signature.required : PassedFor(i) # {}

(* Unless memory runs out, bind accepts exactly the well-formed calls, in   *)
(* whatever order the keywords come.  (argument_binding.rs:22-54)           *)
BindsExactlyWellFormed ==
    /\ status = "bound" => WellFormed
    /\ status = "type" => ~WellFormed
===============================================================================
