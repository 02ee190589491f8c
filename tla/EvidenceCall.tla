----------------------------- MODULE EvidenceCall -----------------------------
(***************************************************************************)
(* validate and classify_batch from the arguments the caller passes to the *)
(* request core gets: ArgumentBinding, then the admission of the handles   *)
(* (rust/src/validate_admission.rs, batch_admission.rs), then, without the *)
(* GIL, the payloads (core_calls.rs, batch.rs).                            *)
(*                                                                         *)
(* Both are straight-line code: a sequence of checks that return early.    *)
(* Program is that sequence, and Step runs one check of it.  A slot is     *)
(* counted from 1.  An object is a record: an exact Artifact with its      *)
(* role, an exact list, str or int, None, or anything else.  A text is     *)
(* its size, whether a code point that is no Unicode scalar follows, and   *)
(* the mode it names, if any.                                              *)
(*                                                                         *)
(* CountsAfterHandles, NoneUnsupplied and PayloadsReversed are faults,     *)
(* part of no specification: the properties are tested against them.       *)
(***************************************************************************)
EXTENDS ArgumentBinding, FiniteSets

CONSTANTS AT_BYTES,    \* 64
          MODE_BYTES,  \* 32
          NOTES_BYTES, \* 4096
          BATCH,       \* entries of each list of classify_batch: 16
          PAIRS,       \* contracts times profiles: 64
          THERMAL      \* thermal evidence of validate: 128

Role == {"Survey", "Contract", "Profile", "State", "Thermal", "none"}

Modes == {"contract_only", "state_advisory", "state_required"}

None == [is |-> "None"]

ASSUME EvidenceAssumption ==
    /\ {AT_BYTES, MODE_BYTES, NOTES_BYTES, BATCH, PAIRS, THERMAL} \subseteq Nat
    /\ \A o \in Object :
          \/ o.is = "artifact" /\ o.role \in Role
          \/ o.is = "list"  /\ o.items \in Seq(Object)
          \/ o.is = "str"   /\ o.bytes \in Nat /\ o.lone_surrogate \in BOOLEAN
                            /\ o.name \in Modes \cup {"text"}
          \/ o.is = "int"   /\ o.u64 \in BOOLEAN
          \/ o.is \in {"None", "other"}

VARIABLES at,       \* the check the program is at
          error,    \* the error returned, or "none"
          owned,    \* by slot: what the admission copied
          payload,  \* by slot: the payloads cloned for core
          core      \* the requests core got

evars == <<vars, at, error, owned, payload, core>>

-------------------------------------------------------------------------------
ValidateCall == [slots |-> 8, positional |-> 2, required |-> 3]
BatchCall    == [slots |-> 6, positional |-> 2, required |-> 3]

Check(do, slot, arg) == [do |-> do, slot |-> slot, arg |-> arg]

ValidateProgram ==
    << Check("handle", 1, "Contract"), Check("handle", 2, "Profile"),
       Check("exact", 3, "str"), Check("exact", 4, "str"), Check("handle", 5, "State"),
       Check("exact", 6, "list"), Check("exact", 7, "int"), Check("exact", 8, "str"),
       Check("text", 3, AT_BYTES), Check("text", 4, MODE_BYTES),
       Check("count", 6, THERMAL), Check("handles", 6, "Thermal"),
       Check("number", 7, 0), Check("text", 8, NOTES_BYTES), Check("mode", 4, 0),
       Check("payload", 1, "Contract"), Check("payload", 2, "Profile"),
       Check("payload", 5, "State"), Check("payload", 6, "Thermal") >>

BatchProgram ==
    << Check("exact", 1, "list"), Check("exact", 2, "list"), Check("exact", 3, "str"),
       Check("exact", 4, "str"), Check("exact", 5, "list"), Check("exact", 6, "int"),
       Check("counts", 1, BATCH),
       Check("text", 3, AT_BYTES), Check("text", 4, MODE_BYTES), Check("number", 6, 0),
       Check("handles", 1, "Contract"), Check("handles", 2, "Profile"),
       Check("handles", 5, "State"), Check("mode", 4, 0),
       Check("payload", 1, "Contract"), Check("payload", 2, "Profile"),
       Check("payload", 5, "State") >>

CountsAfterHandles ==
    CASE signature = ValidateCall -> ValidateProgram
      [] signature = BatchCall ->
            [i \in DOMAIN BatchProgram |->
                CASE i = 7 -> BatchProgram[11] [] i = 11 -> BatchProgram[7] [] OTHER -> BatchProgram[i]]
      [] OTHER -> <<>>

(* The other signatures are only bound here. *)
Program ==
    CASE signature = ValidateCall -> ValidateProgram
      [] signature = BatchCall -> BatchProgram
      [] OTHER -> <<>>

(* optional takes None for an argument that is not given; supplied, which   *)
(* reads the mode, and required do not.                                     *)
NoneUnsupplied(slot) == slot > signature.required

NoneIsAbsent(slot) == slot > 4

Given(slot) == values[slot] # Absent /\ ~(NoneIsAbsent(slot) /\ values[slot] = None)

Length(slot) == IF Given(slot) THEN Len(values[slot].items) ELSE 0

-------------------------------------------------------------------------------
(* Artifact::handle: the exact type, then the role. *)
HandleErrors(object, role) ==
    IF object.is # "artifact" THEN {"type"}
    ELSE IF object.role # role THEN {"kind"}
    ELSE {}

FirstHandleErrors(items, role) ==
    LET bad == {i \in DOMAIN items : HandleErrors(items[i], role) # {}}
    IN  UNION {HandleErrors(items[i], role) : i \in {j \in bad : \A k \in bad : j =< k}}

(* A product is asked for only of counts within the cap. *)
CountsExceed(cap) ==
    \/ \E slot \in {1, 2, 5} : Length(slot) > cap
    \/ Length(1) * Length(2) > PAIRS

(* The error a check of the request itself ends with: one, or none. *)
CheckErrors(check) ==
    LET object == values[check.slot] IN
    CASE check.do = "exact"   -> IF object.is # check.arg THEN {"type"} ELSE {}
      [] check.do = "handle"  -> HandleErrors(object, check.arg)
      [] check.do = "count"   -> IF Len(object.items) > check.arg THEN {"budget"} ELSE {}
      [] check.do = "counts"  -> IF CountsExceed(check.arg) THEN {"budget"} ELSE {}
      [] check.do = "text"    -> IF object.bytes > check.arg THEN {"budget"}
                                 ELSE IF object.lone_surrogate THEN {"value"}
                                 ELSE {}
      [] check.do = "number"  -> IF object.u64 THEN {} ELSE {"overflow"}
      [] check.do = "handles" -> FirstHandleErrors(object.items, check.arg)
      [] check.do = "mode"    -> IF object.name \in Modes THEN {} ELSE {"value"}
      [] check.do = "payload" -> FirstHandleErrors(owned[check.slot], check.arg)

(* The checks that reserve memory; validate collects its payloads without. *)
Reserves(check) ==
    \/ check.do \in {"text", "handles"}
    \/ check.do = "payload" /\ signature = BatchCall

Owns(check) == check.do \in {"handle", "handles", "text", "number", "mode"}

Copied(check) ==
    LET object == values[check.slot] IN
    CASE check.do = "handle"  -> <<object>>
      [] check.do = "handles" -> object.items
      [] check.do = "mode"    -> object.name
      [] OTHER                -> object

-------------------------------------------------------------------------------
EInit ==
    /\ Init
    /\ at = 1 /\ error = "none"
    /\ owned = [slot \in Slots |-> <<>>]
    /\ payload = [slot \in Slots |-> <<>>]
    /\ core = {}

Binding == Next /\ UNCHANGED <<at, error, owned, payload, core>>

Running == status = "bound" /\ error = "none" /\ at \in DOMAIN Program

Fail(e) == error' = e /\ UNCHANGED <<vars, at, owned, payload, core>>

Pass == at' = at + 1 /\ UNCHANGED <<vars, error, core>>

(* An argument that is not given is not looked at; the mode has a default. *)
Skip(check) ==
    /\ ~Given(check.slot)
    /\ owned' = IF check.do = "mode" THEN [owned EXCEPT ![check.slot] = "contract_only"] ELSE owned
    /\ UNCHANGED payload
    /\ Pass

Refusal(check) ==
    /\ Given(check.slot)
    /\ \E e \in CheckErrors(check) : Fail(e)

(* A list is reserved before its items are looked at, a text is copied last. *)
Exhausted(check) ==
    /\ Given(check.slot) /\ Reserves(check)
    /\ check.do = "text" => CheckErrors(check) = {}
    /\ Fail("memory")

PayloadsReversed(check) ==
    /\ Given(check.slot) /\ CheckErrors(check) = {}
    /\ owned' = IF Owns(check) THEN [owned EXCEPT ![check.slot] = Copied(check)] ELSE owned
    /\ payload' = IF check.do = "payload"
                  THEN [payload EXCEPT ![check.slot] = Reverse(owned[check.slot])] ELSE payload
    /\ Pass

Do(check) ==
    /\ Given(check.slot) /\ CheckErrors(check) = {}
    /\ owned' = IF Owns(check) THEN [owned EXCEPT ![check.slot] = Copied(check)] ELSE owned
    /\ payload' = IF check.do = "payload"
                  THEN [payload EXCEPT ![check.slot] = owned[check.slot]] ELSE payload
    /\ Pass

Step ==
    /\ Running
    /\ LET check == Program[at]
       IN  Skip(check) \/ Refusal(check) \/ Exhausted(check) \/ Do(check)

(* The evidence is the payloads; what else there is was copied on admission. *)
Call ==
    /\ status = "bound" /\ error = "none"
    /\ Program # <<>> /\ at > Len(Program) /\ core = {}
    /\ core' = {[evidence |-> payload, options |-> owned]}
    /\ UNCHANGED <<vars, at, error, owned, payload>>

ENext == Binding \/ Step \/ Call

ESpec == EInit /\ [][ENext]_evars

-------------------------------------------------------------------------------
(* However long the caller's lists are, no more than BATCH handles of a     *)
(* kind and PAIRS pairs are ever looked at and copied, and a call refused   *)
(* for its counts is refused for nothing else in the lists.                 *)
(* (batch_admission.rs:53-82, validate_admission.rs:31-40)                  *)
WorkIsBounded ==
    status = "bound" =>
        /\ signature = BatchCall =>
              /\ \A i \in {1, 2, 5} : Len(owned[i]) =< BATCH
              /\ Len(owned[1]) * Len(owned[2]) =< PAIRS
              /\ error = "kind" =>
                    /\ \A i \in {1, 2, 5} : Length(i) =< BATCH
                    /\ Length(1) * Length(2) =< PAIRS
        /\ signature = ValidateCall => Len(owned[6]) =< THERMAL

(* What core works on is what the caller passed: every handle, in the       *)
(* caller's order, no other, and the options as given.                      *)
(* (core_calls.rs:61-93, batch.rs:19-55)                                    *)
CoreGetsRequest ==
    \A request \in core :
        \A i \in Slots :
           LET object == values[i] IN
           IF ~Given(i)
           THEN /\ request.evidence[i] = <<>>
                /\ request.options[i] = IF i = 4 THEN "contract_only" ELSE <<>>
           ELSE /\ object.is = "artifact" => request.evidence[i] = <<object>>
                /\ object.is = "list" => request.evidence[i] = object.items
                /\ i = 4 => request.options[i] = object.name
                /\ object.is \in {"str", "int"} /\ i # 4 => request.options[i] = object

-------------------------------------------------------------------------------
(* What an admissible call is, said without checks or an order. *)
Evidence(object, role) == object.is = "artifact" /\ object.role = role

EvidenceList(object, role, cap) ==
    object.is = "list" /\ Len(object.items) =< cap /\ \A o \in ToSet(object.items) : Evidence(o, role)

FineText(object, limit) == object.is = "str" /\ object.bytes =< limit /\ ~object.lone_surrogate

FineMode(object) == FineText(object, MODE_BYTES) /\ object.name \in Modes

FineAge(object) == object.is = "int" /\ object.u64

(* What slot i of an operation may hold: no object at all, or a good one.   *)
ValidateSlot(i, o) ==
    CASE i = 1 -> Evidence(o, "Contract")
      [] i = 2 -> Evidence(o, "Profile")
      [] i = 3 -> FineText(o, AT_BYTES)
      [] i = 4 -> FineMode(o)
      [] i = 5 -> o = None \/ Evidence(o, "State")
      [] i = 6 -> o = None \/ EvidenceList(o, "Thermal", THERMAL)
      [] i = 7 -> o = None \/ FineAge(o)
      [] i = 8 -> o = None \/ FineText(o, NOTES_BYTES)

BatchSlot(i, o) ==
    CASE i = 1 -> EvidenceList(o, "Contract", BATCH)
      [] i = 2 -> EvidenceList(o, "Profile", BATCH)
      [] i = 3 -> FineText(o, AT_BYTES)
      [] i = 4 -> FineMode(o)
      [] i = 5 -> o = None \/ EvidenceList(o, "State", BATCH)
      [] i = 6 -> o = None \/ FineAge(o)

PairsOf(contracts, profiles) ==
    {<<i, j>> : i \in DOMAIN contracts.items, j \in DOMAIN profiles.items}

Admissible ==
    IF signature = ValidateCall
    THEN \A i \in Slots : values[i] # Absent => ValidateSlot(i, values[i])
    ELSE /\ \A i \in Slots : values[i] # Absent => BatchSlot(i, values[i])
         /\ Cardinality(PairsOf(values[1], values[2])) =< PAIRS

(* Unless memory runs out, core is reached by exactly the requests that     *)
(* are admissible, None standing for every argument left out but the mode.  *)
(* (validate_admission.rs:43-80, batch_admission.rs:39-97)                  *)
AdmitsExactlyAdmissible ==
    /\ core # {} => Admissible
    /\ error \notin {"none", "memory"} => ~Admissible
===============================================================================
