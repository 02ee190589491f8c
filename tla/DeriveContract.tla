---------------------------- MODULE DeriveContract ----------------------------
(***************************************************************************)
(* derive_contract from its bound arguments to its answer: admission of    *)
(* the whole request (rust/src/derive_admission.rs), then the calls into   *)
(* core (rust/src/core_calls.rs).                                          *)
(*                                                                         *)
(* A configuration document is converted in one step here; Conversion says *)
(* why its outcome depends only on the size, depth and defects of its      *)
(* unfolding, and that the request is charged what the document is.  The   *)
(* calls into core may fail, each for its own reasons.                     *)
(*                                                                         *)
(* TypeErrorsUpToPacks, AdmitPackUncarried, AdmitPackLoading and           *)
(* AdmitNotesAlone are faults, part of no specification: the properties    *)
(* are tested against them.                                                *)
(***************************************************************************)
EXTENDS AdmissionBudget, Totals, SequencesExt

CONSTANTS AT_BYTES,     \* 64
          MAX_PACKS,    \* 16
          NOTES_BYTES,  \* 4096
          Requests      \* the requests callers make

(* What matters of an argument.  A text is a string or another object; a    *)
(* document is a dict or another object, with the totals of its unfolding.  *)
Text == [string : BOOLEAN, bytes : Nat, lone_surrogate : BOOLEAN]

Document == [dict : BOOLEAN, size : Counts, deep : BOOLEAN,
             defect : {"none", "type", "value", "overflow"}]

(* An Option is a set of at most one element; None is an absent argument.   *)
Request == [survey : {"survey", "kind", "type"},
            policy : {"policy", "type"},
            at : Text,
            packs : SUBSET [list : BOOLEAN, items : Seq(Document)],
            context : SUBSET Document,
            notes : SUBSET Text]

ASSUME DeriveAssumption ==
    /\ {AT_BYTES, MAX_PACKS, NOTES_BYTES} \subseteq Nat
    /\ AT_BYTES =< REQUEST_BYTES
    /\ Requests \subseteq Request
    /\ \A r \in Requests : /\ \A x, y \in r.packs : x = y
                           /\ \A x, y \in r.context : x = y
                           /\ \A x, y \in r.notes : x = y

VARIABLES request,
          pc,        \* the next step, "done" or the error returned
          combined,  \* counts of the request so far
          admitted,  \* packs converted
          loaded,    \* packs given to their loader
          calls      \* history: the calls made into core, in order

vars == <<request, pc, combined, admitted, loaded, calls>>

Errors == {"type", "kind", "value", "overflow", "budget", "memory", "core"}

(* The calls into core, in the order of core_calls::derive. *)
CoreSteps == {"load_packs", "load_context", "resolve", "basis", "derive", "derive_extended"}

AdmissionSteps == {"types", "at", "packs", "pack", "context", "notes"}

Packs == IF request.packs = {} THEN <<>>
         ELSE (CHOOSE p \in request.packs : TRUE).items

-------------------------------------------------------------------------------
(* conversion::document under the budget of the request. *)
DocumentFits(doc) ==
    ~doc.deep /\ Admits(ConfigurationBudget(combined), doc.size.bytes, doc.size.nodes, 0)

DocumentErrors(doc) ==
    IF ~doc.dict THEN {"type"}
    ELSE {"memory"} \cup ({doc.defect} \ {"none"})
                    \cup (IF DocumentFits(doc) THEN {} ELSE {"budget"})

DocumentOk(doc) == doc.dict /\ doc.defect = "none" /\ DocumentFits(doc)

WithDocument(doc) == Plus(combined, doc.size.bytes, doc.size.nodes)

(* conversion::string, or the same steps one by one for the notes. *)
TextErrors(text, limit) ==
    IF ~Fits(0, text.bytes, limit) THEN {"budget"}
    ELSE IF text.lone_surrogate THEN {"value"}
    ELSE {"memory"}

TextOk(text, limit) == Fits(0, text.bytes, limit) /\ ~text.lone_surrogate

-------------------------------------------------------------------------------
Init ==
    /\ request \in Requests
    /\ pc = "types"
    /\ combined = NoCounts
    /\ admitted = 0
    /\ loaded = 0
    /\ calls = <<>>

Fail(e) ==
    /\ pc' = e
    /\ UNCHANGED <<request, combined, admitted, loaded, calls>>

TypeErrorsUpToPacks ==
    IF request.survey # "survey" THEN {request.survey}
    ELSE IF \/ request.policy # "policy"
            \/ ~request.at.string
            \/ \E p \in request.packs : ~p.list
         THEN {"type"}
         ELSE {}

(* The handles, then the exact type of every other argument that is given. *)
TypeErrors ==
    IF request.survey # "survey" THEN {request.survey}
    ELSE IF \/ request.policy # "policy"
            \/ ~request.at.string
            \/ \E p \in request.packs : ~p.list
            \/ \E c \in request.context : ~c.dict
            \/ \E n \in request.notes : ~n.string
         THEN {"type"}
         ELSE {}

AdmitTypes ==
    /\ pc = "types"
    /\ \/ \E e \in TypeErrors : Fail(e)
       \/ /\ TypeErrors = {}
          /\ pc' = "at"
          /\ UNCHANGED <<request, combined, admitted, loaded, calls>>

AdmitAt ==
    /\ pc = "at"
    /\ \/ \E e \in TextErrors(request.at, AT_BYTES) : Fail(e)
       \/ /\ TextOk(request.at, AT_BYTES)
          /\ combined' = [bytes |-> request.at.bytes, nodes |-> 0]
          /\ pc' = "packs"
          /\ UNCHANGED <<request, admitted, loaded, calls>>

(* The list is a node of its own, even when it is empty. *)
AdmitPacks ==
    /\ pc = "packs"
    /\ \/ /\ request.packs = {}
          /\ pc' = "context"
          /\ UNCHANGED <<request, combined, admitted, loaded, calls>>
       \/ /\ request.packs # {}
          /\ Fail(IF Len(Packs) > MAX_PACKS THEN "budget" ELSE "memory")
       \/ /\ request.packs # {} /\ Len(Packs) =< MAX_PACKS
          /\ combined' = [combined EXCEPT !.nodes = 1]
          /\ pc' = "pack"
          /\ UNCHANGED <<request, admitted, loaded, calls>>

AdmitPackUncarried ==
    /\ pc = "pack"
    /\ IF admitted = Len(Packs)
       THEN /\ pc' = "context"
            /\ UNCHANGED <<request, combined, admitted, loaded, calls>>
       ELSE \/ \E e \in DocumentErrors(Packs[admitted + 1]) : Fail(e)
            \/ /\ DocumentOk(Packs[admitted + 1])
               /\ admitted' = admitted + 1
               /\ UNCHANGED <<request, combined, pc, loaded, calls>>

AdmitPackLoading ==
    /\ pc = "pack"
    /\ IF admitted = Len(Packs)
       THEN /\ pc' = "context"
            /\ UNCHANGED <<request, combined, admitted, loaded, calls>>
       ELSE \/ \E e \in DocumentErrors(Packs[admitted + 1]) : Fail(e)
            \/ /\ DocumentOk(Packs[admitted + 1])
               /\ combined' = WithDocument(Packs[admitted + 1])
               /\ admitted' = admitted + 1
               /\ calls' = Append(calls, "load_pack")
               /\ UNCHANGED <<request, pc, loaded>>

(* The next pack, under what the packs before it left of the request. *)
AdmitPack ==
    /\ pc = "pack"
    /\ IF admitted = Len(Packs)
       THEN /\ pc' = "context"
            /\ UNCHANGED <<request, combined, admitted, loaded, calls>>
       ELSE \/ \E e \in DocumentErrors(Packs[admitted + 1]) : Fail(e)
            \/ /\ DocumentOk(Packs[admitted + 1])
               /\ combined' = WithDocument(Packs[admitted + 1])
               /\ admitted' = admitted + 1
               /\ UNCHANGED <<request, pc, loaded, calls>>

AdmitContext ==
    /\ pc = "context"
    /\ IF request.context = {}
       THEN /\ pc' = "notes"
            /\ UNCHANGED <<request, combined, admitted, loaded, calls>>
       ELSE \E context \in request.context :
               \/ \E e \in DocumentErrors(context) : Fail(e)
               \/ /\ DocumentOk(context)
                  /\ combined' = WithDocument(context)
                  /\ pc' = "notes"
                  /\ UNCHANGED <<request, admitted, loaded, calls>>

(* What follows admission: without packs and context there is no basis.      *)
FirstCall == IF Packs = <<>> /\ request.context = {} THEN "derive" ELSE "load_packs"

AdmitNotesAlone ==
    /\ pc = "notes"
    /\ \/ \E e \in UNION {TextErrors(notes, NOTES_BYTES) : notes \in request.notes} : Fail(e)
       \/ /\ \A notes \in request.notes : TextOk(notes, NOTES_BYTES)
          /\ pc' = FirstCall
          /\ UNCHANGED <<request, combined, admitted, loaded, calls>>

(* utf8_size, the request total, then the copy. *)
NotesErrors(notes) ==
    IF TextOk(notes, NOTES_BYTES) /\ ~Fits(combined.bytes, notes.bytes, REQUEST_BYTES)
    THEN {"budget"}
    ELSE TextErrors(notes, NOTES_BYTES)

AdmitNotes ==
    /\ pc = "notes"
    /\ \/ \E e \in UNION {NotesErrors(notes) : notes \in request.notes} : Fail(e)
       \/ /\ \A notes \in request.notes :
                /\ TextOk(notes, NOTES_BYTES)
                /\ Fits(combined.bytes, notes.bytes, REQUEST_BYTES)
          /\ pc' = FirstCall
          /\ UNCHANGED <<request, combined, admitted, loaded, calls>>

-------------------------------------------------------------------------------
(* core_calls::derive, detached.  A call that fails ends the operation. *)
CallCore(name, next) ==
    /\ calls' = Append(calls, name)
    /\ pc' \in next \cup {"core"}
    /\ UNCHANGED <<request, combined, admitted>>

(* The loader of the next pack; the first that fails ends the loop. *)
LoadPacks ==
    /\ pc = "load_packs"
    /\ IF loaded < Len(Packs)
       THEN /\ CallCore("load_pack", {"load_packs"})
            /\ loaded' = loaded + 1
       ELSE /\ pc' = "load_context"
            /\ UNCHANGED <<request, combined, admitted, loaded, calls>>

LoadContext ==
    /\ pc = "load_context"
    /\ IF request.context = {}
       THEN pc' = "resolve" /\ UNCHANGED <<request, combined, admitted, calls>>
       ELSE CallCore("load_context", {"resolve"})
    /\ UNCHANGED loaded

Resolve == pc = "resolve" /\ CallCore("resolve", {"basis"}) /\ UNCHANGED loaded

(* build_extension_basis_v1 may find that there is nothing to extend. *)
BuildBasis ==
    /\ pc = "basis"
    /\ CallCore("basis", {"derive", "derive_extended"})
    /\ UNCHANGED loaded

Derive ==
    /\ pc \in {"derive", "derive_extended"}
    /\ CallCore(pc, {"done"})
    /\ UNCHANGED loaded

Next ==
    \/ AdmitTypes \/ AdmitAt \/ AdmitPacks \/ AdmitPack \/ AdmitContext \/ AdmitNotes
    \/ LoadPacks \/ LoadContext \/ Resolve \/ BuildBasis \/ Derive

Spec == Init /\ [][Next]_vars

-------------------------------------------------------------------------------
Calls == {"load_pack", "load_context", "resolve", "basis", "derive", "derive_extended"}

(* The variables have their types.  (derive_admission.rs, core_calls.rs) *)
TypeOK ==
    /\ request \in Requests
    /\ pc \in AdmissionSteps \cup CoreSteps \cup Errors \cup {"done"}
    /\ combined \in Counts
    /\ admitted \in 0 .. Len(Packs)
    /\ loaded \in 0 .. Len(Packs)
    /\ calls \in Seq(Calls)

(* The running total never leaves the limits of a request, however the      *)
(* packs, the context and the notes share them, and the notes are part of   *)
(* it when core is called.  (derive_admission.rs:41-67)                     *)
CombinedWithin ==
    /\ CountsWithin(combined, REQUEST_BYTES)
    /\ pc \in CoreSteps =>
          \A notes \in request.notes : combined.bytes + notes.bytes =< REQUEST_BYTES

(* All calls of a derivation that ends well, in their order. *)
Configured ==
    [i \in 1 .. Len(Packs) |-> "load_pack"]
    \o (IF request.context = {} THEN <<>> ELSE <<"load_context">>)
    \o <<"resolve", "basis">>

IsConfigured == Packs # <<>> \/ request.context # {}

AllCalls(last) == (IF IsConfigured THEN Configured ELSE <<>>) \o <<last>>

(* Core is called only when the whole request is admitted, at most once for *)
(* each thing, packs before context before resolution before derivation,    *)
(* and nothing is called after a failure.  Without packs and context there  *)
(* is no loader, no resolution and no extension.  (core_calls.rs:16-58,     *)
(* derive_admission.rs:4)                                                   *)
CoreCallsInOrder ==
    LET last == IF calls # <<>> /\ Last(calls) = "derive_extended"
                THEN "derive_extended" ELSE "derive"
    IN  /\ IsPrefix(calls, AllCalls(last))
        /\ pc = "done" => calls = AllCalls(last)
        /\ pc \notin CoreSteps \cup {"core", "done"} => calls = <<>>
        /\ last = "derive_extended" => IsConfigured

-------------------------------------------------------------------------------
(* The whole request, without a running total or an order: every document,  *)
(* every text that counts.                                                  *)
Documents == ToSet(Packs) \cup request.context
Texts == {request.at} \cup request.notes

ContextSize == IF request.context = {} THEN NoCounts
               ELSE (CHOOSE c \in request.context : TRUE).size

NotesBytes == IF request.notes = {} THEN 0 ELSE (CHOOSE n \in request.notes : TRUE).bytes

PackBytes == [i \in DOMAIN Packs |-> Packs[i].size.bytes]
PackNodes == [i \in DOMAIN Packs |-> Packs[i].size.nodes]

TotalBytes == request.at.bytes + Total(PackBytes) + ContextSize.bytes + NotesBytes
TotalNodes == (IF request.packs = {} THEN 0 ELSE 1) + Total(PackNodes) + ContextSize.nodes

WithinLimits ==
    /\ TotalBytes =< REQUEST_BYTES /\ TotalNodes =< NODES
    /\ Len(Packs) =< MAX_PACKS
    /\ request.at.bytes =< AT_BYTES
    /\ \A n \in request.notes : n.bytes =< NOTES_BYTES
    /\ \A d \in Documents : ~d.deep /\ CountsWithin(d.size, CONFIG_BYTES)

ArgumentsTyped ==
    /\ request.survey = "survey" /\ request.policy = "policy"
    /\ \A t \in Texts : t.string
    /\ \A p \in request.packs : p.list
    /\ \A c \in request.context : c.dict

HasDefect(defect) == \E d \in Documents : d.defect = defect

Admissible ==
    /\ ArgumentsTyped
    /\ \A d \in Documents : d.dict /\ d.defect = "none"
    /\ \A t \in Texts : ~t.lone_surrogate
    /\ WithinLimits

(* Unless memory runs out, core sees exactly the requests whose arguments   *)
(* have their types and whose documents and texts fit, each alone and all   *)
(* together: the limits hold for the request, in whatever order its parts   *)
(* are charged.  (derive_admission.rs:25-72)                                *)
AdmitsExactlyAdmissible ==
    /\ pc \in CoreSteps \cup {"core", "done"} => Admissible
    /\ pc \in {"type", "kind", "value", "overflow", "budget"} => ~Admissible

(* The class of a refusal has its cause in the request, and no error about  *)
(* the contents of an argument hides the wrong type of another one.         *)
(* (derive_admission.rs:26-37, conversion.rs:13-50)                         *)
RefusalsAreTruthful ==
    /\ pc = "kind" => request.survey = "kind"
    /\ pc = "type" => ~ArgumentsTyped \/ HasDefect("type") \/ \E d \in ToSet(Packs) : ~d.dict
    /\ pc = "value" => HasDefect("value") \/ \E t \in Texts : t.lone_surrogate
    /\ pc = "overflow" => HasDefect("overflow")
    /\ pc = "budget" => ~WithinLimits
    /\ pc \in {"value", "overflow", "budget"} => ArgumentsTyped
===============================================================================
