------------------------------ MODULE JsonDecode ------------------------------
(***************************************************************************)
(* json_decode::document of rust/src/json_decode.rs: a JSON text becomes   *)
(* an owned value under the budget that Conversion has for objects.        *)
(*                                                                         *)
(* The text is a sequence of lexemes.  The decoder never looks back and    *)
(* only one lexeme ahead, so the text is chosen while it is read: every    *)
(* text is some choice.  A string is one lexeme, its escapes resolved: the *)
(* key it names, the bytes up to its end or up to its first fault.  A      *)
(* number is one lexeme, charged its digits or 8 as in Conversion.  White  *)
(* space is left out.                                                      *)
(*                                                                         *)
(* value, object and array call each other in the code: frames is their    *)
(* call stack, at the place in the innermost.                              *)
(*                                                                         *)
(* TextErrorAhead and NextAllowingTrailing are faults, part of no          *)
(* specification: the properties are tested against them.                  *)
(***************************************************************************)
EXTENDS AdmissionBudget, Sequences, SequencesExt

CONSTANT Lexemes  \* what texts are made of

Punctuation == [kind : {"{", "}", "[", "]", ":", ",", "end"}]

(* garbage starts no value; nan is NaN, Infinity or -Infinity. *)
Unreadable == [kind : {"garbage", "nan"}]

Text == [kind : {"str"}, name : STRING, bytes : Nat, fault : {"none", "syntax", "unicode"}]

Scalar == [kind : {"num"}, bytes : Nat, fault : {"none", "syntax", "overflow", "nonfinite"}]
              \cup [kind : {"literal"}, bytes : {4, 5}]

ASSUME JsonAssumption == Lexemes \subseteq Punctuation \cup Unreadable \cup Text \cup Scalar

VARIABLES long,    \* the text is longer than DOCUMENT_BYTES
          text,    \* read so far
          budget,
          frames,  \* open containers: kind and the keys of the map
          at,      \* what comes next: "value", "first value", "key", "first key",
                   \* "colon", "next" or "end"
          out,     \* the value built so far
          status   \* "called", "running", "done" or the error returned

docVars == <<long, text, budget, frames, at, out, status>>

Depth == Len(frames)

-------------------------------------------------------------------------------
DInit ==
    /\ long \in BOOLEAN
    /\ text = <<>> /\ budget = DocumentBudget(DOCUMENT_BYTES)
    /\ frames = <<>> /\ at = "value" /\ out = <<>> /\ status = "called"

Document ==
    /\ status = "called" /\ status' = IF long THEN "budget" ELSE "running"
    /\ UNCHANGED <<long, text, budget, frames, at, out>>

Reads(x) ==
    /\ status = "running" /\ x \in Lexemes
    /\ text' = Append(text, x)
    /\ UNCHANGED long

Reject(error) == status' = error /\ UNCHANGED <<budget, frames, at, out>>

ChargeError(bytes, depth) == IF Admits(budget, bytes, 1, depth) THEN "none" ELSE "budget"

TextErrorAhead(x) ==
    IF x.fault # "none" THEN x.fault ELSE ChargeError(x.bytes, Depth)

(* A string is charged its node and then each character, up to its fault. *)
TextError(x) ==
    IF ChargeError(x.bytes, Depth) # "none" THEN "budget" ELSE x.fault

(* A number is charged when it has been read. *)
NumberError(x) ==
    IF x.fault # "none" THEN x.fault ELSE ChargeError(x.bytes, Depth)

ScalarError(x) ==
    CASE x.kind = "str" -> TextError(x)
      [] x.kind = "num" -> NumberError(x)
      [] x.kind = "literal" -> ChargeError(x.bytes, Depth)
      [] x.kind = "nan" -> "nonfinite"
      [] OTHER -> "syntax"

(* Where the caller goes on with the value that is complete. *)
After(callers) == IF callers = <<>> THEN "end" ELSE "next"

InArray(callers) == callers # <<>> /\ Last(callers).kind = "list"

(* A string grows with every character, and a list to take the value.       *)
GrowthFails(x) == (x.kind = "str" /\ x.bytes > 0) \/ (ScalarError(x) = "none" /\ InArray(frames))

ReadScalar(x) ==
    /\ at \in {"value", "first value"} /\ Reads(x)
    /\ x.kind \notin {"{", "["} /\ ~(x.kind = "]" /\ at = "first value")
    /\ \/ /\ ScalarError(x) = "none"
          /\ budget' = Charge(budget, x.bytes, 1)
          /\ out' = Append(out, x)
          /\ at' = After(frames)
          /\ UNCHANGED <<frames, status>>
       \/ ScalarError(x) # "none" /\ Reject(ScalarError(x))
       \/ GrowthFails(x) /\ Reject("memory")

Frame(x) == [kind |-> IF x.kind = "{" THEN "dict" ELSE "list", keys |-> {}]

Open(x) ==
    /\ at \in {"value", "first value"} /\ Reads(x) /\ x.kind \in {"{", "["}
    /\ IF ChargeError(0, Depth + 1) = "none"
       THEN /\ budget' = Charge(budget, 0, 1)
            /\ frames' = Append(frames, Frame(x))
            /\ out' = Append(out, [kind |-> Frame(x).kind])
            /\ at' = IF x.kind = "{" THEN "first key" ELSE "first value"
            /\ UNCHANGED status
       ELSE Reject("budget")

(* The end of object or array: a list that gets the value must make room.   *)
Closes(x) ==
    IF Last(frames).kind = "dict" THEN x.kind = "}" /\ at \in {"first key", "next"}
    ELSE x.kind = "]" /\ at \in {"first value", "next"}

Close(x) ==
    /\ frames # <<>> /\ Closes(x) /\ Reads(x)
    /\ \/ /\ frames' = Front(frames)
          /\ out' = Append(out, [kind |-> "end"])
          /\ at' = After(Front(frames))
          /\ UNCHANGED <<budget, status>>
       \/ InArray(Front(frames)) /\ Reject("memory")

Fresh(x) == x.name \notin Last(frames).keys

(* A key is charged before it is found to be there already. *)
ReadKey(x) ==
    /\ at \in {"key", "first key"} /\ Reads(x) /\ ~(x.kind = "}" /\ at = "first key")
    /\ \/ x.kind # "str" /\ Reject("syntax")
       \/ x.kind = "str" /\ x.bytes > 0 /\ Reject("memory")
       \/ x.kind = "str" /\ TextError(x) # "none" /\ Reject(TextError(x))
       \/ /\ x.kind = "str" /\ TextError(x) = "none"
          /\ \/ ~Fresh(x) /\ Reject("duplicate")
             \/ /\ Fresh(x)
                /\ budget' = Charge(budget, x.bytes, 1)
                /\ frames' = [frames EXCEPT ![Depth].keys = @ \cup {x.name}]
                /\ out' = Append(out, x)
                /\ at' = "colon"
                /\ UNCHANGED status

ReadColon(x) ==
    /\ at = "colon" /\ Reads(x)
    /\ IF x.kind = ":" THEN at' = "value" /\ UNCHANGED <<budget, frames, out, status>>
       ELSE Reject("syntax")

NextAllowingTrailing(x) ==
    /\ at = "next" /\ Reads(x) /\ ~Closes(x)
    /\ IF x.kind = ","
       THEN /\ at' = IF InArray(frames) THEN "first value" ELSE "first key"
            /\ UNCHANGED <<budget, frames, out, status>>
       ELSE Reject("syntax")

(* After a value in a container; its end is Close. *)
ReadNext(x) ==
    /\ at = "next" /\ Reads(x) /\ ~Closes(x)
    /\ IF x.kind = ","
       THEN /\ at' = IF InArray(frames) THEN "value" ELSE "key"
            /\ UNCHANGED <<budget, frames, out, status>>
       ELSE Reject("syntax")

(* The text must end with the value, and the value must be an object. *)
ReadEnd(x) ==
    /\ at = "end" /\ Reads(x)
    /\ status' = IF x.kind # "end" THEN "syntax"
                 ELSE IF Head(out).kind # "dict" THEN "type" ELSE "done"
    /\ UNCHANGED <<budget, frames, at, out>>

DNext ==
    \/ Document
    \/ \E x \in Lexemes :
          \/ ReadScalar(x) \/ Open(x) \/ Close(x)
          \/ ReadKey(x) \/ ReadColon(x) \/ ReadNext(x) \/ ReadEnd(x)

===============================================================================
