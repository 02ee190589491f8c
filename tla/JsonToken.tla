------------------------------- MODULE JsonToken -------------------------------
(***************************************************************************)
(* How json_decode reads the two lexemes that are spelled: a string        *)
(* (rust/src/json_string.rs) and a number (number of json_decode.rs).      *)
(* Where JsonDecode expects a value one may be read part by part; it is    *)
(* the last that is read.                                                  *)
(*                                                                         *)
(* The parts of a string are a character, the closing quote, an escape of  *)
(* one letter, an escape \u with its code unit, either of these spelled    *)
(* wrong, and the end of the text.  Those of a number are digits, the      *)
(* signs that have a meaning, "Infinity", and anything else.               *)
(*                                                                         *)
(* HighUnpaired is a fault, part of no specification: the property is      *)
(* tested against it.                                                      *)
(***************************************************************************)
EXTENDS JsonDecode

CONSTANTS StringParts, NumberParts,
          MaxToken,       \* bound on the parts of a token
          SpelledAfter,   \* the texts after which one is read so
          NumberSize      \* number of values of a u64 and of an i64: 2^64

High == 55296 .. 56319  \* 0xd800 ..= 0xdbff
Low == 56320 .. 57343   \* 0xdc00 ..= 0xdfff

(* A char is in one of the 17 planes, and is no half of a pair. *)
Chars == {c \in Nat : c \div 65536 < 17} \ (High \cup Low)

CodeUnits == {c \in Nat : c < 65536}
Escapable == {8, 9, 10, 12, 13, 34, 47, 92}

ASSUME TokenAssumption ==
    /\ StringParts \subseteq [is : {"char"}, code : Chars]
                                \cup [is : {"escape"}, code : Escapable]
                                \cup [is : {"unit"}, code : CodeUnits]
                                \cup [is : {"quote", "bad escape", "bad hex", "end"}]
    /\ NumberParts \subseteq [is : {"digit"}, value : 0 .. 9]
                                \cup [is : {"-", "+", ".", "e", "Infinity", "else"}]
    /\ SpelledAfter \subseteq Seq(Lexemes)
    /\ MaxToken \in Nat /\ NumberSize \in Nat \ {0}

VARIABLES token,   \* read so far, the part that ended it included
          place,   \* in the token
          got,     \* the characters of the string so far
          answer   \* "none", "reading", "done" or the error returned

tokenVars == <<token, place, got, answer>>

TInit == DInit /\ token = <<>> /\ place = "none" /\ got = <<>> /\ answer = "none"

Decode == answer = "none" /\ DNext /\ UNCHANGED tokenVars

BeginToken(where) ==
    /\ answer = "none" /\ status = "running" /\ at \in {"value", "first value"}
    /\ text \in SpelledAfter
    /\ place' = where
    /\ UNCHANGED <<long, text, frames, at, out, status, token, got>>

Part(x) ==
    /\ answer = "reading" /\ Len(token) < MaxToken
    /\ token' = Append(token, x)
    /\ UNCHANGED <<long, text, frames, at, out, status>>

Answer(a) == answer' = a /\ UNCHANGED <<budget, place, got>>

Continue(where) == place' = where /\ UNCHANGED <<budget, got, answer>>

-------------------------------------------------------------------------------
Utf8Size(c) == IF c < 128 THEN 1 ELSE IF c < 2048 THEN 2 ELSE IF c < 65536 THEN 3 ELSE 4

BeginString ==
    /\ BeginToken("string")
    /\ IF ChargeError(0, Depth) = "none" THEN budget' = Charge(budget, 0, 1) /\ answer' = "reading"
       ELSE answer' = "budget" /\ UNCHANGED budget

Push(c) ==
    IF Admits(budget, Utf8Size(c), 0, Depth)
    THEN \/ /\ budget' = Charge(budget, Utf8Size(c), 0)
            /\ got' = Append(got, c) /\ place' = "string" /\ UNCHANGED answer
         \/ Answer("memory")
    ELSE Answer("budget")

ReadCharacter(x) ==
    /\ place = "string" /\ x.is \in {"char", "escape"} /\ Part(x)
    /\ IF x.is = "char" /\ x.code < 32 THEN Answer("syntax") ELSE Push(x.code)

ReadUnit(x) ==
    /\ place = "string" /\ x.is = "unit" /\ Part(x)
    /\ CASE x.code \in High -> Continue("low")
         [] x.code \in Low -> Answer("unicode")
         [] OTHER -> Push(x.code)

Paired(high, low) == 65536 + (high - 55296) * 1024 + (low - 56320)

HighUnpaired(x) ==
    /\ place = "low" /\ Part(x)
    /\ CASE x.is = "unit" -> Push(Paired(Last(token).code, x.code))
         [] x.is = "bad hex" -> Answer("syntax")
         [] OTHER -> Answer("unicode")

ReadLow(x) ==
    /\ place = "low" /\ Part(x)
    /\ CASE x.is = "unit" /\ x.code \in Low -> Push(Paired(Last(token).code, x.code))
         [] x.is = "bad hex" -> Answer("syntax")
         [] OTHER -> Answer("unicode")

EndString(x) ==
    /\ place = "string" /\ x.is \notin {"char", "escape", "unit"} /\ Part(x)
    /\ Answer(IF x.is = "quote" THEN "done" ELSE "syntax")

-------------------------------------------------------------------------------
BeginNumber == BeginToken("sign") /\ answer' = "reading" /\ UNCHANGED budget

IsDigit(x) == x.is = "digit"

(* The places of a number at which x is consumed, with the place after it.  *)
Onward(from, x) ==
    {to \in {"integer", "zero", "digits", "point", "fraction", "mark", "power", "exponent"} :
        \/ from = "sign" /\ x.is = "-" /\ to = "integer"
        \/ from \in {"sign", "integer"} /\ IsDigit(x) /\ to = IF x.value = 0 THEN "zero" ELSE "digits"
        \/ from \in {"digits", "fraction", "exponent"} /\ IsDigit(x) /\ to = from
        \/ from \in {"zero", "digits"} /\ x.is = "." /\ to = "point"
        \/ from = "point" /\ IsDigit(x) /\ to = "fraction"
        \/ from \in {"zero", "digits", "fraction"} /\ x.is = "e" /\ to = "mark"
        \/ from = "mark" /\ x.is \in {"+", "-"} /\ to = "power"
        \/ from \in {"mark", "power"} /\ IsDigit(x) /\ to = "exponent"}

(* value() comes here only with a sign or a digit. *)
ReadNumber(x) ==
    /\ \E to \in Onward(place, x) : Continue(to)
    /\ Part(x)

IsNegative == token[1].is = "-"

(* The number that the digits of t are, whatever stands between them. *)
ValueOf(t) ==
    LET value[n \in 0 .. Len(t)] ==
            IF n = 0 THEN 0
            ELSE IF IsDigit(t[n]) THEN 10 * value[n - 1] + t[n].value ELSE value[n - 1]
    IN  value[Len(t)]

(* The digits of a token without fraction and exponent. *)
Magnitude == ValueOf(token)

ParseFails ==
    /\ place \in {"zero", "digits"}
    /\ IF IsNegative THEN Magnitude > NumberSize \div 2 ELSE Magnitude >= NumberSize

(* The representation is serde_json's.                                     *)
IsFloat == place \in {"fraction", "exponent"} \/ (IsNegative /\ Magnitude = 0)

Size == IF IsFloat THEN 8 ELSE Len(token)

(* x is left to the caller.  Which spellings of a float are too large for   *)
(* one is serde_json's to say, from all of the digits.                      *)
EndNumber(x) ==
    /\ place \in {"zero", "digits", "fraction", "exponent"} /\ Onward(place, x) = {} /\ Part(x)
    /\ IF ParseFails THEN Answer("overflow")
       ELSE \/ place \in {"fraction", "exponent"} /\ Answer("nonfinite")
            \/ ChargeError(Size, Depth) # "none" /\ Answer("budget")
            \/ /\ ChargeError(Size, Depth) = "none"
               /\ budget' = Charge(budget, Size, 1) /\ answer' = "done" /\ UNCHANGED <<place, got>>

BreakNumber(x) ==
    /\ place \in {"integer", "point", "mark", "power"} /\ Onward(place, x) = {} /\ Part(x)
    /\ Answer(IF place = "integer" /\ x.is = "Infinity" THEN "nonfinite" ELSE "syntax")

-------------------------------------------------------------------------------
TNext ==
    \/ Decode \/ BeginString \/ BeginNumber
    \/ \E x \in StringParts : ReadCharacter(x) \/ ReadUnit(x) \/ ReadLow(x) \/ EndString(x)
    \/ \E x \in NumberParts : ReadNumber(x) \/ EndNumber(x) \/ BreakNumber(x)

TSpec == TInit /\ [][TNext]_<<docVars, tokenVars>>
===============================================================================
