----------------------------- MODULE MCJsonDecode -----------------------------
(***************************************************************************)
(* An instance of JsonDecode and JsonToken for TLC.                        *)
(***************************************************************************)
EXTENDS JsonGrammar

Str(name, n) == [kind |-> "str", name |-> name, bytes |-> n, fault |-> "none"]
Faulty(n, fault) == [kind |-> "str", name |-> "faulty", bytes |-> n, fault |-> fault]
Num(n, fault) == [kind |-> "num", bytes |-> n, fault |-> fault]
True == [kind |-> "literal", bytes |-> 4]

SmallLexemes ==
    {[kind |-> k] : k \in {"{", "}", "[", "]", ":", ",", "end", "garbage", "nan"}}
    \cup {Str("a", 1), Str("b", 2), Faulty(1, "syntax"), Faulty(9, "unicode"),
          Num(2, "none"), Num(1, "syntax"), Num(8, "none"), Num(20, "overflow"), Num(8, "nonfinite"), True}

(* The limits of the lengths in UTF-8 and of the two kinds of surrogates.   *)
SmallStringParts ==
    {[is |-> "char", code |-> c] : c \in {31, 32, 127, 128, 65536}}
    \cup {[is |-> "escape", code |-> 10]}
    \cup {[is |-> "unit", code |-> c] : c \in {2047, 2048, 55295, 55296, 56319, 56320, 57343, 57344}}
    \cup {[is |-> k] : k \in {"quote", "bad escape", "bad hex", "end"}}

Digit(n) == [is |-> "digit", value |-> n]

SmallNumberParts ==
    {Digit(n) : n \in {0, 1, 2}} \cup {[is |-> k] : k \in {"-", "+", ".", "e", "Infinity", "else"}}

(* A document, a list and a map, with 11, 3 and 6 bytes left. *)
SmallSpelledAfter ==
    {<<>>, <<[kind |-> "["], Num(8, "none"), [kind |-> ","]>>,
     <<[kind |-> "{"], Str("a", 1), [kind |-> ":"], [kind |-> "["], True, [kind |-> ","]>>}
===============================================================================
