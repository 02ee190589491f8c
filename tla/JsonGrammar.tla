------------------------------ MODULE JsonGrammar ------------------------------
(***************************************************************************)
(* What JsonDecode and JsonToken are checked against: the grammar of JSON  *)
(* (RFC 8259) over lexemes, and the totals of a text, without a stack, a   *)
(* place or a budget; and for one token, the grammar of numbers and UTF-16.*)
(***************************************************************************)
EXTENDS JsonToken, Totals, Integers

IsScalar(x) == x.kind = "literal" \/ (x.kind \in {"str", "num"} /\ x.fault = "none")

Brackets(t, i, j) == (t[i].kind = "[" /\ t[j].kind = "]") \/ (t[i].kind = "{" /\ t[j].kind = "}")

Commas(t, i, j) == {k \in i + 1 .. j - 1 : t[k].kind = ","}

(* The pairs of neighbours in a set of places. *)
Gaps(S) == {gap \in S \X S : gap[1] < gap[2] /\ \A k \in S : k =< gap[1] \/ k >= gap[2]}

(* What stands from i to j in a list, or in a map: a key and a value. *)
IsItem(value, i, j) == i =< j /\ value[<<i, j>>]

IsMember(t, value, i, j) ==
    /\ i + 2 =< j /\ t[i].kind = "str" /\ t[i].fault = "none" /\ t[i + 1].kind = ":"
    /\ value[<<i + 2, j>>]

(* A value is a scalar or, between brackets, items or members with commas   *)
(* between them.                                                            *)
IsValue(t, value, i, j) ==
    \/ i = j /\ IsScalar(t[i])
    \/ /\ i < j /\ Brackets(t, i, j)
       /\ \/ j = i + 1
          \/ \E commas \in SUBSET Commas(t, i, j) :
             \A gap \in Gaps(commas \cup {i, j}) :
                IF t[i].kind = "[" THEN IsItem(value, gap[1] + 1, gap[2] - 1)
                ELSE IsMember(t, value, gap[1] + 1, gap[2] - 1)

(* Values(t)[<<i, j>>]: t[i .. j] is a value. *)
Values(t) ==
    LET value[p \in (DOMAIN t) \X (DOMAIN t)] == IsValue(t, value, p[1], p[2])
    IN  value

WellFormed(t) == t # <<>> /\ Values(t)[<<1, Len(t)>>]

(* The brackets open after the first n lexemes, and what would close those  *)
(* open after t.                                                            *)
Opened(t) ==
    LET open[n \in 0 .. Len(t)] ==
            IF n = 0 THEN <<>>
            ELSE LET before == open[n - 1] IN
                 IF t[n].kind \in {"{", "["} THEN Append(before, n)
                 ELSE IF t[n].kind \in {"}", "]"} /\ before # <<>> THEN Front(before)
                 ELSE before
    IN  open

OpenAfter(t) == Opened(t)[Len(t)]

Closing(t) ==
    LET open == OpenAfter(t) IN
    [i \in DOMAIN open |-> [kind |-> IF t[open[Len(open) + 1 - i]].kind = "{" THEN "}" ELSE "]"]]

(* The shortest ways to go on from anywhere in a well-formed text. *)
SomeValue == [kind |-> "literal", bytes |-> 4]
SomeKey == [kind |-> "str", name |-> "fresh", bytes |-> 0, fault |-> "none"]

Fills == {<<>>, <<SomeValue>>, <<[kind |-> ":"], SomeValue>>, <<SomeKey, [kind |-> ":"], SomeValue>>}

(* t is how some well-formed text begins. *)
Viable(t) == \E fill \in Fills : WellFormed(t \o fill \o Closing(t))

Ended == Last(text).kind = "end"
Content == IF text # <<>> /\ Ended THEN Front(text) ELSE text

(* The totals of what was read. *)
NodesIn(x) == IF x.kind \in {"{", "[", "str", "num", "literal"} THEN 1 ELSE 0
BytesIn(x) == IF x.kind \in {"str", "num", "literal"} THEN x.bytes ELSE 0
NodesOf(t) == Total([i \in DOMAIN t |-> NodesIn(t[i])])
BytesOf(t) == Total([i \in DOMAIN t |-> BytesIn(t[i])])

Within(t) ==
    /\ NodesOf(t) =< NODES /\ BytesOf(t) =< DOCUMENT_BYTES
    /\ \A n \in 0 .. Len(t) : Len(Opened(t)[n]) =< DEPTH

(* The keys of the map that was opened at i. *)
KeysAt(t, i) ==
    {k \in i + 1 .. Len(t) :
        /\ t[i].kind = "{" /\ t[k].kind = "str"
        /\ Opened(t)[k] # <<>> /\ Last(Opened(t)[k]) = i
        /\ t[k - 1].kind \in {"{", ","}}

Repeated(t) ==
    \E i \in DOMAIN t : \E k, l \in KeysAt(t, i) : k # l /\ t[k].name = t[l].name

(* The decoder goes on with a text exactly as long as some object begins so *)
(* and is within the limits, and returns when it has read one: no text that *)
(* is not JSON is accepted, and none that is within the limits refused.     *)
(* (json_decode.rs:19-143)                                                  *)
ReadsExactlyJson ==
    /\ status = "running" => Viable(text) /\ Within(text) /\ ~Repeated(text)
    /\ status = "done" => /\ Ended /\ WellFormed(Content) /\ text[1].kind = "{"
                          /\ Within(Content) /\ ~Repeated(Content) /\ ~long

(* A refusal has its cause in the text that was read, and the last lexeme   *)
(* is the first at fault: nothing is refused late, and the class tells what *)
(* is wrong.  (json_decode.rs:59-206, json_string.rs:60-86)                 *)
RefusalsAreTruthful ==
    /\ status = "syntax" =>
          IF Ended THEN ~WellFormed(Content)
          ELSE ~Viable(text) /\ Viable(Front(text))
    /\ status \in {"unicode", "overflow", "nonfinite"} =>
          /\ Viable(Front(text)) /\ Within(Front(text))
          /\ Last(text).kind = "nan" \/ Last(text).fault = status
          /\ status = "unicode" => Within(text)
    /\ status = "duplicate" => Repeated(text) /\ ~Repeated(Front(text)) /\ Within(text)
    /\ status = "type" => Ended /\ WellFormed(Content) /\ text[1].kind # "{"
    /\ status = "budget" => long \/ (Viable(Front(text)) /\ Within(Front(text)) /\ ~Within(text))

(* What a lexeme adds to the value. *)
Written(x) ==
    CASE x.kind = "{" -> <<[kind |-> "dict"]>>
      [] x.kind = "[" -> <<[kind |-> "list"]>>
      [] x.kind \in {"}", "]"} -> <<[kind |-> "end"]>>
      [] x.kind \in {":", ",", "end"} -> <<>>
      [] OTHER -> <<x>>

(* The value returned is what the text says, token by token, and is charged *)
(* what conversion charges for the same value, however the text spells it.  *)
(* (json_decode.rs:59-206, conversion.rs:101-137)                           *)
DoneIsWritten ==
    status = "done" =>
        /\ out = FlattenSeq([i \in DOMAIN text |-> Written(text[i])])
        /\ budget.counts = [bytes |-> BytesOf(text), nodes |-> NodesOf(text)]

-------------------------------------------------------------------------------
(* Tokens: the characters of a string are what its parts say in UTF-16.     *)
Utf16(c) == IF c < 65536 THEN <<c>> ELSE <<55296 + ((c - 65536) \div 1024), 56320 + ((c - 65536) % 1024)>>

SpelledOut(characters) == FlattenSeq([i \in DOMAIN characters |-> Utf16(characters[i])])

PartUnits(x) == IF x.is \in {"char", "escape"} THEN Utf16(x.code) ELSE IF x.is = "unit" THEN <<x.code>> ELSE <<>>

Units(parts) == FlattenSeq([i \in DOMAIN parts |-> PartUnits(parts[i])])

PairedUp(u) ==
    \A i \in DOMAIN u : /\ u[i] \in High => i < Len(u) /\ u[i + 1] \in Low
                        /\ u[i] \in Low => i > 1 /\ u[i - 1] \in High

(* An escaped high surrogate waits for its other half. *)
Waits(t) == t # <<>> /\ Last(t).is = "unit" /\ Last(t).code \in High

Settled(t) == IF Waits(t) THEN Units(Front(t)) ELSE Units(t)

Readable(x) == x.is \in {"escape", "unit"} \/ (x.is = "char" /\ x.code >= 32)

StringBegins(t) == (\A i \in DOMAIN t : Readable(t[i])) /\ PairedUp(Settled(t))

StringFault(t) ==
    IF Waits(Front(t)) THEN IF Last(t).is = "bad hex" THEN "syntax" ELSE "unicode"
    ELSE IF Last(t).is = "unit" THEN "unicode" ELSE "syntax"

(* Half of the four bytes of a pair to a surrogate. *)
Utf8Bytes(u) == Total([i \in DOMAIN u |-> IF u[i] \in High \cup Low THEN 2 ELSE Utf8Size(u[i])])

(* The grammar of numbers. *)
AllDigits(t) == t # <<>> /\ \A i \in DOMAIN t : IsDigit(t[i])
Unsigned(t, signs) == IF t # <<>> /\ t[1].is \in signs THEN Tail(t) ELSE t

IsInteger(t) ==
    LET digits == Unsigned(t, {"-"}) IN AllDigits(digits) /\ (digits[1].value = 0 => Len(digits) = 1)
IsFraction(t) == t = <<>> \/ (t[1].is = "." /\ AllDigits(Tail(t)))
IsExponent(t) == t = <<>> \/ (t[1].is = "e" /\ AllDigits(Unsigned(Tail(t), {"+", "-"})))

IsNumber(t) ==
    \E i \in 1 .. Len(t) :
       /\ IsInteger(SubSeq(t, 1, i))
       /\ \E j \in i .. Len(t) : IsFraction(SubSeq(t, i + 1, j)) /\ IsExponent(SubSeq(t, j + 1, Len(t)))

NumberBegins(t) == t = <<>> \/ IsNumber(t) \/ IsNumber(Append(t, [is |-> "digit", value |-> 0]))

(* Its value lies in both words together, and -0 is none of them. *)
TenTo(n) ==
    LET power[k \in 0 .. n] == IF k = 0 THEN 1 ELSE 10 * power[k - 1]
    IN  power[n]

Absolute(t) ==
    LET digits == Unsigned(t, {"-"})
    IN  Total([i \in DOMAIN digits |-> digits[i].value * TenTo(Len(digits) - i)])
InRange(t) == (IF t[1].is = "-" THEN -Absolute(t) ELSE Absolute(t)) \in -(NumberSize \div 2) .. NumberSize - 1
NumberBytes(t) == IF ~IsInteger(t) \/ (t[1].is = "-" /\ Absolute(t) = 0) THEN 8 ELSE Len(t)

NumberFault(t) ==
    IF Last(t).is = "Infinity" /\ Len(t) = 2 /\ t[1].is = "-" THEN "nonfinite"
    ELSE IF ~IsNumber(Front(t)) THEN "syntax"
    ELSE IF ~IsInteger(Front(t)) THEN "nonfinite"
    ELSE IF InRange(Front(t)) THEN "none" ELSE "overflow"

Before == [DocumentBudget(DOCUMENT_BYTES) EXCEPT !.counts = [bytes |-> BytesOf(text), nodes |-> NodesOf(text)]]

StringIsLexeme ==
    /\ answer = "reading" =>
          /\ StringBegins(token) /\ SpelledOut(got) = Settled(token)
          /\ budget = Charge(Before, Utf8Bytes(Settled(token)), 1)
    /\ answer = "done" =>
          /\ Last(token).is = "quote" /\ StringBegins(Front(token)) /\ ~Waits(Front(token))
          /\ SpelledOut(got) = Units(token) /\ budget = Charge(Before, Utf8Bytes(Units(token)), 1)
    /\ answer \in {"syntax", "unicode"} =>
          StringBegins(Front(token)) /\ ~StringBegins(token) /\ answer = StringFault(token)
    /\ answer \in {"memory", "budget"} =>
          StringBegins(token) /\ (answer = "memory" <=> Admits(Before, Utf8Bytes(Units(token)), 1, Depth))

NumberIsLexeme ==
    /\ answer = "reading" => NumberBegins(token) /\ budget = Before
    /\ answer \in {"syntax", "overflow", "nonfinite"} =>
          NumberBegins(Front(token)) /\ ~NumberBegins(token) /\ answer = NumberFault(token)
    /\ answer \in {"budget", "done"} =>
          /\ IsNumber(Front(token)) /\ ~NumberBegins(token)
          /\ IsInteger(Front(token)) => InRange(Front(token))
          /\ answer = "done" <=> Admits(Before, NumberBytes(Front(token)), 1, Depth)
    /\ answer = "done" => budget = Charge(Before, NumberBytes(Front(token)), 1)

(* A string or a number is read as the one lexeme it is to the decoder: as  *)
(* far as it may still become one and no further, to the characters it      *)
(* spells, with the first fault it has, and charged up to there what the    *)
(* lexeme is charged.  Surrogates come in pairs, and no integer beyond the  *)
(* words of 64 bits becomes a float.  Which floats are too large is not     *)
(* said.  (json_string.rs:12-86, json_decode.rs:144-206)                    *)
TokenIsLexeme ==
    /\ place \in {"string", "low"} => StringIsLexeme
    /\ place \notin {"none", "string", "low"} => NumberIsLexeme
===============================================================================
