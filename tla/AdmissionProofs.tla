---------------------------- MODULE AdmissionProofs ----------------------------
(***************************************************************************)
(* Theorems about the admission of input that the adapter reads itself:    *)
(* CollectionAdmission for every request and all limits, and JsonDecode    *)
(* with JsonToken for every text, all limits and all lexemes, against      *)
(* JsonGrammar.                                                            *)
(***************************************************************************)
EXTENDS CollectionAdmission, JsonGrammar, TotalsProofs

-------------------------------------------------------------------------------
(* Collection admission.  The invariant, by the passes: what each has found *)
(* when it is over, and where it is.                                        *)
Passes == {"types", "counts", "shapes", "bytes", "reserve", "copy", "done"}

Item == [list : 1 .. 3, item : Value \cup Dict]

StrValue == [kind : {"str"}, bytes : Nat, lone_surrogate : BOOLEAN]

Limited == [text : StrValue, limit : Nat]

FineText(t) == t.text.bytes =< t.limit /\ ~t.text.lone_surrogate

TypeOK ==
    /\ request \in Requests
    /\ pc \in Passes \cup Errors
    /\ next \in Nat \ {0} /\ bytes \in Nat /\ DOMAIN copied = 1 .. Len(copied) /\ Len(copied) \in Nat

Found ==
    /\ pc \in Passes \ {"types"} => Typed
    /\ pc \in Passes \ {"types", "counts"} => Counted
    /\ pc \in Passes \ {"types", "counts", "shapes"} => Shaped
    /\ pc \in {"reserve", "copy", "done"} \/ copied # <<>> => Admissible

Reached ==
    /\ pc \in {"shapes", "copy"} => next =< Len(AllItems) + 1
    /\ pc = "bytes" => next =< Len(AllTexts) + 1
    /\ pc = "shapes" => \A k \in 1 .. next - 1 : WellShaped(AllItems[k])
    /\ pc = "bytes" => /\ bytes = Sums(TextBytes)[next - 1] /\ bytes =< TOTAL_BYTES
                       /\ \A k \in 1 .. next - 1 : FineText(AllTexts[k])
    /\ pc \in Passes \ {"shapes", "bytes", "copy"} => next = 1
    /\ pc \in Passes \ {"bytes", "reserve", "copy", "done"} => bytes = 0

Copied ==
    /\ pc \in Passes \ {"copy", "done"} => copied = <<>>
    /\ pc = "copy" => Len(copied) = next - 1
    /\ pc = "done" => Len(copied) = Len(AllItems)
    /\ pc \in {"copy", "done"} =>
          \A k \in 1 .. Len(copied) : IsCopyOf(copied[k], AllItems[k])

CopyInv == TypeOK /\ Found /\ Reached /\ Copied /\ RefusalsInOrder

-------------------------------------------------------------------------------
(* What the operators return. *)
LEMMA NamesAre ==
    ASSUME NEW l \in {1, 2}
    PROVE  /\ DOMAIN Names[l] = IF l = 1 THEN 1 .. 4 ELSE 1 .. 2
           /\ \A i \in DOMAIN Names[l] : Names[l][i] \in ToSet(Names[l])
           /\ ToSet(Names[l]) \subseteq Key \ {"no_string"}
           /\ \A i \in DOMAIN Names[l] : i > 2 => Names[l][i] \notin Required(Names[l])
<1>1. /\ Names[1] = CHECK /\ Names[2] = PAIR /\ DOMAIN CHECK = 1 .. 4 /\ DOMAIN PAIR = 1 .. 2
      /\ CHECK[1] = "path_id" /\ CHECK[2] = "path" /\ CHECK[3] = "probe_links"
      /\ CHECK[4] = "probe_health" /\ PAIR[1] = "from_path_id" /\ PAIR[2] = "to_path_id"
  BY DEF Names, CHECK, PAIR
<1>2. \A i \in DOMAIN Names[l] : Names[l][i] \in ToSet(Names[l])
  BY DEF ToSet
<1>3. /\ ToSet(CHECK) = {"path_id", "path", "probe_links", "probe_health"}
      /\ ToSet(PAIR) = {"from_path_id", "to_path_id"}
  <2>1. 1 .. 4 = {1, 2, 3, 4} /\ 1 .. 2 = {1, 2}
    OBVIOUS
  <2> QED BY <1>1, <2>1 DEF ToSet
<1>4. ToSet(Names[l]) \subseteq Key \ {"no_string"}
  BY <1>1, <1>3 DEF Key
<1>5. \A i \in DOMAIN Names[l] : i > 2 => Names[l][i] \notin Required(Names[l])
  <2>1. CASE l = 1
    <3>1. \A i \in 1 .. 4 : i > 2 => i = 3 \/ i = 4
      OBVIOUS
    <3> QED BY <1>1, <2>1, <3>1 DEF Required
  <2>2. CASE l = 2
    BY <1>1, <2>2
  <2> QED BY <2>1, <2>2
<1> QED BY <1>1, <1>2, <1>4, <1>5

(* The items of the three lists, one after the other. *)
LEMMA ItemsAre ==
    ASSUME request \in Requests
    PROVE  /\ \A i \in 1 .. 3 : Items(i) \in Seq(Item)
           /\ AllItems \in Seq(Item) /\ Len(AllItems) \in Nat
           /\ DOMAIN AllItems = 1 .. Len(AllItems)
           /\ \A k \in 1 .. Len(AllItems) : AllItems[k] \in Item /\ AllItems[k] \in ToSet(AllItems)
<1>1. ASSUME NEW i \in 1 .. 3 PROVE Items(i) \in Seq(Item)
  <2>1. request.lists[i] \in Lists
    BY CollectionAssumption
  <2>2. CASE request.lists[i].kind # "list"
    BY <2>2 DEF Items
  <2>3. CASE request.lists[i].kind = "list"
    <3> DEFINE s == request.lists[i].items
    <3>1. s \in Seq(Value \cup Dict)
      BY <2>1, <2>3 DEF Lists
    <3>2. Items(i) = [k \in DOMAIN s |-> [list |-> i, item |-> s[k]]]
      BY <2>3 DEF Items
    <3> HIDE DEF s
    <3>3. \A k \in DOMAIN s : [list |-> i, item |-> s[k]] \in Item
      BY <3>1 DEF Item
    <3>4. DOMAIN s = 1 .. Len(s) /\ Len(s) \in Nat
      BY <3>1
    <3> QED BY <3>2, <3>3, <3>4
  <2> QED BY <2>2, <2>3
<1>2. Items(1) \in Seq(Item) /\ Items(2) \in Seq(Item) /\ Items(3) \in Seq(Item)
  BY <1>1
<1>3. AllItems \in Seq(Item)
  BY <1>2 DEF AllItems
<1>4. Len(AllItems) \in Nat /\ DOMAIN AllItems = 1 .. Len(AllItems)
  BY <1>3
<1>5. \A k \in 1 .. Len(AllItems) : AllItems[k] \in Item /\ AllItems[k] \in ToSet(AllItems)
  BY <1>3, <1>4 DEF ToSet
<1> QED BY <1>1, <1>3, <1>4, <1>5

(* Sequences one after the other are a sequence of what is in them. *)
LEMMA Flattened ==
    ASSUME NEW S, NEW seqs \in Seq(Seq(S))
    PROVE  FlattenSeq(seqs) \in Seq(S)
<1> DEFINE n == Len(seqs)
           Q == Seq(S)
           g == [p \in (1 .. n) \X Q |-> p[2] \o seqs[p[1]]]
           Is(h) == h = [i \in 1 .. n |-> IF i = 1 THEN seqs[i] ELSE h[i - 1] \o seqs[i]]
<1>1. CASE n = 0
  BY <1>1 DEF FlattenSeq
<1>2. CASE n # 0
  <2>1. n \in Nat /\ n > 0 /\ \A i \in 1 .. n : seqs[i] \in Q
    BY <1>2
  <2>2. \A s, t \in Q : s \o t \in Q /\ <<>> \o t = t /\ <<>> \in Q
    OBVIOUS
  <2>3. g \in Nexts(n, Q)
    <3> HIDE DEF n, Q
    <3> QED BY <2>1, <2>2 DEF Nexts
  <2>4. PICK h : Recursive(h, n, Q, <<>>, g)
    <3>1. <<>> \in Q
      OBVIOUS
    <3> HIDE DEF n, Q, g
    <3> QED BY <2>1, <2>3, <3>1, Recursion
  <2>5. h \in [0 .. n -> Q] /\ h[0] = <<>>
    BY <2>4 DEF Recursive
  <2>6. ASSUME NEW i \in 1 .. n PROVE h[i] = h[i - 1] \o seqs[i]
    <3>1. h[i] = g[<<i, h[i - 1]>>]
      BY <2>4, <2>6 DEF Recursive
    <3>2. i - 1 \in 0 .. n
      BY <2>1
    <3>3. h[i - 1] \in Q
      BY <2>5, <3>2
    <3> HIDE DEF n, Q
    <3> QED BY <3>1, <3>3
  <2>7. n \in 1 .. n /\ 1 \in 1 .. n
    BY <2>1
  <2> HIDE DEF Q, g
  <2> DEFINE f == [i \in 1 .. n |-> h[i]]
  <2>8. Is(f)
    <3>1. ASSUME NEW i \in 1 .. n PROVE f[i] = IF i = 1 THEN seqs[i] ELSE f[i - 1] \o seqs[i]
      <4>1. f[i] = h[i - 1] \o seqs[i]
        BY <2>6
      <4>2. CASE i = 1
        <5>1. h[i - 1] = <<>>
          BY <2>5, <4>2
        <5>2. <<>> \o seqs[i] = seqs[i]
          BY <2>1, <2>2
        <5> QED BY <4>1, <4>2, <5>1, <5>2
      <4>3. CASE i # 1
        <5>1. i - 1 \in 1 .. n
          BY <2>1, <4>3
        <5>2. f[i - 1] = h[i - 1]
          BY <5>1
        <5> QED BY <4>1, <4>3, <5>2
      <4> QED BY <4>2, <4>3
    <3>2. f = [i \in 1 .. n |-> f[i]]
      OBVIOUS
    <3> HIDE DEF n, f
    <3> QED BY <3>1, <3>2
  <2> DEFINE c == CHOOSE h_1 : Is(h_1)
  <2>9. Is(c)
    <3> HIDE DEF Is, f
    <3> QED BY <2>8
  <2>10. \A i \in 1 .. n : c[i] = IF i = 1 THEN seqs[i] ELSE c[i - 1] \o seqs[i]
    <3> HIDE DEF c, n
    <3>1. c = [i \in 1 .. n |-> IF i = 1 THEN seqs[i] ELSE c[i - 1] \o seqs[i]]
      BY <2>9
    <3> QED BY <3>1
  <2>11. FlattenSeq(seqs) = c[n]
    BY <1>2 DEF FlattenSeq
  <2> HIDE DEF c, Is, f
  <2> DEFINE T == {i \in 0 .. n : i = 0 \/ c[i] \in Q}
  <2>12. 0 \in T
    BY <2>1
  <2>13. ASSUME NEW k \in 0 .. n - 1, k \in T PROVE k + 1 \in T
    <3>1. k + 1 \in 1 .. n /\ (k + 1) - 1 = k /\ k + 1 \in 0 .. n /\ (k + 1 = 1 <=> k = 0)
      BY <2>1
    <3>2. c[k + 1] = IF k = 0 THEN seqs[k + 1] ELSE c[k] \o seqs[k + 1]
      BY <2>10, <3>1
    <3>3. seqs[k + 1] \in Q /\ (k # 0 => c[k] \in Q)
      BY <2>1, <2>13, <3>1
    <3>4. c[k + 1] \in Q
      BY <2>2, <3>2, <3>3
    <3> QED BY <3>1, <3>4
  <2>14. \A k \in 0 .. n : k \in T
    <3> HIDE DEF T, n
    <3> QED BY <2>1, <2>12, <2>13, Induction
  <2>15. c[n] \in Q
    BY <2>1, <2>14
  <2> QED BY <2>11, <2>15 DEF Q
<1> QED BY <1>1, <1>2

(* An entry is refused for its key or for the kind of its value. *)
Entry == [key : Key, value : Value]

Kind(e, names) == IF e.key \in Required(names) THEN "str" ELSE "bool"

LEMMA EntryMeans ==
    ASSUME NEW l \in {1, 2}, NEW e \in Entry
    PROVE  /\ EntryErrors(e, Names[l]) \subseteq {"type", "arguments"}
           /\ EntryErrors(e, Names[l]) = {}
                 <=> e.key \in ToSet(Names[l]) /\ e.value.kind = Kind(e, Names[l])
           /\ "type" \in EntryErrors(e, Names[l]) =>
                 \/ e.key = "no_string"
                 \/ e.key \in ToSet(Names[l]) /\ e.value.kind # Kind(e, Names[l])
           /\ "arguments" \in EntryErrors(e, Names[l]) => e.key \notin ToSet(Names[l])
<1>1. "no_string" \notin ToSet(Names[l])
  BY NamesAre
<1> QED BY <1>1 DEF EntryErrors, Kind, Required

(* The entries of a dict among the items. *)
LEMMA DictMeans ==
    ASSUME NEW x \in Item, x.item.kind = "dict"
    PROVE  /\ x.item.entries \in Seq(Entry)
           /\ DOMAIN x.item.entries \in SUBSET Nat
           /\ \A e \in ToSet(x.item.entries) : e \in Entry
           /\ \A k \in DOMAIN x.item.entries :
                 x.item.entries[k] \in Entry /\ x.item.entries[k] \in ToSet(x.item.entries)
<1>1. x.item \in Dict
  BY DEF Item, Value
<1>2. x.item.entries \in Seq(Entry)
  BY <1>1 DEF Dict, Entry
<1> DEFINE s == x.item.entries
<1> HIDE DEF s
<1>3. s \in Seq(Entry)
  BY <1>2 DEF s
<1>4. /\ DOMAIN s \in SUBSET Nat /\ \A k \in DOMAIN s : s[k] \in Entry
  BY <1>3
<1> QED BY <1>2, <1>4 DEF s, ToSet

(* An item is refused for what is wrong with it, and only then. *)
LEMMA ShapeMeans ==
    ASSUME NEW x \in Item
    PROVE  /\ ShapeErrors(x) \subseteq {"type", "arguments"}
           /\ ShapeErrors(x) = {} <=> WellShaped(x)
           /\ "type" \in ShapeErrors(x) => IllTyped(x)
           /\ "arguments" \in ShapeErrors(x) => IllNamed(x)
<1>1. CASE x.list = 3
  BY <1>1 DEF ShapeErrors, WellShaped, IllTyped
<1>2. CASE x.list # 3 /\ x.item.kind # "dict"
  BY <1>2 DEF ShapeErrors, WellShaped, IllTyped
<1>3. CASE x.list # 3 /\ x.item.kind = "dict"
  <2> DEFINE names == Names[x.list]
             s == x.item.entries
             keys == {e.key : e \in ToSet(s)}
             errors == [k \in DOMAIN s |-> EntryErrors(s[k], names)]
             bad == {k \in DOMAIN errors : errors[k] # {}}
             least == CHOOSE k \in bad : \A j \in bad : k =< j
             named == Required(names) \subseteq keys /\ keys \subseteq ToSet(names)
             fine == \A e \in ToSet(s) : e.value.kind = Kind(e, names)
  <2>1. x.list \in {1, 2}
    BY <1>3 DEF Item
  <2>2. /\ DOMAIN s \in SUBSET Nat
        /\ \A k \in DOMAIN s : s[k] \in Entry /\ s[k] \in ToSet(s)
        /\ \A e \in ToSet(s) : e \in Entry /\ \E k \in DOMAIN s : e = s[k]
    BY <1>3, DictMeans DEF ToSet
  <2>3. /\ WellShaped(x) <=> named /\ fine
        /\ IllNamed(x) <=> ~named
        /\ IllTyped(x) <=> \E e \in ToSet(s) :
              \/ e.key = "no_string"
              \/ e.key \in ToSet(names) /\ e.value.kind # Kind(e, names)
    BY <1>3 DEF WellShaped, IllNamed, IllTyped, Kind
  <2>4. ShapeErrors(x) = IF bad # {} THEN errors[least]
                         ELSE IF Has(x.item, names[1]) /\ Has(x.item, names[2]) THEN {}
                         ELSE {"arguments"}
    BY <1>3 DEF ShapeErrors
  <2>5. CASE bad # {}
    <3>1. bad \in SUBSET Nat
      BY <2>2
    <3>2. least \in bad
      <4> HIDE DEF bad
      <4>1. \E k \in bad : \A j \in bad : k =< j
        BY <2>5, <3>1, LeastNatural
      <4> QED BY <4>1
    <3> HIDE DEF least
    <3>3. least \in DOMAIN s /\ errors[least] = EntryErrors(s[least], names)
          /\ EntryErrors(s[least], names) # {}
      BY <3>2
    <3> HIDE DEF errors, bad, s
    <3>4. s[least] \in Entry /\ s[least] \in ToSet(s)
      BY <2>2, <3>3
    <3>5. ShapeErrors(x) = EntryErrors(s[least], names)
      BY <2>4, <2>5, <3>3
    <3> DEFINE e == s[least]
    <3> HIDE DEF e
    <3>6. e \in Entry /\ e \in ToSet(s) /\ ShapeErrors(x) = EntryErrors(e, names) /\ ShapeErrors(x) # {}
      BY <3>3, <3>4, <3>5 DEF e
    <3>7. /\ EntryErrors(e, names) \subseteq {"type", "arguments"}
          /\ ~(e.key \in ToSet(names) /\ e.value.kind = Kind(e, names))
          /\ "type" \in EntryErrors(e, names) =>
                 \/ e.key = "no_string"
                 \/ e.key \in ToSet(names) /\ e.value.kind # Kind(e, names)
          /\ "arguments" \in EntryErrors(e, names) => e.key \notin ToSet(names)
      BY <2>1, <3>6, EntryMeans
    <3>8. e.key \in keys
      BY <3>6
    <3>9. ~(named /\ fine) /\ ("arguments" \in ShapeErrors(x) => ~named)
      BY <3>6, <3>7, <3>8
    <3>10. "type" \in ShapeErrors(x) => IllTyped(x)
      BY <2>3, <3>6, <3>7
    <3> HIDE DEF named, fine, names
    <3> QED BY <2>3, <3>6, <3>7, <3>9, <3>10
  <2>6. CASE bad = {}
    <3>1. \A k \in DOMAIN s : EntryErrors(s[k], names) = {}
      BY <2>6
    <3>2. ASSUME NEW e \in ToSet(s) PROVE e.key \in ToSet(names) /\ e.value.kind = Kind(e, names)
      <4>1. PICK k \in DOMAIN s : e = s[k]
        BY <2>2
      <4>2. EntryErrors(e, names) = {} /\ e \in Entry
        BY <2>2, <3>1, <4>1
      <4> QED BY <2>1, <4>2, EntryMeans
    <3>3. fine /\ keys \subseteq ToSet(names)
      BY <3>2
    <3>4. Has(x.item, names[1]) /\ Has(x.item, names[2]) <=> Required(names) \subseteq keys
      BY DEF Has, Required
    <3>5. ShapeErrors(x) = IF Required(names) \subseteq keys THEN {} ELSE {"arguments"}
      BY <2>4, <2>6, <3>4
    <3> HIDE DEF errors, bad, fine, s
    <3> QED BY <2>3, <3>3, <3>5
  <2> QED BY <2>5, <2>6
<1> QED BY <1>1, <1>2, <1>3

(* The field of a well-shaped dict is one of its entries. *)
LEMMA FieldIs ==
    ASSUME NEW x \in Item, x.item.kind = "dict", NEW name, Has(x.item, name)
    PROVE  /\ Field(x.item, name) \in Value
           /\ [key |-> name, value |-> Field(x.item, name)] \in ToSet(x.item.entries)
<1> DEFINE e == CHOOSE e \in ToSet(x.item.entries) : e.key = name
<1>1. e \in ToSet(x.item.entries) /\ e.key = name
  BY DEF Has
<1>2. e \in Entry
  BY <1>1, DictMeans
<1>3. Field(x.item, name) = e.value
  BY DEF Field
<1> HIDE DEF e
<1>4. e = [key |-> name, value |-> e.value] /\ e.value \in Value
  BY <1>1, <1>2 DEF Entry
<1> QED BY <1>1, <1>3, <1>4

(* The texts of a well-shaped item. *)
LEMMA TextsOfIs ==
    ASSUME NEW x \in Item, WellShaped(x)
    PROVE  TextsOf(x) \in Seq(Limited)
<1>1. PATH_BYTES \in Nat /\ ID_BYTES \in Nat
  BY CollectionAssumption
<1>2. \A v \in Value \cup Dict : v.kind = "str" => v \in StrValue
  BY DEF Value, Dict, StrValue
<1>3. CASE x.list = 3
  <2>1. x.item \in StrValue
    BY <1>2, <1>3 DEF Item, WellShaped
  <2>2. [text |-> x.item, limit |-> PATH_BYTES] \in Limited
    BY <1>1, <2>1 DEF Limited
  <2> QED BY <1>3, <2>2 DEF TextsOf
<1>4. CASE x.list # 3
  <2>1. x.list \in {1, 2} /\ x.item.kind = "dict"
    BY <1>4 DEF Item, WellShaped
  <2>2. ASSUME NEW i \in 1 .. 2
        PROVE  Field(x.item, Names[x.list][i]) \in StrValue
    <3> DEFINE name == Names[x.list][i]
    <3>1. name \in Required(Names[x.list])
      <4>1. i = 1 \/ i = 2
        OBVIOUS
      <4> QED BY <4>1 DEF Required
    <3> HIDE DEF name
    <3>2. Has(x.item, name)
      BY <1>4, <3>1 DEF WellShaped, Has
    <3> DEFINE e == [key |-> name, value |-> Field(x.item, name)]
    <3>3. e \in ToSet(x.item.entries) /\ Field(x.item, name) \in Value
      BY <2>1, <3>2, FieldIs
    <3>4. e.value.kind = "str"
      <4>1. \A d \in ToSet(x.item.entries) :
               d.value.kind = IF d.key \in Required(Names[x.list]) THEN "str" ELSE "bool"
        BY <1>4 DEF WellShaped
      <4>2. e.key \in Required(Names[x.list])
        BY <3>1
      <4> HIDE DEF e
      <4> QED BY <3>3, <4>1, <4>2
    <3>5. Field(x.item, name) \in StrValue
      BY <1>2, <3>3, <3>4
    <3> QED BY <3>5 DEF name
  <2> DEFINE t == [i \in 1 .. 2 |-> [text |-> Field(x.item, Names[x.list][i]),
                                    limit |-> IF x.list = 1 /\ i = 2 THEN PATH_BYTES ELSE ID_BYTES]]
  <2>3. \A i \in 1 .. 2 : t[i] \in Limited
    BY <1>1, <2>2 DEF Limited
  <2>4. TextsOf(x) = t
    BY <1>4 DEF TextsOf
  <2>5. t = [i \in 1 .. 2 |-> t[i]]
    OBVIOUS
  <2> HIDE DEF t
  <2>6. t \in Seq(Limited)
    BY <2>3, <2>5
  <2> QED BY <2>4, <2>6
<1> QED BY <1>3, <1>4

(* All texts of a shaped request, and their running total. *)
LEMMA TextsAre ==
    ASSUME request \in Requests, Shaped
    PROVE  /\ AllTexts \in Seq(Limited) /\ Len(AllTexts) \in Nat
           /\ DOMAIN AllTexts = 1 .. Len(AllTexts)
           /\ Sums(TextBytes)[0] = 0
           /\ \A k \in 1 .. Len(AllTexts) :
                 /\ AllTexts[k] \in ToSet(AllTexts) /\ AllTexts[k].text.bytes \in Nat
                 /\ Sums(TextBytes)[k] = Sums(TextBytes)[k - 1] + AllTexts[k].text.bytes
                 /\ Sums(TextBytes)[k] \in Nat /\ Sums(TextBytes)[k] =< TotalBytes
           /\ TotalBytes = Sums(TextBytes)[Len(AllTexts)] /\ TotalBytes \in Nat
<1> DEFINE seqs == [k \in DOMAIN AllItems |-> TextsOf(AllItems[k])]
<1>1. seqs \in Seq(Seq(Limited))
  <2>1. \A k \in 1 .. Len(AllItems) : TextsOf(AllItems[k]) \in Seq(Limited)
    BY ItemsAre, TextsOfIs DEF Shaped
  <2>2. Len(AllItems) \in Nat /\ DOMAIN AllItems = 1 .. Len(AllItems)
    BY ItemsAre
  <2> QED BY <2>1, <2>2
<1>2. AllTexts \in Seq(Limited)
  <2>1. AllTexts = FlattenSeq(seqs)
    BY DEF AllTexts
  <2> HIDE DEF seqs
  <2> QED BY <1>1, <2>1, Flattened
<1> DEFINE n == Len(AllTexts)
<1>3. n \in Nat /\ DOMAIN AllTexts = 1 .. n /\ \A k \in 1 .. n : AllTexts[k] \in Limited
  BY <1>2
<1>4. \A k \in 1 .. n : AllTexts[k].text.bytes \in Nat /\ AllTexts[k] \in ToSet(AllTexts)
  BY <1>3 DEF Limited, StrValue, ToSet
<1>5. /\ TextBytes \in Seq(Nat) /\ Len(TextBytes) = n
      /\ \A k \in 1 .. n : TextBytes[k] = AllTexts[k].text.bytes
  <2> HIDE DEF n
  <2> QED BY <1>3, <1>4 DEF TextBytes
<1>6. /\ Sums(TextBytes) \in [0 .. n -> Nat] /\ Sums(TextBytes)[0] = 0
      /\ \A k \in 1 .. n : Sums(TextBytes)[k] = Sums(TextBytes)[k - 1] + TextBytes[k]
  BY <1>5, SumsAre
<1>7. TotalBytes = Sums(TextBytes)[n]
  BY <1>5 DEF TotalBytes, Total
<1>8. ASSUME NEW k \in 1 .. n PROVE Sums(TextBytes)[k] =< Sums(TextBytes)[n]
  <2>1. n \in 0 .. Len(TextBytes) /\ k \in 0 .. n
    BY <1>3, <1>5
  <2> QED BY <1>5, <2>1, SumsGrow
<1>9. n \in 0 .. n /\ \A k \in 1 .. n : k \in 0 .. n
  BY <1>3
<1> HIDE DEF n
<1> QED BY <1>2, <1>3, <1>4, <1>5, <1>6, <1>7, <1>8, <1>9 DEF n

(* What is copied of a well-shaped item is the item. *)
LEMMA OwnedIs ==
    ASSUME NEW x \in Item, WellShaped(x)
    PROVE  IsCopyOf([list |-> x.list, owned |-> Owned(x)], x)
<1>1. CASE x.list = 3
  BY <1>1 DEF IsCopyOf, Owned
<1>2. CASE x.list # 3
  <2> DEFINE names == Names[x.list]
  <2>1. x.list \in {1, 2} /\ x.item.kind = "dict"
    BY <1>2 DEF Item, WellShaped
  <2>2. ASSUME NEW i \in DOMAIN names
        PROVE  IF Has(x.item, names[i])
               THEN [key |-> names[i], value |-> Owned(x)[i]] \in ToSet(x.item.entries)
               ELSE Owned(x)[i] = [kind |-> "bool", value |-> FALSE]
    <3> DEFINE name == names[i]
    <3>1. Owned(x)[i] = IF i =< 2 THEN Field(x.item, name)
                        ELSE [kind |-> "bool", value |-> Boolean(x.item, name)]
      BY <1>2 DEF Owned
    <3>2. i \in Nat \ {0}
      BY <2>1, NamesAre
    <3>3. CASE i =< 2
      <4>1. name \in Required(names)
        <5>1. i = 1 \/ i = 2
          BY <3>2, <3>3
        <5> QED BY <5>1 DEF Required
      <4>2. Has(x.item, name)
        BY <1>2, <4>1 DEF WellShaped, Has
      <4> QED BY <2>1, <3>1, <3>3, <4>2, FieldIs
    <3>4. CASE ~(i =< 2) /\ Has(x.item, name)
      <4>1. name \notin Required(names)
        BY <2>1, <3>2, <3>4, NamesAre
      <4> HIDE DEF name
      <4> DEFINE e == [key |-> name, value |-> Field(x.item, name)]
      <4>2. e \in ToSet(x.item.entries) /\ Field(x.item, name) \in Value
        BY <2>1, <3>4, FieldIs
      <4>3. Field(x.item, name).kind = "bool"
        <5>1. \A d \in ToSet(x.item.entries) :
                 d.value.kind = IF d.key \in Required(names) THEN "str" ELSE "bool"
          BY <1>2 DEF WellShaped
        <5>2. e.key = name /\ e.value = Field(x.item, name)
          OBVIOUS
        <5> HIDE DEF e
        <5> QED BY <4>1, <4>2, <5>1, <5>2
      <4>4. Field(x.item, name) \in [kind : {"bool"}, value : BOOLEAN]
        BY <4>2, <4>3 DEF Value
      <4> DEFINE v == Field(x.item, name)
      <4>5. v = [kind |-> "bool", value |-> v.value] /\ v.value \in BOOLEAN
        <5> HIDE DEF v
        <5>1. v \in [kind : {"bool"}, value : BOOLEAN]
          BY <4>4 DEF v
        <5> QED BY <5>1
      <4>6. Boolean(x.item, name) = v.value
        <5>1. Boolean(x.item, name) <=> v.value
          BY <3>4, Zenon DEF Boolean
        <5>2. Boolean(x.item, name) \in BOOLEAN
          BY Zenon DEF Boolean
        <5> HIDE DEF v
        <5> QED BY <4>5, <5>1, <5>2
      <4>7. Owned(x)[i] = v
        BY <3>1, <3>4, <4>5, <4>6, Zenon
      <4> QED BY <3>4, <4>2, <4>7 DEF name
    <3>5. CASE ~(i =< 2) /\ ~Has(x.item, name)
      <4>1. Boolean(x.item, name) = FALSE
        BY <3>5, Zenon DEF Boolean
      <4> QED BY <3>1, <3>5, <4>1
    <3> QED BY <3>3, <3>4, <3>5
  <2> QED BY <1>2, <2>2 DEF IsCopyOf
<1> QED BY <1>1, <1>2

-------------------------------------------------------------------------------
(* What is said of a request is the same as long as the request is. *)
LEMMA RequestKept ==
    ASSUME UNCHANGED request
    PROVE  /\ \A i : Items(i)' = Items(i)
           /\ AllItems' = AllItems /\ AllTexts' = AllTexts /\ TextBytes' = TextBytes
           /\ Typed' <=> Typed
           /\ Counted' <=> Counted
           /\ Shaped' <=> Shaped
           /\ WithinBytes' <=> WithinBytes
           /\ Admissible' <=> Admissible
<1>1. \A i : Items(i)' = Items(i)
  BY DEF Items
<1>2. AllItems' = AllItems
  BY <1>1 DEF AllItems
<1>3. AllTexts' = AllTexts
  BY <1>2 DEF AllTexts
<1>4. TextBytes' = TextBytes
  BY <1>3 DEF TextBytes
<1>5. Typed' <=> Typed
  BY DEF Typed
<1>6. Counted' <=> Counted
  BY <1>1 DEF Counted
<1>7. Shaped' <=> Shaped
  BY <1>2 DEF Shaped
<1>8. WithinBytes' <=> WithinBytes
  BY <1>3, <1>4 DEF WithinBytes, TotalBytes
<1>9. Admissible' <=> Admissible
  BY <1>3, <1>5, <1>6, <1>7, <1>8 DEF Admissible
<1> QED BY <1>1, <1>2, <1>3, <1>4, <1>5, <1>6, <1>7, <1>8, <1>9

(* The cause a refusal of each class has. *)
Truthful(e) ==
    /\ e = "type" => ~Typed \/ (Counted /\ \E x \in ToSet(AllItems) : IllTyped(x))
    /\ e = "arguments" => Typed /\ Counted /\ \E x \in ToSet(AllItems) : IllNamed(x)
    /\ e = "value" => Typed /\ Counted /\ Shaped /\ \E t \in ToSet(AllTexts) : t.text.lone_surrogate
    /\ e = "budget" => Typed /\ (~Counted \/ (Shaped /\ ~WithinBytes))

(* A refusal that is truthful keeps the invariant. *)
LEMMA RefusedStep ==
    ASSUME CopyInv, NEW e \in Errors, Fail(e), Truthful(e), bytes' = bytes
    PROVE  CopyInv'
<1>1. pc' = e /\ UNCHANGED <<request, next, bytes, copied>> /\ e \notin Passes
  BY DEF Fail, Errors, Passes
<1>2. TypeOK'
  BY <1>1 DEF CopyInv, TypeOK
<1>3. Found'
  <2>1. copied # <<>> => Admissible'
    BY <1>1, RequestKept DEF CopyInv, Found
  <2> QED BY <1>1, <2>1 DEF Found, Passes
<1>4. Reached' /\ Copied'
  BY <1>1 DEF Reached, Copied, Passes
<1>5. RefusalsInOrder'
  <2>1. /\ AllItems' = AllItems /\ AllTexts' = AllTexts /\ (Typed' <=> Typed) /\ (Counted' <=> Counted)
        /\ (Shaped' <=> Shaped) /\ (WithinBytes' <=> WithinBytes)
    BY <1>1, RequestKept
  <2> QED BY <1>1, <2>1 DEF RefusalsInOrder, Truthful
<1> QED BY <1>2, <1>3, <1>4, <1>5 DEF CopyInv

(* The next pass begins when this one has found what it looks for. *)
LEMMA BeginStep ==
    ASSUME CopyInv, NEW pass \in Passes \ {"types", "copy", "done"}, Begin(pass), copied = <<>>,
           Typed, pass # "counts" => Counted, pass \in {"bytes", "reserve"} => Shaped,
           pass = "reserve" => Admissible, pass # "reserve" => bytes = 0
    PROVE  CopyInv'
<1>1. pc' = pass /\ next' = 1 /\ UNCHANGED <<request, bytes, copied>> /\ pass \notin Errors
  BY DEF Begin, Errors, Passes
<1>2. request \in Requests /\ Len(AllItems) \in Nat
  BY ItemsAre DEF CopyInv, TypeOK
<1>3. TypeOK'
  BY <1>1 DEF CopyInv, TypeOK
<1>4. Found'
  BY <1>1, RequestKept DEF Found, Passes
<1>5. Reached'
  <2>1. next' - 1 = 0 /\ 1 .. next' - 1 = {} /\ AllItems' = AllItems /\ AllTexts' = AllTexts
        /\ TextBytes' = TextBytes
    BY <1>1, RequestKept
  <2>2. pass = "bytes" => Len(AllTexts) \in Nat /\ Sums(TextBytes)[0] = 0 /\ TOTAL_BYTES \in Nat
    BY <1>2, TextsAre, CollectionAssumption
  <2> QED BY <1>1, <1>2, <2>1, <2>2 DEF Reached, Passes
<1>6. Copied'
  BY <1>1 DEF Copied, Passes
<1>7. RefusalsInOrder'
  BY <1>1 DEF RefusalsInOrder, Errors
<1> QED BY <1>3, <1>4, <1>5, <1>6, <1>7 DEF CopyInv

(* The types of the lists and the flags, then the lengths of the lists. *)
LEMMA TypesAndCountsStep == CopyInv /\ (AdmitTypes \/ AdmitCounts) => CopyInv'
<1> SUFFICES ASSUME CopyInv, AdmitTypes \/ AdmitCounts PROVE CopyInv'
  OBVIOUS
<1>1. CASE AdmitTypes
  <2>1. pc = "types" /\ copied = <<>> /\ bytes = 0
    BY <1>1 DEF AdmitTypes, CopyInv, Copied, Reached, Passes
  <2>2. CASE Typed
    <3>1. Begin("counts")
      BY <1>1, <2>2 DEF AdmitTypes, Typed
    <3> QED BY <2>1, <2>2, <3>1, BeginStep DEF Passes
  <2>3. CASE ~Typed
    <3>1. Fail("type")
      BY <1>1, <2>3 DEF AdmitTypes, Typed
    <3>2. Truthful("type")
      BY <2>3 DEF Truthful
    <3> QED BY <3>1, <3>2, RefusedStep DEF Errors, Fail
  <2> QED BY <2>2, <2>3
<1>2. CASE AdmitCounts
  <2>1. pc = "counts" /\ copied = <<>> /\ bytes = 0 /\ Typed /\ request \in Requests
    BY <1>2 DEF AdmitCounts, CopyInv, Copied, Reached, Found, TypeOK, Passes
  <2>2. \A i \in 1 .. 3 : Len(Items(i)) \in Nat /\ Caps[i] \in Nat
    <3>1. \A i \in 1 .. 3 : Items(i) \in Seq(Item)
      BY <2>1, ItemsAre
    <3> QED BY <3>1, CollectionAssumption
  <2>3. CASE Counted
    <3>1. Begin("shapes")
      BY <1>2, <2>2, <2>3 DEF AdmitCounts, Counted
    <3> QED BY <2>1, <2>3, <3>1, BeginStep DEF Passes
  <2>4. CASE ~Counted
    <3>1. Fail("budget")
      BY <1>2, <2>2, <2>4 DEF AdmitCounts, Counted
    <3>2. Truthful("budget")
      BY <2>1, <2>4 DEF Truthful
    <3> QED BY <3>1, <3>2, RefusedStep DEF Errors, Fail
  <2> QED BY <2>3, <2>4
<1> QED BY <1>1, <1>2

(* The shape of the next item. *)
LEMMA ShapeStep == CopyInv /\ AdmitShape => CopyInv'
<1> SUFFICES ASSUME CopyInv, AdmitShape PROVE CopyInv'
  OBVIOUS
<1>1. /\ pc = "shapes" /\ copied = <<>> /\ bytes = 0 /\ Typed /\ Counted /\ request \in Requests
      /\ next \in Nat \ {0} /\ next =< Len(AllItems) + 1
      /\ \A k \in 1 .. next - 1 : WellShaped(AllItems[k])
  BY DEF AdmitShape, CopyInv, Copied, Reached, Found, TypeOK, Passes
<1>2. /\ AllItems \in Seq(Item) /\ Len(AllItems) \in Nat /\ DOMAIN AllItems = 1 .. Len(AllItems)
      /\ \A k \in 1 .. Len(AllItems) : AllItems[k] \in Item /\ AllItems[k] \in ToSet(AllItems)
  BY <1>1, ItemsAre
<1>3. CASE next > Len(AllItems)
  <2>1. Begin("bytes")
    BY <1>3 DEF AdmitShape
  <2>2. next - 1 = Len(AllItems)
    BY <1>1, <1>2, <1>3
  <2>3. Shaped
    BY <1>1, <1>2, <2>2 DEF Shaped, ToSet
  <2> QED BY <1>1, <2>1, <2>3, BeginStep DEF Passes
<1>4. CASE ~(next > Len(AllItems))
  <2> DEFINE x == AllItems[next]
  <2>1. x \in Item /\ x \in ToSet(AllItems) /\ next \in 1 .. Len(AllItems)
    BY <1>1, <1>2, <1>4
  <2> HIDE DEF x
  <2>2. CASE \E e \in ShapeErrors(x) \cup {"memory"} : Fail(e)
    <3>1. PICK e \in ShapeErrors(x) \cup {"memory"} : Fail(e)
      BY <2>2
    <3>2. e \in {"type", "arguments", "memory"}
      BY <2>1, <3>1, ShapeMeans
    <3>3. (e = "type" => IllTyped(x)) /\ (e = "arguments" => IllNamed(x))
      BY <2>1, <3>1, ShapeMeans
    <3>4. Truthful(e)
      BY <1>1, <2>1, <3>2, <3>3 DEF Truthful
    <3> QED BY <3>1, <3>2, <3>4, RefusedStep DEF Errors, Fail
  <2>3. CASE ShapeErrors(x) = {} /\ next' = next + 1 /\ UNCHANGED <<request, pc, bytes, copied>>
    <3>1. WellShaped(x)
      BY <2>1, <2>3, ShapeMeans
    <3>2. \A k \in 1 .. next : WellShaped(AllItems[k])
      <4>1. ASSUME NEW k \in 1 .. next, k # next PROVE k \in 1 .. next - 1
        BY <1>1, <4>1
      <4> QED BY <1>1, <3>1, <4>1 DEF x
    <3>3. /\ next' \in Nat \ {0} /\ next' =< Len(AllItems) + 1 /\ next' - 1 = next
          /\ pc' = "shapes" /\ UNCHANGED <<request, bytes, copied>>
      BY <1>1, <1>2, <2>1, <2>3
    <3>4. TypeOK'
      BY <3>3 DEF CopyInv, TypeOK, Passes
    <3>5. Found'
      BY <1>1, <3>3, RequestKept DEF Found, Passes
    <3>6. Reached'
      BY <1>1, <3>2, <3>3, RequestKept DEF Reached, Passes
    <3>7. Copied' /\ RefusalsInOrder'
      BY <1>1, <3>3 DEF Copied, RefusalsInOrder
    <3> QED BY <3>4, <3>5, <3>6, <3>7 DEF CopyInv
  <2> QED BY <1>4, <2>2, <2>3 DEF AdmitShape, x
<1> QED BY <1>3, <1>4

(* The size of the next text, alone and with those before it. *)
LEMMA TextStep == CopyInv /\ ChargeText => CopyInv'
<1> SUFFICES ASSUME CopyInv, ChargeText PROVE CopyInv'
  OBVIOUS
<1>1. /\ pc = "bytes" /\ copied = <<>> /\ Typed /\ Counted /\ Shaped /\ request \in Requests
      /\ next \in Nat \ {0} /\ next =< Len(AllTexts) + 1 /\ bytes \in Nat
      /\ bytes = Sums(TextBytes)[next - 1] /\ bytes =< TOTAL_BYTES
      /\ \A k \in 1 .. next - 1 : FineText(AllTexts[k])
  BY DEF ChargeText, CopyInv, Copied, Reached, Found, TypeOK, Passes
<1>2. /\ AllTexts \in Seq(Limited) /\ Len(AllTexts) \in Nat
      /\ DOMAIN AllTexts = 1 .. Len(AllTexts)
      /\ \A k \in 1 .. Len(AllTexts) :
            /\ AllTexts[k] \in ToSet(AllTexts) /\ AllTexts[k].text.bytes \in Nat
            /\ Sums(TextBytes)[k] = Sums(TextBytes)[k - 1] + AllTexts[k].text.bytes
            /\ Sums(TextBytes)[k] \in Nat /\ Sums(TextBytes)[k] =< TotalBytes
      /\ TotalBytes = Sums(TextBytes)[Len(AllTexts)] /\ TotalBytes \in Nat
      /\ TOTAL_BYTES \in Nat
  BY <1>1, TextsAre, CollectionAssumption
<1>3. CASE next > Len(AllTexts)
  <2>1. Begin("reserve")
    BY <1>3 DEF ChargeText
  <2>2. next - 1 = Len(AllTexts)
    BY <1>1, <1>2, <1>3
  <2>3. \A t \in ToSet(AllTexts) : FineText(t)
    BY <1>1, <1>2, <2>2 DEF ToSet
  <2>4. Admissible
    BY <1>1, <1>2, <2>2, <2>3 DEF Admissible, WithinBytes, FineText
  <2> QED BY <1>1, <2>1, <2>4, BeginStep DEF Passes
<1>4. CASE ~(next > Len(AllTexts))
  <2> DEFINE t == AllTexts[next]
  <2>1. /\ next \in 1 .. Len(AllTexts) /\ t \in ToSet(AllTexts) /\ t.text.bytes \in Nat
        /\ Sums(TextBytes)[next] = bytes + t.text.bytes
        /\ Sums(TextBytes)[next] \in Nat /\ Sums(TextBytes)[next] =< TotalBytes
        /\ t.limit \in Nat
    <3>1. next \in 1 .. Len(AllTexts)
      BY <1>1, <1>2, <1>4
    <3>2. t \in Limited
      BY <1>2, <3>1
    <3>3. t.limit \in Nat
      <4> HIDE DEF t
      <4> QED BY <3>2 DEF Limited
    <3> QED BY <1>1, <1>2, <3>1, <3>3
  <2> HIDE DEF t
  <2>2. CASE \E e \in TextErrors(t) \cup {"memory"} : Fail(e)
    <3>1. PICK e \in TextErrors(t) \cup {"memory"} : Fail(e)
      BY <2>2
    <3>2. e \in {"budget", "value", "memory"}
      BY <3>1 DEF TextErrors
    <3>3. e = "value" => t.text.lone_surrogate
      BY <3>1 DEF TextErrors
    <3>4. e = "budget" => ~WithinBytes
      <4>1. SUFFICES ASSUME e = "budget", WithinBytes PROVE FALSE
        OBVIOUS
      <4>2. t.text.bytes =< t.limit /\ TotalBytes =< TOTAL_BYTES
        BY <2>1, <4>1 DEF WithinBytes
      <4>3. t.text.bytes > t.limit \/ bytes + t.text.bytes > TOTAL_BYTES
        BY <3>1, <4>1 DEF TextErrors
      <4> QED BY <1>1, <1>2, <2>1, <4>2, <4>3
    <3>5. Truthful(e)
      BY <1>1, <2>1, <3>2, <3>3, <3>4 DEF Truthful
    <3> QED BY <3>1, <3>2, <3>5, RefusedStep DEF Errors, Fail
  <2>3. CASE /\ TextErrors(t) = {} /\ bytes' = bytes + t.text.bytes /\ next' = next + 1
             /\ UNCHANGED <<request, pc, copied>>
    <3>1. FineText(t) /\ bytes + t.text.bytes =< TOTAL_BYTES
      <4>1. ~(t.text.bytes > t.limit) /\ ~t.text.lone_surrogate /\ ~(bytes + t.text.bytes > TOTAL_BYTES)
        BY <2>3 DEF TextErrors
      <4> QED BY <1>1, <1>2, <2>1, <4>1 DEF FineText
    <3>2. \A k \in 1 .. next : FineText(AllTexts[k])
      <4>1. ASSUME NEW k \in 1 .. next, k # next PROVE k \in 1 .. next - 1
        BY <1>1, <4>1
      <4> QED BY <1>1, <3>1, <4>1 DEF t
    <3>3. /\ next' \in Nat \ {0} /\ next' =< Len(AllTexts) + 1 /\ next' - 1 = next
          /\ pc' = "bytes" /\ UNCHANGED <<request, copied>> /\ bytes' \in Nat
          /\ bytes' = Sums(TextBytes)[next] /\ bytes' =< TOTAL_BYTES
      BY <1>1, <1>2, <2>1, <2>3, <3>1
    <3>4. TypeOK'
      BY <3>3 DEF CopyInv, TypeOK, Passes
    <3>5. Found'
      BY <1>1, <3>3, RequestKept DEF Found, Passes
    <3>6. Reached'
      <4>1. AllTexts' = AllTexts /\ TextBytes' = TextBytes
        BY <3>3, RequestKept
      <4> QED BY <3>2, <3>3, <4>1 DEF Reached, Passes
    <3>7. Copied' /\ RefusalsInOrder'
      BY <1>1, <3>3 DEF Copied, RefusalsInOrder, Passes
    <3> QED BY <3>4, <3>5, <3>6, <3>7 DEF CopyInv
  <2> QED BY <1>4, <2>2, <2>3 DEF ChargeText, t
<1> QED BY <1>3, <1>4

(* Room for the copies, then the copies. *)
LEMMA CopyStep == CopyInv /\ (Reserve \/ Copy) => CopyInv'
<1> SUFFICES ASSUME CopyInv, Reserve \/ Copy PROVE CopyInv'
  OBVIOUS
<1>1. /\ pc \in {"reserve", "copy"} /\ Typed /\ Counted /\ Shaped /\ Admissible /\ request \in Requests
      /\ next \in Nat \ {0} /\ bytes \in Nat
  BY DEF Reserve, Copy, CopyInv, Found, TypeOK, Passes
<1>2. /\ Len(AllItems) \in Nat
      /\ \A k \in 1 .. Len(AllItems) : AllItems[k] \in Item /\ WellShaped(AllItems[k])
  BY <1>1, ItemsAre DEF Shaped
<1>3. ASSUME pc' \in {"copy", "done"}, UNCHANGED <<request, bytes>>, next' \in Nat \ {0},
             Len(copied') \in Nat, DOMAIN copied' = 1 .. Len(copied'),
             \A k \in 1 .. Len(copied') : IsCopyOf(copied'[k], AllItems[k]),
             pc' = "copy" => next' =< Len(AllItems) + 1 /\ Len(copied') = next' - 1,
             pc' = "done" => next' = 1 /\ Len(copied') = Len(AllItems)
      PROVE  CopyInv'
  <2>1. TypeOK'
    BY <1>3 DEF CopyInv, TypeOK, Passes
  <2>2. Found'
    BY <1>1, <1>3, RequestKept DEF Found
  <2>3. AllItems' = AllItems
    BY <1>3, RequestKept
  <2>4. Reached' /\ Copied'
    BY <1>3, <2>3 DEF Reached, Copied, Passes
  <2>5. RefusalsInOrder'
    BY <1>3 DEF RefusalsInOrder
  <2> QED BY <2>1, <2>2, <2>4, <2>5 DEF CopyInv
<1>4. CASE Fail("memory")
  <2>1. Truthful("memory")
    BY DEF Truthful
  <2> QED BY <1>4, <2>1, RefusedStep DEF Errors, Fail
<1>5. CASE Reserve /\ Begin("copy")
  <2>1. copied = <<>>
    BY <1>5 DEF Reserve, CopyInv, Copied, Passes
  <2> QED BY <1>2, <1>3, <1>5, <2>1 DEF Begin
<1>6. CASE Copy /\ ~Fail("memory")
  <2>1. /\ pc = "copy" /\ Len(copied) = next - 1 /\ next =< Len(AllItems) + 1
        /\ \A k \in 1 .. Len(copied) : IsCopyOf(copied[k], AllItems[k])
        /\ DOMAIN copied = 1 .. Len(copied) /\ Len(copied) \in Nat
    BY <1>6 DEF Copy, CopyInv, Copied, Reached, TypeOK
  <2>2. CASE next > Len(AllItems)
    <3>1. Begin("done")
      BY <1>6, <2>2 DEF Copy
    <3>2. next - 1 = Len(AllItems)
      BY <1>1, <1>2, <2>1, <2>2
    <3> QED BY <1>3, <2>1, <3>1, <3>2 DEF Begin
  <2>3. CASE ~(next > Len(AllItems))
    <3> DEFINE x == AllItems[next]
               c == [list |-> x.list, owned |-> Owned(x)]
    <3>1. /\ copied' = Append(copied, c) /\ next' = next + 1
          /\ UNCHANGED <<request, pc, bytes>>
      BY <1>6, <2>3 DEF Copy
    <3>2. IsCopyOf(c, x)
      BY <1>1, <1>2, <2>3, OwnedIs
    <3> HIDE DEF c
    <3>3. /\ Len(copied') = next /\ DOMAIN copied' = 1 .. next /\ copied'[next] = c
          /\ \A k \in 1 .. next - 1 : copied'[k] = copied[k]
      BY <1>1, <2>1, <3>1
    <3>4. \A k \in 1 .. next : IsCopyOf(copied'[k], AllItems[k])
      <4>1. ASSUME NEW k \in 1 .. next, k # next PROVE k \in 1 .. next - 1
        BY <1>1, <4>1
      <4> QED BY <2>1, <3>2, <3>3, <4>1
    <3>5. next' \in Nat \ {0} /\ next' =< Len(AllItems) + 1 /\ next' - 1 = next /\ next \in Nat
      BY <1>1, <1>2, <2>3, <3>1
    <3> HIDE DEF x
    <3> QED BY <1>3, <2>1, <3>1, <3>3, <3>4, <3>5
  <2> QED BY <2>2, <2>3
<1> QED BY <1>4, <1>5, <1>6 DEF Reserve

(* Every step keeps the invariant. *)
LEMMA CopyInvStep == CopyInv /\ [Next]_vars => CopyInv'
<1> SUFFICES ASSUME CopyInv, [Next]_vars PROVE CopyInv'
  OBVIOUS
<1>1. CASE UNCHANGED vars
  <2>1. UNCHANGED <<request, pc, next, bytes, copied>>
    BY <1>1 DEF vars
  <2>2. /\ AllItems' = AllItems /\ AllTexts' = AllTexts /\ TextBytes' = TextBytes
        /\ (Typed' <=> Typed) /\ (Counted' <=> Counted) /\ (Shaped' <=> Shaped)
        /\ (WithinBytes' <=> WithinBytes) /\ (Admissible' <=> Admissible)
    BY <2>1, RequestKept
  <2>3. TypeOK' /\ Found'
    BY <2>1, <2>2 DEF CopyInv, TypeOK, Found
  <2>4. Reached'
    BY <2>1, <2>2 DEF CopyInv, Reached
  <2>5. Copied'
    BY <2>1, <2>2 DEF CopyInv, Copied
  <2>6. RefusalsInOrder'
    BY <2>1, <2>2 DEF CopyInv, RefusalsInOrder
  <2> QED BY <2>3, <2>4, <2>5, <2>6 DEF CopyInv
<1> QED BY <1>1, TypesAndCountsStep, ShapeStep, TextStep, CopyStep DEF Next

(* Nothing is found or copied at the start. *)
LEMMA CopyInvInit == Init => CopyInv
<1> SUFFICES ASSUME Init PROVE CopyInv
  OBVIOUS
<1> QED BY DEF Init, CopyInv, TypeOK, Found, Reached, Copied, RefusalsInOrder, Passes

THEOREM Invariance == Spec => []CopyInv
  BY CopyInvInit, CopyInvStep, PTL DEF Spec

(* What is refused for its shape is not well-shaped. *)
LEMMA IllIsNotWell ==
    ASSUME NEW x \in Item, IllTyped(x) \/ IllNamed(x)
    PROVE  ~WellShaped(x)
<1>1. SUFFICES ASSUME WellShaped(x) PROVE FALSE
  OBVIOUS
<1>2. x.list # 3 /\ x.item.kind = "dict" /\ x.list \in {1, 2}
  BY <1>1 DEF IllTyped, IllNamed, WellShaped, Item
<1> DEFINE names == Names[x.list]
<1>3. /\ {e.key : e \in ToSet(x.item.entries)} \subseteq ToSet(names)
      /\ Required(names) \subseteq {e.key : e \in ToSet(x.item.entries)}
      /\ \A e \in ToSet(x.item.entries) :
            e.value.kind = IF e.key \in Required(names) THEN "str" ELSE "bool"
  BY <1>1, <1>2 DEF WellShaped
<1>4. IllTyped(x)
  BY <1>2, <1>3 DEF IllNamed
<1>5. PICK e \in ToSet(x.item.entries) :
         \/ e.key = "no_string"
         \/ /\ e.key \in ToSet(names)
            /\ e.value.kind # IF e.key \in Required(names) THEN "str" ELSE "bool"
  BY <1>2, <1>4 DEF IllTyped
<1>6. e.key \in ToSet(names)
  BY <1>3
<1>7. "no_string" \notin ToSet(names)
  BY <1>2, NamesAre
<1> HIDE DEF names
<1> QED BY <1>3, <1>5, <1>6, <1>7

(* For every request and all limits, exactly the well-formed requests       *)
(* within every limit are admitted, unless memory runs out.                 *)
(* (collection_admission.rs:97-196)                                         *)
THEOREM AdmissionCorrect == Spec => []AdmitsExactlyAdmissible
<1>1. CopyInv => AdmitsExactlyAdmissible
  <2>1. SUFFICES ASSUME CopyInv PROVE AdmitsExactlyAdmissible
    OBVIOUS
  <2>2. pc = "done" => Admissible
    BY <2>1 DEF CopyInv, Found
  <2>3. (\E x \in ToSet(AllItems) : IllTyped(x) \/ IllNamed(x)) => ~Shaped
    <3>1. \A x \in ToSet(AllItems) : x \in Item
      BY <2>1, ItemsAre DEF CopyInv, TypeOK, ToSet
    <3> QED BY <3>1, IllIsNotWell DEF Shaped
  <2>4. pc \in Errors \ {"memory"} => ~Admissible
    BY <2>1, <2>3 DEF CopyInv, RefusalsInOrder, Errors, Admissible
  <2> QED BY <2>2, <2>4 DEF AdmitsExactlyAdmissible
<1> QED BY <1>1, Invariance, PTL

(* For every request, each refusal has its cause in the request: types are  *)
(* refused before counts, counts before shapes and shapes before bytes.     *)
(* (collection_admission.rs:98-150)                                         *)
THEOREM RefusalsCorrect == Spec => []RefusalsInOrder
<1>1. CopyInv => RefusalsInOrder
  BY DEF CopyInv
<1> QED BY <1>1, Invariance, PTL

(* For every request, nothing is copied of one that may still be refused.   *)
(* (collection_admission.rs:135)                                            *)
THEOREM CopyingCorrect == Spec => []NothingCopiedEarly
<1>1. CopyInv => NothingCopiedEarly
  BY DEF CopyInv, Found, NothingCopiedEarly
<1> QED BY <1>1, Invariance, PTL

(* For every request, core gets its items in their order, field by field,   *)
(* and no probe that was not asked for.  (collection_admission.rs:153-195)  *)
THEOREM CopiesCorrect == Spec => []CopiedIsRequest
<1>1. CopyInv => CopiedIsRequest
  BY DEF CopyInv, Copied, TypeOK, CopiedIsRequest
<1> QED BY <1>1, Invariance, PTL

-------------------------------------------------------------------------------
(* Texts, and what is summed up over them. *)

(* The bodies of Values and of Opened, and what they are functions on. *)
Places(t) == (DOMAIN t) \X (DOMAIN t)

(* The texts of the decoder. *)
Texts == Seq(Lexemes)

(* A lexeme by its kind. *)
LEMMA LexemeIs ==
    ASSUME NEW x \in Lexemes
    PROVE  /\ x.kind = "str" => x \in Text
           /\ x.kind = "num" => x \in Scalar /\ x.bytes \in Nat /\ x.fault \in {"none", "syntax", "overflow", "nonfinite"}
           /\ x.kind = "literal" => x \in Scalar /\ x.bytes \in Nat
           /\ x.kind \in {"{", "}", "[", "]", ":", ",", "end", "garbage", "nan", "str", "num", "literal"}
<1>1. x \in Punctuation \cup Unreadable \cup Text \cup Scalar
  BY JsonAssumption
<1>2. CASE x \in Punctuation
  BY <1>2 DEF Punctuation
<1>3. CASE x \in Unreadable
  BY <1>3 DEF Unreadable
<1>4. CASE x \in Text
  BY <1>4 DEF Text
<1>5. CASE x \in Scalar
  <2>1. CASE x \in [kind : {"num"}, bytes : Nat, fault : {"none", "syntax", "overflow", "nonfinite"}]
    <3>1. x.kind = "num" /\ x.bytes \in Nat /\ x.fault \in {"none", "syntax", "overflow", "nonfinite"}
      BY ONLY <2>1
    <3> QED BY <1>5, <3>1
  <2>2. CASE x \in [kind : {"literal"}, bytes : {4, 5}]
    <3>1. x.kind = "literal" /\ x.bytes \in Nat
      BY ONLY <2>2
    <3> QED BY <1>5, <3>1
  <2> QED BY <1>5, <2>1, <2>2 DEF Scalar
<1> QED BY <1>1, <1>2, <1>3, <1>4, <1>5

(* A text read one lexeme further. *)
LEMMA FurtherIs ==
    ASSUME NEW T, NEW t \in Seq(T), NEW x \in T
    PROVE  /\ Append(t, x) \in Seq(T) /\ Append(t, x) # <<>>
           /\ Len(t) \in Nat /\ Len(Append(t, x)) = Len(t) + 1
           /\ DOMAIN t = 1 .. Len(t) /\ DOMAIN Append(t, x) = 1 .. Len(t) + 1
           /\ \A i \in 1 .. Len(t) : Append(t, x)[i] = t[i]
           /\ Append(t, x)[Len(t) + 1] = x
           /\ Last(Append(t, x)) = x /\ Front(Append(t, x)) = t
<1>1. /\ Append(t, x) \in Seq(T) /\ Append(t, x) # <<>>
      /\ Len(t) \in Nat /\ Len(Append(t, x)) = Len(t) + 1
      /\ DOMAIN t = 1 .. Len(t) /\ DOMAIN Append(t, x) = 1 .. Len(t) + 1
      /\ \A i \in 1 .. Len(t) : Append(t, x)[i] = t[i]
      /\ Append(t, x)[Len(t) + 1] = x
  OBVIOUS
<1>2. Last(Append(t, x)) = x
  BY <1>1 DEF Last
<1>3. Front(Append(t, x)) = t
  <2>1. Front(Append(t, x)) = SubSeq(Append(t, x), 1, Len(t))
    BY <1>1 DEF Front
  <2>2. SubSeq(Append(t, x), 1, Len(t)) = t
    BY <1>1, SeqEqual
  <2> QED BY <2>1, <2>2
<1> QED BY <1>1, <1>2, <1>3

(* g of every element of t, and of one more. *)
Mapped(g, t) == [i \in DOMAIN t |-> g[t[i]]]

(* The image of a sequence, one element further. *)
MapsFurther(g, t, x) == Mapped(g, Append(t, x)) = Append(Mapped(g, t), g[x])

(* It is the image of the sequence with that of the element added. *)
LEMMA MappedFurther ==
    ASSUME NEW T, NEW t \in Seq(T), NEW x \in T, NEW S, NEW g \in [T -> S]
    PROVE  Mapped(g, t) \in Seq(S) /\ MapsFurther(g, t, x)
<1> USE DEF Mapped
<1> DEFINE f == Mapped(g, t)
           h == Mapped(g, Append(t, x))
<1>1. /\ Append(t, x) \in Seq(T) /\ Len(t) \in Nat /\ Len(Append(t, x)) = Len(t) + 1
      /\ DOMAIN t = 1 .. Len(t) /\ DOMAIN Append(t, x) = 1 .. Len(t) + 1
      /\ \A i \in 1 .. Len(t) : Append(t, x)[i] = t[i]
      /\ Append(t, x)[Len(t) + 1] = x
  BY FurtherIs
<1>2. f \in Seq(S) /\ Len(f) = Len(t)
  BY <1>1
<1>3. h \in Seq(S) /\ Len(h) = Len(t) + 1
  BY <1>1
<1>4. Append(f, g[x]) \in Seq(S) /\ Len(Append(f, g[x])) = Len(t) + 1
  BY <1>2
<1>5. ASSUME NEW i \in 1 .. Len(t) + 1 PROVE h[i] = Append(f, g[x])[i]
  <2>1. CASE i = Len(t) + 1
    BY <1>1, <1>2, <2>1
  <2>2. CASE i # Len(t) + 1
    <3>1. i \in 1 .. Len(t)
      BY <1>1, <2>2
    <3>2. h[i] = g[t[i]]
      BY <1>1, <3>1
    <3>3. f[i] = g[t[i]] /\ Append(f, g[x])[i] = f[i]
      BY <1>1, <1>2, <3>1
    <3> QED BY <3>2, <3>3
  <2> QED BY <2>1, <2>2
<1>6. h = Append(f, g[x])
  <2> HIDE DEF h
  <2> QED BY <1>3, <1>4, <1>5, SeqEqual
<1> QED BY <1>2, <1>6 DEF MapsFurther

-------------------------------------------------------------------------------
(* Values of the grammar, without their recursion. *)

(* The neighbours among the separators of a container are within it. *)
LEMMA GapsAre ==
    ASSUME NEW t, NEW i \in Nat, NEW j \in Nat, i < j,
           NEW commas \in SUBSET Commas(t, i, j), NEW gap \in Gaps(commas \cup {i, j})
    PROVE  /\ gap[1] \in i .. j - 1 /\ gap[2] \in i + 1 .. j /\ gap[1] < gap[2]
           /\ gap[1] \in Nat /\ gap[2] \in Nat
<1>1. commas \subseteq i + 1 .. j - 1
  BY DEF Commas
<1>2. gap[1] \in commas \cup {i, j} /\ gap[2] \in commas \cup {i, j} /\ gap[1] < gap[2]
  BY Zenon DEF Gaps
<1>3. ASSUME NEW k \in commas \cup {i, j} PROVE k \in i .. j
  BY <1>1
<1>4. gap[1] \in i .. j /\ gap[2] \in i .. j
  BY <1>2, <1>3
<1> QED BY <1>2, <1>4

(* Whether some lexemes are a value depends on them alone, and on what is   *)
(* a value within them.                                                     *)
LEMMA ValueAlike ==
    ASSUME NEW t, NEW u, NEW F, NEW G, NEW i \in Nat, NEW j \in Nat,
           \A k \in i .. j : t[k] = u[k],
           \A a, b \in Nat : i < a /\ a =< b /\ b < j /\ F[<<a, b>>] => G[<<a, b>>],
           IsValue(t, F, i, j)
    PROVE  IsValue(u, G, i, j)
<1>1. CASE i = j /\ IsScalar(t[i])
  <2>1. t[i] = u[i]
    BY <1>1
  <2> QED BY <1>1, <2>1 DEF IsValue
<1>2. CASE i < j
  <2>1. t[i] = u[i] /\ t[j] = u[j]
    BY <1>2
  <2>0. i # j
    BY <1>2
  <2>a. /\ Brackets(t, i, j)
        /\ \/ j = i + 1
           \/ \E commas \in SUBSET Commas(t, i, j) :
                 \A gap \in Gaps(commas \cup {i, j}) :
                    IF t[i].kind = "[" THEN IsItem(F, gap[1] + 1, gap[2] - 1)
                    ELSE IsMember(t, F, gap[1] + 1, gap[2] - 1)
    BY <2>0, Zenon DEF IsValue
  <2>2. Brackets(t, i, j) /\ Brackets(u, i, j)
    BY <2>a, <2>1 DEF Brackets
  <2>3. CASE j = i + 1
    BY <1>2, <2>2, <2>3 DEF IsValue
  <2>4. CASE j # i + 1
    <3>1. PICK commas \in SUBSET Commas(t, i, j) :
             \A gap \in Gaps(commas \cup {i, j}) :
                IF t[i].kind = "[" THEN IsItem(F, gap[1] + 1, gap[2] - 1)
                ELSE IsMember(t, F, gap[1] + 1, gap[2] - 1)
      BY <2>4, <2>a, Zenon
    <3>2. Commas(u, i, j) = Commas(t, i, j)
      <4>1. \A k \in i + 1 .. j - 1 : t[k] = u[k]
        OBVIOUS
      <4> QED BY <4>1, Zenon DEF Commas
    <3>3. ASSUME NEW gap \in Gaps(commas \cup {i, j})
          PROVE  IF u[i].kind = "[" THEN IsItem(G, gap[1] + 1, gap[2] - 1)
                 ELSE IsMember(u, G, gap[1] + 1, gap[2] - 1)
      <4>1. /\ gap[1] \in i .. j - 1 /\ gap[2] \in i + 1 .. j /\ gap[1] < gap[2]
            /\ gap[1] \in Nat /\ gap[2] \in Nat
        BY <1>2, GapsAre
      <4>2. CASE t[i].kind = "["
        <5>1. gap[1] + 1 =< gap[2] - 1 /\ F[<<gap[1] + 1, gap[2] - 1>>]
          BY <3>1, <4>2 DEF IsItem
        <5>2. gap[1] + 1 \in Nat /\ gap[2] - 1 \in Nat /\ i < gap[1] + 1 /\ gap[2] - 1 < j
          BY <4>1
        <5>3. G[<<gap[1] + 1, gap[2] - 1>>]
          BY <5>1, <5>2
        <5> QED BY <2>1, <4>2, <5>1, <5>3 DEF IsItem
      <4>3. CASE t[i].kind # "["
        <5> DEFINE a == gap[1] + 1  b == gap[2] - 1
        <5>1. /\ a + 2 =< b /\ t[a].kind = "str" /\ t[a].fault = "none" /\ t[a + 1].kind = ":"
              /\ F[<<a + 2, b>>]
          BY <3>1, <4>3 DEF IsMember
        <5>2. /\ a \in i .. j /\ a + 1 \in i .. j /\ a + 2 \in Nat /\ b \in Nat
              /\ i < a + 2 /\ b < j
          BY <4>1, <5>1
        <5>3. G[<<a + 2, b>>] /\ t[a] = u[a] /\ t[a + 1] = u[a + 1]
          <6> HIDE DEF a, b
          <6> QED BY <5>1, <5>2
        <5>4. IsMember(u, G, a, b)
          <6> HIDE DEF a, b
          <6> QED BY <5>1, <5>3 DEF IsMember
        <5> QED BY <2>1, <4>3, <5>4
      <4> QED BY <4>2, <4>3
    <3> QED BY <1>2, <2>2, <3>2, <3>3 DEF IsValue
  <2> QED BY <2>3, <2>4
<1> QED BY <1>1, <1>2 DEF IsValue

(* Values is what its definition says. *)
LEMMA ValuesAre ==
    ASSUME NEW T, NEW t \in Seq(T)
    PROVE  /\ Values(t) = [p \in Places(t) |-> IsValue(t, Values(t), p[1], p[2])]
           /\ \A i, j \in 1 .. Len(t) : Values(t)[<<i, j>>] <=> IsValue(t, Values(t), i, j)
<1> DEFINE L == Len(t)
           S == SUBSET Places(t)
           In(V) == [r \in Places(t) |-> r \in V]
           New(n, V) == {p \in Places(t) : p[2] = p[1] + n - 1 /\ IsValue(t, In(V), p[1], p[2])}
           g == [q \in (1 .. L) \X S |-> q[2] \cup New(q[1], q[2])]
           Is(f) == f = [p \in Places(t) |-> IsValue(t, f, p[1], p[2])]
<1>1. L \in Nat /\ Places(t) = (1 .. L) \X (1 .. L)
  BY DEF Places
<1>2. {} \in S /\ g \in Nexts(L, S)
  <2>1. ASSUME NEW q \in (1 .. L) \X S PROVE q[2] \cup New(q[1], q[2]) \in S
    OBVIOUS
  <2> HIDE DEF New, S
  <2>2. g \in [(1 .. L) \X S -> S]
    BY <2>1
  <2> QED BY <2>2 DEF Nexts, S
<1>3. PICK h : Recursive(h, L, S, {}, g)
  <2> HIDE DEF g, S
  <2> QED BY <1>1, <1>2, Recursion
<1>4. /\ h \in [0 .. L -> S] /\ h[0] = {}
      /\ \A n \in 1 .. L : h[n] = h[n - 1] \cup New(n, h[n - 1])
  <2>1. /\ h \in [0 .. L -> S] /\ h[0] = {}
        /\ \A n \in 1 .. L : h[n] = g[<<n, h[n - 1]>>]
    <3> HIDE DEF g, S
    <3> QED BY <1>3 DEF Recursive
  <2>2. ASSUME NEW n \in 1 .. L PROVE h[n] = h[n - 1] \cup New(n, h[n - 1])
    <3>1. n - 1 \in 0 .. L
      BY <1>1
    <3>2. <<n, h[n - 1]>> \in (1 .. L) \X S
      <4> HIDE DEF S
      <4> QED BY <2>1, <3>1
    <3>3. g[<<n, h[n - 1]>>] = h[n - 1] \cup New(n, h[n - 1])
      <4> HIDE DEF S, New
      <4> QED BY <3>2
    <3> QED BY <2>1, <3>3
  <2> HIDE DEF S, g, New
  <2> QED BY <2>1, <2>2
<1> HIDE DEF g, S, New
\* A stage adds the values of its length and no other.
<1>5. ASSUME NEW m \in 1 .. L, NEW p \in Places(t)
      PROVE  p \in New(m, h[m - 1]) <=> /\ p[2] = p[1] + m - 1
                                        /\ IsValue(t, In(h[m - 1]), p[1], p[2])
  BY DEF New
<1>6. ASSUME NEW p \in Places(t), NEW m \in 1 .. L, p[2] = p[1] + m - 1
      PROVE  /\ \A n \in 0 .. m - 1 : p \notin h[n]
             /\ \A n \in m .. L : p \in h[n] <=> p \in New(m, h[m - 1])
  <2>0. p[1] \in 1 .. L /\ p[2] \in 1 .. L
    BY <1>1
  <2> DEFINE A == {n \in 0 .. L : IF n < m THEN p \notin h[n] ELSE p \in h[n] <=> p \in New(m, h[m - 1])}
  <2>1. 0 \in A
    BY <1>1, <1>4
  <2>2. ASSUME NEW n \in 0 .. L - 1, n \in A PROVE n + 1 \in A
    <3>1. n + 1 \in 1 .. L /\ (n + 1) - 1 = n
      BY <1>1
    <3>2. h[n + 1] = h[n] \cup New(n + 1, h[n])
      BY <1>4, <3>1
    <3>3. p \in New(n + 1, h[n]) => n + 1 = m
      <4>1. p \in New(n + 1, h[n]) => p[2] = p[1] + (n + 1) - 1
        BY <1>5, <3>1
      <4>2. p[2] = p[1] + (n + 1) - 1 => n + 1 = m
        BY <1>6, <2>0, <3>1
      <4> QED BY <4>1, <4>2
    <3>4. CASE n + 1 < m
      <4>1. p \notin h[n]
        BY <2>2, <3>1, <3>4
      <4> QED BY <3>1, <3>2, <3>3, <3>4, <4>1
    <3>5. CASE n + 1 = m
      <4>1. p \notin h[n] /\ n = m - 1
        BY <2>2, <3>1, <3>5
      <4> QED BY <3>1, <3>2, <3>5, <4>1
    <3>6. CASE n + 1 > m
      <4>1. p \in h[n] <=> p \in New(m, h[m - 1])
        BY <2>2, <3>1, <3>6
      <4> QED BY <3>1, <3>2, <3>3, <3>6, <4>1
    <3> QED BY <3>1, <3>4, <3>5, <3>6
  <2>3. \A n \in 0 .. L : n \in A
    <3> HIDE DEF A
    <3> QED BY <1>1, <2>1, <2>2, Induction
  <2> QED BY <1>1, <2>3
<1>7. ASSUME NEW p \in Places(t), p[1] > p[2] PROVE p \notin h[L]
  <2>0. p[1] \in 1 .. L /\ p[2] \in 1 .. L
    BY <1>1
  <2> DEFINE A == {n \in 0 .. L : p \notin h[n]}
  <2>1. 0 \in A
    BY <1>1, <1>4
  <2>2. ASSUME NEW n \in 0 .. L - 1, n \in A PROVE n + 1 \in A
    <3>1. n + 1 \in 1 .. L /\ (n + 1) - 1 = n
      BY <1>1
    <3>2. h[n + 1] = h[n] \cup New(n + 1, h[n])
      BY <1>4, <3>1
    <3>3. p \notin New(n + 1, h[n])
      <4>1. p \in New(n + 1, h[n]) => p[2] = p[1] + (n + 1) - 1
        BY <1>5, <3>1
      <4> QED BY <1>7, <2>0, <3>1, <4>1
    <3> QED BY <2>2, <3>1, <3>2, <3>3
  <2>3. \A n \in 0 .. L : n \in A
    <3> HIDE DEF A
    <3> QED BY <1>1, <2>1, <2>2, Induction
  <2> QED BY <1>1, <2>3
<1> DEFINE f == In(h[L])
<1>8. ASSUME NEW p \in Places(t) PROVE p \in h[L] <=> IsValue(t, f, p[1], p[2])
  <2>1. p[1] \in 1 .. L /\ p[2] \in 1 .. L /\ p[1] \in Nat /\ p[2] \in Nat
    BY <1>1
  <2>2. CASE p[1] > p[2]
    <3>1. ~IsValue(t, f, p[1], p[2])
      BY <2>1, <2>2 DEF IsValue
    <3> QED BY <1>7, <2>2, <3>1
  <2>3. CASE p[1] =< p[2]
    <3> DEFINE m == p[2] - p[1] + 1
    <3>1. m \in 1 .. L /\ p[2] = p[1] + m - 1 /\ m - 1 \in 0 .. L /\ L \in m .. L
      BY <1>1, <2>1, <2>3
    <3>2. p \in h[L] <=> IsValue(t, In(h[m - 1]), p[1], p[2])
      BY <1>5, <1>6, <3>1
    <3>3. ASSUME NEW a \in Nat, NEW b \in Nat, p[1] < a, a =< b, b < p[2]
          PROVE  In(h[m - 1])[<<a, b>>] <=> f[<<a, b>>]
      <4> DEFINE q == <<a, b>>  k == b - a + 1
      <4>1. q \in Places(t) /\ k \in 1 .. L /\ q[2] = q[1] + k - 1 /\ k =< m - 1
        BY <1>1, <2>1, <3>3
      <4>2. m - 1 \in k .. L /\ L \in k .. L
        BY <3>1, <4>1
      <4>3. q \in h[m - 1] <=> q \in h[L]
        <5> HIDE DEF q, k, m
        <5> QED BY <1>6, <4>1, <4>2
      <4> QED BY <4>1, <4>3
    <3>4. IsValue(t, In(h[m - 1]), p[1], p[2]) => IsValue(t, f, p[1], p[2])
      <4> HIDE DEF f, m, In
      <4> QED BY ZenonT(60), <2>1, <3>3, ValueAlike
    <3>5. IsValue(t, f, p[1], p[2]) => IsValue(t, In(h[m - 1]), p[1], p[2])
      <4> DEFINE e == In(h[m - 1])
      <4>1. \A a, b \in Nat : p[1] < a /\ a =< b /\ b < p[2] /\ f[<<a, b>>] => e[<<a, b>>]
        BY <3>3
      <4> HIDE DEF f, m, e
      <4>2. IsValue(t, f, p[1], p[2]) => IsValue(t, e, p[1], p[2])
        BY <2>1, <4>1, ValueAlike
      <4> QED BY <4>2 DEF e
    <3> QED BY <3>2, <3>4, <3>5
  <2> QED BY <2>1, <2>2, <2>3
<1>9. Is(f)
  <2> DEFINE e == [p \in Places(t) |-> IsValue(t, f, p[1], p[2])]
  <2>1. \A p \in Places(t) : f[p] = (p \in h[L]) /\ e[p] = IsValue(t, f, p[1], p[2])
    OBVIOUS
  <2>2. ASSUME NEW p \in Places(t) PROVE (p \in h[L]) = IsValue(t, f, p[1], p[2])
    <3>1. IsValue(t, f, p[1], p[2]) \in BOOLEAN
      BY DEF IsValue
    <3> HIDE DEF f
    <3> QED BY <1>8, <3>1
  <2>3. f = [p \in Places(t) |-> p \in h[L]]
    OBVIOUS
  <2> HIDE DEF f
  <2> QED BY <2>2, <2>3
<1>10. Values(t) = CHOOSE v : Is(v)
  BY DEF Values, Places
<1>11. Is(Values(t))
  <2> HIDE DEF f
  <2>1. \E v : Is(v)
    BY <1>9
  <2> HIDE DEF Is
  <2> QED BY <1>10, <2>1
<1>12. ASSUME NEW i \in 1 .. Len(t), NEW j \in 1 .. Len(t)
       PROVE  Values(t)[<<i, j>>] <=> IsValue(t, Values(t), i, j)
  <2>1. <<i, j>> \in Places(t)
    BY <1>1
  <2> DEFINE v == Values(t)
  <2>2. v = [p \in Places(t) |-> IsValue(t, v, p[1], p[2])]
    BY <1>11
  <2> HIDE DEF v
  <2>3. v[<<i, j>>] = IsValue(t, v, <<i, j>>[1], <<i, j>>[2])
    BY <2>1, <2>2
  <2> QED BY <2>3 DEF v
<1> QED BY <1>11, <1>12

(* t[i .. j] is a value. *)
ValueAt(t, i, j) ==
    i \in 1 .. Len(t) /\ j \in 1 .. Len(t) /\ i =< j /\ Values(t)[<<i, j>>]

(* t[i .. j] is an item, or a member, of the container opened at o. *)
ItemAt(t, o, i, j) ==
    IF t[o].kind = "[" THEN ValueAt(t, i, j)
    ELSE /\ t[i].kind = "str" /\ t[i].fault = "none" /\ t[i + 1].kind = ":"
         /\ ValueAt(t, i + 2, j)

(* Between the bracket at o and the separator c, which may be o itself,     *)
(* there are entries with commas between them.                              *)
Row(t, o, c) ==
    \E S \in SUBSET (o .. c) :
       /\ o \in S /\ c \in S
       /\ \A k \in S : k = o \/ t[k].kind = ","
       /\ \A gap \in Gaps(S) : ItemAt(t, o, gap[1] + 1, gap[2] - 1)

(* The three ways to be a value. *)
LEMMA ScalarIsValue ==
    ASSUME NEW T, NEW t \in Seq(T), NEW i \in 1 .. Len(t), IsScalar(t[i])
    PROVE  ValueAt(t, i, i)
<1>1. IsValue(t, Values(t), i, i)
  BY Zenon DEF IsValue
<1>2. Values(t)[<<i, i>>]
  BY <1>1, ValuesAre
<1> QED BY <1>2 DEF ValueAt

(* So is a pair of brackets with nothing between them. *)
LEMMA EmptyIsValue ==
    ASSUME NEW T, NEW t \in Seq(T), NEW o \in 1 .. Len(t), o + 1 \in 1 .. Len(t), Brackets(t, o, o + 1)
    PROVE  ValueAt(t, o, o + 1)
<1>1. IsValue(t, Values(t), o, o + 1)
  <2>1. o < o + 1
    OBVIOUS
  <2> QED BY <2>1, Zenon DEF IsValue
<1>2. Values(t)[<<o, o + 1>>]
  BY <1>1, ValuesAre
<1> QED BY <1>2 DEF ValueAt

(* The neighbours among separators to which a later one is added. *)
LEMMA OneMoreGap ==
    ASSUME NEW o \in Nat, NEW c \in Nat, NEW S \in SUBSET (o .. c), c \in S, NEW k \in Nat, c < k,
           NEW gap \in Gaps(S \cup {k})
    PROVE  gap \in Gaps(S) \/ (gap[1] = c /\ gap[2] = k)
<1> DEFINE R == S \cup {k}
<1>1. /\ gap[1] \in R /\ gap[2] \in R /\ gap[1] < gap[2]
      /\ \A m \in R : m =< gap[1] \/ m >= gap[2]
      /\ gap \in R \X R
  BY Zenon DEF Gaps
<1>2. ASSUME NEW m \in S PROVE m \in Nat /\ m =< c /\ m < k
  <2>1. m \in o .. c
    OBVIOUS
  <2> QED BY <2>1
<1>3. gap[1] # k
  <2>1. \A m \in R : m \in Nat /\ m =< k
    BY <1>2
  <2>2. gap[2] \in Nat /\ gap[2] =< k
    BY <1>1, <2>1, Zenon
  <2> QED BY <1>1, <2>2
<1>4. gap[1] \in S
  BY <1>1, <1>3
<1>5. CASE gap[2] = k
  <2>1. c =< gap[1] \/ c >= gap[2]
    BY <1>1
  <2>2. gap[1] \in Nat /\ gap[1] =< c
    BY <1>2, <1>4
  <2>3. gap[1] = c
    BY <1>5, <2>1, <2>2
  <2> QED BY <1>5, <2>3
<1>6. CASE gap[2] # k
  <2>1. gap[2] \in S /\ gap \in S \X S
    BY <1>1, <1>4, <1>6
  <2>2. gap \in Gaps(S)
    BY <1>1, <2>1 DEF Gaps
  <2> QED BY <2>2
<1> QED BY <1>5, <1>6

(* A row begins at the bracket and grows with a comma. *)
LEMMA RowBegins ==
    ASSUME NEW t, NEW o \in Nat
    PROVE  Row(t, o, o)
<1>1. {o} \in SUBSET (o .. o)
  OBVIOUS
<1>2. Gaps({o}) = {}
  BY DEF Gaps
<1> QED BY <1>1, <1>2 DEF Row

(* A row goes on with an item, or a member, and a comma. *)
LEMMA RowGrows ==
    ASSUME NEW t, NEW o \in Nat, NEW c \in Nat, NEW k \in Nat, o =< c, c < k,
           Row(t, o, c), ItemAt(t, o, c + 1, k - 1), t[k].kind = ","
    PROVE  Row(t, o, k)
<1>1. PICK S \in SUBSET (o .. c) :
         /\ o \in S /\ c \in S
         /\ \A m \in S : m = o \/ t[m].kind = ","
         /\ \A gap \in Gaps(S) : ItemAt(t, o, gap[1] + 1, gap[2] - 1)
  BY Zenon DEF Row
<1> DEFINE R == S \cup {k}
<1>2. R \in SUBSET (o .. k)
  <2>1. \A m \in o .. c : m \in o .. k
    BY ONLY o \in Nat, c \in Nat, k \in Nat, o =< c, c < k
  <2>2. k \in o .. k
    BY ONLY o \in Nat, c \in Nat, k \in Nat, o =< c, c < k
  <2> QED BY <2>1, <2>2, Zenon
<1>3. ASSUME NEW gap \in Gaps(R) PROVE ItemAt(t, o, gap[1] + 1, gap[2] - 1)
  <2>1. gap \in Gaps(S) \/ (gap[1] = c /\ gap[2] = k)
    BY ZenonT(60), <1>1, OneMoreGap
  <2> QED BY <1>1, <2>1
<1>4. o \in R /\ k \in R /\ \A m \in R : m = o \/ t[m].kind = ","
  BY <1>1
<1> HIDE DEF R
<1> QED BY <1>2, <1>3, <1>4, Zenon DEF Row

(* A row and a last entry are the inside of a value. *)
LEMMA RowCloses ==
    ASSUME NEW T, NEW t \in Seq(T), NEW o \in 1 .. Len(t), NEW j \in 1 .. Len(t), NEW c \in Nat,
           o =< c, c < j, Row(t, o, c), ItemAt(t, o, c + 1, j - 1), Brackets(t, o, j)
    PROVE  ValueAt(t, o, j)
<1>1. PICK S \in SUBSET (o .. c) :
         /\ o \in S /\ c \in S
         /\ \A m \in S : m = o \/ t[m].kind = ","
         /\ \A gap \in Gaps(S) : ItemAt(t, o, gap[1] + 1, gap[2] - 1)
  BY Zenon DEF Row
<1> DEFINE commas == S \ {o}
<1>2. commas \in SUBSET Commas(t, o, j)
  <2>1. ASSUME NEW m \in commas PROVE m \in o + 1 .. j - 1 /\ t[m].kind = ","
    <3>1. m \in S /\ m # o
      OBVIOUS
    <3>2. m \in o .. c
      BY <3>1
    <3>3. m \in o + 1 .. j - 1
      BY <3>1, <3>2
    <3> QED BY <1>1, <3>1, <3>3
  <2> QED BY <2>1 DEF Commas
<1>3. commas \cup {o, j} = S \cup {j}
  BY <1>1
<1>4. ASSUME NEW gap \in Gaps(S \cup {j}) PROVE ItemAt(t, o, gap[1] + 1, gap[2] - 1)
  <2>0. o \in Nat /\ j \in Nat
    OBVIOUS
  <2>1. gap \in Gaps(S) \/ (gap[1] = c /\ gap[2] = j)
    BY <1>1, <2>0, OneMoreGap
  <2> QED BY <1>1, <2>1
<1>5. ASSUME NEW gap \in Gaps(S \cup {j})
      PROVE  IF t[o].kind = "[" THEN IsItem(Values(t), gap[1] + 1, gap[2] - 1)
             ELSE IsMember(t, Values(t), gap[1] + 1, gap[2] - 1)
  <2>1. ItemAt(t, o, gap[1] + 1, gap[2] - 1)
    BY <1>4
  <2>2. gap[1] \in S \cup {j} /\ gap[2] \in S \cup {j}
    BY Zenon DEF Gaps
  <2>0. ASSUME NEW m \in S \cup {j} PROVE m \in Nat
    <3>1. m \in o .. c \/ m = j
      OBVIOUS
    <3> QED BY <3>1
  <2>3. gap[1] \in Nat /\ gap[2] \in Nat
    BY <2>0, <2>2
  <2> DEFINE a == gap[1] + 1  b == gap[2] - 1
  <2>4. ItemAt(t, o, a, b) /\ a \in Nat /\ b \in Int
    BY <2>1, <2>3
  <2> HIDE DEF a, b
  <2>5. IF t[o].kind = "[" THEN IsItem(Values(t), a, b) ELSE IsMember(t, Values(t), a, b)
    <3>1. CASE t[o].kind = "["
      BY <2>4, <3>1 DEF ItemAt, ValueAt, IsItem
    <3>2. CASE t[o].kind # "["
      BY <2>4, <3>2 DEF ItemAt, ValueAt, IsMember
    <3> QED BY <3>1, <3>2
  <2> QED BY <2>5 DEF a, b
<1>6. \E s \in SUBSET Commas(t, o, j) :
         \A gap \in Gaps(s \cup {o, j}) :
            IF t[o].kind = "[" THEN IsItem(Values(t), gap[1] + 1, gap[2] - 1)
            ELSE IsMember(t, Values(t), gap[1] + 1, gap[2] - 1)
  <2> HIDE DEF commas
  <2> QED BY <1>2, <1>3, <1>5
<1>7. o < j
  OBVIOUS
<1>8. IsValue(t, Values(t), o, j)
  BY <1>6, <1>7, Zenon DEF IsValue
<1>9. Values(t)[<<o, j>>]
  BY <1>8, ValuesAre
<1> QED BY <1>7, <1>9 DEF ValueAt

(* A value is due at n + 1 in the container opened at o; the container is   *)
(* whole up to n, where an entry ends.                                      *)
Due(t, o, n) ==
    \E c \in o .. n :
       /\ Row(t, o, c)
       /\ IF t[o].kind = "[" THEN n = c
          ELSE /\ n = c + 2 /\ t[c + 1].kind = "str" /\ t[c + 1].fault = "none"
               /\ t[c + 2].kind = ":"

(* An entry of the container at o that ends at n. *)
Whole(t, o, n) == \E c \in o .. n - 1 : Row(t, o, c) /\ ItemAt(t, o, c + 1, n)

(* The value that was due ends an entry. *)
LEMMA DueTaken ==
    ASSUME NEW t, NEW o \in Nat, NEW n \in Nat, NEW j \in Nat, n < j, Due(t, o, n), ValueAt(t, n + 1, j)
    PROVE  Whole(t, o, j)
<1>1. PICK c \in o .. n :
         /\ Row(t, o, c)
         /\ IF t[o].kind = "[" THEN n = c
            ELSE /\ n = c + 2 /\ t[c + 1].kind = "str" /\ t[c + 1].fault = "none"
                 /\ t[c + 2].kind = ":"
  BY Zenon DEF Due
<1>2. c \in Nat /\ c \in o .. j - 1
  BY ONLY o \in Nat, n \in Nat, j \in Nat, n < j, c \in o .. n
<1>3. ItemAt(t, o, c + 1, j)
  <2>1. CASE t[o].kind = "["
    BY <1>1, <2>1 DEF ItemAt
  <2>2. CASE t[o].kind # "["
    <3>1. n + 1 = (c + 1) + 2 /\ (c + 1) + 1 = c + 2
      BY <1>1, <1>2, <2>2
    <3>2. ValueAt(t, (c + 1) + 2, j)
      BY <3>1
    <3>3. t[c + 1].kind = "str" /\ t[c + 1].fault = "none" /\ t[(c + 1) + 1].kind = ":"
      BY <1>1, <2>2, <3>1
    <3> QED BY <2>2, <3>2, <3>3, Zenon DEF ItemAt
  <2> QED BY <2>1, <2>2
<1> QED BY <1>1, <1>2, <1>3, Zenon DEF Whole

(* After an entry a comma begins the next one, *)
LEMMA WholeGoesOn ==
    ASSUME NEW t, NEW o \in Nat, NEW n \in Nat, Whole(t, o, n), t[n + 1].kind = ","
    PROVE  Row(t, o, n + 1)
<1>1. PICK c \in o .. n - 1 : Row(t, o, c) /\ ItemAt(t, o, c + 1, n)
  BY Zenon DEF Whole
<1>2. c \in Nat /\ o =< c /\ c < n + 1 /\ n + 1 \in Nat /\ (n + 1) - 1 = n
  BY ONLY o \in Nat, n \in Nat, c \in o .. n - 1
<1> DEFINE k == n + 1
<1>3. k \in Nat /\ c < k /\ k - 1 = n /\ t[k].kind = ","
  BY <1>2
<1>4. ItemAt(t, o, c + 1, k - 1)
  BY <1>1, <1>3
<1> HIDE DEF k
<1>5. Row(t, o, k)
  BY <1>1, <1>2, <1>3, <1>4, RowGrows
<1> QED BY <1>5 DEF k

(* and the bracket that fits makes the container a value. *)
LEMMA WholeCloses ==
    ASSUME NEW T, NEW t \in Seq(T), NEW o \in 1 .. Len(t), NEW n \in Nat, n + 1 \in 1 .. Len(t),
           Whole(t, o, n), Brackets(t, o, n + 1)
    PROVE  ValueAt(t, o, n + 1)
<1>0. o \in Nat
  OBVIOUS
<1>1. PICK c \in o .. n - 1 : Row(t, o, c) /\ ItemAt(t, o, c + 1, n)
  BY Zenon DEF Whole
<1>2. c \in Nat /\ o =< c /\ c < n + 1 /\ n + 1 \in Nat /\ (n + 1) - 1 = n
  BY ONLY <1>0, n \in Nat, c \in o .. n - 1
<1> DEFINE k == n + 1
<1>3. k \in 1 .. Len(t) /\ c < k /\ k - 1 = n /\ Brackets(t, o, k)
  BY <1>2
<1>4. ItemAt(t, o, c + 1, k - 1)
  BY <1>1, <1>3
<1> HIDE DEF k
<1>5. ValueAt(t, o, k)
  BY <1>1, <1>2, <1>3, <1>4, RowCloses
<1> QED BY <1>5 DEF k

-------------------------------------------------------------------------------
(* Open brackets and totals, one lexeme further. *)

(* The brackets open after n lexemes, from those open before the last.      *)
Turned(x, n, before) ==
    IF x.kind \in {"{", "["} THEN Append(before, n)
    ELSE IF x.kind \in {"}", "]"} /\ before # <<>> THEN Front(before)
    ELSE before

(* A sequence without its last element, and that element. *)
LEMMA FrontIs ==
    ASSUME NEW T, NEW s \in Seq(T), s # <<>>
    PROVE  /\ Front(s) \in Seq(T) /\ Len(Front(s)) = Len(s) - 1 /\ Len(s) \in Nat \ {0}
           /\ \A i \in 1 .. Len(s) - 1 : Front(s)[i] = s[i]
           /\ Last(s) = s[Len(s)] /\ Len(s) \in 1 .. Len(s) /\ Last(s) \in T
<1>1. Len(s) \in Nat \ {0} /\ Len(s) \in 1 .. Len(s) /\ s[Len(s)] \in T
  OBVIOUS
<1>2. Front(s) = SubSeq(s, 1, Len(s) - 1)
  BY DEF Front
<1>3. Last(s) = s[Len(s)]
  BY DEF Last
<1>4. /\ SubSeq(s, 1, Len(s) - 1) \in Seq(T) /\ Len(SubSeq(s, 1, Len(s) - 1)) = Len(s) - 1
      /\ \A i \in 1 .. Len(s) - 1 : SubSeq(s, 1, Len(s) - 1)[i] = s[i]
  <2> DEFINE n == Len(s) - 1
  <2>1. n \in Nat /\ n =< Len(s) /\ n - 1 + 1 = n
    BY <1>1
  <2> HIDE DEF n
  <2>2. \A i \in 1 .. n : s[i] \in T
    BY <2>1, <1>1
  <2>3. SubSeq(s, 1, n) = [i \in 1 .. n |-> s[i]]
    BY <2>1
  <2>4. /\ SubSeq(s, 1, n) \in Seq(T) /\ Len(SubSeq(s, 1, n)) = n
        /\ \A i \in 1 .. n : SubSeq(s, 1, n)[i] = s[i]
    BY <2>1, <2>2, <2>3
  <2> QED BY <2>4 DEF n
<1> QED BY <1>1, <1>2, <1>3, <1>4

(* Opened is what its definition says. *)
LEMMA OpenedIs ==
    ASSUME NEW T, NEW t \in Seq(T)
    PROVE  /\ Opened(t) \in [0 .. Len(t) -> Seq(Nat)] /\ Opened(t)[0] = <<>>
           /\ \A n \in 1 .. Len(t) : Opened(t)[n] = Turned(t[n], n, Opened(t)[n - 1])
<1> DEFINE L == Len(t)
           S == Seq(Nat)
           g == [q \in (1 .. L) \X S |-> Turned(t[q[1]], q[1], q[2])]
           Is(h) == h = [n \in 0 .. L |->
                            IF n = 0 THEN <<>>
                            ELSE LET before == h[n - 1] IN
                                 IF t[n].kind \in {"{", "["} THEN Append(before, n)
                                 ELSE IF t[n].kind \in {"}", "]"} /\ before # <<>> THEN Front(before)
                                 ELSE before]
<1>1. L \in Nat
  OBVIOUS
<1>2. <<>> \in S /\ g \in Nexts(L, S)
  <2>1. ASSUME NEW q \in (1 .. L) \X S PROVE Turned(t[q[1]], q[1], q[2]) \in S
    <3>1. q[1] \in Nat /\ q[2] \in Seq(Nat)
      BY <1>1
    <3>2. Append(q[2], q[1]) \in Seq(Nat)
      BY <3>1
    <3>3. q[2] # <<>> => Front(q[2]) \in Seq(Nat)
      BY <3>1, FrontIs
    <3> QED BY <3>1, <3>2, <3>3 DEF Turned
  <2> HIDE DEF S
  <2>2. g \in [(1 .. L) \X S -> S]
    BY <2>1
  <2> QED BY <2>2 DEF Nexts, S
<1>3. PICK h : Recursive(h, L, S, <<>>, g)
  <2> HIDE DEF g, S
  <2> QED BY <1>1, <1>2, Recursion
<1>4. /\ h \in [0 .. L -> S] /\ h[0] = <<>>
      /\ \A n \in 1 .. L : h[n] = g[<<n, h[n - 1]>>]
  <2> HIDE DEF g, S
  <2> QED BY <1>3 DEF Recursive
<1>5. ASSUME NEW n \in 1 .. L PROVE h[n] = Turned(t[n], n, h[n - 1])
  <2>1. n - 1 \in 0 .. L
    BY <1>1
  <2>2. <<n, h[n - 1]>> \in (1 .. L) \X S
    <3> HIDE DEF S
    <3> QED BY <1>4, <2>1
  <2>3. g[<<n, h[n - 1]>>] = Turned(t[n], n, h[n - 1])
    <3> HIDE DEF S
    <3> QED BY <2>2
  <2> QED BY <1>4, <2>3
<1>6. Is(h)
  <2>1. \A n \in 0 .. L : h[n] = IF n = 0 THEN <<>> ELSE Turned(t[n], n, h[n - 1])
    BY <1>1, <1>4, <1>5
  <2>2. h = [n \in 0 .. L |-> h[n]]
    BY <1>4
  <2> QED BY <2>1, <2>2, Zenon DEF Turned
<1>7. Opened(t) = CHOOSE v : Is(v)
  BY DEF Opened
<1>8. Is(Opened(t))
  <2>1. \E v : Is(v)
    BY <1>6
  <2> HIDE DEF Is
  <2> QED BY <1>7, <2>1
<1> DEFINE v == Opened(t)
<1>9. /\ DOMAIN v = 0 .. L
      /\ \A n \in 0 .. L : v[n] = IF n = 0 THEN <<>> ELSE Turned(t[n], n, v[n - 1])
  <2> HIDE DEF v
  <2>1. v = [n \in 0 .. L |-> IF n = 0 THEN <<>> ELSE Turned(t[n], n, v[n - 1])]
    BY <1>8, Zenon DEF Turned, v
  <2> DEFINE B(n) == IF n = 0 THEN <<>> ELSE Turned(t[n], n, v[n - 1])
  <2> HIDE DEF B
  <2>2. v = [n \in 0 .. L |-> B(n)]
    BY <2>1 DEF B
  <2>3. DOMAIN v = 0 .. L /\ \A n \in 0 .. L : v[n] = B(n)
    BY <2>2
  <2> QED BY <2>3 DEF B
<1>10. v[0] = <<>> /\ \A n \in 1 .. L : v[n] = Turned(t[n], n, v[n - 1])
  <2> HIDE DEF v
  <2> QED BY <1>1, <1>9
<1>11. \A n \in 0 .. L : v[n] = h[n]
  <2> DEFINE A == {n \in 0 .. L : v[n] = h[n]}
  <2> HIDE DEF v
  <2>1. 0 \in A
    BY <1>1, <1>4, <1>10
  <2>2. ASSUME NEW n \in 0 .. L - 1, n \in A PROVE n + 1 \in A
    <3>1. n + 1 \in 1 .. L /\ (n + 1) - 1 = n /\ n + 1 \in 0 .. L
      BY <1>1
    <3>2. v[n + 1] = Turned(t[n + 1], n + 1, v[n]) /\ h[n + 1] = Turned(t[n + 1], n + 1, h[n])
      BY <1>5, <1>10, <3>1
    <3> QED BY <2>2, <3>1, <3>2
  <2> HIDE DEF A
  <2>3. \A n \in 0 .. L : n \in A
    BY <1>1, <2>1, <2>2, Induction
  <2> QED BY <2>3 DEF A
<1>12. v \in [0 .. L -> Seq(Nat)]
  <2> HIDE DEF v
  <2>1. \A n \in 0 .. L : v[n] \in Seq(Nat)
    BY <1>4, <1>11
  <2>2. v = [n \in 0 .. L |-> v[n]]
    <3>1. v = [n \in 0 .. L |-> IF n = 0 THEN <<>> ELSE Turned(t[n], n, v[n - 1])]
      BY <1>8, Zenon DEF Turned, v
    <3> QED BY <3>1
  <2> QED BY <2>1, <2>2
<1> QED BY <1>10, <1>12

(* Texts that begin alike have the same brackets open there. *)
LEMMA OpenedAlike ==
    ASSUME NEW T, NEW t \in Seq(T), NEW U, NEW u \in Seq(U), Len(t) =< Len(u),
           \A k \in 1 .. Len(t) : u[k] = t[k]
    PROVE  \A n \in 0 .. Len(t) : Opened(u)[n] = Opened(t)[n]
<1> DEFINE A == {n \in 0 .. Len(t) : Opened(u)[n] = Opened(t)[n]}
<1>1. Len(t) \in Nat /\ Len(u) \in Nat
  OBVIOUS
<1>2. 0 \in A
  BY <1>1, OpenedIs
<1>3. ASSUME NEW n \in 0 .. Len(t) - 1, n \in A PROVE n + 1 \in A
  <2>1. n + 1 \in 1 .. Len(t) /\ n + 1 \in 1 .. Len(u) /\ (n + 1) - 1 = n /\ n + 1 \in 0 .. Len(t)
    BY <1>1
  <2>2. Opened(t)[n + 1] = Turned(t[n + 1], n + 1, Opened(t)[n])
    BY <2>1, OpenedIs
  <2>3. Opened(u)[n + 1] = Turned(u[n + 1], n + 1, Opened(u)[n])
    BY <2>1, OpenedIs
  <2>4. u[n + 1] = t[n + 1]
    BY <2>1
  <2> QED BY <1>3, <2>1, <2>2, <2>3, <2>4
<1> HIDE DEF A
<1>4. \A n \in 0 .. Len(t) : n \in A
  BY <1>1, <1>2, <1>3, Induction
<1> QED BY <1>4 DEF A

(* The brackets that are open, one lexeme further. *)
LEMMA OpenedFurther ==
    ASSUME NEW T, NEW t \in Seq(T), NEW x \in T
    PROVE  /\ \A n \in 0 .. Len(t) : Opened(Append(t, x))[n] = Opened(t)[n]
           /\ OpenAfter(Append(t, x)) = Turned(x, Len(t) + 1, OpenAfter(t))
           /\ OpenAfter(t) \in Seq(Nat)
           /\ Opened(Append(t, x))[Len(t) + 1] = OpenAfter(Append(t, x))
<1> DEFINE u == Append(t, x)
<1>1. /\ u \in Seq(T) /\ Len(t) \in Nat /\ Len(u) = Len(t) + 1
      /\ \A i \in 1 .. Len(t) : u[i] = t[i]
      /\ u[Len(t) + 1] = x
  BY FurtherIs
<1> HIDE DEF u
<1>2. \A n \in 0 .. Len(t) : Opened(u)[n] = Opened(t)[n]
  BY <1>1, OpenedAlike
<1>3. Len(t) + 1 \in 1 .. Len(u) /\ (Len(t) + 1) - 1 = Len(t) /\ Len(t) \in 0 .. Len(t)
  BY <1>1
<1>4. Opened(u)[Len(t) + 1] = Turned(u[Len(t) + 1], Len(t) + 1, Opened(u)[Len(t)])
  BY <1>1, <1>3, OpenedIs
<1>5. OpenAfter(u) = Opened(u)[Len(t) + 1] /\ OpenAfter(t) = Opened(t)[Len(t)]
  BY <1>1 DEF OpenAfter
<1>6. Opened(t)[Len(t)] \in Seq(Nat)
  BY <1>3, OpenedIs
<1>7. OpenAfter(u) = Turned(x, Len(t) + 1, OpenAfter(t))
  BY <1>1, <1>2, <1>3, <1>4, <1>5
<1> QED BY <1>2, <1>5, <1>6, <1>7 DEF u

(* Totals and concatenations over a sequence, one element further. *)
LEMMA TotalFurther ==
    ASSUME NEW T, NEW t \in Seq(T), NEW x \in T, NEW g \in [T -> Nat]
    PROVE  Total(Mapped(g, Append(t, x))) = Total(Mapped(g, t)) + g[x] /\ Total(Mapped(g, t)) \in Nat
<1> DEFINE f == Mapped(g, t)  h == Mapped(g, Append(t, x))
<1>1. f \in Seq(Nat) /\ h = Append(f, g[x])
  <2>1. f \in Seq(Nat) /\ MapsFurther(g, t, x)
    BY MappedFurther
  <2> QED BY <2>1 DEF MapsFurther
<1>a. g[x] \in Nat
  OBVIOUS
<1> HIDE DEF f, h
<1>2. Append(f, g[x]) = f \o <<g[x]>> /\ <<g[x]>> \in Seq(Nat)
  BY <1>1, <1>a, AppendIsConcat
<1>3. Total(h) = Total(f) + Total(<<g[x]>>)
  BY <1>1, <1>2, TotalJoins
<1>4. Total(<<g[x]>>) = g[x]
  BY <1>a, TotalOfFew
<1>5. Len(f) \in 0 .. Len(f)
  BY <1>1
<1>6. Total(f) \in Nat
  BY <1>1, <1>5, SumsAre DEF Total
<1> QED BY <1>3, <1>4, <1>6 DEF f, h

(* What the elements give together, one element further. *)
LEMMA FlattenFurther ==
    ASSUME NEW T, NEW t \in Seq(T), NEW x \in T, NEW P, NEW g \in [T -> Seq(P)]
    PROVE  /\ FlattenSeq(Mapped(g, Append(t, x))) = FlattenSeq(Mapped(g, t)) \o g[x]
           /\ FlattenSeq(Mapped(g, t)) \in Seq(P)
<1> DEFINE f == Mapped(g, t)  h == Mapped(g, Append(t, x))  S == Seq(P)
<1>1. f \in Seq(S) /\ h = Append(f, g[x]) /\ g[x] \in S
  <2> HIDE DEF S
  <2>1. g \in [T -> S]
    BY DEF S
  <2>2. f \in Seq(S) /\ MapsFurther(g, t, x)
    BY <2>1, MappedFurther
  <2>3. g[x] \in S
    BY <2>1
  <2> QED BY <2>2, <2>3 DEF MapsFurther
<1> HIDE DEF f, h
<1>2. FlattenSeq(Append(f, g[x])) = FlattenSeq(f) \o g[x] /\ FlattenSeq(f) \in Seq(P)
  BY <1>1, FlattenAppend, FlattenedIs
<1> QED BY <1>1, <1>2 DEF f, h

(* The totals and the value of a text, one lexeme further. *)
LEMMA TotalsFurther ==
    ASSUME NEW t \in Texts, NEW x \in Lexemes
    PROVE  /\ NodesOf(Append(t, x)) = NodesOf(t) + NodesIn(x) /\ NodesOf(t) \in Nat /\ NodesIn(x) \in Nat
           /\ BytesOf(Append(t, x)) = BytesOf(t) + BytesIn(x) /\ BytesOf(t) \in Nat /\ BytesIn(x) \in Nat
<1>1. ASSUME NEW y \in Lexemes PROVE NodesIn(y) \in Nat /\ BytesIn(y) \in Nat
  <2>1. y.kind \in {"str", "num", "literal"} => y.bytes \in Nat
    <3>1. y.kind = "str" => y.bytes \in Nat
      BY LexemeIs DEF Text
    <3> QED BY <3>1, LexemeIs
  <2>2. NodesIn(y) \in Nat
    BY DEF NodesIn
  <2> QED BY <2>1, <2>2 DEF BytesIn
<1> DEFINE g == [y \in Lexemes |-> NodesIn(y)]  h == [y \in Lexemes |-> BytesIn(y)]
           u == Append(t, x)
<1>2. t \in Seq(Lexemes) /\ u \in Seq(Lexemes)
  BY FurtherIs DEF Texts
<1>3. \A s \in Seq(Lexemes) : [i \in DOMAIN s |-> NodesIn(s[i])] = Mapped(g, s)
  BY DEF Mapped
<1>4. \A s \in Seq(Lexemes) : [i \in DOMAIN s |-> BytesIn(s[i])] = Mapped(h, s)
  BY DEF Mapped
<1>5. /\ g \in [Lexemes -> Nat] /\ h \in [Lexemes -> Nat]
      /\ g[x] = NodesIn(x) /\ h[x] = BytesIn(x)
  BY <1>1
<1> HIDE DEF g, h
<1>6. NodesOf(u) = NodesOf(t) + NodesIn(x) /\ NodesOf(t) \in Nat
  <2>1. /\ Total(Mapped(g, u)) = Total(Mapped(g, t)) + g[x]
        /\ Total(Mapped(g, t)) \in Nat
    BY <1>2, <1>5, TotalFurther
  <2> HIDE DEF u
  <2> QED BY <1>2, <1>3, <1>5, <2>1 DEF NodesOf
<1>7. BytesOf(u) = BytesOf(t) + BytesIn(x) /\ BytesOf(t) \in Nat
  <2>1. /\ Total(Mapped(h, u)) = Total(Mapped(h, t)) + h[x]
        /\ Total(Mapped(h, t)) \in Nat
    BY <1>2, <1>5, TotalFurther
  <2> HIDE DEF u
  <2> QED BY <1>2, <1>4, <1>5, <2>1 DEF BytesOf
<1> QED BY <1>1, <1>6, <1>7

(* The value that a text says, one lexeme further. *)
Pieces == Lexemes \cup [kind : {"dict", "list", "end"}]

(* The value that a text says: what DoneIsWritten asks for. *)
Says(t) == FlattenSeq([i \in DOMAIN t |-> Written(t[i])])

(* It grows by what the lexeme writes. *)
LEMMA SaysFurther ==
    ASSUME NEW t \in Texts, NEW x \in Lexemes
    PROVE  Says(Append(t, x)) = Says(t) \o Written(x) /\ Says(t) \in Seq(Pieces) /\ Written(x) \in Seq(Pieces)
<1>1. ASSUME NEW y \in Lexemes PROVE Written(y) \in Seq(Pieces)
  <2> DEFINE P == Pieces
  <2>1. y \in P /\ \A k \in {"dict", "list", "end"} : [kind |-> k] \in P
    BY DEF Pieces
  <2>2. \A p \in P : <<p>> \in Seq(P)
    OBVIOUS
  <2>3. <<>> \in Seq(P)
    OBVIOUS
  <2> HIDE DEF P
  <2>4. <<y>> \in Seq(P) /\ \A k \in {"dict", "list", "end"} : <<[kind |-> k]>> \in Seq(P)
    BY <2>1, <2>2
  <2>5. Written(y) \in Seq(P)
    BY <2>3, <2>4 DEF Written
  <2> QED BY <2>5 DEF P
<1> DEFINE g == [y \in Lexemes |-> Written(y)]  u == Append(t, x)
<1>2. t \in Seq(Lexemes) /\ u \in Seq(Lexemes)
  BY FurtherIs DEF Texts
<1>3. \A s \in Seq(Lexemes) : [i \in DOMAIN s |-> Written(s[i])] = Mapped(g, s)
  BY DEF Mapped
<1>4. g \in [Lexemes -> Seq(Pieces)] /\ g[x] = Written(x)
  BY <1>1
<1> HIDE DEF g
<1>5. Says(u) = Says(t) \o Written(x) /\ Says(t) \in Seq(Pieces)
  <2>1. /\ FlattenSeq(Mapped(g, u)) = FlattenSeq(Mapped(g, t)) \o g[x]
        /\ FlattenSeq(Mapped(g, t)) \in Seq(Pieces)
    BY <1>2, <1>4, FlattenFurther
  <2> HIDE DEF u
  <2> QED BY <1>2, <1>3, <1>4, <2>1 DEF Says
<1> QED BY <1>1, <1>5

-------------------------------------------------------------------------------
(* The places of a text: the automaton that the decoder is. *)

(* What is open was opened before, by a bracket, the inner after the outer. *)
Nested(t, n, o) ==
    /\ o \in Seq(Nat) /\ \A l \in 1 .. Len(o) : o[l] \in 1 .. n /\ t[o[l]].kind \in {"{", "["}
    /\ \A l \in 1 .. Len(o) - 1 : o[l] < o[l + 1]

(* A lexeme opens or closes the innermost only. *)
LEMMA NestedTurned ==
    ASSUME NEW T, NEW t \in Seq(T), NEW n \in 1 .. Len(t), NEW o, Nested(t, n - 1, o)
    PROVE  Nested(t, n, Turned(t[n], n, o))
<1>0. n \in Nat /\ o \in Seq(Nat) /\ Len(o) \in Nat
  <2>1. o \in Seq(Nat)
    BY DEF Nested
  <2>2. n \in Nat
    OBVIOUS
  <2> QED BY <2>1, <2>2
<1>1. ASSUME NEW l \in 1 .. Len(o) PROVE o[l] \in Nat /\ o[l] \in 1 .. n /\ o[l] < n /\ t[o[l]].kind \in {"{", "["}
  <2>1. o[l] \in 1 .. n - 1 /\ t[o[l]].kind \in {"{", "["}
    BY DEF Nested
  <2> DEFINE k == o[l]
  <2>2. k \in 1 .. n - 1
    BY <2>1
  <2> HIDE DEF k
  <2>3. k \in Nat /\ k \in 1 .. n /\ k < n
    BY ONLY <1>0, <2>2
  <2> QED BY <2>1, <2>3 DEF k
<1>2. \A l \in 1 .. Len(o) - 1 : o[l] < o[l + 1]
  BY DEF Nested
<1>3. CASE t[n].kind \in {"{", "["}
  <2> DEFINE p == Append(o, n)
  <2>1. /\ p \in Seq(Nat) /\ Len(p) = Len(o) + 1 /\ p[Len(o) + 1] = n
        /\ \A l \in 1 .. Len(o) : p[l] = o[l]
    BY <1>0
  <2> HIDE DEF p
  <2>2. ASSUME NEW l \in 1 .. Len(p) PROVE p[l] \in 1 .. n /\ t[p[l]].kind \in {"{", "["}
    <3>1. CASE l = Len(o) + 1
      <4>1. p[l] = n
        BY <2>1, <3>1
      <4>2. n \in 1 .. n
        OBVIOUS
      <4> QED BY <1>3, <4>1, <4>2, Zenon
    <3>2. CASE l # Len(o) + 1
      <4>1. l \in 1 .. Len(o)
        BY ONLY <1>0, <2>1, <3>2, l \in 1 .. Len(p)
      <4>2. p[l] = o[l]
        BY <2>1, <4>1
      <4>3. o[l] \in 1 .. n /\ t[o[l]].kind \in {"{", "["}
        BY <1>1, <4>1
      <4> QED BY <4>2, <4>3, Zenon
    <3> QED BY <3>1, <3>2
  <2>3. ASSUME NEW l \in 1 .. Len(p) - 1 PROVE p[l] < p[l + 1]
    <3>1. l \in 1 .. Len(o)
      BY <1>0, <2>1
    <3>2. CASE l = Len(o)
      <4>1. p[l] = o[l] /\ p[l + 1] = n
        BY <2>1, <3>1, <3>2
      <4> QED BY <1>1, <3>1, <4>1
    <3>3. CASE l # Len(o)
      <4>1. l \in 1 .. Len(o) - 1 /\ l + 1 \in 1 .. Len(o)
        BY <1>0, <3>1, <3>3
      <4> QED BY <1>2, <2>1, <3>1, <4>1
    <3> QED BY <3>2, <3>3
  <2>4. Nested(t, n, p)
    BY <2>1, <2>2, <2>3 DEF Nested
  <2> QED BY <1>3, <2>4 DEF Turned, p
<1>4. CASE t[n].kind \notin {"{", "["} /\ t[n].kind \in {"}", "]"} /\ o # <<>>
  <2> DEFINE p == Front(o)
  <2>1. p \in Seq(Nat) /\ Len(p) = Len(o) - 1 /\ \A l \in 1 .. Len(o) - 1 : p[l] = o[l]
    BY <1>0, <1>4, FrontIs
  <2> HIDE DEF p
  <2>2. ASSUME NEW l \in 1 .. Len(p) PROVE p[l] \in 1 .. n /\ t[p[l]].kind \in {"{", "["}
    <3>1. l \in 1 .. Len(o) /\ l \in 1 .. Len(o) - 1
      BY ONLY <1>0, <2>1, l \in 1 .. Len(p)
    <3>2. p[l] = o[l]
      BY <2>1, <3>1
    <3>3. o[l] \in 1 .. n /\ t[o[l]].kind \in {"{", "["}
      BY <1>1, <3>1
    <3> QED BY <3>2, <3>3
  <2>3. ASSUME NEW l \in 1 .. Len(p) - 1 PROVE p[l] < p[l + 1]
    <3>1. l \in 1 .. Len(o) - 1 /\ p[l] = o[l] /\ p[l + 1] = o[l + 1]
      BY SMTT(60), <1>0, <2>1
    <3> QED BY <1>2, <3>1
  <2>4. Nested(t, n, p)
    BY <2>1, <2>2, <2>3 DEF Nested
  <2> QED BY <1>4, <2>4 DEF Turned, p
<1>5. CASE t[n].kind \notin {"{", "["} /\ ~(t[n].kind \in {"}", "]"} /\ o # <<>>)
  <2>1. Nested(t, n, o)
    BY <1>0, <1>1, <1>2 DEF Nested
  <2> QED BY <1>5, <2>1 DEF Turned
<1> QED BY <1>3, <1>4, <1>5

(* So the open brackets of a text are always nested. *)
LEMMA OpenIsNested ==
    ASSUME NEW T, NEW t \in Seq(T)
    PROVE  \A n \in 0 .. Len(t) : Nested(t, n, Opened(t)[n])
<1> DEFINE A == {n \in 0 .. Len(t) : Nested(t, n, Opened(t)[n])}
<1>1. Len(t) \in Nat
  OBVIOUS
<1>2. 0 \in A
  <2>1. Opened(t)[0] = <<>>
    BY OpenedIs
  <2>2. Nested(t, 0, <<>>)
    BY DEF Nested
  <2> QED BY <1>1, <2>1, <2>2
<1>3. ASSUME NEW n \in 0 .. Len(t) - 1, n \in A PROVE n + 1 \in A
  <2>1. n + 1 \in 1 .. Len(t) /\ (n + 1) - 1 = n /\ n + 1 \in 0 .. Len(t)
    BY <1>1
  <2>2. Opened(t)[n + 1] = Turned(t[n + 1], n + 1, Opened(t)[n])
    BY <2>1, OpenedIs
  <2> DEFINE m == n + 1  o == Opened(t)[n]
  <2>3. m \in 1 .. Len(t) /\ Nested(t, m - 1, o)
    BY <1>3, <2>1
  <2> HIDE DEF m, o
  <2>4. Nested(t, m, Turned(t[m], m, o))
    BY <2>3, NestedTurned
  <2> QED BY <2>1, <2>2, <2>4 DEF m, o
<1> HIDE DEF A
<1>4. \A n \in 0 .. Len(t) : n \in A
  BY <1>1, <1>2, <1>3, Induction
<1> QED BY <1>4 DEF A

(* The places that a decoder goes through without a stack of its own: from  *)
(* one, with what is open, over a lexeme.                                   *)
Ats == {"value", "first value", "key", "first key", "colon", "next", "end", "failed"}

(* The innermost open bracket, *)
TopOf(t, o) == t[Last(o)].kind

(* and whether x closes it. *)
Shuts(t, o, where, x) ==
    /\ o # <<>>
    /\ IF TopOf(t, o) = "{" THEN x.kind = "}" /\ where \in {"first key", "next"}
       ELSE x.kind = "]" /\ where \in {"first value", "next"}

(* Where a text comes to with x: the place of the decoder, or "failed". *)
Moved(t, o, where, x) ==
    IF where \in {"value", "first value"} /\ IsScalar(x) THEN After(o)
    ELSE IF where \in {"value", "first value"} /\ x.kind = "{" THEN "first key"
    ELSE IF where \in {"value", "first value"} /\ x.kind = "[" THEN "first value"
    ELSE IF where \in {"key", "first key"} /\ x.kind = "str" /\ x.fault = "none" THEN "colon"
    ELSE IF where = "colon" /\ x.kind = ":" THEN "value"
    ELSE IF where = "next" /\ o # <<>> /\ x.kind = "," THEN IF TopOf(t, o) = "[" THEN "value" ELSE "key"
    ELSE IF Shuts(t, o, where, x) THEN After(Front(o))
    ELSE "failed"

(* The places that a text passes. *)
Goes(t, r) ==
    /\ r \in [0 .. Len(t) -> Ats] /\ r[0] = "value"
    /\ \A n \in 1 .. Len(t) : r[n] = Moved(t, Opened(t)[n - 1], r[n - 1], t[n])

(* They exist, and there is one at every length. *)
Sites(t) == CHOOSE r : Goes(t, r)

(* The places are those that Moved leads to. *)
LEMMA SitesAre ==
    ASSUME NEW T, NEW t \in Seq(T)
    PROVE  Goes(t, Sites(t))
<1> DEFINE L == Len(t)
           g == [q \in (1 .. L) \X Ats |-> Moved(t, Opened(t)[q[1] - 1], q[2], t[q[1]])]
<1>1. L \in Nat
  OBVIOUS
<1>2. "value" \in Ats /\ g \in Nexts(L, Ats)
  <2>1. ASSUME NEW q \in (1 .. L) \X Ats PROVE Moved(t, Opened(t)[q[1] - 1], q[2], t[q[1]]) \in Ats
    BY DEF Moved, After, Ats
  <2>2. g \in [(1 .. L) \X Ats -> Ats]
    BY <2>1
  <2> QED BY <2>2 DEF Nexts, Ats
<1>3. PICK h : Recursive(h, L, Ats, "value", g)
  <2> HIDE DEF g
  <2> QED BY <1>1, <1>2, Recursion
<1>4. /\ h \in [0 .. L -> Ats] /\ h[0] = "value"
      /\ \A n \in 1 .. L : h[n] = g[<<n, h[n - 1]>>]
  <2> HIDE DEF g
  <2> QED BY <1>3 DEF Recursive
<1>5. ASSUME NEW n \in 1 .. L PROVE h[n] = Moved(t, Opened(t)[n - 1], h[n - 1], t[n])
  <2>1. n - 1 \in 0 .. L
    BY <1>1
  <2>2. <<n, h[n - 1]>> \in (1 .. L) \X Ats
    BY <1>4, <2>1
  <2>3. g[<<n, h[n - 1]>>] = Moved(t, Opened(t)[n - 1], h[n - 1], t[n])
    BY <2>2
  <2> QED BY <1>4, <2>3
<1>6. Goes(t, h)
  BY <1>4, <1>5 DEF Goes
<1> QED BY <1>6 DEF Sites

(* Texts that begin alike go the same way. *)
LEMMA SitesAlike ==
    ASSUME NEW T, NEW t \in Seq(T), NEW U, NEW u \in Seq(U), Len(t) =< Len(u),
           \A k \in 1 .. Len(t) : u[k] = t[k]
    PROVE  \A n \in 0 .. Len(t) : Sites(u)[n] = Sites(t)[n]
<1> DEFINE A == {n \in 0 .. Len(t) : Sites(u)[n] = Sites(t)[n]}
<1>1. Len(t) \in Nat /\ Len(u) \in Nat
  OBVIOUS
<1>2. 0 \in A
  BY <1>1, SitesAre DEF Goes
<1>3. ASSUME NEW n \in 0 .. Len(t) - 1, n \in A PROVE n + 1 \in A
  <2>1. n + 1 \in 1 .. Len(t) /\ n + 1 \in 1 .. Len(u) /\ (n + 1) - 1 = n /\ n + 1 \in 0 .. Len(t)
    BY <1>1
  <2> DEFINE o == Opened(t)[n]  w == Sites(t)[n]  x == t[n + 1]
  <2>2. Sites(t)[n + 1] = Moved(t, o, w, x)
    BY <2>1, SitesAre DEF Goes
  <2>3. Opened(u)[n] = o /\ Sites(u)[n] = w /\ u[n + 1] = x
    BY <1>3, <2>1, OpenedAlike
  <2>4. Sites(u)[n + 1] = Moved(u, o, w, x)
    <3>1. Sites(u)[n + 1] = Moved(u, Opened(u)[n], Sites(u)[n], u[n + 1])
      BY <2>1, SitesAre DEF Goes
    <3> QED BY <2>3, <3>1
  <2>5. o # <<>> => TopOf(u, o) = TopOf(t, o)
    <3> SUFFICES ASSUME o # <<>> PROVE TopOf(u, o) = TopOf(t, o)
      OBVIOUS
    <3>1. Nested(t, n, o)
      BY <2>1, OpenIsNested
    <3>a. o \in Seq(Nat)
      BY <3>1 DEF Nested
    <3>2. Len(o) \in 1 .. Len(o) /\ Last(o) = o[Len(o)]
      <4> HIDE DEF o
      <4>1. Len(o) \in Nat \ {0} /\ Last(o) = o[Len(o)]
        BY <3>a, FrontIs
      <4> QED BY <4>1
    <3>3. Last(o) \in 1 .. n
      BY <3>1, <3>2 DEF Nested
    <3>4. Last(o) \in 1 .. Len(t)
      BY <1>1, <3>3
    <3> QED BY <3>4 DEF TopOf
  <2> HIDE DEF o, w, x
  <2>7. Moved(u, o, w, x) = Moved(t, o, w, x)
    BY <2>5 DEF Moved, Shuts
  <2> QED BY <2>1, <2>2, <2>4, <2>7
<1> HIDE DEF A
<1>4. \A n \in 0 .. Len(t) : n \in A
  BY <1>1, <1>2, <1>3, Induction
<1> QED BY <1>4 DEF A

(* The steps of a text, by lexeme: where it goes on and what is open then.  *)
LEMMA Moves ==
    ASSUME NEW T, NEW t \in Seq(T), NEW n \in 1 .. Len(t),
           NEW o, o = Opened(t)[n - 1], NEW w, w = Sites(t)[n - 1], NEW x, x = t[n]
    PROVE  /\ Sites(t)[n] = Moved(t, o, w, x) /\ Opened(t)[n] = Turned(x, n, o)
           /\ o \in Seq(Nat) /\ w \in Ats /\ Nested(t, n - 1, o) /\ x \in T
           /\ n \in Nat /\ n - 1 \in Nat /\ n - 1 < n /\ n - 1 \in 0 .. Len(t)
<1>1. n \in Nat /\ n - 1 \in Nat /\ n - 1 < n /\ n - 1 \in 0 .. Len(t) /\ x \in T
  OBVIOUS
<1>2. Sites(t)[n] = Moved(t, o, w, x) /\ w \in Ats
  BY <1>1, SitesAre DEF Goes
<1>3. Opened(t)[n] = Turned(x, n, o)
  BY OpenedIs
<1>4. Nested(t, n - 1, o)
  BY <1>1, OpenIsNested
<1>5. o \in Seq(Nat)
  BY <1>4 DEF Nested
<1> QED BY <1>1, <1>2, <1>3, <1>4, <1>5

(* One step of the places and of the brackets. *)
LEMMA Steps ==
    ASSUME NEW T, NEW t \in Seq(T), NEW n \in 1 .. Len(t)
    PROVE  /\ Sites(t)[n] = Moved(t, Opened(t)[n - 1], Sites(t)[n - 1], t[n])
           /\ Opened(t)[n] = Turned(t[n], n, Opened(t)[n - 1])
           /\ Opened(t)[n - 1] \in Seq(Nat)
<1> DEFINE o == Opened(t)[n - 1]  w == Sites(t)[n - 1]  x == t[n]
<1>1. o = Opened(t)[n - 1] /\ w = Sites(t)[n - 1] /\ x = t[n]
  OBVIOUS
<1> HIDE DEF o, w, x
<1>2. Sites(t)[n] = Moved(t, o, w, x) /\ Opened(t)[n] = Turned(x, n, o) /\ o \in Seq(Nat)
  BY <1>1, Moves
<1> QED BY <1>1, <1>2

(* What comes after a value that is in the containers o.                    *)
LEMMA Completed ==
    ASSUME NEW t, NEW o \in Seq(Nat), NEW m \in Nat, NEW n \in Nat, m < n, ValueAt(t, m + 1, n),
           IF o = <<>> THEN m = 0 ELSE Due(t, Last(o), m)
    PROVE  IF o = <<>> THEN ValueAt(t, 1, n) ELSE Whole(t, Last(o), n)
<1>1. CASE o = <<>>
  BY <1>1
<1>2. CASE o # <<>>
  <2>1. Last(o) \in Nat
    BY <1>2, FrontIs
  <2> DEFINE a == Last(o)
  <2>2. a \in Nat /\ Due(t, a, m)
    BY <1>2, <2>1
  <2> HIDE DEF a
  <2>3. Whole(t, a, n)
    BY <2>2, DueTaken
  <2> QED BY <1>2, <2>3 DEF a
<1> QED BY <1>1, <1>2

(* A text that has not failed, by where it is: every open container but the *)
(* innermost is due the next one, and the innermost is as far as its place  *)
(* says.                                                                    *)
Linked(t, o) ==
    /\ o # <<>> => o[1] = 1
    /\ \A l \in 1 .. Len(o) - 1 : Due(t, o[l], o[l + 1] - 1)

(* Where the decoder stands after t, when it has not failed. *)
Stands(t, n, o, w) ==
    /\ Linked(t, o)
    /\ w \in {"first value", "key", "first key", "colon", "next"} => o # <<>>
    /\ w = "value" => IF o = <<>> THEN n = 0 ELSE Due(t, Last(o), n)
    /\ w = "first value" => Last(o) = n /\ TopOf(t, o) = "["
    /\ w = "first key" => Last(o) = n /\ TopOf(t, o) = "{"
    /\ w = "key" => TopOf(t, o) = "{" /\ Row(t, Last(o), n)
    /\ w = "colon" => TopOf(t, o) = "{" /\ n >= 1 /\ Row(t, Last(o), n - 1) /\ t[n].kind = "str" /\ t[n].fault = "none"
    /\ w = "next" => Whole(t, Last(o), n)
    /\ w = "end" => o = <<>> /\ ValueAt(t, 1, n)

(* The meaning of a place is kept by every lexeme that does not fail. *)
LEMMA StandsMoves ==
    ASSUME NEW T, NEW t \in Seq(T), NEW n \in 1 .. Len(t), NEW o, NEW w \in Ats,
           Nested(t, n - 1, o), Stands(t, n - 1, o, w), Moved(t, o, w, t[n]) # "failed"
    PROVE  Stands(t, n, Turned(t[n], n, o), Moved(t, o, w, t[n]))
<1> DEFINE x == t[n]  m == n - 1
<1>0. n \in Nat /\ m \in Nat /\ m < n /\ n = m + 1 /\ Len(t) \in Nat
  OBVIOUS
<1>a. o \in Seq(Nat) /\ Len(o) \in Nat
  <2>1. o \in Seq(Nat)
    BY DEF Nested
  <2> QED BY <2>1
<1>b. Stands(t, m, o, w) /\ Nested(t, m, o)
  OBVIOUS
<1>c. o # <<>> => /\ Last(o) = o[Len(o)] /\ Len(o) \in Nat \ {0} /\ Last(o) \in Nat /\ Last(o) \in 1 .. m
                  /\ Len(Front(o)) = Len(o) - 1 /\ Front(o) \in Seq(Nat)
                  /\ \A l \in 1 .. Len(o) - 1 : Front(o)[l] = o[l]
  <2> SUFFICES ASSUME o # <<>>
               PROVE  /\ Last(o) = o[Len(o)] /\ Len(o) \in Nat \ {0} /\ Last(o) \in Nat /\ Last(o) \in 1 .. m
                      /\ Len(Front(o)) = Len(o) - 1 /\ Front(o) \in Seq(Nat)
                      /\ \A l \in 1 .. Len(o) - 1 : Front(o)[l] = o[l]
    OBVIOUS
  <2>1. /\ Last(o) = o[Len(o)] /\ Len(o) \in Nat \ {0}
        /\ Len(Front(o)) = Len(o) - 1 /\ Front(o) \in Seq(Nat)
        /\ \A l \in 1 .. Len(o) - 1 : Front(o)[l] = o[l]
    BY <1>a, FrontIs
  <2>2. Len(o) \in 1 .. Len(o)
    BY <2>1
  <2>3. o[Len(o)] \in 1 .. m /\ o[Len(o)] \in Nat
    <3> HIDE DEF m
    <3>1. o[Len(o)] \in 1 .. m
      BY <1>b, <2>2 DEF Nested
    <3>2. o[Len(o)] \in Nat
      BY <1>a, <2>2
    <3> QED BY <3>1, <3>2
  <2> QED BY <2>1, <2>3
<1>d. Linked(t, o)
  BY DEF Stands
<1>e. ASSUME w \in {"value", "first value"}
      PROVE  IF o = <<>> THEN m = 0 ELSE Due(t, Last(o), m)
  <2>1. CASE w = "value"
    BY <1>b, <2>1 DEF Stands
  <2>2. CASE w = "first value"
    <3>1. o # <<>> /\ Last(o) = m /\ TopOf(t, o) = "["
      BY <1>b, <2>2, Zenon DEF Stands
    <3>2. Row(t, m, m)
      BY <1>0, RowBegins
    <3>3. m \in m .. m
      BY <1>0
    <3>4. Due(t, m, m)
      BY <3>1, <3>2, <3>3 DEF Due, TopOf
    <3> QED BY <3>1, <3>4
  <2> QED BY <1>e, <2>1, <2>2
\* A value is complete, in the containers p.
<1>f. ASSUME NEW p \in Seq(Nat), NEW k \in Nat, k < n, ValueAt(t, k + 1, n), Linked(t, p),
             IF p = <<>> THEN k = 0 ELSE Due(t, Last(p), k)
      PROVE  Stands(t, n, p, After(p))
  <2>1. IF p = <<>> THEN ValueAt(t, 1, n) ELSE Whole(t, Last(p), n)
    BY <1>0, <1>f, Completed
  <2>2. CASE p = <<>>
    BY <1>f, <2>1, <2>2 DEF Stands, After
  <2>3. CASE p # <<>>
    BY <1>f, <2>1, <2>3 DEF Stands, After
  <2> QED BY <2>2, <2>3
<1>1. CASE w \in {"value", "first value"} /\ IsScalar(x)
  <2>1. ValueAt(t, m + 1, n)
    BY <1>0, <1>1, ScalarIsValue
  <2>2. Stands(t, n, o, After(o))
    BY <1>0, <1>1, <1>a, <1>d, <1>e, <1>f, <2>1
  <2>3. Turned(x, n, o) = o /\ Moved(t, o, w, x) = After(o)
    BY <1>1 DEF Turned, Moved, IsScalar
  <2> QED BY <2>2, <2>3
<1>2. CASE w \in {"value", "first value"} /\ x.kind \in {"{", "["}
  <2> DEFINE p == Append(o, n)
  <2>1. Turned(x, n, o) = p /\ Moved(t, o, w, x) = IF x.kind = "{" THEN "first key" ELSE "first value"
    <3>1. ~IsScalar(x)
      BY <1>2 DEF IsScalar
    <3> HIDE DEF x, m
    <3> QED BY <1>2, <3>1 DEF Turned, Moved
  <2>2. /\ p \in Seq(Nat) /\ p # <<>> /\ Len(p) = Len(o) + 1 /\ p[Len(o) + 1] = n
        /\ (\A l \in 1 .. Len(o) : p[l] = o[l]) /\ Last(p) = n
    BY <1>0, <1>a, FurtherIs
  <2> HIDE DEF p
  <2>3. Linked(t, p)
    <3>1. p[1] = 1
      <4>1. CASE o = <<>>
        <5>1. m = 0
          BY <1>2, <1>e, <4>1
        <5>2. Len(o) = 0 /\ p[1] = n
          BY <2>2, <4>1
        <5> QED BY <1>0, <5>1, <5>2
      <4>2. CASE o # <<>>
        <5>1. o[1] = 1 /\ 1 \in 1 .. Len(o)
          BY <1>a, <1>d, <4>2 DEF Linked
        <5> QED BY <2>2, <5>1
      <4> QED BY <4>1, <4>2
    <3>2. ASSUME NEW l \in 1 .. Len(p) - 1 PROVE Due(t, p[l], p[l + 1] - 1)
      <4>1. l \in 1 .. Len(o)
        BY <1>a, <2>2
      <4>2. CASE l = Len(o)
        <5>1. p[l] = o[l] /\ p[l + 1] = n /\ o # <<>> /\ o[l] = Last(o)
          BY <1>a, <1>c, <2>2, <4>1, <4>2
        <5> QED BY <1>2, <1>e, <5>1
      <4>3. CASE l # Len(o)
        <5>1. l + 1 \in 1 .. Len(o) /\ l \in 1 .. Len(o) - 1
          BY ONLY <1>a, <4>1, <4>3
        <5>2. p[l] = o[l] /\ p[l + 1] = o[l + 1]
          BY <2>2, <4>1, <5>1
        <5> QED BY <1>d, <5>1, <5>2 DEF Linked
      <4> QED BY <4>2, <4>3
    <3> QED BY <3>1, <3>2 DEF Linked
  <2>4. TopOf(t, p) = x.kind
    BY <2>2 DEF TopOf
  <2>5. Stands(t, n, p, Moved(t, o, w, x))
    <3> HIDE DEF x, m
    <3> QED BY <1>2, <2>1, <2>2, <2>3, <2>4, Zenon DEF Stands
  <2> QED BY <2>1, <2>5
<1>3. CASE w \in {"key", "first key"} /\ x.kind = "str" /\ x.fault = "none"
  <2>1. Turned(x, n, o) = o /\ Moved(t, o, w, x) = "colon"
    BY <1>3 DEF Turned, Moved
  <2>2. o # <<>> /\ TopOf(t, o) = "{" /\ Row(t, Last(o), m)
    <3>1. CASE w = "key"
      BY <1>b, <3>1, Zenon DEF Stands
    <3>2. CASE w = "first key"
      <4>1. o # <<>> /\ Last(o) = m /\ TopOf(t, o) = "{"
        BY <1>b, <3>2, Zenon DEF Stands
      <4> QED BY <1>0, <4>1, RowBegins
    <3> QED BY <1>3, <3>1, <3>2
  <2>3. n >= 1 /\ n - 1 = m /\ t[n].kind = "str" /\ t[n].fault = "none"
    <3>1. n >= 1
      BY ONLY n \in 1 .. Len(t), <1>0
    <3> QED BY <1>3, <3>1
  <2>4. Stands(t, n, o, "colon")
    <3> HIDE DEF x, m
    <3> QED BY <1>d, <2>2, <2>3, Zenon DEF Stands
  <2> QED BY <2>1, <2>4
<1>4. CASE w = "colon" /\ x.kind = ":"
  <2>1. Turned(x, n, o) = o /\ Moved(t, o, w, x) = "value"
    BY <1>4 DEF Turned, Moved
  <2> DEFINE a == Last(o)  c == m - 1
  <2>2. o # <<>> /\ TopOf(t, o) = "{" /\ m >= 1 /\ Row(t, a, c) /\ t[m].kind = "str" /\ t[m].fault = "none"
    BY <1>b, <1>4, Zenon DEF Stands
  <2>3. a \in Nat /\ t[a].kind = "{"
    BY <1>c, <2>2 DEF TopOf
  <2>4. c \in Nat /\ n = c + 2 /\ c + 1 = m
    <3>1. m >= 1
      BY <2>2
    <3> HIDE DEF m
    <3> QED BY <1>0, <3>1
  <2>5. c \in a .. c
    <3> HIDE DEF c
    <3> QED BY Zenon, <2>2 DEF Row
  <2>6. c \in a .. n
    <3>1. a \in Nat
      BY <2>3
    <3> HIDE DEF a, c, m
    <3> QED BY ONLY <1>0, <3>1, <2>4, <2>5
  <2>7. t[c + 1].kind = "str" /\ t[c + 1].fault = "none" /\ t[c + 2].kind = ":"
    BY <1>4, <2>2, <2>4
  <2>8. Due(t, a, n)
    <3> HIDE DEF a, c
    <3>1. \E k \in a .. n :
             /\ Row(t, a, k)
             /\ IF t[a].kind = "[" THEN n = k
                ELSE /\ n = k + 2 /\ t[k + 1].kind = "str" /\ t[k + 1].fault = "none"
                     /\ t[k + 2].kind = ":"
      BY <2>2, <2>3, <2>4, <2>6, <2>7
    <3> QED BY <3>1, Zenon DEF Due
  <2> QED BY <1>d, <2>1, <2>2, <2>8 DEF Stands
<1>5. CASE w = "next" /\ o # <<>> /\ x.kind = ","
  <2>1. Turned(x, n, o) = o /\ Moved(t, o, w, x) = IF TopOf(t, o) = "[" THEN "value" ELSE "key"
    BY <1>5 DEF Turned, Moved, IsScalar
  <2> DEFINE a == Last(o)
  <2>2. Whole(t, a, m) /\ a \in Nat /\ t[m + 1].kind = "," /\ a \in 1 .. m /\ t[a].kind = TopOf(t, o)
    BY <1>0, <1>b, <1>5, <1>c DEF Stands, TopOf
  <2>3. Row(t, a, n)
    <3> HIDE DEF a, m
    <3>1. Row(t, a, m + 1)
      BY <1>0, <2>2, WholeGoesOn
    <3> QED BY <1>0, <3>1
  <2>4. TopOf(t, o) \in {"{", "["}
    <3> HIDE DEF m, x
    <3>1. Len(o) \in 1 .. Len(o)
      BY <1>5, <1>a, FrontIs
    <3> QED BY <1>5, <1>b, <1>c, <3>1 DEF Nested, TopOf
  <2>5. CASE TopOf(t, o) = "["
    <3>1. n \in a .. n
      <4>1. a \in Nat /\ a \in 1 .. m
        BY <2>2
      <4> HIDE DEF a, m
      <4> QED BY ONLY <1>0, <4>1
    <3>2. Due(t, a, n)
      <4> HIDE DEF a
      <4> QED BY <2>2, <2>3, <2>5, <3>1 DEF Due
    <3> QED BY <1>5, <1>d, <2>1, <2>5, <3>2 DEF Stands
  <2>6. CASE TopOf(t, o) = "{"
    BY <1>5, <1>d, <2>1, <2>3, <2>6 DEF Stands
  <2> QED BY <2>4, <2>5, <2>6
<1>6. CASE Shuts(t, o, w, x)
  <2> DEFINE p == Front(o)  a == Last(o)  k == a - 1
  <2>0. o # <<>> /\ x.kind \in {"}", "]"} /\ w \in {"first key", "first value", "next"}
    BY <1>6 DEF Shuts
  <2>1. Turned(x, n, o) = p /\ Moved(t, o, w, x) = After(p)
    <3>1. ~IsScalar(x)
      BY <2>0 DEF IsScalar
    <3>2. Turned(x, n, o) = p
      BY <2>0 DEF Turned
    <3> HIDE DEF x, m, p
    <3>3. Moved(t, o, w, x) = After(p)
      BY <1>6, <2>0, <3>1 DEF Moved, p
    <3> QED BY <3>2, <3>3
  <2>2. /\ a = o[Len(o)] /\ Len(o) \in Nat \ {0} /\ a \in Nat /\ a \in 1 .. m /\ k \in Nat
        /\ Len(p) = Len(o) - 1 /\ p \in Seq(Nat)
        /\ \A l \in 1 .. Len(o) - 1 : p[l] = o[l]
    <3>1. /\ a = o[Len(o)] /\ Len(o) \in Nat \ {0} /\ a \in Nat /\ a \in 1 .. m
          /\ Len(p) = Len(o) - 1 /\ p \in Seq(Nat)
          /\ \A l \in 1 .. Len(o) - 1 : p[l] = o[l]
      BY <1>c, <2>0
    <3>2. k \in Nat
      <4> HIDE DEF a, m
      <4> QED BY <1>0, <3>1 DEF k
    <3> QED BY <3>1, <3>2
  <2>3. Linked(t, p)
    <3> HIDE DEF p, a, k, m, x
    <3>1. p # <<>> => p[1] = 1
      <4>1. p # <<>> => Len(p) >= 1
        BY <2>2
      <4>2. p # <<>> => 1 \in 1 .. Len(o) - 1
        BY <2>2, <4>1
      <4> QED BY <1>d, <2>0, <2>2, <4>2 DEF Linked
    <3>2. ASSUME NEW l \in 1 .. Len(p) - 1 PROVE Due(t, p[l], p[l + 1] - 1)
      <4>1. l \in 1 .. Len(o) - 1 /\ l + 1 \in 1 .. Len(o) - 1
        BY ONLY <2>2, l \in 1 .. Len(p) - 1
      <4>2. p[l] = o[l] /\ p[l + 1] = o[l + 1]
        BY <2>2, <4>1
      <4> QED BY <1>d, <4>1, <4>2 DEF Linked
    <3> QED BY <3>1, <3>2 DEF Linked
  <2>4. IF p = <<>> THEN k = 0 ELSE Due(t, Last(p), k)
    <3>1. CASE p = <<>>
      <4>1. Len(o) = 1
        BY <2>2, <3>1
      <4> QED BY <1>d, <2>0, <2>2, <3>1, <4>1 DEF Linked
    <3>2. CASE p # <<>>
      <4> DEFINE l == Len(o) - 1
      <4>0. Len(p) \in Nat \ {0} /\ Last(p) = p[Len(p)]
        <5> HIDE DEF p, a, k, m, x
        <5> QED BY <2>2, <3>2, FrontIs
      <4>1. l \in 1 .. Len(o) - 1 /\ l + 1 = Len(o) /\ Len(p) = l
        BY <2>2, <4>0
      <4>2. Last(p) = o[l]
        BY <2>2, <4>0, <4>1
      <4>3. Due(t, o[l], o[l + 1] - 1)
        <5> HIDE DEF l
        <5> QED BY <1>d, <4>1 DEF Linked
      <4> QED BY <2>2, <3>2, <4>1, <4>2, <4>3
    <3> QED BY <3>1, <3>2
  <2>5. Brackets(t, a, n)
    <3>1. CASE TopOf(t, o) = "{"
      BY <1>6, <3>1 DEF Shuts, Brackets, TopOf
    <3>2. CASE TopOf(t, o) # "{"
      <4>1. Len(o) \in 1 .. Len(o)
        BY <2>2
      <4>2. TopOf(t, o) \in {"{", "["}
        BY <1>b, <2>2, <4>1 DEF Nested, TopOf
      <4> QED BY <1>6, <3>2, <4>2 DEF Shuts, Brackets, TopOf
    <3> QED BY <3>1, <3>2
  <2>6. a \in 1 .. Len(t) /\ m + 1 \in 1 .. Len(t) /\ k + 1 = a /\ k < n
    <3> HIDE DEF a, m
    <3> QED BY ONLY <1>0, <2>2, n \in 1 .. Len(t) DEF k
  <2>7. ValueAt(t, a, n)
    <3>1. CASE w = "next"
      <4>1. Whole(t, a, m)
        BY <1>b, <3>1 DEF Stands
      <4> HIDE DEF a, m
      <4>2. Brackets(t, a, m + 1)
        BY <1>0, <2>5
      <4>3. ValueAt(t, a, m + 1)
        BY <1>0, <2>6, <4>1, <4>2, WholeCloses
      <4> QED BY <1>0, <4>3
    <3>2. CASE w # "next"
      <4>1. a = m
        BY <1>b, <2>0, <3>2 DEF Stands
      <4> HIDE DEF a, m
      <4>2. a + 1 = n /\ a + 1 \in 1 .. Len(t)
        BY <1>0, <2>6, <4>1
      <4> QED BY <2>5, <2>6, <4>2, EmptyIsValue
    <3> QED BY <3>1, <3>2
  <2>8. ValueAt(t, k + 1, n)
    BY <2>6, <2>7
  <2>9. Stands(t, n, p, After(p))
    <3> HIDE DEF p, a, k, m, x
    <3> QED BY <1>f, <2>2, <2>3, <2>4, <2>6, <2>8
  <2> QED BY <2>1, <2>9
<1> QED
  <2> HIDE DEF x, m
  <2>1. Moved(t, o, w, x) # "failed"
    BY DEF x
  <2>2. \/ w \in {"value", "first value"} /\ IsScalar(x)
        \/ w \in {"value", "first value"} /\ x.kind \in {"{", "["}
        \/ w \in {"key", "first key"} /\ x.kind = "str" /\ x.fault = "none"
        \/ w = "colon" /\ x.kind = ":"
        \/ w = "next" /\ o # <<>> /\ x.kind = ","
        \/ Shuts(t, o, w, x)
    BY <2>1 DEF Moved
  <2> QED BY <1>1, <1>2, <1>3, <1>4, <1>5, <1>6, <2>2 DEF x

-------------------------------------------------------------------------------
(* A text is well-formed exactly when its place is the end. *)

(* A text stands as its places say, as long as it has not failed.           *)
LEMMA TextStands ==
    ASSUME NEW T, NEW t \in Seq(T)
    PROVE  \A n \in 0 .. Len(t) : Sites(t)[n] # "failed" => Stands(t, n, Opened(t)[n], Sites(t)[n])
<1> DEFINE A == {n \in 0 .. Len(t) : Sites(t)[n] # "failed" => Stands(t, n, Opened(t)[n], Sites(t)[n])}
<1>1. Len(t) \in Nat
  OBVIOUS
<1>2. 0 \in A
  <2>1. Sites(t)[0] = "value" /\ Opened(t)[0] = <<>>
    BY SitesAre, OpenedIs DEF Goes
  <2>2. Stands(t, 0, <<>>, "value")
    BY DEF Stands, Linked
  <2> QED BY <1>1, <2>1, <2>2
<1>3. ASSUME NEW k \in 0 .. Len(t) - 1, k \in A PROVE k + 1 \in A
  <2>1. k + 1 \in 1 .. Len(t) /\ (k + 1) - 1 = k /\ k + 1 \in 0 .. Len(t)
    BY <1>1
  <2> DEFINE n == k + 1  o == Opened(t)[n - 1]  w == Sites(t)[n - 1]  x == t[n]
  <2>2. n \in 1 .. Len(t) /\ o = Opened(t)[n - 1] /\ w = Sites(t)[n - 1] /\ x = t[n] /\ n - 1 = k
    BY <2>1
  <2> HIDE DEF n, o, w, x
  <2>3. /\ Sites(t)[n] = Moved(t, o, w, x) /\ Opened(t)[n] = Turned(x, n, o)
        /\ w \in Ats /\ Nested(t, n - 1, o)
    BY <2>2, Moves
  <2>4. ASSUME Sites(t)[n] # "failed" PROVE Stands(t, n, Opened(t)[n], Sites(t)[n])
    <3>1. w # "failed"
      BY <2>3, <2>4 DEF Moved, Shuts
    <3>2. Stands(t, n - 1, o, w)
      BY <1>3, <2>2, <3>1
    <3>3. Moved(t, o, w, t[n]) # "failed"
      BY <2>2, <2>3, <2>4
    <3>4. Stands(t, n, Turned(t[n], n, o), Moved(t, o, w, t[n]))
      BY <2>2, <2>3, <3>2, <3>3, StandsMoves
    <3> QED BY <2>2, <2>3, <3>4
  <2> QED BY <2>1, <2>4 DEF n
<1> HIDE DEF A
<1>4. \A n \in 0 .. Len(t) : n \in A
  BY <1>1, <1>2, <1>3, Induction
<1> QED BY <1>4 DEF A

(* The separator before one. *)
LEMMA GapBefore ==
    ASSUME NEW i \in Nat, NEW j \in Nat, NEW S \in SUBSET (i .. j), i \in S, NEW c \in S, i # c
    PROVE  \E b \in S : <<b, c>> \in Gaps(S) /\ b < c
<1> DEFINE D == {d \in Nat : d > 0 /\ c - d \in S}
<1>0. ASSUME NEW k \in S PROVE k \in Nat /\ i =< k /\ k =< j
  <2>1. k \in i .. j
    OBVIOUS
  <2> QED BY <2>1
<1>1. c - i \in D
  <2>1. c \in Nat /\ i =< c
    BY <1>0
  <2>2. c - i \in Nat /\ c - i > 0 /\ c - (c - i) = i
    BY <2>1
  <2> QED BY <2>2
<1>2. PICK d \in D : \A e \in D : d =< e
  <2>1. D \in SUBSET Nat /\ D # {}
    BY <1>1
  <2> HIDE DEF D
  <2> QED BY <2>1, LeastNatural
<1> DEFINE b == c - d
<1>3. b \in S /\ c \in Nat /\ d \in Nat /\ d > 0
  BY <1>0
<1>4. b < c /\ b \in Nat
  BY <1>0, <1>3
<1>5. ASSUME NEW k \in S PROVE k =< b \/ k >= c
  <2>1. CASE k < c
    <3>1. k \in Nat /\ c - k \in Nat /\ c - k > 0 /\ c - (c - k) = k
      BY <1>0, <1>3, <2>1
    <3>2. c - k \in D
      BY <3>1
    <3>3. d =< c - k
      BY <1>2, <3>2
    <3> QED BY <1>3, <3>1, <3>3
  <2>2. CASE k >= c
    BY <2>2
  <2> QED BY <1>0, <1>3, <2>1, <2>2
<1> HIDE DEF b
<1>6. <<b, c>> \in Gaps(S)
  BY <1>3, <1>4, <1>5 DEF Gaps
<1> QED BY <1>3, <1>4, <1>6

(* A value is gone through, from where one may stand to what comes after.   *)
Runs(t, a, b) ==
    Sites(t)[a - 1] \in {"value", "first value"} =>
        Sites(t)[b] = After(Opened(t)[a - 1]) /\ Opened(t)[b] = Opened(t)[a - 1]

(* So is an item or a member, to the end or the comma after it, when the    *)
(* values within the container are.                                         *)
RunsWithin(t, i, c) == \A k, l \in 1 .. Len(t) : i < k /\ l < c /\ ValueAt(t, k, l) => Runs(t, k, l)

(* Within the brackets at i, up to the separator c, the next of them is b. *)
Inside(t, i, b, c) ==
    IF t[i].kind = "[" THEN IsItem(Values(t), b + 1, c - 1)
    ELSE IsMember(t, Values(t), b + 1, c - 1)

(* At b the container opened at i takes an item or a member. *)
Ready(t, i, b) ==
    Sites(t)[b] \in IF t[i].kind = "[" THEN {"value", "first value"} ELSE {"key", "first key"}

(* An item, or a member, leads to where the container goes on. *)
LEMMA ItemRuns ==
    ASSUME NEW T, NEW t \in Seq(T), NEW i \in 1 .. Len(t), NEW b \in Nat, NEW c \in 1 .. Len(t), i =< b, b < c,
           NEW p \in Seq(Nat), p # <<>>, Opened(t)[b] = p,
           RunsWithin(t, i, c), Inside(t, i, b, c), Ready(t, i, b)
    PROVE  Sites(t)[c - 1] = "next" /\ Opened(t)[c - 1] = p
<1>0. Len(t) \in Nat /\ c \in Nat /\ i \in Nat /\ c - 1 \in Nat
  BY ONLY t \in Seq(T), c \in 1 .. Len(t), i \in 1 .. Len(t)
<1>1. CASE t[i].kind = "["
  <2>1. b + 1 =< c - 1 /\ Values(t)[<<b + 1, c - 1>>]
    BY <1>1 DEF Inside, IsItem
  <2>2. b + 1 \in 1 .. Len(t) /\ c - 1 \in 1 .. Len(t) /\ (b + 1) - 1 = b /\ i < b + 1 /\ c - 1 < c
    BY ONLY <1>0, <2>1, c \in 1 .. Len(t), b \in Nat, i =< b, b < c
  <2>3. ValueAt(t, b + 1, c - 1)
    BY <2>1, <2>2 DEF ValueAt
  <2>4. Runs(t, b + 1, c - 1)
    BY <2>2, <2>3 DEF RunsWithin
  <2>5. Sites(t)[c - 1] = After(p) /\ Opened(t)[c - 1] = p
    BY <1>1, <2>2, <2>4 DEF Runs, Ready
  <2> QED BY <2>5 DEF After
<1>2. CASE t[i].kind # "["
  <2> DEFINE k == b + 1  l == b + 2  m == b + 3  d == c - 1
  <2>1. /\ m =< d /\ t[k].kind = "str" /\ t[k].fault = "none" /\ t[l].kind = ":"
        /\ Values(t)[<<m, d>>]
    <3>1. (b + 1) + 2 = m /\ (b + 1) + 1 = l
      BY ONLY b \in Nat
    <3>2. IsMember(t, Values(t), b + 1, d)
      BY <1>2 DEF Inside
    <3> HIDE DEF m, l, d
    <3> QED BY <3>1, <3>2 DEF IsMember
  <2>2. /\ k \in 1 .. Len(t) /\ l \in 1 .. Len(t) /\ m \in 1 .. Len(t) /\ d \in 1 .. Len(t)
        /\ k - 1 = b /\ l - 1 = k /\ m - 1 = l /\ i < m /\ d < c
    <3>1. m =< d
      BY <2>1
    <3> QED BY ONLY <1>0, <3>1, c \in 1 .. Len(t), b \in Nat, i =< b, b < c
  <2>3. Sites(t)[b] \in {"key", "first key"}
    BY <1>2 DEF Ready
  <2> HIDE DEF k, l, m, d
  <2>4. Sites(t)[k] = "colon" /\ Opened(t)[k] = p
    <3>1. Sites(t)[k] = Moved(t, p, Sites(t)[b], t[k]) /\ Opened(t)[k] = Turned(t[k], k, p)
      BY ONLY t \in Seq(T), <2>2, Steps, Opened(t)[b] = p
    <3> QED BY <2>1, <2>3, <3>1 DEF Moved, Turned
  <2>5. Sites(t)[l] = "value" /\ Opened(t)[l] = p
    <3>1. Sites(t)[l] = Moved(t, p, "colon", t[l]) /\ Opened(t)[l] = Turned(t[l], l, p)
      BY ONLY t \in Seq(T), <2>2, <2>4, Steps
    <3> QED BY <2>1, <3>1 DEF Moved, Turned
  <2>6. ValueAt(t, m, d)
    BY <2>1, <2>2 DEF ValueAt
  <2>7. Runs(t, m, d)
    BY <2>2, <2>6 DEF RunsWithin
  <2>8. Sites(t)[d] = After(p) /\ Opened(t)[d] = p
    BY <2>2, <2>5, <2>7 DEF Runs
  <2> QED BY <2>8 DEF After, d
<1> QED BY <1>1, <1>2

(* What is between brackets leads to where the bracket may close. *)
LEMMA ContainerRuns ==
    ASSUME NEW T, NEW t \in Seq(T), NEW i \in 1 .. Len(t), NEW j \in 1 .. Len(t), i < j,
           RunsWithin(t, i, j),
           IsValue(t, Values(t), i, j), Sites(t)[i - 1] \in {"value", "first value"}
    PROVE  Sites(t)[j] = After(Opened(t)[i - 1]) /\ Opened(t)[j] = Opened(t)[i - 1]
<1> DEFINE o == Opened(t)[i - 1]
           p == Append(o, i)
           R(c) == Opened(t)[c] = p /\ Ready(t, i, c)
<1>0. i \in Nat /\ j \in Nat /\ Len(t) \in Nat /\ j - 1 \in Nat /\ i # j
  BY ONLY t \in Seq(T), i \in 1 .. Len(t), j \in 1 .. Len(t), i < j
<1>1. /\ Brackets(t, i, j)
      /\ \/ j = i + 1
         \/ \E commas \in SUBSET Commas(t, i, j) :
               \A gap \in Gaps(commas \cup {i, j}) :
                  IF t[i].kind = "[" THEN IsItem(Values(t), gap[1] + 1, gap[2] - 1)
                  ELSE IsMember(t, Values(t), gap[1] + 1, gap[2] - 1)
  BY <1>0, Zenon DEF IsValue
<1>2. /\ o \in Seq(Nat) /\ p \in Seq(Nat) /\ p # <<>> /\ Last(p) = i /\ Front(p) = o
      /\ Opened(t)[i] = p /\ Sites(t)[i] = IF t[i].kind = "{" THEN "first key" ELSE "first value"
  <2>1. /\ Sites(t)[i] = Moved(t, o, Sites(t)[i - 1], t[i]) /\ Opened(t)[i] = Turned(t[i], i, o)
        /\ o \in Seq(Nat)
    BY ONLY t \in Seq(T), i \in 1 .. Len(t), Steps
  <2>2. p \in Seq(Nat) /\ p # <<>> /\ Last(p) = i /\ Front(p) = o
    <3>1. o \in Seq(Nat) /\ i \in Nat
      BY <1>0, <2>1
    <3> HIDE DEF o
    <3>2. Append(o, i) \in Seq(Nat) /\ Append(o, i) # <<>>
      BY ONLY <3>1, FurtherIs
    <3>3. Last(Append(o, i)) = i
      BY ONLY <3>1, FurtherIs
    <3>4. Front(Append(o, i)) = o
      BY ONLY <3>1, FurtherIs
    <3> QED BY <3>2, <3>3, <3>4
  <2>3. t[i].kind \in {"{", "["} /\ ~IsScalar(t[i])
    BY <1>1 DEF Brackets, IsScalar
  <2> HIDE DEF o
  <2>4. Opened(t)[i] = p
    BY <2>1, <2>3 DEF Turned
  <2>5. Sites(t)[i] = IF t[i].kind = "{" THEN "first key" ELSE "first value"
    BY <2>1, <2>3 DEF Moved
  <2> QED BY <2>1, <2>2, <2>4, <2>5
<1>3. R(i)
  <2>1. t[i].kind \in {"{", "["}
    BY <1>1 DEF Brackets
  <2> QED BY <1>2, <2>1 DEF Ready
\* The end, from where it may be.
<1>4. ASSUME Opened(t)[j - 1] = p, Sites(t)[j - 1] \in {Sites(t)[i], "next"}
      PROVE  Sites(t)[j] = After(o) /\ Opened(t)[j] = o
  <2>1. Sites(t)[j] = Moved(t, p, Sites(t)[j - 1], t[j]) /\ Opened(t)[j] = Turned(t[j], j, p)
    <3> HIDE DEF p
    <3> QED BY ONLY t \in Seq(T), j \in 1 .. Len(t), <1>4, Steps
  <2> HIDE DEF p, o
  <2>2. TopOf(t, p) = t[i].kind
    BY <1>2 DEF TopOf
  <2>3. CASE t[i].kind = "{"
    <3>1. t[j].kind = "}" /\ Sites(t)[j - 1] \in {"first key", "next"}
      BY <1>1, <1>2, <1>4, <2>3 DEF Brackets
    <3>2. Shuts(t, p, Sites(t)[j - 1], t[j])
      BY <1>2, <2>2, <2>3, <3>1 DEF Shuts
    <3>3. Sites(t)[j] = After(Front(p)) /\ Opened(t)[j] = Front(p)
      BY <1>2, <2>1, <3>1, <3>2 DEF Moved, Turned, IsScalar
    <3> QED BY <1>2, <3>3
  <2>4. CASE t[i].kind # "{"
    <3>1. t[j].kind = "]" /\ Sites(t)[j - 1] \in {"first value", "next"}
      BY <1>1, <1>2, <1>4, <2>4 DEF Brackets
    <3>2. Shuts(t, p, Sites(t)[j - 1], t[j])
      BY <1>2, <2>2, <2>4, <3>1 DEF Shuts
    <3>3. Sites(t)[j] = After(Front(p)) /\ Opened(t)[j] = Front(p)
      BY <1>2, <2>1, <3>1, <3>2 DEF Moved, Turned, IsScalar
    <3> QED BY <1>2, <3>3
  <2> QED BY <2>3, <2>4
<1>5. CASE j = i + 1
  <2>1. j - 1 = i
    BY ONLY <1>0, <1>5
  <2> HIDE DEF o, p
  <2> QED BY <1>2, <1>4, <2>1 DEF o
<1>6. CASE j # i + 1
  <2>1. PICK commas \in SUBSET Commas(t, i, j) :
           \A gap \in Gaps(commas \cup {i, j}) :
              IF t[i].kind = "[" THEN IsItem(Values(t), gap[1] + 1, gap[2] - 1)
              ELSE IsMember(t, Values(t), gap[1] + 1, gap[2] - 1)
    BY <1>1, <1>6, Zenon
  <2> DEFINE S == commas \cup {i, j}
  <2>2. ASSUME NEW c \in commas PROVE c \in Nat /\ i < c /\ c < j /\ t[c].kind = "," /\ c \in 1 .. Len(t) /\ c \in i .. j
    <3>1. c \in i + 1 .. j - 1
      BY ONLY commas \in SUBSET Commas(t, i, j), c \in commas DEF Commas
    <3>a. t[c].kind = ","
      BY ONLY commas \in SUBSET Commas(t, i, j), c \in commas DEF Commas
    <3>2. c \in Nat /\ i < c /\ c < j /\ c \in 1 .. Len(t) /\ c \in i .. j
      BY ONLY <1>0, <3>1, i \in 1 .. Len(t), j \in 1 .. Len(t)
    <3> QED BY <3>a, <3>2
  <2>3. S \in SUBSET (i .. j) /\ i \in S /\ j \in S
    <3>1. i \in i .. j /\ j \in i .. j
      BY ONLY <1>0, i < j
    <3> QED BY <2>2, <3>1
  <2>4. ASSUME NEW b \in S, NEW c \in S, <<b, c>> \in Gaps(S), b < c, R(b), c \in 1 .. Len(t), b \in Nat, i =< b
        PROVE  Sites(t)[c - 1] = "next" /\ Opened(t)[c - 1] = p
    <3>1. Inside(t, i, b, c)
      <4>1. <<b, c>>[1] = b /\ <<b, c>>[2] = c
        OBVIOUS
      <4> HIDE DEF R
      <4> QED BY <2>1, <2>4, <4>1 DEF Inside
    <3>2. c \in Nat /\ c =< j
      <4>1. c \in commas \/ c = i \/ c = j
        OBVIOUS
      <4>2. c \in commas => c \in Nat /\ c < j
        BY <2>2
      <4> HIDE DEF S
      <4> QED BY ONLY <1>0, <4>1, <4>2, i < j
    <3>3. RunsWithin(t, i, c)
      <4> SUFFICES ASSUME NEW k \in 1 .. Len(t), NEW l \in 1 .. Len(t), i < k, l < c, ValueAt(t, k, l)
                   PROVE  Runs(t, k, l)
        BY DEF RunsWithin
      <4>1. l < j
        BY ONLY l \in 1 .. Len(t), l < c, <3>2, <1>0
      <4> QED BY <4>1 DEF RunsWithin
    <3>4. p \in Seq(Nat) /\ p # <<>> /\ Opened(t)[b] = p /\ Ready(t, i, b)
      BY <1>2, <2>4
    <3> HIDE DEF p, S, R
    <3> QED BY ONLY t \in Seq(T), i \in 1 .. Len(t), <2>4, <3>1, <3>3, <3>4, ItemRuns
  <2>5. ASSUME NEW c \in S, c # j PROVE R(c)
    <3> SUFFICES ASSUME ~R(c) PROVE FALSE
      OBVIOUS
    <3> DEFINE B == {k \in S : k # j /\ ~R(k)}
    <3> HIDE DEF R, p, o
    <3>1. c \in B /\ B \in SUBSET Nat
      <4>1. \A k \in B : k \in Nat
        BY <1>0, <2>2
      <4> QED BY <2>5, <4>1
    <3>2. PICK e \in B : \A f \in B : e =< f
      <4> HIDE DEF B
      <4> QED BY <3>1, LeastNatural
    <3>3. e \in S /\ e # j /\ ~R(e) /\ e # i /\ e \in commas
      BY <1>3, <3>2
    <3>4. PICK b \in S : <<b, e>> \in Gaps(S) /\ b < e
      <4> HIDE DEF S
      <4> QED BY <1>0, <2>3, <3>3, GapBefore
    <3>5. e \in Nat /\ i < e /\ e < j /\ t[e].kind = "," /\ e \in 1 .. Len(t)
      BY <2>2, <3>3
    <3>6. b \in Nat /\ i =< b /\ b # j
      <4>1. b \in i .. j
        BY <2>3
      <4>2. b < e /\ e \in Nat /\ e < j
        BY <3>4, <3>5
      <4> HIDE DEF S
      <4> QED BY ONLY <1>0, <4>1, <4>2
    <3>7. R(b)
      <4>1. b \notin B
        <5>1. ~(e =< b)
          <6>1. b < e /\ e \in Nat /\ b \in Nat
            BY <3>4, <3>5, <3>6
          <6> QED BY ONLY <6>1
        <5> HIDE DEF B
        <5> QED BY ONLY <3>2, <5>1
      <4> QED BY <3>6, <4>1
    <3>8. Sites(t)[e - 1] = "next" /\ Opened(t)[e - 1] = p
      <4> HIDE DEF S
      <4> QED BY <2>4, <3>3, <3>4, <3>5, <3>6, <3>7
    <3>9. Sites(t)[e] = Moved(t, p, "next", t[e]) /\ Opened(t)[e] = Turned(t[e], e, p)
      BY ONLY t \in Seq(T), <3>5, <3>8, Steps
    <3>10. Opened(t)[e] = p /\ Sites(t)[e] = IF TopOf(t, p) = "[" THEN "value" ELSE "key"
      BY <1>2, <3>5, <3>9 DEF Moved, Turned, IsScalar
    <3>11. TopOf(t, p) = t[i].kind
      BY <1>2 DEF TopOf
    <3>12. R(e)
      BY <3>10, <3>11 DEF R, Ready
    <3> QED BY <3>3, <3>12
  <2>6. PICK b \in S : <<b, j>> \in Gaps(S) /\ b < j
    <3> HIDE DEF S
    <3> QED BY <1>0, <2>3, GapBefore
  <2>7. b \in Nat /\ i =< b /\ b # j
    <3>1. b \in i .. j
      BY <2>3
    <3> QED BY ONLY <1>0, <2>6, <3>1
  <2>8. Sites(t)[j - 1] = "next" /\ Opened(t)[j - 1] = p
    <3> HIDE DEF S, R, p, o
    <3> QED BY <2>3, <2>4, <2>5, <2>6, <2>7
  <2> HIDE DEF o, p, S, R
  <2> QED BY <1>4, <2>8 DEF o
<1> QED BY <1>5, <1>6

(* Every value leads from where one is due to after it. *)
LEMMA ValueRuns ==
    ASSUME NEW T, NEW t \in Seq(T), NEW i \in 1 .. Len(t), NEW j \in 1 .. Len(t), ValueAt(t, i, j)
    PROVE  Runs(t, i, j)
<1> DEFINE A == {n \in 0 .. Len(t) : \A a, b \in 1 .. Len(t) : b - a < n /\ ValueAt(t, a, b) => Runs(t, a, b)}
<1>1. Len(t) \in Nat
  OBVIOUS
<1>2. 0 \in A
  BY <1>1 DEF ValueAt
<1>3. ASSUME NEW n \in 0 .. Len(t) - 1, n \in A PROVE n + 1 \in A
  <2>1. ASSUME NEW a \in 1 .. Len(t), NEW b \in 1 .. Len(t), b - a < n + 1, ValueAt(t, a, b),
               Sites(t)[a - 1] \in {"value", "first value"}
        PROVE  Sites(t)[b] = After(Opened(t)[a - 1]) /\ Opened(t)[b] = Opened(t)[a - 1]
    <3>1. IsValue(t, Values(t), a, b) /\ a =< b
      BY <2>1, ValuesAre DEF ValueAt
    <3>2. CASE a = b /\ IsScalar(t[a])
      <4>1. /\ Sites(t)[a] = Moved(t, Opened(t)[a - 1], Sites(t)[a - 1], t[a])
            /\ Opened(t)[a] = Turned(t[a], a, Opened(t)[a - 1])
        BY Moves
      <4>2. Sites(t)[a] = After(Opened(t)[a - 1])
        BY <2>1, <3>2, <4>1 DEF Moved
      <4>3. Opened(t)[a] = Opened(t)[a - 1]
        BY <3>2, <4>1 DEF Turned, IsScalar
      <4> QED BY <3>2, <4>2, <4>3
    <3>3. CASE a < b
      <4>1. ASSUME NEW k \in 1 .. Len(t), NEW l \in 1 .. Len(t), a < k, l < b, ValueAt(t, k, l)
            PROVE  Runs(t, k, l)
        <5>1. l - k < n
          BY ONLY a \in 1 .. Len(t), b \in 1 .. Len(t), b - a < n + 1, <4>1, n \in 0 .. Len(t) - 1, <1>1
        <5> QED BY <1>3, <4>1, <5>1
      <4>2. RunsWithin(t, a, b)
        BY <4>1 DEF RunsWithin
      <4> QED BY <2>1, <3>1, <3>3, <4>2, ContainerRuns
    <3> QED BY <1>1, <3>1, <3>2, <3>3 DEF IsValue
  <2>2. n + 1 \in 0 .. Len(t)
    BY <1>1
  <2>3. \A a, b \in 1 .. Len(t) : b - a < n + 1 /\ ValueAt(t, a, b) => Runs(t, a, b)
    BY <2>1 DEF Runs
  <2> QED BY <2>2, <2>3
<1>4. \A n \in 0 .. Len(t) : n \in A
  <2> HIDE DEF A
  <2> QED BY <1>1, <1>2, <1>3, Induction
<1>5. Len(t) \in 0 .. Len(t) /\ j - i < Len(t)
  BY <1>1
<1> QED BY <1>4, <1>5

(* A text is well formed exactly when it ends where the decoder does.       *)
LEMMA WellFormedIs ==
    ASSUME NEW T, NEW t \in Seq(T)
    PROVE  WellFormed(t) <=> Sites(t)[Len(t)] = "end"
<1>0. Len(t) \in Nat /\ Len(t) \in 0 .. Len(t)
  OBVIOUS
<1>s. Sites(t)[0] = "value" /\ Opened(t)[0] = <<>>
  BY SitesAre, OpenedIs DEF Goes
<1>1. ASSUME WellFormed(t) PROVE Sites(t)[Len(t)] = "end"
  <2>1. t # <<>> /\ Values(t)[<<1, Len(t)>>]
    BY <1>1 DEF WellFormed
  <2>2. 1 \in 1 .. Len(t) /\ Len(t) \in 1 .. Len(t) /\ 1 - 1 = 0
    BY <1>0, <2>1
  <2>3. ValueAt(t, 1, Len(t))
    BY <2>1, <2>2 DEF ValueAt
  <2>4. Runs(t, 1, Len(t))
    BY <2>2, <2>3, ValueRuns
  <2> QED BY <1>s, <2>2, <2>4 DEF Runs, After
<1>2. ASSUME Sites(t)[Len(t)] = "end" PROVE WellFormed(t)
  <2>1. Stands(t, Len(t), Opened(t)[Len(t)], "end")
    BY <1>0, <1>2, TextStands
  <2>2. ValueAt(t, 1, Len(t))
    BY <2>1 DEF Stands
  <2>3. t # <<>>
    BY <1>0, <2>2 DEF ValueAt
  <2> QED BY <2>2, <2>3 DEF WellFormed, ValueAt
<1> QED BY <1>1, <1>2

-------------------------------------------------------------------------------
(* A text is viable exactly when its place has not failed. *)

(* Where a text has come to. *)
EndOf(t) == Sites(t)[Len(t)]

(* The place where a text ends means what it says. *)
LEMMA EndIs ==
    ASSUME NEW T, NEW t \in Seq(T)
    PROVE  /\ EndOf(t) \in Ats /\ Nested(t, Len(t), OpenAfter(t)) /\ OpenAfter(t) \in Seq(Nat)
           /\ EndOf(t) # "failed" => Stands(t, Len(t), OpenAfter(t), EndOf(t))
           /\ WellFormed(t) <=> EndOf(t) = "end"
<1>1. Len(t) \in Nat /\ Len(t) \in 0 .. Len(t)
  OBVIOUS
<1>2. EndOf(t) \in Ats
  BY <1>1, SitesAre DEF Goes, EndOf
<1>3. Nested(t, Len(t), OpenAfter(t))
  BY <1>1, OpenIsNested DEF OpenAfter
<1>4. OpenAfter(t) \in Seq(Nat)
  BY <1>3 DEF Nested
<1>5. EndOf(t) # "failed" => Stands(t, Len(t), OpenAfter(t), EndOf(t))
  BY <1>1, TextStands DEF EndOf, OpenAfter
<1>6. WellFormed(t) <=> EndOf(t) = "end"
  BY WellFormedIs DEF EndOf
<1> QED BY <1>2, <1>3, <1>4, <1>5, <1>6

(* It moves with the next lexeme. *)
LEMMA EndFurther ==
    ASSUME NEW T, NEW t \in Seq(T), NEW x \in T
    PROVE  /\ EndOf(Append(t, x)) = Moved(t, OpenAfter(t), EndOf(t), x)
           /\ OpenAfter(Append(t, x)) = Turned(x, Len(t) + 1, OpenAfter(t))
<1> DEFINE u == Append(t, x)  n == Len(t) + 1  o == OpenAfter(t)  w == EndOf(t)
<1>1. /\ u \in Seq(T) /\ Len(t) \in Nat /\ Len(u) = n /\ u[n] = x
      /\ \A i \in 1 .. Len(t) : u[i] = t[i]
  BY FurtherIs
<1>2. n \in 1 .. Len(u) /\ n - 1 = Len(t) /\ Len(t) =< Len(u) /\ Len(t) \in 0 .. Len(t) /\ Len(t) \in Nat
  BY ONLY <1>1
<1> HIDE DEF u, n
<1>3. Opened(u)[Len(t)] = o /\ Sites(u)[Len(t)] = w
  <2>1. Opened(u)[Len(t)] = Opened(t)[Len(t)]
    BY <1>1, <1>2, OpenedAlike
  <2>2. Sites(u)[Len(t)] = Sites(t)[Len(t)]
    BY <1>1, <1>2, SitesAlike
  <2> QED BY <2>1, <2>2 DEF OpenAfter, EndOf
<1>4. Sites(u)[n] = Moved(u, o, w, x) /\ Opened(u)[n] = Turned(x, n, o)
  <2> HIDE DEF o, w
  <2> QED BY ONLY <1>1, <1>2, <1>3, Steps
<1>5. o # <<>> => TopOf(u, o) = TopOf(t, o)
  <2> SUFFICES ASSUME o # <<>> PROVE TopOf(u, o) = TopOf(t, o)
    OBVIOUS
  <2>1. Nested(t, Len(t), o) /\ o \in Seq(Nat)
    BY EndIs
  <2> HIDE DEF o
  <2>2. Len(o) \in 1 .. Len(o) /\ Last(o) = o[Len(o)]
    BY <2>1, FrontIs
  <2>3. Last(o) \in 1 .. Len(t)
    BY <2>1, <2>2 DEF Nested
  <2> QED BY <1>1, <2>3 DEF TopOf
<1>6. Moved(u, o, w, x) = Moved(t, o, w, x)
  <2> HIDE DEF o, w
  <2> QED BY <1>5 DEF Moved, Shuts
<1>7. EndOf(u) = Moved(t, o, w, x) /\ OpenAfter(u) = Turned(x, n, o)
  BY <1>1, <1>4, <1>6 DEF EndOf, OpenAfter
<1> QED BY <1>7 DEF u, n

(* What has failed stays so, and so does what has come to the end.          *)
LEMMA FailedStays ==
    ASSUME NEW T, NEW t \in Seq(T), NEW m \in 0 .. Len(t), NEW n \in 0 .. Len(t), m < n,
           Sites(t)[m] \in {"failed", "end"}
    PROVE  Sites(t)[n] = "failed"
<1> DEFINE A == {k \in 0 .. Len(t) : m < k => Sites(t)[k] = "failed"}
<1>1. Len(t) \in Nat /\ m \in Nat
  OBVIOUS
<1>2. 0 \in A
  BY <1>1
<1>3. ASSUME NEW k \in 0 .. Len(t) - 1, k \in A PROVE k + 1 \in A
  <2>1. k + 1 \in 1 .. Len(t) /\ (k + 1) - 1 = k /\ k + 1 \in 0 .. Len(t)
    BY ONLY <1>1, k \in 0 .. Len(t) - 1
  <2>2. ASSUME m < k + 1 PROVE Sites(t)[k + 1] = "failed"
    <3>1. m = k \/ m < k
      BY ONLY <1>1, <2>2, k \in 0 .. Len(t) - 1
    <3>2. Sites(t)[k] \in {"failed", "end"}
      BY <1>3, <3>1
    <3>3. Sites(t)[k + 1] = Moved(t, Opened(t)[k], Sites(t)[k], t[k + 1])
      BY ONLY <2>1, t \in Seq(T), Steps
    <3> QED BY <3>2, <3>3 DEF Moved, Shuts
  <2> QED BY <2>1, <2>2
<1> HIDE DEF A
<1>4. \A k \in 0 .. Len(t) : k \in A
  BY <1>1, <1>2, <1>3, Induction
<1> QED BY <1>4 DEF A

(* A text that has failed is no beginning of a well-formed one. *)
LEMMA FailedIsNotViable ==
    ASSUME NEW T, NEW t \in Seq(T), EndOf(t) = "failed"
    PROVE  ~Viable(t)
<1> SUFFICES ASSUME NEW fill \in Fills, WellFormed(t \o fill \o Closing(t)) PROVE FALSE
  BY DEF Viable
<1> DEFINE C == [kind : {"}", "]"}]  P == {SomeValue, SomeKey, [kind |-> ":"]}  U == T \cup C \cup P
           v == t \o fill  c == Closing(t)  u == v \o c
<1>1. t \in Seq(U) /\ fill \in Seq(U)
  <2>1. t \in Seq(U)
    <3> HIDE DEF C, P
    <3> QED OBVIOUS
  <2>2. SomeValue \in U /\ SomeKey \in U /\ [kind |-> ":"] \in U
    OBVIOUS
  <2>3. fill \in Seq(U)
    <3> HIDE DEF U
    <3>1. \A a, b, d \in U : <<>> \in Seq(U) /\ <<a>> \in Seq(U) /\ <<b, a>> \in Seq(U) /\ <<d, b, a>> \in Seq(U)
      OBVIOUS
    <3>2. fill \in {<<>>, <<SomeValue>>, <<[kind |-> ":"], SomeValue>>, <<SomeKey, [kind |-> ":"], SomeValue>>}
      BY DEF Fills
    <3> QED BY ONLY <2>2, <3>1, <3>2
  <2> QED BY <2>1, <2>3
<1>2. c \in Seq(U)
  <2>1. OpenAfter(t) \in Seq(Nat)
    BY EndIs
  <2> DEFINE o == OpenAfter(t)  e(i) == [kind |-> IF t[o[Len(o) + 1 - i]].kind = "{" THEN "}" ELSE "]"]
  <2>2. c = [i \in DOMAIN o |-> e(i)]
    BY DEF Closing
  <2>3. \A i : e(i) \in U
    OBVIOUS
  <2>4. DOMAIN o = 1 .. Len(o) /\ Len(o) \in Nat
    <3> HIDE DEF o
    <3> QED BY <2>1 DEF o
  <2> HIDE DEF U, o, e, c
  <2> QED BY <2>2, <2>3, <2>4
<1> HIDE DEF U, c
<1>3. v \in Seq(U) /\ Len(v) = Len(t) + Len(fill) /\ \A k \in 1 .. Len(t) : v[k] = t[k]
  BY <1>1
<1>4. Len(t) \in Nat /\ Len(fill) \in Nat /\ Len(c) \in Nat
  BY <1>1, <1>2
<1> HIDE DEF v
<1>5. u \in Seq(U) /\ Len(u) = Len(v) + Len(c) /\ \A k \in 1 .. Len(v) : u[k] = v[k]
  <2>1. v \in Seq(U) /\ c \in Seq(U)
    BY <1>2, <1>3
  <2> QED BY ONLY <2>1
<1> HIDE DEF u
<1>6. Len(t) =< Len(u) /\ Len(u) \in Nat /\ \A k \in 1 .. Len(t) : u[k] = t[k]
  <2>1. \A k \in 1 .. Len(t) : k \in 1 .. Len(v)
    BY ONLY <1>3, <1>4
  <2>2. Len(t) =< Len(u) /\ Len(u) \in Nat
    BY ONLY <1>3, <1>4, <1>5
  <2> QED BY <1>3, <1>5, <2>1, <2>2
<1>7. Sites(u)[Len(t)] = "failed"
  <2>1. Len(t) \in 0 .. Len(t)
    BY <1>4
  <2> QED BY <1>5, <1>6, <2>1, SitesAlike DEF EndOf
<1>8. Sites(u)[Len(u)] = "failed"
  <2>1. Len(t) \in 0 .. Len(u) /\ Len(u) \in 0 .. Len(u)
    BY <1>4, <1>6
  <2>2. CASE Len(t) = Len(u)
    BY <1>7, <2>2
  <2>3. CASE Len(t) # Len(u)
    <3>1. Len(t) < Len(u)
      BY ONLY <1>4, <1>6, <2>3
    <3> QED BY <1>5, <1>7, <2>1, <3>1, FailedStays
  <2> QED BY <2>2, <2>3
<1>9. WellFormed(u)
  BY DEF u, v, c
<1> QED BY <1>5, <1>8, <1>9, WellFormedIs

(* What would close a text, bracket by bracket. *)
Closer(x) == [kind |-> IF x.kind = "{" THEN "}" ELSE "]"]

(* One bracket for each that is open, from the innermost out. *)
LEMMA ClosingIs ==
    ASSUME NEW T, NEW t \in Seq(T), NEW o, o = OpenAfter(t)
    PROVE  /\ Closing(t) \in Seq([kind : {"}", "]"}]) /\ Len(Closing(t)) = Len(o) /\ Len(o) \in Nat
           /\ \A i \in 1 .. Len(o) : Closing(t)[i] = Closer(t[o[Len(o) + 1 - i]])
<1>1. o \in Seq(Nat) /\ Len(o) \in Nat /\ DOMAIN o = 1 .. Len(o)
  BY EndIs
<1>2. Closing(t) = [i \in 1 .. Len(o) |-> Closer(t[o[Len(o) + 1 - i]])]
  BY <1>1, Zenon DEF Closing, Closer
<1> DEFINE e(i) == Closer(t[o[Len(o) + 1 - i]])  C == [kind : {"}", "]"}]  c == Closing(t)
<1>3. \A i \in 1 .. Len(o) : e(i) \in C
  BY DEF Closer
<1>4. c = [i \in 1 .. Len(o) |-> e(i)]
  BY <1>2
<1> HIDE DEF e, C, c
<1>5. c \in Seq(C) /\ Len(c) = Len(o) /\ \A i \in 1 .. Len(o) : c[i] = e(i)
  BY <1>1, <1>3, <1>4
<1> QED BY <1>1, <1>5 DEF c, e, C

(* What closes a text depends on the brackets open in it only. *)
LEMMA ClosingAlike ==
    ASSUME NEW T, NEW t \in Seq(T), NEW U, NEW u \in Seq(U), OpenAfter(u) = OpenAfter(t),
           \A k \in 1 .. Len(t) : u[k] = t[k]
    PROVE  Closing(u) = Closing(t)
<1> DEFINE o == OpenAfter(t)  c == Closing(t)  d == Closing(u)  C == [kind : {"}", "]"}]
<1>1. Nested(t, Len(t), o)
  BY EndIs
<1>2. /\ c \in Seq(C) /\ Len(c) = Len(o) /\ Len(o) \in Nat
      /\ \A i \in 1 .. Len(o) : c[i] = Closer(t[o[Len(o) + 1 - i]])
  <2>1. o = OpenAfter(t)
    OBVIOUS
  <2> HIDE DEF o
  <2> QED BY <2>1, ClosingIs
<1>3. /\ d \in Seq(C) /\ Len(d) = Len(o)
      /\ \A i \in 1 .. Len(o) : d[i] = Closer(u[o[Len(o) + 1 - i]])
  <2>1. o = OpenAfter(u)
    OBVIOUS
  <2> HIDE DEF o
  <2> QED BY ZenonT(60), <2>1, ClosingIs
<1>4. ASSUME NEW i \in 1 .. Len(o) PROVE c[i] = d[i]
  <2> DEFINE l == Len(o) + 1 - i
  <2>1. l \in 1 .. Len(o)
    <3>1. Len(o) \in Nat
      BY <1>2
    <3> HIDE DEF o
    <3> QED BY ONLY <3>1, i \in 1 .. Len(o)
  <2> HIDE DEF l, o
  <2>2. u[o[l]] = t[o[l]]
    BY <1>1, <2>1 DEF Nested
  <2> HIDE DEF c, d
  <2> QED BY <1>2, <1>3, <2>2 DEF l
<1> HIDE DEF c, d, o, C
<1>5. c = d
  BY <1>2, <1>3, <1>4, SeqEqual
<1> QED BY <1>5 DEF c, d

(* The lexemes that close. *)
Closers == [kind : {"}", "]"}]

(* They are among the lexemes, *)
HasClosers(U) == Closers \subseteq U

(* Only brackets are missing to what stands so. *)
Closable(v) == EndOf(v) \in {"next", "end", "first value", "first key"}

(* A container that may be closed. *)
IsOpen(v) == OpenAfter(v) # <<>> /\ EndOf(v) \in {"next", "first value", "first key"}

(* The first bracket that would close a text does, and the others follow.   *)
LEMMA ClosingBegins ==
    ASSUME NEW U, HasClosers(U), NEW v \in Seq(U), IsOpen(v)
    PROVE  \E x \in U :
              /\ v \o Closing(v) = Append(v, x) \o Closing(Append(v, x))
              /\ Len(OpenAfter(Append(v, x))) = Len(OpenAfter(v)) - 1
              /\ EndOf(Append(v, x)) \in {"next", "end"}
<1> DEFINE o == OpenAfter(v)  w == EndOf(v)  c == Closing(v)  C == Closers  x == c[1]
<1>1. Nested(v, Len(v), o) /\ o \in Seq(Nat) /\ Stands(v, Len(v), o, w)
  <2>1. EndOf(v) # "failed"
    BY DEF IsOpen
  <2> QED BY <2>1, EndIs
<1>2. /\ c \in Seq(C) /\ Len(c) = Len(o) /\ Len(o) \in Nat
      /\ \A i \in 1 .. Len(o) : c[i] = Closer(v[o[Len(o) + 1 - i]])
  <2>1. o = OpenAfter(v)
    OBVIOUS
  <2> HIDE DEF o
  <2> QED BY <2>1, ClosingIs DEF Closers
<1>o. o # <<>> /\ w \in {"next", "first value", "first key"}
  BY DEF IsOpen
<1> HIDE DEF o, w, c
<1>3. /\ Len(o) \in Nat \ {0} /\ Len(o) \in 1 .. Len(o) /\ Last(o) = o[Len(o)]
      /\ Front(o) \in Seq(Nat) /\ Len(Front(o)) = Len(o) - 1
      /\ \A i \in 1 .. Len(o) - 1 : Front(o)[i] = o[i]
  BY <1>1, <1>o, FrontIs
<1>4. x = Closer(v[Last(o)]) /\ x \in C /\ x \in U
  <2>1. 1 \in 1 .. Len(o) /\ (Len(o) + 1) - 1 = Len(o)
    BY ONLY <1>3
  <2>2. x = Closer(v[o[(Len(o) + 1) - 1]])
    BY <1>2, <2>1
  <2>3. x \in C
    BY <1>2, <2>1
  <2>4. x \in U
    BY <2>3 DEF HasClosers
  <2> HIDE DEF x
  <2> QED BY <1>3, <2>1, <2>2, <2>3, <2>4
<1>5. TopOf(v, o) \in {"{", "["}
  BY <1>1, <1>3 DEF Nested, TopOf
<1>6. Shuts(v, o, w, x) /\ x.kind \in {"}", "]"} /\ ~IsScalar(x)
  <2>1. x.kind = IF TopOf(v, o) = "{" THEN "}" ELSE "]"
    <3> HIDE DEF x
    <3> QED BY <1>4, Zenon DEF Closer, TopOf
  <2> HIDE DEF x
  <2>2. w = "first key" => TopOf(v, o) = "{"
    BY <1>1, Zenon DEF Stands
  <2>3. w = "first value" => TopOf(v, o) = "["
    BY <1>1, Zenon DEF Stands
  <2> QED BY <1>o, <1>5, <2>1, <2>2, <2>3 DEF Shuts, IsScalar
<1> HIDE DEF x
<1> DEFINE u == Append(v, x)
<1>7. EndOf(u) = After(Front(o)) /\ OpenAfter(u) = Front(o)
  <2>1. EndOf(u) = Moved(v, o, w, x) /\ OpenAfter(u) = Turned(x, Len(v) + 1, o)
    BY <1>4, EndFurther DEF o, w
  <2>2. Moved(v, o, w, x) = After(Front(o))
    BY <1>o, <1>6 DEF Moved
  <2>3. Turned(x, Len(v) + 1, o) = Front(o)
    BY <1>o, <1>6 DEF Turned
  <2> QED BY <2>1, <2>2, <2>3
<1>8. /\ u \in Seq(U) /\ Len(v) \in Nat /\ Len(u) = Len(v) + 1
      /\ u[Len(v) + 1] = x /\ \A k \in 1 .. Len(v) : u[k] = v[k]
  BY <1>4, FurtherIs
<1> DEFINE p == Front(o)  d == Closing(u)
<1>9. /\ d \in Seq(C) /\ Len(d) = Len(p) /\ Len(p) \in Nat
      /\ \A i \in 1 .. Len(p) : d[i] = Closer(u[p[Len(p) + 1 - i]])
  <2>1. p = OpenAfter(u)
    BY <1>7
  <2> HIDE DEF p, u
  <2> QED BY ZenonT(60), <1>8, <2>1, ClosingIs DEF Closers
<1>10. c = <<x>> \o d
  <2> DEFINE e == <<x>> \o d
  <2>1. e \in Seq(C) /\ Len(e) = Len(p) + 1 /\ e[1] = x /\ \A i \in 1 .. Len(p) : e[i + 1] = d[i]
    <3>1. d \in Seq(C) /\ x \in C /\ Len(d) = Len(p)
      BY <1>4, <1>9
    <3> HIDE DEF d, C, p
    <3> QED BY ONLY <3>1
  <2> HIDE DEF e
  <2>2. ASSUME NEW i \in 1 .. Len(o) PROVE c[i] = e[i]
    <3>1. CASE i = 1
      BY <2>1, <3>1 DEF x
    <3>2. CASE i # 1
      <4> DEFINE k == i - 1  l == Len(o) + 1 - i
      <4>1. k \in 1 .. Len(p) /\ k + 1 = i /\ l \in 1 .. Len(o) /\ l \in 1 .. Len(o) - 1 /\ Len(p) + 1 - k = l
        BY ONLY <1>3, <3>2, i \in 1 .. Len(o)
      <4> HIDE DEF k, l, p, u, d
      <4>2. e[i] = d[k] /\ d[k] = Closer(u[p[l]])
        BY <1>9, <2>1, <4>1
      <4>3. p[l] = o[l] /\ o[l] \in 1 .. Len(v)
        BY <1>1, <1>3, <4>1 DEF p, Nested
      <4>4. u[p[l]] = v[o[l]]
        BY <1>8, <4>3
      <4>5. c[i] = Closer(v[o[l]])
        BY <1>2 DEF l
      <4> QED BY <4>2, <4>4, <4>5
    <3> QED BY <3>1, <3>2
  <2>3. Len(e) = Len(c) /\ c \in Seq(C)
    BY <1>2, <1>3, <2>1
  <2> HIDE DEF C, p, d
  <2>4. c = e
    BY <1>2, <2>1, <2>2, <2>3, SeqEqual
  <2> QED BY <2>4 DEF e
<1>11. v \o c = u \o d
  <2>1. d \in Seq(U)
    <3> HIDE DEF d, p, u
    <3>1. \A s \in Seq(C) : s \in Seq(U)
      <4> HIDE DEF C
      <4>1. C \subseteq U
        BY DEF C, HasClosers
      <4> QED BY ONLY <4>1
    <3> QED BY <1>9, <3>1
  <2>2. u = v \o <<x>>
    BY <1>4, AppendIsConcat
  <2>3. v \in Seq(U) /\ <<x>> \in Seq(U)
    BY <1>4
  <2> HIDE DEF d, u
  <2>4. (v \o <<x>>) \o d = v \o (<<x>> \o d)
    BY <2>1, <2>3, Regroup
  <2> QED BY <1>10, <2>2, <2>4
<1>12. Len(OpenAfter(u)) = Len(o) - 1 /\ EndOf(u) \in {"next", "end"}
  <2>1. After(p) \in {"next", "end"}
    BY DEF After
  <2> HIDE DEF u
  <2> QED BY <1>3, <1>7, <2>1
<1> QED BY <1>4, <1>11, <1>12 DEF o, c

(* So what would close a text makes it well-formed. *)
LEMMA ClosesAll ==
    ASSUME NEW U, HasClosers(U), NEW v \in Seq(U), Closable(v)
    PROVE  WellFormed(v \o Closing(v))
<1> DEFINE N == Len(OpenAfter(v))
           A == {n \in 0 .. N : \A u \in Seq(U) : Len(OpenAfter(u)) = n /\ Closable(u) => WellFormed(u \o Closing(u))}
<1>1. N \in Nat
  BY EndIs
<1> HIDE DEF N
<1>2. 0 \in A
  <2>1. ASSUME NEW u \in Seq(U), Len(OpenAfter(u)) = 0, Closable(u) PROVE WellFormed(u \o Closing(u))
    <3>1. OpenAfter(u) = <<>>
      BY <2>1, EndIs
    <3>2. EndOf(u) = "end"
      <4>1. EndOf(u) # "failed"
        BY <2>1 DEF Closable
      <4>2. Stands(u, Len(u), OpenAfter(u), EndOf(u))
        BY <4>1, EndIs
      <4>3. OpenAfter(u) = <<>> /\ EndOf(u) \in {"next", "end", "first value", "first key"}
        BY <2>1, <3>1 DEF Closable
      <4> QED BY ONLY <4>2, <4>3 DEF Stands
    <3>3. Closing(u) = <<>>
      <4>1. Closing(u) \in Seq([kind : {"}", "]"}]) /\ Len(Closing(u)) = Len(OpenAfter(u))
        BY ClosingIs
      <4> QED BY <2>1, <4>1
    <3>4. u \o Closing(u) = u
      BY <3>3
    <3> QED BY <3>2, <3>4, EndIs
  <2> QED BY <1>1, <2>1
<1>3. ASSUME NEW n \in 0 .. N - 1, n \in A PROVE n + 1 \in A
  <2>1. ASSUME NEW u \in Seq(U), Len(OpenAfter(u)) = n + 1, Closable(u) PROVE WellFormed(u \o Closing(u))
    <3>1. OpenAfter(u) # <<>>
      <4>1. OpenAfter(u) \in Seq(Nat)
        BY EndIs
      <4> QED BY <1>1, <2>1, <4>1
    <3>2. EndOf(u) \in {"next", "first value", "first key"}
      <4>1. EndOf(u) # "failed"
        BY <2>1 DEF Closable
      <4>2. Stands(u, Len(u), OpenAfter(u), EndOf(u))
        BY <4>1, EndIs
      <4>3. EndOf(u) \in {"next", "end", "first value", "first key"}
        BY <2>1 DEF Closable
      <4> QED BY ONLY <3>1, <4>2, <4>3 DEF Stands
    <3>3. PICK x \in U :
             /\ u \o Closing(u) = Append(u, x) \o Closing(Append(u, x))
             /\ Len(OpenAfter(Append(u, x))) = Len(OpenAfter(u)) - 1
             /\ EndOf(Append(u, x)) \in {"next", "end"}
      <4>1. IsOpen(u)
        BY <3>1, <3>2 DEF IsOpen
      <4> QED BY <4>1, ClosingBegins
    <3> DEFINE y == Append(u, x)
    <3>4. y \in Seq(U)
      BY FurtherIs
    <3>5. Len(OpenAfter(y)) = n /\ Closable(y)
      <4>1. (n + 1) - 1 = n
        BY ONLY <1>1, n \in 0 .. N - 1
      <4>2. EndOf(y) \in {"next", "end", "first value", "first key"}
        BY <3>3
      <4>3. Len(OpenAfter(y)) = n
        BY <2>1, <3>3, <4>1
      <4> QED BY <4>2, <4>3, Zenon DEF Closable
    <3> HIDE DEF y
    <3>6. WellFormed(y \o Closing(y))
      BY <1>3, <3>4, <3>5
    <3> QED BY <3>3, <3>6 DEF y
  <2>2. n + 1 \in 0 .. N
    BY <1>1
  <2> QED BY <2>1, <2>2
<1>4. \A n \in 0 .. N : n \in A
  <2> HIDE DEF A
  <2> QED BY <1>1, <1>2, <1>3, Induction
<1>5. N \in 0 .. N /\ Len(OpenAfter(v)) = N /\ Closable(v)
  BY <1>1 DEF N
<1> QED BY <1>4, <1>5

(* What the fills are made of. *)
Colon == [kind |-> ":"]

(* They are among the lexemes. *)
HasFillers(U) == SomeValue \in U /\ SomeKey \in U /\ Colon \in U

(* A lexeme that is no bracket leaves what is open, and what closes it.     *)
LEMMA PlainGoesOn ==
    ASSUME NEW U, NEW v \in Seq(U), NEW x \in U, x.kind \notin {"{", "[", "}", "]"}
    PROVE  /\ Append(v, x) \in Seq(U)
           /\ EndOf(Append(v, x)) = Moved(v, OpenAfter(v), EndOf(v), x)
           /\ OpenAfter(Append(v, x)) = OpenAfter(v)
           /\ Closing(Append(v, x)) = Closing(v)
<1>1. Append(v, x) \in Seq(U) /\ \A k \in 1 .. Len(v) : Append(v, x)[k] = v[k]
  BY ONLY v \in Seq(U), x \in U, FurtherIs
<1>2. EndOf(Append(v, x)) = Moved(v, OpenAfter(v), EndOf(v), x)
  BY EndFurther
<1>3. OpenAfter(Append(v, x)) = OpenAfter(v)
  BY EndFurther DEF Turned
<1>4. Closing(Append(v, x)) = Closing(v)
  BY <1>1, <1>3, ClosingAlike
<1> QED BY <1>1, <1>2, <1>3, <1>4

(* Each lexeme of a fill leads to the place of the next. *)
LEMMA FillsOneByOne ==
    ASSUME NEW U, HasFillers(U), NEW v \in Seq(U)
    PROVE  /\ EndOf(v) = "value" => /\ Closable(Append(v, SomeValue))
                                    /\ Append(v, SomeValue) \in Seq(U)
                                    /\ Closing(Append(v, SomeValue)) = Closing(v)
           /\ EndOf(v) = "colon" => /\ EndOf(Append(v, Colon)) = "value"
                                    /\ Append(v, Colon) \in Seq(U)
                                    /\ Closing(Append(v, Colon)) = Closing(v)
           /\ EndOf(v) = "key" => /\ EndOf(Append(v, SomeKey)) = "colon"
                                  /\ Append(v, SomeKey) \in Seq(U)
                                  /\ Closing(Append(v, SomeKey)) = Closing(v)
<1>1. /\ SomeValue \in U /\ SomeValue.kind \notin {"{", "[", "}", "]"} /\ IsScalar(SomeValue)
      /\ Colon \in U /\ Colon.kind = ":" /\ Colon.kind \notin {"{", "[", "}", "]"}
      /\ SomeKey \in U /\ SomeKey.kind \notin {"{", "[", "}", "]"} /\ SomeKey.kind = "str" /\ SomeKey.fault = "none"
  BY DEF HasFillers, SomeValue, SomeKey, Colon, IsScalar
<1>2. ASSUME EndOf(v) = "value"
      PROVE  /\ Closable(Append(v, SomeValue)) /\ Append(v, SomeValue) \in Seq(U)
             /\ Closing(Append(v, SomeValue)) = Closing(v)
  <2>1. EndOf(Append(v, SomeValue)) = After(OpenAfter(v))
    <3>1. EndOf(Append(v, SomeValue)) = Moved(v, OpenAfter(v), EndOf(v), SomeValue)
      BY <1>1, PlainGoesOn
    <3>2. Moved(v, OpenAfter(v), EndOf(v), SomeValue) = After(OpenAfter(v))
      BY <1>1, <1>2 DEF Moved
    <3> QED BY <3>1, <3>2
  <2>2. Closable(Append(v, SomeValue))
    BY <2>1 DEF After, Closable
  <2> QED BY <1>1, <2>2, PlainGoesOn
<1>3. ASSUME EndOf(v) = "colon"
      PROVE  /\ EndOf(Append(v, Colon)) = "value" /\ Append(v, Colon) \in Seq(U)
             /\ Closing(Append(v, Colon)) = Closing(v)
  <2>1. Moved(v, OpenAfter(v), EndOf(v), Colon) = "value"
    BY <1>1, <1>3 DEF Moved
  <2> QED BY <1>1, <2>1, PlainGoesOn
<1>4. ASSUME EndOf(v) = "key"
      PROVE  /\ EndOf(Append(v, SomeKey)) = "colon" /\ Append(v, SomeKey) \in Seq(U)
             /\ Closing(Append(v, SomeKey)) = Closing(v)
  <2>1. Moved(v, OpenAfter(v), EndOf(v), SomeKey) = "colon"
    BY <1>1, <1>4 DEF Moved
  <2> QED BY <1>1, <2>1, PlainGoesOn
<1> QED BY <1>2, <1>3, <1>4

(* Two sequences of one element, *)
LEMMA FewJoin ==
    ASSUME NEW U, NEW a \in U, NEW b \in U
    PROVE  <<a>> \o <<b>> = <<a, b>> /\ <<a, b>> \in Seq(U)
<1> DEFINE x == <<a>> \o <<b>>  y == <<a, b>>
<1>1. <<a>> \in Seq(U) /\ <<b>> \in Seq(U) /\ y \in Seq(U)
  OBVIOUS
<1>2. x \in Seq(U) /\ Len(x) = 2 /\ x[1] = a /\ x[2] = b
  BY <1>1
<1>3. Len(y) = 2 /\ y[1] = a /\ y[2] = b
  OBVIOUS
<1>4. \A i \in 1 .. Len(x) : i = 1 \/ i = 2
  BY <1>2
<1> HIDE DEF x, y
<1>5. x = y
  BY <1>1, <1>2, <1>3, <1>4, SeqEqual
<1> QED BY <1>1, <1>5 DEF x, y

(* and one of one element with one of two. *)
LEMMA OneJoinsTwo ==
    ASSUME NEW U, NEW a \in U, NEW b \in U, NEW c \in U
    PROVE  <<a>> \o <<b, c>> = <<a, b, c>>
<1> DEFINE x == <<a>> \o <<b, c>>  y == <<a, b, c>>
<1>1. <<a>> \in Seq(U) /\ <<b, c>> \in Seq(U) /\ y \in Seq(U)
  OBVIOUS
<1>2. x \in Seq(U) /\ Len(x) = 3 /\ x[1] = a /\ x[2] = b /\ x[3] = c
  BY <1>1
<1>3. Len(y) = 3 /\ y[1] = a /\ y[2] = b /\ y[3] = c
  OBVIOUS
<1>4. \A i \in 1 .. Len(x) : i = 1 \/ i = 2 \/ i = 3
  BY <1>2
<1> HIDE DEF x, y
<1>5. x = y
  BY <1>1, <1>2, <1>3, <1>4, SeqEqual
<1> QED BY <1>5 DEF x, y

(* A text that has not failed can be completed. *)
LEMMA GoingIsViable ==
    ASSUME NEW T, NEW t \in Seq(T), EndOf(t) # "failed"
    PROVE  Viable(t)
<1> DEFINE U == T \cup Closers \cup {SomeValue, SomeKey, Colon}
<1>1. HasClosers(U) /\ HasFillers(U)
  BY DEF HasClosers, HasFillers
<1>2. /\ t \in Seq(U) /\ EndOf(t) \in Ats
      /\ Fills = {<<>>, <<SomeValue>>, <<Colon, SomeValue>>, <<SomeKey, Colon, SomeValue>>}
  <2>1. T \subseteq U
    OBVIOUS
  <2>2. t \in Seq(U)
    <3> HIDE DEF U
    <3> QED BY ONLY <2>1, t \in Seq(T)
  <2> QED BY <2>2, EndIs DEF Fills, Colon
<1> HIDE DEF U
<1>3. SomeValue \in U /\ SomeKey \in U /\ Colon \in U
  BY <1>1 DEF HasFillers
<1>4. \A u \in Seq(U) : Closable(u) => WellFormed(u \o Closing(u))
  BY <1>1, ClosesAll
<1>a. CASE Closable(t)
  <2>1. WellFormed(t \o Closing(t)) /\ t \o <<>> = t
    BY <1>2, <1>4, <1>a
  <2> QED BY <1>2, <2>1 DEF Viable
<1>b. CASE EndOf(t) = "value"
  <2>1. /\ Closable(Append(t, SomeValue)) /\ Append(t, SomeValue) \in Seq(U)
        /\ Closing(Append(t, SomeValue)) = Closing(t)
    BY <1>1, <1>2, <1>b, FillsOneByOne
  <2>2. Append(t, SomeValue) = t \o <<SomeValue>>
    BY <1>2, <1>3, AppendIsConcat
  <2>3. WellFormed((t \o <<SomeValue>>) \o Closing(t))
    BY <1>4, <2>1, <2>2
  <2> QED BY <1>2, <2>3 DEF Viable
<1>c. CASE EndOf(t) = "colon"
  <2> DEFINE u == Append(t, Colon)
  <2>1. EndOf(u) = "value" /\ u \in Seq(U) /\ Closing(u) = Closing(t)
    BY <1>1, <1>2, <1>c, FillsOneByOne
  <2>2. u = t \o <<Colon>>
    BY <1>2, <1>3, AppendIsConcat
  <2> HIDE DEF u
  <2>3. /\ Closable(Append(u, SomeValue)) /\ Append(u, SomeValue) \in Seq(U)
        /\ Closing(Append(u, SomeValue)) = Closing(u)
    BY <1>1, <2>1, FillsOneByOne
  <2>4. Append(u, SomeValue) = u \o <<SomeValue>>
    BY <1>3, <2>1, AppendIsConcat
  <2>5. u \o <<SomeValue>> = t \o <<Colon, SomeValue>>
    <3>1. (t \o <<Colon>>) \o <<SomeValue>> = t \o (<<Colon>> \o <<SomeValue>>)
      BY <1>2, <1>3, Regroup
    <3>2. <<Colon>> \o <<SomeValue>> = <<Colon, SomeValue>>
      BY <1>3, FewJoin
    <3> QED BY <2>2, <3>1, <3>2
  <2>6. WellFormed((t \o <<Colon, SomeValue>>) \o Closing(t))
    BY <1>4, <2>1, <2>3, <2>4, <2>5
  <2> QED BY <1>2, <2>6 DEF Viable
<1>d. CASE EndOf(t) = "key"
  <2> DEFINE u == Append(t, SomeKey)  w == Append(u, Colon)
  <2>1. EndOf(u) = "colon" /\ u \in Seq(U) /\ Closing(u) = Closing(t)
    BY <1>1, <1>2, <1>d, FillsOneByOne
  <2>2. u = t \o <<SomeKey>>
    BY <1>2, <1>3, AppendIsConcat
  <2> HIDE DEF u
  <2>3. EndOf(w) = "value" /\ w \in Seq(U) /\ Closing(w) = Closing(u)
    BY <1>1, <2>1, FillsOneByOne
  <2>4. w = u \o <<Colon>>
    BY <2>1, <1>3, AppendIsConcat
  <2> HIDE DEF w
  <2>5. /\ Closable(Append(w, SomeValue)) /\ Append(w, SomeValue) \in Seq(U)
        /\ Closing(Append(w, SomeValue)) = Closing(w)
    BY <1>1, <2>3, FillsOneByOne
  <2>6. Append(w, SomeValue) = w \o <<SomeValue>>
    BY <1>3, <2>3, AppendIsConcat
  <2>7. w \o <<SomeValue>> = t \o <<SomeKey, Colon, SomeValue>>
    <3>1. (u \o <<Colon>>) \o <<SomeValue>> = u \o (<<Colon>> \o <<SomeValue>>)
      BY <1>3, <2>1, Regroup
    <3>2. <<Colon>> \o <<SomeValue>> = <<Colon, SomeValue>> /\ <<Colon, SomeValue>> \in Seq(U)
      BY <1>3, FewJoin
    <3>3. (t \o <<SomeKey>>) \o <<Colon, SomeValue>> = t \o (<<SomeKey>> \o <<Colon, SomeValue>>)
      BY <1>2, <1>3, <3>2, Regroup
    <3>4. <<SomeKey>> \o <<Colon, SomeValue>> = <<SomeKey, Colon, SomeValue>>
      BY <1>3, OneJoinsTwo
    <3> QED BY <2>2, <2>4, <3>1, <3>2, <3>3, <3>4
  <2>8. WellFormed((t \o <<SomeKey, Colon, SomeValue>>) \o Closing(t))
    BY <1>4, <2>1, <2>3, <2>5, <2>6, <2>7
  <2> QED BY <1>2, <2>8 DEF Viable
<1>5. Closable(t) \/ EndOf(t) \in {"value", "colon", "key"}
  BY <1>2 DEF Closable, Ats
<1> QED BY <1>5, <1>a, <1>b, <1>c, <1>d

(* What the prover and the automaton agree on: a text is viable exactly as  *)
(* long as it has not failed.                                               *)
LEMMA ViableIs ==
    ASSUME NEW T, NEW t \in Seq(T)
    PROVE  Viable(t) <=> EndOf(t) # "failed"
<1> QED BY FailedIsNotViable, GoingIsViable

-------------------------------------------------------------------------------
(* The budget, the keys and the frames, one lexeme further. *)

(* The budget after a text, and what it admits next. *)
BudgetOf(t) == [DocumentBudget(DOCUMENT_BYTES) EXCEPT !.counts = [bytes |-> BytesOf(t), nodes |-> NodesOf(t)]]

(* The limits are natural numbers below the size of a word. *)
LEMMA LimitsAre ==
    /\ DOCUMENT_BYTES \in Nat /\ NODES \in Nat /\ DEPTH \in Nat /\ WordSize \in Nat
    /\ DOCUMENT_BYTES < WordSize /\ NODES < WordSize
<1>1. /\ WordSize \in Nat /\ DOCUMENT_BYTES \in 1 .. (WordSize - 1) /\ NODES \in 1 .. (WordSize - 1)
      /\ DEPTH \in 1 .. (WordSize - 1)
  BY BudgetAssumption
<1> QED BY <1>1

(* The fields of this budget. *)
LEMMA BudgetIs ==
    ASSUME NEW t
    PROVE  BudgetOf(t) = [counts |-> [bytes |-> BytesOf(t), nodes |-> NodesOf(t)],
                          byte_limit |-> DOCUMENT_BYTES, combined |-> {}]
<1> QED BY DEF BudgetOf, DocumentBudget

(* It is charged what the lexeme costs. *)
LEMMA BudgetFurther ==
    ASSUME NEW t \in Texts, NEW x \in Lexemes
    PROVE  BudgetOf(Append(t, x)) = Charge(BudgetOf(t), BytesIn(x), NodesIn(x))
<1> DEFINE b == BudgetOf(t)
<1>1. /\ b.counts.bytes = BytesOf(t) /\ b.counts.nodes = NodesOf(t)
      /\ b.byte_limit = DOCUMENT_BYTES /\ b.combined = {}
  BY BudgetIs
<1> HIDE DEF b
<1>2. {Plus(total, BytesIn(x), NodesIn(x)) : total \in b.combined} = {}
  BY <1>1
<1>3. Charge(b, BytesIn(x), NodesIn(x)) =
        [counts |-> [bytes |-> BytesOf(t) + BytesIn(x), nodes |-> NodesOf(t) + NodesIn(x)],
         byte_limit |-> DOCUMENT_BYTES, combined |-> {}]
  BY <1>1, <1>2, Zenon DEF Charge, Plus
<1>4. BytesOf(Append(t, x)) = BytesOf(t) + BytesIn(x) /\ NodesOf(Append(t, x)) = NodesOf(t) + NodesIn(x)
  BY TotalsFurther
<1> QED BY <1>3, <1>4, BudgetIs DEF b

(* Whether the next lexeme exceeds a limit. *)
LEMMA WithinFurther ==
    ASSUME NEW t \in Texts, NEW x \in Lexemes, Within(t)
    PROVE  Within(Append(t, x)) <=>
              /\ NodesOf(t) + NodesIn(x) =< NODES /\ BytesOf(t) + BytesIn(x) =< DOCUMENT_BYTES
              /\ Len(OpenAfter(Append(t, x))) =< DEPTH
<1> DEFINE u == Append(t, x)  L == Len(t)
<1>1. NodesOf(u) = NodesOf(t) + NodesIn(x) /\ BytesOf(u) = BytesOf(t) + BytesIn(x)
  BY TotalsFurther
<1>2. Len(u) = L + 1 /\ L \in Nat
  BY FurtherIs DEF Texts
<1>3. /\ \A n \in 0 .. L : Opened(u)[n] = Opened(t)[n]
      /\ Opened(u)[L + 1] = OpenAfter(u)
  BY OpenedFurther DEF Texts
<1>4. \A n \in 0 .. L : Len(Opened(t)[n]) =< DEPTH
  BY DEF Within
<1>5. \A n \in 0 .. L + 1 : n \in 0 .. L \/ n = L + 1
  BY <1>2
<1>6. L + 1 \in 0 .. L + 1
  BY <1>2
<1> HIDE DEF u, L
<1>7. (\A n \in 0 .. Len(u) : Len(Opened(u)[n]) =< DEPTH) <=> Len(OpenAfter(u)) =< DEPTH
  BY <1>2, <1>3, <1>4, <1>5, <1>6
<1> QED BY <1>1, <1>7 DEF u, Within

(* A charge succeeds exactly when the text stays within the limits.         *)
LEMMA ChargeIsWithin ==
    ASSUME NEW t \in Texts, NEW x \in Lexemes, Within(t), NodesIn(x) = 1
    PROVE  Admits(BudgetOf(t), BytesIn(x), 1, Len(OpenAfter(Append(t, x)))) <=> Within(Append(t, x))
<1> DEFINE b == BudgetOf(t)  d == Len(OpenAfter(Append(t, x)))
<1>1. /\ b.counts.bytes = BytesOf(t) /\ b.counts.nodes = NodesOf(t)
      /\ b.byte_limit = DOCUMENT_BYTES /\ b.combined = {}
  BY BudgetIs
<1>2. BytesOf(t) \in Nat /\ NodesOf(t) \in Nat /\ BytesIn(x) \in Nat
  BY TotalsFurther
<1> HIDE DEF b, d
<1>3. Admits(b, BytesIn(x), 1, d) <=>
        /\ d =< DEPTH
        /\ Fits(BytesOf(t), BytesIn(x), DOCUMENT_BYTES) /\ Fits(NodesOf(t), 1, NODES)
  BY <1>1, Zenon DEF Admits
<1>4. Fits(BytesOf(t), BytesIn(x), DOCUMENT_BYTES) <=> BytesOf(t) + BytesIn(x) =< DOCUMENT_BYTES
  BY <1>2, LimitsAre DEF Fits
<1>5. Fits(NodesOf(t), 1, NODES) <=> NodesOf(t) + 1 =< NODES
  BY <1>2, LimitsAre DEF Fits
<1>6. Within(Append(t, x)) <=>
        /\ NodesOf(t) + 1 =< NODES /\ BytesOf(t) + BytesIn(x) =< DOCUMENT_BYTES
        /\ d =< DEPTH
  BY WithinFurther DEF d
<1> QED BY <1>3, <1>4, <1>5, <1>6 DEF b, d

(* A lexeme that costs nothing stays within the limits. *)
LEMMA UnchargedIsWithin ==
    ASSUME NEW t \in Texts, NEW x \in Lexemes, Within(t), x.kind \in {"}", "]", ":", ",", "end"}
    PROVE  /\ Within(Append(t, x)) /\ BudgetOf(Append(t, x)) = BudgetOf(t)
           /\ NodesIn(x) = 0 /\ BytesIn(x) = 0
<1>1. NodesIn(x) = 0 /\ BytesIn(x) = 0
  BY DEF NodesIn, BytesIn
<1>2. BytesOf(t) \in Nat /\ NodesOf(t) \in Nat
  BY TotalsFurther
<1>3. /\ NodesOf(t) + 0 =< NODES /\ BytesOf(t) + 0 =< DOCUMENT_BYTES
      /\ NodesOf(t) + 0 = NodesOf(t) /\ BytesOf(t) + 0 = BytesOf(t)
  <2>1. NodesOf(t) =< NODES /\ BytesOf(t) =< DOCUMENT_BYTES
    BY DEF Within
  <2> QED BY ONLY <1>2, <2>1, LimitsAre
<1>4. Len(OpenAfter(Append(t, x))) =< DEPTH
  <2> DEFINE o == OpenAfter(t)
  <2>1. o \in Seq(Nat) /\ OpenAfter(Append(t, x)) = Turned(x, Len(t) + 1, o)
    BY OpenedFurther DEF Texts
  <2>2. Len(o) =< DEPTH
    <3>1. Len(t) \in 0 .. Len(t)
      BY ONLY t \in Texts DEF Texts
    <3> QED BY <3>1 DEF Within, OpenAfter
  <2> HIDE DEF o
  <2>3. Turned(x, Len(t) + 1, o) = o \/ (o # <<>> /\ Turned(x, Len(t) + 1, o) = Front(o))
    BY DEF Turned
  <2>4. o # <<>> => Len(Front(o)) = Len(o) - 1 /\ Len(o) \in Nat
    BY <2>1, FrontIs
  <2>5. CASE Turned(x, Len(t) + 1, o) = o
    BY <2>1, <2>2, <2>5
  <2>6. CASE o # <<>> /\ Turned(x, Len(t) + 1, o) = Front(o)
    <3>0. Len(o) \in Nat
      BY <2>4, <2>6
    <3>1. Len(o) - 1 =< DEPTH
      BY ONLY <2>2, <3>0, LimitsAre
    <3> QED BY <2>1, <2>4, <2>6, <3>1
  <2> QED BY <2>3, <2>5, <2>6
<1>5. Within(Append(t, x))
  BY <1>1, <1>3, <1>4, WithinFurther
<1>6. BudgetOf(Append(t, x)) = BudgetOf(t)
  <2>1. BytesOf(Append(t, x)) = BytesOf(t) /\ NodesOf(Append(t, x)) = NodesOf(t)
    BY <1>1, <1>3, TotalsFurther
  <2> QED BY <2>1, BudgetIs
<1> QED BY <1>1, <1>5, <1>6

(* Where the next string is a key. *)
KeyPlace(t) == /\ OpenAfter(t) # <<>> /\ TopOf(t, OpenAfter(t)) = "{"
               /\ t[Len(t)].kind = "{" \/ t[Len(t)].kind = ","

(* The places of the decoder tell keys from values. *)
LEMMA KeyPlaces ==
    ASSUME NEW T, NEW t \in Seq(T)
    PROVE  /\ EndOf(t) \in {"key", "first key"} => KeyPlace(t)
           /\ EndOf(t) \in {"value", "first value"} => ~KeyPlace(t)
<1> DEFINE o == OpenAfter(t)  w == EndOf(t)  n == Len(t)
<1>1. w # "failed" => Stands(t, n, o, w)
  BY EndIs
<1>2. o \in Seq(Nat) /\ n \in Nat /\ (o # <<>> => Last(o) \in Nat)
  <2>1. o \in Seq(Nat) /\ n \in Nat
    BY EndIs
  <2> HIDE DEF o
  <2> QED BY <2>1, FrontIs
<1>o. OpenAfter(t) = o /\ EndOf(t) = w /\ Len(t) = n /\ (o # <<>> => TopOf(t, o) = t[Last(o)].kind)
  BY DEF TopOf
<1> HIDE DEF o, w, n
<1>3. ASSUME w = "first key" PROVE KeyPlace(t)
  <2>1. o # <<>> /\ Last(o) = n /\ TopOf(t, o) = "{"
    BY <1>1, <1>3, Zenon DEF Stands
  <2>2. t[n].kind = "{"
    BY <1>o, <2>1
  <2> QED BY <1>o, <2>1, <2>2, Zenon DEF KeyPlace
<1>4. ASSUME w = "key" PROVE KeyPlace(t)
  <2>1. o # <<>> /\ TopOf(t, o) = "{" /\ Row(t, Last(o), n)
    BY <1>1, <1>4, Zenon DEF Stands
  <2>2. n = Last(o) \/ t[n].kind = ","
    BY <2>1, Zenon DEF Row
  <2>3. t[n].kind = "{" \/ t[n].kind = ","
    BY <1>o, <2>1, <2>2
  <2> QED BY <1>o, <2>1, <2>3, Zenon DEF KeyPlace
<1>5. ASSUME w = "first value" PROVE ~KeyPlace(t)
  <2>1. TopOf(t, o) = "["
    BY <1>1, <1>5, Zenon DEF Stands
  <2>2. TopOf(t, o) # "{"
    BY <2>1
  <2> QED BY <1>o, <2>2, Zenon DEF KeyPlace
<1>6. ASSUME w = "value" PROVE ~KeyPlace(t)
  <2> SUFFICES ASSUME KeyPlace(t) PROVE FALSE
    OBVIOUS
  <2>1. o # <<>> /\ t[Last(o)].kind = "{" /\ (t[n].kind = "{" \/ t[n].kind = ",")
    BY <1>o, Zenon DEF KeyPlace
  <2>2. Due(t, Last(o), n)
    BY <1>1, <1>6, <2>1, Zenon DEF Stands
  <2>3. PICK c \in Last(o) .. n :
           IF t[Last(o)].kind = "[" THEN n = c
           ELSE n = c + 2 /\ t[c + 1].kind = "str" /\ t[c + 1].fault = "none" /\ t[c + 2].kind = ":"
    BY <2>2, Zenon DEF Due
  <2>4. n = c + 2 /\ t[c + 2].kind = ":"
    BY <2>1, <2>3
  <2> QED BY <2>1, <2>4
<1> QED BY <1>3, <1>4, <1>5, <1>6 DEF w

(* The keys of the map opened at i, one lexeme further. *)
TakesKey(t, x, i) == x.kind = "str" /\ KeyPlace(t) /\ Last(OpenAfter(t)) = i

(* The innermost map gains a string at a place for keys; no other does. *)
LEMMA KeysFurther ==
    ASSUME NEW T, NEW t \in Seq(T), NEW x \in T, NEW i \in 1 .. Len(t)
    PROVE  /\ KeysAt(Append(t, x), i) = IF TakesKey(t, x, i) THEN KeysAt(t, i) \cup {Len(t) + 1} ELSE KeysAt(t, i)
           /\ KeysAt(t, i) \subseteq i + 1 .. Len(t)
<1> DEFINE u == Append(t, x)  n == Len(t)  o == OpenAfter(t)
           IsKey(s, k) == /\ s[i].kind = "{" /\ s[k].kind = "str"
                          /\ Opened(s)[k] # <<>> /\ Last(Opened(s)[k]) = i
                          /\ s[k - 1].kind \in {"{", ","}
<1>1. /\ n \in Nat /\ Len(u) = n + 1 /\ u[n + 1] = x /\ i \in Nat
      /\ \A k \in 1 .. n : u[k] = t[k]
  BY ONLY t \in Seq(T), x \in T, i \in 1 .. Len(t), FurtherIs
<1>2. /\ KeysAt(u, i) = {k \in i + 1 .. n + 1 : IsKey(u, k)}
      /\ KeysAt(t, i) = {k \in i + 1 .. n : IsKey(t, k)}
  <2>1. KeysAt(u, i) = {k \in i + 1 .. Len(u) : IsKey(u, k)}
    BY Zenon DEF KeysAt
  <2>2. KeysAt(t, i) = {k \in i + 1 .. n : IsKey(t, k)}
    BY Zenon DEF KeysAt
  <2> HIDE DEF IsKey, u
  <2> QED BY <1>1, <2>1, <2>2
<1>3. ASSUME NEW k \in i + 1 .. n PROVE IsKey(u, k) <=> IsKey(t, k)
  <2>1. k \in 1 .. n /\ k - 1 \in 1 .. n /\ i \in 1 .. n /\ k \in 0 .. n
    BY ONLY <1>1, k \in i + 1 .. n, i \in 1 .. Len(t)
  <2>2. Opened(u)[k] = Opened(t)[k]
    BY <2>1, OpenedFurther
  <2>3. u[i] = t[i] /\ u[k] = t[k] /\ u[k - 1] = t[k - 1]
    BY <1>1, <2>1
  <2> HIDE DEF u
  <2> QED BY <2>2, <2>3
<1>4. IsKey(u, n + 1) <=> TakesKey(t, x, i)
  <2>1. Opened(u)[n + 1] = Turned(x, n + 1, o)
    BY OpenedFurther
  <2>2. (n + 1) - 1 = n /\ n \in 1 .. n /\ i \in 1 .. n
    BY ONLY <1>1, i \in 1 .. Len(t)
  <2>3. u[i] = t[i] /\ u[n] = t[n]
    BY <1>1, <2>2
  <2>4. x.kind = "str" => Opened(u)[n + 1] = o
    BY <2>1 DEF Turned
  <2>5. IsKey(u, n + 1) <=> /\ t[i].kind = "{" /\ x.kind = "str" /\ o # <<>> /\ Last(o) = i
                            /\ t[n].kind = "{" \/ t[n].kind = ","
    <3> HIDE DEF u, n, o
    <3> QED BY <1>1, <2>2, <2>3, <2>4
  <2>6. TakesKey(t, x, i) <=> /\ t[i].kind = "{" /\ x.kind = "str" /\ o # <<>> /\ Last(o) = i
                              /\ t[n].kind = "{" \/ t[n].kind = ","
    <3> HIDE DEF o, n
    <3>1. OpenAfter(t) = o /\ Len(t) = n
      BY DEF o, n
    <3> QED BY <3>1, Zenon DEF TakesKey, KeyPlace, TopOf
  <2> HIDE DEF IsKey
  <2> QED BY <2>5, <2>6
<1> DEFINE A == KeysAt(u, i)  B == KeysAt(t, i)  Is == TakesKey(t, x, i)
<1>5. i + 1 .. n + 1 = (i + 1 .. n) \cup {n + 1}
  <2>1. i \in Nat /\ n \in Nat /\ i =< n
    BY ONLY <1>1, i \in 1 .. Len(t)
  <2> HIDE DEF n
  <2> QED BY ONLY <2>1
<1> HIDE DEF u, n, IsKey, Is
<1>6. A = {k \in i + 1 .. n + 1 : IsKey(u, k)} /\ B = {k \in i + 1 .. n : IsKey(t, k)}
  BY <1>2
<1> HIDE DEF A, B
<1>7. A = IF Is THEN B \cup {n + 1} ELSE B
  <2>1. CASE Is
    BY <1>3, <1>4, <1>5, <1>6, <2>1 DEF Is
  <2>2. CASE ~Is
    BY <1>3, <1>4, <1>5, <1>6, <2>2 DEF Is
  <2> QED BY <2>1, <2>2
<1>8. B \subseteq i + 1 .. n
  BY <1>6
<1> QED BY <1>7, <1>8 DEF A, B, Is, u, n

(* A container that has just been opened has none. *)
LEMMA NoKeysYet ==
    ASSUME NEW T, NEW t \in Seq(T), NEW x \in T
    PROVE  KeysAt(Append(t, x), Len(t) + 1) = {}
<1>1. Len(t) \in Nat /\ Len(Append(t, x)) = Len(t) + 1
  BY FurtherIs
<1>2. KeysAt(Append(t, x), Len(t) + 1) \subseteq (Len(t) + 1) + 1 .. Len(t) + 1
  BY <1>1, Zenon DEF KeysAt
<1>3. (Len(t) + 1) + 1 .. Len(t) + 1 = {}
  BY ONLY <1>1
<1> QED BY <1>2, <1>3

(* A container that is open, and all of them. *)
LevelAt(t, i) == [kind |-> IF t[i].kind = "{" THEN "dict" ELSE "list", keys |-> {t[k].name : k \in KeysAt(t, i)}]

(* A container with one more key. *)
WithKey(level, name) == [level EXCEPT !.keys = @ \cup {name}]

(* Its fields. *)
LEMMA WithKeyIs ==
    \A a, b, name : WithKey([kind |-> a, keys |-> b], name) = [kind |-> a, keys |-> b \cup {name}]
<1> QED BY DEF WithKey

(* The innermost container gains a key at a place for keys; no other does. *)
LEMMA LevelFurther ==
    ASSUME NEW T, NEW t \in Seq(T), NEW x \in T, NEW i \in 1 .. Len(t)
    PROVE  LevelAt(Append(t, x), i) = IF TakesKey(t, x, i) THEN WithKey(LevelAt(t, i), x.name) ELSE LevelAt(t, i)
<1> DEFINE u == Append(t, x)  n == Len(t)  A == KeysAt(u, i)  B == KeysAt(t, i)  Is == TakesKey(t, x, i)
           f(k) == u[k].name  g(k) == t[k].name
<1>1. /\ n \in Nat /\ u[n + 1] = x /\ i \in 1 .. n
      /\ \A k \in 1 .. n : u[k] = t[k]
  BY FurtherIs
<1>2. A = (IF Is THEN B \cup {n + 1} ELSE B) /\ B \subseteq i + 1 .. n
  BY KeysFurther
<1>3. \A k \in i + 1 .. n : k \in 1 .. n
  BY ONLY <1>1
<1>4. \A k \in B : f(k) = g(k)
  <2> HIDE DEF u, n, A, B
  <2> QED BY <1>1, <1>2, <1>3
<1>5. f(n + 1) = x.name
  <2> HIDE DEF u, n
  <2> QED BY <1>1
<1> DEFINE ku == {f(k) : k \in A}  kt == {g(k) : k \in B}
<1>6. ku = IF Is THEN kt \cup {x.name} ELSE kt
  <2> HIDE DEF f, g, A, B, n, Is
  <2>1. CASE Is
    BY <1>2, <1>4, <1>5, <2>1
  <2>2. CASE ~Is
    BY <1>2, <1>4, <1>5, <2>2
  <2> QED BY <2>1, <2>2
<1>7. u[i].kind = t[i].kind
  BY <1>1
<1> DEFINE s == IF t[i].kind = "{" THEN "dict" ELSE "list"
<1>8. LevelAt(u, i) = [kind |-> s, keys |-> ku] /\ LevelAt(t, i) = [kind |-> s, keys |-> kt]
  <2>1. LevelAt(u, i) = [kind |-> IF u[i].kind = "{" THEN "dict" ELSE "list", keys |-> ku]
    BY DEF LevelAt
  <2>2. LevelAt(t, i) = [kind |-> s, keys |-> kt]
    BY DEF LevelAt
  <2> HIDE DEF ku, kt, u
  <2> QED BY <1>7, <2>1, <2>2
<1> HIDE DEF ku, kt, s, u, Is
<1>9. WithKey(LevelAt(t, i), x.name) = [kind |-> s, keys |-> kt \cup {x.name}]
  BY ONLY <1>8, WithKeyIs
<1> QED BY <1>6, <1>8, <1>9 DEF u, Is

(* Brackets that are opened further in stand further on. *)
LEMMA LastIsFurthest ==
    ASSUME NEW t, NEW n, NEW o, Nested(t, n, o), NEW l \in 1 .. Len(o) - 1
    PROVE  o # <<>> /\ o[l] # Last(o)
<1>1. /\ o \in Seq(Nat) /\ Len(o) \in Nat /\ l \in Nat /\ l < Len(o)
      /\ l >= 1 /\ \A k \in 1 .. Len(o) - 1 : o[k] < o[k + 1]
  <2>1. o \in Seq(Nat) /\ \A k \in 1 .. Len(o) - 1 : o[k] < o[k + 1]
    BY DEF Nested
  <2> QED BY <2>1
<1>a. o # <<>>
  BY <1>1
<1>b. Last(o) = o[Len(o)]
  BY <1>1, <1>a, FrontIs
<1> DEFINE N == Len(o)  A == {k \in 0 .. N : l < k => o[l] < o[k]}
<1>2. N \in Nat /\ 0 \in A
  BY <1>1
<1>3. ASSUME NEW k \in 0 .. N - 1, k \in A PROVE k + 1 \in A
  <2>1. CASE l < k
    <3>1. k \in 1 .. N - 1 /\ k \in 1 .. N /\ k + 1 \in 1 .. N /\ l \in 1 .. N /\ k + 1 \in 0 .. N
      BY ONLY <1>1, <2>1, k \in 0 .. N - 1
    <3>2. o[l] < o[k] /\ o[k] < o[k + 1]
      BY <1>1, <1>3, <2>1, <3>1
    <3> DEFINE x == o[l]  y == o[k]  z == o[k + 1]
    <3>3. x \in Nat /\ y \in Nat /\ z \in Nat
      BY SMTT(60), <1>1, <3>1
    <3> HIDE DEF x, y, z
    <3>4. x < z
      BY ONLY <3>2, <3>3 DEF x, y, z
    <3> QED BY <3>1, <3>4 DEF z, x
  <2>2. CASE l = k
    <3>1. k \in 1 .. N - 1 /\ k + 1 \in 0 .. N
      BY ONLY <1>1, <2>2, k \in 0 .. N - 1
    <3> QED BY <1>1, <2>2, <3>1
  <2>3. CASE l > k
    <3>1. ~(l < k + 1) /\ k + 1 \in 0 .. N
      BY ONLY <1>1, <2>3, k \in 0 .. N - 1
    <3> QED BY <3>1
  <2> QED BY <1>1, <2>1, <2>2, <2>3
<1> HIDE DEF A
<1>4. \A k \in 0 .. N : k \in A
  BY <1>2, <1>3, Induction
<1>5. N \in 0 .. N /\ l < N
  BY <1>1
<1>6. o[l] < o[N]
  BY <1>4, <1>5 DEF A
<1>7. o[l] \in Nat /\ o[N] \in Nat
  BY <1>1
<1>8. o[l] # o[N]
  <2> DEFINE x == o[l]  y == o[N]
  <2>1. x \in Nat /\ y \in Nat /\ x < y
    BY <1>6, <1>7
  <2> HIDE DEF x, y
  <2>2. x # y
    BY ONLY <2>1
  <2> QED BY <2>2 DEF x, y
<1> QED BY <1>a, <1>b, <1>8

(* The frames of the decoder say of each open bracket what it is and which  *)
(* keys have been read in it.                                               *)
KeyNames == {x.name : x \in Lexemes}

(* What the frames are, *)
Frames == [kind : {"dict", "list"}, keys : SUBSET KeyNames]

(* and that they say it. *)
Levelled(t, fs) ==
    /\ fs \in Seq(Frames) /\ Len(fs) = Len(OpenAfter(t))
    /\ \A l \in 1 .. Len(OpenAfter(t)) : fs[l] = LevelAt(t, OpenAfter(t)[l])

(* The brackets that open, *)
Opens(x) == x.kind = "{" \/ x.kind = "["

(* and those that close. *)
Shutting(x) == x.kind = "}" \/ x.kind = "]"

(* The brackets that are open, with the last as the furthest. *)
LEMMA OpenLevels ==
    ASSUME NEW t \in Texts
    PROVE  /\ OpenAfter(t) \in Seq(Nat) /\ Len(OpenAfter(t)) \in Nat
           /\ \A l \in 1 .. Len(OpenAfter(t)) : OpenAfter(t)[l] \in 1 .. Len(t)
           /\ OpenAfter(t) # <<>> => /\ Len(OpenAfter(t)) \in 1 .. Len(OpenAfter(t))
                                     /\ Last(OpenAfter(t)) = OpenAfter(t)[Len(OpenAfter(t))]
           /\ \A l \in 1 .. Len(OpenAfter(t)) - 1 : OpenAfter(t)[l] # Last(OpenAfter(t))
<1> DEFINE o == OpenAfter(t)
<1>1. Nested(t, Len(t), o) /\ o \in Seq(Nat)
  BY EndIs DEF Texts
<1> HIDE DEF o
<1>2. Len(o) \in Nat /\ \A l \in 1 .. Len(o) : o[l] \in 1 .. Len(t)
  <2>1. Len(o) \in Nat
    BY ONLY <1>1
  <2>2. \A l \in 1 .. Len(o) : o[l] \in 1 .. Len(t)
    BY <1>1, Zenon DEF Nested
  <2> QED BY <2>1, <2>2
<1>3. o # <<>> => Len(o) \in 1 .. Len(o) /\ Last(o) = o[Len(o)]
  BY <1>1, FrontIs
<1>4. \A l \in 1 .. Len(o) - 1 : o[l] # Last(o)
  BY <1>1, LastIsFurthest
<1> QED BY <1>1, <1>2, <1>3, <1>4 DEF o

(* An opening bracket adds a frame, *)
LEMMA OpenLevelled ==
    ASSUME NEW t \in Texts, NEW x \in Lexemes, NEW fs, Levelled(t, fs), Opens(x)
    PROVE  Levelled(Append(t, x), Append(fs, Frame(x)))
<1> DEFINE o == OpenAfter(t)  u == Append(t, x)  n == Len(t)  N == Len(o)  gs == Append(fs, Frame(x))
<1>1. /\ o \in Seq(Nat) /\ N \in Nat /\ \A l \in 1 .. N : o[l] \in 1 .. n
  BY OpenLevels
<1>2. fs \in Seq(Frames) /\ Len(fs) = N /\ \A l \in 1 .. N : fs[l] = LevelAt(t, o[l])
  BY Zenon DEF Levelled
<1>3. OpenAfter(u) = Append(o, n + 1)
  <2>1. OpenAfter(u) = Turned(x, n + 1, o)
    BY OpenedFurther DEF Texts
  <2>2. x.kind \in {"{", "["}
    BY DEF Opens
  <2> QED BY <2>1, <2>2, Zenon DEF Turned
<1>4. n \in Nat /\ u[n + 1] = x
  BY FurtherIs DEF Texts
<1>5. Frame(x) \in Frames
  BY DEF Frame, Frames
<1>6. LevelAt(u, n + 1) = Frame(x)
  <2>1. KeysAt(u, n + 1) = {}
    BY NoKeysYet DEF Texts
  <2> HIDE DEF u, n
  <2>2. {u[k].name : k \in KeysAt(u, n + 1)} = {}
    BY <2>1
  <2> QED BY <1>4, <2>2, Zenon DEF LevelAt, Frame
<1>7. ASSUME NEW l \in 1 .. N PROVE LevelAt(u, o[l]) = LevelAt(t, o[l])
  <2>1. o[l] \in 1 .. Len(t)
    BY <1>1
  <2>2. ~TakesKey(t, x, o[l])
    <3>1. x.kind # "str"
      BY DEF Opens
    <3> QED BY <3>1 DEF TakesKey
  <2> HIDE DEF o
  <2> QED BY <2>1, <2>2, LevelFurther DEF Texts
<1> HIDE DEF o, u, n, N
<1> DEFINE p == Append(o, n + 1)
<1>8. Len(p) = N + 1 /\ p[N + 1] = n + 1 /\ \A l \in 1 .. N : p[l] = o[l]
  BY <1>1, <1>4 DEF N
<1>9. gs \in Seq(Frames) /\ Len(gs) = N + 1 /\ gs[N + 1] = Frame(x) /\ \A l \in 1 .. N : gs[l] = fs[l]
  BY ONLY <1>2, <1>5
<1> HIDE DEF p, gs
<1>10. ASSUME NEW l \in 1 .. N + 1 PROVE gs[l] = LevelAt(u, p[l])
  <2>1. l = N + 1 \/ l \in 1 .. N
    BY ONLY <1>1, l \in 1 .. N + 1
  <2> QED BY <1>2, <1>6, <1>7, <1>8, <1>9, <2>1
<1>11. OpenAfter(u) = p
  BY <1>3 DEF p
<1>12. Levelled(u, gs)
  BY ONLY <1>8, <1>9, <1>10, <1>11 DEF Levelled
<1> QED BY <1>12 DEF u, gs

(* a closing one takes the last away, *)
LEMMA CloseLevelled ==
    ASSUME NEW t \in Texts, NEW x \in Lexemes, NEW fs, Levelled(t, fs), Shutting(x), OpenAfter(t) # <<>>
    PROVE  Levelled(Append(t, x), Front(fs)) /\ fs # <<>> /\ OpenAfter(Append(t, x)) = Front(OpenAfter(t))
<1> DEFINE o == OpenAfter(t)  u == Append(t, x)  n == Len(t)  N == Len(o)  gs == Front(fs)  p == Front(o)
<1>1. /\ o \in Seq(Nat) /\ N \in Nat /\ \A l \in 1 .. N : o[l] \in 1 .. n
  BY OpenLevels
<1>2. fs \in Seq(Frames) /\ Len(fs) = N /\ \A l \in 1 .. N : fs[l] = LevelAt(t, o[l])
  BY Zenon DEF Levelled
<1>o. o # <<>>
  OBVIOUS
<1>3. OpenAfter(u) = p
  <2>1. OpenAfter(u) = Turned(x, n + 1, o)
    BY OpenedFurther DEF Texts
  <2>2. x.kind \in {"}", "]"} /\ x.kind \notin {"{", "["}
    BY DEF Shutting
  <2> QED BY <2>1, <2>2, Zenon DEF Turned
<1>4. ASSUME NEW l \in 1 .. N PROVE LevelAt(u, o[l]) = LevelAt(t, o[l])
  <2>1. o[l] \in 1 .. Len(t)
    BY <1>1
  <2>2. ~TakesKey(t, x, o[l])
    <3>1. x.kind # "str"
      BY DEF Shutting
    <3> QED BY <3>1 DEF TakesKey
  <2> HIDE DEF o
  <2> QED BY <2>1, <2>2, LevelFurther DEF Texts
<1> HIDE DEF o, u, n
<1>5. Len(p) = N - 1 /\ N \in Nat \ {0} /\ \A l \in 1 .. N - 1 : p[l] = o[l]
  BY <1>1, <1>o, FrontIs
<1>6. fs # <<>>
  BY <1>2, <1>5
<1>7. gs \in Seq(Frames) /\ Len(gs) = N - 1 /\ \A l \in 1 .. N - 1 : gs[l] = fs[l]
  BY <1>2, <1>6, FrontIs
<1> HIDE DEF p, gs, N
<1>8. ASSUME NEW l \in 1 .. N - 1 PROVE gs[l] = LevelAt(u, p[l])
  <2>1. l \in 1 .. N
    BY ONLY <1>5, l \in 1 .. N - 1
  <2> QED BY <1>2, <1>4, <1>5, <1>7, <2>1
<1>9. Levelled(u, gs)
  BY ONLY <1>3, <1>5, <1>7, <1>8 DEF Levelled
<1> QED BY <1>3, <1>6, <1>9 DEF u, gs, p, o

(* another lexeme leaves them, *)
LEMMA PlainLevelled ==
    ASSUME NEW t \in Texts, NEW x \in Lexemes, NEW fs, Levelled(t, fs), ~Opens(x), ~Shutting(x),
           x.kind = "str" => ~KeyPlace(t)
    PROVE  Levelled(Append(t, x), fs) /\ OpenAfter(Append(t, x)) = OpenAfter(t)
<1> DEFINE o == OpenAfter(t)  u == Append(t, x)  n == Len(t)  N == Len(o)
<1>1. /\ o \in Seq(Nat) /\ N \in Nat /\ \A l \in 1 .. N : o[l] \in 1 .. n
  BY OpenLevels
<1>2. fs \in Seq(Frames) /\ Len(fs) = N /\ \A l \in 1 .. N : fs[l] = LevelAt(t, o[l])
  BY Zenon DEF Levelled
<1>3. OpenAfter(u) = o
  <2>1. OpenAfter(u) = Turned(x, n + 1, o)
    BY OpenedFurther DEF Texts
  <2>2. x.kind \notin {"}", "]"} /\ x.kind \notin {"{", "["}
    BY DEF Shutting, Opens
  <2> QED BY <2>1, <2>2, Zenon DEF Turned
<1>4. ASSUME NEW l \in 1 .. N PROVE LevelAt(u, o[l]) = LevelAt(t, o[l])
  <2>1. o[l] \in 1 .. Len(t)
    BY <1>1
  <2>2. ~TakesKey(t, x, o[l])
    BY DEF TakesKey
  <2> HIDE DEF o
  <2> QED BY <2>1, <2>2, LevelFurther DEF Texts
<1> HIDE DEF o, u, n
<1>5. Levelled(u, fs)
  BY <1>2, <1>3, <1>4 DEF Levelled
<1> QED BY <1>3, <1>5 DEF u, o

(* and a key is added to the last. *)
LEMMA KeyLevelled ==
    ASSUME NEW t \in Texts, NEW x \in Lexemes, NEW fs, Levelled(t, fs), x.kind = "str", KeyPlace(t)
    PROVE  /\ Levelled(Append(t, x), [fs EXCEPT ![Len(fs)] = WithKey(@, x.name)])
           /\ fs # <<>> /\ OpenAfter(Append(t, x)) = OpenAfter(t)
<1> DEFINE o == OpenAfter(t)  u == Append(t, x)  n == Len(t)  N == Len(o)  w(l) == WithKey(l, x.name)
           gs == [fs EXCEPT ![Len(fs)] = w(@)]
<1>o. o # <<>> /\ x.name \in KeyNames
  BY DEF KeyPlace, KeyNames
<1>1. /\ o \in Seq(Nat) /\ N \in Nat /\ \A l \in 1 .. N : o[l] \in 1 .. n
      /\ N \in 1 .. N /\ Last(o) = o[N] /\ \A l \in 1 .. N - 1 : o[l] # Last(o)
  BY <1>o, OpenLevels
<1>2. fs \in Seq(Frames) /\ Len(fs) = N /\ \A l \in 1 .. N : fs[l] = LevelAt(t, o[l])
  BY Zenon DEF Levelled
<1>3. OpenAfter(u) = o
  <2>1. OpenAfter(u) = Turned(x, n + 1, o)
    BY OpenedFurther DEF Texts
  <2>2. x.kind \notin {"}", "]"} /\ x.kind \notin {"{", "["}
    OBVIOUS
  <2> QED BY <2>1, <2>2, Zenon DEF Turned
<1>4. ASSUME NEW l \in 1 .. N
      PROVE  LevelAt(u, o[l]) = IF l = N THEN w(LevelAt(t, o[l])) ELSE LevelAt(t, o[l])
  <2>1. o[l] \in 1 .. Len(t)
    BY <1>1
  <2>2. TakesKey(t, x, o[l]) <=> Last(o) = o[l]
    BY DEF TakesKey
  <2>3. l = N \/ l \in 1 .. N - 1
    BY ONLY <1>1, l \in 1 .. N
  <2>4. Last(o) = o[l] <=> l = N
    BY <1>1, <2>3
  <2> HIDE DEF o
  <2>5. LevelAt(u, o[l]) = IF TakesKey(t, x, o[l]) THEN WithKey(LevelAt(t, o[l]), x.name) ELSE LevelAt(t, o[l])
    BY <2>1, LevelFurther DEF Texts
  <2> QED BY <2>2, <2>4, <2>5
<1>5. ASSUME NEW f \in Frames PROVE w(f) \in Frames
  <2>1. PICK a \in {"dict", "list"}, b \in SUBSET KeyNames : f = [kind |-> a, keys |-> b]
    BY DEF Frames
  <2>2. w(f) = [kind |-> a, keys |-> b \cup {x.name}]
    BY <2>1, WithKeyIs
  <2> QED BY <1>o, <2>2 DEF Frames
<1> HIDE DEF o, u, n, N, w
<1>6. gs \in Seq(Frames) /\ Len(gs) = N /\ \A l \in 1 .. N : gs[l] = IF l = N THEN w(fs[l]) ELSE fs[l]
  BY ONLY <1>1, <1>2, <1>5
<1> HIDE DEF gs
<1>7. \A l \in 1 .. N : gs[l] = LevelAt(u, o[l])
  BY <1>2, <1>4, <1>6
<1>8. Levelled(u, gs)
  BY ONLY <1>3, <1>6, <1>7 DEF Levelled, N
<1>9. fs # <<>>
  BY ONLY <1>1, <1>2
<1> QED BY <1>3, <1>8, <1>9 DEF u, gs, o, w

(* A map has a key twice when the next one is there already, and not before.*)
LEMMA RepeatedFurther ==
    ASSUME NEW t \in Texts, NEW x \in Lexemes, ~Repeated(t), ~(x.kind = "str" /\ KeyPlace(t))
    PROVE  ~Repeated(Append(t, x))
<1> DEFINE u == Append(t, x)  n == Len(t)
<1>1. /\ n \in Nat /\ DOMAIN t = 1 .. n /\ DOMAIN u = 1 .. n + 1 /\ \A k \in 1 .. n : u[k] = t[k]
  BY FurtherIs DEF Texts
<1>2. ASSUME NEW i \in 1 .. n PROVE KeysAt(u, i) = KeysAt(t, i) /\ KeysAt(t, i) \subseteq 1 .. n
  <2>1. ~TakesKey(t, x, i)
    BY DEF TakesKey
  <2>2. KeysAt(u, i) = KeysAt(t, i) /\ KeysAt(t, i) \subseteq i + 1 .. n
    BY <2>1, KeysFurther DEF Texts
  <2>3. i + 1 .. n \subseteq 1 .. n
    BY ONLY <1>1, i \in 1 .. n
  <2> QED BY <2>2, <2>3
<1>3. KeysAt(u, n + 1) = {}
  BY NoKeysYet DEF Texts
<1> HIDE DEF u, n
<1> SUFFICES ASSUME Repeated(u) PROVE FALSE
  BY DEF u
<1>a. PICK i \in DOMAIN u : \E k, l \in KeysAt(u, i) : k # l /\ u[k].name = u[l].name
  BY Zenon DEF Repeated
<1>4. PICK k \in KeysAt(u, i), l \in KeysAt(u, i) : k # l /\ u[k].name = u[l].name
  BY <1>a
<1>5. i \in 1 .. n
  <2>1. i # n + 1
    BY <1>3, <1>4
  <2>2. i \in 1 .. n + 1
    BY <1>1, <1>4
  <2> QED BY ONLY <1>1, <2>1, <2>2
<1>6. k \in KeysAt(t, i) /\ l \in KeysAt(t, i) /\ k \in 1 .. n /\ l \in 1 .. n
  BY <1>2, <1>4, <1>5
<1>7. t[k].name = t[l].name /\ i \in DOMAIN t
  BY <1>1, <1>4, <1>5, <1>6
<1>8. Repeated(t)
  BY <1>4, <1>6, <1>7, Zenon DEF Repeated
<1> QED BY <1>8

(* A key is there twice exactly when the innermost frame has it already. *)
LEMMA KeyRepeats ==
    ASSUME NEW t \in Texts, NEW x \in Lexemes, ~Repeated(t), x.kind = "str", KeyPlace(t),
           NEW fs, Levelled(t, fs)
    PROVE  Repeated(Append(t, x)) <=> x.name \in Last(fs).keys
<1> DEFINE u == Append(t, x)  n == Len(t)  o == OpenAfter(t)  i == Last(o)
<1>1. /\ n \in Nat /\ DOMAIN t = 1 .. n /\ DOMAIN u = 1 .. n + 1 /\ u[n + 1] = x /\ \A k \in 1 .. n : u[k] = t[k]
  BY FurtherIs DEF Texts
<1>2. i \in 1 .. n /\ o # <<>> /\ Len(o) \in 1 .. Len(o) /\ i = o[Len(o)]
  <2>1. o # <<>>
    BY DEF KeyPlace
  <2> QED BY <2>1, OpenLevels
<1>3. ASSUME NEW j \in 1 .. n
      PROVE  /\ KeysAt(u, j) = IF j = i THEN KeysAt(t, j) \cup {n + 1} ELSE KeysAt(t, j)
             /\ KeysAt(t, j) \subseteq 1 .. n
  <2>1. TakesKey(t, x, j) <=> j = i
    BY DEF TakesKey
  <2> HIDE DEF i
  <2>2. /\ KeysAt(u, j) = (IF TakesKey(t, x, j) THEN KeysAt(t, j) \cup {n + 1} ELSE KeysAt(t, j))
        /\ KeysAt(t, j) \subseteq j + 1 .. n
    BY KeysFurther DEF Texts
  <2>3. j + 1 .. n \subseteq 1 .. n
    BY ONLY <1>1, j \in 1 .. n
  <2> QED BY <2>1, <2>2, <2>3
<1>4. KeysAt(u, n + 1) = {}
  BY NoKeysYet DEF Texts
<1>5. Last(fs).keys = {t[k].name : k \in KeysAt(t, i)}
  <2>1. fs \in Seq(Frames) /\ Len(fs) = Len(o) /\ \A l \in 1 .. Len(o) : fs[l] = LevelAt(t, o[l])
    BY Zenon DEF Levelled
  <2> HIDE DEF o, i
  <2>2. fs # <<>>
    BY ONLY <1>2, <2>1
  <2>3. Last(fs) = fs[Len(fs)]
    BY <2>1, <2>2, FrontIs
  <2>4. Last(fs) = LevelAt(t, i)
    BY <1>2, <2>1, <2>3
  <2>5. LevelAt(t, i).keys = {t[k].name : k \in KeysAt(t, i)}
    BY DEF LevelAt
  <2> QED BY <2>4, <2>5
<1>o. Append(t, x) = u
  OBVIOUS
<1> HIDE DEF u, n, i, o
<1>6. ASSUME x.name \in Last(fs).keys PROVE Repeated(u)
  <2>1. PICK k \in KeysAt(t, i) : x.name = t[k].name
    BY <1>5, <1>6
  <2>2. k \in 1 .. n /\ n + 1 \notin 1 .. n
    BY <1>1, <1>2, <1>3, <2>1
  <2>3. k \in KeysAt(u, i) /\ n + 1 \in KeysAt(u, i) /\ k # n + 1
    BY <1>2, <1>3, <2>1, <2>2
  <2>4. u[k].name = u[n + 1].name
    BY <1>1, <2>1, <2>2
  <2>5. i \in DOMAIN u
    BY ONLY <1>1, <1>2
  <2> QED BY <2>3, <2>4, <2>5, Zenon DEF Repeated
<1>7. ASSUME Repeated(u), x.name \notin Last(fs).keys PROVE FALSE
  <2>a. PICK j \in DOMAIN u : \E k, l \in KeysAt(u, j) : k # l /\ u[k].name = u[l].name
    BY <1>7, Zenon DEF Repeated
  <2>1. PICK k \in KeysAt(u, j), l \in KeysAt(u, j) : k # l /\ u[k].name = u[l].name
    BY <2>a
  <2>2. j \in 1 .. n
    <3>1. j # n + 1
      BY <1>4, <2>1
    <3>2. j \in 1 .. n + 1
      BY <1>1, <2>1
    <3> QED BY ONLY <1>1, <3>1, <3>2
  <2>3. ASSUME NEW p \in KeysAt(u, j), NEW q \in KeysAt(u, j), p # q, u[p].name = u[q].name, p # n + 1, q # n + 1
        PROVE  FALSE
    <3>1. p \in KeysAt(t, j) /\ q \in KeysAt(t, j) /\ p \in 1 .. n /\ q \in 1 .. n
      BY <1>3, <2>2, <2>3
    <3>2. t[p].name = t[q].name /\ j \in DOMAIN t
      BY <1>1, <2>2, <2>3, <3>1
    <3>3. Repeated(t)
      BY <2>3, <3>1, <3>2, Zenon DEF Repeated
    <3> QED BY <3>3
  <2>4. ASSUME NEW q \in KeysAt(u, j), q # n + 1, u[q].name = u[n + 1].name, n + 1 \in KeysAt(u, j)
        PROVE  FALSE
    <3>1. j = i
      <4>1. n + 1 \notin 1 .. n
        BY <1>1
      <4> QED BY <1>3, <2>2, <2>4, <4>1
    <3>2. q \in KeysAt(t, i) /\ q \in 1 .. n
      BY <1>3, <2>2, <2>4, <3>1
    <3>3. t[q].name = x.name
      BY <1>1, <2>4, <3>2
    <3> QED BY <1>5, <1>7, <3>2, <3>3
  <2>5. CASE k = n + 1
    BY <2>1, <2>4, <2>5
  <2>6. CASE l = n + 1
    BY <2>1, <2>4, <2>6
  <2>7. CASE k # n + 1 /\ l # n + 1
    BY <2>1, <2>3, <2>7
  <2> QED BY <2>5, <2>6, <2>7
<1> QED BY <1>6, <1>7, <1>o

-------------------------------------------------------------------------------
(* The invariant: the decoder is where its text is. *)

(* How far the decoder is when it has read t: its frames, its place and the *)
(* value that it has built.                                                 *)
Gone(t, fs, w, o) ==
    /\ Levelled(t, fs) /\ w = EndOf(t) /\ w # "failed" /\ o = Says(t)
    /\ Within(t) /\ ~Repeated(t)
    /\ t # <<>> => o # <<>> /\ (Head(o).kind = "dict" <=> t[1].kind = "{")

(* So it is before anything is read. *)
LEMMA NothingRead ==
    /\ <<>> \in Texts /\ Gone(<<>>, <<>>, "value", <<>>)
    /\ BudgetOf(<<>>) = DocumentBudget(DOCUMENT_BYTES)
<1> DEFINE e == <<>>
<1>1. /\ e \in Texts /\ Len(e) = 0 /\ DOMAIN e = {}
      /\ e \in Seq(Frames) /\ 0 .. Len(e) = {0} /\ 0 \in 0 .. Len(e)
  BY DEF Texts
<1>2. Opened(e)[0] = e /\ OpenAfter(e) = e
  <2>1. Opened(e)[0] = e
    BY <1>1, OpenedIs DEF Texts
  <2> QED BY <1>1, <2>1 DEF OpenAfter
<1>3. EndOf(e) = "value"
  <2>1. Goes(e, Sites(e))
    BY <1>1, SitesAre DEF Texts
  <2>2. Sites(e)[0] = "value"
    BY <2>1, Zenon DEF Goes
  <2> QED BY <1>1, <2>2 DEF EndOf
<1>4. Levelled(e, e)
  <2>1. \A l \in 1 .. 0 : FALSE
    OBVIOUS
  <2> HIDE DEF e
  <2> QED BY <1>1, <1>2, <2>1 DEF Levelled
<1>5. NodesOf(e) = 0 /\ BytesOf(e) = 0
  <2>1. [i \in DOMAIN e |-> NodesIn(e[i])] = <<>> /\ [i \in DOMAIN e |-> BytesIn(e[i])] = <<>>
    OBVIOUS
  <2> QED BY <2>1, TotalOfFew DEF NodesOf, BytesOf
<1>6. Says(e) = <<>>
  <2>1. [i \in DOMAIN e |-> Written(e[i])] = <<>>
    OBVIOUS
  <2>2. FlattenSeq(<<>>) = <<>>
    BY Zenon, <1>1 DEF FlattenSeq
  <2> QED BY <2>1, <2>2 DEF Says
<1>7. Within(e)
  <2>1. 0 =< NODES /\ 0 =< DOCUMENT_BYTES /\ 0 =< DEPTH
    BY LimitsAre
  <2>2. \A n \in 0 .. Len(e) : Len(Opened(e)[n]) =< DEPTH
    <3> HIDE DEF e
    <3> QED BY <1>1, <1>2, <2>1
  <2> HIDE DEF e
  <2> QED BY <1>5, <2>1, <2>2, Zenon DEF Within
<1>8. ~Repeated(e)
  BY <1>1, Zenon DEF Repeated
<1>9. BudgetOf(e) = DocumentBudget(DOCUMENT_BYTES)
  BY <1>5, BudgetIs DEF DocumentBudget, NoCounts
<1> HIDE DEF e
<1>10. Gone(e, e, "value", e)
  <2>1. e = <<>>
    BY DEF e
  <2> QED BY <1>3, <1>4, <1>6, <1>7, <1>8, <2>1, Zenon DEF Gone
<1> QED BY <1>1, <1>9, <1>10 DEF e

(* Two sequences begin as the first does. *)
LEMMA HeadOfBoth == \A P : \A a, b \in Seq(P) : a # <<>> => a \o b # <<>> /\ Head(a \o b) = Head(a)
<1> QED OBVIOUS

(* The value begins with the text. *)
LEMMA GoneFurther ==
    ASSUME NEW t \in Texts, NEW x \in Lexemes, NEW fs, NEW w, NEW o, Gone(t, fs, w, o),
           NEW gs, Levelled(Append(t, x), gs), NEW v, v = Moved(t, OpenAfter(t), w, x), v # "failed",
           NEW p, p = o \o Written(x), Within(Append(t, x)), ~Repeated(Append(t, x))
    PROVE  Gone(Append(t, x), gs, v, p)
<1> DEFINE u == Append(t, x)
<1>1. /\ w = EndOf(t) /\ o = Says(t) /\ (t # <<>> => o # <<>> /\ (Head(o).kind = "dict" <=> t[1].kind = "{"))
  BY Zenon DEF Gone
<1>2. v = EndOf(u)
  BY <1>1, EndFurther DEF Texts
<1>3. p = Says(u) /\ o \in Seq(Pieces) /\ Written(x) \in Seq(Pieces)
  BY <1>1, SaysFurther
<1>4. p # <<>> /\ (Head(p).kind = "dict" <=> u[1].kind = "{")
  <2>1. CASE t = <<>>
    <3>1. EndOf(t) = "value" /\ OpenAfter(t) = <<>>
      <4>0. Len(t) = 0 /\ 0 \in 0 .. Len(t)
        BY ONLY <2>1
      <4>1. Goes(t, Sites(t)) /\ Len(t) = 0 /\ 0 \in 0 .. Len(t)
        BY ONLY <4>0, t \in Texts, SitesAre DEF Texts
      <4>2. Sites(t)[0] = "value"
        BY <4>1, Zenon DEF Goes
      <4>3. Opened(t)[0] = <<>>
        BY OpenedIs DEF Texts
      <4> QED BY <4>1, <4>2, <4>3 DEF EndOf, OpenAfter
    <3>2. u[1] = x
      <4>1. Len(t) + 1 = 1
        BY <2>1
      <4> QED BY <4>1, FurtherIs DEF Texts
    <3>3. o = <<>>
      <4>1. [i \in DOMAIN t |-> Written(t[i])] = <<>>
        BY <2>1
      <4>2. FlattenSeq(<<>>) = <<>>
        <5>1. Len(<<>>) = 0
          OBVIOUS
        <5> QED BY <5>1, Zenon DEF FlattenSeq
      <4> QED BY <1>1, <4>1, <4>2 DEF Says
    <3>4. IsScalar(x) \/ x.kind = "{" \/ x.kind = "["
      <4>1. w = "value"
        BY <1>1, <3>1
      <4>2. ~Shuts(t, <<>>, "value", x)
        BY DEF Shuts
      <4> QED BY <3>1, <4>1, <4>2 DEF Moved
    <3>5. PICK e : /\ Written(x) = <<e>> /\ (e.kind = "dict" <=> x.kind = "{")
      <4>1. CASE IsScalar(x)
        <5>1. x.kind = "literal" \/ x.kind = "str" \/ x.kind = "num"
          BY <4>1 DEF IsScalar
        <5>2. Written(x) = <<x>>
          BY <5>1 DEF Written
        <5> QED BY <5>1, <5>2
      <4>2. CASE x.kind = "{"
        <5>1. Written(x) = <<[kind |-> "dict"]>>
          BY <4>2 DEF Written
        <5>2. [kind |-> "dict"].kind = "dict"
          OBVIOUS
        <5> QED BY <4>2, <5>1, <5>2
      <4>3. CASE x.kind = "["
        <5>1. Written(x) = <<[kind |-> "list"]>>
          BY <4>3 DEF Written
        <5>2. [kind |-> "list"].kind # "dict"
          OBVIOUS
        <5> QED BY <4>3, <5>1, <5>2
      <4> QED BY <3>4, <4>1, <4>2, <4>3
    <3>6. p = <<e>>
      <4>1. <<e>> \in Seq({e}) /\ <<>> \o <<e>> = <<e>>
        OBVIOUS
      <4> QED BY <3>3, <3>5, <4>1
    <3>7. p # <<>> /\ Head(p) = e
      BY <3>6
    <3> QED BY <3>2, <3>5, <3>7
  <2>2. CASE t # <<>>
    <3>1. o # <<>> /\ (Head(o).kind = "dict" <=> t[1].kind = "{")
      BY <1>1, <2>2
    <3>2. p # <<>> /\ Head(p) = Head(o)
      <4>1. o # <<>>
        BY <3>1
      <4> QED BY <1>3, <4>1, HeadOfBoth
    <3>3. u[1] = t[1]
      <4>1. 1 \in 1 .. Len(t)
        BY <2>2 DEF Texts
      <4> QED BY <4>1, FurtherIs DEF Texts
    <3> QED BY <3>1, <3>2, <3>3
  <2> QED BY <2>1, <2>2
<1> HIDE DEF u
<1> QED BY <1>2, <1>3, <1>4, Zenon DEF Gone, u

(* The innermost frame and the innermost bracket. *)
LEMMA TopIs ==
    ASSUME NEW t \in Texts, NEW fs, Levelled(t, fs)
    PROVE  /\ fs \in Seq(Frames) /\ Len(fs) = Len(OpenAfter(t)) /\ (fs = <<>> <=> OpenAfter(t) = <<>>)
           /\ fs # <<>> => /\ Last(fs).kind = IF TopOf(t, OpenAfter(t)) = "{" THEN "dict" ELSE "list"
                           /\ TopOf(t, OpenAfter(t)) = "{" \/ TopOf(t, OpenAfter(t)) = "["
                           /\ Last(fs) \in Frames
<1> DEFINE o == OpenAfter(t)
<1>1. Nested(t, Len(t), o) /\ o \in Seq(Nat)
  BY EndIs DEF Texts
<1>2. fs \in Seq(Frames) /\ Len(fs) = Len(o) /\ \A l \in 1 .. Len(o) : fs[l] = LevelAt(t, o[l])
  BY Zenon DEF Levelled
<1> HIDE DEF o
<1>3. fs = <<>> <=> o = <<>>
  BY <1>1, <1>2
<1>4. ASSUME fs # <<>>
      PROVE  /\ Last(fs).kind = IF TopOf(t, o) = "{" THEN "dict" ELSE "list"
             /\ TopOf(t, o) = "{" \/ TopOf(t, o) = "["
             /\ Last(fs) \in Frames
  <2>1. Len(o) \in 1 .. Len(o) /\ Last(o) = o[Len(o)] /\ Last(fs) = fs[Len(fs)] /\ Last(fs) \in Frames
    BY <1>1, <1>2, <1>3, <1>4, FrontIs
  <2>2. Last(fs) = LevelAt(t, Last(o))
    BY <1>2, <2>1
  <2>3. t[Last(o)].kind \in {"{", "["}
    BY <1>1, <2>1 DEF Nested
  <2> DEFINE k == TopOf(t, o)
  <2>4. t[Last(o)].kind = k /\ (k = "{" \/ k = "[")
    BY <2>3 DEF TopOf
  <2> HIDE DEF k
  <2>5. Last(fs).kind = IF k = "{" THEN "dict" ELSE "list"
    <3>1. \A i : LevelAt(t, i).kind = IF t[i].kind = "{" THEN "dict" ELSE "list"
      BY ONLY TRUE DEF LevelAt
    <3> QED BY ONLY <2>2, <2>4, <3>1
  <2> QED BY <2>1, <2>4, <2>5 DEF k
<1> QED BY <1>2, <1>3, <1>4 DEF o

(* What is charged, and what the charge says. *)
Costs(x) == x.kind = "str" \/ x.kind = "num" \/ x.kind = "literal"

(* A scalar or a key costs a node and its bytes, *)
LEMMA CostIs ==
    ASSUME NEW t \in Texts, NEW fs, NEW w, NEW o, Gone(t, fs, w, o), NEW x \in Lexemes, Costs(x)
    PROVE  /\ OpenAfter(Append(t, x)) = OpenAfter(t)
           /\ Admits(BudgetOf(t), x.bytes, 1, Len(fs)) <=> Within(Append(t, x))
           /\ BudgetOf(Append(t, x)) = Charge(BudgetOf(t), x.bytes, 1)
           /\ Written(x) = <<x>>
<1>1. NodesIn(x) = 1 /\ BytesIn(x) = x.bytes
  BY DEF Costs, NodesIn, BytesIn
<1>2. OpenAfter(Append(t, x)) = OpenAfter(t)
  <2>1. OpenAfter(Append(t, x)) = Turned(x, Len(t) + 1, OpenAfter(t))
    BY OpenedFurther DEF Texts
  <2>2. x.kind \notin {"}", "]"} /\ x.kind \notin {"{", "["}
    BY DEF Costs
  <2> QED BY <2>1, <2>2, Zenon DEF Turned
<1>3. Levelled(t, fs) /\ Within(t)
  BY Zenon DEF Gone
<1>4. Len(fs) = Len(OpenAfter(Append(t, x)))
  BY <1>2, <1>3, TopIs
<1>5. Admits(BudgetOf(t), x.bytes, 1, Len(fs)) <=> Within(Append(t, x))
  BY <1>1, <1>3, <1>4, ChargeIsWithin
<1>6. BudgetOf(Append(t, x)) = Charge(BudgetOf(t), x.bytes, 1)
  BY <1>1, BudgetFurther
<1>7. Written(x) = <<x>>
  BY DEF Costs, Written
<1> QED BY <1>2, <1>5, <1>6, <1>7

(* and a container a node, one level further in. *)
LEMMA OpeningCosts ==
    ASSUME NEW t \in Texts, NEW fs, NEW w, NEW o, Gone(t, fs, w, o), NEW x \in Lexemes, Opens(x)
    PROVE  /\ Admits(BudgetOf(t), 0, 1, Len(fs) + 1) <=> Within(Append(t, x))
           /\ BudgetOf(Append(t, x)) = Charge(BudgetOf(t), 0, 1)
           /\ Written(x) = <<[kind |-> Frame(x).kind]>>
<1>1. NodesIn(x) = 1 /\ BytesIn(x) = 0
  BY DEF Opens, NodesIn, BytesIn
<1>2. Levelled(t, fs) /\ Within(t)
  BY Zenon DEF Gone
<1>3. OpenAfter(t) \in Seq(Nat) /\ Len(fs) = Len(OpenAfter(t)) /\ Len(OpenAfter(t)) \in Nat
  BY <1>2, TopIs, OpenLevels
<1>4. Len(OpenAfter(Append(t, x))) = Len(fs) + 1
  <2>1. OpenAfter(Append(t, x)) = Turned(x, Len(t) + 1, OpenAfter(t))
    BY OpenedFurther DEF Texts
  <2>2. x.kind \in {"{", "["}
    BY DEF Opens
  <2>3. OpenAfter(Append(t, x)) = Append(OpenAfter(t), Len(t) + 1)
    BY <2>1, <2>2, Zenon DEF Turned
  <2>4. Len(t) + 1 \in Nat
    BY DEF Texts
  <2> QED BY ONLY <1>3, <2>3, <2>4
<1>5. Admits(BudgetOf(t), 0, 1, Len(fs) + 1) <=> Within(Append(t, x))
  BY <1>1, <1>2, <1>4, ChargeIsWithin
<1>6. BudgetOf(Append(t, x)) = Charge(BudgetOf(t), 0, 1)
  BY <1>1, BudgetFurther
<1>7. Written(x) = <<[kind |-> Frame(x).kind]>>
  <2>1. x.kind = "{" => Written(x) = <<[kind |-> "dict"]>> /\ Frame(x).kind = "dict"
    BY DEF Written, Frame
  <2>2. x.kind = "[" => Written(x) = <<[kind |-> "list"]>> /\ Frame(x).kind = "list"
    BY DEF Written, Frame
  <2> QED BY <2>1, <2>2 DEF Opens
<1> QED BY <1>5, <1>6, <1>7

(* One lexeme further, by what it is. *)
LEMMA ScalarGoes ==
    ASSUME NEW t \in Texts, NEW fs, NEW w, NEW o, Gone(t, fs, w, o), NEW x \in Lexemes,
           IsScalar(x), w = "value" \/ w = "first value", Within(Append(t, x))
    PROVE  Gone(Append(t, x), fs, After(fs), Append(o, x))
<1>1. Levelled(t, fs) /\ w = EndOf(t) /\ o = Says(t) /\ ~Repeated(t)
  BY Zenon DEF Gone
<1>2. Costs(x) /\ ~Opens(x) /\ ~Shutting(x)
  BY DEF IsScalar, Costs, Opens, Shutting
<1>3. ~KeyPlace(t)
  <2>1. EndOf(t) \in {"value", "first value"}
    BY <1>1
  <2> QED BY <2>1, KeyPlaces DEF Texts
<1>4. Levelled(Append(t, x), fs)
  BY <1>1, <1>2, <1>3, PlainLevelled
<1>5. ~Repeated(Append(t, x))
  BY <1>1, <1>3, RepeatedFurther
<1>6. Moved(t, OpenAfter(t), w, x) = After(fs) /\ After(fs) # "failed"
  <2>1. After(OpenAfter(t)) = After(fs) /\ After(fs) # "failed"
    <3>1. fs = <<>> <=> OpenAfter(t) = <<>>
      BY <1>1, TopIs
    <3>2. "end" # "failed" /\ "next" # "failed"
      OBVIOUS
    <3> QED BY ONLY <3>1, <3>2, Zenon DEF After
  <2>2. Moved(t, OpenAfter(t), w, x) = After(OpenAfter(t))
    BY Zenon DEF Moved
  <2> QED BY <2>1, <2>2
<1>7. Append(o, x) = o \o Written(x)
  <2>1. Written(x) = <<x>>
    BY <1>2, CostIs
  <2>2. o \in Seq(Pieces) /\ x \in Pieces
    BY <1>1, SaysFurther DEF Pieces
  <2> QED BY <2>1, <2>2, AppendIsConcat
<1> QED BY <1>4, <1>5, <1>6, <1>7, GoneFurther

(* A bracket opens a container where a value is due. *)
LEMMA OpenGoes ==
    ASSUME NEW t \in Texts, NEW fs, NEW w, NEW o, Gone(t, fs, w, o), NEW x \in Lexemes,
           Opens(x), w = "value" \/ w = "first value", Within(Append(t, x))
    PROVE  Gone(Append(t, x), Append(fs, Frame(x)), IF x.kind = "{" THEN "first key" ELSE "first value",
                Append(o, [kind |-> Frame(x).kind]))
<1>1. Levelled(t, fs) /\ w = EndOf(t) /\ o = Says(t) /\ ~Repeated(t)
  BY Zenon DEF Gone
<1>2. x.kind # "str" /\ ~IsScalar(x)
  BY DEF Opens, IsScalar
<1>4. Levelled(Append(t, x), Append(fs, Frame(x)))
  BY <1>1, OpenLevelled
<1>5. ~Repeated(Append(t, x))
  BY <1>1, <1>2, RepeatedFurther
<1> DEFINE v == IF x.kind = "{" THEN "first key" ELSE "first value"
<1>6. Moved(t, OpenAfter(t), w, x) = v /\ v # "failed"
  <2>1. x.kind = "{" \/ x.kind = "["
    BY DEF Opens
  <2> QED BY <1>2, <2>1 DEF Moved
<1>7. Append(o, [kind |-> Frame(x).kind]) = o \o Written(x)
  <2>1. Written(x) = <<[kind |-> Frame(x).kind]>>
    BY OpeningCosts
  <2>2. o \in Seq(Pieces)
    BY <1>1, SaysFurther
  <2>3. [kind |-> Frame(x).kind] \in Pieces
    BY DEF Pieces, Frame
  <2> QED BY <2>1, <2>2, <2>3, AppendIsConcat
<1> HIDE DEF v
<1>8. Gone(Append(t, x), Append(fs, Frame(x)), v, Append(o, [kind |-> Frame(x).kind]))
  BY <1>4, <1>5, <1>6, <1>7, GoneFurther
<1> QED BY <1>8 DEF v

(* A bracket closes the innermost container. *)
LEMMA CloseGoes ==
    ASSUME NEW t \in Texts, NEW fs, NEW w, NEW o, Gone(t, fs, w, o), NEW x \in Lexemes,
           Shuts(t, OpenAfter(t), w, x)
    PROVE  /\ Gone(Append(t, x), Front(fs), After(Front(fs)), Append(o, [kind |-> "end"]))
           /\ BudgetOf(Append(t, x)) = BudgetOf(t)
<1>1. Levelled(t, fs) /\ w = EndOf(t) /\ o = Says(t) /\ ~Repeated(t) /\ Within(t)
  BY Zenon DEF Gone
<1>2. OpenAfter(t) # <<>> /\ Shutting(x)
  BY DEF Shuts, Shutting
<1>3. /\ x.kind # "str" /\ ~IsScalar(x)
      /\ x.kind \in {"}", "]", ":", ",", "end"} /\ x.kind \notin {"{", "[", "str", ":", ","}
  BY <1>2 DEF Shutting, IsScalar
<1>4. /\ Levelled(Append(t, x), Front(fs)) /\ fs # <<>> /\ OpenAfter(Append(t, x)) = Front(OpenAfter(t))
  BY <1>1, <1>2, CloseLevelled
<1>5. ~Repeated(Append(t, x))
  BY <1>1, <1>3, RepeatedFurther
<1>6. Within(Append(t, x)) /\ BudgetOf(Append(t, x)) = BudgetOf(t)
  BY <1>1, <1>3, UnchargedIsWithin
<1>7. Moved(t, OpenAfter(t), w, x) = After(Front(fs)) /\ After(Front(fs)) # "failed"
  <2>1. Append(t, x) \in Texts
    BY FurtherIs DEF Texts
  <2>2. Front(fs) = <<>> <=> Front(OpenAfter(t)) = <<>>
    BY <1>4, <2>1, TopIs
  <2>3. After(Front(OpenAfter(t))) = After(Front(fs)) /\ After(Front(fs)) # "failed"
    BY <2>2 DEF After
  <2>4. Moved(t, OpenAfter(t), w, x) = After(Front(OpenAfter(t)))
    BY <1>3 DEF Moved
  <2> QED BY <2>3, <2>4
<1>8. Append(o, [kind |-> "end"]) = o \o Written(x)
  <2>1. Written(x) = <<[kind |-> "end"]>>
    BY <1>2 DEF Written, Shutting
  <2>2. o \in Seq(Pieces) /\ [kind |-> "end"] \in Pieces
    BY <1>1, SaysFurther DEF Pieces
  <2> QED BY <2>1, <2>2, AppendIsConcat
<1> QED BY <1>4, <1>5, <1>6, <1>7, <1>8, GoneFurther

(* A string that is no key yet becomes one. *)
LEMMA KeyGoes ==
    ASSUME NEW t \in Texts, NEW fs, NEW w, NEW o, Gone(t, fs, w, o), NEW x \in Lexemes,
           x.kind = "str", x.fault = "none", w = "key" \/ w = "first key", Within(Append(t, x)),
           x.name \notin Last(fs).keys
    PROVE  Gone(Append(t, x), [fs EXCEPT ![Len(fs)] = WithKey(@, x.name)], "colon", Append(o, x))
<1>1. Levelled(t, fs) /\ w = EndOf(t) /\ o = Says(t) /\ ~Repeated(t)
  BY Zenon DEF Gone
<1>2. KeyPlace(t)
  <2>1. EndOf(t) \in {"key", "first key"}
    BY <1>1
  <2> QED BY <2>1, KeyPlaces DEF Texts
<1> DEFINE gs == [fs EXCEPT ![Len(fs)] = WithKey(@, x.name)]
<1>3. Levelled(Append(t, x), gs)
  BY <1>1, <1>2, KeyLevelled
<1>4. ~Repeated(Append(t, x))
  BY <1>1, <1>2, KeyRepeats
<1>5. Moved(t, OpenAfter(t), w, x) = "colon"
  BY DEF Moved
<1>6. Append(o, x) = o \o Written(x)
  <2>1. Written(x) = <<x>>
    BY CostIs DEF Costs
  <2>2. o \in Seq(Pieces) /\ x \in Pieces
    BY <1>1, SaysFurther DEF Pieces
  <2> QED BY <2>1, <2>2, AppendIsConcat
<1> HIDE DEF gs
<1>7. Gone(Append(t, x), gs, "colon", Append(o, x))
  <2>1. "colon" # "failed"
    OBVIOUS
  <2> QED BY <1>3, <1>4, <1>5, <1>6, <2>1, GoneFurther
<1> QED BY <1>7 DEF gs

(* A colon or a comma builds nothing. *)
LEMMA SeparatorGoes ==
    ASSUME NEW t \in Texts, NEW fs, NEW w, NEW o, Gone(t, fs, w, o), NEW x \in Lexemes,
           x.kind = ":" \/ x.kind = ",", NEW v, v = Moved(t, OpenAfter(t), w, x), v # "failed"
    PROVE  Gone(Append(t, x), fs, v, o) /\ BudgetOf(Append(t, x)) = BudgetOf(t)
<1>1. Levelled(t, fs) /\ w = EndOf(t) /\ o = Says(t) /\ ~Repeated(t) /\ Within(t)
  BY Zenon DEF Gone
<1>2. x.kind # "str" /\ ~Opens(x) /\ ~Shutting(x) /\ x.kind \in {"}", "]", ":", ",", "end"}
  BY DEF Opens, Shutting
<1>3. Levelled(Append(t, x), fs)
  BY <1>1, <1>2, PlainLevelled
<1>4. ~Repeated(Append(t, x))
  BY <1>1, <1>2, RepeatedFurther
<1>5. Within(Append(t, x)) /\ BudgetOf(Append(t, x)) = BudgetOf(t)
  BY <1>1, <1>2, UnchargedIsWithin
<1>6. o = o \o Written(x)
  <2>1. Written(x) = <<>>
    BY DEF Written
  <2>2. o \in Seq(Pieces)
    BY <1>1, SaysFurther
  <2>3. \A p \in Seq(Pieces) : p = p \o <<>>
    BY ConcatEmptySeq
  <2> QED BY ONLY <2>1, <2>2, <2>3
<1> QED BY <1>3, <1>4, <1>5, <1>6, GoneFurther

(* The decoder has gone as far as its text; while a token is read it waits; *)
(* and what it has returned is so.                                          *)
Decoding ==
    /\ long \in BOOLEAN /\ text \in Texts
    /\ answer # "none" => status = "running"
    /\ status = "called" => text = <<>>
    /\ status = "running" => ~long
    /\ status = "called" \/ status = "running" => Gone(text, frames, at, out)
    /\ (status = "called" \/ status = "running") /\ answer = "none" => budget = BudgetOf(text)
    /\ DoneIsWritten /\ ReadsExactlyJson /\ RefusalsAreTruthful

(* What is to blame when x is refused after t. *)
Blames(t, x, e) ==
    /\ e \notin {"called", "running", "done"}
    /\ e = "syntax" => IF x.kind = "end" THEN EndOf(t) # "end" ELSE EndOf(Append(t, x)) = "failed"
    /\ e = "unicode" \/ e = "overflow" \/ e = "nonfinite" =>
          /\ x.kind = "nan" \/ x.fault = e
          /\ e = "unicode" => Within(Append(t, x))
    /\ e = "duplicate" => Repeated(Append(t, x)) /\ Within(Append(t, x))
    /\ e = "type" => x.kind = "end" /\ EndOf(t) = "end" /\ t # <<>> /\ t[1].kind # "{"
    /\ e = "budget" => ~Within(Append(t, x))

(* A lexeme with which some object still begins keeps the invariant, *)
LEMMA GoesOn ==
    ASSUME Decoding, answer = "none", answer' = answer, NEW x \in Lexemes, text' = Append(text, x),
           long' = long, ~long, status' = "running", Gone(text', frames', at', out'), budget' = BudgetOf(text')
    PROVE  Decoding'
<1>1. long' \in BOOLEAN /\ text' \in Texts
  <2>1. text \in Texts /\ long \in BOOLEAN
    BY DEF Decoding
  <2> QED BY <2>1, FurtherIs DEF Texts
<1>2. Viable(text') /\ Within(text') /\ ~Repeated(text')
  <2>1. at' = EndOf(text') /\ at' # "failed" /\ Within(text') /\ ~Repeated(text')
    BY Zenon DEF Gone
  <2>2. EndOf(text') # "failed"
    BY <2>1
  <2> QED BY <1>1, <2>1, <2>2, ViableIs DEF Texts
<1>3. DoneIsWritten' /\ ReadsExactlyJson' /\ RefusalsAreTruthful'
  BY <1>2 DEF DoneIsWritten, ReadsExactlyJson, RefusalsAreTruthful
<1> QED BY <1>1, <1>3 DEF Decoding

(* and so do one that is refused for what it is to blame for *)
LEMMA Refused ==
    ASSUME Decoding, answer = "none", answer' = answer, NEW x \in Lexemes, text' = Append(text, x),
           long' = long, status = "running", NEW e, status' = e, Blames(text, x, e)
    PROVE  Decoding'
<1>0. text \in Texts /\ long \in BOOLEAN
  BY DEF Decoding
<1>1. /\ text' \in Texts /\ text' # <<>> /\ Last(text') = x /\ Front(text') = text
      /\ text # <<>> => text'[1] = text[1]
  <2>1. /\ text' \in Texts /\ text' # <<>> /\ Last(text') = x
        /\ Front(text') = text /\ \A k \in 1 .. Len(text) : text'[k] = text[k]
    BY <1>0, FurtherIs DEF Texts
  <2>2. text # <<>> => 1 \in 1 .. Len(text)
    BY <1>0 DEF Texts
  <2> QED BY <2>1, <2>2
<1>2. EndOf(text) # "failed" /\ Within(text) /\ ~Repeated(text) /\ Viable(text)
  <2>1. Gone(text, frames, at, out)
    BY DEF Decoding
  <2>2. at = EndOf(text) /\ at # "failed" /\ Within(text) /\ ~Repeated(text)
    BY <2>1, Zenon DEF Gone
  <2>3. EndOf(text) # "failed"
    BY <2>2
  <2> QED BY <1>0, <2>2, <2>3, ViableIs DEF Texts
<1>3. WellFormed(text) <=> EndOf(text) = "end"
  BY <1>0, EndIs DEF Texts
<1>4. Viable(text') <=> EndOf(text') # "failed"
  BY <1>1, ViableIs DEF Texts
<1>5. Ended' <=> x.kind = "end"
  BY <1>1 DEF Ended
<1>6. Ended' => Content' = text
  BY <1>1 DEF Content
<1>7. status' # "running" /\ status' # "done" /\ status' # "called"
  BY DEF Blames
<1>8. RefusalsAreTruthful'
  <2>1. ASSUME status' = "syntax"
        PROVE  IF Ended' THEN ~WellFormed(Content') ELSE ~Viable(text') /\ Viable(Front(text'))
    <3>1. IF x.kind = "end" THEN EndOf(text) # "end" ELSE EndOf(text') = "failed"
      BY <2>1 DEF Blames
    <3> QED BY <1>1, <1>2, <1>3, <1>4, <1>5, <1>6, <3>1
  <2>2. ASSUME status' \in {"unicode", "overflow", "nonfinite"}
        PROVE  /\ Viable(Front(text')) /\ Within(Front(text'))
               /\ Last(text').kind = "nan" \/ Last(text').fault = status'
               /\ status' = "unicode" => Within(text')
    <3>1. (x.kind = "nan" \/ x.fault = e) /\ (e = "unicode" => Within(text'))
      BY <2>2 DEF Blames
    <3> QED BY <1>1, <1>2, <3>1
  <2>3. ASSUME status' = "duplicate" PROVE Repeated(text') /\ ~Repeated(Front(text')) /\ Within(text')
    <3>1. Repeated(text') /\ Within(text')
      BY <2>3 DEF Blames
    <3> QED BY <1>1, <1>2, <3>1
  <2>4. ASSUME status' = "type" PROVE Ended' /\ WellFormed(Content') /\ text'[1].kind # "{"
    <3>1. x.kind = "end" /\ EndOf(text) = "end" /\ text # <<>> /\ text[1].kind # "{"
      BY <2>4 DEF Blames
    <3> QED BY <1>1, <1>3, <1>5, <1>6, <3>1
  <2>5. ASSUME status' = "budget"
        PROVE  long' \/ (Viable(Front(text')) /\ Within(Front(text')) /\ ~Within(text'))
    <3>1. ~Within(text')
      BY <2>5 DEF Blames
    <3> QED BY <1>1, <1>2, <3>1
  <2> QED BY <2>1, <2>2, <2>3, <2>4, <2>5, Zenon DEF RefusalsAreTruthful
<1>9. DoneIsWritten' /\ ReadsExactlyJson'
  BY <1>7 DEF DoneIsWritten, ReadsExactlyJson
<1> QED BY <1>0, <1>1, <1>7, <1>8, <1>9 DEF Decoding

(* and the end of the text after an object. *)
LEMMA Finished ==
    ASSUME Decoding, answer = "none", answer' = answer, NEW x \in Lexemes, text' = Append(text, x),
           long' = long, status = "running", status' = "done", at = "end", x.kind = "end",
           Head(out).kind = "dict", budget' = budget, out' = out
    PROVE  Decoding'
<1>0. text \in Texts /\ long \in BOOLEAN /\ ~long /\ Gone(text, frames, at, out) /\ budget = BudgetOf(text)
  BY DEF Decoding
<1>1. /\ EndOf(text) = "end" /\ Levelled(text, frames) /\ out = Says(text) /\ Within(text) /\ ~Repeated(text)
      /\ text # <<>> => (Head(out).kind = "dict" <=> text[1].kind = "{")
  <2>1. at = EndOf(text)
    BY <1>0, Zenon DEF Gone
  <2> QED BY <1>0, <2>1, Zenon DEF Gone
<1>2. WellFormed(text)
  BY <1>0, <1>1, EndIs DEF Texts
<1>3. text # <<>>
  BY <1>2, Zenon DEF WellFormed
<1>4. /\ text' \in Texts /\ text' # <<>> /\ Last(text') = x /\ Front(text') = text /\ text'[1] = text[1]
  <2>1. /\ text' \in Texts /\ text' # <<>> /\ Last(text') = x
        /\ Front(text') = text /\ \A k \in 1 .. Len(text) : text'[k] = text[k]
    BY <1>0, FurtherIs DEF Texts
  <2>2. 1 \in 1 .. Len(text)
    BY ONLY <1>0, <1>3 DEF Texts
  <2> QED BY <2>1, <2>2
<1>5. Ended' /\ Content' = text
  <2>1. Ended'
    BY <1>4 DEF Ended
  <2> QED BY <1>4, <2>1 DEF Content
<1>6. BudgetOf(text') = BudgetOf(text) /\ Says(text') = Says(text)
  <2>1. x.kind \in {"}", "]", ":", ",", "end"}
    OBVIOUS
  <2>2. BudgetOf(text') = BudgetOf(text)
    BY <1>0, <1>1, <2>1, UnchargedIsWithin
  <2>3. Written(x) = <<>>
    BY DEF Written
  <2>4. Says(text') = Says(text) \o <<>> /\ Says(text) \in Seq(Pieces)
    BY <1>0, <2>3, SaysFurther
  <2> QED BY <2>2, <2>4, ConcatEmptySeq
<1>7. ReadsExactlyJson'
  <2>1. text'[1].kind = "{"
    BY <1>1, <1>3, <1>4
  <2> QED BY <1>0, <1>1, <1>2, <1>5, <2>1 DEF ReadsExactlyJson
<1>8. DoneIsWritten'
  <2>1. out' = Says(text')
    BY <1>1, <1>6
  <2>2. budget'.counts = [bytes |-> BytesOf(text'), nodes |-> NodesOf(text')]
    BY <1>0, <1>6, BudgetIs
  <2> QED BY <2>1, <2>2 DEF DoneIsWritten, Says
<1>9. RefusalsAreTruthful'
  BY DEF RefusalsAreTruthful
<1> QED BY <1>0, <1>4, <1>7, <1>8, <1>9 DEF Decoding

(* What the error of a lexeme says of it. *)
LEMMA ErrorIs ==
    ASSUME text \in Texts, Gone(text, frames, at, out), budget = BudgetOf(text), NEW x \in Lexemes
    PROVE  /\ x.kind = "str" =>
                /\ TextError(x) \in {"none", "syntax", "unicode", "budget"}
                /\ TextError(x) = "budget" <=> ~Within(Append(text, x))
                /\ TextError(x) # "budget" => TextError(x) = x.fault
           /\ x.kind = "num" =>
                /\ NumberError(x) \in {"none", "syntax", "overflow", "nonfinite", "budget"}
                /\ NumberError(x) = "budget" => ~Within(Append(text, x))
                /\ NumberError(x) = "none" => Within(Append(text, x))
                /\ NumberError(x) # "budget" => NumberError(x) = x.fault
           /\ x.kind = "literal" =>
                /\ ChargeError(x.bytes, Depth) \in {"none", "budget"}
                /\ ChargeError(x.bytes, Depth) = "none" <=> Within(Append(text, x))
<1> DEFINE e == ChargeError(x.bytes, Depth)
<1>1. /\ e = "none" \/ e = "budget"
      /\ Costs(x) => (e = "none" <=> Within(Append(text, x)))
  <2>1. Costs(x) => (Admits(budget, x.bytes, 1, Depth) <=> Within(Append(text, x)))
    BY CostIs DEF Depth
  <2> QED BY <2>1 DEF ChargeError
<1> HIDE DEF e
<1>2. ASSUME x.kind = "str"
      PROVE  /\ TextError(x) \in {"none", "syntax", "unicode", "budget"}
             /\ TextError(x) = "budget" <=> ~Within(Append(text, x))
             /\ TextError(x) # "budget" => TextError(x) = x.fault
  <2>1. x.fault \in {"none", "syntax", "unicode"}
    <3>1. x \in Text
      BY <1>2, LexemeIs
    <3> QED BY ONLY <3>1 DEF Text
  <2>2. TextError(x) = IF e # "none" THEN "budget" ELSE x.fault
    BY DEF TextError, e
  <2>3. e = "none" <=> Within(Append(text, x))
    BY <1>1, <1>2 DEF Costs
  <2> QED BY <2>1, <2>2, <2>3
<1>3. ASSUME x.kind = "num"
      PROVE  /\ NumberError(x) \in {"none", "syntax", "overflow", "nonfinite", "budget"}
             /\ NumberError(x) = "budget" => ~Within(Append(text, x))
             /\ NumberError(x) = "none" => Within(Append(text, x))
             /\ NumberError(x) # "budget" => NumberError(x) = x.fault
  <2>1. x.fault \in {"none", "syntax", "overflow", "nonfinite"}
    BY <1>3, LexemeIs
  <2>2. NumberError(x) = IF x.fault # "none" THEN x.fault ELSE e
    BY DEF NumberError, e
  <2>3. e = "none" <=> Within(Append(text, x))
    BY <1>1, <1>3 DEF Costs
  <2> QED BY <1>1, <2>1, <2>2, <2>3
<1>4. ASSUME x.kind = "literal" PROVE (e = "none" \/ e = "budget") /\ (e = "none" <=> Within(Append(text, x)))
  BY <1>1, <1>4 DEF Costs
<1> QED BY <1>2, <1>3, <1>4 DEF e

(* What Decoding says while a lexeme is read. *)
LEMMA WhileReading ==
    ASSUME Decoding, status = "running", answer = "none"
    PROVE  /\ text \in Texts /\ ~long /\ Gone(text, frames, at, out) /\ budget = BudgetOf(text)
           /\ at = EndOf(text) /\ at # "failed" /\ Levelled(text, frames)
<1>1. text \in Texts /\ ~long /\ Gone(text, frames, at, out) /\ budget = BudgetOf(text)
  BY DEF Decoding
<1>2. at = EndOf(text) /\ at # "failed" /\ Levelled(text, frames)
  BY <1>1, Zenon DEF Gone
<1> QED BY <1>1, <1>2

(* What every action on a lexeme has in common. *)
LEMMA ReadsIs ==
    ASSUME NEW x, Reads(x)
    PROVE  status = "running" /\ x \in Lexemes /\ text' = Append(text, x) /\ long' = long
<1> QED BY DEF Reads

(* A lexeme that moves nowhere is the first at fault. *)
LEMMA Faults ==
    ASSUME Decoding, status = "running", answer = "none", NEW x \in Lexemes,
           x.kind = "end" => at # "end",
           x.kind # "end" => Moved(text, OpenAfter(text), at, x) = "failed"
    PROVE  Blames(text, x, "syntax")
<1>1. text \in Texts /\ at = EndOf(text)
  BY WhileReading
<1>2. EndOf(Append(text, x)) = Moved(text, OpenAfter(text), at, x)
  BY <1>1, EndFurther DEF Texts
<1>3. x.kind # "end" => EndOf(Append(text, x)) = "failed"
  BY <1>2
<1>4. x.kind = "end" => EndOf(text) # "end"
  BY <1>1
<1> QED BY <1>3, <1>4 DEF Blames

(* The actions one by one: the call, *)
LEMMA DocumentDecodes ==
    ASSUME Decoding, answer = "none", answer' = answer, Document
    PROVE  Decoding'
<1>1. /\ status = "called" /\ status' = (IF long THEN "budget" ELSE "running")
      /\ long' = long /\ text' = text /\ budget' = budget
      /\ frames' = frames /\ at' = at /\ out' = out
  BY DEF Document
<1>2. text \in Texts /\ long \in BOOLEAN /\ Gone(text, frames, at, out) /\ budget = BudgetOf(text)
  BY <1>1 DEF Decoding
<1>3. CASE long
  <2>1. status' = "budget" /\ long'
    BY <1>1, <1>3
  <2>2. DoneIsWritten' /\ ReadsExactlyJson' /\ RefusalsAreTruthful'
    BY <2>1 DEF DoneIsWritten, ReadsExactlyJson, RefusalsAreTruthful
  <2> QED BY <1>1, <1>2, <2>1, <2>2 DEF Decoding
<1>4. CASE ~long
  <2>1. status' = "running" /\ ~long'
    BY <1>1, <1>4
  <2>2. Viable(text) /\ Within(text) /\ ~Repeated(text)
    <3>1. at = EndOf(text) /\ at # "failed" /\ Within(text) /\ ~Repeated(text)
      BY <1>2, Zenon DEF Gone
    <3>2. EndOf(text) # "failed"
      BY <3>1
    <3> QED BY <1>2, <3>1, <3>2, ViableIs DEF Texts
  <2>3. DoneIsWritten' /\ ReadsExactlyJson' /\ RefusalsAreTruthful'
    BY <1>1, <2>1, <2>2 DEF DoneIsWritten, ReadsExactlyJson, RefusalsAreTruthful
  <2> QED BY <1>1, <1>2, <2>1, <2>3 DEF Decoding
<1> QED BY <1>3, <1>4

(* a scalar where a value is due, *)
LEMMA ScalarDecodes ==
    ASSUME Decoding, answer = "none", answer' = answer, NEW x \in Lexemes, ReadScalar(x)
    PROVE  Decoding'
<1>1. status = "running" /\ text' = Append(text, x) /\ long' = long /\ (at = "value" \/ at = "first value")
  BY ReadsIs DEF ReadScalar
<1>2. /\ text \in Texts /\ ~long /\ Gone(text, frames, at, out) /\ budget = BudgetOf(text)
      /\ at = EndOf(text) /\ at # "failed" /\ Levelled(text, frames)
  BY <1>1, WhileReading
<1>3. ~Opens(x) /\ ~(x.kind = "]" /\ at = "first value")
  BY DEF ReadScalar, Opens
<1>4. ASSUME ~IsScalar(x), x.kind # "end" PROVE Moved(text, OpenAfter(text), at, x) = "failed"
  <2>1. ~Shuts(text, OpenAfter(text), at, x)
    BY <1>1, <1>3 DEF Shuts
  <2> QED BY <1>1, <1>3, <1>4, <2>1 DEF Moved, Opens
<1>5. ScalarError(x) = CASE x.kind = "str" -> TextError(x)
                         [] x.kind = "num" -> NumberError(x)
                         [] x.kind = "literal" -> ChargeError(x.bytes, Depth)
                         [] x.kind = "nan" -> "nonfinite"
                         [] OTHER -> "syntax"
  BY Zenon DEF ScalarError
<1>6. CASE /\ ScalarError(x) = "none"
           /\ budget' = Charge(budget, x.bytes, 1) /\ out' = Append(out, x) /\ at' = After(frames)
           /\ UNCHANGED <<frames, status>>
  <2>1. Costs(x) /\ IsScalar(x) /\ Within(Append(text, x))
    <3>1. CASE x.kind = "str"
      <4>1. TextError(x) = "none"
        BY <1>5, <1>6, <3>1
      <4>2. x.fault = "none" /\ Within(Append(text, x))
        BY <1>2, <3>1, <4>1, ErrorIs
      <4> QED BY <3>1, <4>2 DEF Costs, IsScalar
    <3>2. CASE x.kind = "num"
      <4>1. NumberError(x) = "none"
        BY <1>5, <1>6, <3>2
      <4>2. x.fault = "none" /\ Within(Append(text, x))
        BY <1>2, <3>2, <4>1, ErrorIs
      <4> QED BY <3>2, <4>2 DEF Costs, IsScalar
    <3>3. CASE x.kind = "literal"
      <4>1. ChargeError(x.bytes, Depth) = "none"
        BY <1>5, <1>6, <3>3
      <4>2. Within(Append(text, x))
        BY <1>2, <3>3, <4>1, ErrorIs
      <4> QED BY <3>3, <4>2 DEF Costs, IsScalar
    <3>4. CASE x.kind # "str" /\ x.kind # "num" /\ x.kind # "literal"
      BY <1>5, <1>6, <3>4
    <3> QED BY <3>1, <3>2, <3>3, <3>4
  <2>2. Gone(text', frames', at', out')
    <3>1. Gone(Append(text, x), frames, After(frames), Append(out, x))
      BY <1>1, <1>2, <2>1, ScalarGoes
    <3> QED BY <1>1, <1>6, <3>1
  <2>3. budget' = BudgetOf(text')
    BY <1>1, <1>2, <1>6, <2>1, CostIs
  <2>4. status' = "running"
    BY <1>1, <1>6
  <2> QED BY <1>1, <1>2, <2>2, <2>3, <2>4, GoesOn
<1>7. CASE ScalarError(x) # "none" /\ status' = ScalarError(x)
  <2> DEFINE e == ScalarError(x)
  <2>1. Blames(text, x, e)
    <3>1. CASE x.kind = "str"
      <4>1. e = TextError(x)
        BY <1>5, <3>1
      <4>2. e \in {"syntax", "unicode", "budget"} /\ (e = "budget" <=> ~Within(Append(text, x))) /\ (e # "budget" => e = x.fault)
        BY <1>2, <1>7, <3>1, <4>1, ErrorIs
      <4> HIDE DEF e
      <4>3. CASE e = "syntax"
        <5>1. ~IsScalar(x)
          BY <3>1, <4>2, <4>3 DEF IsScalar
        <5> QED BY <1>1, <1>4, <3>1, <4>3, <5>1, Faults
      <4>4. CASE e = "unicode"
        BY <4>2, <4>4 DEF Blames
      <4>5. CASE e = "budget"
        BY <4>2, <4>5 DEF Blames
      <4> QED BY <4>2, <4>3, <4>4, <4>5
    <3>2. CASE x.kind = "num"
      <4>1. e = NumberError(x)
        BY <1>5, <3>2
      <4>2. /\ e \in {"syntax", "overflow", "nonfinite", "budget"}
            /\ (e = "budget" => ~Within(Append(text, x))) /\ (e # "budget" => e = x.fault)
        BY <1>2, <1>7, <3>2, <4>1, ErrorIs
      <4> HIDE DEF e
      <4>3. CASE e = "syntax"
        <5>1. ~IsScalar(x)
          BY <3>2, <4>2, <4>3 DEF IsScalar
        <5> QED BY <1>1, <1>4, <3>2, <4>3, <5>1, Faults
      <4>4. CASE e = "overflow" \/ e = "nonfinite"
        BY <4>2, <4>4 DEF Blames
      <4>5. CASE e = "budget"
        BY <4>2, <4>5 DEF Blames
      <4> QED BY <4>2, <4>3, <4>4, <4>5
    <3>3. CASE x.kind = "literal"
      <4>1. e = ChargeError(x.bytes, Depth)
        BY <1>5, <3>3
      <4>2. e = "budget" /\ ~Within(Append(text, x))
        BY <1>2, <1>7, <3>3, <4>1, ErrorIs
      <4> HIDE DEF e
      <4> QED BY <4>2 DEF Blames
    <3>4. CASE x.kind = "nan"
      <4>1. e = "nonfinite"
        BY <1>5, <3>4
      <4> HIDE DEF e
      <4> QED BY <3>4, <4>1 DEF Blames
    <3>5. CASE x.kind # "str" /\ x.kind # "num" /\ x.kind # "literal" /\ x.kind # "nan"
      <4>1. e = "syntax" /\ ~IsScalar(x)
        BY <1>5, <3>5 DEF IsScalar
      <4> HIDE DEF e
      <4>2. x.kind # "end" => Moved(text, OpenAfter(text), at, x) = "failed"
        BY <1>4, <4>1
      <4>3. at # "end"
        BY <1>1
      <4> QED BY <1>1, <4>1, <4>2, <4>3, Faults
    <3> QED BY <3>1, <3>2, <3>3, <3>4, <3>5
  <2> HIDE DEF e
  <2>2. status' = e
    BY <1>7 DEF e
  <2> QED BY <1>1, <2>1, <2>2, Refused
<1>8. CASE status' = "memory"
  <2>1. Blames(text, x, "memory")
    BY DEF Blames
  <2> QED BY <1>1, <1>8, <2>1, Refused
<1> QED BY <1>6, <1>7, <1>8 DEF ReadScalar, Reject

(* an opening bracket there, *)
LEMMA OpenDecodes ==
    ASSUME Decoding, answer = "none", answer' = answer, NEW x \in Lexemes, Open(x)
    PROVE  Decoding'
<1>1. /\ status = "running" /\ text' = Append(text, x) /\ long' = long
      /\ (at = "value" \/ at = "first value") /\ Opens(x)
  BY ReadsIs DEF Open, Opens
<1>2. /\ text \in Texts /\ ~long /\ Gone(text, frames, at, out) /\ budget = BudgetOf(text)
  BY <1>1, WhileReading
<1>3. /\ Admits(budget, 0, 1, Depth + 1) <=> Within(text')
      /\ BudgetOf(text') = Charge(budget, 0, 1)
  BY <1>1, <1>2, OpeningCosts DEF Depth
<1>4. CASE Within(text')
  <2>1. /\ budget' = Charge(budget, 0, 1) /\ frames' = Append(frames, Frame(x))
        /\ out' = Append(out, [kind |-> Frame(x).kind])
        /\ at' = IF x.kind = "{" THEN "first key" ELSE "first value"
        /\ status' = status
    BY <1>3, <1>4 DEF Open, ChargeError
  <2>2. Gone(text', frames', at', out')
    <3>1. Gone(Append(text, x), Append(frames, Frame(x)), IF x.kind = "{" THEN "first key" ELSE "first value",
               Append(out, [kind |-> Frame(x).kind]))
      BY <1>1, <1>2, <1>4, OpenGoes
    <3> QED BY <1>1, <2>1, <3>1
  <2>3. status' = "running" /\ budget' = BudgetOf(text')
    BY <1>1, <1>3, <2>1
  <2> QED BY <1>1, <1>2, <2>2, <2>3, GoesOn
<1>5. CASE ~Within(text')
  <2>1. status' = "budget"
    BY <1>3, <1>5 DEF Open, ChargeError, Reject
  <2>2. Blames(text, x, "budget")
    BY <1>1, <1>5 DEF Blames
  <2> QED BY <1>1, <2>1, <2>2, Refused
<1> QED BY <1>4, <1>5

(* The two ways to say that a bracket closes the innermost container. *)
LEMMA ClosesIs ==
    ASSUME NEW x, text \in Texts, Levelled(text, frames)
    PROVE  frames # <<>> => (Closes(x) <=> Shuts(text, OpenAfter(text), at, x))
<1> SUFFICES ASSUME frames # <<>> PROVE Closes(x) <=> Shuts(text, OpenAfter(text), at, x)
  OBVIOUS
<1> DEFINE k == TopOf(text, OpenAfter(text))
<1>1. /\ OpenAfter(text) # <<>> /\ Last(frames).kind = IF k = "{" THEN "dict" ELSE "list"
  BY TopIs
<1>2. Shuts(text, OpenAfter(text), at, x) <=>
        IF k = "{" THEN x.kind = "}" /\ at \in {"first key", "next"} ELSE x.kind = "]" /\ at \in {"first value", "next"}
  BY <1>1, Zenon DEF Shuts
<1> HIDE DEF k
<1>3. Closes(x) <=>
        IF Last(frames).kind = "dict" THEN x.kind = "}" /\ at \in {"first key", "next"}
        ELSE x.kind = "]" /\ at \in {"first value", "next"}
  BY Zenon DEF Closes
<1> QED BY <1>1, <1>2, <1>3

(* a closing bracket, *)
LEMMA CloseDecodes ==
    ASSUME Decoding, answer = "none", answer' = answer, NEW x \in Lexemes, Close(x)
    PROVE  Decoding'
<1>1. status = "running" /\ text' = Append(text, x) /\ long' = long /\ frames # <<>> /\ Closes(x)
  BY ReadsIs DEF Close
<1>2. /\ text \in Texts /\ ~long /\ Gone(text, frames, at, out) /\ budget = BudgetOf(text) /\ Levelled(text, frames)
  BY <1>1, WhileReading
<1>3. Shuts(text, OpenAfter(text), at, x)
  BY <1>1, <1>2, ClosesIs
<1>4. CASE /\ frames' = Front(frames) /\ out' = Append(out, [kind |-> "end"]) /\ at' = After(Front(frames))
           /\ UNCHANGED <<budget, status>>
  <2>1. /\ Gone(Append(text, x), Front(frames), After(Front(frames)), Append(out, [kind |-> "end"]))
        /\ BudgetOf(Append(text, x)) = BudgetOf(text)
    BY <1>2, <1>3, CloseGoes
  <2>2. Gone(text', frames', at', out')
    BY <1>1, <1>4, <2>1
  <2>3. status' = "running" /\ budget' = BudgetOf(text')
    BY <1>1, <1>2, <1>4, <2>1
  <2> QED BY <1>1, <1>2, <2>2, <2>3, GoesOn
<1>5. CASE status' = "memory"
  <2>1. Blames(text, x, "memory")
    BY DEF Blames
  <2> QED BY <1>1, <1>5, <2>1, Refused
<1> QED BY <1>4, <1>5 DEF Close, Reject

(* a key, *)
LEMMA KeyDecodes ==
    ASSUME Decoding, answer = "none", answer' = answer, NEW x \in Lexemes, ReadKey(x)
    PROVE  Decoding'
<1>1. status = "running" /\ text' = Append(text, x) /\ long' = long /\ (at = "key" \/ at = "first key")
      /\ ~(x.kind = "}" /\ at = "first key")
  BY ReadsIs DEF ReadKey
<1>2. /\ text \in Texts /\ ~long /\ Gone(text, frames, at, out) /\ budget = BudgetOf(text) /\ Levelled(text, frames)
      /\ at = EndOf(text)
  BY <1>1, WhileReading
<1>3. KeyPlace(text) /\ ~Repeated(text)
  <2>1. EndOf(text) \in {"key", "first key"}
    BY <1>1, <1>2
  <2>2. ~Repeated(text)
    BY <1>2, Zenon DEF Gone
  <2> QED BY <1>2, <2>1, <2>2, KeyPlaces DEF Texts
<1>4. ASSUME x.kind # "str" \/ x.fault # "none", x.kind # "end" PROVE Moved(text, OpenAfter(text), at, x) = "failed"
  <2>1. ~Shuts(text, OpenAfter(text), at, x)
    <3>1. at = "first key" => TopOf(text, OpenAfter(text)) = "{"
      BY <1>3, Zenon DEF KeyPlace
    <3> QED BY <1>1, <3>1 DEF Shuts
  <2> QED BY <1>1, <1>4, <2>1 DEF Moved
<1>5. CASE x.kind # "str" /\ status' = "syntax"
  <2>1. at # "end"
    BY <1>1
  <2>2. Blames(text, x, "syntax")
    BY <1>1, <1>4, <1>5, <2>1, Faults
  <2> QED BY <1>1, <1>5, <2>2, Refused
<1>6. CASE status' = "memory"
  <2>1. Blames(text, x, "memory")
    BY DEF Blames
  <2> QED BY <1>1, <1>6, <2>1, Refused
<1>7. CASE x.kind = "str" /\ TextError(x) # "none" /\ status' = TextError(x)
  <2> DEFINE e == TextError(x)
  <2>1. e \in {"syntax", "unicode", "budget"} /\ (e = "budget" <=> ~Within(Append(text, x))) /\ (e # "budget" => e = x.fault)
    BY <1>2, <1>7, ErrorIs
  <2>e. status' = e
    BY <1>7
  <2> HIDE DEF e
  <2>2. CASE e = "syntax"
    <3>1. Moved(text, OpenAfter(text), at, x) = "failed"
      BY <1>4, <1>7, <2>1, <2>2
    <3>2. Blames(text, x, "syntax")
      BY <1>1, <1>7, <3>1, Faults
    <3> QED BY <1>1, <2>e, <2>2, <3>2, Refused
  <2>3. CASE e = "unicode"
    <3>1. Blames(text, x, e)
      BY <2>1, <2>3 DEF Blames
    <3> QED BY <1>1, <2>e, <3>1, Refused
  <2>4. CASE e = "budget"
    <3>1. Blames(text, x, e)
      BY <2>1, <2>4 DEF Blames
    <3> QED BY <1>1, <2>e, <3>1, Refused
  <2> QED BY <2>1, <2>2, <2>3, <2>4
<1>8. ASSUME x.kind = "str", TextError(x) = "none"
      PROVE  /\ x.fault = "none" /\ Within(Append(text, x))
             /\ Repeated(Append(text, x)) <=> x.name \in Last(frames).keys
             /\ BudgetOf(Append(text, x)) = Charge(BudgetOf(text), x.bytes, 1)
  <2>1. x.fault = "none" /\ Within(Append(text, x))
    BY <1>2, <1>8, ErrorIs
  <2>2. Repeated(Append(text, x)) <=> x.name \in Last(frames).keys
    BY <1>2, <1>3, <1>8, KeyRepeats
  <2>3. BudgetOf(Append(text, x)) = Charge(BudgetOf(text), x.bytes, 1)
    BY <1>2, <1>8, CostIs DEF Costs
  <2> QED BY <2>1, <2>2, <2>3
<1>9. CASE x.kind = "str" /\ TextError(x) = "none" /\ ~Fresh(x) /\ status' = "duplicate"
  <2>1. Blames(text, x, "duplicate")
    BY <1>8, <1>9 DEF Blames, Fresh
  <2> QED BY <1>1, <1>9, <2>1, Refused
<1>10. CASE /\ x.kind = "str" /\ TextError(x) = "none" /\ Fresh(x)
            /\ budget' = Charge(budget, x.bytes, 1)
            /\ frames' = [frames EXCEPT ![Depth].keys = @ \cup {x.name}]
            /\ out' = Append(out, x) /\ at' = "colon" /\ UNCHANGED status
  <2>1. x.name \notin Last(frames).keys
    BY <1>10 DEF Fresh
  <2>2. Gone(Append(text, x), [frames EXCEPT ![Len(frames)] = WithKey(@, x.name)], "colon", Append(out, x))
    BY <1>1, <1>2, <1>8, <1>10, <2>1, KeyGoes
  <2>3. frames' = [frames EXCEPT ![Len(frames)] = WithKey(@, x.name)]
    BY <1>10 DEF WithKey, Depth
  <2>4. Gone(text', frames', at', out')
    BY <1>1, <1>10, <2>2, <2>3
  <2>5. status' = "running" /\ budget' = BudgetOf(text')
    BY <1>1, <1>2, <1>8, <1>10
  <2> QED BY <1>1, <1>2, <2>4, <2>5, GoesOn
<1> QED BY <1>5, <1>6, <1>7, <1>9, <1>10 DEF ReadKey, Reject

(* a colon, *)
LEMMA ColonDecodes ==
    ASSUME Decoding, answer = "none", answer' = answer, NEW x \in Lexemes, ReadColon(x)
    PROVE  Decoding'
<1>1. status = "running" /\ text' = Append(text, x) /\ long' = long /\ at = "colon"
  BY ReadsIs DEF ReadColon
<1>2. /\ text \in Texts /\ ~long /\ Gone(text, frames, at, out) /\ budget = BudgetOf(text)
  BY <1>1, WhileReading
<1>3. CASE x.kind = ":"
  <2>1. at' = "value" /\ UNCHANGED <<budget, frames, out, status>>
    BY <1>3 DEF ReadColon
  <2>2. Moved(text, OpenAfter(text), at, x) = "value"
    BY <1>1, <1>3 DEF Moved, IsScalar
  <2>3. Gone(Append(text, x), frames, "value", out) /\ BudgetOf(Append(text, x)) = BudgetOf(text)
    <3>1. "value" # "failed"
      OBVIOUS
    <3> QED BY <1>2, <1>3, <2>2, <3>1, SeparatorGoes
  <2>4. Gone(text', frames', at', out') /\ status' = "running" /\ budget' = BudgetOf(text')
    BY <1>1, <1>2, <2>1, <2>3
  <2> QED BY <1>1, <1>2, <2>4, GoesOn
<1>4. CASE x.kind # ":"
  <2>1. status' = "syntax"
    BY <1>4 DEF ReadColon, Reject
  <2>2. Moved(text, OpenAfter(text), at, x) = "failed"
    BY <1>1, <1>4 DEF Moved, Shuts
  <2>3. at # "end"
    BY <1>1
  <2>4. Blames(text, x, "syntax")
    BY <1>1, <2>2, <2>3, Faults
  <2> QED BY <1>1, <2>1, <2>4, Refused
<1> QED BY <1>3, <1>4

(* a comma, *)
LEMMA NextDecodes ==
    ASSUME Decoding, answer = "none", answer' = answer, NEW x \in Lexemes, ReadNext(x)
    PROVE  Decoding'
<1>1. status = "running" /\ text' = Append(text, x) /\ long' = long /\ at = "next" /\ ~Closes(x)
  BY ReadsIs DEF ReadNext
<1>2. /\ text \in Texts /\ ~long /\ Gone(text, frames, at, out) /\ budget = BudgetOf(text) /\ Levelled(text, frames)
      /\ at = EndOf(text) /\ at # "failed"
  BY <1>1, WhileReading
<1> DEFINE k == TopOf(text, OpenAfter(text))
<1>3. frames # <<>> /\ OpenAfter(text) # <<>> /\ (InArray(frames) <=> k = "[")
  <2>1. Stands(text, Len(text), OpenAfter(text), at)
    BY <1>2, EndIs DEF Texts
  <2>2. OpenAfter(text) # <<>>
    BY <1>1, <2>1 DEF Stands
  <2>3. /\ frames # <<>> /\ Last(frames).kind = IF k = "{" THEN "dict" ELSE "list"
        /\ k = "{" \/ k = "["
    BY <1>2, <2>2, TopIs
  <2> HIDE DEF k
  <2> QED BY <2>2, <2>3 DEF InArray
<1>4. CASE x.kind = ","
  <2> DEFINE v == IF InArray(frames) THEN "value" ELSE "key"
  <2>1. at' = v /\ UNCHANGED <<budget, frames, out, status>>
    BY <1>4 DEF ReadNext
  <2>2. Moved(text, OpenAfter(text), at, x) = v
    BY <1>1, <1>3, <1>4 DEF Moved, IsScalar
  <2>3. v # "failed"
    OBVIOUS
  <2> HIDE DEF v
  <2>4. Gone(Append(text, x), frames, v, out) /\ BudgetOf(Append(text, x)) = BudgetOf(text)
    <3>1. v = Moved(text, OpenAfter(text), at, x) /\ (x.kind = ":" \/ x.kind = ",")
      BY <1>4, <2>2
    <3>2. text \in Texts /\ Gone(text, frames, at, out)
      BY <1>2
    <3>3. "value" # "failed" /\ "key" # "failed"
      OBVIOUS
    <3>4. CASE v = "value"
      <4>1. Moved(text, OpenAfter(text), at, x) = "value"
        BY <2>2, <3>4
      <4>2. Gone(Append(text, x), frames, "value", out) /\ BudgetOf(Append(text, x)) = BudgetOf(text)
        BY <3>1, <3>2, <3>3, <4>1, SeparatorGoes
      <4> QED BY <3>4, <4>2
    <3>5. CASE v = "key"
      <4>1. Moved(text, OpenAfter(text), at, x) = "key"
        BY <2>2, <3>5
      <4>2. Gone(Append(text, x), frames, "key", out) /\ BudgetOf(Append(text, x)) = BudgetOf(text)
        BY <3>1, <3>2, <3>3, <4>1, SeparatorGoes
      <4> QED BY <3>5, <4>2
    <3> QED BY <3>4, <3>5 DEF v
  <2>5. Gone(text', frames', at', out') /\ status' = "running" /\ budget' = BudgetOf(text')
    BY <1>1, <1>2, <2>1, <2>4
  <2> QED BY <1>1, <1>2, <2>5, GoesOn
<1>5. CASE x.kind # ","
  <2>1. status' = "syntax"
    BY <1>5 DEF ReadNext, Reject
  <2>2. ~Shuts(text, OpenAfter(text), at, x)
    BY <1>1, <1>2, <1>3, ClosesIs
  <2>3. Moved(text, OpenAfter(text), at, x) = "failed"
    BY <1>1, <1>5, <2>2 DEF Moved
  <2>4. at # "end"
    BY <1>1
  <2>5. Blames(text, x, "syntax")
    BY <1>1, <2>3, <2>4, Faults
  <2> QED BY <1>1, <2>1, <2>5, Refused
<1> QED BY <1>4, <1>5

(* and the end. *)
LEMMA EndDecodes ==
    ASSUME Decoding, answer = "none", answer' = answer, NEW x \in Lexemes, ReadEnd(x)
    PROVE  Decoding'
<1>1. status = "running" /\ text' = Append(text, x) /\ long' = long /\ at = "end"
  BY ReadsIs DEF ReadEnd
<1>2. /\ text \in Texts /\ ~long /\ Gone(text, frames, at, out) /\ budget = BudgetOf(text)
      /\ at = EndOf(text)
  BY <1>1, WhileReading
<1>3. CASE x.kind # "end"
  <2>1. status' = "syntax"
    BY <1>3 DEF ReadEnd
  <2>2. Moved(text, OpenAfter(text), at, x) = "failed"
    BY <1>1 DEF Moved, Shuts
  <2>3. Blames(text, x, "syntax")
    BY <1>1, <1>3, <2>2, Faults
  <2> QED BY <1>1, <2>1, <2>3, Refused
<1>4. CASE x.kind = "end" /\ Head(out).kind # "dict"
  <2>1. status' = "type"
    BY <1>4 DEF ReadEnd
  <2>2. WellFormed(text)
    BY <1>1, <1>2, EndIs DEF Texts
  <2>3. text # <<>>
    BY <2>2, Zenon DEF WellFormed
  <2>4. text[1].kind # "{"
    <3>1. text # <<>> => (Head(out).kind = "dict" <=> text[1].kind = "{")
      BY <1>2, Zenon DEF Gone
    <3> QED BY <1>4, <2>3, <3>1
  <2>5. Blames(text, x, "type")
    <3>1. EndOf(text) = "end"
      BY <1>1, <1>2
    <3> QED BY <1>4, <2>3, <2>4, <3>1 DEF Blames
  <2> QED BY <1>1, <2>1, <2>5, Refused
<1>5. CASE x.kind = "end" /\ Head(out).kind = "dict"
  <2>1. status' = "done" /\ budget' = budget /\ out' = out
    BY <1>5 DEF ReadEnd
  <2> QED BY <1>1, <1>5, <2>1, Finished
<1> QED BY <1>3, <1>4, <1>5

(* A token is read at one place of the decoder, which waits for it.         *)
LEMMA TokenDecodes ==
    ASSUME Decoding, UNCHANGED <<long, text, frames, at, out, status>>,
           status = "running" \/ answer' = "none", answer' = "none" => answer = "none" /\ budget' = budget
    PROVE  Decoding'
<1>1. status = "done" => budget' = budget
  BY DEF Decoding
<1>2. DoneIsWritten'
  BY <1>1 DEF Decoding, DoneIsWritten
<1>3. ReadsExactlyJson' /\ RefusalsAreTruthful'
  BY DEF Decoding, ReadsExactlyJson, RefusalsAreTruthful, Ended, Content
<1> QED BY <1>2, <1>3 DEF Decoding

(* The invariant holds before the call *)
LEMMA StartsDecoding == TInit => Decoding
<1> SUFFICES ASSUME TInit PROVE Decoding
  OBVIOUS
<1>1. /\ long \in BOOLEAN /\ text = <<>> /\ budget = DocumentBudget(DOCUMENT_BYTES)
      /\ frames = <<>> /\ at = "value" /\ out = <<>> /\ status = "called" /\ answer = "none"
  BY DEF TInit, DInit
<1>2. text \in Texts /\ Gone(text, frames, at, out) /\ budget = BudgetOf(text)
  BY <1>1, NothingRead
<1>3. DoneIsWritten /\ ReadsExactlyJson /\ RefusalsAreTruthful
  BY <1>1 DEF DoneIsWritten, ReadsExactlyJson, RefusalsAreTruthful
<1> QED BY <1>1, <1>2, <1>3 DEF Decoding

(* and after every step. *)
LEMMA KeepsDecoding == Decoding /\ [TNext]_<<docVars, tokenVars>> => Decoding'
<1> SUFFICES ASSUME Decoding, [TNext]_<<docVars, tokenVars>> PROVE Decoding'
  OBVIOUS
<1>1. CASE Decode
  <2>1. answer = "none" /\ answer' = answer /\ DNext
    BY <1>1 DEF Decode, tokenVars
  <2>2. CASE Document
    BY <2>1, <2>2, DocumentDecodes
  <2>3. ASSUME NEW x \in Lexemes,
               \/ ReadScalar(x) \/ Open(x) \/ Close(x)
               \/ ReadKey(x) \/ ReadColon(x) \/ ReadNext(x) \/ ReadEnd(x)
        PROVE  Decoding'
    <3>1. CASE ReadScalar(x)
      BY <2>1, <3>1, ScalarDecodes
    <3>2. CASE Open(x)
      BY <2>1, <3>2, OpenDecodes
    <3>3. CASE Close(x)
      BY <2>1, <3>3, CloseDecodes
    <3>4. CASE ReadKey(x)
      BY <2>1, <3>4, KeyDecodes
    <3>5. CASE ReadColon(x)
      BY <2>1, <3>5, ColonDecodes
    <3>6. CASE ReadNext(x)
      BY <2>1, <3>6, NextDecodes
    <3>7. CASE ReadEnd(x)
      BY <2>1, <3>7, EndDecodes
    <3> QED BY <2>3, <3>1, <3>2, <3>3, <3>4, <3>5, <3>6, <3>7
  <2> QED BY <2>1, <2>2, <2>3 DEF DNext
<1>2. ASSUME NEW where, BeginToken(where), answer' # "none" PROVE Decoding'
  <2>1. UNCHANGED <<long, text, frames, at, out, status>> /\ status = "running"
    BY <1>2 DEF BeginToken
  <2> QED BY <1>2, <2>1, TokenDecodes
<1>3. CASE BeginString
  <2>1. BeginToken("string") /\ answer' # "none"
    BY <1>3 DEF BeginString
  <2> QED BY <1>2, <2>1
<1>4. CASE BeginNumber
  <2>1. BeginToken("sign") /\ answer' # "none"
    BY <1>4 DEF BeginNumber
  <2> QED BY <1>2, <2>1
<1>5. ASSUME NEW x, Part(x), answer' # "none" PROVE Decoding'
  <2>1. UNCHANGED <<long, text, frames, at, out, status>> /\ answer = "reading"
    BY <1>5 DEF Part
  <2>2. status = "running"
    BY <2>1 DEF Decoding
  <2> QED BY <1>5, <2>1, <2>2, TokenDecodes
<1>6. ASSUME NEW x \in StringParts, ReadCharacter(x) \/ ReadUnit(x) \/ ReadLow(x) \/ EndString(x) PROVE Decoding'
  <2>1. Part(x)
    BY <1>6 DEF ReadCharacter, ReadUnit, ReadLow, EndString
  <2>2. answer = "reading"
    BY <2>1 DEF Part
  <2>3. answer' # "none"
    <3>1. \A c : Push(c) => answer' # "none"
      BY <2>2 DEF Push, Answer
    <3>2. ReadCharacter(x) => answer' # "none"
      BY <3>1 DEF ReadCharacter, Answer
    <3>3. ReadUnit(x) => answer' # "none"
      BY <2>2, <3>1 DEF ReadUnit, Answer, Continue
    <3>4. ReadLow(x) => answer' # "none"
      BY <3>1 DEF ReadLow, Answer
    <3>5. EndString(x) => answer' # "none"
      BY DEF EndString, Answer
    <3> QED BY <1>6, <3>2, <3>3, <3>4, <3>5
  <2> QED BY <1>5, <2>1, <2>3
<1>7. ASSUME NEW x \in NumberParts, ReadNumber(x) \/ EndNumber(x) \/ BreakNumber(x) PROVE Decoding'
  <2>1. Part(x)
    BY <1>7 DEF ReadNumber, EndNumber, BreakNumber
  <2>2. answer = "reading"
    BY <2>1 DEF Part
  <2>3. answer' # "none"
    <3>1. ReadNumber(x) => answer' # "none"
      BY <2>2 DEF ReadNumber, Continue
    <3>2. EndNumber(x) => answer' # "none"
      BY DEF EndNumber, Answer
    <3>3. BreakNumber(x) => answer' # "none"
      BY DEF BreakNumber, Answer
    <3> QED BY <1>7, <3>1, <3>2, <3>3
  <2> QED BY <1>5, <2>1, <2>3
<1>8. CASE UNCHANGED <<docVars, tokenVars>>
  <2>1. UNCHANGED <<long, text, frames, at, out, status>> /\ budget' = budget /\ answer' = answer
    BY <1>8 DEF docVars, tokenVars
  <2>2. status = "running" \/ answer' = "none"
    BY <2>1 DEF Decoding
  <2> QED BY <2>1, <2>2, TokenDecodes
<1> QED BY <1>1, <1>3, <1>4, <1>6, <1>7, <1>8 DEF TNext

(* For every text and all limits, the decoder (json_decode.rs:19-143) goes  *)
(* on only with a text that begins some object within the limits and        *)
(* repeats no key of a map, and returns only when it has read one whole.    *)
THEOREM DecoderIsExact == TSpec => []ReadsExactlyJson
<1>1. Decoding => ReadsExactlyJson
  BY DEF Decoding
<1> QED BY <1>1, StartsDecoding, KeepsDecoding, PTL DEF TSpec

(* For every text and all limits, a refusal (json_decode.rs:59-206,         *)
(* json_string.rs:60-86) has its cause in the text: a syntax error at the   *)
(* first lexeme from which no value can come, a repeated key at the second  *)
(* of the two, the budget at the first lexeme beyond a limit, the error of  *)
(* a lexeme at that lexeme.                                                 *)
THEOREM DecoderIsTruthful == TSpec => []RefusalsAreTruthful
<1>1. Decoding => RefusalsAreTruthful
  BY DEF Decoding
<1> QED BY <1>1, StartsDecoding, KeepsDecoding, PTL DEF TSpec

(* For every text and all limits, the value that the decoder returns is     *)
(* what the lexemes say, in their order, and the budget has been charged    *)
(* for each scalar and each container and for nothing else                  *)
(* (json_decode.rs:59-206, conversion.rs:101-137).                          *)
THEOREM DecoderWrites == TSpec => []DoneIsWritten
<1>1. Decoding => DoneIsWritten
  BY DEF Decoding
<1> QED BY <1>1, StartsDecoding, KeepsDecoding, PTL DEF TSpec

-------------------------------------------------------------------------------
(* Strings: the characters and the bytes of the parts. *)

(* The code units that are half of a character. *)
Surrogates == High \cup Low

(* What a code unit contributes to the bytes of a string. *)
UnitBytes(n) == IF n \in Surrogates THEN 2 ELSE Utf8Size(n)

(* Characters, code units and surrogates do not overlap but as they should. *)
LEMMA CodesAre ==
    /\ \A c \in Chars : c \in Nat /\ c \notin High /\ c \notin Low /\ c \div 65536 < 17
    /\ \A c \in Escapable : c \in Chars
    /\ \A c \in CodeUnits : c \in Nat /\ c < 65536 /\ (c \in Chars \/ c \in High \/ c \in Low)
    /\ \A c \in High : c \in Nat /\ c \notin Low
    /\ \A c \in Low : c \in Nat
<1>1. \A c \in Chars : c \in Nat /\ c \notin High /\ c \notin Low /\ c \div 65536 < 17
  BY SMT DEF Chars
<1>2. ASSUME NEW c \in Escapable PROVE c \in Chars
  <2>1. c \in Nat /\ c < 100
    BY SMT DEF Escapable
  <2> QED BY SMTT(60), <2>1 DEF Chars, High, Low
<1>3. ASSUME NEW c \in CodeUnits PROVE c \in Nat /\ c < 65536 /\ (c \in Chars \/ c \in High \/ c \in Low)
  <2>1. c \in Nat /\ c < 65536
    BY DEF CodeUnits
  <2>2. c \div 65536 < 17
    BY ONLY SMTT(30), <2>1
  <2>3. \A n \in Nat : n \div 65536 < 17 /\ n \notin High \cup Low => n \in Chars
    BY ONLY SMTT(30) DEF Chars
  <2> QED BY <2>1, <2>2, <2>3
<1>4. \A c \in High : c \in Nat /\ c \notin Low
  BY SMT DEF High, Low
<1>5. \A c \in Low : c \in Nat
  BY SMT DEF Low
<1> QED BY <1>1, <1>2, <1>3, <1>4, <1>5

(* A character is one code unit, or a high and a low surrogate, *)
LEMMA Utf16Is ==
    ASSUME NEW c \in Chars
    PROVE  /\ c < 65536 => Utf16(c) = <<c>>
           /\ c >= 65536 => \E h \in High, l \in Low : Utf16(c) = <<h, l>>
           /\ Utf16(c) \in Seq(Nat)
<1>1. c \in Nat /\ c \div 65536 < 17
  BY CodesAre
<1>2. ASSUME c < 65536 PROVE Utf16(c) = <<c>>
  BY SMT, <1>2 DEF Utf16
<1>3. ASSUME c >= 65536
      PROVE  \E h \in High, l \in Low : Utf16(c) = <<h, l>>
  <2> DEFINE q == (c - 65536) \div 1024  r == (c - 65536) % 1024
  <2>1. q \in 0 .. 1023 /\ r \in 0 .. 1023
    BY SMT, <1>1, <1>3
  <2>2. Utf16(c) = <<55296 + q, 56320 + r>>
    BY SMT, <1>1, <1>3 DEF Utf16
  <2> HIDE DEF q, r
  <2>3. 55296 + q \in High /\ 56320 + r \in Low
    BY SMT, <2>1 DEF High, Low
  <2> QED BY <2>2, <2>3
<1>4. Utf16(c) \in Seq(Nat)
  <2>1. CASE c < 65536
    <3>1. <<c>> \in Seq(Nat)
      BY ONLY <1>1
    <3>2. Utf16(c) = <<c>>
      BY <1>2, <2>1
    <3> QED BY ONLY <3>1, <3>2
  <2>2. CASE c >= 65536
    <3>1. PICK h \in High, l \in Low : Utf16(c) = <<h, l>>
      BY <1>3, <2>2
    <3>2. h \in Nat /\ l \in Nat
      BY CodesAre
    <3>3. <<h, l>> \in Seq(Nat)
      BY ONLY <3>2
    <3> QED BY ONLY <3>1, <3>3
  <2>3. c < 65536 \/ c >= 65536
    BY SMT, <1>1
  <2> QED BY <2>1, <2>2, <2>3
<1> QED BY <1>2, <1>3, <1>4

(* and these are the two of which it was put together. *)
LEMMA PairIs ==
    ASSUME NEW h \in High, NEW l \in Low
    PROVE  Paired(h, l) \in Chars /\ Paired(h, l) >= 65536 /\ Utf16(Paired(h, l)) = <<h, l>>
<1> DEFINE a == h - 55296  b == l - 56320  c == Paired(h, l)
<1>1. a \in 0 .. 1023 /\ b \in 0 .. 1023 /\ h = 55296 + a /\ l = 56320 + b
  BY SMT DEF High, Low
<1>2. c = 65536 + a * 1024 + b
  BY SMT DEF Paired
<1> HIDE DEF a, b, c
<1>3. c \in Nat /\ c >= 65536 /\ c \div 65536 < 17 /\ c - 65536 = a * 1024 + b
  BY SMT, <1>1, <1>2
<1>4. (a * 1024 + b) \div 1024 = a /\ (a * 1024 + b) % 1024 = b
  BY SMT, <1>1
<1>5. Utf16(c) = <<h, l>>
  BY SMT, <1>1, <1>3, <1>4 DEF Utf16
<1>6. c \in Chars
  <2>0. c \in Nat /\ c >= 65536
    BY <1>3
  <2>1. c \notin High /\ c \notin Low
    BY ONLY SMTT(60), <2>0 DEF High, Low
  <2>2. Chars = {n \in Nat : n \div 65536 < 17} \ (High \cup Low)
    BY ONLY SMT DEF Chars
  <2> QED BY ONLY SMT, <1>3, <2>1, <2>2
<1> QED BY <1>3, <1>5, <1>6 DEF c

(* What a part of a string is. *)
LEMMA PartIs ==
    ASSUME NEW x \in StringParts
    PROVE  /\ x.is = "char" \/ x.is = "escape" => x.code \in Chars /\ PartUnits(x) = Utf16(x.code)
           /\ x.is = "unit" => x.code \in CodeUnits /\ PartUnits(x) = <<x.code>>
           /\ x.is # "char" /\ x.is # "escape" /\ x.is # "unit" => PartUnits(x) = <<>>
           /\ PartUnits(x) \in Seq(Nat)
<1>1. \/ x \in [is : {"char"}, code : Chars]
      \/ x \in [is : {"escape"}, code : Escapable]
      \/ x \in [is : {"unit"}, code : CodeUnits]
      \/ x \in [is : {"quote", "bad escape", "bad hex", "end"}]
  BY ONLY TokenAssumption, x \in StringParts DEF TokenAssumption
<1>2. /\ x.is = "char" \/ x.is = "escape" => x.code \in Chars
      /\ x.is = "unit" => x.code \in CodeUnits
  <2>1. CASE x \in [is : {"char"}, code : Chars]
    <3>1. x.is = "char" /\ x.code \in Chars
      BY ONLY <2>1
    <3> QED BY ONLY <3>1
  <2>2. CASE x \in [is : {"escape"}, code : Escapable]
    <3>1. x.is = "escape" /\ x.code \in Escapable
      BY ONLY <2>2
    <3> QED BY ONLY <3>1, CodesAre
  <2>3. CASE x \in [is : {"unit"}, code : CodeUnits]
    <3>1. x.is = "unit" /\ x.code \in CodeUnits
      BY ONLY <2>3
    <3> QED BY ONLY <3>1
  <2>4. CASE x \in [is : {"quote", "bad escape", "bad hex", "end"}]
    <3>1. x.is # "char" /\ x.is # "escape" /\ x.is # "unit"
      BY ONLY <2>4
    <3> QED BY ONLY <3>1
  <2> QED BY ONLY <1>1, <2>1, <2>2, <2>3, <2>4
<1>3. /\ x.is = "char" \/ x.is = "escape" => PartUnits(x) = Utf16(x.code)
      /\ x.is = "unit" => PartUnits(x) = <<x.code>>
      /\ x.is # "char" /\ x.is # "escape" /\ x.is # "unit" => PartUnits(x) = <<>>
  BY DEF PartUnits
<1>4. PartUnits(x) \in Seq(Nat)
  <2>1. CASE x.is = "char" \/ x.is = "escape"
    BY <1>2, <1>3, <2>1, Utf16Is
  <2>2. CASE x.is = "unit"
    <3>1. x.code \in Nat
      BY <1>2, <2>2, CodesAre
    <3>2. <<x.code>> \in Seq(Nat)
      BY ONLY <3>1
    <3> QED BY <1>3, <2>2, <3>2
  <2>3. CASE x.is # "char" /\ x.is # "escape" /\ x.is # "unit"
    <3>1. <<>> \in Seq(Nat)
      OBVIOUS
    <3> QED BY <1>3, <2>3, <3>1
  <2> QED BY <2>1, <2>2, <2>3
<1> QED BY <1>2, <1>3, <1>4

(* A sequence, one or two elements further. *)
LEMMA TwoFurther ==
    ASSUME NEW T, NEW u \in Seq(T), NEW h \in T, NEW l \in T
    PROVE  /\ u \o <<h, l>> = Append(Append(u, h), l) /\ u \o <<h>> = Append(u, h)
           /\ Append(u, h) \in Seq(T)
<1>1. Append(u, h) \in Seq(T) /\ <<h>> \in Seq(T) /\ <<l>> \in Seq(T)
  OBVIOUS
<1>2. <<h>> \o <<l>> = <<h, l>>
  BY FewJoin
<1>3. Append(u, h) = u \o <<h>>
  BY AppendIsConcat
<1>4. Append(Append(u, h), l) = Append(u, h) \o <<l>>
  BY <1>1, AppendIsConcat
<1>5. (u \o <<h>>) \o <<l>> = u \o (<<h>> \o <<l>>)
  BY <1>1, Regroup
<1> QED BY <1>1, <1>2, <1>3, <1>4, <1>5

(* The code units of the parts, one part further, *)
LEMMA UnitsFurther ==
    ASSUME NEW t \in Seq(StringParts), NEW x \in StringParts
    PROVE  Units(Append(t, x)) = Units(t) \o PartUnits(x) /\ Units(t) \in Seq(Nat) /\ PartUnits(x) \in Seq(Nat)
<1> DEFINE S == Seq(Nat)
<1>1. ASSUME NEW y \in StringParts PROVE PartUnits(y) \in S
  BY PartIs
<1> HIDE DEF S
<1> DEFINE g == [y \in StringParts |-> PartUnits(y)]  u == Append(t, x)
<1>2. u \in Seq(StringParts)
  BY FurtherIs
<1>3. \A s \in Seq(StringParts) : [i \in DOMAIN s |-> PartUnits(s[i])] = Mapped(g, s)
  BY DEF Mapped
<1>4. g \in [StringParts -> S] /\ g[x] = PartUnits(x)
  BY <1>1
<1> HIDE DEF g
<1>5. /\ FlattenSeq(Mapped(g, u)) = FlattenSeq(Mapped(g, t)) \o g[x]
      /\ FlattenSeq(Mapped(g, t)) \in Seq(Nat)
  BY <1>2, <1>4, FlattenFurther DEF S
<1> HIDE DEF u
<1> QED BY <1>1, <1>2, <1>3, <1>4, <1>5 DEF Units, u, S

(* those of the characters, one character further, *)
LEMMA SpelledFurther ==
    ASSUME NEW t \in Seq(Chars), NEW x \in Chars
    PROVE  SpelledOut(Append(t, x)) = SpelledOut(t) \o Utf16(x) /\ SpelledOut(t) \in Seq(Nat)
<1> DEFINE S == Seq(Nat)
<1>1. ASSUME NEW y \in Chars PROVE Utf16(y) \in S
  BY Utf16Is
<1> HIDE DEF S
<1> DEFINE g == [y \in Chars |-> Utf16(y)]  u == Append(t, x)
<1>2. u \in Seq(Chars)
  BY FurtherIs
<1>3. \A s \in Seq(Chars) : [i \in DOMAIN s |-> Utf16(s[i])] = Mapped(g, s)
  BY DEF Mapped
<1>4. g \in [Chars -> S] /\ g[x] = Utf16(x)
  BY <1>1
<1> HIDE DEF g
<1>5. /\ FlattenSeq(Mapped(g, u)) = FlattenSeq(Mapped(g, t)) \o g[x]
      /\ FlattenSeq(Mapped(g, t)) \in Seq(Nat)
  BY <1>2, <1>4, FlattenFurther DEF S
<1> HIDE DEF u
<1> QED BY <1>1, <1>2, <1>3, <1>4, <1>5 DEF SpelledOut, u

(* and their bytes, one code unit further. *)
LEMMA BytesFurther ==
    ASSUME NEW t \in Seq(Nat), NEW x \in Nat
    PROVE  Utf8Bytes(Append(t, x)) = Utf8Bytes(t) + UnitBytes(x) /\ Utf8Bytes(t) \in Nat
<1> DEFINE N == Nat
<1>1. ASSUME NEW y \in N PROVE UnitBytes(y) \in Nat
  BY DEF UnitBytes, Utf8Size
<1>0. t \in Seq(N) /\ x \in N
  OBVIOUS
<1> HIDE DEF N
<1> DEFINE g == [y \in N |-> UnitBytes(y)]  u == Append(t, x)
<1>2. u \in Seq(N)
  BY <1>0, FurtherIs
<1>3. \A s \in Seq(N) : [i \in DOMAIN s |-> IF s[i] \in High \cup Low THEN 2 ELSE Utf8Size(s[i])] = Mapped(g, s)
  BY DEF Mapped, UnitBytes, Surrogates
<1>4. g \in [N -> Nat] /\ g[x] = UnitBytes(x)
  BY <1>0, <1>1
<1> HIDE DEF g
<1>5. /\ Total(Mapped(g, u)) = Total(Mapped(g, t)) + g[x]
      /\ Total(Mapped(g, t)) \in Nat
  BY <1>0, <1>4, TotalFurther
<1> HIDE DEF u
<1> QED BY <1>0, <1>2, <1>3, <1>4, <1>5 DEF Utf8Bytes, u

(* A string is measured character by character. *)
LEMMA CharacterBytes ==
    ASSUME NEW u \in Seq(Nat), NEW c \in Chars
    PROVE  Utf8Bytes(u \o Utf16(c)) = Utf8Bytes(u) + Utf8Size(c)
<1>1. CASE c < 65536
  <2>1. Utf16(c) = <<c>> /\ c \in Nat /\ UnitBytes(c) = Utf8Size(c)
    BY <1>1, Utf16Is, CodesAre DEF UnitBytes, Surrogates
  <2>2. u \o Utf16(c) = Append(u, c)
    BY <2>1, TwoFurther
  <2> QED BY <2>1, <2>2, BytesFurther
<1>2. CASE c >= 65536
  <2>1. PICK h \in High, l \in Low : Utf16(c) = <<h, l>>
    BY <1>2, Utf16Is
  <2>2. h \in Nat /\ l \in Nat /\ UnitBytes(h) = 2 /\ UnitBytes(l) = 2
    BY CodesAre DEF UnitBytes, Surrogates
  <2>3. u \o Utf16(c) = Append(Append(u, h), l) /\ Append(u, h) \in Seq(Nat)
    BY <2>1, <2>2, TwoFurther
  <2>5. /\ Utf8Bytes(Append(u, h)) = Utf8Bytes(u) + 2 /\ Utf8Bytes(u) \in Nat
        /\ Utf8Bytes(Append(Append(u, h), l)) = Utf8Bytes(Append(u, h)) + 2
    BY <2>2, <2>3, BytesFurther
  <2>6. Utf8Size(c) = 4
    <3>1. c \in Nat
      BY CodesAre
    <3> QED BY SMT, <1>2, <3>1 DEF Utf8Size
  <2> QED BY SMT, <2>3, <2>5, <2>6
<1>3. c < 65536 \/ c >= 65536
  <2>1. c \in Nat
    BY CodesAre
  <2> QED BY SMT, <2>1
<1> QED BY <1>1, <1>2, <1>3

(* Surrogates in pairs, one character further.                              *)
LEMMA PairedFurther ==
    ASSUME NEW u \in Seq(Nat), PairedUp(u)
    PROVE  /\ \A n \in Nat : n \notin High /\ n \notin Low => PairedUp(Append(u, n))
           /\ \A h \in High, l \in Low : PairedUp(Append(Append(u, h), l))
           /\ \A l \in Low : ~PairedUp(Append(u, l))
           /\ \A h \in High : ~PairedUp(Append(u, h))
<1> DEFINE n == Len(u)
<1>1. n \in Nat /\ DOMAIN u = 1 .. n
  OBVIOUS
<1>2. \A i \in 1 .. n : /\ u[i] \in High => i < n /\ u[i + 1] \in Low
                        /\ u[i] \in Low => i > 1 /\ u[i - 1] \in High
  BY <1>1 DEF PairedUp
<1>3. ASSUME NEW x \in Nat, x \notin High, x \notin Low PROVE PairedUp(Append(u, x))
  <2> DEFINE v == Append(u, x)
  <2>1. Len(v) = n + 1 /\ DOMAIN v = 1 .. n + 1 /\ v[n + 1] = x /\ \A i \in 1 .. n : v[i] = u[i]
    BY FurtherIs
  <2> HIDE DEF v, n
  <2>2. ASSUME NEW i \in 1 .. n + 1
        PROVE  /\ v[i] \in High => i < n + 1 /\ v[i + 1] \in Low
               /\ v[i] \in Low => i > 1 /\ v[i - 1] \in High
    <3>1. CASE i = n + 1
      BY <1>3, <2>1, <3>1
    <3>2. CASE i \in 1 .. n
      <4>1. v[i] = u[i]
        BY <2>1, <3>2
      <4>2. ASSUME v[i] \in High PROVE i < n + 1 /\ v[i + 1] \in Low
        <5>1. i < n /\ u[i + 1] \in Low
          BY <1>2, <3>2, <4>1, <4>2
        <5>2. i + 1 \in 1 .. n
          BY <1>1, <3>2, <5>1
        <5> QED BY <1>1, <2>1, <3>2, <5>1, <5>2
      <4>3. ASSUME v[i] \in Low PROVE i > 1 /\ v[i - 1] \in High
        <5>1. i > 1 /\ u[i - 1] \in High
          BY <1>2, <3>2, <4>1, <4>3
        <5>2. i - 1 \in 1 .. n
          BY <1>1, <3>2, <5>1
        <5> QED BY <2>1, <5>1, <5>2
      <4> QED BY <4>2, <4>3
    <3> QED BY <1>1, <3>1, <3>2
  <2> QED BY <2>1, <2>2 DEF PairedUp, v
<1>4. ASSUME NEW h \in High, NEW l \in Low PROVE PairedUp(Append(Append(u, h), l))
  <2> DEFINE w == Append(u, h)  v == Append(w, l)
  <2>1. h \in Nat /\ l \in Nat /\ h \notin Low /\ l \notin High
    BY CodesAre
  <2>2. w \in Seq(Nat) /\ Len(w) = n + 1 /\ w[n + 1] = h /\ \A i \in 1 .. n : w[i] = u[i]
    BY <2>1, FurtherIs
  <2> HIDE DEF w
  <2>3. /\ Len(v) = (n + 1) + 1 /\ DOMAIN v = 1 .. (n + 1) + 1 /\ v[(n + 1) + 1] = l
        /\ \A i \in 1 .. n + 1 : v[i] = w[i]
    BY <2>1, <2>2, FurtherIs
  <2> HIDE DEF v, n
  <2>4. /\ Len(v) = n + 2 /\ DOMAIN v = 1 .. n + 2 /\ v[n + 2] = l /\ v[n + 1] = h
        /\ \A i \in 1 .. n : v[i] = u[i]
    <3>1. (n + 1) + 1 = n + 2 /\ n + 1 \in 1 .. n + 1 /\ \A i \in 1 .. n : i \in 1 .. n + 1
      BY <1>1
    <3> QED BY <2>2, <2>3, <3>1
  <2>5. ASSUME NEW i \in 1 .. n + 2
        PROVE  /\ v[i] \in High => i < n + 2 /\ v[i + 1] \in Low
               /\ v[i] \in Low => i > 1 /\ v[i - 1] \in High
    <3>1. CASE i = n + 2
      <4>1. i > 1 /\ i - 1 = n + 1
        BY <1>1, <3>1
      <4> QED BY <2>1, <2>4, <3>1, <4>1
    <3>2. CASE i = n + 1
      <4>1. i < n + 2 /\ i + 1 = n + 2
        BY <1>1, <3>2
      <4> QED BY <2>1, <2>4, <3>2, <4>1
    <3>3. CASE i \in 1 .. n
      <4>1. v[i] = u[i]
        BY <2>4, <3>3
      <4>2. ASSUME v[i] \in High PROVE i < n + 2 /\ v[i + 1] \in Low
        <5>1. i < n /\ u[i + 1] \in Low
          BY <1>2, <3>3, <4>1, <4>2
        <5>2. i + 1 \in 1 .. n /\ i < n + 2
          BY <1>1, <3>3, <5>1
        <5> QED BY <2>4, <5>1, <5>2
      <4>3. ASSUME v[i] \in Low PROVE i > 1 /\ v[i - 1] \in High
        <5>1. i > 1 /\ u[i - 1] \in High
          BY <1>2, <3>3, <4>1, <4>3
        <5>2. i - 1 \in 1 .. n
          BY <1>1, <3>3, <5>1
        <5> QED BY <2>4, <5>1, <5>2
      <4> QED BY <4>2, <4>3
    <3>4. i = n + 2 \/ i = n + 1 \/ i \in 1 .. n
      BY <1>1
    <3> QED BY <3>1, <3>2, <3>3, <3>4
  <2> QED BY <2>4, <2>5 DEF PairedUp, v, w
<1>5. ASSUME NEW l \in Low, PairedUp(Append(u, l)) PROVE FALSE
  <2> DEFINE v == Append(u, l)
  <2>1. l \in Nat /\ l \notin High
    BY CodesAre
  <2>2. DOMAIN v = 1 .. n + 1 /\ v[n + 1] = l /\ \A i \in 1 .. n : v[i] = u[i]
    BY <2>1, FurtherIs
  <2>3. PairedUp(v)
    BY <1>5
  <2> HIDE DEF v, n
  <2>4. n + 1 \in 1 .. n + 1 /\ (n + 1) - 1 = n
    BY <1>1
  <2>5. n + 1 > 1 /\ v[n] \in High
    <3>1. v[n + 1] \in Low => n + 1 > 1 /\ v[(n + 1) - 1] \in High
      BY <2>2, <2>3, <2>4 DEF PairedUp
    <3> QED BY <2>2, <2>4, <3>1
  <2>6. n \in 1 .. n
    BY <1>1, <2>5
  <2>7. n < n
    BY <1>2, <2>2, <2>5, <2>6
  <2> QED BY <1>1, <2>7
<1>6. ASSUME NEW h \in High, PairedUp(Append(u, h)) PROVE FALSE
  <2> DEFINE v == Append(u, h)
  <2>1. h \in Nat
    BY CodesAre
  <2>2. DOMAIN v = 1 .. n + 1 /\ v[n + 1] = h /\ Len(v) = n + 1
    BY <2>1, FurtherIs
  <2>3. PairedUp(v)
    BY <1>6
  <2> HIDE DEF v, n
  <2>4. n + 1 \in 1 .. n + 1
    BY <1>1
  <2>5. n + 1 < n + 1
    BY <2>2, <2>3, <2>4 DEF PairedUp
  <2> QED BY <1>1, <2>5
<1> QED BY <1>3, <1>4, <1>5, <1>6

(* A high surrogate followed by anything but a low one. *)
LEMMA HighAlone ==
    ASSUME NEW v \in Seq(Nat), NEW i \in 1 .. Len(v), v[i] \in High, i + 1 \in 1 .. Len(v), v[i + 1] \notin Low
    PROVE  ~PairedUp(v)
<1>1. DOMAIN v = 1 .. Len(v)
  OBVIOUS
<1> QED BY <1>1 DEF PairedUp

(* A character keeps the pairs, except after a high surrogate alone. *)
LEMMA CharacterPairs ==
    ASSUME NEW u \in Seq(Nat), PairedUp(u), NEW c \in Chars
    PROVE  /\ PairedUp(u \o Utf16(c)) /\ u \o Utf16(c) \in Seq(Nat)
           /\ \A h \in High : ~PairedUp(Append(u, h) \o Utf16(c))
<1>0. c \in Nat /\ c \notin High /\ c \notin Low
  BY CodesAre
<1>1. CASE c < 65536
  <2>1. Utf16(c) = <<c>>
    BY <1>1, Utf16Is
  <2>2. u \o <<c>> = Append(u, c) /\ Append(u, c) \in Seq(Nat)
    BY <1>0, TwoFurther
  <2>3. PairedUp(Append(u, c))
    BY <1>0, PairedFurther
  <2>4. ASSUME NEW h \in High PROVE ~PairedUp(Append(u, h) \o <<c>>)
    <3> DEFINE w == Append(u, h)
    <3>1. h \in Nat
      BY CodesAre
    <3>2. w \in Seq(Nat) /\ Len(w) = Len(u) + 1 /\ w[Len(u) + 1] = h /\ Len(u) \in Nat
      BY <3>1, FurtherIs
    <3> HIDE DEF w
    <3>3. w \o <<c>> = Append(w, c)
      BY <1>0, <3>2, TwoFurther
    <3>4. /\ Append(w, c) \in Seq(Nat) /\ Len(Append(w, c)) = Len(w) + 1
          /\ Append(w, c)[Len(w) + 1] = c /\ \A i \in 1 .. Len(w) : Append(w, c)[i] = w[i]
      BY <1>0, <3>2, FurtherIs
    <3>5. Len(w) \in 1 .. Len(w) + 1 /\ Len(w) \in 1 .. Len(w) /\ Len(w) + 1 \in 1 .. Len(w) + 1
      BY <3>2
    <3>6. ~PairedUp(Append(w, c))
      BY <1>0, <3>2, <3>4, <3>5, HighAlone
    <3> QED BY <3>3, <3>6 DEF w
  <2> QED BY <2>1, <2>2, <2>3, <2>4
<1>2. CASE c >= 65536
  <2>1. PICK a \in High, b \in Low : Utf16(c) = <<a, b>>
    BY <1>2, Utf16Is
  <2>2. a \in Nat /\ b \in Nat /\ a \notin Low
    BY CodesAre
  <2>3. u \o <<a, b>> = Append(Append(u, a), b) /\ Append(u, a) \in Seq(Nat)
    BY <2>2, TwoFurther
  <2>4. PairedUp(Append(Append(u, a), b))
    BY PairedFurther
  <2>5. Append(Append(u, a), b) \in Seq(Nat)
    BY <2>2, <2>3, FurtherIs
  <2>6. ASSUME NEW h \in High PROVE ~PairedUp(Append(u, h) \o <<a, b>>)
    <3> DEFINE w == Append(u, h)
    <3>1. h \in Nat
      BY CodesAre
    <3>2. w \in Seq(Nat) /\ Len(w) = Len(u) + 1 /\ w[Len(u) + 1] = h /\ Len(u) \in Nat
      BY <3>1, FurtherIs
    <3> HIDE DEF w
    <3> DEFINE y == Append(w, a)  z == Append(y, b)
    <3>3. w \o <<a, b>> = z
      BY <2>2, <3>2, TwoFurther
    <3>4. /\ y \in Seq(Nat) /\ Len(y) = Len(w) + 1
          /\ y[Len(w) + 1] = a /\ \A i \in 1 .. Len(w) : y[i] = w[i]
      BY <2>2, <3>2, FurtherIs
    <3> HIDE DEF y
    <3>5. z \in Seq(Nat) /\ Len(z) = Len(y) + 1 /\ \A i \in 1 .. Len(y) : z[i] = y[i]
      BY <2>2, <3>4, FurtherIs
    <3> HIDE DEF z
    <3>6. /\ Len(w) \in 1 .. Len(w) /\ Len(w) \in 1 .. Len(y) /\ Len(w) + 1 \in 1 .. Len(y)
          /\ Len(w) \in 1 .. Len(z) /\ Len(w) + 1 \in 1 .. Len(z)
      BY <3>2, <3>4, <3>5
    <3>7. z[Len(w)] = h /\ z[Len(w) + 1] = a
      BY <3>2, <3>4, <3>5, <3>6
    <3>8. ~PairedUp(z)
      BY <2>2, <3>5, <3>6, <3>7, HighAlone
    <3> QED BY <3>3, <3>8 DEF w
  <2> QED BY <2>1, <2>3, <2>4, <2>5, <2>6
<1>3. c < 65536 \/ c >= 65536
  BY SMT, <1>0
<1> QED BY <1>1, <1>2, <1>3

(* The totals of a text are numbers. *)
LEMMA TotalsAre ==
    ASSUME NEW t \in Texts
    PROVE  BytesOf(t) \in Nat /\ NodesOf(t) \in Nat
<1>1. t \in Seq(Lexemes)
  BY DEF Texts
<1>2. ASSUME NEW f \in Seq(Nat) PROVE Total(f) \in Nat
  <2>1. Sums(f) \in [0 .. Len(f) -> Nat] /\ Len(f) \in 0 .. Len(f)
    BY SumsAre
  <2> QED BY <2>1 DEF Total
<1>3. CASE t = <<>>
  <2>1. [i \in DOMAIN t |-> NodesIn(t[i])] = <<>> /\ [i \in DOMAIN t |-> BytesIn(t[i])] = <<>>
    BY <1>3
  <2> QED BY <2>1, TotalOfFew DEF BytesOf, NodesOf
<1>4. CASE t # <<>>
  <2>1. Last(t) \in Lexemes
    BY <1>1, <1>4, FrontIs
  <2> QED BY <2>1, TotalsFurther
<1> QED BY <1>3, <1>4

(* Two charges on a text, and both at once. *)
LEMMA ChargesJoin ==
    ASSUME NEW t \in Texts, NEW m \in Nat, NEW n \in Nat, NEW d \in Nat
    PROVE  /\ Charge(Charge(BudgetOf(t), m, 1), n, 0) = Charge(BudgetOf(t), m + n, 1)
           /\ Admits(Charge(BudgetOf(t), m, 1), n, 0, d) <=> Admits(BudgetOf(t), m + n, 1, d)
<1> DEFINE b == BudgetOf(t)  B == BytesOf(t)  N == NodesOf(t)
<1>1. b.counts.bytes = B /\ b.counts.nodes = N /\ b.byte_limit = DOCUMENT_BYTES /\ b.combined = {}
  BY BudgetIs
<1>2. B \in Nat /\ N \in Nat
  BY TotalsAre
<1> HIDE DEF b, B, N
<1>3. ASSUME NEW k
      PROVE  /\ Charge(b, k, 1) = [counts |-> [bytes |-> B + k, nodes |-> N + 1],
                                   byte_limit |-> DOCUMENT_BYTES, combined |-> {}]
  <2>1. {Plus(total, k, 1) : total \in b.combined} = {}
    BY <1>1
  <2> QED BY <1>1, <2>1, Zenon DEF Charge, Plus
<1>4. Charge(Charge(b, m, 1), n, 0) = Charge(b, m + n, 1)
  <2> DEFINE a == Charge(b, m, 1)
  <2>1. a.counts.bytes = B + m /\ a.counts.nodes = N + 1 /\ a.byte_limit = DOCUMENT_BYTES /\ a.combined = {}
    BY <1>3
  <2> HIDE DEF a
  <2>2. {Plus(total, n, 0) : total \in a.combined} = {}
    BY <2>1
  <2>3. Charge(a, n, 0) = [counts |-> [bytes |-> (B + m) + n, nodes |-> (N + 1) + 0],
                           byte_limit |-> DOCUMENT_BYTES, combined |-> {}]
    BY <2>1, <2>2, Zenon DEF Charge, Plus
  <2>4. (B + m) + n = B + (m + n) /\ (N + 1) + 0 = N + 1
    BY <1>2
  <2> QED BY <1>3, <2>3, <2>4 DEF a
<1>5. Admits(Charge(b, m, 1), n, 0, d) <=> Admits(b, m + n, 1, d)
  <2> DEFINE a == Charge(b, m, 1)
  <2>1. a.counts.bytes = B + m /\ a.counts.nodes = N + 1 /\ a.byte_limit = DOCUMENT_BYTES /\ a.combined = {}
    BY <1>3
  <2> HIDE DEF a
  <2>2. Admits(a, n, 0, d) <=> d =< DEPTH /\ Fits(B + m, n, DOCUMENT_BYTES) /\ Fits(N + 1, 0, NODES)
    BY <2>1, Zenon DEF Admits
  <2>3. Admits(b, m + n, 1, d) <=> d =< DEPTH /\ Fits(B, m + n, DOCUMENT_BYTES) /\ Fits(N, 1, NODES)
    BY <1>1, Zenon DEF Admits
  <2>4. Fits(B + m, n, DOCUMENT_BYTES) <=> Fits(B, m + n, DOCUMENT_BYTES)
    BY <1>2, LimitsAre DEF Fits
  <2>5. Fits(N + 1, 0, NODES) <=> Fits(N, 1, NODES)
    BY <1>2, LimitsAre DEF Fits
  <2> QED BY <2>2, <2>3, <2>4, <2>5 DEF a
<1> QED BY <1>4, <1>5 DEF b

(* A string one part further. *)
LEMMA PartsFurther ==
    ASSUME NEW t \in Seq(StringParts), NEW x \in StringParts
    PROVE  /\ Waits(Append(t, x)) <=> (x.is = "unit" /\ x.code \in High)
           /\ Waits(Append(t, x)) => Settled(Append(t, x)) = Units(t)
           /\ ~Waits(Append(t, x)) => Settled(Append(t, x)) = Units(t) \o PartUnits(x)
           /\ (\A i \in DOMAIN Append(t, x) : Readable(Append(t, x)[i])) <=>
                 (Readable(x) /\ \A i \in DOMAIN t : Readable(t[i]))
<1> DEFINE u == Append(t, x)  n == Len(t)
<1>1. /\ u # <<>> /\ Last(u) = x /\ Front(u) = t /\ n \in Nat
      /\ DOMAIN t = 1 .. n /\ DOMAIN u = 1 .. n + 1 /\ u[n + 1] = x /\ \A i \in 1 .. n : u[i] = t[i]
  BY FurtherIs
<1>2. Units(u) = Units(t) \o PartUnits(x)
  BY UnitsFurther
<1> HIDE DEF u, n
<1>3. Waits(u) <=> (x.is = "unit" /\ x.code \in High)
  BY <1>1 DEF Waits
<1>4. /\ Waits(u) => Settled(u) = Units(t)
      /\ ~Waits(u) => Settled(u) = Units(t) \o PartUnits(x)
  BY <1>1, <1>2 DEF Settled
<1>5. (\A i \in DOMAIN u : Readable(u[i])) <=> (Readable(x) /\ \A i \in DOMAIN t : Readable(t[i]))
  <2>1. \A i \in 1 .. n + 1 : i \in 1 .. n \/ i = n + 1
    BY <1>1
  <2>2. n + 1 \in 1 .. n + 1 /\ \A i \in 1 .. n : i \in 1 .. n + 1
    BY <1>1
  <2>3. ASSUME \A i \in DOMAIN u : Readable(u[i]) PROVE Readable(x) /\ \A i \in DOMAIN t : Readable(t[i])
    <3>1. Readable(u[n + 1])
      BY <1>1, <2>2, <2>3
    <3>2. ASSUME NEW i \in 1 .. n PROVE Readable(t[i])
      <4>1. i \in DOMAIN u /\ u[i] = t[i]
        BY <1>1, <2>2
      <4> QED BY <2>3, <4>1
    <3> QED BY <1>1, <3>1, <3>2
  <2>4. ASSUME Readable(x), \A i \in DOMAIN t : Readable(t[i]), NEW i \in 1 .. n + 1 PROVE Readable(u[i])
    <3>1. CASE i = n + 1
      BY <1>1, <2>4, <3>1
    <3>2. CASE i \in 1 .. n
      <4>1. u[i] = t[i] /\ i \in DOMAIN t
        BY <1>1, <3>2
      <4> QED BY <2>4, <4>1
    <3> QED BY <2>1, <3>1, <3>2
  <2> QED BY <1>1, <2>3, <2>4
<1> QED BY <1>3, <1>4, <1>5 DEF u

(* Nothing joined is nothing. *)
LEMMA FlattenNothing == FlattenSeq(<<>>) = <<>>
<1>1. Len(<<>>) = 0
  OBVIOUS
<1> QED BY <1>1, Zenon DEF FlattenSeq

(* What has been settled, and the half that waits. *)
LEMMA SettledIs ==
    ASSUME NEW t \in Seq(StringParts)
    PROVE  /\ ~Waits(t) => Settled(t) = Units(t)
           /\ Waits(t) => /\ Last(t).code \in High /\ Units(t) = Append(Settled(t), Last(t).code)
           /\ Settled(t) \in Seq(Nat)
<1>1. CASE ~Waits(t)
  <2>1. Settled(t) = Units(t)
    BY <1>1 DEF Settled
  <2>2. Units(t) \in Seq(Nat)
    <3>1. CASE t = <<>>
      <4>1. [i \in DOMAIN t |-> PartUnits(t[i])] = <<>>
        BY <3>1
      <4>2. FlattenSeq([i \in DOMAIN t |-> PartUnits(t[i])]) = <<>>
        BY <4>1, FlattenNothing
      <4>3. <<>> \in Seq(Nat)
        OBVIOUS
      <4> QED BY ONLY <4>2, <4>3 DEF Units
    <3>2. CASE t # <<>>
      <4>1. Last(t) \in StringParts
        BY <3>2, FrontIs
      <4> QED BY <4>1, UnitsFurther
    <3> QED BY <3>1, <3>2
  <2> QED BY <1>1, <2>1, <2>2
<1>2. CASE Waits(t)
  <2> DEFINE f == Front(t)  x == Last(t)
  <2>0. t # <<>> /\ x.is = "unit" /\ x.code \in High
    BY <1>2 DEF Waits
  <2>1. f \in Seq(StringParts) /\ x \in StringParts /\ t = Append(f, x)
    <3>1. /\ f \in Seq(StringParts) /\ Len(f) = Len(t) - 1 /\ Len(t) \in Nat \ {0}
          /\ \A i \in 1 .. Len(t) - 1 : f[i] = t[i]
          /\ x = t[Len(t)] /\ x \in StringParts
      BY <2>0, FrontIs
    <3> HIDE DEF f, x
    <3> DEFINE u == Append(f, x)  n == Len(t)
    <3>2. /\ u \in Seq(StringParts) /\ Len(u) = Len(f) + 1
          /\ u[Len(f) + 1] = x /\ \A i \in 1 .. Len(f) : u[i] = f[i]
      BY <3>1, FurtherIs
    <3> HIDE DEF u
    <3>3. Len(u) = n /\ \A i \in 1 .. n : u[i] = t[i]
      <4>1. Len(f) + 1 = n /\ \A i \in 1 .. n : i = Len(f) + 1 \/ (i \in 1 .. Len(f) /\ i \in 1 .. n - 1)
        BY <3>1
      <4> QED BY <3>1, <3>2, <4>1
    <3> HIDE DEF n
    <3>4. u = t
      BY <3>2, <3>3, SeqEqual DEF n
    <3> QED BY <3>1, <3>4 DEF u
  <2>2. Settled(t) = Units(f)
    BY <1>2 DEF Settled
  <2>3. Units(t) = Units(f) \o PartUnits(x) /\ Units(f) \in Seq(Nat)
    <3> HIDE DEF f, x
    <3> QED BY <2>1, UnitsFurther
  <2>4. PartUnits(x) = <<x.code>> /\ x.code \in Nat
    BY <2>0, <2>1, PartIs, CodesAre
  <2>5. Units(f) \o <<x.code>> = Append(Units(f), x.code)
    BY <2>3, <2>4, TwoFurther
  <2> QED BY <1>2, <2>0, <2>2, <2>3, <2>4, <2>5
<1> QED BY <1>1, <1>2

(* While a string is read, the characters got so far spell what is settled  *)
(* of it, and the budget has been charged for them.                         *)
Spelling ==
    /\ token \in Seq(StringParts) /\ got \in Seq(Chars)
    /\ place = "string" \/ place = "low"
    /\ place = "low" <=> Waits(token)
    /\ StringBegins(token) /\ SpelledOut(got) = Settled(token)
    /\ budget = Charge(BudgetOf(text), Utf8Bytes(Settled(token)), 1)

(* One part of a string: it goes on, or is answered as the lexeme demands.  *)
Spelt ==
    /\ answer' # "none" /\ (place' = "string" \/ place' = "low")
    /\ answer' = "reading" => Spelling'
    /\ StringIsLexeme'

(* A string that goes on has so far been read as the lexeme demands; *)
LEMMA StillReading ==
    ASSUME answer' = "reading", Spelling'
    PROVE  Spelt
<1>1. Before' = BudgetOf(text)'
  BY DEF Before, BudgetOf
<1>2. place' = "string" \/ place' = "low"
  BY DEF Spelling
<1>3. StringBegins(token)' /\ (SpelledOut(got) = Settled(token))'
      /\ (budget = Charge(Before, Utf8Bytes(Settled(token)), 1))'
  BY <1>1 DEF Spelling
<1>4. StringIsLexeme'
  BY <1>3 DEF StringIsLexeme
<1> QED BY <1>2, <1>4 DEF Spelt

(* one that is refused began as one, and no longer does; *)
LEMMA StringRefused ==
    ASSUME Spelling, NEW x \in StringParts, token' = Append(token, x), place' = place,
           answer' = "syntax" \/ answer' = "unicode", ~StringBegins(token'), answer' = StringFault(token')
    PROVE  Spelt
<1>1. token \in Seq(StringParts) /\ StringBegins(token) /\ (place = "string" \/ place = "low")
  BY DEF Spelling
<1>2. Front(token') = token
  BY <1>1, FurtherIs
<1>3. StringBegins(Front(token'))
  BY <1>1, <1>2
<1>4. StringIsLexeme'
  BY <1>3 DEF StringIsLexeme
<1> QED BY <1>1, <1>4 DEF Spelt

(* and a character is charged and got, or there is no room for it. *)
LEMMA CharacterPushed ==
    ASSUME Decoding, Spelling, answer = "reading", NEW x \in StringParts, NEW c \in Chars, Part(x), Readable(x),
           Push(c), ~Waits(token'), Units(token') = Settled(token) \o Utf16(c)
    PROVE  Spelt
<1>1. /\ token' = Append(token, x) /\ text' = text /\ frames' = frames
      /\ token \in Seq(StringParts) /\ got \in Seq(Chars) /\ text \in Texts
      /\ StringBegins(token) /\ SpelledOut(got) = Settled(token)
      /\ place = "string" \/ place = "low"
  BY DEF Part, Spelling, Decoding
<1> DEFINE s == Settled(token)  b == BudgetOf(text)
<1>2. s \in Seq(Nat) /\ PairedUp(s) /\ \A i \in DOMAIN token : Readable(token[i])
  BY <1>1, SettledIs DEF StringBegins
<1>3. token' \in Seq(StringParts)
  BY <1>1, FurtherIs
<1>4. Settled(token') = s \o Utf16(c) /\ Units(token') = s \o Utf16(c)
  BY <1>3, SettledIs
<1>5. PairedUp(s \o Utf16(c)) /\ Utf8Bytes(s \o Utf16(c)) = Utf8Bytes(s) + Utf8Size(c) /\ Utf8Bytes(s) \in Nat
  <2>1. Utf8Bytes(s) \in Nat
    <3>1. 0 \in Nat
      OBVIOUS
    <3> HIDE DEF s
    <3> QED BY <1>2, <3>1, BytesFurther
  <2> HIDE DEF s
  <2> QED BY <1>2, <2>1, CharacterPairs, CharacterBytes
<1>6. StringBegins(token')
  <2>1. \A i \in DOMAIN token' : Readable(token'[i])
    BY <1>1, <1>2, PartsFurther
  <2> HIDE DEF s
  <2> QED BY <1>4, <1>5, <2>1 DEF StringBegins
<1>7. budget = Charge(b, Utf8Bytes(s), 1)
  BY DEF Spelling
<1>8. Utf8Size(c) \in Nat
  BY DEF Utf8Size
<1>9. Depth \in Nat /\ Depth' = Depth
  <2>1. frames' = frames
    BY <1>1
  <2>2. Len(frames) \in Nat
    <3>1. Gone(text, frames, at, out)
      <4>1. status = "running"
        BY DEF Decoding
      <4> QED BY <4>1 DEF Decoding
    <3>2. Levelled(text, frames)
      BY <3>1, Zenon DEF Gone
    <3> QED BY <3>2 DEF Levelled
  <2> QED BY <2>1, <2>2 DEF Depth
<1>10. Before' = b /\ BudgetOf(text)' = b
  BY <1>1 DEF Before, BudgetOf
<1>11. /\ Charge(budget, Utf8Size(c), 0) = Charge(b, Utf8Bytes(s \o Utf16(c)), 1)
       /\ Admits(budget, Utf8Size(c), 0, Depth) <=> Admits(b, Utf8Bytes(s \o Utf16(c)), 1, Depth)
  <2> HIDE DEF s, b
  <2>1. /\ Charge(Charge(b, Utf8Bytes(s), 1), Utf8Size(c), 0) = Charge(b, Utf8Bytes(s) + Utf8Size(c), 1)
        /\ Admits(Charge(b, Utf8Bytes(s), 1), Utf8Size(c), 0, Depth)
              <=> Admits(b, Utf8Bytes(s) + Utf8Size(c), 1, Depth)
    BY <1>1, <1>5, <1>8, <1>9, ChargesJoin DEF b
  <2> QED BY <1>5, <1>7, <2>1
<1> HIDE DEF s, b
<1>12. CASE /\ budget' = Charge(budget, Utf8Size(c), 0)
            /\ got' = Append(got, c) /\ place' = "string" /\ UNCHANGED answer
  <2>1. got' \in Seq(Chars) /\ SpelledOut(got') = Settled(token')
    <3>1. got' \in Seq(Chars)
      BY <1>1, <1>12, FurtherIs
    <3>2. SpelledOut(Append(got, c)) = SpelledOut(got) \o Utf16(c)
      BY <1>1, SpelledFurther
    <3> QED BY <1>1, <1>4, <1>12, <3>1, <3>2 DEF s
  <2>2. budget' = Charge(b, Utf8Bytes(Settled(token')), 1)
    BY <1>4, <1>11, <1>12
  <2>3. Spelling'
    BY <1>3, <1>6, <1>10, <1>12, <2>1, <2>2 DEF Spelling
  <2>4. answer' = "reading"
    BY <1>12
  <2> QED BY <2>3, <2>4, StillReading
<1>13. ASSUME answer' = "memory" \/ answer' = "budget", place' = place,
              answer' = "memory" <=> Admits(budget, Utf8Size(c), 0, Depth)
       PROVE  Spelt
  <2>1. answer' = "memory" <=> (Admits(Before, Utf8Bytes(Units(token)), 1, Depth))'
    <3>1. (Admits(Before, Utf8Bytes(Units(token)), 1, Depth))' <=> Admits(b, Utf8Bytes(s \o Utf16(c)), 1, Depth)
      BY <1>4, <1>9, <1>10
    <3> QED BY <1>11, <1>13, <3>1
  <2>2. StringIsLexeme'
    BY <1>6, <1>13, <2>1 DEF StringIsLexeme
  <2>3. (place' = "string" \/ place' = "low") /\ answer' # "none" /\ answer' # "reading"
    BY <1>1, <1>13
  <2> QED BY <2>2, <2>3 DEF Spelt
<1>14. CASE Admits(budget, Utf8Size(c), 0, Depth) /\ Answer("memory")
  <2>1. answer' = "memory" /\ place' = place
    BY <1>14 DEF Answer
  <2> QED BY <1>13, <1>14, <2>1
<1>15. CASE ~Admits(budget, Utf8Size(c), 0, Depth) /\ Answer("budget")
  <2>1. answer' = "budget" /\ place' = place
    BY <1>15 DEF Answer
  <2> QED BY <1>13, <1>15, <2>1
<1> QED BY <1>12, <1>14, <1>15 DEF Push

(* The actions one by one: a character or an escape of one letter, *)
LEMMA CharacterSpelt ==
    ASSUME Decoding, Spelling, answer = "reading", NEW x \in StringParts, ReadCharacter(x)
    PROVE  Spelt
<1>1. place = "string" /\ (x.is = "char" \/ x.is = "escape") /\ Part(x) /\ token' = Append(token, x)
  BY DEF ReadCharacter, Part
<1>2. token \in Seq(StringParts) /\ ~Waits(token) /\ Settled(token) = Units(token)
  BY <1>1, SettledIs DEF Spelling
<1>3. x.code \in Chars /\ PartUnits(x) = Utf16(x.code)
  BY <1>1, PartIs
<1>4. ~Waits(token')
  BY <1>1, <1>2, PartsFurther
<1>5. CASE x.is = "char" /\ x.code < 32
  <2>1. answer' = "syntax" /\ place' = place
    BY <1>5 DEF ReadCharacter, Answer
  <2>2. ~Readable(x)
    <3>1. x.code \in Nat
      BY <1>3, CodesAre
    <3> QED BY <1>5, <3>1 DEF Readable
  <2>3. ~StringBegins(token')
    BY <1>1, <1>2, <2>2, PartsFurther DEF StringBegins
  <2>4. StringFault(token') = "syntax"
    <3>1. Front(token') = token /\ Last(token') = x
      BY <1>1, <1>2, FurtherIs
    <3> QED BY <1>1, <1>2, <3>1 DEF StringFault
  <2> QED BY <1>1, <2>1, <2>3, <2>4, StringRefused
<1>6. CASE ~(x.is = "char" /\ x.code < 32)
  <2>1. Push(x.code)
    BY <1>6 DEF ReadCharacter
  <2>2. Readable(x)
    <3>1. x.code \in Nat
      BY <1>3, CodesAre
    <3> QED BY <1>1, <1>6, <3>1 DEF Readable
  <2>3. Units(token') = Settled(token) \o Utf16(x.code)
    BY <1>1, <1>2, <1>3, UnitsFurther
  <2> QED BY <1>1, <1>3, <1>4, <2>1, <2>2, <2>3, CharacterPushed
<1> QED BY <1>5, <1>6

(* an escape with a code unit, *)
LEMMA UnitSpelt ==
    ASSUME Decoding, Spelling, answer = "reading", NEW x \in StringParts, ReadUnit(x)
    PROVE  Spelt
<1>1. place = "string" /\ x.is = "unit" /\ Part(x) /\ token' = Append(token, x) /\ text' = text
  BY DEF ReadUnit, Part
<1>2. /\ token \in Seq(StringParts) /\ ~Waits(token)
      /\ Settled(token) = Units(token) /\ Settled(token) \in Seq(Nat)
  BY <1>1, SettledIs DEF Spelling
<1>3. x.code \in CodeUnits /\ PartUnits(x) = <<x.code>> /\ Readable(x) /\ x.code \in Nat
  BY <1>1, PartIs, CodesAre DEF Readable
<1>4. Front(token') = token /\ Last(token') = x /\ token' \in Seq(StringParts)
  BY <1>1, <1>2, FurtherIs
<1>5. (\A i \in DOMAIN token : Readable(token[i])) /\ PairedUp(Settled(token))
  BY DEF Spelling, StringBegins
<1>6. \A i \in DOMAIN token' : Readable(token'[i])
  BY <1>1, <1>2, <1>3, <1>5, PartsFurther
<1>7. CASE x.code \in High
  <2>1. place' = "low" /\ UNCHANGED <<budget, got, answer>>
    <3>1. x.code \notin Low
      BY <1>7, CodesAre
    <3> QED BY <1>7, <3>1 DEF ReadUnit, Continue
  <2>2. Waits(token') /\ Settled(token') = Settled(token)
    BY <1>1, <1>2, <1>7, PartsFurther
  <2>3. Spelling'
    <3>1. StringBegins(token')
      BY <1>5, <1>6, <2>2 DEF StringBegins
    <3>2. got \in Seq(Chars) /\ SpelledOut(got) = Settled(token)
          /\ budget = Charge(BudgetOf(text), Utf8Bytes(Settled(token)), 1)
      BY DEF Spelling
    <3>3. BudgetOf(text)' = BudgetOf(text)
      BY <1>1
    <3> QED BY <1>4, <2>1, <2>2, <3>1, <3>2, <3>3 DEF Spelling
  <2> QED BY <2>1, <2>3, StillReading
<1>8. CASE x.code \in Low
  <2>1. x.code \notin High
    BY <1>8, CodesAre
  <2>2. answer' = "unicode" /\ place' = place
    BY <1>8, <2>1 DEF ReadUnit, Answer
  <2>3. Settled(token') = Append(Settled(token), x.code)
    <3>1. Settled(token') = Units(token) \o PartUnits(x)
      BY <1>1, <1>2, <2>1, PartsFurther
    <3>2. Settled(token) \o <<x.code>> = Append(Settled(token), x.code)
      BY <1>2, <1>3, TwoFurther
    <3> QED BY <1>2, <1>3, <3>1, <3>2
  <2>4. ~StringBegins(token')
    BY <1>2, <1>5, <1>8, <2>3, PairedFurther DEF StringBegins
  <2>5. StringFault(token') = "unicode"
    BY <1>1, <1>2, <1>4 DEF StringFault
  <2> QED BY <1>1, <2>2, <2>4, <2>5, StringRefused
<1>9. CASE x.code \notin High /\ x.code \notin Low
  <2>1. x.code \in Chars /\ x.code < 65536
    BY <1>3, <1>9, CodesAre
  <2>2. Push(x.code)
    BY <1>9 DEF ReadUnit
  <2>3. Utf16(x.code) = <<x.code>>
    BY <2>1, Utf16Is
  <2>4. Units(token') = Settled(token) \o Utf16(x.code)
    BY <1>1, <1>2, <1>3, <2>3, UnitsFurther
  <2>5. ~Waits(token')
    BY <1>1, <1>2, <1>9, PartsFurther
  <2> QED BY <1>1, <1>3, <2>1, <2>2, <2>4, <2>5, CharacterPushed
<1> QED BY <1>7, <1>8, <1>9

(* what follows a high surrogate, *)
LEMMA LowSpelt ==
    ASSUME Decoding, Spelling, answer = "reading", NEW x \in StringParts, ReadLow(x)
    PROVE  Spelt
<1>1. place = "low" /\ Part(x) /\ token' = Append(token, x)
  BY DEF ReadLow, Part
<1> DEFINE h == Last(token).code  s == Settled(token)
<1>2. /\ token \in Seq(StringParts) /\ Waits(token) /\ h \in High /\ h \in Nat
      /\ Units(token) = Append(s, h) /\ s \in Seq(Nat)
  BY <1>1, SettledIs, CodesAre DEF Spelling
<1>3. Front(token') = token /\ Last(token') = x /\ token' \in Seq(StringParts)
  BY <1>1, <1>2, FurtherIs
<1>4. PairedUp(s)
  BY DEF Spelling, StringBegins
<1>5. Units(token') = Append(s, h) \o PartUnits(x)
  BY <1>1, <1>2, UnitsFurther
<1>6. x.is = "unit" => x.code \in Nat /\ PartUnits(x) = <<x.code>>
  BY PartIs, CodesAre
<1> HIDE DEF s, h
<1>7. CASE x.is = "unit" /\ x.code \in Low
  <2>1. Push(Paired(h, x.code))
    BY <1>7 DEF ReadLow, h
  <2>2. Paired(h, x.code) \in Chars /\ Utf16(Paired(h, x.code)) = <<h, x.code>>
    BY <1>2, <1>7, PairIs
  <2>3. Units(token') = s \o Utf16(Paired(h, x.code))
    <3>1. Append(s, h) \in Seq(Nat) /\ s \o <<h, x.code>> = Append(Append(s, h), x.code)
      BY <1>2, <1>6, <1>7, TwoFurther
    <3>2. Append(s, h) \o <<x.code>> = Append(Append(s, h), x.code)
      BY <1>6, <1>7, <3>1, TwoFurther
    <3> QED BY <1>5, <1>6, <1>7, <2>2, <3>1, <3>2
  <2>4. Readable(x)
    BY <1>7 DEF Readable
  <2>5. ~Waits(token')
    <3>1. x.code \notin High
      BY <1>7, CodesAre
    <3> QED BY <1>1, <1>2, <3>1, PartsFurther
  <2>6. Units(token') = Settled(token) \o Utf16(Paired(h, x.code))
    BY <2>3 DEF s
  <2> QED BY <1>1, <2>1, <2>2, <2>4, <2>5, <2>6, CharacterPushed
<1>8. CASE ~(x.is = "unit" /\ x.code \in Low)
  <2>1. place' = place /\ answer' = IF x.is = "bad hex" THEN "syntax" ELSE "unicode"
    BY <1>8 DEF ReadLow, Answer
  <2>2. StringFault(token') = IF x.is = "bad hex" THEN "syntax" ELSE "unicode"
    BY <1>2, <1>3 DEF StringFault
  <2>3. ~StringBegins(token')
    <3>1. CASE ~Readable(x)
      BY <1>1, <1>2, <3>1, PartsFurther DEF StringBegins
    <3>2. CASE x.is = "unit" /\ x.code \in High
      <4>1. Settled(token') = Append(s, h)
        BY <1>1, <1>2, <3>2, PartsFurther
      <4> QED BY <1>2, <1>4, <4>1, PairedFurther DEF StringBegins
    <3>3. CASE x.is = "unit" /\ x.code \notin High
      <4>1. Settled(token') = Append(s, h) \o <<x.code>>
        BY <1>1, <1>2, <1>6, <3>3, PartsFurther
      <4>2. x.code \in Chars /\ x.code < 65536
        BY <1>8, <3>3, PartIs, CodesAre
      <4>3. Utf16(x.code) = <<x.code>>
        BY <4>2, Utf16Is
      <4>4. ~PairedUp(Append(s, h) \o Utf16(x.code))
        BY <1>2, <1>4, <4>2, CharacterPairs
      <4> QED BY <4>1, <4>3, <4>4 DEF StringBegins
    <3>4. CASE x.is = "char" \/ x.is = "escape"
      <4>1. x.code \in Chars /\ PartUnits(x) = Utf16(x.code)
        BY <3>4, PartIs
      <4>2. Settled(token') = Append(s, h) \o Utf16(x.code)
        <5>1. ~Waits(token')
          BY <1>1, <1>2, <3>4, PartsFurther
        <5> QED BY <1>1, <1>2, <4>1, <5>1, PartsFurther
      <4>3. ~PairedUp(Append(s, h) \o Utf16(x.code))
        BY <1>2, <1>4, <4>1, CharacterPairs
      <4> QED BY <4>2, <4>3 DEF StringBegins
    <3>5. Readable(x) => x.is = "unit" \/ x.is = "char" \/ x.is = "escape"
      BY DEF Readable
    <3> QED BY <3>1, <3>2, <3>3, <3>4, <3>5
  <2> QED BY <1>1, <2>1, <2>2, <2>3, StringRefused
<1> QED BY <1>7, <1>8

(* the closing quote, or what takes its place. *)
LEMMA EndSpelt ==
    ASSUME Decoding, Spelling, answer = "reading", NEW x \in StringParts, EndString(x)
    PROVE  Spelt
<1>1. /\ place = "string" /\ x.is # "char" /\ x.is # "escape" /\ x.is # "unit"
      /\ token' = Append(token, x) /\ text' = text
  BY DEF EndString, Part
<1>2. token \in Seq(StringParts) /\ ~Waits(token) /\ Settled(token) = Units(token)
  BY <1>1, SettledIs DEF Spelling
<1>3. Front(token') = token /\ Last(token') = x
  BY <1>1, <1>2, FurtherIs
<1>4. /\ place' = place /\ budget' = budget /\ got' = got
      /\ answer' = IF x.is = "quote" THEN "done" ELSE "syntax"
  BY DEF EndString, Answer
<1>5. CASE x.is = "quote"
  <2>1. Units(token') = Settled(token)
    <3>1. Units(token') = Units(token) \o <<>> /\ Units(token) \in Seq(Nat)
      BY <1>1, <1>2, PartIs, UnitsFurther
    <3> QED BY <1>2, <3>1, ConcatEmptySeq
  <2>2. Before' = BudgetOf(text)
    BY <1>1 DEF Before, BudgetOf
  <2>3. StringBegins(token) /\ SpelledOut(got) = Settled(token)
        /\ budget = Charge(BudgetOf(text), Utf8Bytes(Settled(token)), 1)
    BY DEF Spelling
  <2>4. (budget = Charge(Before, Utf8Bytes(Units(token)), 1))'
    BY <1>4, <2>1, <2>2, <2>3
  <2>5. answer' = "done"
    BY <1>4, <1>5
  <2>6. StringIsLexeme'
    BY <1>2, <1>3, <1>4, <1>5, <2>1, <2>3, <2>4, <2>5 DEF StringIsLexeme
  <2> QED BY <1>1, <1>4, <2>5, <2>6 DEF Spelt
<1>6. CASE x.is # "quote"
  <2>1. ~Readable(x)
    BY <1>1 DEF Readable
  <2>2. ~StringBegins(token')
    BY <1>1, <1>2, <2>1, PartsFurther DEF StringBegins
  <2>3. StringFault(token') = "syntax"
    BY <1>1, <1>2, <1>3 DEF StringFault
  <2> QED BY <1>1, <1>4, <1>6, <2>2, <2>3, StringRefused
<1> QED BY <1>5, <1>6

(* Before its first part a string is charged its node.                      *)
LEMMA BeginSpelt ==
    ASSUME Decoding, token = <<>>, got = <<>>, BeginString
    PROVE  Spelt
<1>1. /\ answer = "none" /\ status = "running" /\ place' = "string"
      /\ token' = <<>> /\ got' = <<>> /\ text' = text /\ frames' = frames
  BY DEF BeginString, BeginToken
<1>2. text \in Texts /\ budget = BudgetOf(text)
  BY <1>1 DEF Decoding
<1>3. /\ Units(<<>>) = <<>> /\ SpelledOut(<<>>) = <<>> /\ ~Waits(<<>>) /\ Settled(<<>>) = <<>>
      /\ Utf8Bytes(<<>>) = 0 /\ StringBegins(<<>>)
  <2> DEFINE e == <<>>
  <2>1. DOMAIN e = {}
    OBVIOUS
  <2>2. /\ [i \in DOMAIN e |-> PartUnits(e[i])] = <<>> /\ [i \in DOMAIN e |-> Utf16(e[i])] = <<>>
        /\ [i \in DOMAIN e |-> IF e[i] \in High \cup Low THEN 2 ELSE Utf8Size(e[i])] = <<>>
    OBVIOUS
  <2>3. Units(e) = <<>> /\ SpelledOut(e) = <<>>
    BY <2>2, FlattenNothing DEF Units, SpelledOut
  <2>4. Utf8Bytes(e) = 0
    BY <2>2, TotalOfFew DEF Utf8Bytes
  <2>5. ~Waits(e)
    BY DEF Waits
  <2>6. PairedUp(e)
    BY <2>1 DEF PairedUp
  <2> HIDE DEF e
  <2>7. Settled(e) = e
    BY <2>3, <2>5 DEF Settled, e
  <2> QED BY <2>1, <2>3, <2>4, <2>5, <2>6, <2>7 DEF StringBegins, e
<1>4. Before' = BudgetOf(text) /\ BudgetOf(text)' = BudgetOf(text) /\ Depth' = Depth
  BY <1>1 DEF Before, BudgetOf, Depth
<1>5. CASE ChargeError(0, Depth) = "none"
  <2>1. budget' = Charge(budget, 0, 1) /\ answer' = "reading"
    BY <1>5 DEF BeginString
  <2>2. token' \in Seq(StringParts) /\ got' \in Seq(Chars)
    <3>1. \A T : <<>> \in Seq(T)
      OBVIOUS
    <3> QED BY <1>1, <3>1
  <2>3. Spelling'
    BY <1>1, <1>2, <1>3, <1>4, <2>1, <2>2 DEF Spelling
  <2> QED BY <2>1, <2>3, StillReading
<1>6. CASE ChargeError(0, Depth) # "none"
  <2>1. answer' = "budget"
    BY <1>6 DEF BeginString
  <2>2. ~Admits(BudgetOf(text), 0, 1, Depth)
    BY <1>2, <1>6 DEF ChargeError
  <2>3. ~(Admits(Before, Utf8Bytes(Units(token)), 1, Depth))'
    BY <1>1, <1>3, <1>4, <2>2
  <2>4. StringBegins(token')
    BY <1>1, <1>3
  <2>5. StringIsLexeme'
    BY <2>1, <2>3, <2>4 DEF StringIsLexeme
  <2> QED BY <1>1, <2>1, <2>5 DEF Spelt
<1> QED BY <1>5, <1>6

(* What numbers are made of. *)
Digits == [is : {"digit"}, value : 0 .. 9]

(* What a number can meet. *)
Parts == Digits \cup [is : {"-", "+", ".", "e", "Infinity", "else"}]

(* Every part of a number is one of them. *)
LEMMA PartsAre ==
    /\ NumberParts \subseteq Parts
    /\ \A x \in Parts : IsDigit(x) => x \in Digits /\ x.value \in Nat
    /\ \A x \in Digits : IsDigit(x) /\ x.value \in Nat
    /\ [is |-> "digit", value |-> 0] \in Parts
<1>1. NumberParts \subseteq Parts
  BY ONLY TokenAssumption DEF TokenAssumption, Parts, Digits
<1>2. ASSUME NEW x \in Digits PROVE IsDigit(x) /\ x.value \in Nat
  BY ONLY x \in Digits DEF Digits, IsDigit
<1>3. ASSUME NEW x \in Parts, IsDigit(x) PROVE x \in Digits
  BY ONLY <1>3 DEF Parts, IsDigit
<1>4. [is |-> "digit", value |-> 0] \in Parts
  BY DEF Parts, Digits
<1> QED BY <1>1, <1>2, <1>3, <1>4

(* The parts after the first a, up to the b-th. *)
Slice(t, a, b) == SubSeq(t, a + 1, b)

(* Those after the first a, up to the b-th, are digits. *)
AreDigits(t, a, b) == \A k \in a + 1 .. b : IsDigit(t[k])

(* The parts of a slice, *)
LEMMA SliceIs ==
    ASSUME NEW T, NEW t \in Seq(T), NEW b \in 0 .. Len(t), NEW a \in 0 .. b
    PROVE  /\ Slice(t, a, b) \in Seq(T) /\ Len(Slice(t, a, b)) = b - a
           /\ \A k \in 1 .. b - a : Slice(t, a, b)[k] = t[a + k]
           /\ (Slice(t, a, b) = <<>>) <=> (a = b)
<1>1. /\ Len(t) \in Nat /\ a \in Nat /\ b \in Nat /\ a =< b /\ b =< Len(t)
      /\ \A k \in 1 .. Len(t) : t[k] \in T
  OBVIOUS
<1>2. \A i \in a + 1 .. b : t[i] \in T
  BY <1>1
<1>3. a + 1 \in Int /\ b \in Int
  BY <1>1
<1>4. /\ Slice(t, a, b) \in Seq(T)
      /\ Len(Slice(t, a, b)) = IF a + 1 =< b THEN b - (a + 1) + 1 ELSE 0
      /\ \A k \in 1 .. b - (a + 1) + 1 : Slice(t, a, b)[k] = t[(a + 1) + k - 1]
  BY <1>2, <1>3, SubSeqProperties DEF Slice
<1>5. Len(Slice(t, a, b)) = b - a
  BY <1>1, <1>4
<1>6. ASSUME NEW k \in 1 .. b - a PROVE Slice(t, a, b)[k] = t[a + k]
  <2>1. k \in 1 .. b - (a + 1) + 1 /\ (a + 1) + k - 1 = a + k
    BY <1>1
  <2> QED BY <1>4, <2>1
<1>7. Slice(t, a, b) = <<>> <=> Len(Slice(t, a, b)) = 0
  BY <1>4
<1>8. b - a = 0 <=> a = b
  BY <1>1
<1> QED BY <1>4, <1>5, <1>6, <1>7, <1>8

(* and of a slice without its first part. *)
LEMMA SliceTail ==
    ASSUME NEW T, NEW t \in Seq(T), NEW b \in 0 .. Len(t), NEW a \in 0 .. b, a < b
    PROVE  Tail(Slice(t, a, b)) = Slice(t, a + 1, b) /\ Slice(t, a, b)[1] = t[a + 1] /\ Slice(t, a, b) # <<>>
<1>1. Len(t) \in Nat /\ a \in Nat /\ b \in Nat /\ a + 1 \in 0 .. b /\ 1 \in 1 .. b - a
  OBVIOUS
<1> DEFINE v == Slice(t, a, b)  w == Slice(t, a + 1, b)
<1>2. v \in Seq(T) /\ Len(v) = b - a /\ (\A k \in 1 .. b - a : v[k] = t[a + k]) /\ v # <<>>
  <2>1. Slice(t, a, b) \in Seq(T) /\ Len(Slice(t, a, b)) = b - a
    <3>1. Slice(t, a, b) \in Seq(T)
      BY SliceIs
    <3>2. Len(Slice(t, a, b)) = b - a
      BY SliceIs
    <3> QED BY <3>1, <3>2
  <2>2. \A k \in 1 .. b - a : Slice(t, a, b)[k] = t[a + k]
    BY SliceIs
  <2>3. (Slice(t, a, b) = <<>>) <=> (a = b)
    BY SliceIs
  <2> HIDE DEF v
  <2> QED BY <1>1, <2>1, <2>2, <2>3 DEF v
<1>3. w \in Seq(T) /\ Len(w) = b - (a + 1) /\ (\A k \in 1 .. b - (a + 1) : w[k] = t[(a + 1) + k])
  <2> DEFINE c == a + 1
  <2>1. c \in 0 .. b
    BY <1>1
  <2> HIDE DEF c, w
  <2>2. Slice(t, c, b) \in Seq(T) /\ Len(Slice(t, c, b)) = b - c
    <3>1. Slice(t, c, b) \in Seq(T)
      BY <2>1, SliceIs
    <3>2. Len(Slice(t, c, b)) = b - c
      BY <2>1, SliceIs
    <3> QED BY <3>1, <3>2
  <2>3. \A k \in 1 .. b - c : Slice(t, c, b)[k] = t[c + k]
    BY <2>1, SliceIs
  <2> QED BY <2>2, <2>3 DEF c, w
<1> HIDE DEF v, w
<1>4. Tail(v) \in Seq(T) /\ Len(Tail(v)) = Len(v) - 1 /\ \A k \in 1 .. Len(Tail(v)) : Tail(v)[k] = v[k + 1]
  BY <1>2, HeadTailProperties
<1>5. Len(Tail(v)) = Len(w)
  BY <1>1, <1>2, <1>3, <1>4
<1>6. ASSUME NEW k \in 1 .. Len(w) PROVE Tail(v)[k] = w[k]
  <2>1. k + 1 \in 1 .. b - a /\ k \in 1 .. b - (a + 1) /\ (a + 1) + k = a + (k + 1)
    BY <1>1, <1>3
  <2> QED BY <1>2, <1>3, <1>4, <1>5, <2>1
<1>7. Tail(v) = w
  BY <1>3, <1>4, <1>5, <1>6, SeqEqual
<1> QED BY <1>1, <1>2, <1>7 DEF v, w

(* A slice consists of digits exactly when its places do. *)
LEMMA SliceDigits ==
    ASSUME NEW T, NEW t \in Seq(T), NEW b \in 0 .. Len(t), NEW a \in 0 .. b
    PROVE  AllDigits(Slice(t, a, b)) <=> a < b /\ AreDigits(t, a, b)
<1> DEFINE v == Slice(t, a, b)
<1>1. Len(t) \in Nat /\ a \in Nat /\ b \in Nat /\ a =< b
  OBVIOUS
<1>2. /\ v \in Seq(T) /\ Len(v) = b - a /\ (\A k \in 1 .. b - a : v[k] = t[a + k])
      /\ (v = <<>>) <=> (a = b)
  <2>1. Slice(t, a, b) \in Seq(T) /\ Len(Slice(t, a, b)) = b - a
    <3>1. Slice(t, a, b) \in Seq(T)
      BY SliceIs
    <3>2. Len(Slice(t, a, b)) = b - a
      BY SliceIs
    <3> QED BY <3>1, <3>2
  <2>2. \A k \in 1 .. b - a : Slice(t, a, b)[k] = t[a + k]
    BY SliceIs
  <2>3. (Slice(t, a, b) = <<>>) <=> (a = b)
    BY SliceIs
  <2> HIDE DEF v
  <2> QED BY <2>1, <2>2, <2>3 DEF v
<1>3. DOMAIN v = 1 .. b - a
  BY <1>2
<1> HIDE DEF v
<1>4. ASSUME \A k \in 1 .. b - a : IsDigit(v[k]), NEW k \in a + 1 .. b PROVE IsDigit(t[k])
  <2>1. k - a \in 1 .. b - a /\ a + (k - a) = k
    BY <1>1
  <2> QED BY <1>2, <1>4, <2>1
<1>5. ASSUME AreDigits(t, a, b), NEW k \in 1 .. b - a PROVE IsDigit(v[k])
  <2>1. a + k \in a + 1 .. b
    BY <1>1
  <2> QED BY <1>2, <1>5, <2>1 DEF AreDigits
<1>6. a # b <=> a < b
  BY <1>1
<1> QED BY <1>2, <1>3, <1>4, <1>5, <1>6 DEF AllDigits, AreDigits, v

(* A number, by the places where its parts end: the sign, the integer and   *)
(* the fraction.                                                            *)
IntegerIs(t, s, i) ==
    /\ s \in {0, 1} /\ i \in Nat /\ s + 1 =< i /\ i =< Len(t) /\ AreDigits(t, s, i)
    /\ s = 1 => t[1].is = "-"
    /\ t[s + 1].value = 0 => i = s + 1

(* A fraction from i to j, if there is one. *)
FractionIs(t, i, j) ==
    /\ j \in Nat /\ i =< j /\ j =< Len(t)
    /\ i = j \/ (i + 2 =< j /\ t[i + 1].is = "." /\ AreDigits(t, i + 1, j))

(* An exponent after j with its digits after q, *)
ExponentFrom(t, j, q) ==
    /\ q \in {j + 1, j + 2} /\ q < Len(t) /\ t[j + 1].is = "e" /\ AreDigits(t, q, Len(t))
    /\ q = j + 2 => t[q].is = "+" \/ t[q].is = "-"

(* after the e or its sign, or no exponent. *)
ExponentIs(t, j) == j = Len(t) \/ ExponentFrom(t, j, j + 1) \/ ExponentFrom(t, j, j + 2)

(* The grammar of numbers says so of the slices: of the integer, *)
LEMMA IntegerAt ==
    ASSUME NEW T, NEW t \in Seq(T), NEW i \in 1 .. Len(t)
    PROVE  IsInteger(Slice(t, 0, i)) <=> (IntegerIs(t, 0, i) \/ IntegerIs(t, 1, i))
<1> DEFINE v == Slice(t, 0, i)
<1>1. Len(t) \in Nat /\ i \in Nat /\ i \in 0 .. Len(t) /\ 0 \in 0 .. i /\ 1 \in 0 .. i /\ 0 < i
      /\ 0 + 1 = 1 /\ i - 0 = i
  OBVIOUS
<1>2. v # <<>> /\ v[1] = t[1] /\ Tail(v) = Slice(t, 1, i)
  BY <1>1, SliceTail
<1> HIDE DEF v
<1>3. CASE t[1].is = "-"
  <2> DEFINE d == Slice(t, 1, i)
  <2>1. Unsigned(v, {"-"}) = d
    BY <1>2, <1>3 DEF Unsigned
  <2>2. AllDigits(d) <=> 1 < i /\ AreDigits(t, 1, i)
    BY <1>1, SliceDigits
  <2>3. Len(d) = i - 1
    BY <1>1, SliceIs
  <2>4. 1 < i => d[1] = t[1 + 1]
    BY <1>1, SliceTail
  <2> HIDE DEF d
  <2>5. IsInteger(v) <=> AllDigits(d) /\ (d[1].value = 0 => Len(d) = 1)
    BY <2>1 DEF IsInteger
  <2>6. ~IntegerIs(t, 0, i)
    <3>1. 1 \in 0 + 1 .. i
      BY <1>1
    <3>2. AreDigits(t, 0, i) => IsDigit(t[1])
      BY <3>1 DEF AreDigits
    <3> QED BY <1>3, <3>2 DEF IntegerIs, IsDigit
  <2>7. IntegerIs(t, 1, i) <=> 1 < i /\ AreDigits(t, 1, i) /\ (t[1 + 1].value = 0 => i = 1 + 1)
    <3>1. 1 + 1 =< i <=> 1 < i
      BY <1>1
    <3>2. 1 \in {0, 1} /\ i =< Len(t)
      BY <1>1
    <3> QED BY <1>1, <1>3, <3>1, <3>2 DEF IntegerIs
  <2>8. i - 1 = 1 <=> i = 1 + 1
    BY <1>1
  <2> QED BY <2>2, <2>3, <2>4, <2>5, <2>6, <2>7, <2>8 DEF v
<1>4. CASE t[1].is # "-"
  <2>1. Unsigned(v, {"-"}) = v
    BY <1>2, <1>4 DEF Unsigned
  <2>2. AllDigits(v) <=> 0 < i /\ AreDigits(t, 0, i)
    BY <1>1, SliceDigits DEF v
  <2>3. Len(v) = i
    BY <1>1, SliceIs DEF v
  <2>5. IsInteger(v) <=> AllDigits(v) /\ (v[1].value = 0 => Len(v) = 1)
    BY <2>1 DEF IsInteger
  <2>6. ~IntegerIs(t, 1, i)
    BY <1>4 DEF IntegerIs
  <2>7. IntegerIs(t, 0, i) <=> 0 < i /\ AreDigits(t, 0, i) /\ (t[1].value = 0 => i = 1)
    <3>1. 0 \in {0, 1} /\ i =< Len(t) /\ 1 =< i
      BY <1>1
    <3>2. IntegerIs(t, 0, i) <=> /\ 0 \in {0, 1} /\ i \in Nat /\ 0 + 1 =< i /\ i =< Len(t) /\ AreDigits(t, 0, i)
                                 /\ 0 = 1 => t[1].is = "-"
                                 /\ t[0 + 1].value = 0 => i = 0 + 1
      BY DEF IntegerIs
    <3> QED BY <1>1, <3>1, <3>2
  <2> QED BY <1>2, <2>2, <2>3, <2>5, <2>6, <2>7 DEF v
<1> QED BY <1>3, <1>4

(* of the fraction, *)
LEMMA FractionAt ==
    ASSUME NEW T, NEW t \in Seq(T), NEW i \in 0 .. Len(t), NEW j \in i .. Len(t)
    PROVE  IsFraction(Slice(t, i, j)) <=> FractionIs(t, i, j)
<1> DEFINE v == Slice(t, i, j)
<1>1. Len(t) \in Nat /\ i \in Nat /\ j \in Nat /\ i =< j /\ j =< Len(t) /\ j \in 0 .. Len(t) /\ i \in 0 .. j
  OBVIOUS
<1>2. (v = <<>>) <=> (i = j)
  BY <1>1, SliceIs
<1>3. CASE i = j
  BY <1>1, <1>2, <1>3 DEF FractionIs, IsFraction
<1>4. CASE i < j
  <2>1. Tail(v) = Slice(t, i + 1, j) /\ v[1] = t[i + 1]
    BY <1>1, <1>4, SliceTail
  <2>2. i + 1 \in 0 .. j
    BY <1>1, <1>4
  <2>3. AllDigits(Slice(t, i + 1, j)) <=> i + 1 < j /\ AreDigits(t, i + 1, j)
    BY <1>1, <2>2, SliceDigits
  <2> HIDE DEF v
  <2>4. i # j /\ (i + 1 < j <=> i + 2 =< j)
    BY <1>1, <1>4
  <2> QED BY <1>1, <1>2, <2>1, <2>3, <2>4 DEF FractionIs, IsFraction, v
<1>5. i = j \/ i < j
  BY <1>1
<1> QED BY <1>3, <1>4, <1>5

(* and of the exponent. *)
LEMMA ExponentAt ==
    ASSUME NEW T, NEW t \in Seq(T), NEW j \in 0 .. Len(t)
    PROVE  IsExponent(Slice(t, j, Len(t))) <=> ExponentIs(t, j)
<1> DEFINE n == Len(t)  v == Slice(t, j, n)
<1>1. n \in Nat /\ j \in Nat /\ j =< n /\ n \in 0 .. n /\ j \in 0 .. n
  OBVIOUS
<1>2. (v = <<>>) <=> (j = n)
  <2>1. \A b \in 0 .. n : \A a \in 0 .. b : (Slice(t, a, b) = <<>>) <=> (a = b)
    BY SliceIs
  <2> HIDE DEF n
  <2> QED BY <1>1, <2>1
<1>3. CASE j = n
  BY <1>1, <1>2, <1>3 DEF ExponentIs, IsExponent
<1>4. CASE j < n
  <2> DEFINE w == Slice(t, j + 1, n)
  <2>1. Tail(v) = w /\ v[1] = t[j + 1]
    BY <1>1, <1>4, SliceTail
  <2>2. j + 1 \in 0 .. n
    BY <1>1, <1>4
  <2>3. AllDigits(w) <=> j + 1 < n /\ AreDigits(t, j + 1, n)
    BY <1>1, <2>2, SliceDigits
  <2>4. (w = <<>>) <=> (j + 1 = n)
    <3>1. \A b \in 0 .. n : \A a \in 0 .. b : (Slice(t, a, b) = <<>>) <=> (a = b)
      BY SliceIs
    <3> HIDE DEF n
    <3> QED BY <1>1, <2>2, <3>1
  <2>5. ASSUME j + 1 < n
        PROVE  /\ w[1] = t[(j + 1) + 1] /\ Tail(w) = Slice(t, (j + 1) + 1, n)
               /\ AllDigits(Slice(t, (j + 1) + 1, n)) <=> (j + 1) + 1 < n /\ AreDigits(t, (j + 1) + 1, n)
    <3>1. (j + 1) + 1 \in 0 .. n
      BY <1>1, <2>5
    <3>2. w[1] = t[(j + 1) + 1] /\ Tail(w) = Slice(t, (j + 1) + 1, n)
      BY <1>1, <2>2, <2>5, SliceTail
    <3>3. AllDigits(Slice(t, (j + 1) + 1, n)) <=> (j + 1) + 1 < n /\ AreDigits(t, (j + 1) + 1, n)
      BY <1>1, <3>1, SliceDigits
    <3> QED BY <3>2, <3>3
  <2> HIDE DEF v, w
  <2>6. IsExponent(v) <=> (t[j + 1].is = "e" /\ AllDigits(Unsigned(w, {"+", "-"})))
    <3>1. v # <<>>
      BY <1>1, <1>2, <1>4
    <3> HIDE DEF n
    <3> QED BY <2>1, <3>1 DEF IsExponent
  <2>7. (j + 1) + 1 = j + 2 /\ j # n
    BY <1>1, <1>4
  <2> HIDE DEF n
  <2>8. ExponentFrom(t, j, j + 1) <=> j + 1 < n /\ t[j + 1].is = "e" /\ AreDigits(t, j + 1, n)
    <3>1. j + 1 \in {j + 1, j + 2} /\ j + 1 # j + 2
      BY <1>1
    <3> QED BY <3>1 DEF ExponentFrom, n
  <2>9. ExponentFrom(t, j, j + 2) <=>
          /\ j + 2 < n /\ t[j + 1].is = "e" /\ AreDigits(t, j + 2, n)
          /\ t[j + 2].is = "+" \/ t[j + 2].is = "-"
    BY DEF ExponentFrom, n
  <2>10. CASE j + 1 < n
    <3>1. w # <<>>
      BY <1>1, <2>4, <2>10
    <3>2. CASE t[j + 2].is = "+" \/ t[j + 2].is = "-"
      <4>1. Unsigned(w, {"+", "-"}) = Slice(t, j + 2, n)
        BY <2>5, <2>7, <2>10, <3>1, <3>2 DEF Unsigned
      <4>2. ~AreDigits(t, j + 1, n)
        <5>1. j + 2 \in (j + 1) + 1 .. n
          BY <1>1, <2>10
        <5> QED BY <3>2, <5>1 DEF AreDigits, IsDigit
      <4> QED BY <2>5, <2>6, <2>7, <2>8, <2>9, <2>10, <3>2, <4>1, <4>2 DEF ExponentIs, n, v
    <3>3. CASE ~(t[j + 2].is = "+" \/ t[j + 2].is = "-")
      <4>1. Unsigned(w, {"+", "-"}) = w
        BY <2>5, <2>7, <2>10, <3>3 DEF Unsigned
      <4> QED BY <2>3, <2>6, <2>7, <2>8, <2>9, <2>10, <3>3, <4>1 DEF ExponentIs, n, v
    <3> QED BY <3>2, <3>3
  <2>11. CASE j + 1 = n
    <3>1. Unsigned(w, {"+", "-"}) = w /\ w = <<>>
      BY <2>4, <2>11 DEF Unsigned
    <3>2. ~AllDigits(w)
      BY <3>1 DEF AllDigits
    <3>3. ~(j + 1 < n) /\ ~(j + 2 < n)
      BY <1>1, <2>11
    <3> QED BY <2>6, <2>7, <2>8, <2>9, <3>1, <3>2, <3>3 DEF ExponentIs, n, v
  <2>12. j + 1 < n \/ j + 1 = n
    BY <1>1, <1>4
  <2> QED BY <2>10, <2>11, <2>12
<1>5. j = n \/ j < n
  BY <1>1
<1> QED BY <1>3, <1>4, <1>5

(* A number with these ends of its parts. *)
NumberAt(t, s, i, j) == IntegerIs(t, s, i) /\ FractionIs(t, i, j) /\ ExponentIs(t, j)

(* Every number has such ends, and only a number. *)
LEMMA NumberIs ==
    ASSUME NEW T, NEW t \in Seq(T)
    PROVE  IsNumber(t) <=> \E s, i, j : NumberAt(t, s, i, j)
<1> DEFINE n == Len(t)
<1>1. n \in Nat
  OBVIOUS
<1>2. ASSUME NEW i \in 1 .. n, NEW j \in i .. n
      PROVE  /\ IsInteger(SubSeq(t, 1, i)) <=> (IntegerIs(t, 0, i) \/ IntegerIs(t, 1, i))
             /\ IsFraction(SubSeq(t, i + 1, j)) <=> FractionIs(t, i, j)
             /\ IsExponent(SubSeq(t, j + 1, n)) <=> ExponentIs(t, j)
  <2>1. i \in 0 .. n /\ j \in 0 .. n /\ 0 + 1 = 1
    BY <1>1
  <2>2. /\ SubSeq(t, 1, i) = Slice(t, 0, i) /\ SubSeq(t, i + 1, j) = Slice(t, i, j)
        /\ SubSeq(t, j + 1, n) = Slice(t, j, n)
    BY <2>1 DEF Slice
  <2> QED BY <2>1, <2>2, IntegerAt, FractionAt, ExponentAt
<1>3. ASSUME IsNumber(t) PROVE \E s, i, j : NumberAt(t, s, i, j)
  <2>1. PICK i \in 1 .. n : /\ IsInteger(SubSeq(t, 1, i))
                            /\ \E j \in i .. n : IsFraction(SubSeq(t, i + 1, j)) /\ IsExponent(SubSeq(t, j + 1, n))
    BY <1>3 DEF IsNumber
  <2>2. PICK j \in i .. n : IsFraction(SubSeq(t, i + 1, j)) /\ IsExponent(SubSeq(t, j + 1, n))
    BY <2>1
  <2>3. /\ IntegerIs(t, 0, i) \/ IntegerIs(t, 1, i)
        /\ FractionIs(t, i, j) /\ ExponentIs(t, j)
    BY <1>2, <2>1, <2>2
  <2> QED BY <2>3 DEF NumberAt
<1>4. ASSUME NEW s, NEW i, NEW j, NumberAt(t, s, i, j) PROVE IsNumber(t)
  <2>1. i \in 1 .. n /\ j \in i .. n
    <3>1. s \in {0, 1} /\ i \in Nat /\ j \in Nat /\ s + 1 =< i /\ i =< j /\ j =< n
      BY <1>4 DEF NumberAt, IntegerIs, FractionIs
    <3> QED BY <1>1, <3>1
  <2>2. IntegerIs(t, 0, i) \/ IntegerIs(t, 1, i)
    <3>1. s = 0 \/ s = 1
      BY <1>4 DEF NumberAt, IntegerIs
    <3> QED BY <1>4, <3>1 DEF NumberAt
  <2>3. IsInteger(SubSeq(t, 1, i)) /\ IsFraction(SubSeq(t, i + 1, j)) /\ IsExponent(SubSeq(t, j + 1, n))
    BY <1>2, <1>4, <2>1, <2>2 DEF NumberAt
  <2> QED BY <2>1, <2>3 DEF IsNumber
<1> QED BY <1>3, <1>4

(* Onward, without the set. *)
Consumes(from, x, to) ==
    \/ from = "sign" /\ x.is = "-" /\ to = "integer"
    \/ (from = "sign" \/ from = "integer") /\ IsDigit(x) /\ to = IF x.value = 0 THEN "zero" ELSE "digits"
    \/ (from = "digits" \/ from = "fraction" \/ from = "exponent") /\ IsDigit(x) /\ to = from
    \/ (from = "zero" \/ from = "digits") /\ x.is = "." /\ to = "point"
    \/ from = "point" /\ IsDigit(x) /\ to = "fraction"
    \/ (from = "zero" \/ from = "digits" \/ from = "fraction") /\ x.is = "e" /\ to = "mark"
    \/ from = "mark" /\ (x.is = "+" \/ x.is = "-") /\ to = "power"
    \/ (from = "mark" \/ from = "power") /\ IsDigit(x) /\ to = "exponent"

(* They are the same. *)
LEMMA OnwardIs ==
    ASSUME NEW from, NEW x, NEW to
    PROVE  to \in Onward(from, x) <=> Consumes(from, x, to)
<1> DEFINE S == {"integer", "zero", "digits", "point", "fraction", "mark", "power", "exponent"}
<1>1. to \in Onward(from, x) <=> to \in S /\ Consumes(from, x, to)
  BY DEF Onward, Consumes
<1>2. Consumes(from, x, to) => to \in S
  BY DEF Consumes
<1> QED BY <1>1, <1>2

(* Where a number is read after n parts, when its own parts end at s, i, j. *)
Expected(u, s, i, j, n) ==
    IF n = 0 THEN "sign"
    ELSE IF n =< s THEN "integer"
    ELSE IF n =< i THEN (IF u[s + 1].value = 0 THEN "zero" ELSE "digits")
    ELSE IF n =< j THEN (IF n = i + 1 THEN "point" ELSE "fraction")
    ELSE IF n = j + 1 THEN "mark"
    ELSE IF n = j + 2 /\ ~IsDigit(u[n]) THEN "power"
    ELSE "exponent"

(* The part at m. *)
PartAt(u, m) == u[m]

(* At the next part of a number the place moves to the next one, and to no  *)
(* other.                                                                   *)
LEMMA ExpectedNext ==
    ASSUME NEW u \in Seq(Parts), NEW s, NEW i, NEW j, NumberAt(u, s, i, j),
           NEW n, n \in Nat, n < Len(u), NEW m, m = n + 1, NEW x, x = PartAt(u, m)
    PROVE  Onward(Expected(u, s, i, j, n), x) = {Expected(u, s, i, j, m)}
<1> SUFFICES ASSUME NEW q
             PROVE  q \in Onward(Expected(u, s, i, j, n), x) <=> q = Expected(u, s, i, j, n + 1)
  OBVIOUS
<1> DEFINE L == Len(u)  E == Expected(u, s, i, j, n)  F == Expected(u, s, i, j, n + 1)
<1>1. /\ L \in Nat /\ n \in Nat /\ s \in Nat /\ i \in Nat /\ j \in Nat /\ (s = 0 \/ s = 1) /\ n + 1 =< L
      /\ s + 1 =< i /\ i =< j /\ j =< L
  <2>1. L \in Nat /\ n \in Nat /\ n + 1 =< L
    OBVIOUS
  <2>2. s \in {0, 1} /\ i \in Nat /\ j \in Nat /\ s + 1 =< i /\ i =< j /\ j =< L
    BY DEF NumberAt, IntegerIs, FractionIs
  <2> QED BY <2>1, <2>2
<1>2. AreDigits(u, s, i) /\ (s = 1 => u[1].is = "-") /\ (u[s + 1].value = 0 => i = s + 1)
  BY DEF NumberAt, IntegerIs
<1>3. i = j \/ (i + 2 =< j /\ u[i + 1].is = "." /\ AreDigits(u, i + 1, j))
  BY DEF NumberAt, FractionIs
<1>4. ASSUME j < n + 1
      PROVE  \E e \in Nat : /\ e = j + 1 \/ e = j + 2
                            /\ e < L /\ u[j + 1].is = "e" /\ AreDigits(u, e, L)
                            /\ e = j + 2 => u[j + 2].is = "+" \/ u[j + 2].is = "-"
  <2>1. j # L
    BY <1>1, <1>4
  <2>2. ExponentFrom(u, j, j + 1) \/ ExponentFrom(u, j, j + 2)
    BY <2>1 DEF NumberAt, ExponentIs
  <2>3. j + 1 \in Nat /\ j + 2 \in Nat
    BY <1>1
  <2> QED BY <2>2, <2>3 DEF ExponentFrom
<1>5. q \in Onward(E, x) <=> Consumes(E, x, q)
  BY OnwardIs
<1> HIDE DEF L
<1>14. x = u[n + 1]
  BY DEF PartAt
<1>6. ASSUME n = 0 PROVE Consumes(E, x, q) <=> q = F
  <2>1. E = "sign" /\ n + 1 = 1
    BY <1>6 DEF Expected
  <2>2. CASE s = 1
    <3>1. x.is = "-"
      BY <1>2, <1>14, <2>1, <2>2
    <3>2. F = "integer"
      BY <2>1, <2>2 DEF Expected
    <3> HIDE DEF E, F
    <3> QED BY <2>1, <3>1, <3>2 DEF Consumes, IsDigit
  <2>3. CASE s = 0
    <3>1. IsDigit(x)
      <4>1. n + 1 \in s + 1 .. i
        BY <1>1, <2>1, <2>3
      <4> QED BY <1>2, <1>14, <4>1 DEF AreDigits
    <3>2. F = IF x.value = 0 THEN "zero" ELSE "digits"
      BY <1>1, <1>6, <1>14, <2>3 DEF Expected
    <3> HIDE DEF E, F
    <3> QED BY <2>1, <3>1, <3>2 DEF Consumes, IsDigit
  <2> QED BY <1>1, <2>2, <2>3
<1>7. ASSUME n # 0, n =< s PROVE Consumes(E, x, q) <=> q = F
  <2>1. n = 1 /\ s = 1 /\ n + 1 = s + 1 /\ n + 1 \in s + 1 .. i
    BY <1>1, <1>7
  <2>2. E = "integer"
    BY <2>1 DEF Expected
  <2>3. IsDigit(x)
    BY <1>2, <1>14, <2>1 DEF AreDigits
  <2>4. F = IF x.value = 0 THEN "zero" ELSE "digits"
    BY <1>1, <1>14, <2>1 DEF Expected
  <2> HIDE DEF E, F
  <2> QED BY <2>2, <2>3, <2>4 DEF Consumes, IsDigit
<1>8. ASSUME s < n, n < i PROVE Consumes(E, x, q) <=> q = F
  <2>1. u[s + 1].value # 0
    BY <1>1, <1>2, <1>8
  <2>2. E = "digits" /\ F = "digits"
    BY <1>1, <1>8, <2>1 DEF Expected
  <2>3. IsDigit(x)
    <3>1. n + 1 \in s + 1 .. i
      BY <1>1, <1>8
    <3> QED BY <1>2, <1>14, <3>1 DEF AreDigits
  <2> HIDE DEF E, F
  <2> QED BY <2>2, <2>3 DEF Consumes, IsDigit
<1>9. ASSUME n = i PROVE Consumes(E, x, q) <=> q = F
  <2>1. E = "zero" \/ E = "digits"
    BY <1>1, <1>9 DEF Expected
  <2>2. CASE i = j
    <3>1. x.is = "e"
      BY <1>1, <1>4, <1>9, <1>14, <2>2
    <3>2. F = "mark"
      BY <1>1, <1>9, <2>2 DEF Expected
    <3> HIDE DEF E, F
    <3> QED BY <2>1, <3>1, <3>2 DEF Consumes, IsDigit
  <2>3. CASE i # j
    <3>1. x.is = "."
      BY <1>3, <1>9, <1>14, <2>3
    <3>2. F = "point"
      BY <1>1, <1>3, <1>9, <2>3 DEF Expected
    <3> HIDE DEF E, F
    <3> QED BY <2>1, <3>1, <3>2 DEF Consumes, IsDigit
  <2> QED BY <2>2, <2>3
<1>10. ASSUME i < n, n < j PROVE Consumes(E, x, q) <=> q = F
  <2>1. E = IF n = i + 1 THEN "point" ELSE "fraction"
    BY <1>1, <1>10 DEF Expected
  <2>2. F = "fraction"
    BY <1>1, <1>10 DEF Expected
  <2>3. IsDigit(x)
    <3>1. n + 1 \in (i + 1) + 1 .. j
      BY <1>1, <1>10
    <3> QED BY <1>1, <1>3, <1>10, <1>14, <3>1 DEF AreDigits
  <2> HIDE DEF E, F
  <2> QED BY <2>1, <2>2, <2>3 DEF Consumes, IsDigit
<1>11. ASSUME n = j, i < j PROVE Consumes(E, x, q) <=> q = F
  <2>1. E = "fraction" /\ F = "mark"
    BY <1>1, <1>3, <1>11 DEF Expected
  <2>2. x.is = "e"
    BY <1>1, <1>4, <1>11, <1>14
  <2> HIDE DEF E, F
  <2> QED BY <2>1, <2>2 DEF Consumes, IsDigit
<1>12. ASSUME j < n PROVE Consumes(E, x, q) <=> q = F
  <2>1. PICK e \in Nat : /\ e = j + 1 \/ e = j + 2
                         /\ e < L /\ u[j + 1].is = "e" /\ AreDigits(u, e, L)
                         /\ e = j + 2 => u[j + 2].is = "+" \/ u[j + 2].is = "-"
    BY <1>1, <1>4, <1>12
  <2>2. ASSUME NEW k \in Nat, e < k, k =< L PROVE IsDigit(u[k])
    <3>1. k \in e + 1 .. L
      BY <1>1, <2>2
    <3> QED BY <2>1, <3>1 DEF AreDigits
  <2>3. CASE n = j + 1 /\ e = j + 1
    <3>1. IsDigit(x) /\ n + 1 = j + 2
      BY <1>1, <1>14, <2>2, <2>3
    <3>2. E = "mark" /\ F = "exponent"
      BY <1>1, <1>14, <2>3, <3>1 DEF Expected
    <3> HIDE DEF E, F
    <3> QED BY <3>1, <3>2 DEF Consumes, IsDigit
  <2>4. CASE n = j + 1 /\ e = j + 2
    <3>1. (x.is = "+" \/ x.is = "-") /\ n + 1 = j + 2
      BY <1>1, <1>14, <2>1, <2>4
    <3>2. ~IsDigit(x)
      BY <3>1 DEF IsDigit
    <3>3. E = "mark" /\ F = "power"
      BY <1>1, <1>14, <2>4, <3>1, <3>2 DEF Expected
    <3> HIDE DEF E, F
    <3> QED BY <3>1, <3>2, <3>3 DEF Consumes
  <2>5. CASE j + 1 < n
    <3>1. IsDigit(x)
      BY <1>1, <1>14, <2>1, <2>2, <2>5
    <3>2. (E = "power" \/ E = "exponent") /\ F = "exponent"
      BY <1>1, <2>5 DEF Expected
    <3> HIDE DEF E, F
    <3> QED BY <3>1, <3>2 DEF Consumes, IsDigit
  <2>6. n = j + 1 \/ j + 1 < n
    BY <1>1, <1>12
  <2> QED BY <2>1, <2>3, <2>4, <2>5, <2>6
<1>13. n = 0 \/ (n # 0 /\ n =< s) \/ (s < n /\ n < i) \/ n = i \/ (i < n /\ n < j) \/ (n = j /\ i < j) \/ j < n
  BY <1>1
<1> QED BY <1>5, <1>6, <1>7, <1>8, <1>9, <1>10, <1>11, <1>12, <1>13

(* u goes on from t. *)
Begins(t, u) == Len(t) =< Len(u) /\ \A k \in 1 .. Len(t) : u[k] = t[k]

(* Every number that t begins has been read as far as p. *)
Tracked(t, p) ==
    \A u \in Seq(Parts) : \A s, i, j :
       NumberAt(u, s, i, j) /\ Begins(t, u) => p = Expected(u, s, i, j, Len(t))

(* Before the first part that is the sign. *)
LEMMA TrackedFirst == Tracked(<<>>, "sign")
<1>1. Len(<<>>) = 0
  OBVIOUS
<1> QED BY <1>1 DEF Tracked, Expected

(* t with one part more. *)
Longer(t, x) == Append(t, x)

(* A number that goes on from t with x is read on at one place. *)
LEMMA TrackedFurther ==
    ASSUME NEW t \in Seq(Parts), NEW p, Tracked(t, p), NEW x \in Parts,
           NEW u \in Seq(Parts), NEW s, NEW i, NEW j, NumberAt(u, s, i, j), Begins(Longer(t, x), u)
    PROVE  Onward(p, x) = {Expected(u, s, i, j, Len(Longer(t, x)))}
<1> DEFINE n == Len(t)  m == Len(Longer(t, x))
<1>1. n \in Nat /\ m = n + 1 /\ Longer(t, x)[m] = x /\ \A k \in 1 .. n : Longer(t, x)[k] = t[k]
  BY DEF Longer
<1>2. m =< Len(u) /\ \A k \in 1 .. m : u[k] = Longer(t, x)[k]
  BY DEF Begins
<1>3. n < Len(u) /\ PartAt(u, m) = x /\ Begins(t, u)
  <2>1. Len(u) \in Nat
    OBVIOUS
  <2> QED BY <1>1, <1>2, <2>1 DEF PartAt, Begins
<1>4. p = Expected(u, s, i, j, n)
  BY <1>3 DEF Tracked
<1> HIDE DEF n, m
<1>5. Onward(Expected(u, s, i, j, n), x) = {Expected(u, s, i, j, m)}
  BY <1>1, <1>3, ExpectedNext
<1> QED BY <1>4, <1>5 DEF m

(* So the place follows every number, *)
LEMMA TrackedOnward ==
    ASSUME NEW t \in Seq(Parts), NEW p, Tracked(t, p), NEW x \in Parts, NEW q \in Onward(p, x)
    PROVE  Tracked(Append(t, x), q)
<1> SUFFICES ASSUME NEW u \in Seq(Parts), NEW s, NEW i, NEW j, NumberAt(u, s, i, j), Begins(Append(t, x), u)
             PROVE  q = Expected(u, s, i, j, Len(Append(t, x)))
  BY Zenon DEF Tracked
<1>1. Begins(Longer(t, x), u)
  BY DEF Longer
<1>2. Onward(p, x) = {Expected(u, s, i, j, Len(Longer(t, x)))}
  BY <1>1, TrackedFurther
<1> QED BY <1>2 DEF Longer

(* Where no part can follow, no number goes on with one. *)
LEMMA TrackedStops ==
    ASSUME NEW t \in Seq(Parts), NEW p, Tracked(t, p), NEW x \in Parts, Onward(p, x) = {}
    PROVE  ~NumberBegins(Append(t, x))
<1> DEFINE v == Append(t, x)  zero == [is |-> "digit", value |-> 0]  w == Append(v, zero)
<1>1. v \in Seq(Parts) /\ v # <<>> /\ Begins(v, v) /\ zero \in Parts
  BY PartsAre DEF Begins
<1>2. ASSUME NEW u \in Seq(Parts), IsNumber(u), Begins(v, u) PROVE FALSE
  <2>1. PICK s, i, j : NumberAt(u, s, i, j)
    BY <1>2, NumberIs
  <2>2. Begins(Longer(t, x), u)
    BY <1>2 DEF Longer
  <2> HIDE DEF v, w, zero
  <2>3. Onward(p, x) = {Expected(u, s, i, j, Len(Longer(t, x)))}
    BY SMTT(60), <2>1, <2>2, TrackedFurther
  <2> QED BY <2>3
<1> HIDE DEF v, zero
<1>3. w \in Seq(Parts) /\ Begins(v, w)
  BY <1>1 DEF Begins
<1> HIDE DEF w
<1> QED BY <1>1, <1>2, <1>3 DEF NumberBegins, v, w, zero

(* Where a number and where an integer may end. *)
LEMMA TrackedEnds ==
    ASSUME NEW t \in Seq(Parts), NEW p, Tracked(t, p)
    PROVE  /\ IsNumber(t) => p = "zero" \/ p = "digits" \/ p = "fraction" \/ p = "exponent"
           /\ IsInteger(t) => p = "zero" \/ p = "digits"
<1> DEFINE n == Len(t)
<1>1. n \in Nat /\ Begins(t, t)
  BY DEF Begins
<1>2. ASSUME NEW s, NEW i, NEW j, NumberAt(t, s, i, j)
      PROVE  /\ p = "zero" \/ p = "digits" \/ p = "fraction" \/ p = "exponent"
             /\ i = n => p = "zero" \/ p = "digits"
  <2>1. p = Expected(t, s, i, j, n)
    BY <1>1, <1>2 DEF Tracked
  <2>2. s \in Nat /\ i \in Nat /\ j \in Nat /\ s + 1 =< i /\ i =< j /\ j =< n /\ (i = j \/ i + 2 =< j)
    BY <1>2 DEF NumberAt, IntegerIs, FractionIs
  <2>3. j = n \/ (j + 2 =< n /\ (n = j + 2 => IsDigit(t[n])))
    <3>1. CASE j = n
      BY <3>1
    <3>2. ASSUME ExponentFrom(t, j, j + 1) \/ ExponentFrom(t, j, j + 2)
          PROVE  j + 2 =< n /\ (n = j + 2 => IsDigit(t[n]))
      <4>1. CASE ExponentFrom(t, j, j + 1)
        <5>1. j + 1 < n /\ AreDigits(t, j + 1, n)
          BY <4>1 DEF ExponentFrom
        <5>2. n \in (j + 1) + 1 .. n /\ j + 2 =< n
          BY <1>1, <2>2, <5>1
        <5> QED BY <5>1, <5>2 DEF AreDigits
      <4>2. CASE ExponentFrom(t, j, j + 2)
        <5>1. j + 2 < n
          BY <4>2 DEF ExponentFrom
        <5> QED BY <1>1, <2>2, <5>1
      <4> QED BY <3>2, <4>1, <4>2
    <3> QED BY <1>2, <3>1, <3>2 DEF NumberAt, ExponentIs
  <2> HIDE DEF n
  <2>4. CASE i = n
    BY <1>1, <2>1, <2>2, <2>4 DEF Expected
  <2>5. CASE i < n /\ j = n
    BY <1>1, <2>1, <2>2, <2>5 DEF Expected
  <2>6. CASE i < n /\ j < n
    BY <1>1, <2>1, <2>2, <2>3, <2>6 DEF Expected
  <2>7. i = n \/ (i < n /\ j = n) \/ (i < n /\ j < n)
    BY <1>1, <2>2
  <2>8. i < n => i # n
    BY <1>1, <2>2
  <2> QED BY <2>4, <2>5, <2>6, <2>7, <2>8
<1>3. ASSUME IsNumber(t) PROVE p = "zero" \/ p = "digits" \/ p = "fraction" \/ p = "exponent"
  BY <1>2, <1>3, NumberIs
<1>4. ASSUME IsInteger(t) PROVE p = "zero" \/ p = "digits"
  <2>1. t # <<>>
    BY <1>4 DEF IsInteger, AllDigits, Unsigned
  <2>2. n \in 1 .. n /\ Slice(t, 0, n) = t
    <3>1. n \in 1 .. n
      BY <2>1
    <3>2. 0 + 1 = 1 /\ SubSeq(t, 1, Len(t)) = t
      OBVIOUS
    <3> QED BY <3>1, <3>2 DEF Slice
  <2>3. PICK s \in {0, 1} : IntegerIs(t, s, n)
    <3>1. IntegerIs(t, 0, n) \/ IntegerIs(t, 1, n)
      BY <1>4, <2>2, IntegerAt
    <3> QED BY <3>1
  <2>4. NumberAt(t, s, n, n)
    BY <1>1, <2>3 DEF NumberAt, FractionIs, ExponentIs
  <2> QED BY <1>1, <1>2, <2>4
<1> QED BY <1>3, <1>4

(* What has been read when the next part is awaited at p. *)
ShapedExponent(t, p, j) ==
    \/ p = "mark" /\ Len(t) = j + 1 /\ t[j + 1].is = "e"
    \/ p = "power" /\ Len(t) = j + 2 /\ t[j + 1].is = "e" /\ (t[j + 2].is = "+" \/ t[j + 2].is = "-")
    \/ p = "exponent" /\ (ExponentFrom(t, j, j + 1) \/ ExponentFrom(t, j, j + 2))

(* In a fraction, *)
ShapedFraction(t, p, i) ==
    \/ p = "point" /\ Len(t) = i + 1 /\ t[i + 1].is = "."
    \/ p = "fraction" /\ i < Len(t) /\ FractionIs(t, i, Len(t))

(* and in any part of a number. *)
Formed(t, p) ==
    \/ p = "sign" /\ Len(t) = 0
    \/ p = "integer" /\ Len(t) = 1 /\ t[1].is = "-"
    \/ \E s : (p = "zero" \/ p = "digits") /\ IntegerIs(t, s, Len(t)) /\ (t[s + 1].value = 0 <=> p = "zero")
    \/ \E s, i : IntegerIs(t, s, i) /\ ShapedFraction(t, p, i)
    \/ \E s, i, j : IntegerIs(t, s, i) /\ FractionIs(t, i, j) /\ ShapedExponent(t, p, j)

(* A part more changes nothing before it. *)
LEMMA NumberFurther ==
    ASSUME NEW t \in Seq(Parts), NEW x \in Parts
    PROVE  /\ \A a, b \in Nat : b =< Len(t) /\ AreDigits(t, a, b) => AreDigits(Append(t, x), a, b)
           /\ \A a \in Nat : AreDigits(t, a, Len(t)) /\ IsDigit(x) => AreDigits(Append(t, x), a, Len(t) + 1)
           /\ \A s, i : IntegerIs(t, s, i) => IntegerIs(Append(t, x), s, i)
           /\ \A i \in Nat : \A j : FractionIs(t, i, j) => FractionIs(Append(t, x), i, j)
<1> DEFINE u == Append(t, x)  n == Len(t)
<1>1. n \in Nat /\ Len(u) = n + 1 /\ u[n + 1] = x /\ \A k \in 1 .. n : u[k] = t[k]
  OBVIOUS
<1> HIDE DEF u, n
<1>2. ASSUME NEW a \in Nat, NEW b \in Nat, b =< n, AreDigits(t, a, b) PROVE AreDigits(u, a, b)
  <2>1. ASSUME NEW k \in a + 1 .. b PROVE IsDigit(u[k])
    <3>1. k \in 1 .. n
      BY <1>1, <1>2
    <3> QED BY <1>1, <1>2, <3>1 DEF AreDigits
  <2> QED BY <2>1 DEF AreDigits
<1>3. ASSUME NEW a \in Nat, AreDigits(t, a, n), IsDigit(x) PROVE AreDigits(u, a, n + 1)
  <2>1. ASSUME NEW k \in a + 1 .. n + 1 PROVE IsDigit(u[k])
    <3>1. CASE k = n + 1
      BY <1>1, <1>3, <3>1
    <3>2. CASE k # n + 1
      <4>1. k \in 1 .. n /\ k \in a + 1 .. n
        BY <1>1, <3>2
      <4> QED BY <1>1, <1>3, <4>1 DEF AreDigits
    <3> QED BY <3>1, <3>2
  <2> QED BY <2>1 DEF AreDigits
<1>4. ASSUME NEW s, NEW i, IntegerIs(t, s, i) PROVE IntegerIs(u, s, i)
  <2>1. /\ s \in {0, 1} /\ s \in Nat /\ i \in Nat /\ s + 1 =< i /\ i =< n /\ AreDigits(t, s, i)
        /\ s = 1 => t[1].is = "-"
        /\ t[s + 1].value = 0 => i = s + 1
    BY <1>4 DEF IntegerIs, n
  <2>2. s + 1 \in 1 .. n /\ 1 \in 1 .. n /\ i =< Len(u)
    BY <1>1, <2>1
  <2>3. u[s + 1] = t[s + 1] /\ u[1] = t[1] /\ AreDigits(u, s, i)
    BY <1>1, <1>2, <2>1, <2>2
  <2> QED BY <2>1, <2>2, <2>3 DEF IntegerIs
<1>5. ASSUME NEW i \in Nat, NEW j, FractionIs(t, i, j) PROVE FractionIs(u, i, j)
  <2>1. /\ j \in Nat /\ i =< j /\ j =< n
        /\ i = j \/ (i + 2 =< j /\ t[i + 1].is = "." /\ AreDigits(t, i + 1, j))
    BY <1>5 DEF FractionIs, n
  <2>2. j =< Len(u)
    BY <1>1, <2>1
  <2>3. CASE i = j
    BY <2>1, <2>2, <2>3 DEF FractionIs
  <2>4. CASE i # j
    <3>1. i + 1 \in 1 .. n /\ i + 1 \in Nat
      BY <1>1, <2>1, <2>4
    <3>2. u[i + 1] = t[i + 1] /\ AreDigits(u, i + 1, j)
      BY <1>1, <1>2, <2>1, <2>4, <3>1
    <3> QED BY <2>1, <2>2, <2>4, <3>2 DEF FractionIs
  <2> QED BY <2>3, <2>4
<1> QED BY <1>2, <1>3, <1>4, <1>5 DEF u, n

(* So it is with one part more: in the integer, *)
LEMMA ShapedWhole ==
    ASSUME NEW t \in Seq(Parts), NEW x \in Parts, NEW p, NEW q, Formed(t, p), Consumes(p, x, q),
           p = "sign" \/ p = "integer" \/ p = "zero" \/ p = "digits"
    PROVE  Formed(Append(t, x), q)
<1> DEFINE u == Append(t, x)  n == Len(t)
<1>1. /\ n \in Nat /\ Len(u) = n + 1 /\ u[n + 1] = x /\ (\A k \in 1 .. n : u[k] = t[k])
  OBVIOUS
<1>2. /\ \A s, i : IntegerIs(t, s, i) => IntegerIs(u, s, i)
      /\ \A a \in Nat : AreDigits(t, a, n) /\ IsDigit(x) => AreDigits(u, a, n + 1)
  BY NumberFurther
<1> HIDE DEF u, n
<1>6. ASSUME NEW s, IntegerIs(u, s, Len(u)), PartAt(u, s + 1).value = 0 <=> q = "zero", q = "zero" \/ q = "digits"
      PROVE  Formed(u, q)
  BY <1>6 DEF Formed, PartAt
<1>3. CASE p = "sign"
  <2>1. n = 0
    BY <1>3 DEF Formed, ShapedFraction, ShapedExponent, n
  <2>2. CASE x.is = "-" /\ q = "integer"
    <3>1. Formed(u, q)
      BY <1>1, <2>1, <2>2 DEF Formed
    <3> QED BY <3>1 DEF u
  <2>3. CASE IsDigit(x) /\ q = IF x.value = 0 THEN "zero" ELSE "digits"
    <3>1. IntegerIs(u, 0, 1) /\ u[0 + 1] = x
      <4>1. 1 \in Nat /\ 0 + 1 =< 1 /\ 1 =< Len(u) /\ u[0 + 1] = x
        BY <1>1, <2>1
      <4>2. AreDigits(u, 0, 1)
        <5>1. \A k \in 0 + 1 .. 1 : k = 0 + 1
          OBVIOUS
        <5> QED BY <2>3, <4>1, <5>1 DEF AreDigits
      <4> QED BY <4>1, <4>2 DEF IntegerIs
    <3>2. Len(u) = 1
      BY <1>1, <2>1
    <3>3. /\ IntegerIs(u, 0, Len(u)) /\ (q = "zero" \/ q = "digits")
          /\ PartAt(u, 0 + 1).value = 0 <=> q = "zero"
      BY <2>3, <3>1, <3>2 DEF PartAt
    <3> QED BY <1>6, <3>3, Zenon DEF u
  <2> QED BY <1>3, <2>2, <2>3 DEF Consumes, u
<1>4. CASE p = "integer"
  <2>1. n = 1 /\ t[1].is = "-"
    BY <1>4 DEF Formed, ShapedFraction, ShapedExponent, n
  <2>2. IsDigit(x) /\ q = IF x.value = 0 THEN "zero" ELSE "digits"
    BY <1>4 DEF Consumes
  <2>3. IntegerIs(u, 1, 2) /\ u[1 + 1] = x
    <3>1. 2 \in Nat /\ 1 + 1 =< 2 /\ 2 =< Len(u) /\ u[1 + 1] = x /\ u[1] = t[1] /\ 2 = 1 + 1
      BY <1>1, <2>1
    <3>2. AreDigits(u, 1, 2)
      <4>1. \A k \in 1 + 1 .. 2 : k = 1 + 1
        OBVIOUS
      <4> QED BY <2>2, <3>1, <4>1 DEF AreDigits
    <3> QED BY <2>1, <3>1, <3>2 DEF IntegerIs
  <2>4. Len(u) = 2
    BY <1>1, <2>1
  <2>5. /\ IntegerIs(u, 1, Len(u)) /\ (q = "zero" \/ q = "digits")
        /\ PartAt(u, 1 + 1).value = 0 <=> q = "zero"
    BY <2>2, <2>3, <2>4 DEF PartAt
  <2> QED BY <1>6, <2>5, Zenon DEF u
<1>5. CASE p = "zero" \/ p = "digits"
  <2>1. PICK s : IntegerIs(t, s, n) /\ (t[s + 1].value = 0 <=> p = "zero")
    BY <1>5 DEF Formed, ShapedFraction, ShapedExponent, n
  <2>2. s \in {0, 1} /\ s \in Nat /\ s + 1 =< n /\ AreDigits(t, s, n) /\ (s = 1 => t[1].is = "-")
    BY <2>1 DEF IntegerIs
  <2>3. IntegerIs(u, s, n)
    BY <1>2, <2>1
  <2>4. CASE x.is = "." /\ q = "point"
    <3>1. ShapedFraction(u, q, n)
      BY <1>1, <2>4 DEF ShapedFraction
    <3> QED BY <2>3, <3>1 DEF Formed, u
  <2>5. CASE x.is = "e" /\ q = "mark"
    <3>1. ShapedExponent(u, q, n)
      BY <1>1, <2>5 DEF ShapedExponent
    <3>2. FractionIs(u, n, n)
      BY <1>1 DEF FractionIs
    <3> QED BY <2>3, <3>1, <3>2 DEF Formed, u
  <2>6. CASE p = "digits" /\ IsDigit(x) /\ q = "digits"
    <3>1. t[s + 1].value # 0
      BY <2>1, <2>6
    <3>2. s + 1 \in 1 .. n /\ 1 \in 1 .. n
      BY <1>1, <2>2
    <3>3. u[s + 1] = t[s + 1] /\ u[1] = t[1] /\ AreDigits(u, s, n + 1)
      BY <1>1, <1>2, <2>2, <2>6, <3>2
    <3>4. n + 1 \in Nat /\ s + 1 =< n + 1 /\ n + 1 =< Len(u)
      BY <1>1, <2>2
    <3>5. IntegerIs(u, s, n + 1)
      BY <2>2, <3>1, <3>3, <3>4 DEF IntegerIs
    <3>6. IntegerIs(u, s, Len(u)) /\ ~(u[s + 1].value = 0) /\ ~(q = "zero")
      BY <1>1, <2>6, <3>1, <3>3, <3>5
    <3> QED BY <2>6, <3>6 DEF Formed, u
  <2> QED BY <1>5, <2>4, <2>5, <2>6 DEF Consumes
<1> QED BY <1>3, <1>4, <1>5

(* in the fraction, *)
LEMMA ShapedPoint ==
    ASSUME NEW t \in Seq(Parts), NEW x \in Parts, NEW p, NEW q, Formed(t, p), Consumes(p, x, q),
           p = "point" \/ p = "fraction"
    PROVE  Formed(Append(t, x), q)
<1> DEFINE u == Append(t, x)  n == Len(t)
<1>1. /\ n \in Nat /\ Len(u) = n + 1 /\ u[n + 1] = x /\ (\A k \in 1 .. n : u[k] = t[k])
  OBVIOUS
<1>2. /\ \A s, i : IntegerIs(t, s, i) => IntegerIs(u, s, i)
      /\ \A i \in Nat : \A j : FractionIs(t, i, j) => FractionIs(u, i, j)
      /\ \A a \in Nat : AreDigits(t, a, n) /\ IsDigit(x) => AreDigits(u, a, n + 1)
  BY NumberFurther
<1> HIDE DEF u, n
<1>3. PICK s, i : IntegerIs(t, s, i) /\ ShapedFraction(t, p, i)
  BY DEF Formed, ShapedExponent
<1>4. i \in Nat /\ 1 =< i /\ i =< n /\ IntegerIs(u, s, i)
  <2>1. s \in {0, 1} /\ i \in Nat /\ s + 1 =< i /\ i =< n
    BY <1>3 DEF IntegerIs, n
  <2> QED BY <1>2, <1>3, <2>1
<1>5. CASE p = "point"
  <2>1. n = i + 1 /\ t[i + 1].is = "."
    BY <1>3, <1>5 DEF ShapedFraction, n
  <2>2. IsDigit(x) /\ q = "fraction"
    BY <1>5 DEF Consumes
  <2>3. u[i + 1] = t[i + 1] /\ u[i + 2] = x /\ Len(u) = i + 2
    BY <1>1, <1>4, <2>1
  <2>4. AreDigits(u, i + 1, i + 2)
    <3>1. \A k \in (i + 1) + 1 .. i + 2 : k = i + 2
      BY <1>4
    <3> QED BY <2>2, <2>3, <3>1 DEF AreDigits
  <2>5. i + 2 \in Nat /\ i =< i + 2 /\ i + 2 =< i + 2 /\ i < i + 2
    BY <1>4
  <2>6. FractionIs(u, i, Len(u))
    BY <2>1, <2>3, <2>4, <2>5 DEF FractionIs
  <2>7. ShapedFraction(u, q, i)
    BY <2>2, <2>3, <2>5, <2>6 DEF ShapedFraction
  <2> QED BY <1>4, <2>7 DEF Formed, u
<1>6. CASE p = "fraction"
  <2>1. i < n /\ FractionIs(t, i, n)
    BY <1>3, <1>6 DEF ShapedFraction, n
  <2>2. i # n /\ i + 2 =< n /\ t[i + 1].is = "." /\ AreDigits(t, i + 1, n)
    BY <1>1, <1>4, <2>1 DEF FractionIs
  <2>3. CASE IsDigit(x) /\ q = "fraction"
    <3>1. i + 1 \in 1 .. n /\ i + 1 \in Nat
      BY <1>1, <1>4, <2>2
    <3>2. u[i + 1] = t[i + 1] /\ AreDigits(u, i + 1, Len(u))
      BY <1>1, <1>2, <2>2, <2>3, <3>1
    <3>3. Len(u) \in Nat /\ i =< Len(u) /\ i < Len(u) /\ Len(u) =< Len(u) /\ i + 2 =< Len(u)
      BY <1>1, <1>4, <2>2
    <3>4. FractionIs(u, i, Len(u))
      BY <2>2, <3>2, <3>3 DEF FractionIs
    <3>5. ShapedFraction(u, q, i)
      BY <2>3, <3>3, <3>4 DEF ShapedFraction
    <3> QED BY <1>4, <3>5 DEF Formed, u
  <2>4. CASE x.is = "e" /\ q = "mark"
    <3>1. FractionIs(u, i, n)
      BY <1>2, <1>4, <2>1
    <3>2. ShapedExponent(u, q, n)
      BY <1>1, <2>4 DEF ShapedExponent
    <3> QED BY <1>4, <3>1, <3>2 DEF Formed, u
  <2> QED BY <1>6, <2>3, <2>4 DEF Consumes
<1> QED BY <1>5, <1>6

(* in the exponent, *)
LEMMA ShapedMark ==
    ASSUME NEW t \in Seq(Parts), NEW x \in Parts, NEW p, NEW q, Formed(t, p), Consumes(p, x, q),
           p = "mark" \/ p = "power" \/ p = "exponent"
    PROVE  Formed(Append(t, x), q)
<1> DEFINE u == Append(t, x)  n == Len(t)
<1>1. /\ n \in Nat /\ Len(u) = n + 1 /\ u[n + 1] = x /\ (\A k \in 1 .. n : u[k] = t[k])
  OBVIOUS
<1>2. /\ \A s, i : IntegerIs(t, s, i) => IntegerIs(u, s, i)
      /\ \A i \in Nat : \A j : FractionIs(t, i, j) => FractionIs(u, i, j)
      /\ \A a \in Nat : AreDigits(t, a, n) /\ IsDigit(x) => AreDigits(u, a, n + 1)
  BY NumberFurther
<1> HIDE DEF u, n
<1>3. PICK s, i, j : IntegerIs(t, s, i) /\ FractionIs(t, i, j) /\ ShapedExponent(t, p, j)
  BY DEF Formed, ShapedFraction
<1>4. j \in Nat /\ IntegerIs(u, s, i) /\ FractionIs(u, i, j)
  <2>1. i \in Nat /\ j \in Nat
    BY <1>3 DEF IntegerIs, FractionIs
  <2> QED BY <1>2, <1>3, <2>1
<1>5. ASSUME ShapedExponent(u, q, j) PROVE Formed(u, q)
  BY <1>4, <1>5 DEF Formed
<1>6. ASSUME NEW k \in Nat, k = j + 1 \/ k = j + 2, k = n, IsDigit(x), t[j + 1].is = "e",
             k = j + 2 => t[k].is = "+" \/ t[k].is = "-", q = "exponent"
      PROVE  ShapedExponent(u, q, j)
  <2>1. k < Len(u) /\ j + 1 \in 1 .. n /\ k \in 1 .. n
    BY <1>1, <1>4, <1>6
  <2>2. u[j + 1] = t[j + 1] /\ u[k] = t[k]
    BY <1>1, <2>1
  <2>3. AreDigits(u, k, Len(u))
    <3>1. \A m \in k + 1 .. Len(u) : m = n + 1
      BY <1>1, <1>6
    <3> QED BY <1>1, <1>6, <3>1 DEF AreDigits
  <2>4. j + 2 # j + 1
    BY <1>4
  <2>5. ExponentFrom(u, j, k)
    BY <1>6, <2>1, <2>2, <2>3 DEF ExponentFrom
  <2> QED BY <1>6, <2>5 DEF ShapedExponent
<1>7. CASE p = "mark"
  <2>1. n = j + 1 /\ t[j + 1].is = "e"
    BY <1>3, <1>7 DEF ShapedExponent, n
  <2>2. CASE (x.is = "+" \/ x.is = "-") /\ q = "power"
    <3>1. Len(u) = j + 2 /\ u[j + 1] = t[j + 1] /\ u[j + 2] = x
      BY <1>1, <1>4, <2>1
    <3> QED BY <1>5, <2>1, <2>2, <3>1 DEF ShapedExponent, u
  <2>3. CASE IsDigit(x) /\ q = "exponent"
    <3>1. n # j + 2
      BY <1>4, <2>1
    <3> QED BY <1>1, <1>5, <1>6, <2>1, <2>3, <3>1 DEF u
  <2> QED BY <1>7, <2>2, <2>3 DEF Consumes
<1>8. CASE p = "power"
  <2>1. n = j + 2 /\ t[j + 1].is = "e" /\ (t[j + 2].is = "+" \/ t[j + 2].is = "-")
    BY <1>3, <1>8 DEF ShapedExponent, n
  <2>2. IsDigit(x) /\ q = "exponent"
    BY <1>8 DEF Consumes
  <2> QED BY <1>1, <1>5, <1>6, <2>1, <2>2 DEF u
<1>9. CASE p = "exponent"
  <2>1. IsDigit(x) /\ q = "exponent"
    BY <1>9 DEF Consumes
  <2>2. ASSUME NEW k, ExponentFrom(t, j, k), k = j + 1 \/ k = j + 2 PROVE ExponentFrom(u, j, k)
    <3>1. /\ k \in {j + 1, j + 2} /\ k < n /\ t[j + 1].is = "e" /\ AreDigits(t, k, n)
          /\ k = j + 2 => t[k].is = "+" \/ t[k].is = "-"
      BY <2>2 DEF ExponentFrom, n
    <3>2. k \in Nat /\ j + 1 \in 1 .. n /\ k \in 1 .. n /\ k < Len(u)
      BY <1>1, <1>4, <2>2, <3>1
    <3>3. u[j + 1] = t[j + 1] /\ u[k] = t[k] /\ AreDigits(u, k, Len(u))
      BY <1>1, <1>2, <2>1, <3>1, <3>2
    <3> QED BY <3>1, <3>2, <3>3 DEF ExponentFrom
  <2>3. ExponentFrom(t, j, j + 1) \/ ExponentFrom(t, j, j + 2)
    BY <1>3, <1>9 DEF ShapedExponent
  <2> QED BY <1>5, <2>1, <2>2, <2>3 DEF ShapedExponent, u
<1> QED BY <1>7, <1>8, <1>9

(* and everywhere. *)
LEMMA ShapedOnward ==
    ASSUME NEW t \in Seq(Parts), NEW x \in Parts, NEW p, NEW q \in Onward(p, x), Formed(t, p)
    PROVE  Formed(Append(t, x), q)
<1>1. Consumes(p, x, q)
  BY OnwardIs
<1>2. CASE p = "sign" \/ p = "integer" \/ p = "zero" \/ p = "digits"
  BY <1>1, <1>2, ShapedWhole
<1>3. CASE p = "point" \/ p = "fraction"
  BY <1>1, <1>3, ShapedPoint
<1>4. CASE p = "mark" \/ p = "power" \/ p = "exponent"
  BY <1>1, <1>4, ShapedMark
<1> QED BY <1>1, <1>2, <1>3, <1>4 DEF Consumes

(* What has been read is a number where one may end, and elsewhere with one *)
(* more digit.                                                              *)
LEMMA ShapedEnds ==
    ASSUME NEW t \in Seq(Parts), NEW p, Formed(t, p),
           p = "zero" \/ p = "digits" \/ p = "fraction" \/ p = "exponent"
    PROVE  IsNumber(t) /\ (p = "zero" \/ p = "digits" => IsInteger(t))
<1> DEFINE n == Len(t)
<1>1. n \in Nat
  OBVIOUS
<1>2. CASE p = "zero" \/ p = "digits"
  <2>1. PICK s : IntegerIs(t, s, n)
    BY <1>2 DEF Formed, ShapedFraction, ShapedExponent
  <2>2. NumberAt(t, s, n, n)
    BY <1>1, <2>1 DEF NumberAt, FractionIs, ExponentIs
  <2>3. n \in 1 .. n /\ Slice(t, 0, n) = t
    <3>1. s \in {0, 1} /\ s + 1 =< n
      BY <2>1 DEF IntegerIs
    <3>2. n \in 1 .. n
      BY <1>1, <3>1
    <3>3. 0 + 1 = 1 /\ SubSeq(t, 1, Len(t)) = t
      OBVIOUS
    <3> QED BY <3>2, <3>3 DEF Slice
  <2>4. IntegerIs(t, 0, n) \/ IntegerIs(t, 1, n)
    BY <2>1 DEF IntegerIs
  <2>5. IsInteger(t)
    BY <2>3, <2>4, IntegerAt
  <2> QED BY <2>2, <2>5, NumberIs
<1>3. CASE p = "fraction"
  <2>1. PICK s, i : IntegerIs(t, s, i) /\ FractionIs(t, i, n)
    BY <1>3 DEF Formed, ShapedFraction, ShapedExponent
  <2>2. NumberAt(t, s, i, n)
    BY <2>1 DEF NumberAt, ExponentIs
  <2> QED BY <1>3, <2>2, NumberIs
<1>4. CASE p = "exponent"
  <2>1. PICK s, i, j : IntegerIs(t, s, i) /\ FractionIs(t, i, j) /\ ShapedExponent(t, p, j)
    BY <1>4 DEF Formed, ShapedFraction
  <2>2. NumberAt(t, s, i, j)
    BY <1>4, <2>1 DEF NumberAt, ExponentIs, ShapedExponent
  <2> QED BY <1>4, <2>2, NumberIs
<1> QED BY <1>2, <1>3, <1>4

(* So a number begins with what has been read. *)
LEMMA ShapedBegins ==
    ASSUME NEW t \in Seq(Parts), NEW p, Formed(t, p)
    PROVE  NumberBegins(t)
<1> DEFINE zero == [is |-> "digit", value |-> 0]
<1>1. zero \in Parts /\ Append(t, zero) \in Seq(Parts)
  BY PartsAre
<1>2. CASE p = "sign"
  <2>1. Len(t) = 0
    BY <1>2 DEF Formed, ShapedFraction, ShapedExponent
  <2> QED BY <2>1 DEF NumberBegins
<1>3. CASE p = "zero" \/ p = "digits" \/ p = "fraction" \/ p = "exponent"
  BY <1>3, ShapedEnds DEF NumberBegins
<1>4. ASSUME NEW q, q = "zero" \/ q = "fraction" \/ q = "exponent", Consumes(p, zero, q) PROVE NumberBegins(t)
  <2> HIDE DEF zero
  <2>1. q \in Onward(p, zero)
    BY <1>4, OnwardIs
  <2>2. Formed(Append(t, zero), q)
    BY <1>1, <2>1, ShapedOnward
  <2>3. IsNumber(Append(t, zero))
    BY <1>1, <1>4, <2>2, ShapedEnds
  <2> QED BY <2>3 DEF NumberBegins, zero
<1>5. IsDigit(zero) /\ zero.value = 0
  BY DEF IsDigit
<1> HIDE DEF zero
<1>6. CASE p = "integer"
  <2>1. Consumes(p, zero, "zero")
    BY <1>5, <1>6 DEF Consumes
  <2> QED BY <1>4, <2>1
<1>7. CASE p = "point"
  <2>1. Consumes(p, zero, "fraction")
    BY <1>5, <1>7 DEF Consumes
  <2> QED BY <1>4, <2>1
<1>8. CASE p = "mark" \/ p = "power"
  <2>1. Consumes(p, zero, "exponent")
    BY <1>5, <1>8 DEF Consumes
  <2> QED BY <1>4, <2>1
<1>9. \/ p = "sign" \/ p = "zero" \/ p = "digits" \/ p = "fraction" \/ p = "exponent"
      \/ p = "integer" \/ p = "point" \/ p = "mark" \/ p = "power"
  BY DEF Formed, ShapedFraction, ShapedExponent
<1> QED BY <1>2, <1>3, <1>6, <1>7, <1>8, <1>9

(* A minus alone is read at one place. *)
LEMMA ShapedMinus ==
    ASSUME NEW t \in Seq(Parts), NEW p, Formed(t, p), p = "point" \/ p = "mark" \/ p = "power"
    PROVE  Len(t) # 1
<1>1. Len(t) \in Nat
  OBVIOUS
<1>2. PICK s, i : /\ IntegerIs(t, s, i)
                  /\ \/ ShapedFraction(t, p, i)
                     \/ \E j : FractionIs(t, i, j) /\ ShapedExponent(t, p, j)
  BY DEF Formed
<1>3. i \in Nat /\ 1 =< i
  <2>1. (s = 0 \/ s = 1) /\ i \in Nat /\ s + 1 =< i
    BY <1>2 DEF IntegerIs
  <2> QED BY <2>1
<1>4. CASE ShapedFraction(t, p, i)
  <2>1. Len(t) = i + 1
    BY <1>4 DEF ShapedFraction
  <2> QED BY <1>3, <2>1
<1>5. CASE \E j : FractionIs(t, i, j) /\ ShapedExponent(t, p, j)
  <2>0. PICK j : FractionIs(t, i, j) /\ ShapedExponent(t, p, j)
    BY <1>5
  <2>1. j \in Nat /\ i =< j
    BY <2>0 DEF FractionIs
  <2>2. Len(t) = j + 1 \/ Len(t) = j + 2
    BY <2>0 DEF ShapedExponent
  <2>3. j + 1 # 1 /\ j + 2 # 1
    BY <1>3, <2>1
  <2> QED BY <2>2, <2>3
<1> QED BY <1>2, <1>4, <1>5

(* Two functions that go on alike from the same value. *)
LEMMA GoOnAlike ==
    ASSUME NEW n \in Nat, NEW f, NEW h, f[0] = h[0], \A k \in 1 .. n : f[k - 1] = h[k - 1] => f[k] = h[k]
    PROVE  f[n] = h[n]
<1> DEFINE T == {k \in 0 .. n : f[k] = h[k]}
<1>1. 0 \in T
  OBVIOUS
<1>2. ASSUME NEW k \in 0 .. n - 1, k \in T PROVE k + 1 \in T
  <2>1. k + 1 \in 1 .. n /\ (k + 1) - 1 = k /\ k + 1 \in 0 .. n
    OBVIOUS
  <2>2. f[k] = h[k]
    BY <1>2
  <2>3. f[(k + 1) - 1] = h[(k + 1) - 1]
    BY <2>1, <2>2
  <2> QED BY <2>1, <2>3
<1>3. n \in T
  <2>1. n \in 0 .. n
    OBVIOUS
  <2> HIDE DEF T
  <2> QED BY <1>1, <1>2, <2>1, Induction
<1> QED BY <1>3

(* TenTo and ValueOf are what their definitions say. *)
IsPower(p, n) == p \in [0 .. n -> Nat] /\ p[0] = 1 /\ \A k \in 1 .. n : p[k] = 10 * p[k - 1]

(* The powers of ten are what their recursion says, *)
LEMMA PowerIs ==
    ASSUME NEW n \in Nat
    PROVE  \E p : IsPower(p, n) /\ TenTo(n) = p[n]
<1> DEFINE g == [q \in (1 .. n) \X Nat |-> 10 * q[2]]
           Is(h) == h = [k \in 0 .. n |-> IF k = 0 THEN 1 ELSE 10 * h[k - 1]]
           P == CHOOSE h : Is(h)
<1>1. PICK h : Recursive(h, n, Nat, 1, g)
  <2>1. 1 \in Nat /\ g \in Nexts(n, Nat)
    BY DEF Nexts
  <2> HIDE DEF g
  <2> QED BY <2>1, Recursion
<1>2. /\ h \in [0 .. n -> Nat] /\ h[0] = 1
      /\ \A k \in 1 .. n : h[k] = g[<<k, h[k - 1]>>]
  BY <1>1 DEF Recursive
<1>3. ASSUME NEW k \in 1 .. n PROVE h[k] = 10 * h[k - 1]
  <2>1. k - 1 \in 0 .. n
    OBVIOUS
  <2>2. <<k, h[k - 1]>> \in (1 .. n) \X Nat
    BY <1>2, <2>1
  <2>3. g[<<k, h[k - 1]>>] = 10 * h[k - 1]
    BY <2>2
  <2> HIDE DEF g
  <2> QED BY <1>2, <2>3
<1>4. Is(h)
  <2>1. \A k \in 0 .. n : k # 0 => k \in 1 .. n
    OBVIOUS
  <2>2. \A k \in 0 .. n : h[k] = IF k = 0 THEN 1 ELSE 10 * h[k - 1]
    BY <1>2, <1>3, <2>1
  <2>3. h = [k \in 0 .. n |-> h[k]]
    BY <1>2
  <2> HIDE DEF g
  <2> QED BY <2>2, <2>3
<1>5. Is(P)
  <2> HIDE DEF Is
  <2> QED BY <1>4
<1>6. TenTo(n) = P[n]
  BY DEF TenTo
<1> HIDE DEF P
<1>7. /\ P = [k \in 0 .. n |-> P[k]]
      /\ \A k \in 0 .. n : P[k] = IF k = 0 THEN 1 ELSE 10 * P[k - 1]
  <2> DEFINE b == P
  <2>1. P = [k \in 0 .. n |-> IF k = 0 THEN 1 ELSE 10 * b[k - 1]]
    BY <1>5
  <2> HIDE DEF b
  <2>2. \A k \in 0 .. n : P[k] = IF k = 0 THEN 1 ELSE 10 * b[k - 1]
    BY <2>1
  <2>3. P = [k \in 0 .. n |-> P[k]]
    BY <2>1
  <2> QED BY <2>2, <2>3 DEF b
<1>8. P[0] = 1 /\ \A k \in 1 .. n : P[k] = 10 * P[k - 1]
  <2>1. 0 \in 0 .. n /\ \A k \in 1 .. n : k \in 0 .. n /\ k # 0
    OBVIOUS
  <2> QED BY <1>7, <2>1
<1>9. \A k \in 0 .. n : P[k] \in Nat
  <2> DEFINE T == {k \in 0 .. n : P[k] \in Nat}
  <2>1. 0 \in T
    BY <1>8
  <2>2. ASSUME NEW k \in 0 .. n - 1, k \in T PROVE k + 1 \in T
    <3>1. k + 1 \in 1 .. n /\ (k + 1) - 1 = k /\ k + 1 \in 0 .. n
      OBVIOUS
    <3>2. P[k] \in Nat /\ P[k + 1] = 10 * P[k]
      BY <1>8, <2>2, <3>1
    <3> QED BY <3>1, <3>2
  <2>3. \A k \in 0 .. n : k \in T
    <3> HIDE DEF T
    <3> QED BY <2>1, <2>2, Induction
  <2> QED BY <2>3
<1>10. P \in [0 .. n -> Nat]
  BY <1>7, <1>9
<1> QED BY <1>6, <1>8, <1>10 DEF IsPower

(* one after the other. *)
LEMMA TenToNext ==
    ASSUME NEW n \in Nat
    PROVE  TenTo(n) \in Nat /\ TenTo(0) = 1 /\ TenTo(n + 1) = 10 * TenTo(n)
<1>1. PICK p : IsPower(p, n) /\ TenTo(n) = p[n]
  BY PowerIs
<1>2. PICK q : IsPower(q, n + 1) /\ TenTo(n + 1) = q[n + 1]
  <2>1. n + 1 \in Nat
    OBVIOUS
  <2> QED BY <2>1, PowerIs
<1>3. PICK z : IsPower(z, 0) /\ TenTo(0) = z[0]
  BY PowerIs
<1>4. p[n] = q[n]
  <2>1. p[0] = q[0]
    BY <1>1, <1>2 DEF IsPower
  <2>2. ASSUME NEW k \in 1 .. n, p[k - 1] = q[k - 1] PROVE p[k] = q[k]
    <3>1. k \in 1 .. n + 1
      OBVIOUS
    <3>2. p[k] = 10 * p[k - 1] /\ q[k] = 10 * q[k - 1]
      BY <1>1, <1>2, <3>1 DEF IsPower
    <3> QED BY <2>2, <3>2
  <2> QED BY <2>1, <2>2, GoOnAlike
<1>5. p[n] \in Nat
  <2>1. n \in 0 .. n
    OBVIOUS
  <2> QED BY <1>1, <2>1 DEF IsPower
<1>6. q[n + 1] = 10 * q[n]
  <2>1. n + 1 \in 1 .. n + 1 /\ (n + 1) - 1 = n
    OBVIOUS
  <2> QED BY <1>2, <2>1 DEF IsPower
<1>7. TenTo(0) = 1
  BY <1>3 DEF IsPower
<1> QED BY <1>1, <1>2, <1>4, <1>5, <1>6, <1>7

(* The value after one part more. *)
Worth(x, before) == IF IsDigit(x) THEN 10 * before + x.value ELSE before

(* v is the value of t, part by part. *)
IsWorth(v, t) ==
    v \in [0 .. Len(t) -> Nat] /\ v[0] = 0 /\ \A k \in 1 .. Len(t) : v[k] = Worth(t[k], v[k - 1])

(* There is one such function, *)
LEMMA WorthIs ==
    ASSUME NEW t \in Seq(Parts)
    PROVE  \E v : IsWorth(v, t) /\ ValueOf(t) = v[Len(t)]
<1> DEFINE n == Len(t)
           g == [q \in (1 .. n) \X Nat |-> Worth(t[q[1]], q[2])]
           Is(h) == h = [k \in 0 .. n |-> IF k = 0 THEN 0
                                          ELSE IF IsDigit(t[k]) THEN 10 * h[k - 1] + t[k].value ELSE h[k - 1]]
           P == CHOOSE h : Is(h)
<1>0. n \in Nat /\ 0 \in Nat
  OBVIOUS
<1>1. ASSUME NEW k \in 1 .. n, NEW b \in Nat PROVE Worth(t[k], b) \in Nat
  <2>1. t[k] \in Parts
    OBVIOUS
  <2>2. IsDigit(t[k]) => t[k].value \in Nat
    BY <2>1, PartsAre
  <2> HIDE DEF n
  <2> QED BY <2>2 DEF Worth
<1> HIDE DEF n
<1>2. g \in Nexts(n, Nat)
  <2>1. ASSUME NEW q \in (1 .. n) \X Nat PROVE Worth(t[q[1]], q[2]) \in Nat
    <3>1. q[1] \in 1 .. n /\ q[2] \in Nat
      OBVIOUS
    <3> QED BY <1>1, <3>1
  <2> QED BY <2>1 DEF Nexts
<1>3. PICK h : Recursive(h, n, Nat, 0, g)
  <2> HIDE DEF g
  <2> QED BY <1>0, <1>2, Recursion
<1>4. /\ h \in [0 .. n -> Nat] /\ h[0] = 0
      /\ \A k \in 1 .. n : h[k] = g[<<k, h[k - 1]>>]
  BY <1>3 DEF Recursive
<1>5. ASSUME NEW k \in 1 .. n PROVE h[k] = Worth(t[k], h[k - 1])
  <2>1. k - 1 \in 0 .. n
    BY <1>0
  <2>2. <<k, h[k - 1]>> \in (1 .. n) \X Nat
    BY <1>4, <2>1
  <2>3. g[<<k, h[k - 1]>>] = Worth(t[k], h[k - 1])
    BY <2>2
  <2> HIDE DEF g
  <2> QED BY <1>4, <2>3
<1>6. Is(h)
  <2>1. \A k \in 0 .. n : k # 0 => k \in 1 .. n
    BY <1>0
  <2>2. \A k \in 0 .. n : h[k] = IF k = 0 THEN 0 ELSE Worth(t[k], h[k - 1])
    BY <1>4, <1>5, <2>1
  <2>3. h = [k \in 0 .. n |-> h[k]]
    BY <1>4
  <2> HIDE DEF g
  <2> QED BY <2>2, <2>3, Zenon DEF Worth
<1>7. Is(P)
  <2> HIDE DEF Is
  <2> QED BY <1>6
<1>8. ValueOf(t) = P[n]
  BY DEF ValueOf, n
<1> HIDE DEF P
<1>9. /\ P = [k \in 0 .. n |-> P[k]]
      /\ \A k \in 0 .. n : P[k] = IF k = 0 THEN 0 ELSE Worth(t[k], P[k - 1])
  <2> DEFINE b == P
  <2>1. P = [k \in 0 .. n |-> IF k = 0 THEN 0 ELSE Worth(t[k], b[k - 1])]
    BY <1>7, Zenon DEF Worth
  <2> HIDE DEF b
  <2>2. \A k \in 0 .. n : P[k] = IF k = 0 THEN 0 ELSE Worth(t[k], b[k - 1])
    BY <2>1
  <2>3. P = [k \in 0 .. n |-> P[k]]
    BY <2>1
  <2> QED BY <2>2, <2>3 DEF b
<1>10. P[0] = 0 /\ \A k \in 1 .. n : P[k] = Worth(t[k], P[k - 1])
  <2>1. 0 \in 0 .. n /\ \A k \in 1 .. n : k \in 0 .. n /\ k # 0
    BY <1>0
  <2> QED BY <1>9, <2>1
<1>11. \A k \in 0 .. n : P[k] \in Nat
  <2> DEFINE T == {k \in 0 .. n : P[k] \in Nat}
  <2>1. 0 \in T
    BY <1>0, <1>10
  <2>2. ASSUME NEW k \in 0 .. n - 1, k \in T PROVE k + 1 \in T
    <3>1. k + 1 \in 1 .. n /\ (k + 1) - 1 = k /\ k + 1 \in 0 .. n
      BY <1>0
    <3>2. P[k] \in Nat /\ P[k + 1] = Worth(t[k + 1], P[k])
      BY <1>10, <2>2, <3>1
    <3> QED BY <1>1, <3>1, <3>2
  <2>3. \A k \in 0 .. n : k \in T
    <3> HIDE DEF T
    <3> QED BY <1>0, <2>1, <2>2, Induction
  <2> QED BY <2>3
<1>12. P \in [0 .. n -> Nat]
  BY <1>9, <1>11
<1> QED BY <1>8, <1>10, <1>12 DEF IsWorth, n

(* so the value of a token is known from that of the token before. *)
LEMMA ValueFurther ==
    ASSUME NEW t \in Seq(Parts), NEW x \in Parts
    PROVE  ValueOf(t) \in Nat /\ ValueOf(<<>>) = 0 /\ ValueOf(Append(t, x)) = Worth(x, ValueOf(t))
<1> DEFINE u == Append(t, x)  n == Len(t)
<1>1. /\ u \in Seq(Parts) /\ n \in Nat /\ Len(u) = n + 1 /\ u[n + 1] = x /\ \A k \in 1 .. n : u[k] = t[k]
  OBVIOUS
<1>2. PICK v : IsWorth(v, t) /\ ValueOf(t) = v[n]
  BY WorthIs
<1> HIDE DEF u
<1>3. PICK w : IsWorth(w, u) /\ ValueOf(u) = w[n + 1]
  BY <1>1, WorthIs
<1>4. PICK z : IsWorth(z, <<>>) /\ ValueOf(<<>>) = z[0]
  <2>1. <<>> \in Seq(Parts) /\ Len(<<>>) = 0
    OBVIOUS
  <2> QED BY <2>1, WorthIs
<1>5. z[0] = 0
  BY <1>4 DEF IsWorth
<1> HIDE DEF n
<1>6. /\ v \in [0 .. n -> Nat] /\ v[0] = 0 /\ \A k \in 1 .. n : v[k] = Worth(t[k], v[k - 1])
      /\ w[0] = 0 /\ \A k \in 1 .. n + 1 : w[k] = Worth(u[k], w[k - 1])
  BY <1>1, <1>2, <1>3 DEF IsWorth, n
<1>7. v[n] = w[n]
  <2>1. ASSUME NEW k \in 1 .. n, v[k - 1] = w[k - 1] PROVE v[k] = w[k]
    <3>1. k \in 1 .. n + 1
      BY <1>1
    <3>2. v[k] = Worth(t[k], v[k - 1]) /\ w[k] = Worth(u[k], w[k - 1]) /\ u[k] = t[k]
      BY <1>1, <1>6, <3>1
    <3> QED BY <2>1, <3>2
  <2>2. v[0] = w[0]
    BY <1>6
  <2> QED BY <1>1, <2>1, <2>2, GoOnAlike
<1>8. n + 1 \in 1 .. n + 1 /\ (n + 1) - 1 = n /\ n \in 0 .. n
  BY <1>1
<1>9. w[n + 1] = Worth(x, w[n]) /\ v[n] \in Nat
  BY <1>1, <1>6, <1>8
<1> QED BY <1>2, <1>3, <1>4, <1>5, <1>7, <1>9 DEF u

(* A sum of multiples is the multiple of the sum. *)
LEMMA TotalScales ==
    ASSUME NEW f \in Seq(Nat), NEW g \in Seq(Nat), Len(g) = Len(f), \A i \in 1 .. Len(f) : g[i] = 10 * f[i]
    PROVE  Total(g) = 10 * Total(f)
<1> DEFINE n == Len(f)  F == Sums(f)  G == Sums(g)
<1>1. /\ n \in Nat /\ F[0] = 0 /\ G[0] = 0 /\ F \in [0 .. n -> Nat] /\ G \in [0 .. n -> Nat]
      /\ \A k \in 1 .. n : F[k] = F[k - 1] + f[k] /\ G[k] = G[k - 1] + g[k]
  <2>1. n \in Nat
    OBVIOUS
  <2>2. F \in [0 .. n -> Nat] /\ F[0] = 0 /\ \A k \in 1 .. n : F[k] = F[k - 1] + f[k]
    BY SumsAre
  <2>3. G \in [0 .. Len(g) -> Nat] /\ G[0] = 0 /\ \A k \in 1 .. Len(g) : G[k] = G[k - 1] + g[k]
    BY SumsAre
  <2> HIDE DEF F, G
  <2> QED BY <2>1, <2>2, <2>3
<1>2. \A k \in 1 .. n : f[k] \in Nat /\ g[k] = 10 * f[k]
  OBVIOUS
<1>3. Total(f) = F[n] /\ Total(g) = G[n]
  BY DEF Total
<1> HIDE DEF F, G, n
<1> DEFINE T == {k \in 0 .. n : G[k] = 10 * F[k]}
<1>4. 0 \in T
  BY <1>1
<1>5. ASSUME NEW k \in 0 .. n - 1, k \in T PROVE k + 1 \in T
  <2>1. k + 1 \in 1 .. n /\ (k + 1) - 1 = k /\ k + 1 \in 0 .. n /\ k \in 0 .. n
    BY <1>1
  <2>2. F[k] \in Nat /\ G[k] = 10 * F[k] /\ f[k + 1] \in Nat /\ g[k + 1] = 10 * f[k + 1]
    BY <1>1, <1>2, <1>5, <2>1
  <2>3. F[k + 1] = F[k] + f[k + 1] /\ G[k + 1] = G[k] + g[k + 1]
    BY <1>1, <2>1
  <2>4. G[k + 1] = 10 * F[k + 1]
    BY <2>2, <2>3
  <2> QED BY <2>1, <2>4
<1>6. n \in T
  <2>1. n \in 0 .. n
    BY <1>1
  <2> HIDE DEF T
  <2> QED BY <1>1, <1>4, <1>5, <2>1, Induction
<1> QED BY <1>3, <1>6

(* The absolute value of digits alone. *)
Weights(d) == [i \in DOMAIN d |-> d[i].value * TenTo(Len(d) - i)]

(* They are natural numbers, *)
LEMMA WeightsAre ==
    ASSUME NEW d \in Seq(Digits)
    PROVE  Weights(d) \in Seq(Nat) /\ Len(Weights(d)) = Len(d) /\ Total(Weights(d)) \in Nat
<1> DEFINE n == Len(d)  f == Weights(d)
<1>1. n \in Nat /\ DOMAIN d = 1 .. n /\ \A i \in 1 .. n : d[i] \in Digits
  OBVIOUS
<1> HIDE DEF n
<1>2. ASSUME NEW i \in 1 .. n PROVE d[i].value * TenTo(n - i) \in Nat
  <2>1. d[i].value \in Nat
    BY <1>1, PartsAre
  <2>2. n - i \in Nat
    BY <1>1
  <2>3. TenTo(n - i) \in Nat
    BY <2>2, TenToNext
  <2> QED BY <2>1, <2>3
<1>3. f = [i \in 1 .. n |-> d[i].value * TenTo(n - i)]
  BY <1>1 DEF Weights, n
<1>4. f \in Seq(Nat) /\ Len(f) = n
  <2> HIDE DEF f
  <2> QED BY <1>1, <1>2, <1>3
<1> HIDE DEF f
<1>5. Sums(f) \in [0 .. Len(f) -> Nat]
  BY <1>4, SumsAre
<1>6. Total(f) \in Nat
  BY <1>1, <1>4, <1>5 DEF Total
<1> QED BY <1>4, <1>6 DEF f, n

(* and one digit more makes each ten times as much. *)
LEMMA WeightsFurther ==
    ASSUME NEW d \in Seq(Digits), NEW x \in Digits
    PROVE  Total(Weights(Append(d, x))) = 10 * Total(Weights(d)) + x.value
<1> DEFINE e == Append(d, x)  n == Len(d)  f == Weights(d)  g == [i \in 1 .. n |-> 10 * f[i]]
           h == Weights(e)  y == <<x.value>>
<1>1. /\ e \in Seq(Digits) /\ n \in Nat /\ Len(e) = n + 1 /\ e[n + 1] = x
      /\ DOMAIN d = 1 .. n /\ DOMAIN e = 1 .. n + 1 /\ \A i \in 1 .. n : e[i] = d[i] /\ d[i] \in Digits
  OBVIOUS
<1>2. x.value \in Nat
  BY PartsAre
<1>3. f \in Seq(Nat) /\ Len(f) = n
  BY WeightsAre
<1>4. h \in Seq(Nat) /\ Len(h) = n + 1
  <2> HIDE DEF e
  <2> QED BY <1>1, WeightsAre
<1> HIDE DEF e
<1>5. f = [i \in 1 .. n |-> d[i].value * TenTo(n - i)]
  BY <1>1 DEF Weights
<1>6. h = [i \in 1 .. n + 1 |-> e[i].value * TenTo((n + 1) - i)]
  BY <1>1 DEF Weights
<1> HIDE DEF n, f, h
<1>7. g \in Seq(Nat) /\ Len(g) = n /\ \A i \in 1 .. n : g[i] = 10 * f[i]
  <2>1. \A i \in 1 .. n : f[i] \in Nat
    BY <1>3
  <2>2. \A i \in 1 .. n : 10 * f[i] \in Nat
    BY <2>1
  <2> QED BY <1>1, <2>2
<1> HIDE DEF g
<1>8. y \in Seq(Nat) /\ Len(y) = 1 /\ y[1] = x.value
  BY <1>2
<1> HIDE DEF y
<1>9. /\ g \o y \in Seq(Nat) /\ Len(g \o y) = n + 1
      /\ \A i \in 1 .. n : (g \o y)[i] = g[i]
      /\ (g \o y)[n + 1] = y[1]
  <2>1. /\ g \o y \in Seq(Nat) /\ Len(g \o y) = Len(g) + Len(y)
        /\ \A i \in 1 .. Len(g) + Len(y) : (g \o y)[i] = IF i <= Len(g) THEN g[i] ELSE y[i - Len(g)]
    BY <1>7, <1>8, ConcatProperties
  <2>2. Len(g) + Len(y) = n + 1 /\ n + 1 \in 1 .. n + 1 /\ ~(n + 1 <= n) /\ (n + 1) - n = 1
        /\ \A i \in 1 .. n : i \in 1 .. n + 1 /\ i <= n
    BY <1>1, <1>7, <1>8
  <2>3. Len(g) = n
    BY <1>7
  <2> DEFINE z == g \o y
  <2> HIDE DEF z
  <2>4. z \in Seq(Nat) /\ Len(z) = n + 1 /\ \A i \in 1 .. n + 1 : z[i] = IF i <= n THEN g[i] ELSE y[i - n]
    BY <2>1, <2>2, <2>3 DEF z
  <2>5. (\A i \in 1 .. n : z[i] = g[i]) /\ z[n + 1] = y[1]
    BY <2>2, <2>4
  <2> QED BY <2>4, <2>5 DEF z
<1>10. ASSUME NEW i \in 1 .. n + 1 PROVE h[i] = (g \o y)[i]
  <2>1. CASE i = n + 1
    <3>1. (n + 1) - i = 0 /\ h[i] = e[i].value * TenTo((n + 1) - i)
      BY <1>1, <1>6, <2>1
    <3>2. h[i] = x.value * 1
      BY <1>1, <2>1, <3>1, TenToNext
    <3> QED BY <1>2, <1>8, <1>9, <2>1, <3>2
  <2>2. CASE i # n + 1
    <3>1. i \in 1 .. n /\ n - i \in Nat /\ (n + 1) - i = (n - i) + 1
      BY <1>1, <2>2
    <3>2. h[i] = d[i].value * TenTo((n - i) + 1) /\ f[i] = d[i].value * TenTo(n - i)
      BY <1>1, <1>5, <1>6, <3>1
    <3>3. TenTo(n - i) \in Nat /\ TenTo((n - i) + 1) = 10 * TenTo(n - i) /\ d[i].value \in Nat
      <4>1. d[i].value \in Nat
        BY <1>1, <3>1, PartsAre
      <4> QED BY <3>1, <4>1, TenToNext
    <3> DEFINE a == d[i].value  b == TenTo(n - i)
    <3>4. a * (10 * b) = 10 * (a * b)
      <4> HIDE DEF a, b
      <4>1. a \in Nat /\ b \in Nat
        BY <3>3 DEF a, b
      <4> QED BY <4>1
    <3>5. h[i] = 10 * f[i]
      BY <3>2, <3>3, <3>4
    <3> QED BY <1>7, <1>9, <3>1, <3>5
  <2> QED BY <2>1, <2>2
<1>11. h = g \o y
  <2> DEFINE z == g \o y
  <2>1. z \in Seq(Nat) /\ Len(z) = n + 1 /\ \A i \in 1 .. n + 1 : h[i] = z[i]
    BY <1>9, <1>10
  <2> HIDE DEF z
  <2>2. h = z
    BY <1>4, <2>1, SeqEqual
  <2> QED BY <2>2 DEF z
<1>12. Total(g) = 10 * Total(f)
  BY <1>3, <1>7, TotalScales
<1>13. Total(y) = x.value
  BY <1>2, TotalOfFew DEF y
<1>14. Total(h) = Total(g) + Total(y)
  BY <1>7, <1>8, <1>11, TotalJoins
<1> QED BY <1>12, <1>13, <1>14 DEF e, f, h

(* An integer, or the sign of one, has the value that its digits have.      *)
Valued(t) == Unsigned(t, {"-"}) \in Seq(Digits) /\ ValueOf(t) = Absolute(t)

(* The value of a number is the sum of the weights. *)
LEMMA AbsoluteIs ==
    ASSUME NEW t, Unsigned(t, {"-"}) \in Seq(Digits)
    PROVE  Absolute(t) = Total(Weights(Unsigned(t, {"-"}))) /\ Absolute(t) \in Nat
<1>1. Absolute(t) = Total(Weights(Unsigned(t, {"-"})))
  BY DEF Absolute, Weights
<1> QED BY <1>1, WeightsAre

(* That holds before the first part, and after the sign, *)
LEMMA ValuedFirst ==
    /\ Valued(<<>>)
    /\ \A x \in Parts : x.is = "-" => Valued(Append(<<>>, x))
<1> DEFINE e == <<>>
<1>1. e \in Seq(Parts) /\ e \in Seq(Digits) /\ Len(e) = 0
  OBVIOUS
<1>2. Total(Weights(e)) = 0
  <2>1. Weights(e) = <<>>
    BY DEF Weights
  <2> QED BY <2>1, TotalOfFew
<1>3. Unsigned(e, {"-"}) = e
  BY DEF Unsigned
<1>4. ValueOf(e) = 0
  BY <1>1, PartsAre, ValueFurther
<1>5. Valued(e)
  <2> HIDE DEF e
  <2> QED BY <1>1, <1>2, <1>3, <1>4, AbsoluteIs DEF Valued
<1>6. ASSUME NEW x \in Parts, x.is = "-" PROVE Valued(Append(e, x))
  <2> DEFINE u == Append(e, x)
  <2>1. u # <<>> /\ u[1] = x /\ Tail(u) = e
    OBVIOUS
  <2>2. Unsigned(u, {"-"}) = e
    <3> HIDE DEF u, e
    <3> QED BY <1>6, <2>1 DEF Unsigned, e
  <2>3. ~IsDigit(x)
    BY <1>6 DEF IsDigit
  <2> HIDE DEF e
  <2>4. ValueOf(u) = 0
    BY <1>1, <1>4, <2>3, ValueFurther DEF Worth
  <2> HIDE DEF u
  <2> QED BY <1>1, <1>2, <2>2, <2>4, AbsoluteIs DEF Valued, u
<1> QED BY <1>5, <1>6 DEF e

(* with each digit, *)
LEMMA ValuedFurther ==
    ASSUME NEW t \in Seq(Parts), NEW x \in Parts, Valued(t), IsDigit(x)
    PROVE  Valued(Append(t, x))
<1> DEFINE u == Append(t, x)  d == Unsigned(t, {"-"})
<1>1. x \in Digits
  BY PartsAre
<1>2. Unsigned(u, {"-"}) = Append(d, x)
  <2>1. CASE t = <<>>
    <3>1. u # <<>> /\ u[1] = x
      BY <2>1
    <3>2. x.is # "-"
      BY DEF IsDigit
    <3>3. d = t
      BY <2>1 DEF Unsigned
    <3>4. Unsigned(u, {"-"}) = u
      <4> HIDE DEF u
      <4> QED BY <3>1, <3>2 DEF Unsigned
    <3> QED BY <3>3, <3>4
  <2>2. CASE t # <<>>
    <3>1. u # <<>> /\ u[1] = t[1] /\ Tail(u) = Append(Tail(t), x)
      BY <2>2
    <3> HIDE DEF u
    <3>2. CASE t[1].is = "-"
      <4>1. d = Tail(t) /\ Unsigned(u, {"-"}) = Tail(u)
        BY <2>2, <3>1, <3>2 DEF Unsigned
      <4> QED BY <3>1, <4>1
    <3>3. CASE t[1].is # "-"
      <4>1. d = t /\ Unsigned(u, {"-"}) = u
        BY <2>2, <3>1, <3>3 DEF Unsigned
      <4> QED BY <4>1 DEF u
    <3> QED BY <3>2, <3>3
  <2> QED BY <2>1, <2>2
<1>3. d \in Seq(Digits) /\ ValueOf(t) = Absolute(t)
  BY DEF Valued
<1>4. ValueOf(u) = 10 * ValueOf(t) + x.value
  BY ValueFurther DEF Worth
<1>5. Absolute(t) = Total(Weights(d))
  BY <1>3, AbsoluteIs
<1> HIDE DEF u, d
<1>6. Append(d, x) \in Seq(Digits)
  BY <1>1, <1>3
<1>7. Absolute(u) = Total(Weights(Append(d, x)))
  BY <1>2, <1>6, AbsoluteIs
<1>8. Total(Weights(Append(d, x))) = 10 * Total(Weights(d)) + x.value
  BY <1>1, <1>3, WeightsFurther
<1>9. Valued(u)
  BY <1>2, <1>3, <1>4, <1>5, <1>6, <1>7, <1>8 DEF Valued
<1> QED BY <1>9 DEF u

(* and so wherever an integer is read. *)
LEMMA ValuedOnward ==
    ASSUME NEW t \in Seq(Parts), NEW x \in Parts, NEW p, NEW q \in Onward(p, x), Formed(t, p),
           p = "sign" \/ p = "integer" \/ p = "zero" \/ p = "digits" => Valued(t),
           q = "sign" \/ q = "integer" \/ q = "zero" \/ q = "digits"
    PROVE  Valued(Append(t, x))
<1>1. Consumes(p, x, q)
  BY OnwardIs
<1>2. CASE p = "sign" /\ x.is = "-"
  <2>1. t = <<>>
    <3>1. Len(t) = 0
      BY <1>2 DEF Formed, ShapedFraction, ShapedExponent
    <3> QED BY <3>1
  <2> QED BY <1>2, <2>1, ValuedFirst
<1>3. CASE (p = "sign" \/ p = "integer" \/ p = "digits") /\ IsDigit(x)
  BY <1>3, ValuedFurther
<1> QED BY <1>1, <1>2, <1>3 DEF Consumes

(* What serde_json takes is in range, and its size is that of the lexeme.   *)
LEMMA RangeIs ==
    ASSUME NEW t, Valued(t)
    PROVE  InRange(t) <=> (IF t[1].is = "-" THEN ValueOf(t) =< NumberSize \div 2 ELSE ValueOf(t) < NumberSize)
<1> DEFINE a == Absolute(t)  N == NumberSize  h == NumberSize \div 2
<1>1. a \in Nat /\ ValueOf(t) = a
  BY AbsoluteIs DEF Valued
<1>2. N \in Nat /\ N >= 1 /\ h \in Nat
  <2>1. N \in Nat \ {0}
    BY TokenAssumption DEF TokenAssumption
  <2> QED BY <2>1
<1>3. InRange(t) <=> (IF t[1].is = "-" THEN -a ELSE a) \in -h .. N - 1
  BY DEF InRange
<1> HIDE DEF a, N, h
<1>4. CASE t[1].is = "-"
  <2>1. -a \in -h .. N - 1 <=> a =< h
    BY <1>1, <1>2
  <2> QED BY <1>1, <1>3, <1>4, <2>1 DEF h
<1>5. CASE t[1].is # "-"
  <2>1. a \in -h .. N - 1 <=> a < N
    BY <1>1, <1>2
  <2> QED BY <1>1, <1>3, <1>5, <2>1 DEF N
<1> QED BY <1>4, <1>5

(* A number is read at one of these places. *)
LEMMA ShapedPlace ==
    ASSUME NEW t, NEW p, Formed(t, p)
    PROVE  \/ p = "sign" \/ p = "zero" \/ p = "digits" \/ p = "fraction" \/ p = "exponent"
           \/ p = "integer" \/ p = "point" \/ p = "mark" \/ p = "power"
BY DEF Formed, ShapedFraction, ShapedExponent

(* No number is a minus alone. *)
LEMMA ShapedAlone ==
    ASSUME NEW t \in Seq(Parts), NEW p, Formed(t, p), Len(t) = 1,
           p = "zero" \/ p = "digits" \/ p = "fraction" \/ p = "exponent"
    PROVE  t[1].is # "-"
<1>1. CASE p = "zero" \/ p = "digits"
  <2>1. PICK s : IntegerIs(t, s, Len(t))
    BY <1>1 DEF Formed, ShapedFraction, ShapedExponent
  <2>2. (s = 0 \/ s = 1) /\ s + 1 =< 1 /\ AreDigits(t, s, 1)
    BY <2>1 DEF IntegerIs
  <2>3. 1 \in s + 1 .. 1
    BY <2>2
  <2> QED BY <2>2, <2>3 DEF AreDigits, IsDigit
<1>2. CASE p = "fraction"
  <2>1. PICK s, i : IntegerIs(t, s, i) /\ i < Len(t)
    BY <1>2 DEF Formed, ShapedFraction, ShapedExponent
  <2>2. (s = 0 \/ s = 1) /\ i \in Nat /\ s + 1 =< i
    BY <2>1 DEF IntegerIs
  <2> QED BY <2>1, <2>2
<1>3. CASE p = "exponent"
  <2>1. PICK s, i, j : IntegerIs(t, s, i) /\ FractionIs(t, i, j) /\ ShapedExponent(t, p, j)
    BY <1>3 DEF Formed, ShapedFraction
  <2>2. (s = 0 \/ s = 1) /\ i \in Nat /\ s + 1 =< i /\ j \in Nat /\ i =< j
    BY <2>1 DEF IntegerIs, FractionIs
  <2>3. j + 1 < Len(t) \/ j + 2 < Len(t)
    BY <1>3, <2>1 DEF ShapedExponent, ExponentFrom
  <2> QED BY <2>2, <2>3
<1> QED BY <1>1, <1>2, <1>3

(* While a number is read, the place is the one at which every number that  *)
(* goes on from here is, and nothing has been charged.                      *)
Counting ==
    /\ token \in Seq(Parts)
    /\ Tracked(token, place) /\ Formed(token, place)
    /\ place = "sign" \/ place = "integer" \/ place = "zero" \/ place = "digits" => Valued(token)
    /\ budget = BudgetOf(text)

(* One part of a number: it goes on, or is answered as the lexeme demands.  *)
Numbered ==
    /\ answer' # "none" /\ place' # "none" /\ place' # "string" /\ place' # "low"
    /\ answer' = "reading" => Counting'
    /\ NumberIsLexeme'

(* A number that goes on has so far been read as the lexeme demands. *)
LEMMA StillCounting ==
    ASSUME answer' = "reading", Counting'
    PROVE  Numbered
<1>1. Before' = BudgetOf(text)'
  BY DEF Before, BudgetOf
<1>2. Counting' => /\ token' \in Seq(Parts) /\ Formed(token', place') /\ budget' = BudgetOf(text)'
  BY DEF Counting
<1>3. NumberBegins(token')
  BY <1>2, ShapedBegins
<1>4. NumberIsLexeme'
  BY <1>1, <1>2, <1>3 DEF NumberIsLexeme
<1>5. place' # "none" /\ place' # "string" /\ place' # "low"
  BY <1>2, ShapedPlace
<1> QED BY <1>4, <1>5 DEF Numbered

(* The actions one by one: before the first part, *)
LEMMA BeginCounted ==
    ASSUME Decoding, token = <<>>, BeginNumber
    PROVE  Numbered
<1>1. /\ answer = "none" /\ status = "running" /\ place' = "sign" /\ answer' = "reading"
      /\ token' = <<>> /\ text' = text /\ budget' = budget
  BY DEF BeginNumber, BeginToken
<1>2. budget = BudgetOf(text)
  BY <1>1 DEF Decoding
<1>3. BudgetOf(text)' = BudgetOf(text)
  BY <1>1
<1>4. token' \in Seq(Parts) /\ Len(token') = 0
  <2>1. \A T : <<>> \in Seq(T)
    OBVIOUS
  <2> QED BY <1>1, <2>1
<1>5. Formed(token', place')
  BY <1>1, <1>4 DEF Formed
<1>6. Counting'
  BY <1>1, <1>2, <1>3, <1>4, <1>5, TrackedFirst, ValuedFirst DEF Counting
<1> QED BY <1>1, <1>6, StillCounting

(* a part that is consumed, *)
LEMMA ReadCounted ==
    ASSUME Counting, answer = "reading", NEW x \in NumberParts, ReadNumber(x)
    PROVE  Numbered
<1>1. PICK to \in Onward(place, x) : Continue(to)
  BY DEF ReadNumber
<1>2. token' = Append(token, x) /\ text' = text
  BY DEF ReadNumber, Part
<1>3. place' = to /\ budget' = budget /\ answer' = "reading"
  BY <1>1 DEF Continue
<1>4. x \in Parts /\ token \in Seq(Parts) /\ token' \in Seq(Parts)
  <2>1. x \in Parts /\ token \in Seq(Parts)
    BY PartsAre DEF Counting
  <2> QED BY <1>2, <2>1, FurtherIs
<1>5. /\ Tracked(token, place) /\ Formed(token, place) /\ budget = BudgetOf(text)
      /\ place = "sign" \/ place = "integer" \/ place = "zero" \/ place = "digits" => Valued(token)
  BY DEF Counting
<1>6. Tracked(token', to) /\ Formed(token', to)
  BY <1>2, <1>4, <1>5, TrackedOnward, ShapedOnward
<1>7. to = "sign" \/ to = "integer" \/ to = "zero" \/ to = "digits" => Valued(token')
  BY <1>2, <1>4, <1>5, ValuedOnward
<1>8. BudgetOf(text)' = BudgetOf(text)
  BY <1>2
<1>9. Counting'
  BY <1>2, <1>3, <1>4, <1>5, <1>6, <1>7, <1>8 DEF Counting
<1> QED BY <1>3, <1>9, StillCounting

(* What is known where a number ends, or breaks.                            *)
LEMMA CountingEnds ==
    ASSUME Counting, NEW x \in NumberParts, Part(x), Onward(place, x) = {}
    PROVE  /\ token \in Seq(Parts) /\ Front(token') = token /\ Last(token') = x
           /\ Len(token') = Len(token) + 1 /\ (Len(token) = 1 => token'[1] = token[1])
           /\ NumberBegins(token) /\ ~NumberBegins(token')
           /\ Before' = BudgetOf(text) /\ Depth' = Depth /\ budget = BudgetOf(text)
<1>1. token' = Append(token, x) /\ text' = text /\ frames' = frames
  BY DEF Part
<1>2. x \in Parts /\ token \in Seq(Parts)
  BY PartsAre DEF Counting
<1>3. /\ Front(token') = token /\ Last(token') = x
      /\ Len(token') = Len(token) + 1 /\ (Len(token) = 1 => token'[1] = token[1])
  <2>1. Len(token) = 1 => 1 \in 1 .. Len(token)
    OBVIOUS
  <2> QED BY <1>1, <1>2, <2>1, FurtherIs
<1>4. NumberBegins(token) /\ ~NumberBegins(token')
  BY <1>1, <1>2, ShapedBegins, TrackedStops DEF Counting
<1>5. Before' = BudgetOf(text) /\ Depth' = Depth
  BY <1>1 DEF Before, BudgetOf, Depth
<1> QED BY <1>2, <1>3, <1>4, <1>5 DEF Counting

(* one at which the number breaks off, *)
LEMMA BreakCounted ==
    ASSUME Counting, answer = "reading", NEW x \in NumberParts, BreakNumber(x)
    PROVE  Numbered
<1>1. /\ place = "integer" \/ place = "point" \/ place = "mark" \/ place = "power"
      /\ Onward(place, x) = {} /\ Part(x)
  BY DEF BreakNumber
<1>2. place' = place /\ answer' = IF place = "integer" /\ x.is = "Infinity" THEN "nonfinite" ELSE "syntax"
  BY DEF BreakNumber, Answer
<1>3. /\ token \in Seq(Parts) /\ Front(token') = token /\ Last(token') = x
      /\ Len(token') = Len(token) + 1 /\ (Len(token) = 1 => token'[1] = token[1])
      /\ NumberBegins(token) /\ ~NumberBegins(token')
  BY <1>1, CountingEnds
<1>4. ~IsNumber(token)
  <2>1. IsNumber(token) => place = "zero" \/ place = "digits" \/ place = "fraction" \/ place = "exponent"
    BY <1>3, TrackedEnds DEF Counting
  <2> QED BY <1>1, <2>1
<1>5. Len(token) \in Nat
  BY <1>3
<1>6. answer' = NumberFault(token')
  <2>1. CASE place = "integer"
    <3>1. Len(token) = 1 /\ token[1].is = "-"
      BY <2>1 DEF Counting, Formed, ShapedFraction, ShapedExponent
    <3>2. Len(token') = 2 /\ token'[1].is = "-"
      BY <1>3, <3>1
    <3> QED BY <1>2, <1>3, <1>4, <2>1, <3>2 DEF NumberFault
  <2>2. CASE place # "integer"
    <3>1. Len(token) # 1
      BY <1>1, <1>3, <2>2, ShapedMinus DEF Counting
    <3>2. Len(token') # 2
      <4>1. Len(token') = Len(token) + 1
        BY <1>3
      <4>2. \A m, n : n \in Nat /\ m = n + 1 /\ n # 1 => m # 2
        OBVIOUS
      <4> QED BY Zenon, <1>5, <3>1, <4>1, <4>2
    <3> QED BY <1>2, <1>3, <1>4, <2>2, <3>2 DEF NumberFault
  <2> QED BY <2>1, <2>2
<1>7. NumberIsLexeme'
  BY <1>2, <1>3, <1>6 DEF NumberIsLexeme
<1> QED BY <1>1, <1>2, <1>7 DEF Numbered

(* and one at which it ends. *)
LEMMA EndCounted ==
    ASSUME Counting, answer = "reading", NEW x \in NumberParts, EndNumber(x)
    PROVE  Numbered
<1>1. /\ place = "zero" \/ place = "digits" \/ place = "fraction" \/ place = "exponent"
      /\ Onward(place, x) = {} /\ Part(x)
  BY DEF EndNumber
<1>2. /\ token \in Seq(Parts) /\ Front(token') = token /\ Last(token') = x
      /\ Len(token') = Len(token) + 1 /\ (Len(token) = 1 => token'[1] = token[1])
      /\ NumberBegins(token) /\ ~NumberBegins(token')
      /\ Before' = BudgetOf(text) /\ Depth' = Depth /\ budget = BudgetOf(text)
  BY <1>1, CountingEnds
<1>3. IsNumber(token) /\ (IsInteger(token) <=> place = "zero" \/ place = "digits")
  BY <1>1, <1>2, ShapedEnds, TrackedEnds DEF Counting
<1>4. ~(Len(token') = 2 /\ token'[1].is = "-")
  <2>1. Len(token) \in Nat
    BY <1>2
  <2>2. Len(token') = 2 => Len(token) = 1
    <3>1. Len(token') = Len(token) + 1
      BY <1>2
    <3>2. \A m, n : n \in Nat /\ m = n + 1 /\ m = 2 => n = 1
      OBVIOUS
    <3> QED BY Zenon, <2>1, <3>1, <3>2
  <2>3. Len(token) = 1 => token[1].is # "-"
    BY <1>1, <1>2, ShapedAlone DEF Counting
  <2> QED BY <1>2, <2>2, <2>3
<1>5. ParseFails <=> IsInteger(token) /\ ~InRange(token)
  <2>1. CASE place = "zero" \/ place = "digits"
    <3>1. Valued(token)
      BY <2>1 DEF Counting
    <3>2. InRange(token) <=> (IF token[1].is = "-" THEN ValueOf(token) =< NumberSize \div 2 ELSE ValueOf(token) < NumberSize)
      BY <3>1, RangeIs
    <3>3. ValueOf(token) \in Nat
      BY <3>1, AbsoluteIs DEF Valued
    <3>4. NumberSize \in Nat /\ NumberSize \div 2 \in Nat
      <4>1. NumberSize \in Nat \ {0}
        BY TokenAssumption DEF TokenAssumption
      <4> QED BY <4>1
    <3>5. ParseFails <=> IF token[1].is = "-" THEN ValueOf(token) > NumberSize \div 2 ELSE ValueOf(token) >= NumberSize
      BY <2>1 DEF ParseFails, IsNegative, Magnitude
    <3> QED BY <1>3, <2>1, <3>2, <3>3, <3>4, <3>5
  <2>2. CASE ~(place = "zero" \/ place = "digits")
    BY <1>3, <2>2 DEF ParseFails
  <2> QED BY <2>1, <2>2
<1>6. Size = NumberBytes(token)
  <2>1. CASE place = "zero" \/ place = "digits"
    <3>1. ValueOf(token) = Absolute(token)
      BY <2>1 DEF Counting, Valued
    <3>2. IsFloat <=> token[1].is = "-" /\ Absolute(token) = 0
      BY <2>1, <3>1 DEF IsFloat, IsNegative, Magnitude
    <3> QED BY <1>3, <2>1, <3>2 DEF Size, NumberBytes
  <2>2. CASE ~(place = "zero" \/ place = "digits")
    <3>1. IsFloat /\ ~IsInteger(token)
      BY <1>1, <1>3, <2>2 DEF IsFloat
    <3> QED BY <3>1 DEF Size, NumberBytes
  <2> QED BY <2>1, <2>2
<1>7. NumberFault(token') = IF ~IsInteger(token) THEN "nonfinite" ELSE IF InRange(token) THEN "none" ELSE "overflow"
  BY <1>2, <1>3, <1>4 DEF NumberFault
<1>8. ASSUME answer' = "overflow" \/ answer' = "nonfinite", place' = place,
             answer' = "overflow" => ParseFails,
             answer' = "nonfinite" => place = "fraction" \/ place = "exponent"
      PROVE  Numbered
  <2>1. answer' = "nonfinite" => ~IsInteger(token)
    BY <1>3, <1>8
  <2>2. answer' = NumberFault(token')
    BY <1>5, <1>7, <1>8, <2>1
  <2>3. NumberIsLexeme'
    BY <1>2, <1>8, <2>1, <2>2 DEF NumberIsLexeme
  <2> QED BY <1>1, <1>8, <2>3 DEF Numbered
<1>9. ASSUME answer' = "budget" \/ answer' = "done", place' = place, ~ParseFails,
             answer' = "done" <=> ChargeError(Size, Depth) = "none",
             answer' = "done" => budget' = Charge(budget, Size, 1)
      PROVE  Numbered
  <2>1. answer' = "done" <=> Admits(BudgetOf(text), NumberBytes(token), 1, Depth)
    BY <1>2, <1>6, <1>9 DEF ChargeError
  <2>2. answer' = "done" <=> (Admits(Before, NumberBytes(Front(token)), 1, Depth))'
    BY <1>2, <2>1
  <2>3. answer' = "done" => budget' = (Charge(Before, NumberBytes(Front(token)), 1))'
    BY <1>2, <1>6, <1>9
  <2>4. IsNumber(Front(token')) /\ (IsInteger(Front(token')) => InRange(Front(token')))
    BY <1>2, <1>3, <1>5, <1>9
  <2>5. NumberIsLexeme'
    BY <1>2, <1>9, <2>2, <2>3, <2>4 DEF NumberIsLexeme
  <2> QED BY <1>1, <1>9, <2>5 DEF Numbered
<1>10. CASE ParseFails
  <2>1. answer' = "overflow" /\ place' = place
    BY <1>10 DEF EndNumber, Answer
  <2> QED BY <1>8, <1>10, <2>1
<1>11. CASE ~ParseFails /\ place \in {"fraction", "exponent"} /\ Answer("nonfinite")
  <2>1. answer' = "nonfinite" /\ place' = place
    BY <1>11 DEF Answer
  <2> QED BY <1>8, <1>11, <2>1
<1>12. CASE ~ParseFails /\ ChargeError(Size, Depth) # "none" /\ Answer("budget")
  <2>1. answer' = "budget" /\ place' = place
    BY <1>12 DEF Answer
  <2> QED BY <1>9, <1>12, <2>1
<1>13. CASE /\ ~ParseFails /\ ChargeError(Size, Depth) = "none" /\ budget' = Charge(budget, Size, 1)
            /\ answer' = "done" /\ UNCHANGED <<place, got>>
  <2>1. place' = place
    BY <1>13
  <2> QED BY <1>9, <1>13, <2>1
<1>14. \/ ParseFails
       \/ ~ParseFails /\ place \in {"fraction", "exponent"} /\ Answer("nonfinite")
       \/ ~ParseFails /\ ChargeError(Size, Depth) # "none" /\ Answer("budget")
       \/ /\ ~ParseFails /\ ChargeError(Size, Depth) = "none" /\ budget' = Charge(budget, Size, 1)
          /\ answer' = "done" /\ UNCHANGED <<place, got>>
  BY DEF EndNumber
<1> QED BY <1>10, <1>11, <1>12, <1>13, <1>14

(* The token is what has been read of the lexeme, at every moment.          *)
TokenReads ==
    /\ answer = "none" => place = "none" /\ token = <<>> /\ got = <<>>
    /\ answer = "reading" /\ (place = "string" \/ place = "low") => Spelling
    /\ answer = "reading" /\ place # "string" /\ place # "low" => place # "none" /\ Counting
    /\ TokenIsLexeme

(* That is kept by every part of a string, *)
LEMMA SpeltReads == Spelt => TokenReads'
BY DEF Spelt, TokenReads, TokenIsLexeme

(* by every part of a number, *)
LEMMA NumberedReads == Numbered => TokenReads'
BY DEF Numbered, TokenReads, TokenIsLexeme

(* and by every step. *)
LEMMA KeepsReading ==
    ASSUME Decoding, TokenReads, [TNext]_<<docVars, tokenVars>>
    PROVE  TokenReads'
<1>1. CASE Decode
  <2>1. answer' = "none" /\ place' = "none" /\ token' = <<>> /\ got' = <<>>
    BY <1>1 DEF Decode, TokenReads, tokenVars
  <2> QED BY <2>1 DEF TokenReads, TokenIsLexeme
<1>2. ASSUME BeginString \/ BeginNumber PROVE TokenReads'
  <2>1. answer = "none"
    BY <1>2 DEF BeginString, BeginNumber, BeginToken
  <2>2. token = <<>> /\ got = <<>>
    BY <2>1 DEF TokenReads
  <2>3. CASE BeginString
    BY <2>2, <2>3, BeginSpelt, SpeltReads
  <2>4. CASE BeginNumber
    BY <2>2, <2>4, BeginCounted, NumberedReads
  <2> QED BY <1>2, <2>3, <2>4
<1>3. ASSUME NEW x \in StringParts, ReadCharacter(x) \/ ReadUnit(x) \/ ReadLow(x) \/ EndString(x)
      PROVE  TokenReads'
  <2>1. answer = "reading" /\ (place = "string" \/ place = "low")
    BY <1>3 DEF ReadCharacter, ReadUnit, ReadLow, EndString, Part
  <2>2. Spelling
    BY <2>1 DEF TokenReads
  <2>3. CASE ReadCharacter(x)
    BY <2>1, <2>2, <2>3, CharacterSpelt, SpeltReads
  <2>4. CASE ReadUnit(x)
    BY <2>1, <2>2, <2>4, UnitSpelt, SpeltReads
  <2>5. CASE ReadLow(x)
    BY <2>1, <2>2, <2>5, LowSpelt, SpeltReads
  <2>6. CASE EndString(x)
    BY <2>1, <2>2, <2>6, EndSpelt, SpeltReads
  <2> QED BY <1>3, <2>3, <2>4, <2>5, <2>6
<1>4. ASSUME NEW x \in NumberParts, ReadNumber(x) \/ EndNumber(x) \/ BreakNumber(x)
      PROVE  TokenReads'
  <2>1. answer = "reading"
    BY <1>4 DEF ReadNumber, EndNumber, BreakNumber, Part
  <2>2. place # "string" /\ place # "low"
    <3>1. CASE ReadNumber(x)
      <4>1. PICK to \in Onward(place, x) : TRUE
        BY <3>1 DEF ReadNumber
      <4>2. Consumes(place, x, to)
        BY <4>1, OnwardIs
      <4> QED BY <4>2 DEF Consumes
    <3>2. CASE EndNumber(x)
      BY <3>2 DEF EndNumber
    <3>3. CASE BreakNumber(x)
      BY <3>3 DEF BreakNumber
    <3> QED BY <1>4, <3>1, <3>2, <3>3
  <2>3. Counting
    BY <2>1, <2>2 DEF TokenReads
  <2>4. CASE ReadNumber(x)
    BY <2>1, <2>3, <2>4, ReadCounted, NumberedReads
  <2>5. CASE EndNumber(x)
    BY <2>1, <2>3, <2>5, EndCounted, NumberedReads
  <2>6. CASE BreakNumber(x)
    BY <2>1, <2>3, <2>6, BreakCounted, NumberedReads
  <2> QED BY <1>4, <2>4, <2>5, <2>6
<1>5. CASE UNCHANGED <<docVars, tokenVars>>
  <2>1. /\ text' = text /\ frames' = frames /\ budget' = budget
        /\ token' = token /\ place' = place /\ got' = got /\ answer' = answer
    BY <1>5 DEF docVars, tokenVars
  <2>2. Before' = Before /\ Depth' = Depth /\ BudgetOf(text)' = BudgetOf(text)
    BY <2>1 DEF Before, Depth, BudgetOf
  <2>3. StringIsLexeme' = StringIsLexeme
    BY <2>1, <2>2 DEF StringIsLexeme
  <2>4. NumberIsLexeme' = NumberIsLexeme
    BY <2>1, <2>2 DEF NumberIsLexeme
  <2>5. Spelling' = Spelling
    BY <2>1, <2>2 DEF Spelling
  <2>6. Counting' = Counting
    BY <2>1, <2>2 DEF Counting
  <2> QED BY <2>1, <2>3, <2>4, <2>5, <2>6 DEF TokenReads, TokenIsLexeme
<1> QED BY <1>1, <1>2, <1>3, <1>4, <1>5 DEF TNext

(* A token is read as the lexeme it is, whatever the parts of strings and   *)
(* numbers, and however long it is.  (json_string.rs, json_decode.rs)       *)
THEOREM TokensAreLexemes == TSpec => []TokenIsLexeme
<1>1. TInit => Decoding /\ TokenReads
  <2>1. TInit => Decoding
    BY StartsDecoding
  <2>2. TInit => TokenReads
    BY DEF TInit, TokenReads, TokenIsLexeme
  <2> QED BY <2>1, <2>2
<1>2. Decoding /\ TokenReads /\ [TNext]_<<docVars, tokenVars>> => Decoding' /\ TokenReads'
  BY KeepsDecoding, KeepsReading
<1>3. TokenReads => TokenIsLexeme
  BY DEF TokenReads
<1> QED BY <1>1, <1>2, <1>3, PTL DEF TSpec
================================================================================
