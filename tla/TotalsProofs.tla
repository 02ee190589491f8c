---------------------------- MODULE TotalsProofs ----------------------------
(***************************************************************************)
(* Lemmas about Totals, and the two facts about the natural numbers that   *)
(* stand for induction: a set of them that is not empty has a least        *)
(* element, and a function may be defined by recursion on them.  Both are  *)
(* free of operator parameters, so that they can be cited.                 *)
(***************************************************************************)
EXTENDS Totals, SequencesExt, SequenceTheorems, WellFoundedInduction, TLAPS

(* A set of naturals that is not empty has a least element. *)
LEMMA LeastNatural ==
    ASSUME NEW T \in SUBSET Nat, T # {}
    PROVE  \E x \in T : \A y \in T : x =< y
<1> DEFINE R == OpToRel(<, Nat)
<1>1. \E x \in T : \A y \in T : ~(<<y, x>> \in R)
  BY WFMin, NatLessThanWellFounded
<1>2. R = {p \in Nat \X Nat : p[1] < p[2]}
  BY Zenon DEF OpToRel
<1> HIDE DEF R
<1>3. ASSUME NEW x \in Nat, NEW y \in Nat, x < y PROVE <<x, y>> \in R
  BY <1>2, <1>3
<1>4. PICK x \in T : \A y \in T : ~(<<y, x>> \in R)
  BY <1>1
<1>5. \A y \in T : ~(y < x)
  BY <1>3, <1>4
<1> QED BY <1>4, <1>5

(* A set of naturals with 0 and, with a number, the next, has all up to n.  *)
LEMMA Induction ==
    ASSUME NEW n \in Nat, NEW T, 0 \in T, \A k \in 0 .. n - 1 : k \in T => k + 1 \in T
    PROVE  \A k \in 0 .. n : k \in T
<1> SUFFICES ASSUME NEW j \in 0 .. n, j \notin T PROVE FALSE
  OBVIOUS
<1> DEFINE F == {k \in 0 .. n : k \notin T}
<1>1. F \in SUBSET Nat /\ F # {}
  OBVIOUS
<1>2. PICK m \in F : \A k \in F : m =< k
  <2> HIDE DEF F
  <2> QED BY <1>1, LeastNatural
<1>3. m \in 0 .. n /\ m \notin T /\ m # 0
  OBVIOUS
<1>4. m - 1 \in 0 .. n - 1 /\ m - 1 \notin F /\ (m - 1) + 1 = m
  BY <1>2, <1>3
<1>5. m - 1 \in T
  BY <1>4
<1> QED BY <1>3, <1>4, <1>5

(* A function on 0 .. n with a given first value, and each next one of S    *)
(* given by its place and the one before.                                   *)
Nexts(n, S) == [(1 .. n) \X S -> S]

Recursive(h, n, S, a, g) ==
    /\ h \in [0 .. n -> S]
    /\ h[0] = a
    /\ \A k \in 1 .. n : h[k] = g[<<k, h[k - 1]>>]

LEMMA Recursion ==
    ASSUME NEW S, NEW a \in S, NEW n \in Nat, NEW g \in Nexts(n, S)
    PROVE  \E h : Recursive(h, n, S, a, g)
<1> USE DEF Nexts
<1> DEFINE Is(h, m) == h = [k \in 0 .. m |-> IF k = 0 THEN a ELSE g[<<k, h[k - 1]>>]]
           T == {m \in 0 .. n : \E h \in [0 .. m -> S] : Is(h, m)}
<1>1. 0 \in T
  <2> DEFINE h == [k \in 0 .. 0 |-> a]
  <2>1. h \in [0 .. 0 -> S]
    OBVIOUS
  <2>2. Is(h, 0)
    <3>1. \A k \in 0 .. 0 : k = 0
      OBVIOUS
    <3> QED BY <3>1
  <2>3. \E f \in [0 .. 0 -> S] : Is(f, 0)
    <3> HIDE DEF h, Is
    <3> QED BY <2>1, <2>2
  <2> QED BY <2>3
<1>2. ASSUME NEW m \in 0 .. n - 1, m \in T PROVE m + 1 \in T
  <2>1. PICK h \in [0 .. m -> S] : Is(h, m)
    BY <1>2
  <2> DEFINE b == g[<<m + 1, h[m]>>]
             f == [k \in 0 .. m + 1 |-> IF k = m + 1 THEN b ELSE h[k]]
  <2>2. b \in S /\ m + 1 \in 0 .. n
    OBVIOUS
  <2>3. f \in [0 .. m + 1 -> S]
    BY <2>2
  <2>4. ASSUME NEW k \in 0 .. m + 1 PROVE f[k] = IF k = 0 THEN a ELSE g[<<k, f[k - 1]>>]
    <3>1. CASE k = m + 1
      <4>1. f[k - 1] = h[m] /\ k # 0
        BY <3>1
      <4> QED BY <3>1, <4>1
    <3>2. CASE k # m + 1
      <4>1. k \in 0 .. m /\ f[k] = h[k]
        BY <3>2
      <4>2. h[k] = IF k = 0 THEN a ELSE g[<<k, h[k - 1]>>]
        BY <2>1, <4>1
      <4>3. k # 0 => f[k - 1] = h[k - 1]
        BY <4>1
      <4> QED BY <4>1, <4>2, <4>3
    <3> QED BY <3>1, <3>2
  <2>5. Is(f, m + 1)
    <3> HIDE DEF b
    <3>1. f = [k \in 0 .. m + 1 |-> f[k]]
      OBVIOUS
    <3> HIDE DEF f
    <3> QED BY <2>4, <3>1
  <2> QED BY <2>2, <2>3, <2>5
<1>3. n \in T
  <2> HIDE DEF T
  <2>1. n \in 0 .. n
    OBVIOUS
  <2> QED BY <1>1, <1>2, <2>1, Induction
<1>4. PICK h \in [0 .. n -> S] : Is(h, n)
  BY <1>3
<1>5. Recursive(h, n, S, a, g)
  BY <1>4 DEF Recursive
<1> QED BY <1>5

(* Sums is what its definition says. *)
LEMMA SumsAre ==
    ASSUME NEW f \in Seq(Nat)
    PROVE  /\ Sums(f) \in [0 .. Len(f) -> Nat]
           /\ Sums(f)[0] = 0
           /\ \A n \in 1 .. Len(f) : Sums(f)[n] = Sums(f)[n - 1] + f[n]
<1> DEFINE g == [p \in (1 .. Len(f)) \X Nat |-> p[2] + f[p[1]]]
           Is(h) == h = [n \in 0 .. Len(f) |-> IF n = 0 THEN 0 ELSE h[n - 1] + f[n]]
<1>1. g \in [(1 .. Len(f)) \X Nat -> Nat] /\ Len(f) \in Nat
  OBVIOUS
<1>2. PICK h : Recursive(h, Len(f), Nat, 0, g)
  <2>1. 0 \in Nat /\ g \in Nexts(Len(f), Nat)
    BY <1>1 DEF Nexts
  <2> HIDE DEF g
  <2> QED BY <1>1, <2>1, Recursion
<1>3. /\ h \in [0 .. Len(f) -> Nat] /\ h[0] = 0
      /\ \A k \in 1 .. Len(f) : h[k] = g[<<k, h[k - 1]>>]
  BY <1>2 DEF Recursive
<1>4. ASSUME NEW k \in 1 .. Len(f) PROVE h[k] = h[k - 1] + f[k]
  <2>1. k - 1 \in 0 .. Len(f)
    BY <1>1
  <2>2. <<k, h[k - 1]>> \in (1 .. Len(f)) \X Nat
    BY <1>3, <2>1
  <2>3. g[<<k, h[k - 1]>>] = h[k - 1] + f[k]
    BY <2>2
  <2> HIDE DEF g
  <2> QED BY <1>3, <2>3
<1>5. Is(h)
  <2>1. \A k \in 0 .. Len(f) : k # 0 => k \in 1 .. Len(f)
    BY <1>1
  <2>2. \A k \in 0 .. Len(f) : h[k] = IF k = 0 THEN 0 ELSE h[k - 1] + f[k]
    BY <1>3, <1>4, <2>1
  <2>3. h = [k \in 0 .. Len(f) |-> h[k]]
    BY <1>3
  <2> HIDE DEF g
  <2> QED BY <2>2, <2>3
<1>6. Is(Sums(f))
  <2>1. Sums(f) = CHOOSE h_1 : Is(h_1)
    BY DEF Sums
  <2> HIDE DEF Is
  <2> QED BY <1>5, <2>1
<1>7. /\ Sums(f) = [n \in 0 .. Len(f) |-> Sums(f)[n]]
      /\ \A n \in 0 .. Len(f) : Sums(f)[n] = IF n = 0 THEN 0 ELSE Sums(f)[n - 1] + f[n]
  <2> DEFINE s == Sums(f)
  <2>1. Is(s)
    BY <1>6
  <2> HIDE DEF s
  <2> QED BY <2>1 DEF s
<1> HIDE DEF Is, g
<1>8. Sums(f)[0] = 0
  <2>1. 0 \in 0 .. Len(f)
    BY <1>1
  <2> QED BY <1>7, <2>1
<1>9. ASSUME NEW n \in 1 .. Len(f) PROVE Sums(f)[n] = Sums(f)[n - 1] + f[n]
  <2>1. n \in 0 .. Len(f) /\ n # 0
    BY <1>1
  <2> QED BY <1>7, <2>1
<1> DEFINE T == {n \in 0 .. Len(f) : Sums(f)[n] \in Nat}
<1>10. 0 \in T
  BY <1>1, <1>8
<1>11. ASSUME NEW k \in 0 .. Len(f) - 1, k \in T PROVE k + 1 \in T
  <2>1. k + 1 \in 1 .. Len(f) /\ (k + 1) - 1 = k /\ f[k + 1] \in Nat
    BY <1>1
  <2>2. Sums(f)[k + 1] = Sums(f)[k] + f[k + 1]
    BY <1>9, <2>1
  <2> QED BY <1>11, <2>1, <2>2
<1>12. \A k \in 0 .. Len(f) : k \in T
  <2> HIDE DEF T
  <2> QED BY <1>1, <1>10, <1>11, Induction
<1>13. Sums(f) \in [0 .. Len(f) -> Nat]
  BY <1>7, <1>12
<1> QED BY <1>8, <1>9, <1>13

(* A running total never decreases. *)
LEMMA SumsGrow ==
    ASSUME NEW f \in Seq(Nat), NEW n \in 0 .. Len(f), NEW m \in 0 .. n
    PROVE  Sums(f)[m] =< Sums(f)[n]
<1> DEFINE T == {k \in 0 .. Len(f) : m =< k => Sums(f)[m] =< Sums(f)[k]}
<1>1. Len(f) \in Nat /\ m \in 0 .. Len(f) /\ \A k \in 0 .. Len(f) : Sums(f)[k] \in Nat
  <2>1. Sums(f) \in [0 .. Len(f) -> Nat]
    BY SumsAre
  <2>2. Len(f) \in Nat
    OBVIOUS
  <2>3. m \in 0 .. Len(f)
    BY <2>2
  <2> QED BY <2>1, <2>2, <2>3
<1>2. 0 \in T
  BY <1>1
<1>3. ASSUME NEW k \in 0 .. Len(f) - 1, k \in T PROVE k + 1 \in T
  <2>1. k \in 0 .. Len(f) /\ k + 1 \in 1 .. Len(f) /\ (k + 1) - 1 = k /\ f[k + 1] \in Nat
        /\ k + 1 \in 0 .. Len(f)
    BY <1>1
  <2>2. Sums(f)[k + 1] = Sums(f)[k] + f[k + 1]
    BY <2>1, SumsAre
  <2>3. Sums(f)[k] \in Nat /\ Sums(f)[m] \in Nat
    BY <1>1, <2>1
  <2>4. m =< k => Sums(f)[m] =< Sums(f)[k]
    BY <1>3
  <2>5. m =< k + 1 => Sums(f)[m] =< Sums(f)[k + 1]
    <3>1. CASE m =< k
      BY <2>1, <2>2, <2>3, <2>4, <3>1
    <3>2. CASE m = k + 1
      BY <2>1, <2>2, <2>3, <3>2
    <3> QED BY <2>1, <3>1, <3>2
  <2> QED BY <2>1, <2>5
<1>4. \A k \in 0 .. Len(f) : k \in T
  <2> HIDE DEF T
  <2> QED BY <1>1, <1>2, <1>3, Induction
<1> QED BY <1>4

(* Three sequences in a row. *)
LEMMA Regroup == \A T : \A x, y, z \in Seq(T) : (x \o y) \o z = x \o (y \o z)
<1> TAKE T
<1> TAKE x, y, z \in Seq(T)
<1> QED OBVIOUS

(* The total of two sequences, one after the other, is the sum of theirs.   *)
LEMMA TotalJoins ==
    ASSUME NEW f \in Seq(Nat), NEW g \in Seq(Nat)
    PROVE  Total(f \o g) = Total(f) + Total(g)
<1> DEFINE h == f \o g
           a == Len(f)
           b == Len(g)
<1>1. /\ h \in Seq(Nat) /\ Len(h) = a + b /\ a \in Nat /\ b \in Nat
      /\ \A n \in 1 .. a : h[n] = f[n]
      /\ \A n \in 1 .. b : h[a + n] = g[n]
  <2>1. /\ h \in Seq(Nat) /\ Len(h) = a + b
        /\ \A i \in 1 .. a + b : h[i] = IF i <= a THEN f[i] ELSE g[i - a]
    BY ConcatProperties
  <2>2. a \in Nat /\ b \in Nat
    OBVIOUS
  <2> HIDE DEF a, b, h
  <2>3. ASSUME NEW n \in 1 .. b PROVE h[a + n] = g[n]
    <3>1. a + n \in 1 .. a + b /\ ~(a + n <= a) /\ (a + n) - a = n
      BY <2>2
    <3> QED BY <2>1, <3>1
  <2> QED BY <2>1, <2>2, <2>3
<1>2. /\ Sums(f)[0] = 0 /\ \A n \in 1 .. a : Sums(f)[n] = Sums(f)[n - 1] + f[n]
      /\ Sums(g)[0] = 0 /\ \A n \in 1 .. b : Sums(g)[n] = Sums(g)[n - 1] + g[n]
      /\ \A n \in 0 .. a : Sums(f)[n] \in Nat
      /\ \A n \in 0 .. b : Sums(g)[n] \in Nat
  BY SumsAre
<1>3. Sums(h)[0] = 0 /\ \A n \in 1 .. a + b : Sums(h)[n] = Sums(h)[n - 1] + h[n]
  BY <1>1, SumsAre
<1>4. Total(f) = Sums(f)[a] /\ Total(g) = Sums(g)[b] /\ Total(h) = Sums(h)[a + b]
  BY <1>1 DEF Total
<1> HIDE DEF h, a, b
<1> DEFINE T == {n \in 0 .. a : Sums(h)[n] = Sums(f)[n]}
<1>5. 0 \in T
  BY <1>1, <1>2, <1>3
<1>6. ASSUME NEW n \in 0 .. a - 1, n \in T PROVE n + 1 \in T
  <2>1. n + 1 \in 1 .. a /\ n + 1 \in 1 .. a + b /\ (n + 1) - 1 = n /\ n + 1 \in 0 .. a
    BY <1>1
  <2> QED BY <1>1, <1>2, <1>3, <1>6, <2>1
<1>7. Sums(h)[a] = Sums(f)[a]
  <2>1. a \in 0 .. a
    BY <1>1
  <2> HIDE DEF T
  <2>2. a \in T
    BY <1>1, <1>5, <1>6, <2>1, Induction
  <2> QED BY <2>2 DEF T
<1> DEFINE U == {n \in 0 .. b : Sums(h)[a + n] = Sums(f)[a] + Sums(g)[n]}
<1>8. 0 \in U
  <2>1. a + 0 = a /\ a \in 0 .. a /\ 0 \in 0 .. b
    BY <1>1
  <2> QED BY <1>2, <1>7, <2>1
<1>9. ASSUME NEW n \in 0 .. b - 1, n \in U PROVE n + 1 \in U
  <2> HIDE DEF U
  <2>0. a \in Nat /\ b \in Nat /\ n \in Nat /\ n + 1 \in 1 .. b
    BY <1>1
  <2>1. /\ n + 1 \in 1 .. b /\ n + 1 \in 0 .. b /\ n \in 0 .. b /\ (n + 1) - 1 = n
        /\ a + (n + 1) \in 1 .. a + b /\ (a + (n + 1)) - 1 = a + n /\ a \in 0 .. a
    BY ONLY <2>0
  <2>2. /\ Sums(h)[a + (n + 1)] = Sums(h)[a + n] + h[a + (n + 1)]
        /\ h[a + (n + 1)] = g[n + 1]
        /\ Sums(g)[n + 1] = Sums(g)[n] + g[n + 1]
        /\ Sums(h)[a + n] = Sums(f)[a] + Sums(g)[n]
    BY <1>1, <1>2, <1>3, <1>9, <2>1 DEF U
  <2>3. Sums(f)[a] \in Nat /\ Sums(g)[n] \in Nat /\ g[n + 1] \in Nat
    <3>1. g[n + 1] \in Nat
      BY <2>1 DEF b
    <3> QED BY <1>2, <2>1, <3>1
  <2> DEFINE x == Sums(f)[a]
             y == Sums(g)[n]
             z == g[n + 1]
  <2>4. Sums(h)[a + (n + 1)] = (x + y) + z /\ Sums(g)[n + 1] = y + z
    BY <2>2
  <2>5. (x + y) + z = x + (y + z)
    <3>1. x \in Nat /\ y \in Nat /\ z \in Nat
      BY <2>3
    <3> HIDE DEF x, y, z
    <3> QED BY <3>1
  <2> QED BY <2>1, <2>4, <2>5 DEF U
<1>10. b \in U
  <2>1. b \in 0 .. b
    BY <1>1
  <2> HIDE DEF U
  <2> QED BY <1>1, <1>8, <1>9, <2>1, Induction
<1> QED BY <1>4, <1>10 DEF h

(* The total of nothing, and of one size. *)
LEMMA TotalOfFew == Total(<<>>) = 0 /\ \A x \in Nat : Total(<<x>>) = x
<1>1. Total(<<>>) = 0
  <2>1. <<>> \in Seq(Nat) /\ Len(<<>>) = 0
    OBVIOUS
  <2> QED BY <2>1, SumsAre DEF Total
<1>2. ASSUME NEW x \in Nat PROVE Total(<<x>>) = x
  <2>1. <<x>> \in Seq(Nat) /\ Len(<<x>>) = 1 /\ <<x>>[1] = x /\ 1 - 1 = 0 /\ 1 \in 1 .. 1
    OBVIOUS
  <2>2. Sums(<<x>>)[0] = 0 /\ Sums(<<x>>)[1] = Sums(<<x>>)[0] + x
    BY <2>1, SumsAre
  <2> QED BY <2>1, <2>2 DEF Total
<1> QED BY <1>1, <1>2

(* What follows each sequence of a sequence of sequences, up to the end. *)
Follows(s, T, r) ==
    /\ r \in [0 .. Len(s) -> Seq(T)]
    /\ r[0] = FlattenSeq(s)
    /\ r[Len(s)] = <<>>
    /\ \A i \in 1 .. Len(s) : r[i - 1] = s[i] \o r[i]

(* There is one such function for every sequence of sequences. *)
LEMMA SomethingFollows ==
    ASSUME NEW T, NEW s \in Seq(Seq(T))
    PROVE  \E r : Follows(s, T, r)
<1> DEFINE n == Len(s)
           back == [p \in (1 .. n) \X Seq(T) |-> s[n + 1 - p[1]] \o p[2]]
           forth == [p \in (1 .. n) \X Seq(T) |-> p[2] \o s[p[1]]]
<1>1. n \in Nat /\ \A i \in 1 .. n : s[i] \in Seq(T)
  OBVIOUS
<1> HIDE DEF n
<1>2. <<>> \in Seq(T) /\ \A x, y \in Seq(T) : x \o y \in Seq(T)
  BY ConcatProperties
<1>3. PICK q : Recursive(q, n, Seq(T), <<>>, back)
  <2>1. ASSUME NEW p \in (1 .. n) \X Seq(T) PROVE s[n + 1 - p[1]] \o p[2] \in Seq(T)
    <3>1. n + 1 - p[1] \in 1 .. n /\ p[2] \in Seq(T)
      BY <1>1
    <3> QED BY <1>1, <1>2, <3>1
  <2>2. back \in Nexts(n, Seq(T))
    BY <2>1 DEF Nexts
  <2> HIDE DEF back
  <2> QED BY <1>1, <1>2, <2>2, Recursion
<1>4. PICK h : Recursive(h, n, Seq(T), <<>>, forth)
  <2>1. ASSUME NEW p \in (1 .. n) \X Seq(T) PROVE p[2] \o s[p[1]] \in Seq(T)
    BY <1>1, <1>2
  <2>2. forth \in Nexts(n, Seq(T))
    BY <2>1 DEF Nexts
  <2> HIDE DEF forth
  <2> QED BY <1>1, <1>2, <2>2, Recursion
<1>5. /\ q \in [0 .. n -> Seq(T)] /\ q[0] = <<>>
      /\ \A k \in 1 .. n : q[k] = s[n + 1 - k] \o q[k - 1]
  <2>1. /\ q \in [0 .. n -> Seq(T)] /\ q[0] = <<>>
        /\ \A k \in 1 .. n : q[k] = back[<<k, q[k - 1]>>]
    BY <1>3 DEF Recursive
  <2>2. ASSUME NEW k \in 1 .. n PROVE back[<<k, q[k - 1]>>] = s[n + 1 - k] \o q[k - 1]
    <3>1. k - 1 \in 0 .. n
      BY <1>1
    <3>2. <<k, q[k - 1]>> \in (1 .. n) \X Seq(T)
      BY <2>1, <3>1
    <3> QED BY <3>2
  <2> QED BY <2>1, <2>2
<1>6. /\ h \in [0 .. n -> Seq(T)] /\ h[0] = <<>>
      /\ \A k \in 1 .. n : h[k] = h[k - 1] \o s[k]
  <2>1. /\ h \in [0 .. n -> Seq(T)] /\ h[0] = <<>>
        /\ \A k \in 1 .. n : h[k] = forth[<<k, h[k - 1]>>]
    BY <1>4 DEF Recursive
  <2>2. ASSUME NEW k \in 1 .. n PROVE forth[<<k, h[k - 1]>>] = h[k - 1] \o s[k]
    <3>1. k - 1 \in 0 .. n
      BY <1>1
    <3>2. <<k, h[k - 1]>> \in (1 .. n) \X Seq(T)
      BY <2>1, <3>1
    <3> QED BY <3>2
  <2> QED BY <2>1, <2>2
<1> HIDE DEF back, forth
<1> DEFINE r == [i \in 0 .. n |-> q[n - i]]
<1>7. /\ r \in [0 .. n -> Seq(T)] /\ r[n] = <<>>
      /\ \A i \in 1 .. n : r[i - 1] = s[i] \o r[i]
  <2>1. \A i \in 0 .. n : n - i \in 0 .. n
    BY <1>1
  <2>2. r \in [0 .. n -> Seq(T)]
    BY <1>5, <2>1
  <2>3. r[n] = <<>>
    BY <1>1, <1>5
  <2>4. ASSUME NEW i \in 1 .. n PROVE r[i - 1] = s[i] \o r[i]
    <3>1. /\ i - 1 \in 0 .. n /\ i \in 0 .. n /\ n - (i - 1) \in 1 .. n
          /\ n + 1 - (n - (i - 1)) = i /\ (n - (i - 1)) - 1 = n - i
      BY <1>1
    <3>2. r[i - 1] = q[n - (i - 1)] /\ r[i] = q[n - i]
      BY <3>1
    <3>3. q[n - (i - 1)] = s[n + 1 - (n - (i - 1))] \o q[(n - (i - 1)) - 1]
      BY <1>5, <3>1
    <3> HIDE DEF r
    <3> QED BY <3>1, <3>2, <3>3
  <2> QED BY <2>2, <2>3, <2>4
<1> HIDE DEF r
<1>8. h[n] = r[0]
  <2> DEFINE U == {i \in 0 .. n : h[i] \o r[i] = r[0]}
  <2>1. 0 \in U
    <3>1. 0 \in 0 .. n /\ r[0] \in Seq(T)
      BY <1>1, <1>7
    <3> QED BY <1>6, <3>1, ConcatEmptySeq
  <2>2. ASSUME NEW i \in 0 .. n - 1, i \in U PROVE i + 1 \in U
    <3>1. /\ i \in 0 .. n /\ i + 1 \in 0 .. n /\ i + 1 \in 1 .. n /\ (i + 1) - 1 = i
      BY <1>1
    <3>2. h[i + 1] = h[i] \o s[i + 1] /\ r[i] = s[i + 1] \o r[i + 1]
      BY <1>6, <1>7, <3>1
    <3>3. h[i] \in Seq(T) /\ s[i + 1] \in Seq(T) /\ r[i + 1] \in Seq(T)
      BY <1>1, <1>6, <1>7, <3>1
    <3>4. (h[i] \o s[i + 1]) \o r[i + 1] = h[i] \o (s[i + 1] \o r[i + 1])
      <4>1. \A x, y, z \in Seq(T) : (x \o y) \o z = x \o (y \o z)
        BY Regroup
      <4> QED BY <3>3, <4>1, Zenon
    <3> QED BY <2>2, <3>1, <3>2, <3>4
  <2>3. n \in U
    <3>1. n \in 0 .. n
      BY <1>1
    <3> HIDE DEF U
    <3> QED BY <1>1, <2>1, <2>2, <3>1, Induction
  <2>4. h[n] \in Seq(T)
    BY <1>1, <1>6
  <2> QED BY <1>7, <2>3, <2>4, ConcatEmptySeq
<1>9. h[n] = FlattenSeq(s)
  <2>1. CASE n = 0
    <3>1. s = <<>>
      BY <2>1 DEF n
    <3> QED BY <1>6, <2>1, <3>1 DEF FlattenSeq, n
  <2>2. CASE n # 0
    <3> DEFINE Is(g) == g = [i \in 1 .. n |-> IF i = 1 THEN s[i] ELSE g[i - 1] \o s[i]]
               g0 == [i \in 1 .. n |-> h[i]]
    <3>1. Is(g0)
      <4>1. ASSUME NEW i \in 1 .. n PROVE g0[i] = IF i = 1 THEN s[i] ELSE g0[i - 1] \o s[i]
        <5>1. h[i] = h[i - 1] \o s[i] /\ g0[i] = h[i] /\ s[i] \in Seq(T)
          BY <1>1, <1>6
        <5>2. CASE i = 1
          <6>1. h[i - 1] = <<>>
            BY <1>6, <5>2
          <6> QED BY <5>1, <5>2, <6>1, ConcatEmptySeq
        <5>3. CASE i # 1
          <6>1. i - 1 \in 1 .. n
            BY <1>1, <5>3
          <6> QED BY <5>1, <5>3, <6>1
        <5> QED BY <5>2, <5>3
      <4>2. g0 = [i \in 1 .. n |-> g0[i]]
        OBVIOUS
      <4> HIDE DEF g0
      <4> QED BY <4>1, <4>2
    <3> DEFINE g1 == CHOOSE g : Is(g)
    <3>2. Is(g1)
      <4> HIDE DEF Is
      <4> QED BY <3>1
    <3>3. FlattenSeq(s) = g1[n]
      BY <2>2 DEF FlattenSeq, n
    <3> HIDE DEF g1
    <3>4. /\ g1[1] = s[1]
          /\ \A i \in 1 .. n : i # 1 => g1[i] = g1[i - 1] \o s[i]
      <4>1. 1 \in 1 .. n
        BY <1>1, <2>2
      <4> DEFINE b == g1
      <4>2. g1 = [i \in 1 .. n |-> IF i = 1 THEN s[i] ELSE b[i - 1] \o s[i]]
        BY <3>2
      <4> HIDE DEF b
      <4>3. \A i \in 1 .. n : g1[i] = IF i = 1 THEN s[i] ELSE b[i - 1] \o s[i]
        BY <4>2
      <4> QED BY <4>1, <4>3 DEF b
    <3> HIDE DEF Is
    <3> DEFINE U == {i \in 0 .. n : i # 0 => g1[i] = h[i]}
    <3>5. 0 \in U
      BY <1>1
    <3>6. ASSUME NEW i \in 0 .. n - 1, i \in U PROVE i + 1 \in U
      <4>1. i + 1 \in 1 .. n /\ (i + 1) - 1 = i /\ i + 1 \in 0 .. n /\ (i = 0 <=> i + 1 = 1)
        BY <1>1
      <4>2. CASE i = 0
        <5>1. h[1] = h[0] \o s[1] /\ s[1] \in Seq(T)
          BY <1>1, <1>6, <4>1, <4>2
        <5>2. h[1] = s[1]
          BY <1>6, <5>1, ConcatEmptySeq
        <5> QED BY <3>4, <4>1, <4>2, <5>2
      <4>3. CASE i # 0
        BY <1>6, <3>4, <3>6, <4>1, <4>3
      <4> QED BY <4>2, <4>3
    <3>7. n \in U
      <4>1. n \in 0 .. n
        BY <1>1
      <4> HIDE DEF U
      <4> QED BY <1>1, <3>5, <3>6, <4>1, Induction
    <3> QED BY <2>2, <3>3, <3>7
  <2> QED BY <2>1, <2>2
<1>10. Follows(s, T, r)
  BY <1>7, <1>8, <1>9 DEF Follows, n
<1> QED BY <1>10

(* Together they are a sequence. *)
LEMMA FlattenedIs ==
    ASSUME NEW T, NEW s \in Seq(Seq(T))
    PROVE  FlattenSeq(s) \in Seq(T)
<1>1. PICK r : Follows(s, T, r)
  BY SomethingFollows
<1>2. Len(s) \in Nat
  OBVIOUS
<1>3. 0 \in 0 .. Len(s)
  BY <1>2
<1> QED BY <1>1, <1>3 DEF Follows

(* What follows a sequence of sequences is added to what they are together. *)
LEMMA FlattenAppend ==
    ASSUME NEW T, NEW s \in Seq(Seq(T)), NEW e \in Seq(T)
    PROVE  FlattenSeq(Append(s, e)) = FlattenSeq(s) \o e
<1> DEFINE n == Len(s)
           t == Append(s, e)
<1>1. /\ t \in Seq(Seq(T)) /\ Len(t) = n + 1 /\ t[n + 1] = e /\ n \in Nat
      /\ \A i \in 1 .. n : t[i] = s[i] /\ s[i] \in Seq(T)
  OBVIOUS
<1>2. PICK q : Follows(s, T, q)
  BY SomethingFollows
<1>3. PICK r : Follows(t, T, r)
  <2> HIDE DEF t
  <2> QED BY <1>1, SomethingFollows
<1>4. /\ q \in [0 .. n -> Seq(T)] /\ q[0] = FlattenSeq(s) /\ q[n] = <<>>
      /\ \A i \in 1 .. n : q[i - 1] = s[i] \o q[i]
  BY <1>2 DEF Follows
<1>5. /\ r \in [0 .. n + 1 -> Seq(T)] /\ r[0] = FlattenSeq(t) /\ r[n + 1] = <<>>
      /\ \A i \in 1 .. n + 1 : r[i - 1] = t[i] \o r[i]
  BY <1>1, <1>3 DEF Follows
<1> HIDE DEF n, t
<1> DEFINE U == {i \in 0 .. n : r[n - i] = q[n - i] \o e}
<1>6. 0 \in U
  <2>1. n + 1 \in 1 .. n + 1 /\ (n + 1) - 1 = n /\ n - 0 = n
    BY <1>1
  <2>2. r[n] = e \o <<>>
    <3>1. r[(n + 1) - 1] = t[n + 1] \o r[n + 1]
      BY <1>5, <2>1
    <3> QED BY <1>1, <1>5, <2>1, <3>1
  <2>3. e \o <<>> = e /\ <<>> \o e = e
    BY ConcatEmptySeq
  <2>4. r[n - 0] = q[n - 0] \o e
    BY <1>4, <2>1, <2>2, <2>3
  <2>5. 0 \in 0 .. n
    BY <1>1
  <2> QED BY <2>4, <2>5
<1>7. ASSUME NEW i \in 0 .. n - 1, i \in U PROVE i + 1 \in U
  <2>1. /\ n - i \in 1 .. n /\ n - i \in 1 .. n + 1 /\ n - i \in 0 .. n /\ i + 1 \in 0 .. n
        /\ (n - i) - 1 = n - (i + 1)
    BY <1>1
  <2>2. /\ r[n - (i + 1)] = s[n - i] \o r[n - i] /\ q[n - (i + 1)] = s[n - i] \o q[n - i]
        /\ s[n - i] \in Seq(T) /\ q[n - i] \in Seq(T)
    BY <1>1, <1>4, <1>5, <2>1
  <2>3. r[n - i] = q[n - i] \o e
    BY <1>7
  <2>4. (s[n - i] \o q[n - i]) \o e = s[n - i] \o (q[n - i] \o e)
    <3> HIDE DEF U
    <3>1. \A x, y, z \in Seq(T) : (x \o y) \o z = x \o (y \o z)
      BY Regroup
    <3> QED BY <2>2, <3>1, Zenon
  <2> QED BY <2>1, <2>2, <2>3, <2>4
<1>8. n \in U
  <2>1. n \in 0 .. n
    BY <1>1
  <2> HIDE DEF U
  <2> QED BY <1>1, <1>6, <1>7, <2>1, Induction
<1>9. r[0] = q[0] \o e
  <2>1. n - n = 0
    BY <1>1
  <2> QED BY <1>8, <2>1
<1> QED BY <1>4, <1>5, <1>9 DEF t

(* What the last sequence of a sequence of sequences adds to the others. *)
LEMMA FlattenLast ==
    ASSUME NEW T, NEW s \in Seq(Seq(T)), s # <<>>
    PROVE  /\ Front(s) \in Seq(Seq(T)) /\ Len(Front(s)) = Len(s) - 1
           /\ \A i \in 1 .. Len(s) - 1 : Front(s)[i] = s[i]
           /\ FlattenSeq(s) = FlattenSeq(Front(s)) \o s[Len(s)]
<1> DEFINE n == Len(s)
           f == Front(s)
<1>1. n \in Nat /\ n >= 1 /\ s[n] \in Seq(T)
  OBVIOUS
<1>2. f \in Seq(Seq(T)) /\ Len(f) = n - 1 /\ \A i \in 1 .. n - 1 : f[i] = s[i]
  <2>1. 1 \in Int /\ n - 1 \in Int /\ \A i \in 1 .. n - 1 : s[i] \in Seq(T)
    BY <1>1
  <2>2. f = SubSeq(s, 1, n - 1)
    BY DEF Front
  <2> DEFINE m == n - 1
  <2>3. /\ SubSeq(s, 1, m) \in Seq(Seq(T))
        /\ Len(SubSeq(s, 1, m)) = IF 1 =< m THEN m - 1 + 1 ELSE 0
        /\ \A i \in 1 .. m - 1 + 1 : SubSeq(s, 1, m)[i] = s[1 + i - 1]
    <3> HIDE DEF m
    <3> QED BY <2>1, SubSeqProperties DEF m
  <2>4. m \in Nat /\ m - 1 + 1 = m /\ \A i \in 1 .. m : 1 + i - 1 = i
    BY <1>1
  <2> HIDE DEF f
  <2> QED BY <2>2, <2>3, <2>4
<1>3. s = Append(f, s[n])
  <2> DEFINE e == s[n]
             a == Append(f, e)
  <2>1. e \in Seq(T)
    BY <1>1
  <2> HIDE DEF f, e
  <2>2. a \in Seq(Seq(T)) /\ Len(a) = n /\ a[n] = e /\ \A i \in 1 .. n - 1 : a[i] = f[i]
    BY <1>1, <1>2, <2>1
  <2> HIDE DEF a
  <2>3. \A i \in 1 .. n : i = n \/ i \in 1 .. n - 1
    BY <1>1
  <2>4. \A i \in 1 .. n : a[i] = s[i]
    BY <1>2, <2>2, <2>3 DEF e
  <2>5. a = s
    BY <2>2, <2>4, SeqEqual
  <2> QED BY <2>5 DEF a, e
<1>4. FlattenSeq(Append(f, s[n])) = FlattenSeq(f) \o s[n]
  <2> HIDE DEF f
  <2> QED BY <1>1, <1>2, FlattenAppend
<1> QED BY <1>2, <1>3, <1>4

(* When the last of them grows, so do they together. *)
LEMMA FlattenGrows ==
    ASSUME NEW T, NEW s \in Seq(Seq(T)), NEW t \in Seq(Seq(T)), s # <<>>, Len(t) = Len(s),
           \A i \in 1 .. Len(s) - 1 : t[i] = s[i],
           NEW w \in Seq(T), t[Len(s)] = s[Len(s)] \o w
    PROVE  FlattenSeq(t) = FlattenSeq(s) \o w
<1> DEFINE n == Len(s)
           f == FlattenSeq(Front(s))
           l == s[n]
<1>1. n \in Nat /\ n >= 1 /\ t # <<>> /\ l \in Seq(T)
  OBVIOUS
<1>2. /\ Front(s) \in Seq(Seq(T)) /\ Len(Front(s)) = n - 1
      /\ Front(t) \in Seq(Seq(T)) /\ Len(Front(t)) = n - 1
      /\ \A i \in 1 .. n - 1 : Front(s)[i] = s[i] /\ Front(t)[i] = t[i]
      /\ FlattenSeq(s) = f \o l
      /\ FlattenSeq(t) = FlattenSeq(Front(t)) \o t[n]
  BY <1>1, FlattenLast
<1>3. Front(t) = Front(s)
  <2> DEFINE a == Front(t)
             b == Front(s)
  <2>1. /\ a \in Seq(Seq(T)) /\ b \in Seq(Seq(T)) /\ Len(a) = Len(b)
        /\ \A i \in 1 .. Len(a) : a[i] = b[i]
    BY <1>2
  <2> HIDE DEF a, b
  <2>2. a = b
    BY <2>1, SeqEqual
  <2> QED BY <2>2 DEF a, b
<1>4. f \in Seq(T)
  BY <1>2, FlattenedIs
<1>5. FlattenSeq(t) = f \o (l \o w)
  BY <1>2, <1>3
<1> HIDE DEF f, l
<1>6. f \o (l \o w) = (f \o l) \o w
  <2>1. f \in Seq(T) /\ l \in Seq(T) /\ w \in Seq(T)
    BY <1>1, <1>4
  <2> QED BY ONLY <2>1, ConcatAssociative
<1> QED BY <1>2, <1>5, <1>6

(* When the last of them goes into the one before it, and more, no more is  *)
(* added.                                                                   *)
LEMMA FlattenFolds ==
    ASSUME NEW T, NEW s \in Seq(Seq(T)), NEW t \in Seq(Seq(T)),
           Len(s) > 1, Len(t) = Len(s) - 1,
           \A i \in 1 .. Len(s) - 2 : t[i] = s[i],
           NEW w \in Seq(T), t[Len(s) - 1] = s[Len(s) - 1] \o (s[Len(s)] \o w)
    PROVE  FlattenSeq(t) = FlattenSeq(s) \o w
<1> DEFINE n == Len(s)
           u == Front(s)
           f == FlattenSeq(u)
           l == s[n]
<1>1. n \in Nat /\ n >= 2 /\ s # <<>> /\ l \in Seq(T) /\ l \o w \in Seq(T)
  OBVIOUS
<1>2. /\ u \in Seq(Seq(T)) /\ Len(u) = n - 1 /\ \A i \in 1 .. n - 1 : u[i] = s[i]
      /\ FlattenSeq(s) = f \o l
  BY <1>1, FlattenLast
<1>3. f \in Seq(T)
  BY <1>2, FlattenedIs
<1>4. FlattenSeq(t) = f \o (l \o w)
  <2> DEFINE v == l \o w
  <2>1. /\ u # <<>> /\ Len(t) = Len(u) /\ \A i \in 1 .. Len(u) - 1 : t[i] = u[i]
        /\ v \in Seq(T) /\ t[Len(u)] = u[Len(u)] \o v
    <3>1. n - 1 \in 1 .. n - 1 /\ (n - 1) - 1 = n - 2
      BY <1>1
    <3>2. u # <<>> /\ Len(t) = Len(u)
      BY <1>1, <1>2
    <3>3. \A i \in 1 .. n - 2 : i \in 1 .. n - 1
      BY <1>1
    <3> HIDE DEF u
    <3> QED BY <1>1, <1>2, <3>1, <3>2, <3>3
  <2> HIDE DEF u, v
  <2>2. FlattenSeq(t) = FlattenSeq(u) \o v
    BY <1>2, <2>1, FlattenGrows
  <2> QED BY <2>2 DEF v
<1> HIDE DEF f, l
<1>5. f \o (l \o w) = (f \o l) \o w
  <2>1. f \in Seq(T) /\ l \in Seq(T) /\ w \in Seq(T)
    BY <1>1, <1>3
  <2> QED BY ONLY <2>1, ConcatAssociative
<1> QED BY <1>2, <1>4, <1>5
=============================================================================
