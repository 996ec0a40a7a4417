------------------------ MODULE SequenceFilterProofs ------------------------
(***************************************************************************)
(* Induction over numbers and sequences, in a form without operator         *)
(* parameters that the provers can use, and what it gives about Kept. The   *)
(* predicate of an induction is a set here: it has 0 and with each number   *)
(* the next one, because a least number outside it would have a predecessor.*)
(***************************************************************************)
EXTENDS SequenceFilters, Integers, SequenceTheorems, WellFoundedInduction, TLAPS

(* A set of numbers that is not empty has a least one. *)
LEMMA LeastNumber ==
    ASSUME NEW T, T \subseteq Nat, T # {}
    PROVE  \E x \in T : \A y \in T : x <= y
<1> DEFINE R == OpToRel(<, Nat)
<1>1. IsWellFoundedOn(R, Nat)
  BY NatLessThanWellFounded
<1>2. \A x, y \in Nat : y < x => <<y, x>> \in R
  BY DEF OpToRel
<1> HIDE DEF R
<1>3. PICK x \in T : \A y \in T : ~(<<y, x>> \in R)
  BY <1>1, WFMin
<1>4. \A y \in T : ~(y < x)
  BY <1>2, <1>3
<1>5. x \in Nat /\ \A y \in T : y \in Nat
  OBVIOUS
<1>6. \A y \in T : x <= y
  BY <1>4, <1>5
<1> QED BY <1>6

(* A set of numbers that has 0 and with each number its successor. *)
LEMMA AllNumbers ==
    ASSUME NEW T, 0 \in T, \A n \in T : n \in Nat => n + 1 \in T
    PROVE  Nat \subseteq T
<1> SUFFICES ASSUME Nat \ T # {}  PROVE FALSE
  OBVIOUS
<1>1. PICK x \in Nat \ T : \A y \in Nat \ T : x <= y
  BY LeastNumber
<1>2. x # 0 /\ x \in Nat
  OBVIOUS
<1>3. x - 1 \in Nat /\ x - 1 \in T
  BY <1>1, <1>2
<1>4. (x - 1) + 1 = x
  BY <1>2
<1>5. x \in T
  BY <1>3, <1>4
<1> QED BY <1>5

-----------------------------------------------------------------------------
(* What Kept computes for the first m elements. *)
KeptOf(s, S, m, f) ==
  f = [n \in 0..m |-> IF n = 0 THEN <<>> ELSE IF s[n] \in S THEN Append(f[n - 1], s[n]) ELSE f[n - 1]]

(* There is such a computation. *)
LEMMA KeptExists ==
    ASSUME NEW T, NEW s \in Seq(T), NEW S
    PROVE  \A m \in Nat : \E f : KeptOf(s, S, m, f)
<1> DEFINE G == {m \in Nat : \E f : KeptOf(s, S, m, f)}
<1>1. 0 \in G
  <2> DEFINE f == [n \in 0..0 |-> <<>>]
  <2>1. KeptOf(s, S, 0, f)
    BY DEF KeptOf
  <2> QED BY <2>1
<1>2. ASSUME NEW m \in Nat, m \in G  PROVE m + 1 \in G
  <2>1. PICK f : KeptOf(s, S, m, f)
    BY <1>2
  <2> DEFINE g == [n \in 0..(m + 1) |-> IF n <= m THEN f[n]
                      ELSE IF s[n] \in S THEN Append(f[n - 1], s[n]) ELSE f[n - 1]]
  <2>2. KeptOf(s, S, m + 1, g)
    <3>1. \A n \in 0..m : f[n] = IF n = 0 THEN <<>> ELSE IF s[n] \in S THEN Append(f[n - 1], s[n]) ELSE f[n - 1]
      BY <2>1 DEF KeptOf
    <3>2. \A n \in 0..(m + 1) : g[n] = IF n = 0 THEN <<>> ELSE IF s[n] \in S THEN Append(g[n - 1], s[n]) ELSE g[n - 1]
      <4>1. \A n \in 0..m : g[n] = f[n]
        OBVIOUS
      <4> HIDE DEF g
      <4> TAKE n \in 0..(m + 1)
      <4>2. CASE n \in 0..m
        <5>1. n # 0 => n - 1 \in 0..m
          BY <4>2
        <5> QED BY <3>1, <4>1, <4>2, <5>1
      <4>3. CASE n = m + 1
        <5>1. g[n] = IF s[n] \in S THEN Append(f[n - 1], s[n]) ELSE f[n - 1]
          BY <4>3 DEF g
        <5>2. n - 1 \in 0..m /\ n # 0
          BY <4>3
        <5> QED BY <4>1, <5>1, <5>2
      <4> QED BY <4>2, <4>3
    <3>3. g = [n \in 0..(m + 1) |-> g[n]]
      OBVIOUS
    <3> HIDE DEF g
    <3> QED BY <3>2, <3>3 DEF KeptOf
  <2> HIDE DEF g
  <2> QED BY <2>2
<1> HIDE DEF G
<1>3. Nat \subseteq G
  BY <1>1, <1>2, AllNumbers
<1> QED BY <1>3 DEF G

(* Kept is what the computation over the whole sequence ends with. *)
LEMMA KeptIs ==
    ASSUME NEW T, NEW s \in Seq(T), NEW S
    PROVE  \E f : KeptOf(s, S, Len(s), f) /\ Kept(s, S) = f[Len(s)]
<1> DEFINE f == CHOOSE f : KeptOf(s, S, Len(s), f)
<1>1. KeptOf(s, S, Len(s), f)
  BY KeptExists
<1>2. Kept(s, S) = f[Len(s)]
  BY DEF Kept, KeptOf
<1> QED BY <1>1, <1>2

(* A set of sequences that has the empty one and with each its extensions. *)
LEMMA AllSequences ==
    ASSUME NEW T, NEW G, <<>> \in G,
           \A s \in Seq(T), x \in T : s \in G => Append(s, x) \in G
    PROVE  Seq(T) \subseteq G
<1> DEFINE N == {n \in Nat : \A s \in Seq(T) : Len(s) = n => s \in G}
<1>1. 0 \in N
  BY EmptySeq
<1>2. ASSUME NEW n \in Nat, n \in N  PROVE n + 1 \in N
  <2> SUFFICES ASSUME NEW s \in Seq(T), Len(s) = n + 1  PROVE s \in G
    OBVIOUS
  <2> DEFINE f == SubSeq(s, 1, n)
  <2>1. f \in Seq(T) /\ Len(f) = n /\ s[n + 1] \in T /\ s = Append(f, s[n + 1])
    OBVIOUS
  <2> HIDE DEF f
  <2>2. f \in G
    BY <1>2, <2>1
  <2> QED BY <2>1, <2>2
<1> HIDE DEF N
<1>3. Nat \subseteq N
  BY <1>1, <1>2, AllNumbers
<1> QED BY <1>3 DEF N

(* Two computations agree as far as what they read does. *)
LEMMA KeptAgree ==
    ASSUME NEW s, NEW t, NEW S, NEW R, NEW m \in Nat, NEW k \in Nat, NEW f, NEW g,
           m <= k, KeptOf(s, S, m, f), KeptOf(t, R, k, g),
           \A n \in 1..m : s[n] = t[n] /\ (s[n] \in S <=> t[n] \in R)
    PROVE  f[m] = g[m]
<1> DEFINE N == {n \in Nat : n <= m => f[n] = g[n]}
<1>1. /\ \A n \in 0..m : f[n] = IF n = 0 THEN <<>> ELSE IF s[n] \in S THEN Append(f[n - 1], s[n]) ELSE f[n - 1]
      /\ \A n \in 0..k : g[n] = IF n = 0 THEN <<>> ELSE IF t[n] \in R THEN Append(g[n - 1], t[n]) ELSE g[n - 1]
  BY DEF KeptOf
<1>2. 0 \in N
  BY <1>1
<1>3. ASSUME NEW n \in Nat, n \in N  PROVE n + 1 \in N
  <2> SUFFICES ASSUME n + 1 <= m  PROVE f[n + 1] = g[n + 1]
    OBVIOUS
  <2>1. f[n] = g[n]
    BY <1>3
  <2>2. n + 1 \in 0..m /\ n + 1 \in 0..k /\ n + 1 # 0 /\ (n + 1) - 1 = n /\ n + 1 \in 1..m
    OBVIOUS
  <2> QED BY <1>1, <2>1, <2>2
<1> HIDE DEF N
<1>4. Nat \subseteq N
  BY <1>2, <1>3, AllNumbers
<1> QED BY <1>4 DEF N

(* Sets that agree on the elements keep the same of them. *)
LEMMA KeptSame ==
    ASSUME NEW T, NEW s \in Seq(T), NEW S, NEW R, \A n \in 1..Len(s) : s[n] \in S <=> s[n] \in R
    PROVE  Kept(s, S) = Kept(s, R)
<1>1. PICK f : KeptOf(s, S, Len(s), f) /\ Kept(s, S) = f[Len(s)]
  BY KeptIs
<1>2. PICK g : KeptOf(s, R, Len(s), g) /\ Kept(s, R) = g[Len(s)]
  BY KeptIs
<1>3. Len(s) \in Nat /\ Len(s) <= Len(s)
  OBVIOUS
<1> QED BY <1>1, <1>2, <1>3, KeptAgree

LEMMA KeptNothing ==
    ASSUME NEW S
    PROVE  Kept(<<>>, S) = <<>>
<1>1. <<>> \in Seq({}) /\ Len(<<>>) = 0
  OBVIOUS
<1>2. PICK f : KeptOf(<<>>, S, Len(<<>>), f) /\ Kept(<<>>, S) = f[Len(<<>>)]
  BY <1>1, KeptIs
<1>3. f[0] = <<>>
  BY <1>1, <1>2 DEF KeptOf
<1> QED BY <1>1, <1>2, <1>3

LEMMA KeptAppend ==
    ASSUME NEW T, NEW s \in Seq(T), NEW x \in T, NEW S
    PROVE  Kept(Append(s, x), S) = IF x \in S THEN Append(Kept(s, S), x) ELSE Kept(s, S)
<1>1. PICK m \in Nat : m = Len(s)
  OBVIOUS
<1>2. PICK t \in Seq(T) : t = Append(s, x)
  <2>1. Append(s, x) \in Seq(T)
    OBVIOUS
  <2> QED BY <2>1, Zenon
<1>3. Len(t) = m + 1 /\ t[m + 1] = x /\ \A n \in 1..m : t[n] = s[n]
  BY <1>1, <1>2
<1>4. PICK f : KeptOf(s, S, m, f) /\ Kept(s, S) = f[m]
  BY <1>1, KeptIs
<1>5. PICK g : KeptOf(t, S, m + 1, g) /\ Kept(t, S) = g[m + 1]
  BY <1>3, KeptIs
<1>6. f[m] = g[m]
  <2>0. PICK k \in Nat : k = m + 1
    OBVIOUS
  <2>1. m <= k /\ \A n \in 1..m : s[n] = t[n] /\ (s[n] \in S <=> t[n] \in S)
    BY <1>3, <2>0
  <2>2. KeptOf(s, S, m, f) /\ KeptOf(t, S, k, g)
    BY <1>4, <1>5, <2>0
  <2> QED BY <2>1, <2>2, KeptAgree
<1>7. g[m + 1] = IF x \in S THEN Append(g[m], x) ELSE g[m]
  <2>1. m + 1 \in 0..(m + 1) /\ m + 1 # 0 /\ (m + 1) - 1 = m
    OBVIOUS
  <2> QED BY <1>3, <1>5, <2>1 DEF KeptOf
<1>8. Kept(t, S) = IF x \in S THEN Append(Kept(s, S), x) ELSE Kept(s, S)
  BY <1>4, <1>5, <1>6, <1>7, Zenon
<1> QED BY <1>2, <1>8, Zenon

LEMMA KeptType ==
    ASSUME NEW T, NEW s \in Seq(T), NEW S
    PROVE  Kept(s, S) \in Seq(T)
<1> DEFINE G == {q \in Seq(T) : Kept(q, S) \in Seq(T)}
<1>1. <<>> \in G
  <2>1. Kept(<<>>, S) \in Seq(T)
    <3>1. Kept(<<>>, S) = <<>> /\ <<>> \in Seq(T)
      BY KeptNothing
    <3> QED BY <3>1, Zenon
  <2> QED BY <2>1
<1>2. ASSUME NEW q \in Seq(T), NEW x \in T, q \in G  PROVE Append(q, x) \in G
  <2>1. Append(q, x) \in Seq(T) /\ Append(Kept(q, S), x) \in Seq(T)
    BY <1>2
  <2>2. Kept(Append(q, x), S) = Append(Kept(q, S), x) \/ Kept(Append(q, x), S) = Kept(q, S)
    BY KeptAppend, Zenon
  <2>3. Kept(Append(q, x), S) \in Seq(T)
    BY <1>2, <2>1, <2>2, Zenon
  <2> QED BY <2>1, <2>3
<1> HIDE DEF G
<1>3. Seq(T) \subseteq G
  BY <1>1, <1>2, AllSequences
<1> QED BY <1>3 DEF G

(* Filtering twice is filtering by both sets. *)
LEMMA KeptTwice ==
    ASSUME NEW T, NEW s \in Seq(T), NEW S, NEW R
    PROVE  Kept(Kept(s, S), R) = Kept(s, S \cap R)
<1> DEFINE G == {q \in Seq(T) : Kept(Kept(q, S), R) = Kept(q, S \cap R)}
<1>1. <<>> \in G
  BY KeptNothing
<1>2. ASSUME NEW q \in Seq(T), NEW x \in T, q \in G  PROVE Append(q, x) \in G
  <2>1. Kept(q, S) \in Seq(T) /\ Append(q, x) \in Seq(T)
    BY KeptType
  <2>2. Kept(Kept(q, S), R) = Kept(q, S \cap R)
    BY <1>2
  <2>3. Kept(Append(q, x), S) = IF x \in S THEN Append(Kept(q, S), x) ELSE Kept(q, S)
    BY KeptAppend
  <2>4. Kept(Append(Kept(q, S), x), R) = IF x \in R THEN Append(Kept(Kept(q, S), R), x) ELSE Kept(Kept(q, S), R)
    BY <2>1, KeptAppend
  <2>5. Kept(Append(q, x), S \cap R) = IF x \in S \cap R THEN Append(Kept(q, S \cap R), x) ELSE Kept(q, S \cap R)
    BY KeptAppend
  <2>6. Kept(Kept(Append(q, x), S), R) = Kept(Append(q, x), S \cap R)
    <3>1. CASE x \in S
      <4>1. Kept(Append(q, x), S) = Append(Kept(q, S), x) /\ (x \in S \cap R <=> x \in R)
        BY <2>3, <3>1, Zenon
      <4> QED BY <2>2, <2>4, <2>5, <4>1, Zenon
    <3>2. CASE x \notin S
      <4>1. Kept(Append(q, x), S) = Kept(q, S) /\ x \notin S \cap R
        BY <2>3, <3>2, Zenon
      <4> QED BY <2>2, <2>5, <4>1, Zenon
    <3> QED BY <3>1, <3>2
  <2> QED BY <2>1, <2>6
<1> HIDE DEF G
<1>3. Seq(T) \subseteq G
  BY <1>1, <1>2, AllSequences
<1> QED BY <1>3 DEF G

(* What is kept was there. *)
LEMMA KeptMembers ==
    ASSUME NEW T, NEW s \in Seq(T), NEW S, NEW n \in 1..Len(Kept(s, S))
    PROVE  \E m \in 1..Len(s) : s[m] = Kept(s, S)[n]
<1> DEFINE G == {q \in Seq(T) : \A k \in 1..Len(Kept(q, S)) : \E m \in 1..Len(q) : q[m] = Kept(q, S)[k]}
<1>1. <<>> \in G
  BY KeptNothing
<1>2. ASSUME NEW q \in Seq(T), NEW x \in T, q \in G  PROVE Append(q, x) \in G
  <2>1. Kept(q, S) \in Seq(T) /\ Append(q, x) \in Seq(T) /\ Len(Append(q, x)) = Len(q) + 1
        /\ (\A m \in 1..Len(q) : Append(q, x)[m] = q[m]) /\ Append(q, x)[Len(q) + 1] = x
    BY KeptType
  <2> SUFFICES ASSUME NEW k \in 1..Len(Kept(Append(q, x), S))
               PROVE  \E m \in 1..(Len(q) + 1) : Append(q, x)[m] = Kept(Append(q, x), S)[k]
    BY <2>1
  <2>2. CASE k \in 1..Len(Kept(q, S)) /\ Kept(Append(q, x), S)[k] = Kept(q, S)[k]
    BY <1>2, <2>1, <2>2
  <2>3. CASE Kept(Append(q, x), S)[k] = x
    BY <2>1, <2>3
  <2>4. \/ k \in 1..Len(Kept(q, S)) /\ Kept(Append(q, x), S)[k] = Kept(q, S)[k]
        \/ Kept(Append(q, x), S)[k] = x
    <3>1. CASE Kept(Append(q, x), S) = Kept(q, S)
      BY <3>1, Zenon
    <3>2. CASE Kept(Append(q, x), S) = Append(Kept(q, S), x)
      <4>1. \A j \in 1..Len(Append(Kept(q, S), x)) :
              \/ j \in 1..Len(Kept(q, S)) /\ Append(Kept(q, S), x)[j] = Kept(q, S)[j]
              \/ Append(Kept(q, S), x)[j] = x
        BY <2>1
      <4> QED BY <3>2, <4>1, Zenon
    <3>3. Kept(Append(q, x), S) = Kept(q, S) \/ Kept(Append(q, x), S) = Append(Kept(q, S), x)
      BY KeptAppend
    <3> QED BY <3>1, <3>2, <3>3
  <2> QED BY <2>2, <2>3, <2>4
<1> HIDE DEF G
<1>3. Seq(T) \subseteq G
  BY <1>1, <1>2, AllSequences
<1> QED BY <1>3 DEF G

(* A concatenation is filtered part by part. *)
LEMMA KeptConcat ==
    ASSUME NEW T, NEW s \in Seq(T), NEW t \in Seq(T), NEW S
    PROVE  Kept(s \o t, S) = Kept(s, S) \o Kept(t, S)
<1>0. Kept(s, S) \in Seq(T)
  BY KeptType
<1>5. ASSUME NEW u \in Seq(T), NEW v \in Seq(T), NEW x \in T
      PROVE  Append(u \o v, x) = u \o Append(v, x)
  <2>1. u \o v \in Seq(T) /\ <<x>> \in Seq(T)
    OBVIOUS
  <2>2. Append(u \o v, x) = (u \o v) \o <<x>> /\ Append(v, x) = v \o <<x>>
    BY <2>1, AppendIsConcat
  <2>3. (u \o v) \o <<x>> = u \o (v \o <<x>>)
    BY <2>1, ConcatAssociative
  <2> QED BY <2>2, <2>3, Zenon
<1>4. ASSUME NEW q \in Seq(T), NEW x \in T
      PROVE  Append(Kept(s, S) \o Kept(q, S), x) = Kept(s, S) \o Append(Kept(q, S), x)
  <2>1. Kept(q, S) \in Seq(T)
    BY KeptType
  <2> QED BY <1>0, <1>5, <2>1, Zenon
<1> DEFINE G == {q \in Seq(T) : Kept(s \o q, S) = Kept(s, S) \o Kept(q, S)}
<1>1. <<>> \in G
  <2>1. s \o <<>> = s /\ Kept(s, S) \o <<>> = Kept(s, S) /\ <<>> \in Seq(T)
    BY <1>0
  <2> QED BY <2>1, KeptNothing
<1>2. ASSUME NEW q \in Seq(T), NEW x \in T, q \in G  PROVE Append(q, x) \in G
  <2>1. s \o q \in Seq(T) /\ Append(q, x) \in Seq(T) /\ s \o Append(q, x) = Append(s \o q, x)
    OBVIOUS
  <2>2. Kept(s \o q, S) = Kept(s, S) \o Kept(q, S) /\ Kept(q, S) \in Seq(T)
    BY <1>2, KeptType
  <2>3. Append(Kept(s, S) \o Kept(q, S), x) = Kept(s, S) \o Append(Kept(q, S), x)
    BY <1>4
  <2>4. Kept(s \o Append(q, x), S) = IF x \in S THEN Append(Kept(s \o q, S), x) ELSE Kept(s \o q, S)
    BY <2>1, KeptAppend
  <2>5. Kept(Append(q, x), S) = IF x \in S THEN Append(Kept(q, S), x) ELSE Kept(q, S)
    BY KeptAppend
  <2>6. Kept(s \o Append(q, x), S) = Kept(s, S) \o Kept(Append(q, x), S)
    <3>1. CASE x \in S
      BY <2>2, <2>3, <2>4, <2>5, <3>1, Zenon
    <3>2. CASE x \notin S
      BY <2>2, <2>4, <2>5, <3>2, Zenon
    <3> QED BY <3>1, <3>2
  <2> QED BY <2>1, <2>6
<1> HIDE DEF G
<1>3. Seq(T) \subseteq G
  BY <1>1, <1>2, AllSequences
<1> QED BY <1>3 DEF G

(* A sequence over the set is kept whole, one over another set not at all. *)
LEMMA KeptWhole ==
    ASSUME NEW S, NEW s \in Seq(S)
    PROVE  Kept(s, S) = s
<1> DEFINE G == {q \in Seq(S) : Kept(q, S) = q}
<1>1. <<>> \in G
  BY KeptNothing
<1>2. ASSUME NEW q \in Seq(S), NEW x \in S, q \in G  PROVE Append(q, x) \in G
  <2>1. Kept(Append(q, x), S) = Append(Kept(q, S), x)
    BY KeptAppend
  <2> QED BY <1>2, <2>1
<1> HIDE DEF G
<1>3. Seq(S) \subseteq G
  BY <1>1, <1>2, AllSequences
<1> QED BY <1>3 DEF G

LEMMA KeptNone ==
    ASSUME NEW R, NEW s \in Seq(R), NEW S, R \cap S = {}
    PROVE  Kept(s, S) = <<>>
<1> DEFINE G == {q \in Seq(R) : Kept(q, S) = <<>>}
<1>1. <<>> \in G
  BY KeptNothing
<1>2. ASSUME NEW q \in Seq(R), NEW x \in R, q \in G  PROVE Append(q, x) \in G
  <2>1. Kept(Append(q, x), S) = Kept(q, S)
    <3>1. x \notin S
      OBVIOUS
    <3> QED BY <3>1, KeptAppend, Zenon
  <2>2. Append(q, x) \in Seq(R)
    OBVIOUS
  <2> QED BY <1>2, <2>1, <2>2
<1> HIDE DEF G
<1>3. Seq(R) \subseteq G
  BY <1>1, <1>2, AllSequences
<1> QED BY <1>3 DEF G
=============================================================================
