----------------------------- MODULE DataLemmas -----------------------------
(***************************************************************************)
(* Facts about sequences and sets of any size that the proofs about OcrRx  *)
(* need: what FlattenSeq of the community modules does to a sequence of    *)
(* words, the largest number of a set, the k-th one.  The induction each   *)
(* of them needs is made with a least element in a set of numbers, mostly  *)
(* of the counterexamples.                                                 *)
(***************************************************************************)
EXTENDS Naturals, Sequences, SequencesExt, FiniteSetsExt, SequenceTheorems,
        FiniteSetTheorems, WellFoundedInduction, TLAPS

Below == {p \in Nat \X Nat : p[1] < p[2]}

LEMMA BelowWellFounded == IsWellFoundedOn(Below, Nat)
BY NatLessThanWellFounded DEF OpToRel, Below

\* Every set of numbers that is not empty has a least one.
LEMMA LeastNumber ==
  ASSUME NEW T, T \subseteq Nat, T # {}
  PROVE  \E n \in T : \A m \in T : n <= m
<1>1. PICK n \in T : \A m \in T : ~(<<m, n>> \in Below)
  BY BelowWellFounded, WFMin
<1>2. ASSUME NEW m \in T
      PROVE  n <= m
  <2>1. ~(m < n)
    BY <1>1 DEF Below
  <2>2. m \in Nat /\ n \in Nat
    OBVIOUS
  <2>3. QED
    BY <2>1, <2>2
<1>3. QED
  BY <1>2

-----------------------------------------------------------------------------
(* FlattenSeq. *)

\* The concatenations of the first, the first two... of the words.
Flattens(f, s) == f = [i \in 1 .. Len(s) |-> IF i = 1 THEN s[i] ELSE f[i - 1] \o s[i]]

LEMMA FlattensAt ==
  ASSUME NEW s, NEW f, Len(s) \in Nat, Flattens(f, s)
  PROVE  /\ Len(s) > 0 => f[1] = s[1]
         /\ \A i \in 1 .. Len(s) : i > 1 => f[i] = f[i - 1] \o s[i]
<1>1. \A i \in 1 .. Len(s) : f[i] = IF i = 1 THEN s[i] ELSE f[i - 1] \o s[i]
  BY Zenon DEF Flattens
<1>2. Len(s) > 0 => 1 \in 1 .. Len(s)
  OBVIOUS
<1>3. \A i \in 1 .. Len(s) : i > 1 => i # 1
  OBVIOUS
<1>4. QED
  BY Zenon, <1>1, <1>2, <1>3

LEMMA FlattensExists ==
  ASSUME NEW S
  PROVE  \A s \in Seq(Seq(S)) : Len(s) > 0 => \E f : Flattens(f, s)
<1> DEFINE T == {n \in Nat : n > 0 /\ \E s \in Seq(Seq(S)) : Len(s) = n /\ \A f : ~Flattens(f, s)}
<1>1. SUFFICES ASSUME T # {} PROVE FALSE
  <2>1. SUFFICES ASSUME NEW s \in Seq(Seq(S)), Len(s) > 0, \A f : ~Flattens(f, s)
                 PROVE  T # {}
    BY <1>1
  <2>2. Len(s) \in T
    BY <2>1
  <2>3. QED
    BY <2>2
<1>2. PICK n \in T : \A m \in T : n <= m
  BY <1>1, LeastNumber
<1>3. n \in Nat /\ n > 0
  OBVIOUS
<1>4. PICK s \in Seq(Seq(S)) : Len(s) = n /\ \A f : ~Flattens(f, s)
  OBVIOUS
<1>5. CASE n = 1
  <2> DEFINE f == [i \in 1 .. Len(s) |-> s[i]]
  <2>1. Flattens(f, s)
    BY <1>4, <1>5 DEF Flattens
  <2>2. QED
    BY <1>4, <2>1
<1>6. CASE n > 1
  <2> DEFINE t == [i \in 1 .. n - 1 |-> s[i]]
  <2>1. t \in Seq(Seq(S)) /\ Len(t) = n - 1 /\ n - 1 \in Nat /\ n - 1 > 0
    <3>1. n - 1 \in Nat /\ n - 1 > 0
      BY <1>3, <1>6
    <3>2. \A i \in 1 .. n - 1 : s[i] \in Seq(S)
      BY <1>3, <1>4
    <3>3. t \in [1 .. n - 1 -> Seq(S)]
      BY Zenon, <3>2
    <3>4. t \in Seq(Seq(S))
      BY <3>1, <3>3, SeqDef
    <3>5. Len(t) \in Nat /\ DOMAIN t = 1 .. Len(t)
      BY <3>4, LenProperties
    <3>6. Len(t) = n - 1
      BY <3>1, <3>5
    <3>7. QED
      BY <3>1, <3>4, <3>6
  <2>2. PICK g : Flattens(g, t)
    <3>1. n - 1 \notin T
      BY <1>2, <1>3
    <3>2. QED
      BY <2>1, <3>1
  <2>3. /\ g[1] = s[1]
        /\ \A i \in 1 .. n - 1 : i > 1 => g[i] = g[i - 1] \o s[i]
    <3>1. /\ g[1] = t[1]
          /\ \A i \in 1 .. n - 1 : i > 1 => g[i] = g[i - 1] \o t[i]
      <4> HIDE DEF t
      <4>1. Len(t) \in Nat /\ Len(t) > 0
        BY <2>1
      <4>2. /\ g[1] = t[1]
            /\ \A i \in 1 .. Len(t) : i > 1 => g[i] = g[i - 1] \o t[i]
        BY Zenon, <2>2, <4>1, FlattensAt
      <4>3. QED
        BY Zenon, <2>1, <4>2
    <3>2. t[1] = s[1] /\ \A i \in 1 .. n - 1 : t[i] = s[i]
      BY <2>1
    <3>3. QED
      BY <3>1, <3>2
  <2> HIDE DEF t
  <2> DEFINE f == [i \in 1 .. Len(s) |-> IF i < n THEN g[i] ELSE g[n - 1] \o s[n]]
  <2>4. ASSUME NEW i \in 1 .. n
        PROVE  f[i] = IF i = 1 THEN s[i] ELSE f[i - 1] \o s[i]
    <3>1. CASE i = 1
      BY <1>3, <1>4, <1>6, <2>3, <3>1
    <3>2. CASE i > 1 /\ i < n
      <4>1. i \in 1 .. n - 1 /\ i - 1 \in 1 .. n /\ i - 1 < n
        BY <1>3, <3>2
      <4>2. f[i] = g[i] /\ f[i - 1] = g[i - 1]
        BY <1>4, <3>2, <4>1
      <4>3. QED
        BY <2>3, <3>2, <4>1, <4>2
    <3>3. CASE i = n
      <4>1. i - 1 = n - 1 /\ n - 1 \in 1 .. n /\ n - 1 < n /\ ~(i < n)
        BY <1>3, <1>6, <3>3
      <4>2. f[i] = g[n - 1] \o s[n] /\ f[i - 1] = g[n - 1]
        BY <1>4, <3>3, <4>1
      <4>3. i # 1
        BY <1>6, <3>3
      <4>4. QED
        BY Zenon, <3>3, <4>1, <4>2, <4>3
    <3>4. QED
      BY <1>3, <3>1, <3>2, <3>3
  <2>5. f = [i \in 1 .. Len(s) |-> f[i]]
    OBVIOUS
  <2> HIDE DEF f
  <2>6. Flattens(f, s)
    BY Zenon, <1>4, <2>4, <2>5 DEF Flattens
  <2>7. QED
    BY <1>4, <2>6
<1>7. QED
  BY <1>3, <1>5, <1>6

LEMMA FlattensUnique ==
  ASSUME NEW s, Len(s) \in Nat, NEW f, NEW g, Flattens(f, s), Flattens(g, s)
  PROVE  \A i \in 1 .. Len(s) : f[i] = g[i]
<1> DEFINE T == {i \in 1 .. Len(s) : f[i] # g[i]}
<1>1. SUFFICES ASSUME T # {} PROVE FALSE
  OBVIOUS
<1>2. PICK i \in T : \A m \in T : i <= m
  <2>1. T \subseteq Nat
    OBVIOUS
  <2>2. QED
    BY <1>1, <2>1, LeastNumber
<1>3. i \in 1 .. Len(s) /\ f[i] # g[i]
  OBVIOUS
<1>4. i > 1
  <2>1. Len(s) > 0
    BY <1>3
  <2>2. f[1] = s[1] /\ g[1] = s[1]
    BY Zenon, <2>1, FlattensAt
  <2>3. QED
    BY <1>3, <2>2
<1>5. f[i] = f[i - 1] \o s[i] /\ g[i] = g[i - 1] \o s[i]
  BY Zenon, <1>3, <1>4, FlattensAt
<1>6. i - 1 \in 1 .. Len(s) /\ i - 1 \notin T
  BY <1>2, <1>3, <1>4
<1>7. QED
  BY <1>3, <1>5, <1>6

LEMMA FlattensTypes ==
  ASSUME NEW S, NEW s \in Seq(Seq(S)), NEW f, Flattens(f, s)
  PROVE  \A i \in 1 .. Len(s) : f[i] \in Seq(S)
<1> DEFINE T == {i \in 1 .. Len(s) : f[i] \notin Seq(S)}
<1>0. Len(s) \in Nat
  OBVIOUS
<1>1. SUFFICES ASSUME T # {} PROVE FALSE
  OBVIOUS
<1>2. PICK i \in T : \A m \in T : i <= m
  <2>1. T \subseteq Nat
    OBVIOUS
  <2>2. QED
    BY <1>1, <2>1, LeastNumber
<1>3. i \in 1 .. Len(s) /\ f[i] \notin Seq(S)
  OBVIOUS
<1>4. s[i] \in Seq(S)
  BY <1>3
<1>5. i > 1
  <2>1. Len(s) > 0
    BY <1>0, <1>3
  <2>2. f[1] = s[1]
    BY Zenon, <1>0, <2>1, FlattensAt
  <2>3. QED
    BY <1>3, <1>4, <2>2
<1>6. f[i] = f[i - 1] \o s[i]
  BY Zenon, <1>0, <1>3, <1>5, FlattensAt
<1>7. i - 1 \in 1 .. Len(s) /\ i - 1 \notin T
  BY <1>0, <1>2, <1>3, <1>5
<1>8. f[i - 1] \in Seq(S)
  BY <1>7
<1>9. QED
  BY <1>3, <1>4, <1>6, <1>8, ConcatProperties

\* FlattenSeq is the last of the concatenations.
LEMMA FlattenLast ==
  ASSUME NEW S, NEW s \in Seq(Seq(S)), Len(s) > 0, NEW f, Flattens(f, s)
  PROVE  FlattenSeq(s) = f[Len(s)]
<1> DEFINE g == CHOOSE h : h = [i \in 1 .. Len(s) |->
                                  IF i = 1 THEN s[i] ELSE h[i - 1] \o s[i]]
<1>1. Len(s) \in Nat /\ Len(s) # 0 /\ Len(s) \in 1 .. Len(s)
  OBVIOUS
<1>2. FlattenSeq(s) = g[Len(s)]
  BY Zenon, <1>1 DEF FlattenSeq
<1>3. Flattens(g, s)
  BY Zenon DEF Flattens
<1> HIDE DEF g
<1>4. QED
  BY <1>1, <1>2, <1>3, FlattensUnique

\* Nothing flattens to nothing, and one more word is appended to the rest.
LEMMA FlattenEmpty == FlattenSeq(<<>>) = <<>>
<1>1. Len(<<>>) = 0
  OBVIOUS
<1>2. QED
  BY Zenon, <1>1 DEF FlattenSeq

LEMMA FlattenType ==
  ASSUME NEW S, NEW s \in Seq(Seq(S))
  PROVE  FlattenSeq(s) \in Seq(S)
<1>1. CASE Len(s) = 0
  <2>1. s = <<>>
    BY <1>1
  <2>2. FlattenSeq(s) = <<>>
    BY Zenon, <2>1, FlattenEmpty
  <2>3. QED
    BY <2>2
<1>2. CASE Len(s) > 0
  <2>1. PICK f : Flattens(f, s)
    BY <1>2, FlattensExists
  <2>2. FlattenSeq(s) = f[Len(s)] /\ Len(s) \in 1 .. Len(s)
    BY <1>2, <2>1, FlattenLast
  <2>3. QED
    BY <2>1, <2>2, FlattensTypes
<1>3. Len(s) \in Nat
  OBVIOUS
<1>4. QED
  BY <1>1, <1>2, <1>3

LEMMA FlattenAppend ==
  ASSUME NEW S, NEW s \in Seq(Seq(S)), NEW x \in Seq(S)
  PROVE  FlattenSeq(Append(s, x)) = FlattenSeq(s) \o x
<1> DEFINE t == Append(s, x)
<1>1. /\ t \in Seq(Seq(S)) /\ Len(t) = Len(s) + 1 /\ Len(s) \in Nat
      /\ \A i \in 1 .. Len(s) : t[i] = s[i]
      /\ t[Len(s) + 1] = x
  OBVIOUS
<1> HIDE DEF t
<1>2. PICK f : Flattens(f, t)
  <2>1. Len(t) > 0
    BY <1>1
  <2>2. QED
    BY Zenon, <1>1, <2>1, FlattensExists
<1>3. FlattenSeq(t) = f[Len(s) + 1]
  <2>1. Len(t) > 0
    BY <1>1
  <2>2. FlattenSeq(t) = f[Len(t)]
    BY Zenon, <1>1, <1>2, <2>1, FlattenLast
  <2>3. QED
    BY Zenon, <1>1, <2>2
<1>9. /\ f[1] = t[1]
      /\ \A i \in 1 .. Len(t) : i > 1 => f[i] = f[i - 1] \o t[i]
  <2>1. Len(t) > 0 /\ Len(t) \in Nat
    BY <1>1
  <2>2. QED
    BY Zenon, <1>2, <2>1, FlattensAt
<1>4. CASE Len(s) = 0
  <2>1. s = <<>>
    BY <1>4
  <2>2. f[1] = x
    BY <1>9, <1>1, <1>4
  <2>3. FlattenSeq(s) \o x = x
    BY <2>1, FlattenEmpty
  <2>4. QED
    BY <1>3, <1>4, <2>2, <2>3 DEF t
<1>5. CASE Len(s) > 0
  <2>1. f[Len(s) + 1] = f[Len(s)] \o x
    <3>1. Len(s) + 1 \in 1 .. Len(t) /\ Len(s) + 1 > 1 /\ (Len(s) + 1) - 1 = Len(s)
      BY <1>1, <1>5
    <3>2. QED
      BY Zenon, <1>9, <1>1, <3>1
  <2> DEFINE g == [i \in 1 .. Len(s) |-> f[i]]
  <2>2. Flattens(g, s)
    <3>1. ASSUME NEW i \in 1 .. Len(s)
          PROVE  g[i] = IF i = 1 THEN s[i] ELSE g[i - 1] \o s[i]
      <4>1. CASE i = 1
        BY <1>9, <1>1, <4>1
      <4>2. CASE i > 1
        <5>1. i \in 1 .. Len(t) /\ i - 1 \in 1 .. Len(s)
          BY <1>1, <4>2
        <5>2. f[i] = f[i - 1] \o t[i] /\ t[i] = s[i]
          BY Zenon, <1>9, <1>1, <4>2, <5>1
        <5>3. g[i] = f[i] /\ g[i - 1] = f[i - 1] /\ i # 1
          BY <4>2, <5>1
        <5>4. QED
          BY Zenon, <5>2, <5>3
      <4>3. QED
        BY <1>1, <4>1, <4>2
    <3>2. g = [i \in 1 .. Len(s) |-> g[i]]
      OBVIOUS
    <3> HIDE DEF g
    <3>3. QED
      BY Zenon, <3>1, <3>2 DEF Flattens
  <2>3. g[Len(s)] = f[Len(s)]
    BY <1>1, <1>5
  <2> HIDE DEF g
  <2>4. FlattenSeq(s) = g[Len(s)]
    BY <1>5, <2>2, FlattenLast
  <2>5. QED
    BY <1>3, <2>1, <2>3, <2>4 DEF t
<1>6. QED
  BY <1>1, <1>4, <1>5

-----------------------------------------------------------------------------
(* Sets of numbers. *)

\* Max of the community modules, in a set with a bound.
LEMMA MaxFacts ==
  ASSUME NEW m \in Nat, NEW S, S \subseteq 0 .. m, S # {}
  PROVE  Max(S) \in S /\ \A y \in S : Max(S) >= y
<1> DEFINE T == {b \in Nat : \A y \in S : y <= b}
<1>1. m \in T
  OBVIOUS
<1>2. PICK b \in T : \A a \in T : b <= a
  <2>1. T \subseteq Nat /\ T # {}
    BY <1>1
  <2>2. QED
    BY Zenon, <2>1, LeastNumber
<1>3. b \in Nat /\ \A y \in S : y <= b
  OBVIOUS
<1>4. b \in S
  <2>1. SUFFICES ASSUME b \notin S PROVE FALSE
    OBVIOUS
  <2>2. b # 0
    <3>1. PICK y \in S : TRUE
      OBVIOUS
    <3>2. QED
      BY <1>3, <2>1, <3>1
  <2>3. b - 1 \in Nat
    BY <1>3, <2>2
  <2>4. \A y \in S : y <= b - 1
    BY <1>3, <2>1
  <2>5. b - 1 \in T
    BY <2>3, <2>4
  <2>6. QED
    BY <1>2, <1>3, <2>5
<1>5. \A y \in S : b >= y
  BY <1>3
<1>6. \E x \in S : \A y \in S : x >= y
  BY Zenon, <1>4, <1>5
<1>7. QED
  BY Zenon, <1>6 DEF Max

\* The elements up to n, and the element that is the k-th.
UpTo(S, n) == {f \in S : f <= n}

LEMMA UpToIs ==
  ASSUME NEW S, NEW n, NEW f
  PROVE  f \in UpTo(S, n) <=> f \in S /\ f <= n
BY Zenon DEF UpTo

LEMMA NthExists ==
  ASSUME NEW m \in Nat, NEW S, S \subseteq 1 .. m, NEW k \in 1 .. Cardinality(S)
  PROVE  \E e \in S : Cardinality(UpTo(S, e)) = k
<1>1. IsFiniteSet(S) /\ Cardinality(S) \in Nat
  <2>1. m \in Int /\ 1 \in Int
    OBVIOUS
  <2>2. IsFiniteSet(1 .. m)
    BY Zenon, <2>1, FS_Interval
  <2>3. S \in SUBSET (1 .. m)
    OBVIOUS
  <2>4. IsFiniteSet(S)
    BY Zenon, <2>2, <2>3, FS_Subset
  <2>5. QED
    BY Zenon, <2>4, FS_CardinalityType
<1>2. ASSUME NEW n
      PROVE  IsFiniteSet(UpTo(S, n)) /\ Cardinality(UpTo(S, n)) \in Nat
  <2>1. UpTo(S, n) \in SUBSET S
    BY Zenon DEF UpTo
  <2>2. QED
    BY Zenon, <1>1, <2>1, FS_Subset, FS_CardinalityType
<1> DEFINE T == {n \in Nat : Cardinality(UpTo(S, n)) >= k}
<1>3. m \in T
  <2>1. UpTo(S, m) = S
    <3>1. \A f \in S : f <= m
      OBVIOUS
    <3>2. QED
      BY Zenon, <3>1 DEF UpTo
  <2>2. QED
    BY <1>1, <2>1
<1>4. PICK n \in T : \A a \in T : n <= a
  <2>1. T \subseteq Nat /\ T # {}
    BY <1>3
  <2>2. QED
    BY Zenon, <2>1, LeastNumber
<1>5. n \in Nat /\ Cardinality(UpTo(S, n)) >= k
  OBVIOUS
<1>6. n # 0
  <2>1. SUFFICES ASSUME n = 0 PROVE FALSE
    OBVIOUS
  <2>2. UpTo(S, 0) = {}
    <3>1. \A f \in S : ~(f <= 0)
      OBVIOUS
    <3>2. QED
      BY Zenon, <3>1 DEF UpTo
  <2>3. Cardinality(UpTo(S, n)) = 0
    BY Zenon, <2>1, <2>2, FS_EmptySet
  <2>4. QED
    BY <1>5, <2>3
<1>7. n - 1 \in Nat /\ ~(n <= n - 1)
  BY <1>5, <1>6
<1>8. ~(Cardinality(UpTo(S, n - 1)) >= k)
  <2>1. n - 1 \notin T
    BY Zenon, <1>4, <1>7
  <2>2. QED
    BY Zenon, <1>7, <2>1
<1>9. n \in S
  <2>1. SUFFICES ASSUME n \notin S PROVE FALSE
    OBVIOUS
  <2>2. UpTo(S, n) = UpTo(S, n - 1)
    <3>1. ASSUME NEW f \in S
          PROVE  f <= n <=> f <= n - 1
      <4>1. f \in Nat /\ f # n
        BY <2>1
      <4>2. QED
        BY <1>5, <4>1
    <3>2. QED
      BY Zenon, <3>1 DEF UpTo
  <2>3. QED
    BY Zenon, <1>5, <1>8, <2>2
<1>10. UpTo(S, n) = UpTo(S, n - 1) \cup {n} /\ n \notin UpTo(S, n - 1)
  <2>1. ASSUME NEW f \in S
        PROVE  f <= n <=> (f <= n - 1 \/ f = n)
    <3>1. f \in Nat
      OBVIOUS
    <3>2. QED
      BY <1>5, <3>1
  <2>2. \A f : f \in UpTo(S, n) <=> f \in UpTo(S, n - 1) \/ f = n
    BY Zenon, <1>9, <2>1, UpToIs
  <2>3. n \notin UpTo(S, n - 1)
    BY Zenon, <1>7, UpToIs
  <2>4. QED
    BY Zenon, <2>2, <2>3
<1>11. Cardinality(UpTo(S, n)) = Cardinality(UpTo(S, n - 1)) + 1
  BY Zenon, <1>2, <1>10, FS_AddElement
<1>12. Cardinality(UpTo(S, n)) = k
  <2>1. Cardinality(UpTo(S, n)) \in Nat /\ Cardinality(UpTo(S, n - 1)) \in Nat
    BY Zenon, <1>2
  <2>2. QED
    BY <1>5, <1>8, <1>11, <2>1
<1>13. QED
  BY Zenon, <1>9, <1>12

LEMMA UpToCard ==
  ASSUME NEW m \in Nat, NEW S, S \subseteq 1 .. m, NEW n
  PROVE  /\ IsFiniteSet(S) /\ Cardinality(S) \in Nat
         /\ IsFiniteSet(UpTo(S, n)) /\ Cardinality(UpTo(S, n)) \in Nat
         /\ Cardinality(UpTo(S, n)) <= Cardinality(S)
<1>1. IsFiniteSet(S) /\ Cardinality(S) \in Nat
  <2>1. m \in Int /\ 1 \in Int
    OBVIOUS
  <2>2. IsFiniteSet(1 .. m)
    BY Zenon, <2>1, FS_Interval
  <2>3. S \in SUBSET (1 .. m)
    OBVIOUS
  <2>4. IsFiniteSet(S)
    BY Zenon, <2>2, <2>3, FS_Subset
  <2>5. QED
    BY Zenon, <2>4, FS_CardinalityType
<1>2. UpTo(S, n) \in SUBSET S
  BY Zenon DEF UpTo
<1>3. QED
  BY Zenon, <1>1, <1>2, FS_Subset, FS_CardinalityType

\* The place of an element among the others, and no two have the same.
LEMMA RankIn ==
  ASSUME NEW m \in Nat, NEW S, S \subseteq 1 .. m, NEW e \in S
  PROVE  Cardinality(UpTo(S, e)) \in 1 .. Cardinality(S)
<1> DEFINE c == Cardinality(UpTo(S, e))
           d == Cardinality(S)
<1>1. c \in Nat /\ d \in Nat /\ c <= d /\ IsFiniteSet(UpTo(S, e))
  BY Zenon, UpToCard
<1>2. c # 0
  <2>1. e <= e
    OBVIOUS
  <2>2. UpTo(S, e) # {}
    BY Zenon, <2>1, UpToIs
  <2>3. QED
    BY Zenon, <1>1, <2>2, FS_EmptySet
<1> HIDE DEF c, d
<1>3. c \in 1 .. d
  BY <1>1, <1>2
<1>4. QED
  BY Zenon, <1>3 DEF c, d

LEMMA RankLess ==
  ASSUME NEW m \in Nat, NEW S, S \subseteq 1 .. m, NEW e \in S, NEW f \in S, e < f
  PROVE  Cardinality(UpTo(S, e)) # Cardinality(UpTo(S, f))
<1>1. IsFiniteSet(UpTo(S, f))
  BY Zenon, UpToCard
<1>2. \A x \in S : x <= e => x <= f
  OBVIOUS
<1>3. UpTo(S, e) \in SUBSET UpTo(S, f)
  BY Zenon, <1>2 DEF UpTo
<1>4. f <= f /\ ~(f <= e)
  OBVIOUS
<1>5. UpTo(S, e) # UpTo(S, f)
  BY Zenon, <1>4, UpToIs
<1>6. QED
  BY Zenon, <1>1, <1>3, <1>5, FS_Subset

LEMMA RankInjective ==
  ASSUME NEW m \in Nat, NEW S, S \subseteq 1 .. m, NEW e \in S, NEW f \in S,
         Cardinality(UpTo(S, e)) = Cardinality(UpTo(S, f))
  PROVE  e = f
<1>1. ~(e < f) /\ ~(f < e)
  BY Zenon, RankLess
<1>2. QED
  BY <1>1
=============================================================================
