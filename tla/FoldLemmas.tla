----------------------------- MODULE FoldLemmas -----------------------------
(***************************************************************************)
(* What the proofs about sums and concatenations need: induction over the  *)
(* numbers and over the subsets of a finite set, with the set of those     *)
(* that are good in the place of a predicate; that functions defined by    *)
(* recursion over either exist; and what FlattenSeq makes of a sequence.   *)
(***************************************************************************)
EXTENDS Integers, SequencesExt, FiniteSetsExt, SequenceTheorems, FiniteSetTheorems,
        WellFoundedInduction, TLAPS

(* A set of numbers that is not empty has a least one, by the order of the *)
(* natural numbers.                                                        *)
LEMMA LeastNumber ==
    ASSUME NEW T, T \subseteq Nat, T # {}
    PROVE  \E m \in T : \A y \in T : m <= y
<1> DEFINE Less == OpToRel(<, Nat)
<1>1. Less = {ss \in Nat \X Nat : ss[1] < ss[2]}
  BY DEF OpToRel
<1>2. IsWellFoundedOn(Less, Nat)
  BY NatLessThanWellFounded
<1>3. PICK m \in T : \A y \in T : <<y, m>> \notin Less
  <2> HIDE DEF Less
  <2> QED
    BY <1>2, WFMin
<1>4. ASSUME NEW y \in T, y < m PROVE FALSE
  <2>1. <<y, m>> \in {ss \in Nat \X Nat : ss[1] < ss[2]}
    BY <1>4
  <2> HIDE DEF Less
  <2> QED
    BY <1>1, <1>3, <2>1
<1>5. \A y \in T : m <= y
  BY <1>4
<1> QED
  BY <1>5

(* Induction over the numbers.                                             *)
LEMMA NumberInduction ==
    ASSUME NEW Good, 0 \in Good, \A n \in Nat : n \in Good => n + 1 \in Good
    PROVE  \A n \in Nat : n \in Good
<1> SUFFICES ASSUME NEW n0 \in Nat, n0 \notin Good PROVE FALSE
  OBVIOUS
<1> DEFINE T == {n \in Nat : n \notin Good}
<1>1. PICK m \in T : \A y \in T : m <= y
  <2>1. T \subseteq Nat /\ T # {}
    OBVIOUS
  <2> HIDE DEF T
  <2> QED
    BY <2>1, LeastNumber
<1>2. m \in Nat /\ m # 0
  OBVIOUS
<1>3. m - 1 \in Nat /\ m - 1 \notin T /\ (m - 1) + 1 = m
  <2>1. m - 1 \in Nat /\ ~(m <= m - 1) /\ (m - 1) + 1 = m
    BY <1>2
  <2> QED
    BY ONLY <1>1, <2>1
<1> QED
  BY <1>3

(* A set of places in a sequence has a last one: the smallest distance     *)
(* from its end.                                                           *)
LEMMA LastPlace ==
    ASSUME NEW n \in Nat, NEW S \in SUBSET (1 .. n), S # {}
    PROVE  Max(S) \in S /\ \A y \in S : y <= Max(S)
<1> DEFINE T == {t \in Nat : \E x \in S : t = n - x}
<1>1. T \subseteq Nat /\ T # {}
  <2>1. PICK x \in S : TRUE
    OBVIOUS
  <2>2. n - x \in T
    BY <2>1
  <2> QED
    BY <2>2
<1>2. PICK m \in T : \A y \in T : m <= y
  <2> HIDE DEF T
  <2> QED
    BY <1>1, LeastNumber
<1>3. PICK x \in S : m = n - x
  OBVIOUS
<1>4. ASSUME NEW y \in S PROVE x >= y
  <2>1. n - y \in T
    OBVIOUS
  <2>2. n - x <= n - y /\ x \in Int /\ y \in Int
    BY <1>2, <1>3, <2>1
  <2> QED
    BY <2>2
<1> QED
  BY <1>4 DEF Max

(* Subsets of a finite set are finite, and smaller by one without one of   *)
(* their elements.                                                         *)
LEMMA SubsetSizes ==
    ASSUME NEW S, IsFiniteSet(S), NEW s \in SUBSET S
    PROVE  /\ IsFiniteSet(s) /\ Cardinality(s) \in Nat /\ Cardinality(s) <= Cardinality(S)
           /\ Cardinality(S) \in Nat
           /\ s = {} <=> Cardinality(s) = 0
           /\ \A x \in s : Cardinality(s \ {x}) = Cardinality(s) - 1
<1>1. IsFiniteSet(s) /\ Cardinality(s) <= Cardinality(S)
  BY FS_Subset
<1>2. Cardinality(s) \in Nat /\ Cardinality(S) \in Nat
  BY <1>1, FS_CardinalityType
<1>3. s = {} <=> Cardinality(s) = 0
  BY <1>1, FS_EmptySet
<1>4. \A x \in s : Cardinality(s \ {x}) = Cardinality(s) - 1
  BY <1>1, FS_RemoveElement
<1> QED
  BY <1>1, <1>2, <1>3, <1>4

(* Induction over the subsets of a finite set.                             *)
LEMMA SubsetInduction ==
    ASSUME NEW S, IsFiniteSet(S), NEW Good, {} \in Good,
           \A s \in SUBSET S : s # {} /\ (\A x \in s : s \ {x} \in Good) => s \in Good
    PROVE  \A s \in SUBSET S : s \in Good
<1> DEFINE Sized == {n \in Nat : \A s \in SUBSET S : Cardinality(s) = n => s \in Good}
<1>1. 0 \in Sized
  BY SubsetSizes
<1>2. ASSUME NEW n \in Nat, n \in Sized PROVE n + 1 \in Sized
  <2> SUFFICES ASSUME NEW s \in SUBSET S, Cardinality(s) = n + 1 PROVE s \in Good
    OBVIOUS
  <2>1. s # {} /\ \A x \in s : Cardinality(s \ {x}) = n
    BY SubsetSizes
  <2>2. \A x \in s : s \ {x} \in Good
    BY <1>2, <2>1
  <2> QED
    BY <2>1, <2>2
<1>3. \A n \in Nat : n \in Sized
  <2> HIDE DEF Sized
  <2> QED
    BY <1>1, <1>2, NumberInduction
<1> QED
  BY <1>3, SubsetSizes

(* A function on the subsets of a finite set may be defined by what it is  *)
(* for a subset without one picked element.                                *)
SubsetRecursive(S, V, base, pick, h) ==
    \E f \in [SUBSET S -> V] :
        f = [s \in SUBSET S |-> IF s = {} THEN base ELSE h[pick[s]][f[s \ {pick[s]}]]]

LEMMA SubsetRecursion ==
    ASSUME NEW S, IsFiniteSet(S), NEW V, NEW base \in V,
           NEW pick, \A s \in SUBSET S : s # {} => pick[s] \in s,
           NEW h \in [S -> [V -> V]]
    PROVE  SubsetRecursive(S, V, base, pick, h)
<1> DEFINE Small(k) == {s \in SUBSET S : Cardinality(s) <= k}
           Def(f, s) == IF s = {} THEN base ELSE h[pick[s]][f[s \ {pick[s]}]]
           Has(f, k) == f \in [Small(k) -> V] /\ \A s \in Small(k) : f[s] = Def(f, s)
           Good == {k \in Nat : \E f : Has(f, k)}
<1>1. 0 \in Good
  <2> DEFINE f == [s \in Small(0) |-> base]
  <2>1. \A s \in Small(0) : s = {}
    BY SubsetSizes
  <2>2. Has(f, 0)
    BY <2>1
  <2> QED
    BY <2>2
<1>2. ASSUME NEW k \in Nat, k \in Good PROVE k + 1 \in Good
  <2>1. PICK g : Has(g, k)
    BY <1>2
  <2> DEFINE f == [s \in Small(k + 1) |-> Def(g, s)]
  <2>2. \A s \in Small(k + 1) : s # {} => pick[s] \in S /\ s \ {pick[s]} \in Small(k)
    BY SubsetSizes
  <2>3. Small(k) \subseteq Small(k + 1)
    BY SubsetSizes
  <2>4. \A s \in Small(k) : f[s] = g[s]
    BY <2>1, <2>3
  <2>5. \A s \in Small(k + 1) : f[s] \in V
    BY <2>1, <2>2
  <2>6. \A s \in Small(k + 1) : f[s] = Def(f, s)
    BY <2>2, <2>4
  <2> HIDE DEF Def, Small
  <2>7. Has(f, k + 1)
    BY <2>5, <2>6
  <2> HIDE DEF Has, f
  <2> QED
    BY <2>7
<1>3. Cardinality(S) \in Good /\ Small(Cardinality(S)) = SUBSET S
  <2>1. Cardinality(S) \in Nat /\ Small(Cardinality(S)) = SUBSET S
    BY SubsetSizes
  <2> HIDE DEF Good
  <2> QED
    BY <1>1, <1>2, <2>1, NumberInduction
<1>4. PICK f : Has(f, Cardinality(S))
  BY <1>3
<1>5. f \in [SUBSET S -> V] /\ \A s \in SUBSET S : f[s] = Def(f, s)
  BY <1>3, <1>4
<1>6. f = [s \in SUBSET S |-> Def(f, s)]
  <2> HIDE DEF Def
  <2> QED
    BY <1>5
<1> QED
  BY <1>5, <1>6 DEF SubsetRecursive

(* A function on 0 .. n may be defined by what it is for a number, from    *)
(* what it is for the number before.                                       *)
NumberRecursive(n, V, base, h) ==
    \E f \in [0 .. n -> V] : f[0] = base /\ \A i \in 1 .. n : f[i] = h[i][f[i - 1]]

LEMMA NumberRecursion ==
    ASSUME NEW n \in Nat, NEW V, NEW base \in V,
           NEW h \in [1 .. n -> [V -> V]]
    PROVE  NumberRecursive(n, V, base, h)
<1> SUFFICES \E f \in [0 .. n -> V] : f[0] = base /\ \A i \in 1 .. n : f[i] = h[i][f[i - 1]]
  BY DEF NumberRecursive
<1> DEFINE Has(f, k) == f \in [0 .. k -> V] /\ f[0] = base /\ \A i \in 1 .. k : f[i] = h[i][f[i - 1]]
           Good == {k \in Nat : k <= n => \E f : Has(f, k)}
<1>1. 0 \in Good
  <2>1. Has([i \in 0 .. 0 |-> base], 0)
    OBVIOUS
  <2> QED
    BY <2>1
<1>2. ASSUME NEW k \in Nat, k \in Good PROVE k + 1 \in Good
  <2> SUFFICES ASSUME k + 1 <= n PROVE \E f : Has(f, k + 1)
    OBVIOUS
  <2>1. PICK g : Has(g, k)
    BY <1>2
  <2> DEFINE f == [i \in 0 .. k + 1 |-> IF i <= k THEN g[i] ELSE h[i][g[k]]]
  <2>2. f \in [0 .. k + 1 -> V] /\ f[0] = base
    BY <2>1
  <2>3. ASSUME NEW i \in 1 .. k + 1 PROVE f[i] = h[i][f[i - 1]]
    BY <2>1
  <2> QED
    BY <2>2, <2>3
<1>3. \A k \in Nat : k \in Good
  <2> HIDE DEF Good
  <2> QED
    BY <1>1, <1>2, NumberInduction
<1> QED
  BY <1>3

-----------------------------------------------------------------------------
(* FlattenSeq as the last of the concatenations of the first i sequences.  *)
Parts(g, s, n) == g[0] = <<>> /\ \A i \in 1 .. n : g[i] = g[i - 1] \o s[i]

LEMMA FlattenParts ==
    ASSUME NEW D, NEW s \in Seq(Seq(D))
    PROVE  \E g \in [0 .. Len(s) -> Seq(D)] : Parts(g, s, Len(s)) /\ FlattenSeq(s) = g[Len(s)]
<1> DEFINE n == Len(s)
           h == [i \in 1 .. n |-> [v \in Seq(D) |-> v \o s[i]]]
           Def(f, i) == IF i = 1 THEN s[i] ELSE f[i - 1] \o s[i]
           Flat == CHOOSE flatten : flatten = [i \in 1 .. n |-> Def(flatten, i)]
<1>1. n \in Nat /\ \A i \in 1 .. n : s[i] \in Seq(D)
  BY LenProperties, ElementOfSeq
<1>2. \A i \in 1 .. n : \A v \in Seq(D) : v \o s[i] \in Seq(D)
  BY <1>1, ConcatProperties
<1>3. <<>> \in Seq(D) /\ \A i \in 1 .. n : <<>> \o s[i] = s[i]
  BY <1>1, ConcatEmptySeq
<1>0. \A i \in 1 .. n : i - 1 \in 0 .. n /\ i \in 0 .. n /\ i \in Int /\ (i # 1 => i - 1 \in 1 .. n)
  <2> HIDE DEF n
  <2> QED
    BY <1>1
<1> HIDE DEF n
<1>4. PICK f \in [0 .. n -> Seq(D)] : f[0] = <<>> /\ \A i \in 1 .. n : f[i] = f[i - 1] \o s[i]
  <2>1. h \in [1 .. n -> [Seq(D) -> Seq(D)]]
    BY <1>2
  <2>2. \E f \in [0 .. n -> Seq(D)] : f[0] = <<>> /\ \A i \in 1 .. n : f[i] = h[i][f[i - 1]]
    <3> DEFINE V == Seq(D)
               base == <<>>
    <3>1. n \in Nat /\ base \in V /\ h \in [1 .. n -> [V -> V]]
      BY <1>1, <1>3, <2>1
    <3> HIDE DEF h, V, base
    <3>2. NumberRecursive(n, V, base, h)
      BY <3>1, NumberRecursion
    <3> QED
      BY <3>2 DEF V, base, NumberRecursive
  <2>3. PICK f \in [0 .. n -> Seq(D)] : f[0] = <<>> /\ \A i \in 1 .. n : f[i] = h[i][f[i - 1]]
    BY <2>2
  <2>4. \A i \in 1 .. n : f[i - 1] \in Seq(D)
    BY <1>0, <2>3
  <2> QED
    BY <2>3, <2>4
<1>5. \E g : g = [i \in 1 .. n |-> Def(g, i)]
  <2> DEFINE g == [i \in 1 .. n |-> f[i]]
  <2>1. ASSUME NEW i \in 1 .. n PROVE f[i] = Def(g, i)
    <3>1. CASE i = 1
      <4>1. i - 1 = 0
        BY <3>1
      <4>2. f[i] = <<>> \o s[i]
        BY <1>4, <4>1
      <4> QED
        BY <1>3, <3>1, <4>2
    <3>2. CASE i # 1
      BY <1>0, <1>4, <3>2
    <3> QED
      BY <3>1, <3>2
  <2>2. g = [i \in 1 .. n |-> Def(g, i)]
    <3> HIDE DEF Def
    <3> QED
      BY <2>1
  <2> QED
    BY <2>2
<1>6. Flat = [i \in 1 .. n |-> Def(Flat, i)]
  <2> DEFINE Is(g) == g = [i \in 1 .. n |-> Def(g, i)]
  <2>1. \E g : Is(g)
    BY <1>5
  <2>2. Is(CHOOSE g : Is(g))
    <3> HIDE DEF Is
    <3> QED
      BY <2>1
  <2> QED
    BY <2>2
<1> HIDE DEF Flat
<1>7. \A i \in 1 .. n : Flat[i] = f[i]
  <2> DEFINE Good == {i \in Nat : i \in 1 .. n => Flat[i] = f[i]}
  <2>1. 0 \in Good
    OBVIOUS
  <2>2. ASSUME NEW i \in Nat, i \in Good PROVE i + 1 \in Good
    <3> SUFFICES ASSUME i + 1 \in 1 .. n PROVE Flat[i + 1] = f[i + 1]
      OBVIOUS
    <3>1. (i + 1) - 1 = i /\ (i # 0 => i + 1 # 1 /\ i \in 1 .. n)
      BY <1>1
    <3>2. Flat[i + 1] = Def(Flat, i + 1)
      BY <1>6
    <3>3. CASE i = 0
      <4>0. 1 \in 1 .. n /\ 1 - 1 = 0
        BY <3>3
      <4>1. f[1] = f[0] \o s[1] /\ 1 \in 1 .. n
        BY <1>4, <4>0
      <4>2. Flat[1] = s[1]
        BY <3>2, <3>3
      <4> QED
        BY <1>3, <1>4, <3>3, <4>1, <4>2
    <3>4. CASE i # 0
      <4>1. Flat[i] = f[i]
        BY <2>2, <3>1, <3>4
      <4>2. Flat[i + 1] = Flat[i] \o s[i + 1]
        BY <3>1, <3>2, <3>4
      <4> QED
        BY <1>4, <3>1, <4>1, <4>2
    <3> QED
      BY <3>3, <3>4
  <2>3. \A i \in Nat : i \in Good
    <3> HIDE DEF Good
    <3> QED
      BY <2>1, <2>2, NumberInduction
  <2> QED
    BY <2>3
<1>8. FlattenSeq(s) = f[n]
  <2>1. CASE n = 0
    <3>1. FlattenSeq(s) = s /\ s = <<>>
      BY <2>1, EmptySeq DEF FlattenSeq, n
    <3> QED
      BY <1>4, <2>1, <3>1
  <2>2. CASE n # 0
    <3>1. FlattenSeq(s) = Flat[n]
      BY <2>2 DEF FlattenSeq, Flat, n
    <3> QED
      BY <1>1, <1>7, <2>2, <3>1
  <2> QED
    BY <2>1, <2>2
<1> QED
  BY <1>4, <1>8 DEF n, Parts

(* What the parts of two sequences are where these begin alike.            *)
LEMMA SameParts ==
    ASSUME NEW m \in Nat, NEW s, NEW t, NEW f, NEW g,
           Parts(f, s, m), Parts(g, t, m), \A i \in 1 .. m : s[i] = t[i]
    PROVE  \A i \in 0 .. m : f[i] = g[i]
<1> DEFINE Good == {i \in Nat : i <= m => f[i] = g[i]}
<1>1. 0 \in Good
  BY DEF Parts
<1>2. ASSUME NEW i \in Nat, i \in Good PROVE i + 1 \in Good
  <2> SUFFICES ASSUME i + 1 <= m PROVE f[i + 1] = g[i + 1]
    OBVIOUS
  <2>1. i + 1 \in 1 .. m /\ (i + 1) - 1 = i /\ i <= m
    OBVIOUS
  <2>2. f[i] = g[i]
    BY <1>2, <2>1
  <2> QED
    BY <2>1, <2>2 DEF Parts
<1>3. \A i \in Nat : i \in Good
  <2> HIDE DEF Good
  <2> QED
    BY <1>1, <1>2, NumberInduction
<1> QED
  BY <1>3

LEMMA FlattenType ==
    ASSUME NEW D, NEW s \in Seq(Seq(D))
    PROVE  FlattenSeq(s) \in Seq(D)
<1>1. PICK g \in [0 .. Len(s) -> Seq(D)] : FlattenSeq(s) = g[Len(s)]
  BY FlattenParts
<1>2. Len(s) \in 0 .. Len(s)
  BY LenProperties
<1> QED
  BY <1>1, <1>2

LEMMA FlattenEmpty == FlattenSeq(<<>>) = <<>>
<1>1. <<>> \in Seq(Seq({})) /\ Len(<<>>) = 0
  BY EmptySeq
<1> QED
  BY <1>1 DEF FlattenSeq

(* A sequence appended is concatenated.                                    *)
LEMMA FlattenAppend ==
    ASSUME NEW D, NEW s \in Seq(Seq(D)), NEW e \in Seq(D)
    PROVE  FlattenSeq(Append(s, e)) = FlattenSeq(s) \o e
<1> DEFINE t == Append(s, e)
           n == Len(s)
<1>1. /\ t \in Seq(Seq(D)) /\ n \in Nat /\ Len(t) = n + 1
      /\ \A i \in 1 .. n : t[i] = s[i]
      /\ t[n + 1] = e
  BY AppendProperties, LenProperties
<1>2. PICK f : Parts(f, s, n) /\ FlattenSeq(s) = f[n]
  BY FlattenParts
<1> HIDE DEF t
<1>3. PICK g : Parts(g, t, Len(t)) /\ FlattenSeq(t) = g[Len(t)]
  BY <1>1, FlattenParts
<1> HIDE DEF n
<1>4. n \in 0 .. n /\ n + 1 \in 1 .. n + 1 /\ (n + 1) - 1 = n /\ 1 .. n \subseteq 1 .. n + 1
  <2>1. n \in Nat
    BY <1>1
  <2> QED
    BY ONLY <2>1
<1>5. Parts(g, t, n)
  BY <1>1, <1>3, <1>4 DEF Parts
<1>6. \A i \in 0 .. n : f[i] = g[i]
  <2>1. n \in Nat /\ Parts(f, s, n) /\ \A i \in 1 .. n : s[i] = t[i]
    BY <1>1, <1>2
  <2> QED
    BY ONLY <1>5, <2>1, SameParts
<1>7. f[n] = g[n]
  BY <1>4, <1>6
<1>8. g[n + 1] = g[n] \o e
  BY <1>1, <1>3, <1>4 DEF Parts
<1> QED
  BY <1>1, <1>2, <1>3, <1>7, <1>8 DEF t

(* The elements of a concatenation of pairs.                               *)
LEMMA FlattenPairs ==
    ASSUME NEW D, NEW s \in Seq(Seq(D)), \A i \in 1 .. Len(s) : Len(s[i]) = 2
    PROVE  /\ Len(FlattenSeq(s)) = 2 * Len(s)
           /\ \A i \in 1 .. Len(s) : /\ FlattenSeq(s)[2 * i - 1] = s[i][1]
                                     /\ FlattenSeq(s)[2 * i] = s[i][2]
<1> DEFINE n == Len(s)
<1>1. n \in Nat /\ \A i \in 1 .. n : s[i] \in Seq(D) /\ Len(s[i]) = 2
  BY LenProperties, ElementOfSeq
<1>2. PICK g \in [0 .. n -> Seq(D)] :
         /\ g[0] = <<>> /\ \A i \in 1 .. n : g[i] = g[i - 1] \o s[i]
         /\ FlattenSeq(s) = g[n]
  BY FlattenParts DEF Parts
<1> HIDE DEF n
<1> DEFINE Pairs(k) == /\ Len(g[k]) = 2 * k
                       /\ \A i \in 1 .. k : g[k][2 * i - 1] = s[i][1] /\ g[k][2 * i] = s[i][2]
           Good == {k \in Nat : k <= n => Pairs(k)}
<1>3. 0 \in Good
  <2>1. Len(g[0]) = 0
    BY <1>2, EmptySeq
  <2> QED
    BY <2>1
<1>4. ASSUME NEW k \in Nat, k \in Good PROVE k + 1 \in Good
  <2> SUFFICES ASSUME k + 1 <= n PROVE Pairs(k + 1)
    OBVIOUS
  <2>1. k \in 0 .. n /\ k + 1 \in 1 .. n /\ (k + 1) - 1 = k /\ k <= n
    BY <1>1
  <2> DEFINE a == g[k]
             b == s[k + 1]
  <2>2. Pairs(k) /\ a \in Seq(D) /\ b \in Seq(D) /\ Len(b) = 2 /\ g[k + 1] = a \o b
    BY <1>1, <1>2, <1>4, <2>1
  <2>3. Len(a) = 2 * k
    BY <2>2
  <2>4. /\ Len(a \o b) = Len(a) + Len(b)
        /\ \A i \in 1 .. Len(a) + Len(b) : (a \o b)[i] = IF i <= Len(a) THEN a[i] ELSE b[i - Len(a)]
    BY <2>2, ConcatProperties
  <2> HIDE DEF a, b
  <2>5. /\ Len(g[k + 1]) = 2 * (k + 1)
        /\ \A i \in 1 .. 2 * k + 2 : g[k + 1][i] = IF i <= 2 * k THEN a[i] ELSE b[i - 2 * k]
    BY <2>2, <2>3, <2>4
  <2>6. ASSUME NEW i \in 1 .. k
        PROVE  g[k + 1][2 * i - 1] = s[i][1] /\ g[k + 1][2 * i] = s[i][2]
    <3>1. /\ 2 * i - 1 \in 1 .. 2 * k + 2 /\ 2 * i - 1 <= 2 * k
          /\ 2 * i \in 1 .. 2 * k + 2 /\ 2 * i <= 2 * k
      OBVIOUS
    <3>2. a[2 * i - 1] = s[i][1] /\ a[2 * i] = s[i][2]
      BY <2>2 DEF a
    <3> QED
      BY <2>5, <3>1, <3>2
  <2>7. g[k + 1][2 * (k + 1) - 1] = s[k + 1][1] /\ g[k + 1][2 * (k + 1)] = s[k + 1][2]
    <3>1. /\ 2 * (k + 1) - 1 \in 1 .. 2 * k + 2 /\ ~(2 * (k + 1) - 1 <= 2 * k)
          /\ 2 * (k + 1) \in 1 .. 2 * k + 2 /\ ~(2 * (k + 1) <= 2 * k)
          /\ 2 * (k + 1) - 1 - 2 * k = 1 /\ 2 * (k + 1) - 2 * k = 2
      OBVIOUS
    <3> QED
      BY <2>5, <3>1 DEF b
  <2>8. \A i \in 1 .. k + 1 : i \in 1 .. k \/ i = k + 1
    OBVIOUS
  <2> QED
    BY <2>5, <2>6, <2>7, <2>8
<1>5. n \in Good
  <2> HIDE DEF Good
  <2> QED
    BY <1>1, <1>3, <1>4, NumberInduction
<1>6. Pairs(n)
  BY <1>1, <1>5
<1> QED
  BY <1>2, <1>6 DEF n

-----------------------------------------------------------------------------
(* The places in a concatenation: t, of length l, is s, of length k, and   *)
(* r, of length m, behind it.                                              *)
SideBySide(t, l, s, k, r, m) ==
    /\ Len(t) = l /\ l = k + m /\ k \in Nat /\ m \in Nat
    /\ \A i \in 1 .. k : t[i] = s[i]
    /\ \A i \in 1 .. m : t[k + i] = r[i]

LEMMA ConcatPlaces ==
    ASSUME NEW D, NEW s \in Seq(D), NEW r \in Seq(D)
    PROVE  /\ s \o r \in Seq(D)
           /\ SideBySide(s \o r, Len(s) + Len(r), s, Len(s), r, Len(r))
<1>1. Len(s) \in Nat /\ Len(r) \in Nat
  BY LenProperties
<1>2. PICK k, m : k = Len(s) /\ m = Len(r) /\ k \in Nat /\ m \in Nat
  BY <1>1
<1>3. s \o r \in Seq(D) /\ Len(s \o r) = Len(s) + Len(r)
  BY ConcatProperties
<1>4. \A i \in 1 .. k + m : (s \o r)[i] = IF i <= k THEN s[i] ELSE r[i - k]
  BY <1>2, ConcatProperties
<1>5. \A i \in 1 .. k : i \in 1 .. k + m /\ i <= k
  BY ONLY <1>2
<1>6. \A i \in 1 .. m : k + i \in 1 .. k + m /\ ~(k + i <= k) /\ (k + i) - k = i
  BY ONLY <1>2
<1>7. /\ \A i \in 1 .. k : (s \o r)[i] = s[i]
      /\ \A i \in 1 .. m : (s \o r)[k + i] = r[i]
  BY <1>4, <1>5, <1>6
<1> QED
  BY <1>1, <1>2, <1>3, <1>7 DEF SideBySide
=============================================================================
