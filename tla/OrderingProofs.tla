---------------------------- MODULE OrderingProofs ----------------------------
(***************************************************************************)
(* Facts about finite sets of numbers that the proofs of several parts     *)
(* need: their least element, induction over their subsets, sums, and the  *)
(* sequence of their elements in order, which is the one that Ordering.tla *)
(* gives.                                                                  *)
(***************************************************************************)
EXTENDS Ordering, Integers, Sequences, Functions, FiniteSetTheorems, SequenceTheorems,
        WellFoundedInduction, TLAPS

-----------------------------------------------------------------------------
(* Induction *)

(* The least of some numbers.                                              *)
LEMMA LeastOf ==
    ASSUME NEW S \in SUBSET Nat, S # {}
    PROVE  \E x \in S : \A y \in S : x <= y
  <1>1. \E x \in S : \A y \in S : ~(<<y, x>> \in OpToRel(<, Nat))
    BY NatLessThanWellFounded, WFMin, Zenon
  <1>2. PICK x \in S : \A y \in S : ~(<<y, x>> \in OpToRel(<, Nat))
    BY <1>1, Zenon
  <1>3. ASSUME NEW y \in S PROVE x <= y
    <2>1. ~(<<y, x>> \in {ss \in Nat \X Nat : ss[1] < ss[2]})
      BY <1>2 DEF OpToRel
    <2>2. <<y, x>> \in Nat \X Nat /\ <<y, x>>[1] = y /\ <<y, x>>[2] = x
      OBVIOUS
    <2>3. ~(y < x)
      BY <2>1, <2>2
    <2> QED
      BY <2>3
  <1> QED
    BY <1>3

(* The greatest of some numbers that have a bound.                         *)
LEMMA GreatestOf ==
    ASSUME NEW S \in SUBSET Nat, S # {}, NEW n \in Nat, \A x \in S : x <= n
    PROVE  \E x \in S : \A y \in S : x >= y
  <1> DEFINE T == {n - x : x \in S}
  <1>1. T \in SUBSET Nat /\ T # {}
    <2>1. \A x \in S : n - x \in Nat
      OBVIOUS
    <2> QED
      BY <2>1
  <1>2. PICK t \in T : \A u \in T : t <= u
    <2> HIDE DEF T
    <2> QED
      BY <1>1, LeastOf
  <1>3. PICK x \in S : t = n - x
    OBVIOUS
  <1>4. ASSUME NEW y \in S PROVE x >= y
    <2>1. n - y \in T
      OBVIOUS
    <2>2. n - x <= n - y
      BY <1>2, <1>3, <2>1
    <2> QED
      BY <2>2
  <1> QED
    BY <1>4

(* Induction over the subsets of a finite set: each follows from one with  *)
(* an element less.                                                        *)
LEMMA SubsetInduction ==
    ASSUME NEW D, IsFiniteSet(D), NEW G, {} \in G,
           \A s \in SUBSET D : s # {} => \E x \in s : s \ {x} \in G => s \in G
    PROVE  SUBSET D \subseteq G
  <1> DEFINE B == {n \in Nat : \E s \in SUBSET D : s \notin G /\ Cardinality(s) = n}
  <1>1. ASSUME NEW s \in SUBSET D
        PROVE  IsFiniteSet(s) /\ Cardinality(s) \in Nat
    BY <1>1, FS_Subset, FS_CardinalityType
  <1>2. SUFFICES ASSUME NEW t \in SUBSET D, t \notin G PROVE FALSE
    OBVIOUS
  <1>3. Cardinality(t) \in B
    BY <1>1, <1>2
  <1>4. PICK n \in B : \A m \in B : n <= m
    <2> B \in SUBSET Nat /\ B # {}
      BY <1>3
    <2> HIDE DEF B
    <2> QED
      BY LeastOf
  <1>5. PICK s \in SUBSET D : s \notin G /\ Cardinality(s) = n
    BY <1>4
  <1>6. PICK x \in s : s \ {x} \notin G
    BY <1>5, ZenonT(60)
  <1>7. s \ {x} \in SUBSET D /\ Cardinality(s \ {x}) = n - 1 /\ n \in Nat
    BY <1>1, <1>5, FS_RemoveElement
  <1>8. Cardinality(s \ {x}) \in B
    BY <1>1, <1>6, <1>7
  <1> HIDE DEF B
  <1>9. n <= Cardinality(s \ {x})
    BY <1>4, <1>8
  <1> QED
    BY <1>7, <1>9

-----------------------------------------------------------------------------
(* Sums *)

(* The sum of some natural numbers w[x]: how many pairs of an element and  *)
(* a smaller number there are.                                             *)
Units(w, S) == {p \in S \X Nat : p[2] < w[p[1]]}
Total(w, S) == Cardinality(Units(w, S))

Weighs(w, S) == \A x \in S : w[x] \in Nat

LEMMA UnitsOfOne ==
    ASSUME NEW w, NEW x, w[x] \in Nat
    PROVE  IsFiniteSet(Units(w, {x})) /\ Cardinality(Units(w, {x})) = w[x]
  <1> DEFINE T == 0 .. w[x] - 1
  <1>1. IsFiniteSet(T) /\ Cardinality(T) = w[x]
    <2>1. 0 \in Int /\ w[x] - 1 \in Int
      OBVIOUS
    <2>2. IsFiniteSet(T) /\ Cardinality(T) = IF 0 > w[x] - 1 THEN 0 ELSE w[x] - 1 - 0 + 1
      BY <2>1, FS_Interval
    <2> HIDE DEF T
    <2> QED
      BY <2>2
  <1> DEFINE f == [k \in T |-> <<x, k>>]
  <1>2. f \in [T -> Units(w, {x})]
    BY DEF Units
  <1>3. \A j, k \in T : f[j] = f[k] => j = k
    OBVIOUS
  <1>4. \A p \in Units(w, {x}) : \E k \in T : f[k] = p
    <2> SUFFICES ASSUME NEW p \in Units(w, {x}) PROVE p[2] \in T /\ f[p[2]] = p
      OBVIOUS
    <2>1. p \in {x} \X Nat /\ p[2] < w[p[1]]
      BY DEF Units
    <2>2. p[1] = x /\ p[2] \in Nat /\ p = <<p[1], p[2]>>
      BY <2>1
    <2>3. p[2] \in T
      BY <2>1, <2>2
    <2> QED
      BY <2>2, <2>3
  <1>5. ExistsBijection(T, Units(w, {x}))
    <2> HIDE DEF f
    <2> QED
      BY <1>2, <1>3, <1>4, Zenon DEF ExistsBijection, Bijection, Injection, Surjection, IsInjective
  <1> QED
    BY <1>1, <1>5, FS_Bijection

LEMMA UnitsAdded ==
    ASSUME NEW w, NEW S, NEW x \in S
    PROVE  /\ Units(w, S) = Units(w, S \ {x}) \union Units(w, {x})
           /\ Units(w, S \ {x}) \intersect Units(w, {x}) = {}
  BY DEF Units

LEMMA TotalTyped ==
    ASSUME NEW w, NEW S, IsFiniteSet(S), Weighs(w, S)
    PROVE  IsFiniteSet(Units(w, S)) /\ Total(w, S) \in Nat
  <1> DEFINE G == {s \in SUBSET S : IsFiniteSet(Units(w, s))}
  <1>1. {} \in G
    BY FS_EmptySet DEF Units
  <1>2. ASSUME NEW s \in SUBSET S, NEW x \in s, s \ {x} \in G PROVE s \in G
    <2>1. IsFiniteSet(Units(w, s \ {x})) /\ IsFiniteSet(Units(w, {x}))
      BY <1>2, UnitsOfOne DEF Weighs
    <2>2. IsFiniteSet(Units(w, s \ {x}) \union Units(w, {x}))
      BY <2>1, FS_Union
    <2> QED
      BY <2>2, UnitsAdded
  <1>3. SUBSET S \subseteq G
    <2> HIDE DEF G
    <2>1. \A s \in SUBSET S : s # {} => \E x \in s : s \ {x} \in G => s \in G
      BY <1>2
    <2> QED
      BY <1>1, <2>1, SubsetInduction
  <1>4. IsFiniteSet(Units(w, S))
    BY <1>3
  <1> QED
    BY <1>4, FS_CardinalityType DEF Total

LEMMA TotalOfNone == \A w : Total(w, {}) = 0
  BY FS_EmptySet DEF Total, Units

LEMMA TotalAdds ==
    ASSUME NEW w, NEW S, IsFiniteSet(S), Weighs(w, S), NEW x \in S
    PROVE  /\ Total(w, S \ {x}) \in Nat
           /\ Total(w, S) = w[x] + Total(w, S \ {x})
  <1> DEFINE A == Units(w, S \ {x})
             B == Units(w, {x})
  <1>1. IsFiniteSet(S \ {x}) /\ Weighs(w, S \ {x})
    BY FS_RemoveElement DEF Weighs
  <1>2. IsFiniteSet(A) /\ Cardinality(A) \in Nat
    BY <1>1, TotalTyped DEF Total
  <1>3. IsFiniteSet(B) /\ Cardinality(B) = w[x] /\ w[x] \in Nat
    BY UnitsOfOne DEF Weighs
  <1>4. Units(w, S) = A \union B /\ A \intersect B = {}
    BY UnitsAdded
  <1> HIDE DEF A, B
  <1>5. Cardinality(A \union B) = Cardinality(A) + Cardinality(B) - Cardinality(A \cap B)
    BY <1>2, <1>3, FS_Union
  <1>6. Cardinality(A \cap B) = 0
    BY <1>4, FS_EmptySet
  <1>7. Cardinality(A \union B) = w[x] + Cardinality(A)
    BY <1>2, <1>3, <1>5, <1>6
  <1> QED
    BY <1>2, <1>4, <1>7 DEF Total, A

(* A recursive function that takes one element after the other, as folds   *)
(* do, gives the sum, in whatever order it takes them.                     *)
Picks(c, D) == \A s \in SUBSET D : s # {} => c[s] \in s

Rest(c, s) == s \ {c[s]}

Adds(f, w, c, D) ==
    f = [s \in SUBSET D |-> IF s = {} THEN 0 ELSE w[c[s]] + f[Rest(c, s)]]

LEMMA TotalTakes ==
    ASSUME NEW D, IsFiniteSet(D), NEW w, Weighs(w, D), NEW c, Picks(c, D),
           NEW s \in SUBSET D, s # {}
    PROVE  Total(w, s) = w[c[s]] + Total(w, Rest(c, s)) /\ Rest(c, s) \in SUBSET D
  <1>1. IsFiniteSet(s) /\ Weighs(w, s) /\ c[s] \in s
    BY FS_Subset DEF Weighs, Picks
  <1>2. Total(w, Rest(c, s)) \in Nat /\ w[c[s]] \in Nat
        /\ Total(w, s) = w[c[s]] + Total(w, Rest(c, s))
    BY <1>1, TotalAdds DEF Weighs, Rest
  <1> QED
    BY <1>2 DEF Rest

LEMMA TotalIsAdded ==
    ASSUME NEW D, IsFiniteSet(D), NEW w, Weighs(w, D), NEW c, Picks(c, D)
    PROVE  Adds([s \in SUBSET D |-> Total(w, s)], w, c, D)
  <1> DEFINE g == [s \in SUBSET D |-> Total(w, s)]
             h == [s \in SUBSET D |-> IF s = {} THEN 0 ELSE w[c[s]] + g[Rest(c, s)]]
  <1>1. ASSUME NEW s \in SUBSET D PROVE g[s] = h[s]
    <2>1. CASE s = {}
      BY <2>1, TotalOfNone
    <2>2. CASE s # {}
      BY <2>2, TotalTakes
    <2> QED
      BY <2>1, <2>2
  <1>2. g = h
    BY <1>1
  <1> QED
    BY <1>2 DEF Adds

LEMMA AddedIsTotal ==
    ASSUME NEW D, IsFiniteSet(D), NEW w, Weighs(w, D), NEW c, Picks(c, D),
           NEW f, Adds(f, w, c, D)
    PROVE  f[D] = Total(w, D)
  <1> DEFINE G == {s \in SUBSET D : f[s] = Total(w, s)}
  <1>1. ASSUME NEW s \in SUBSET D
        PROVE  /\ s = {} => f[s] = 0
               /\ s # {} => f[s] = w[c[s]] + f[Rest(c, s)]
    <2>1. f[s] = IF s = {} THEN 0 ELSE w[c[s]] + f[Rest(c, s)]
      BY Zenon DEF Adds
    <2> QED
      BY <2>1, Zenon
  <1>2. {} \in G
    BY <1>1, TotalOfNone
  <1>3. ASSUME NEW s \in SUBSET D, s # {}, Rest(c, s) \in G PROVE s \in G
    <2>1. Total(w, s) = w[c[s]] + Total(w, Rest(c, s))
      BY <1>3, TotalTakes
    <2>2. f[s] = w[c[s]] + f[Rest(c, s)] /\ f[Rest(c, s)] = Total(w, Rest(c, s))
      BY <1>1, <1>3
    <2> QED
      BY <2>1, <2>2
  <1> HIDE DEF G
  <1>4. ASSUME NEW s \in SUBSET D, s # {} PROVE \E x \in s : s \ {x} \in G => s \in G
    BY <1>3, <1>4 DEF Picks, Rest
  <1>5. SUBSET D \subseteq G
    BY <1>2, <1>4, SubsetInduction
  <1> QED
    BY <1>5 DEF G

(* The sum that the community modules compute is this one.                 *)
LEMMA SumTotal ==
    ASSUME NEW D, IsFiniteSet(D), NEW w, Weighs(w, D)
    PROVE  SumFunctionOnSet(w, D) = Total(w, D) /\ SumFunctionOnSet(w, D) \in Nat
  <1> DEFINE one(s) == CHOOSE x \in s : TRUE
             c == [s \in SUBSET D |-> one(s)]
             sum(f) == [s \in SUBSET D |-> IF s = {} THEN 0 ELSE w[one(s)] + f[s \ {one(s)}]]
  <1>1. Picks(c, D)
    BY DEF Picks
  <1>2. ASSUME NEW f
        PROVE  sum(f) = [s \in SUBSET D |-> IF s = {} THEN 0 ELSE w[c[s]] + f[Rest(c, s)]]
    <2>1. ASSUME NEW s \in SUBSET D, s # {} PROVE w[one(s)] = w[c[s]] /\ Rest(c, s) = s \ {one(s)}
      <3> HIDE DEF one
      <3> QED
        BY DEF Rest
    <2> HIDE DEF c, one
    <2> QED
      BY <2>1
  <1>3. \A f : f = sum(f) <=> Adds(f, w, c, D)
    <2> HIDE DEF sum, c
    <2> QED
      BY <1>2, Zenon DEF Adds
  <1>4. SumFunctionOnSet(w, D) = (CHOOSE f : f = sum(f))[D]
    BY Zenon DEF SumFunctionOnSet, FoldFunctionOnSet, MapThenFoldSet
  <1> HIDE DEF sum, c
  <1>5. \E f : f = sum(f)
    <2>1. Adds([s \in SUBSET D |-> Total(w, s)], w, c, D)
      BY <1>1, TotalIsAdded
    <2> QED
      BY <1>3, <2>1, Zenon
  <1> DEFINE f == CHOOSE f : f = sum(f)
  <1>6. Adds(f, w, c, D) /\ SumFunctionOnSet(w, D) = f[D]
    BY <1>3, <1>4, <1>5, Zenon
  <1> HIDE DEF f
  <1>7. SumFunctionOnSet(w, D) = Total(w, D)
    BY <1>1, <1>6, AddedIsTotal
  <1> QED
    BY <1>7, TotalTyped

(* A sum in which one number has changed.                                  *)
LEMMA TotalChanged ==
    ASSUME NEW S, IsFiniteSet(S), NEW w, Weighs(w, S), NEW v, Weighs(v, S), NEW x \in S,
           \A y \in S \ {x} : v[y] = w[y]
    PROVE  Total(v, S) = Total(w, S) - w[x] + v[x]
  <1>1. Units(v, S \ {x}) = Units(w, S \ {x})
    BY DEF Units
  <1>2. Total(v, S \ {x}) = Total(w, S \ {x})
    BY <1>1 DEF Total
  <1>3. Total(w, S \ {x}) \in Nat /\ Total(w, S) = w[x] + Total(w, S \ {x})
    BY TotalAdds
  <1>4. Total(v, S) = v[x] + Total(v, S \ {x})
    BY TotalAdds
  <1>5. w[x] \in Nat /\ v[x] \in Nat
    BY DEF Weighs
  <1> QED
    BY <1>2, <1>3, <1>4, <1>5

-----------------------------------------------------------------------------
(* Sequences that ascend *)

Ascends(s) == \A i, j \in 1 .. Len(s) : i < j => s[i] < s[j]

(* Every element is as large as its place, counted from n.                 *)
Climbs(s, n) == \A i \in 1 .. Len(s) : s[i] >= n + i

Elements(s) == {s[i] : i \in DOMAIN s}

LEMMA NaturalElements ==
    ASSUME NEW S \in SUBSET Nat, NEW s \in Seq(S)
    PROVE  \A i \in 1 .. Len(s) : s[i] \in Nat
  <1>1. \A i \in 1 .. Len(s) : s[i] \in S
    BY ElementOfSeq
  <1> QED
    BY <1>1

LEMMA JoinAscends ==
    ASSUME NEW S \in SUBSET Nat, NEW s \in Seq(S), NEW t \in Seq(S), Ascends(s), Ascends(t),
           \A i \in 1 .. Len(s), j \in 1 .. Len(t) : s[i] < t[j]
    PROVE  Ascends(s \o t)
  <1>1. /\ Len(s \o t) = Len(s) + Len(t) /\ s \o t \in Seq(S)
        /\ Len(s) \in Nat /\ Len(t) \in Nat
        /\ \A i \in 1 .. Len(s) : (s \o t)[i] = s[i] /\ s[i] \in Nat
        /\ \A i \in Len(s) + 1 .. Len(s) + Len(t) :
              i - Len(s) \in 1 .. Len(t) /\ (s \o t)[i] = t[i - Len(s)] /\ t[i - Len(s)] \in Nat
    <2>1. /\ \A i \in 1 .. Len(s) : s[i] \in Nat
          /\ \A i \in 1 .. Len(t) : t[i] \in Nat
      BY NaturalElements
    <2>2. /\ Len(s \o t) = Len(s) + Len(t) /\ s \o t \in Seq(S)
          /\ Len(s) \in Nat /\ Len(t) \in Nat
          /\ \A i \in 1 .. Len(s) : (s \o t)[i] = s[i]
          /\ \A i \in Len(s) + 1 .. Len(s) + Len(t) :
                i - Len(s) \in 1 .. Len(t) /\ (s \o t)[i] = t[i - Len(s)]
      OBVIOUS
    <2> QED
      BY <2>1, <2>2
  <1>2. SUFFICES ASSUME NEW i \in 1 .. Len(s) + Len(t), NEW j \in 1 .. Len(s) + Len(t), i < j
                 PROVE  (s \o t)[i] < (s \o t)[j]
    BY <1>1 DEF Ascends
  <1>3. CASE j <= Len(s)
    BY <1>1, <1>2, <1>3 DEF Ascends
  <1>4. CASE i <= Len(s) /\ j > Len(s)
    BY <1>1, <1>2, <1>4
  <1>5. CASE i > Len(s)
    <2>1. i - Len(s) \in 1 .. Len(t) /\ j - Len(s) \in 1 .. Len(t) /\ i - Len(s) < j - Len(s)
      BY <1>1, <1>2, <1>5
    <2>2. t[i - Len(s)] < t[j - Len(s)]
      BY <2>1 DEF Ascends
    <2> QED
      BY <1>1, <1>2, <1>5, <2>2
  <1> QED
    BY <1>1, <1>2, <1>3, <1>4, <1>5

LEMMA JoinClimbs ==
    ASSUME NEW S \in SUBSET Nat, NEW s \in Seq(S), NEW t \in Seq(S), Climbs(s, 0),
           Climbs(t, Len(s))
    PROVE  Climbs(s \o t, 0)
  <1>1. /\ Len(s \o t) = Len(s) + Len(t) /\ Len(s) \in Nat /\ Len(t) \in Nat
        /\ \A i \in 1 .. Len(s) : (s \o t)[i] = s[i] /\ s[i] \in Nat
        /\ \A i \in Len(s) + 1 .. Len(s) + Len(t) :
              i - Len(s) \in 1 .. Len(t) /\ (s \o t)[i] = t[i - Len(s)] /\ t[i - Len(s)] \in Nat
    <2>1. /\ \A i \in 1 .. Len(s) : s[i] \in Nat
          /\ \A i \in 1 .. Len(t) : t[i] \in Nat
      BY NaturalElements
    <2>2. /\ Len(s \o t) = Len(s) + Len(t) /\ s \o t \in Seq(S)
          /\ Len(s) \in Nat /\ Len(t) \in Nat
          /\ \A i \in 1 .. Len(s) : (s \o t)[i] = s[i]
          /\ \A i \in Len(s) + 1 .. Len(s) + Len(t) :
                i - Len(s) \in 1 .. Len(t) /\ (s \o t)[i] = t[i - Len(s)]
      OBVIOUS
    <2> QED
      BY <2>1, <2>2
  <1>2. SUFFICES ASSUME NEW i \in 1 .. Len(s) + Len(t) PROVE (s \o t)[i] >= 0 + i
    BY <1>1 DEF Climbs
  <1>3. CASE i <= Len(s)
    BY <1>1, <1>2, <1>3 DEF Climbs
  <1>4. CASE i > Len(s)
    BY <1>1, <1>2, <1>4 DEF Climbs
  <1> QED
    BY <1>1, <1>2, <1>3, <1>4

LEMMA JoinElements ==
    ASSUME NEW S, NEW s \in Seq(S), NEW t \in Seq(S)
    PROVE  /\ s \o t \in Seq(S) /\ Len(s \o t) = Len(s) + Len(t)
           /\ Elements(s \o t) = Elements(s) \union Elements(t)
  <1>1. /\ Len(s \o t) = Len(s) + Len(t) /\ Len(s) \in Nat /\ Len(t) \in Nat
        /\ DOMAIN s = 1 .. Len(s) /\ DOMAIN t = 1 .. Len(t) /\ s \o t \in Seq(S)
        /\ DOMAIN (s \o t) = 1 .. Len(s) + Len(t)
        /\ \A i \in 1 .. Len(s) : (s \o t)[i] = s[i]
        /\ \A i \in 1 .. Len(t) : (s \o t)[Len(s) + i] = t[i]
        /\ \A i \in Len(s) + 1 .. Len(s) + Len(t) :
              i - Len(s) \in 1 .. Len(t) /\ (s \o t)[i] = t[i - Len(s)]
    OBVIOUS
  <1>2. ASSUME NEW x \in Elements(s \o t) PROVE x \in Elements(s) \union Elements(t)
    <2>1. PICK i \in 1 .. Len(s) + Len(t) : x = (s \o t)[i]
      BY <1>1, <1>2 DEF Elements
    <2>2. CASE i <= Len(s)
      <3>1. i \in 1 .. Len(s) /\ x = s[i]
        BY <1>1, <2>1, <2>2
      <3> QED
        BY <1>1, <3>1 DEF Elements
    <2>3. CASE i > Len(s)
      <3>1. i - Len(s) \in 1 .. Len(t) /\ x = t[i - Len(s)]
        BY <1>1, <2>1, <2>3
      <3> QED
        BY <1>1, <3>1 DEF Elements
    <2> QED
      BY <1>1, <2>2, <2>3
  <1>3. ASSUME NEW x \in Elements(s) PROVE x \in Elements(s \o t)
    <2>1. PICK i \in 1 .. Len(s) : x = s[i]
      BY <1>1, <1>3 DEF Elements
    <2>2. i \in 1 .. Len(s) + Len(t) /\ x = (s \o t)[i]
      BY <1>1, <2>1
    <2> QED
      BY <1>1, <2>2 DEF Elements
  <1>4. ASSUME NEW x \in Elements(t) PROVE x \in Elements(s \o t)
    <2>1. PICK i \in 1 .. Len(t) : x = t[i]
      BY <1>1, <1>4 DEF Elements
    <2>2. Len(s) + i \in 1 .. Len(s) + Len(t) /\ x = (s \o t)[Len(s) + i]
      BY <1>1, <2>1
    <2> QED
      BY <1>1, <2>2 DEF Elements
  <1> QED
    BY <1>1, <1>2, <1>3, <1>4

(* An element larger than all before it is appended.                       *)
LEMMA AppendAscends ==
    ASSUME NEW S \in SUBSET Nat, NEW s \in Seq(S), Ascends(s), NEW x \in S,
           \A i \in 1 .. Len(s) : s[i] < x
    PROVE  /\ Append(s, x) \in Seq(S) /\ Len(Append(s, x)) = Len(s) + 1
           /\ Ascends(Append(s, x)) /\ Elements(Append(s, x)) = Elements(s) \union {x}
           /\ \A i \in 1 .. Len(s) : Append(s, x)[i] = s[i]
           /\ Append(s, x)[Len(s) + 1] = x
  <1> DEFINE t == Append(s, x)
  <1>1. /\ t \in Seq(S) /\ Len(t) = Len(s) + 1 /\ Len(s) \in Nat
        /\ \A i \in 1 .. Len(s) : t[i] = s[i] /\ s[i] \in Nat
        /\ t[Len(s) + 1] = x /\ DOMAIN t = 1 .. Len(s) + 1 /\ DOMAIN s = 1 .. Len(s)
    <2>1. \A i \in 1 .. Len(s) : s[i] \in Nat
      BY NaturalElements
    <2>2. /\ t \in Seq(S) /\ Len(t) = Len(s) + 1 /\ Len(s) \in Nat
          /\ \A i \in 1 .. Len(s) : t[i] = s[i]
          /\ t[Len(s) + 1] = x /\ DOMAIN t = 1 .. Len(s) + 1 /\ DOMAIN s = 1 .. Len(s)
      OBVIOUS
    <2> QED
      BY <2>1, <2>2
  <1> HIDE DEF t
  <1>2. Ascends(t)
    <2> SUFFICES ASSUME NEW i \in 1 .. Len(s) + 1, NEW j \in 1 .. Len(s) + 1, i < j
                 PROVE  t[i] < t[j]
      BY <1>1 DEF Ascends
    <2>1. i \in 1 .. Len(s) /\ (j = Len(s) + 1 \/ j \in 1 .. Len(s))
      BY <1>1
    <2>2. CASE j = Len(s) + 1
      BY <1>1, <2>1, <2>2
    <2>3. CASE j \in 1 .. Len(s)
      BY <1>1, <2>1, <2>3 DEF Ascends
    <2> QED
      BY <2>1, <2>2, <2>3
  <1>3. Elements(t) = Elements(s) \union {x}
    <2>1. ASSUME NEW y \in Elements(t) PROVE y \in Elements(s) \union {x}
      <3>1. PICK i \in 1 .. Len(s) + 1 : y = t[i]
        BY <1>1, <2>1 DEF Elements
      <3>2. i = Len(s) + 1 \/ i \in 1 .. Len(s)
        BY <1>1
      <3> QED
        BY <1>1, <3>1, <3>2 DEF Elements
    <2>2. ASSUME NEW y \in Elements(s) PROVE y \in Elements(t)
      <3>1. PICK i \in 1 .. Len(s) : y = s[i]
        BY <1>1, <2>2 DEF Elements
      <3>2. i \in 1 .. Len(s) + 1 /\ y = t[i]
        BY <1>1, <3>1
      <3> QED
        BY <1>1, <3>2 DEF Elements
    <2>3. x \in Elements(t)
      <3>1. Len(s) + 1 \in 1 .. Len(s) + 1
        BY <1>1
      <3> QED
        BY <1>1, <3>1 DEF Elements
    <2> QED
      BY <2>1, <2>2, <2>3
  <1> QED
    BY <1>1, <1>2, <1>3 DEF t

-----------------------------------------------------------------------------
(* A set in an order: the place of an element is the number of those that  *)
(* come before it. *)

Preceding(S, R, x) == {y \in S : <<y, x>> \in R}
Rank(S, R, x) == Cardinality(Preceding(S, R, x))
Ranked(S, R) == [k \in 1 .. Cardinality(S) |-> CHOOSE x \in S : Rank(S, R, x) = k - 1]

Orders(R, S) ==
    /\ \A x \in S : <<x, x>> \notin R
    /\ \A x, y, z \in S : <<x, y>> \in R /\ <<y, z>> \in R => <<x, z>> \in R
    /\ \A x, y \in S : x # y => <<x, y>> \in R \/ <<y, x>> \in R

LEMMA RanksBounded ==
    ASSUME NEW S, IsFiniteSet(S), NEW R, Orders(R, S), NEW x \in S
    PROVE  Rank(S, R, x) \in 0 .. Cardinality(S) - 1
  <1> DEFINE P == Preceding(S, R, x)
  <1>1. P \in SUBSET (S \ {x}) /\ x \notin P
    BY DEF Preceding, Orders
  <1> HIDE DEF P
  <1>2. IsFiniteSet(S \ {x}) /\ Cardinality(S \ {x}) = Cardinality(S) - 1
    BY FS_RemoveElement
  <1>3. IsFiniteSet(P) /\ Cardinality(P) <= Cardinality(S \ {x})
    BY <1>1, <1>2, FS_Subset
  <1>4. Cardinality(P) \in Nat /\ Cardinality(S) \in Nat
    BY <1>3, FS_CardinalityType
  <1> QED
    BY <1>2, <1>3, <1>4 DEF P, Rank

LEMMA RanksClimb ==
    ASSUME NEW S, IsFiniteSet(S), NEW R, Orders(R, S), NEW x \in S, NEW y \in S, <<x, y>> \in R
    PROVE  Rank(S, R, x) < Rank(S, R, y)
  <1> DEFINE P == Preceding(S, R, x)
             Q == Preceding(S, R, y)
  <1>1. P \in SUBSET Q /\ x \in Q /\ x \notin P /\ Q \in SUBSET S
    BY DEF Preceding, Orders
  <1> HIDE DEF P, Q
  <1>2. IsFiniteSet(Q)
    BY <1>1, FS_Subset
  <1>3. IsFiniteSet(P) /\ Cardinality(P) <= Cardinality(Q) /\ Cardinality(P) # Cardinality(Q)
    BY <1>1, <1>2, FS_Subset
  <1>4. Cardinality(P) \in Nat /\ Cardinality(Q) \in Nat
    BY <1>2, <1>3, FS_CardinalityType
  <1> QED
    BY <1>3, <1>4 DEF P, Q, Rank

LEMMA RanksReached ==
    ASSUME NEW S, IsFiniteSet(S), NEW R, Orders(R, S), NEW k \in 1 .. Cardinality(S)
    PROVE  \E x \in S : Rank(S, R, x) = k - 1
  <1> DEFINE n == Cardinality(S)
             T == 0 .. n - 1
             f == [x \in S |-> Rank(S, R, x)]
  <1>1. n \in Nat
    BY FS_CardinalityType
  <1>2. IsFiniteSet(T) /\ Cardinality(T) = n
    <2>1. 0 \in Int /\ n - 1 \in Int
      BY <1>1
    <2>2. IsFiniteSet(T) /\ Cardinality(T) = IF 0 > n - 1 THEN 0 ELSE n - 1 - 0 + 1
      BY <2>1, FS_Interval
    <2> HIDE DEF n
    <2> QED
      BY <1>1, <2>2
  <1>3. \A x \in S : f[x] = Rank(S, R, x) /\ f[x] \in T
    BY RanksBounded
  <1>4. \A x, y \in S : x # y => f[x] # f[y]
    <2> SUFFICES ASSUME NEW x \in S, NEW y \in S, x # y PROVE f[x] # f[y]
      OBVIOUS
    <2>1. <<x, y>> \in R \/ <<y, x>> \in R
      BY DEF Orders
    <2>2. f[x] < f[y] \/ f[y] < f[x]
      BY <2>1, RanksClimb
    <2>3. f[x] \in Int /\ f[y] \in Int
      BY <1>1, <1>3
    <2> HIDE DEF f
    <2> QED
      BY <2>2, <2>3
  <1>5. f \in [S -> T]
    BY <1>3
  <1> HIDE DEF f
  <1>6. f \in Injection(S, T)
    BY <1>4, <1>5 DEF Injection, IsInjective
  <1>7. f \in Surjection(S, T)
    BY <1>2, <1>6, FS_Injection
  <1>8. k - 1 \in T
    BY <1>1
  <1>9. PICK x \in S : f[x] = k - 1
    BY <1>7, <1>8 DEF Surjection
  <1> QED
    BY <1>3, <1>9

LEMMA RankedInOrder ==
    ASSUME NEW S, IsFiniteSet(S), NEW R, Orders(R, S)
    PROVE  /\ Ranked(S, R) \in Seq(S) /\ Len(Ranked(S, R)) = Cardinality(S)
           /\ \A i, j \in 1 .. Cardinality(S) :
                 i < j => <<Ranked(S, R)[i], Ranked(S, R)[j]>> \in R
           /\ Elements(Ranked(S, R)) = S
  <1> DEFINE n == Cardinality(S)
             s == Ranked(S, R)
  <1>1. n \in Nat
    BY FS_CardinalityType
  <1>2. \A k \in 1 .. n : s[k] \in S /\ Rank(S, R, s[k]) = k - 1
    <2> SUFFICES ASSUME NEW k \in 1 .. n PROVE s[k] \in S /\ Rank(S, R, s[k]) = k - 1
      OBVIOUS
    <2>1. \E x \in S : Rank(S, R, x) = k - 1
      BY RanksReached
    <2>2. s[k] = CHOOSE x \in S : Rank(S, R, x) = k - 1
      BY DEF Ranked
    <2> QED
      BY <2>1, <2>2
  <1>3. s = [k \in 1 .. n |-> s[k]]
    BY DEF Ranked
  <1> HIDE DEF s
  <1>4. s \in [1 .. n -> S] /\ DOMAIN s = 1 .. n
    BY <1>2, <1>3
  <1>5. s \in Seq(S) /\ Len(s) = n
    BY <1>1, <1>4
  <1> HIDE DEF n
  <1>6. ASSUME NEW i \in 1 .. n, NEW j \in 1 .. n, i < j PROVE <<s[i], s[j]>> \in R
    <2>1. s[i] \in S /\ s[j] \in S /\ Rank(S, R, s[i]) = i - 1 /\ Rank(S, R, s[j]) = j - 1
      BY <1>2
    <2>2. s[i] # s[j]
      <3> SUFFICES ASSUME s[i] = s[j] PROVE FALSE
        OBVIOUS
      <3>1. i - 1 = j - 1
        BY <2>1
      <3> QED
        BY <1>6, <3>1
    <2>3. ~(<<s[j], s[i]>> \in R)
      <3> SUFFICES ASSUME <<s[j], s[i]>> \in R PROVE FALSE
        OBVIOUS
      <3>1. Rank(S, R, s[j]) < Rank(S, R, s[i])
        BY <2>1, RanksClimb
      <3>2. j - 1 < i - 1
        BY <2>1, <3>1
      <3> QED
        BY <1>6, <3>2
    <2> QED
      BY <2>1, <2>2, <2>3 DEF Orders
  <1>7. ASSUME NEW x \in S PROVE \E k \in 1 .. n : s[k] = x
    <2> DEFINE k == Rank(S, R, x) + 1
    <2>1. k \in 1 .. n /\ Rank(S, R, x) = k - 1
      BY <1>1, RanksBounded DEF n
    <2> HIDE DEF k
    <2>2. s[k] \in S /\ Rank(S, R, s[k]) = Rank(S, R, x)
      BY <1>2, <2>1
    <2>3. s[k] = x
      <3> SUFFICES ASSUME s[k] # x PROVE FALSE
        OBVIOUS
      <3>1. <<s[k], x>> \in R \/ <<x, s[k]>> \in R
        BY <2>2 DEF Orders
      <3>2. Rank(S, R, s[k]) < Rank(S, R, x) \/ Rank(S, R, x) < Rank(S, R, s[k])
        BY <2>2, <3>1, RanksClimb
      <3>3. Rank(S, R, x) \in Int
        BY RanksBounded
      <3> QED
        BY <2>2, <3>2, <3>3
    <2> QED
      BY <2>1, <2>3
  <1>8. Elements(s) = S
    BY <1>2, <1>4, <1>7 DEF Elements
  <1> QED
    BY <1>5, <1>6, <1>8 DEF n, s

(* The order of the numbers.                                               *)
Sorted(S) ==
    [k \in 1 .. Cardinality(S) |-> CHOOSE x \in S : Cardinality({y \in S : y < x}) = k - 1]

LEMMA SortedInOrder ==
    ASSUME NEW S \in SUBSET Nat, IsFiniteSet(S)
    PROVE  /\ Sorted(S) \in Seq(S) /\ Len(Sorted(S)) = Cardinality(S) /\ Cardinality(S) \in Nat
           /\ Ascends(Sorted(S)) /\ Elements(Sorted(S)) = S
  <1> DEFINE R == {e \in S \X S : e[1] < e[2]}
  <1>1. \A x, y \in S : <<x, y>> \in R <=> x < y
    OBVIOUS
  <1>2. Orders(R, S)
    <2>1. \A x \in S : x \in Nat
      OBVIOUS
    <2> HIDE DEF R
    <2>2. /\ \A x \in S : ~(x < x)
          /\ \A x, y, z \in S : x < y /\ y < z => x < z
          /\ \A x, y \in S : x # y => x < y \/ y < x
      BY <2>1
    <2> QED
      BY <1>1, <2>2, Zenon DEF Orders
  <1>3. \A x \in S : Rank(S, R, x) = Cardinality({y \in S : y < x})
    <2> SUFFICES ASSUME NEW x \in S PROVE Preceding(S, R, x) = {y \in S : y < x}
      BY DEF Rank
    <2> QED
      BY <1>1 DEF Preceding
  <1> HIDE DEF R
  <1>4. Sorted(S) = Ranked(S, R)
    <2> DEFINE first(k) == CHOOSE x \in S : Cardinality({y \in S : y < x}) = k - 1
               second(k) == CHOOSE x \in S : Rank(S, R, x) = k - 1
    <2>1. ASSUME NEW k \in 1 .. Cardinality(S) PROVE first(k) = second(k)
      <3>1. \A x \in S : (Cardinality({y \in S : y < x}) = k - 1) <=> (Rank(S, R, x) = k - 1)
        BY <1>3
      <3> QED
        BY <3>1
    <2>2. /\ Sorted(S) = [k \in 1 .. Cardinality(S) |-> first(k)]
          /\ Ranked(S, R) = [k \in 1 .. Cardinality(S) |-> second(k)]
      BY DEF Sorted, Ranked
    <2> HIDE DEF first, second
    <2> QED
      BY <2>1, <2>2
  <1> DEFINE s == Sorted(S)
  <1>5. /\ s \in Seq(S) /\ Len(s) = Cardinality(S) /\ Elements(s) = S
        /\ \A i, j \in 1 .. Cardinality(S) : i < j => <<s[i], s[j]>> \in R
    BY <1>2, <1>4, RankedInOrder, Zenon
  <1> HIDE DEF s
  <1>6. \A i \in 1 .. Len(s) : s[i] \in S
    BY <1>5, ElementOfSeq
  <1>7. Ascends(s)
    BY <1>1, <1>5, <1>6 DEF Ascends
  <1> QED
    BY <1>5, <1>7, FS_CardinalityType DEF s
(* A number stands in the order at the place after those that are less.    *)
LEMMA PlaceOf ==
    ASSUME NEW S \in SUBSET Nat, IsFiniteSet(S), NEW k \in 1 .. Cardinality(S)
    PROVE  Sorted(S)[k] \in S /\ Cardinality({y \in S : y < Sorted(S)[k]}) = k - 1
  <1> DEFINE R == {e \in S \X S : e[1] < e[2]}
  <1>1. \A x, y \in S : <<x, y>> \in R <=> x < y
    OBVIOUS
  <1>2. Orders(R, S)
    <2>1. \A x \in S : x \in Nat
      OBVIOUS
    <2> HIDE DEF R
    <2>2. /\ \A x \in S : ~(x < x)
          /\ \A x, y, z \in S : x < y /\ y < z => x < z
          /\ \A x, y \in S : x # y => x < y \/ y < x
      BY <2>1
    <2> QED
      BY <1>1, <2>2, Zenon DEF Orders
  <1>3. \A x \in S : Rank(S, R, x) = Cardinality({y \in S : y < x})
    <2> SUFFICES ASSUME NEW x \in S PROVE Preceding(S, R, x) = {y \in S : y < x}
      BY DEF Rank
    <2> QED
      BY <1>1 DEF Preceding
  <1> HIDE DEF R
  <1>4. \E x \in S : Cardinality({y \in S : y < x}) = k - 1
    <2>1. PICK x \in S : Rank(S, R, x) = k - 1
      BY <1>2, RanksReached
    <2> QED
      BY <1>3, <2>1
  <1>5. Sorted(S)[k] = CHOOSE x \in S : Cardinality({y \in S : y < x}) = k - 1
    BY DEF Sorted
  <1> QED
    BY <1>4, <1>5

(* What ascends has but one order.                                         *)
LEMMA AscendingEqual ==
    ASSUME NEW S \in SUBSET Nat, NEW s \in Seq(S), NEW t \in Seq(S), Ascends(s), Ascends(t),
           Elements(s) = Elements(t)
    PROVE  s = t
  <1>1. /\ DOMAIN s = 1 .. Len(s) /\ Len(s) \in Nat /\ \A i \in 1 .. Len(s) : s[i] \in Nat
        /\ DOMAIN t = 1 .. Len(t) /\ Len(t) \in Nat /\ \A i \in 1 .. Len(t) : t[i] \in Nat
    BY LenProperties, NaturalElements
  <1>2. /\ \A i \in 1 .. Len(s) : \E k \in 1 .. Len(t) : t[k] = s[i]
        /\ \A i \in 1 .. Len(t) : \E k \in 1 .. Len(s) : s[k] = t[i]
    BY <1>1 DEF Elements
  <1> DEFINE D == {i \in Nat : i > 0 /\ ~(i \in 1 .. Len(s) /\ i \in 1 .. Len(t) /\ s[i] = t[i])
                               /\ (i \in 1 .. Len(s) \/ i \in 1 .. Len(t))}
  <1>3. D = {}
    <2> SUFFICES ASSUME D # {} PROVE FALSE
      OBVIOUS
    <2>1. D \in SUBSET Nat
      OBVIOUS
    <2>2. PICK m \in D : \A i \in D : m <= i
      BY <2>1, LeastOf
    <2>3. m \in Nat /\ m > 0 /\ (m \in 1 .. Len(s) \/ m \in 1 .. Len(t))
          /\ ~(m \in 1 .. Len(s) /\ m \in 1 .. Len(t) /\ s[m] = t[m])
      OBVIOUS
    <2>4. \A i \in 1 .. m - 1 : i \notin D
      BY <2>2, <2>3
    <2>5. \A i \in 1 .. m - 1 : (i \in 1 .. Len(s) /\ i \in 1 .. Len(t)) /\ s[i] = t[i]
      <3> SUFFICES ASSUME NEW i \in 1 .. m - 1
                   PROVE  i \in 1 .. Len(s) /\ i \in 1 .. Len(t) /\ s[i] = t[i]
        OBVIOUS
      <3>1. i \in Nat /\ i > 0 /\ (i \in 1 .. Len(s) \/ i \in 1 .. Len(t))
        BY <1>1, <2>3
      <3> QED
        BY <2>4, <3>1
    <2> HIDE DEF D
    <2>6. ASSUME m \in 1 .. Len(s), m \in 1 .. Len(t) => s[m] < t[m] PROVE FALSE
      <3>1. PICK k \in 1 .. Len(t) : t[k] = s[m]
        BY <1>2, <2>6
      <3>2. k < m
        <4> SUFFICES ASSUME k >= m PROVE FALSE
          BY <1>1, <2>3
        <4>1. m \in 1 .. Len(t)
          BY <1>1, <2>3
        <4>2. k = m \/ m < k
          BY <2>3
        <4>3. t[m] <= t[k]
          BY <1>1, <4>1, <4>2 DEF Ascends
        <4> QED
          BY <1>1, <2>6, <3>1, <4>1, <4>3
      <3>3. k \in 1 .. m - 1
        BY <2>3, <3>2
      <3>4. k \in 1 .. Len(s) /\ s[k] = s[m]
        BY <2>5, <3>1, <3>3
      <3>5. s[k] < s[m]
        BY <2>6, <3>2, <3>4 DEF Ascends
      <3> QED
        BY <1>1, <2>6, <3>4, <3>5
    <2>7. ASSUME m \in 1 .. Len(t), m \in 1 .. Len(s) => t[m] < s[m] PROVE FALSE
      <3>1. PICK k \in 1 .. Len(s) : s[k] = t[m]
        BY <1>2, <2>7
      <3>2. k < m
        <4> SUFFICES ASSUME k >= m PROVE FALSE
          BY <1>1, <2>3
        <4>1. m \in 1 .. Len(s)
          BY <1>1, <2>3
        <4>2. k = m \/ m < k
          BY <2>3
        <4>3. s[m] <= s[k]
          BY <1>1, <4>1, <4>2 DEF Ascends
        <4> QED
          BY <1>1, <2>7, <3>1, <4>1, <4>3
      <3>3. k \in 1 .. m - 1
        BY <2>3, <3>2
      <3>4. k \in 1 .. Len(t) /\ t[k] = t[m]
        BY <2>5, <3>1, <3>3
      <3>5. t[k] < t[m]
        BY <2>7, <3>2, <3>4 DEF Ascends
      <3> QED
        BY <1>1, <2>7, <3>4, <3>5
    <2> QED
      BY <1>1, <2>3, <2>6, <2>7
  <1>4. ASSUME NEW i \in Nat, i > 0, i \in 1 .. Len(s) \/ i \in 1 .. Len(t)
        PROVE  i \in 1 .. Len(s) /\ i \in 1 .. Len(t) /\ s[i] = t[i]
    BY <1>3, <1>4
  <1> HIDE DEF D
  <1>5. Len(s) = Len(t)
    <2>1. CASE Len(s) < Len(t)
      <3>1. Len(t) \in Nat /\ Len(t) > 0 /\ Len(t) \in 1 .. Len(t) /\ Len(t) \notin 1 .. Len(s)
        BY <1>1, <2>1
      <3> QED
        BY <1>4, <3>1
    <2>2. CASE Len(t) < Len(s)
      <3>1. Len(s) \in Nat /\ Len(s) > 0 /\ Len(s) \in 1 .. Len(s) /\ Len(s) \notin 1 .. Len(t)
        BY <1>1, <2>2
      <3> QED
        BY <1>4, <3>1
    <2>3. Len(s) \in Nat /\ Len(t) \in Nat
      BY <1>1
    <2> QED
      BY <2>1, <2>2, <2>3
  <1>6. \A i \in 1 .. Len(s) : s[i] = t[i]
    BY <1>4
  <1> QED
    BY <1>5, <1>6, SeqEqual

LEMMA SortedUnique ==
    ASSUME NEW S \in SUBSET Nat, IsFiniteSet(S), NEW s \in Seq(S), Ascends(s), Elements(s) = S
    PROVE  s = Sorted(S)
  BY SortedInOrder, AscendingEqual

(* The first elements of a sequence.                                       *)
LEMMA FirstOf ==
    ASSUME NEW S, NEW s \in Seq(S), NEW n \in 0 .. Len(s)
    PROVE  /\ SubSeq(s, 1, n) \in Seq(S) /\ Len(SubSeq(s, 1, n)) = n
           /\ \A k \in 1 .. n : SubSeq(s, 1, n)[k] = s[k]
  <1>1. n \in Int /\ 1 \in Int /\ n >= 0 /\ Len(s) \in Nat
    BY LenProperties
  <1>2. \A i \in 1 .. n : s[i] \in S
    BY <1>1, ElementOfSeq
  <1> DEFINE r == SubSeq(s, 1, n)
  <1>3. /\ r \in Seq(S) /\ Len(r) = IF 1 <= n THEN n - 1 + 1 ELSE 0
        /\ \A i \in 1 .. n - 1 + 1 : r[i] = s[1 + i - 1]
    BY <1>1, <1>2, SubSeqProperties
  <1> HIDE DEF r
  <1>4. \A k \in 1 .. n : 1 + k - 1 = k /\ k \in 1 .. n - 1 + 1
    BY <1>1
  <1>5. \A k \in 1 .. n : r[k] = s[k]
    BY <1>3, <1>4
  <1> QED
    BY <1>1, <1>3, <1>5 DEF r

(* The rows of a page that goes on: the first n of the rest, in its order. *)
Proceeds(rows, rest, n) ==
    /\ rows \in Seq(rest) /\ Len(rows) = n /\ Ascends(rows)
    /\ n = Cardinality(rest) => Elements(rows) = rest
    /\ n > 0 => /\ rows[n] \in rest
                /\ \A k \in 1 .. n : rows[k] <= rows[n]
                /\ {x \in rest : x <= rows[n]} \subseteq Elements(rows)
    /\ n < Cardinality(rest) =>
          LET next == Sorted(rest)[n + 1] IN
          /\ next \in rest /\ \A k \in 1 .. n : rows[k] < next
          /\ {x \in rest : x < next} \subseteq Elements(rows)

LEMMA PageProceeds ==
    ASSUME NEW rest \in SUBSET Nat, IsFiniteSet(rest), NEW n \in 0 .. Cardinality(rest)
    PROVE  Proceeds(SubSeq(Sorted(rest), 1, n), rest, n)
  <1> DEFINE s == Sorted(rest)
             rows == SubSeq(s, 1, n)
  <1>1. /\ s \in Seq(rest) /\ Len(s) = Cardinality(rest) /\ Ascends(s) /\ Elements(s) = rest
        /\ Cardinality(rest) \in Nat
    BY SortedInOrder
  <1> HIDE DEF s
  <1>2. /\ \A i \in 1 .. Len(s) : s[i] \in rest /\ s[i] \in Nat
        /\ DOMAIN s = 1 .. Len(s)
    BY <1>1, ElementOfSeq, LenProperties
  <1>3. /\ rows \in Seq(rest) /\ Len(rows) = n /\ \A k \in 1 .. n : rows[k] = s[k]
        /\ DOMAIN rows = 1 .. n
    BY <1>1, FirstOf, LenProperties
  <1> HIDE DEF rows
  <1>4. n \in Nat /\ n <= Len(s) /\ 1 .. n \subseteq 1 .. Len(s)
    BY <1>1
  <1>5. Ascends(rows)
    BY <1>1, <1>3, <1>4 DEF Ascends
  <1>6. n = Cardinality(rest) => Elements(rows) = rest
    BY <1>1, <1>2, <1>3 DEF Elements
  <1>7. \A x \in rest : \E k \in 1 .. Len(s) : s[k] = x
    BY <1>1, <1>2 DEF Elements
  <1>8. ASSUME n > 0
        PROVE  /\ rows[n] \in rest /\ \A k \in 1 .. n : rows[k] <= rows[n]
               /\ {x \in rest : x <= rows[n]} \subseteq Elements(rows)
    <2>1. n \in 1 .. n /\ n \in 1 .. Len(s) /\ rows[n] = s[n]
      BY <1>1, <1>3, <1>4, <1>8
    <2>2. \A k \in 1 .. n : s[k] <= s[n]
      <3> SUFFICES ASSUME NEW k \in 1 .. n PROVE s[k] <= s[n]
        OBVIOUS
      <3>1. k = n \/ k < n
        BY <1>4
      <3> QED
        BY <1>1, <1>2, <1>4, <2>1, <3>1 DEF Ascends
    <2>3. ASSUME NEW x \in rest, x <= rows[n] PROVE x \in Elements(rows)
      <3>1. PICK k \in 1 .. Len(s) : s[k] = x
        BY <1>7
      <3>2. ~(n < k)
        BY <1>1, <1>2, <2>1, <2>3, <3>1 DEF Ascends
      <3>3. k \in 1 .. n
        BY <1>4, <3>2
      <3> QED
        BY <1>3, <3>1, <3>3 DEF Elements
    <2> QED
      BY <1>2, <1>3, <2>1, <2>2, <2>3
  <1>9. ASSUME n < Cardinality(rest)
        PROVE  /\ s[n + 1] \in rest /\ \A k \in 1 .. n : rows[k] < s[n + 1]
               /\ {x \in rest : x < s[n + 1]} \subseteq Elements(rows)
    <2>1. n + 1 \in 1 .. Len(s)
      BY <1>1, <1>4, <1>9
    <2>2. \A k \in 1 .. n : s[k] < s[n + 1]
      BY <1>1, <1>4, <2>1 DEF Ascends
    <2>3. ASSUME NEW x \in rest, x < s[n + 1] PROVE x \in Elements(rows)
      <3>1. PICK k \in 1 .. Len(s) : s[k] = x
        BY <1>7
      <3>2. k # n + 1 /\ ~(n + 1 < k)
        BY <1>1, <1>2, <2>1, <2>3, <3>1 DEF Ascends
      <3>3. k \in 1 .. n
        BY <1>4, <3>2
      <3> QED
        BY <1>3, <3>1, <3>3 DEF Elements
    <2> QED
      BY <1>2, <1>3, <2>1, <2>2, <2>3
  <1> QED
    BY <1>3, <1>5, <1>6, <1>8, <1>9 DEF Proceeds, s, rows

(* They follow what was shown, when the rest comes after it.               *)
Precedes(shown, rest) == \A i \in 1 .. Len(shown) : \A x \in rest : shown[i] < x

Joined(S, shown, rest, rows) ==
    /\ rows \in Seq(S) /\ shown \o rows \in Seq(S) /\ Ascends(shown \o rows)
    /\ Elements(shown \o rows) = Elements(shown) \union Elements(rows)
    /\ Elements(rows) \subseteq rest

LEMMA PageJoins ==
    ASSUME NEW S, S \in SUBSET Nat, NEW shown, shown \in Seq(S), Ascends(shown),
           NEW rest, rest \in SUBSET S, NEW n, NEW rows, Proceeds(rows, rest, n),
           Precedes(shown, rest)
    PROVE  Joined(S, shown, rest, rows)
  <1>1. rows \in Seq(rest) /\ Ascends(rows) /\ rows \in Seq(S)
    <2>1. rows \in Seq(rest) /\ Ascends(rows) /\ rest \subseteq S
      BY DEF Proceeds
    <2> QED
      BY <2>1, SeqMonotonic, Zenon
  <1>2. \A k \in 1 .. Len(rows) : rows[k] \in rest
    BY <1>1, ElementOfSeq
  <1>3. Ascends(shown \o rows)
    <2>1. \A i \in 1 .. Len(shown), k \in 1 .. Len(rows) : shown[i] < rows[k]
      BY <1>2 DEF Precedes
    <2> QED
      BY <1>1, <2>1, JoinAscends
  <1>4. shown \o rows \in Seq(S) /\ Elements(shown \o rows) = Elements(shown) \union Elements(rows)
    BY <1>1, JoinElements
  <1>5. DOMAIN rows = 1 .. Len(rows)
    BY <1>1, LenProperties
  <1> QED
    BY <1>1, <1>2, <1>3, <1>4, <1>5 DEF Elements, Joined

(* A prefix and the page cut behind it are a longer prefix.                *)
LEMMA CutFollows ==
    ASSUME NEW S, NEW s \in Seq(S), NEW m \in 0 .. Len(s), NEW n \in m .. Len(s)
    PROVE  /\ SubSeq(s, 1, m) \o SubSeq(s, m + 1, n) = SubSeq(s, 1, n)
           /\ SubSeq(s, 1, Len(s)) = s
  <1>1. Len(s) \in Nat
    BY LenProperties
  <1>2. 1 \in 1 .. Len(s) + 1 /\ m \in 1 - 1 .. Len(s) /\ n \in m .. Len(s)
    BY <1>1
  <1>3. SubSeq(s, 1, m) \o SubSeq(s, m + 1, n) = SubSeq(s, 1, n)
    BY <1>2, ConcatAdjacentSubSeq
  <1> QED
    BY <1>3, SubSeqFull

(* The least and the greatest of two numbers.                              *)
Least(S) == CHOOSE x \in S : \A y \in S : x <= y
Most(S) == CHOOSE x \in S : \A y \in S : x >= y

LEMMA LeastOfTwo ==
    ASSUME NEW a \in Int, NEW b \in Int
    PROVE  /\ Least({a, b}) = (IF a <= b THEN a ELSE b)
           /\ Most({a, b}) = (IF a >= b THEN a ELSE b)
  <1>1. \E x \in {a, b} : \A y \in {a, b} : x <= y
    OBVIOUS
  <1>2. \E x \in {a, b} : \A y \in {a, b} : x >= y
    OBVIOUS
  <1>3. Least({a, b}) \in {a, b} /\ \A y \in {a, b} : Least({a, b}) <= y
    BY <1>1 DEF Least
  <1>4. Most({a, b}) \in {a, b} /\ \A y \in {a, b} : Most({a, b}) >= y
    BY <1>2 DEF Most
  <1> QED
    BY <1>3, <1>4

===============================================================================
