---------------------------- MODULE Foundations -----------------------------
(***************************************************************************)
(* What the proofs need of the natural numbers, of recursion and of        *)
(* arrays: with sets and functions in the place of predicates.             *)
(***************************************************************************)
EXTENDS Subsequences, Integers, Sequences, FiniteSetsExt, WellFoundedInduction,
        FiniteSetTheorems, TLAPS

-----------------------------------------------------------------------------
(***************************************************************************)
(* Least and greatest numbers, induction and recursion over the natural    *)
(* numbers.                                                                *)
(***************************************************************************)

\* Every nonempty set of natural numbers has a least element.
LEMMA LeastElement ==
  ASSUME NEW T \in SUBSET Nat, T # {} PROVE \E x \in T : \A y \in T : x <= y
<1>1. IsWellFoundedOn(OpToRel(<, Nat), Nat)
  BY NatLessThanWellFounded
<1>2. PICK x \in T : \A y \in T : ~ (<<y, x>> \in OpToRel(<, Nat))
  BY <1>1, WFMin
<1>3. \A y \in T : ~ (y < x)
  BY <1>2 DEF OpToRel
<1> QED BY <1>3

\* Every nonempty set of natural numbers with a bound has a greatest element.
LEMMA GreatestElement ==
  ASSUME NEW n \in Nat, NEW T \in SUBSET (0..n), T # {} PROVE \E x \in T : \A y \in T : y <= x
<1> DEFINE B == {m \in Nat : n - m \in T}
<1>1. PICK t \in T : TRUE
  OBVIOUS
<1>2. t \in 0..n /\ n - t \in Nat /\ n - (n - t) = t
  OBVIOUS
<1>3. B # {} /\ B \in SUBSET Nat
  BY <1>2
<1>4. PICK m \in B : \A k \in B : m <= k
  <2> HIDE DEF B
  <2> QED BY <1>3, LeastElement
<1>5. m \in Nat /\ n - m \in T /\ \A k \in Nat : n - k \in T => m <= k
  BY <1>4
<1>6. ASSUME NEW y \in T PROVE y <= n - m
  <2>1. y \in 0..n
    OBVIOUS
  <2>2. n - y \in Nat /\ n - (n - y) = y
    BY <2>1
  <2>3. m <= n - y
    BY <1>5, <2>2
  <2> QED BY <1>5, <2>1, <2>3
<1> QED BY <1>5, <1>6

\* The smaller of two numbers.
LEMMA MinOfTwo ==
  ASSUME NEW a \in Int, NEW b \in Int PROVE Min({a, b}) = IF a <= b THEN a ELSE b
<1> DEFINE m == IF a <= b THEN a ELSE b
<1>1. m \in {a, b} /\ \A y \in {a, b} : m <= y
  OBVIOUS
<1>2. \A x \in {a, b} : (\A y \in {a, b} : x <= y) => x = m
  OBVIOUS
<1> QED BY <1>1, <1>2 DEF Min

\* A set that holds 0 and, with a number, the next one holds every number.
LEMMA InductiveSet ==
  ASSUME NEW T, 0 \in T, \A n \in Nat : n \in T => n + 1 \in T PROVE Nat \subseteq T
<1> SUFFICES ASSUME NEW n \in Nat, n \notin T PROVE FALSE
  OBVIOUS
<1> DEFINE B == {k \in Nat : k \notin T}
<1>1. PICK x \in B : \A y \in B : x <= y
  BY LeastElement
<1>2. x # 0 /\ x - 1 \in Nat /\ ~ (x <= x - 1) /\ x - 1 + 1 = x
  BY <1>1
<1>3. x - 1 \in T
  BY <1>1, <1>2
<1> QED BY <1>1, <1>2, <1>3

\* h follows the recursion of g from a up to n.
Follows(h, n, a, g) == h[0] = a /\ \A k \in 0..(n - 1) : h[k + 1] = g[k][h[k]]

LEMMA FollowersAgree ==
  ASSUME NEW a, NEW g, NEW h1, NEW h2, NEW m \in Nat, NEW n \in Nat, m <= n,
         Follows(h1, m, a, g), Follows(h2, n, a, g)
  PROVE  \A k \in 0..m : h1[k] = h2[k]
<1> DEFINE T == {k \in Nat : k <= m => h1[k] = h2[k]}
<1>1. 0 \in T
  BY DEF Follows
<1>2. ASSUME NEW k \in Nat, k \in T PROVE k + 1 \in T
  <2>1. ASSUME k + 1 <= m PROVE h1[k + 1] = h2[k + 1]
    <3>1. h1[k] = h2[k] /\ k \in 0..(m - 1) /\ k \in 0..(n - 1)
      BY <1>2, <2>1
    <3> QED BY <3>1 DEF Follows
  <2> QED BY <2>1
<1>3. Nat \subseteq T
  <2> HIDE DEF T
  <2> QED BY <1>1, <1>2, InductiveSet
<1> QED BY <1>3

Steps(S, g) == g \in [Nat -> [S -> S]]
Recurs(f, S, a, g) == f \in [Nat -> S] /\ f[0] = a /\ \A n \in Nat : f[n + 1] = g[n][f[n]]

\* A recursion over the natural numbers defines a function.
LEMMA Recursion ==
  ASSUME NEW S, NEW a \in S, NEW g, Steps(S, g) PROVE \E f : Recurs(f, S, a, g)
<1> USE DEF Steps
<1> DEFINE T == {n \in Nat : \E h \in [0..n -> S] : Follows(h, n, a, g)}
<1>1. 0 \in T
  <2> DEFINE h == [k \in 0..0 |-> a]
  <2>1. h \in [0..0 -> S] /\ Follows(h, 0, a, g)
    BY DEF Follows
  <2> QED BY <2>1
<1>2. ASSUME NEW n \in Nat, n \in T PROVE n + 1 \in T
  <2>1. PICK h \in [0..n -> S] : Follows(h, n, a, g)
    BY <1>2
  <2> DEFINE i == [k \in 0..(n + 1) |-> IF k = n + 1 THEN g[n][h[n]] ELSE h[k]]
  <2>2. i \in [0..(n + 1) -> S]
    <3>1. h[n] \in S /\ g[n][h[n]] \in S
      OBVIOUS
    <3> QED BY <3>1
  <2>3. i[n + 1] = g[n][h[n]] /\ \A k \in 0..n : i[k] = h[k]
    OBVIOUS
  <2>4. Follows(i, n + 1, a, g)
    <3> HIDE DEF i
    <3>1. i[0] = a
      BY <2>1, <2>3 DEF Follows
    <3>2. ASSUME NEW k \in 0..n PROVE i[k + 1] = g[k][i[k]]
      <4>1. CASE k = n
        BY <2>3, <4>1
      <4>2. CASE k # n
        <5>1. k \in 0..(n - 1) /\ k + 1 \in 0..n
          BY <4>2
        <5> QED BY <2>1, <2>3, <5>1 DEF Follows
      <4> QED BY <4>1, <4>2
    <3>3. n + 1 - 1 = n
      OBVIOUS
    <3> QED BY <3>1, <3>2, <3>3 DEF Follows
  <2> QED BY <2>2, <2>4
<1>3. Nat \subseteq T
  <2> HIDE DEF T
  <2> QED BY <1>1, <1>2, InductiveSet
<1> DEFINE H(n) == CHOOSE h \in [0..n -> S] : Follows(h, n, a, g)
<1>4. \A n \in Nat : H(n) \in [0..n -> S] /\ Follows(H(n), n, a, g)
  BY <1>3
<1> DEFINE f == [n \in Nat |-> H(n)[n]]
<1> HIDE DEF H
<1>5. f \in [Nat -> S]
  <2>1. \A n \in Nat : n \in 0..n
    OBVIOUS
  <2> QED BY <1>4, <2>1
<1>6. f[0] = a
  BY <1>4 DEF Follows
<1>7. ASSUME NEW n \in Nat PROVE f[n + 1] = g[n][f[n]]
  <2>1. H(n)[n] = H(n + 1)[n]
    BY <1>4, FollowersAgree
  <2>2. H(n + 1)[n + 1] = g[n][H(n + 1)[n]]
    BY <1>4 DEF Follows
  <2> QED BY <2>1, <2>2
<1> QED BY <1>5, <1>6, <1>7 DEF Recurs

-----------------------------------------------------------------------------
(***************************************************************************)
(* What filtering leaves of an array.                                      *)
(***************************************************************************)

\* Sets of places are finite.
LEMMA PlacesFinite ==
  ASSUME NEW n \in Nat, NEW I \in SUBSET (1..n)
  PROVE  IsFiniteSet(I) /\ Cardinality(I) \in Nat
<1>1. 1 \in Int /\ n \in Int
  OBVIOUS
<1>2. IsFiniteSet(1..n)
  BY <1>1, FS_Interval
<1>3. IsFiniteSet(I)
  BY <1>2, FS_Subset
<1> QED BY <1>3, FS_CardinalityType

\* The places of I up to i.
UpTo(I, i) == {k \in I : k <= i}

LEMMA UpToGrows ==
  ASSUME NEW n \in Nat, NEW I \in SUBSET (1..n), NEW i \in I
  PROVE  /\ IsFiniteSet(I) /\ Cardinality(I) \in Nat
         /\ Cardinality(UpTo(I, i)) \in 1..Cardinality(I)
         /\ \A j \in I : i < j => Cardinality(UpTo(I, i)) < Cardinality(UpTo(I, j))
<1>1. IsFiniteSet(I) /\ Cardinality(I) \in Nat
  BY PlacesFinite
<1>2. ASSUME NEW S \in SUBSET I PROVE IsFiniteSet(S) /\ Cardinality(S) \in Nat /\ Cardinality(S) <= Cardinality(I)
  BY <1>1, FS_Subset, FS_CardinalityType
<1>3. UpTo(I, i) \subseteq I /\ i \in UpTo(I, i)
  BY DEF UpTo
<1>4. Cardinality(UpTo(I, i)) # 0
  BY <1>2, <1>3, FS_EmptySet
<1>5. ASSUME NEW j \in I, i < j PROVE Cardinality(UpTo(I, i)) < Cardinality(UpTo(I, j))
  <2>1. UpTo(I, j) \subseteq I /\ UpTo(I, i) \subseteq UpTo(I, j) /\ j \in UpTo(I, j) /\ j \notin UpTo(I, i)
    <3>1. i \in Nat /\ j \in Nat /\ \A k \in I : k \in Nat
      OBVIOUS
    <3>2. \A k \in I : k <= i => k <= j
      BY <1>5, <3>1
    <3>3. \A k, m : k \in UpTo(I, m) <=> k \in I /\ k <= m
      BY DEF UpTo
    <3>4. ~ (j <= i) /\ j <= j
      BY <1>5, <3>1
    <3> QED BY <3>2, <3>3, <3>4
  <2>2. UpTo(I, i) \cup {j} \subseteq UpTo(I, j)
    BY <2>1
  <2>3. Cardinality(UpTo(I, i) \cup {j}) = Cardinality(UpTo(I, i)) + 1
    BY <1>2, <1>3, <2>1, FS_AddElement
  <2>4. Cardinality(UpTo(I, i) \cup {j}) <= Cardinality(UpTo(I, j))
    BY <1>2, <2>1, <2>2, FS_Subset
  <2> QED BY <1>2, <1>3, <2>1, <2>3, <2>4
<1> QED BY <1>1, <1>2, <1>3, <1>4, <1>5

\* Each j up to the number of places in I is the rank of one of them.
LEMMA PlaceFinds ==
  ASSUME NEW n \in Nat, NEW I \in SUBSET (1..n), NEW j \in 1..Cardinality(I)
  PROVE  Place(I, j) \in I /\ Cardinality(UpTo(I, Place(I, j))) = j
<1> DEFINE c == Cardinality(I)
           rank == [i \in I |-> Cardinality(UpTo(I, i))]
<1>1. c \in Nat /\ IsFiniteSet(I)
  BY PlacesFinite
<1>2. rank \in Injection(I, 1..c)
  <2>1. rank \in [I -> 1..c]
    BY UpToGrows
  <2>2. ASSUME NEW i \in I, NEW k \in I, rank[i] = rank[k] PROVE i = k
    <3>1. i < k => rank[i] < rank[k]
      BY UpToGrows
    <3>2. k < i => rank[k] < rank[i]
      BY UpToGrows
    <3> QED BY <2>1, <2>2, <3>1, <3>2
  <2> QED BY <2>1, <2>2 DEF Injection, IsInjective
<1>3. IsFiniteSet(1..c) /\ Cardinality(1..c) = c
  BY <1>1, FS_Interval
<1>4. rank \in Surjection(I, 1..c)
  <2> HIDE DEF rank
  <2> QED BY <1>2, <1>3, FS_Injection
<1>5. PICK i \in I : rank[i] = j
  BY <1>4 DEF Surjection
<1>6. UpTo(I, i) = {k \in I : k <= i} /\ Cardinality(UpTo(I, i)) = j
  BY <1>5 DEF UpTo
<1> QED BY <1>6 DEF Place, UpTo

\* A subsequence holds the elements at its places, each as often as they do.
LEMMA SubsequenceOf ==
  ASSUME NEW S, NEW s \in Seq(S), NEW I \in SUBSET (DOMAIN s)
  PROVE  /\ Subsequence(s, I) \in Seq(S)
         /\ Len(Subsequence(s, I)) = Cardinality(I) /\ Cardinality(I) \in Nat
         /\ \A j \in DOMAIN Subsequence(s, I) :
              Place(I, j) \in I /\ Subsequence(s, I)[j] = s[Place(I, j)]
         /\ \A j, k \in DOMAIN Subsequence(s, I) : Place(I, j) = Place(I, k) => j = k
         /\ \A i \in I : \E j \in DOMAIN Subsequence(s, I) : Place(I, j) = i
<1> DEFINE n == Len(s)  c == Cardinality(I)  t == Subsequence(s, I)
<1>1. n \in Nat /\ DOMAIN s = 1..n /\ I \in SUBSET (1..n) /\ \A i \in I : s[i] \in S
  OBVIOUS
<1>2. c \in Nat
  BY <1>1, PlacesFinite
<1>3. \A j \in 1..c : Place(I, j) \in I /\ Cardinality(UpTo(I, Place(I, j))) = j
  BY <1>1, PlaceFinds
<1>4. t = [j \in 1..c |-> s[Place(I, j)]]
  BY DEF Subsequence
<1>5. t \in [1..c -> S] /\ DOMAIN t = 1..c /\ \A j \in 1..c : t[j] = s[Place(I, j)]
  BY <1>1, <1>3, <1>4
<1>6. t \in Seq(S) /\ Len(t) = c
  <2> HIDE DEF t, c
  <2> QED BY <1>2, <1>5
<1>7. ASSUME NEW i \in I PROVE \E j \in 1..c : Place(I, j) = i
  <2> DEFINE j == Cardinality(UpTo(I, i))
  <2>1. j \in 1..c
    BY <1>1, UpToGrows
  <2>2. Place(I, j) \in I /\ Cardinality(UpTo(I, Place(I, j))) = j
    BY <1>3, <2>1
  <2>3. ASSUME NEW p \in I, Cardinality(UpTo(I, p)) = j PROVE p = i
    <3>1. p < i => Cardinality(UpTo(I, p)) < Cardinality(UpTo(I, i))
      BY <1>1, UpToGrows
    <3>2. i < p => Cardinality(UpTo(I, i)) < Cardinality(UpTo(I, p))
      BY <1>1, UpToGrows
    <3> QED BY <1>1, <1>2, <2>1, <2>3, <3>1, <3>2
  <2> QED BY <2>1, <2>2, <2>3
<1> QED
  <2> HIDE DEF t, c
  <2>1. \A j, k \in 1..c : Place(I, j) = Place(I, k) => j = k
    BY <1>3
  <2>2. /\ t \in Seq(S) /\ Len(t) = c /\ c \in Nat
        /\ \A j \in DOMAIN t : Place(I, j) \in I /\ t[j] = s[Place(I, j)]
        /\ \A j, k \in DOMAIN t : Place(I, j) = Place(I, k) => j = k
        /\ \A i \in I : \E j \in DOMAIN t : Place(I, j) = i
    BY <1>2, <1>3, <1>5, <1>6, <1>7, <2>1
  <2> QED BY <2>2 DEF t, c
=============================================================================
