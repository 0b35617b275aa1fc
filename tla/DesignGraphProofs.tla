-------------------------- MODULE DesignGraphProofs -------------------------
(***************************************************************************)
(* The graph of a construct script: its wiring, its sort and its names,    *)
(* for every script and any number of sweeps.                              *)
(*                                                                         *)
(* The argument.  The sort is right for any set of edges as far as it gets *)
(* (IsOrder), and gets through when there is no cycle (Acyclic).  That the *)
(* graph never has one is seen from a rank that grows along its edges and  *)
(* is the same for a node and all its instances (Ranked): connect can      *)
(* raise the rank of a whole cone, and a sweep need not change it at all.  *)
(* While the helper is at work, each of its calls has replaced a node      *)
(* (own) and waits for dependents of a higher rank, so nothing that it     *)
(* does further down touches the instances that the calls above have made  *)
(* (Calling), and the edges of replaced nodes are those to waiting         *)
(* dependents (Edged).  No name is the beginning of another (Antichain,    *)
(* Gone): the instances of a node meet no name in use.                     *)
(*                                                                         *)
(* Induction over the naturals is on a set, recursive functions are met    *)
(* through their equations (Inductive, Recursion).                         *)
(***************************************************************************)
EXTENDS DesignGraph, FiniteSetTheorems, SequenceTheorems, TLAPS

Pair == Nat \X Nat
Names == (Base \cup {0, 1}) \X Seq(Pair)

-----------------------------------------------------------------------------
(* Induction and recursion over the naturals, with sets in place of        *)
(* predicates and functions in place of operators.                         *)

LEMMA LeastNat ==
  ASSUME NEW I \in SUBSET Nat, I # {}
  PROVE  \E m \in I : \A y \in I : m <= y
  <1> DEFINE T == {0 .. i : i \in I}
             R == StrictSubsetOrdering(Nat)
  <1>1. \A i \in I : IsFiniteSet(0 .. i)
    BY FS_Interval
  <1>2. T \subseteq FiniteSubsetsOf(Nat) /\ T # {}
    <2>1. \A i \in I : 0 .. i \in SUBSET Nat
      OBVIOUS
    <2>2. \A i \in I : 0 .. i \in FiniteSubsetsOf(Nat)
      BY <1>1, <2>1 DEF FiniteSubsetsOf
    <2>3. QED
      BY <2>2
  <1>3. IsWellFoundedOn(R, FiniteSubsetsOf(Nat))
    BY FS_StrictSubsetOrderingWellFounded
  <1> HIDE DEF R, T
  <1>4. PICK x \in T : \A y \in T : ~ (<<y, x>> \in R)
    BY <1>2, <1>3, WFMin
  <1>5. PICK m \in I : x = 0 .. m
    BY DEF T
  <1>6. ASSUME NEW y \in I PROVE m <= y
    <2>1. SUFFICES ASSUME y < m PROVE FALSE
      OBVIOUS
    <2>2. 0 .. y \in T /\ 0 .. y \subseteq 0 .. m /\ m \in 0 .. m /\ m \notin 0 .. y
      BY <2>1 DEF T
    <2>3. <<0 .. y, x>> \in R
      BY <1>5, <2>2 DEF R, StrictSubsetOrdering
    <2>4. QED
      BY <1>4, <2>2, <2>3
  <1>7. QED
    BY <1>6

LEMMA Inductive ==
  ASSUME NEW T, 0 \in T, \A k \in Nat : k \in T => k + 1 \in T
  PROVE  \A k \in Nat : k \in T
  <1>1. SUFFICES ASSUME NEW k \in Nat, k \notin T PROVE FALSE
    OBVIOUS
  <1>2. PICK m \in Nat \ T : \A y \in Nat \ T : m <= y
    BY <1>1, LeastNat
  <1>3. m # 0 /\ m - 1 \in Nat /\ m - 1 \in T
    BY <1>2
  <1>4. QED
    BY <1>2, <1>3

\* A function that is defined from its predecessor's value exists.
Recursive(g, X, c, F, a, N) ==
  /\ g \in [a .. N -> X]
  /\ g = [k \in a .. N |-> IF k = a THEN c ELSE F[<<k, g[k - 1]>>]]

LEMMA Recursion ==
  ASSUME NEW X, NEW c \in X, NEW F \in [Nat \X X -> X], NEW a \in Nat, NEW N \in Nat
  PROVE  \E g : Recursive(g, X, c, F, a, N)
  <1> DEFINE Body(g, n) == [k \in a .. n |-> IF k = a THEN c ELSE F[<<k, g[k - 1]>>]]
             T == {n \in Nat : \E g \in [a .. n -> X] : g = Body(g, n)}
  <1> HIDE DEF T
  <1>1. ASSUME NEW n \in Nat, n <= a PROVE n \in T
    <2> DEFINE g == [k \in a .. n |-> c]
    <2>1. g \in [a .. n -> X]
      OBVIOUS
    <2>2. \A k \in a .. n : k = a
      BY <1>1
    <2>3. Body(g, n) = g
      BY <2>2
    <2>4. QED
      BY <2>1, <2>3 DEF T
  <1>2. ASSUME NEW n \in Nat, n \in T PROVE n + 1 \in T
    <2>1. CASE n + 1 <= a
      BY <2>1, <1>1
    <2>2. CASE n >= a
      <3>1. PICK g \in [a .. n -> X] : g = Body(g, n)
        BY <1>2 DEF T
      <3> DEFINE h == [k \in a .. n + 1 |->
                         IF k = n + 1 THEN F[<<n + 1, g[n]>>] ELSE g[k]]
      <3>2. F[<<n + 1, g[n]>>] \in X
        BY <2>2
      <3>3. h \in [a .. n + 1 -> X]
        BY <3>2
      <3>4. ASSUME NEW k \in a .. n + 1
            PROVE  h[k] = IF k = a THEN c ELSE F[<<k, h[k - 1]>>]
        <4>1. CASE k = n + 1
          BY <2>2, <4>1
        <4>2. CASE k \in a .. n
          <5>1. h[k] = g[k] /\ g[k] = IF k = a THEN c ELSE F[<<k, g[k - 1]>>]
            BY <3>1, <4>2
          <5>2. k # a => h[k - 1] = g[k - 1]
            BY <4>2
          <5>3. QED
            BY <5>1, <5>2
        <4>3. QED
          BY <4>1, <4>2
      <3>5. h = Body(h, n + 1)
        BY <3>4
      <3>6. n + 1 \in Nat
        OBVIOUS
      <3> HIDE DEF h, Body
      <3>7. QED
        BY <3>3, <3>5, <3>6 DEF T
    <2>3. n + 1 <= a \/ n >= a
      OBVIOUS
    <2>4. QED
      BY <2>1, <2>2, <2>3
  <1>3. 0 \in T
    BY <1>1
  <1>4. N \in T
    BY <1>2, <1>3, Inductive
  <1>5. QED
    BY <1>4 DEF T, Recursive

-----------------------------------------------------------------------------
(* The order of names.                                                     *)

\* x comes first in a list sorted by Python: a part of y, or smaller where they
\* first differ.
Smaller(p, q) == p[1] < q[1] \/ (p[1] = q[1] /\ p[2] < q[2])

Before(x, y) ==
  \/ Len(x) < Len(y) /\ \A i \in 1 .. Len(x) : x[i] = y[i]
  \/ \E i \in 1 .. Len(x) :
       /\ i <= Len(y) /\ Smaller(x[i], y[i])
       /\ \A j \in 1 .. i - 1 : x[j] = y[j]

LEMMA PrefixIs ==
  ASSUME NEW S, NEW x \in Seq(S), NEW y \in Seq(S)
  PROVE  IsPrefix(x, y) <=> Len(x) <= Len(y) /\ \A i \in 1 .. Len(x) : x[i] = y[i]
  <1>1. Len(x) \in Nat /\ Len(y) \in Nat
    OBVIOUS
  <1>2. CASE Len(x) <= Len(y)
    <2>1. /\ SubSeq(x, 1, Len(x)) \in Seq(S) /\ SubSeq(y, 1, Len(x)) \in Seq(S)
          /\ Len(SubSeq(x, 1, Len(x))) = Len(x) /\ Len(SubSeq(y, 1, Len(x))) = Len(x)
          /\ \A i \in 1 .. Len(x) : /\ SubSeq(x, 1, Len(x))[i] = x[i]
                                    /\ SubSeq(y, 1, Len(x))[i] = y[i]
      BY <1>1, <1>2
    <2>2. SubSeq(x, 1, Len(x)) = SubSeq(y, 1, Len(x)) <=> \A i \in 1 .. Len(x) : x[i] = y[i]
      BY <2>1, SeqEqual
    <2>3. QED
      BY <1>2, <2>2 DEF IsPrefix
  <1>3. QED
    BY <1>1, <1>2 DEF IsPrefix

LEMMA PrecedesIs ==
  ASSUME NEW m \in Names, NEW n \in Names
  PROVE  Precedes(m, n) <=> m[1] < n[1] \/ (m[1] = n[1] /\ Before(m[2], n[2]))
  <1> DEFINE x == m[2]
             y == n[2]
  <1>1. x \in Seq(Pair) /\ y \in Seq(Pair) /\ Len(x) \in Nat /\ Len(y) \in Nat
    BY DEF Names
  <1>2. DOMAIN x = 1 .. Len(x) /\ DOMAIN y = 1 .. Len(y)
    BY <1>1
  <1>3. x # y /\ IsPrefix(x, y) <=> Len(x) < Len(y) /\ \A i \in 1 .. Len(x) : x[i] = y[i]
    BY <1>1, PrefixIs, SeqEqual
  <1>4. \A i : i \in DOMAIN x \cap DOMAIN y <=> i \in 1 .. Len(x) /\ i <= Len(y)
    BY <1>1, <1>2
  <1>5. QED
    BY <1>3, <1>4 DEF Precedes, Before, Smaller

LEMMA BeforeIsOrder ==
  ASSUME NEW x \in Seq(Pair), NEW y \in Seq(Pair), NEW z \in Seq(Pair)
  PROVE  /\ ~Before(x, x)
         /\ x = y \/ Before(x, y) \/ Before(y, x)
         /\ Before(x, y) /\ Before(y, z) => Before(x, z)
  <1>1. \A i \in 1 .. Len(x) : x[i] \in Pair
    OBVIOUS
  <1>2. \A i \in 1 .. Len(y) : y[i] \in Pair
    OBVIOUS
  <1>3. \A i \in 1 .. Len(z) : z[i] \in Pair
    OBVIOUS
  <1>4. Len(x) \in Nat /\ Len(y) \in Nat /\ Len(z) \in Nat
    OBVIOUS
  <1>5. \A p, q, r \in Pair : /\ ~Smaller(p, p)
                              /\ p = q \/ Smaller(p, q) \/ Smaller(q, p)
                              /\ Smaller(p, q) /\ Smaller(q, r) => Smaller(p, r)
    <2>1. \A p \in Pair : p[1] \in Nat /\ p[2] \in Nat /\ p = <<p[1], p[2]>>
      BY DEF Pair
    <2>2. ASSUME NEW p \in Pair, NEW q \in Pair, NEW r \in Pair
          PROVE  /\ ~Smaller(p, p)
                 /\ p = q \/ Smaller(p, q) \/ Smaller(q, p)
                 /\ Smaller(p, q) /\ Smaller(q, r) => Smaller(p, r)
      <3>1. p[1] \in Nat /\ q[1] \in Nat /\ r[1] \in Nat
            /\ p[2] \in Nat /\ q[2] \in Nat /\ r[2] \in Nat
        BY <2>1
      <3>2. p[1] = q[1] /\ p[2] = q[2] => p = q
        BY <2>1, Zenon
      <3>3. QED
        BY <3>1, <3>2 DEF Smaller
    <2>3. QED
      BY <2>2
  <1>6. ~Before(x, x)
    BY <1>1, <1>4, <1>5 DEF Before
  <1>7. x = y \/ Before(x, y) \/ Before(y, x)
    <2> DEFINE D == {i \in 1 .. Len(x) : i <= Len(y) /\ x[i] # y[i]}
    <2>1. CASE D = {}
      <3>1. Len(x) < Len(y) \/ Len(y) < Len(x) \/ Len(x) = Len(y)
        BY <1>4
      <3>2. \A i \in 1 .. Len(x) : i <= Len(y) => x[i] = y[i]
        BY <2>1
      <3>3. Len(x) = Len(y) => x = y
        BY <3>2, <1>4, SeqEqual
      <3>4. Len(x) < Len(y) => Before(x, y)
        BY <3>2, <1>4 DEF Before
      <3>5. Len(y) < Len(x) => Before(y, x)
        BY <3>2, <1>4 DEF Before
      <3>6. QED
        BY <3>1, <3>3, <3>4, <3>5
    <2>2. CASE D # {}
      <3>1. D \in SUBSET Nat
        OBVIOUS
      <3>2. PICK i \in D : \A j \in D : i <= j
        BY <2>2, <3>1, LeastNat
      <3>3. /\ i \in 1 .. Len(x) /\ i \in 1 .. Len(y) /\ i <= Len(x) /\ i <= Len(y)
            /\ x[i] # y[i] /\ \A j \in 1 .. i - 1 : x[j] = y[j]
        BY <1>4, <3>2
      <3>4. Smaller(x[i], y[i]) \/ Smaller(y[i], x[i])
        BY <1>1, <1>2, <1>5, <3>3
      <3>5. QED
        BY <3>3, <3>4 DEF Before
    <2>3. QED
      BY <2>1, <2>2
  <1>8. ASSUME Before(x, y), Before(y, z) PROVE Before(x, z)
    <2>1. CASE Len(x) < Len(y) /\ \A i \in 1 .. Len(x) : x[i] = y[i]
      <3>1. CASE Len(y) < Len(z) /\ \A i \in 1 .. Len(y) : y[i] = z[i]
        BY <1>4, <2>1, <3>1 DEF Before
      <3>2. ASSUME NEW i \in 1 .. Len(y), i <= Len(z), Smaller(y[i], z[i]),
                   \A j \in 1 .. i - 1 : y[j] = z[j]
            PROVE  Before(x, z)
        <4>1. CASE i <= Len(x)
          <5>1. i \in 1 .. Len(x) /\ x[i] = y[i]
            BY <1>4, <2>1, <4>1
          <5>2. \A j \in 1 .. i - 1 : x[j] = z[j]
            BY <1>4, <2>1, <3>2, <4>1
          <5>3. QED
            BY <3>2, <5>1, <5>2 DEF Before
        <4>2. CASE i > Len(x)
          BY <1>4, <2>1, <3>2, <4>2 DEF Before
        <4>3. QED
          BY <1>4, <4>1, <4>2
      <3>3. QED
        BY <1>8, <3>1, <3>2 DEF Before
    <2>2. ASSUME NEW i \in 1 .. Len(x), i <= Len(y), Smaller(x[i], y[i]),
                 \A j \in 1 .. i - 1 : x[j] = y[j]
          PROVE  Before(x, z)
      <3>1. CASE Len(y) < Len(z) /\ \A k \in 1 .. Len(y) : y[k] = z[k]
        <4>1. i <= Len(z) /\ y[i] = z[i] /\ \A j \in 1 .. i - 1 : y[j] = z[j]
          BY <1>4, <2>2, <3>1
        <4>2. QED
          BY <2>2, <4>1 DEF Before
      <3>2. ASSUME NEW k \in 1 .. Len(y), k <= Len(z), Smaller(y[k], z[k]),
                   \A j \in 1 .. k - 1 : y[j] = z[j]
            PROVE  Before(x, z)
        <4>1. CASE i < k
          <5>1. i <= Len(z) /\ y[i] = z[i] /\ \A j \in 1 .. i - 1 : y[j] = z[j]
            BY <1>4, <2>2, <3>2, <4>1
          <5>2. QED
            BY <2>2, <5>1 DEF Before
        <4>2. CASE k < i
          <5>1. k \in 1 .. Len(x) /\ x[k] = y[k] /\ \A j \in 1 .. k - 1 : x[j] = y[j]
            BY <1>4, <2>2, <3>2, <4>2
          <5>2. QED
            BY <3>2, <5>1 DEF Before
        <4>3. CASE i = k
          <5>1. x[i] \in Pair /\ y[i] \in Pair /\ z[i] \in Pair
            BY <1>1, <1>2, <1>3, <1>4, <2>2, <3>2, <4>3
          <5>2. Smaller(x[i], z[i])
            BY <1>5, <2>2, <3>2, <4>3, <5>1
          <5>3. \A j \in 1 .. i - 1 : x[j] = z[j]
            BY <2>2, <3>2, <4>3
          <5>4. QED
            BY <2>2, <3>2, <4>3, <5>2, <5>3 DEF Before
        <4>4. QED
          BY <1>4, <4>1, <4>2, <4>3
      <3>3. QED
        BY <1>8, <3>1, <3>2 DEF Before
    <2>3. QED
      BY <1>8, <2>1, <2>2 DEF Before
  <1>9. QED
    BY <1>6, <1>7, <1>8

LEMMA PrecedesIsOrder ==
  ASSUME NEW a \in Names, NEW b \in Names, NEW c \in Names
  PROVE  /\ ~Precedes(a, a)
         /\ a = b \/ Precedes(a, b) \/ Precedes(b, a)
         /\ Precedes(a, b) /\ Precedes(b, c) => Precedes(a, c)
  <1>1. \A n \in Names : n[1] \in Nat /\ n[2] \in Seq(Pair) /\ n = <<n[1], n[2]>>
    <2>1. Base \cup {0, 1} \subseteq Nat
      BY GraphAssumption
    <2>2. QED
      BY <2>1 DEF Names
  <1>2. ~Precedes(a, a)
    BY <1>1, PrecedesIs, BeforeIsOrder
  <1>3. a = b \/ Precedes(a, b) \/ Precedes(b, a)
    <2>1. a[1] < b[1] \/ b[1] < a[1] \/ a[1] = b[1]
      BY <1>1
    <2>2. a[2] = b[2] \/ Before(a[2], b[2]) \/ Before(b[2], a[2])
      BY <1>1, BeforeIsOrder
    <2>3. QED
      BY <1>1, <2>1, <2>2, PrecedesIs
  <1>4. Precedes(a, b) /\ Precedes(b, c) => Precedes(a, c)
    <2>1. a[1] \in Nat /\ b[1] \in Nat /\ c[1] \in Nat
      BY <1>1
    <2>2. Before(a[2], b[2]) /\ Before(b[2], c[2]) => Before(a[2], c[2])
      BY <1>1, BeforeIsOrder
    <2>3. QED
      BY <2>1, <2>2, PrecedesIs
  <1>5. QED
    BY <1>2, <1>3, <1>4

\* A sorted list has every element of the set once.
LEMMA SortedIs ==
  ASSUME NEW S \in SUBSET Names, IsFiniteSet(S)
  PROVE  /\ Cardinality(S) \in Nat
         /\ Sorted(S) \in [1 .. Cardinality(S) -> S]
         /\ \A i, j \in 1 .. Cardinality(S) : Sorted(S)[i] = Sorted(S)[j] => i = j
         /\ \A n \in S : \E i \in 1 .. Cardinality(S) : Sorted(S)[i] = n
  <1> DEFINE N == Cardinality(S)
             Less(n) == {m \in S : Precedes(m, n)}
             rank == [n \in S |-> Cardinality(Less(n))]
             I == 0 .. N - 1
  <1>1. N \in Nat
    BY FS_CardinalityType
  <1>2. ASSUME NEW n \in S
        PROVE  IsFiniteSet(Less(n)) /\ Cardinality(Less(n)) \in I
    <2>1. n \notin Less(n) /\ Less(n) \in SUBSET S
      BY PrecedesIsOrder
    <2>2. IsFiniteSet(Less(n)) /\ Cardinality(Less(n)) <= N /\ Cardinality(Less(n)) # N
      BY <2>1, FS_Subset
    <2>3. Cardinality(Less(n)) \in Nat
      BY <2>2, FS_CardinalityType
    <2>4. QED
      BY <1>1, <2>2, <2>3
  <1>3. ASSUME NEW m \in S, NEW n \in S, Precedes(m, n)
        PROVE  rank[m] < rank[n]
    <2>1. Less(m) \in SUBSET Less(n)
      BY <1>3, PrecedesIsOrder
    <2>2. m \in Less(n) /\ m \notin Less(m)
      BY <1>3, PrecedesIsOrder
    <2>3. Cardinality(Less(m)) <= Cardinality(Less(n))
          /\ Cardinality(Less(m)) # Cardinality(Less(n))
      BY <1>2, <2>1, <2>2, FS_Subset
    <2>4. Cardinality(Less(m)) \in Nat /\ Cardinality(Less(n)) \in Nat
      BY <1>2, FS_CardinalityType
    <2>5. QED
      BY <2>3, <2>4
  <1>4. rank \in [S -> I]
    BY <1>2
  <1> HIDE DEF rank
  <1>5. \A m, n \in S : rank[m] = rank[n] => m = n
    BY <1>3, <1>4, PrecedesIsOrder
  <1>6. rank \in Injection(S, I)
    BY <1>4, <1>5 DEF Injection, IsInjective
  <1>7. IsFiniteSet(I) /\ Cardinality(I) = N
    BY <1>1, FS_Interval
  <1>8. rank \in Surjection(S, I)
    BY <1>6, <1>7, FS_Injection
  <1>9. \A k \in I : \E n \in S : rank[n] = k
    BY <1>8 DEF Surjection
  <1>10. ASSUME NEW i \in 1 .. N
         PROVE  Sorted(S)[i] \in S /\ rank[Sorted(S)[i]] = i - 1
    <2>1. \E n \in S : Cardinality(Less(n)) = i - 1
      <3>1. i - 1 \in I
        BY <1>1
      <3>2. PICK n \in S : rank[n] = i - 1
        BY <1>9, <3>1
      <3>3. QED
        BY <3>2 DEF rank
    <2>2. Sorted(S)[i] = CHOOSE n \in S : Cardinality(Less(n)) = i - 1
      BY DEF Sorted
    <2>3. Sorted(S)[i] \in S /\ Cardinality(Less(Sorted(S)[i])) = i - 1
      BY <2>1, <2>2
    <2>4. QED
      BY <2>3 DEF rank
  <1>11. Sorted(S) \in [1 .. N -> S]
    BY <1>10 DEF Sorted
  <1>12. \A i, j \in 1 .. N : Sorted(S)[i] = Sorted(S)[j] => i = j
    BY <1>1, <1>10
  <1>13. ASSUME NEW n \in S PROVE \E i \in 1 .. N : Sorted(S)[i] = n
    <2>1. rank[n] + 1 \in 1 .. N
      BY <1>1, <1>4
    <2>2. rank[Sorted(S)[rank[n] + 1]] = rank[n] /\ Sorted(S)[rank[n] + 1] \in S
      BY <1>1, <1>4, <1>10, <2>1
    <2>3. QED
      BY <1>5, <2>1, <2>2
  <1>14. QED
    BY <1>1, <1>11, <1>12, <1>13

-----------------------------------------------------------------------------
(* The topological sort.                                                   *)

LEMMA SettledIs ==
  ASSUME NEW S, IsFiniteSet(S), NEW E
  PROVE  /\ Cardinality(S) \in Nat
         /\ Settled(S, E) \in [0 .. Cardinality(S) -> SUBSET S]
         /\ Settled(S, E)[0] = {}
         /\ \A k \in 1 .. Cardinality(S) :
              Settled(S, E)[k] = {n \in S : SourcesIn(E, n) \subseteq Settled(S, E)[k - 1]}
  <1> DEFINE N == Cardinality(S)
             Body(g) == [k \in 0 .. N |->
                           IF k = 0 THEN {}
                           ELSE {n \in S : SourcesIn(E, n) \subseteq g[k - 1]}]
             F == [a \in Nat \X SUBSET S |-> {n \in S : SourcesIn(E, n) \subseteq a[2]}]
  <1>1. N \in Nat
    BY FS_CardinalityType
  <1>2. F \in [Nat \X SUBSET S -> SUBSET S]
    OBVIOUS
  <1> HIDE DEF N, F
  <1>3. PICK g \in [0 .. N -> SUBSET S] :
          g = [k \in 0 .. N |-> IF k = 0 THEN {} ELSE F[<<k, g[k - 1]>>]]
    <2> DEFINE X == SUBSET S
               c == {}
    <2>1. c \in X /\ 0 \in Nat
      OBVIOUS
    <2>2. F \in [Nat \X X -> X]
      BY <1>2
    <2> HIDE DEF X, c
    <2>3. \E g : Recursive(g, X, c, F, 0, N)
      BY <1>1, <2>1, <2>2, Recursion
    <2>4. QED
      BY <2>3 DEF X, c, Recursive
  <1>4. ASSUME NEW k \in 1 .. N
        PROVE  F[<<k, g[k - 1]>>] = {n \in S : SourcesIn(E, n) \subseteq g[k - 1]}
    <2>1. k \in Nat /\ g[k - 1] \in SUBSET S
      BY <1>1, <1>3
    <2>2. <<k, g[k - 1]>> \in Nat \X SUBSET S
      BY <2>1
    <2>3. QED
      BY <2>2 DEF F
  <1>5. g = Body(g)
    <2>1. ASSUME NEW k \in 0 .. N PROVE g[k] = Body(g)[k]
      <3>1. g[k] = IF k = 0 THEN {} ELSE F[<<k, g[k - 1]>>]
        BY <1>3
      <3>2. Body(g)[k] = IF k = 0 THEN {}
                         ELSE {n \in S : SourcesIn(E, n) \subseteq g[k - 1]}
        OBVIOUS
      <3>3. k # 0 => k \in 1 .. N
        BY <1>1
      <3> HIDE DEF Body
      <3>4. QED
        BY <1>4, <3>1, <3>2, <3>3
    <2>2. g = [k \in 0 .. N |-> g[k]]
      OBVIOUS
    <2>3. Body(g) = [k \in 0 .. N |-> Body(g)[k]]
      OBVIOUS
    <2> HIDE DEF Body
    <2>4. QED
      BY <2>1, <2>2, <2>3
  <1>6. Settled(S, E) = CHOOSE h : h = Body(h)
    BY DEF Settled, N
  <1> HIDE DEF Body
  <1>7. Settled(S, E) = Body(Settled(S, E))
    BY <1>5, <1>6
  <1> DEFINE f == Settled(S, E)
  <1>8. f[0] = {}
    <2>1. Body(f)[0] = {}
      BY <1>1 DEF Body
    <2>2. QED
      BY <1>7, <2>1
  <1>9. ASSUME NEW k \in 1 .. N
        PROVE  f[k] = {n \in S : SourcesIn(E, n) \subseteq f[k - 1]}
    <2>1. Body(f)[k] = {n \in S : SourcesIn(E, n) \subseteq f[k - 1]}
      BY <1>1 DEF Body
    <2>2. QED
      BY <1>7, <2>1
  <1>10. f = [k \in 0 .. N |-> f[k]]
    BY <1>7 DEF Body
  <1>11. ASSUME NEW k \in 0 .. N PROVE f[k] \in SUBSET S
    <2>1. k = 0 \/ k \in 1 .. N
      BY <1>1
    <2>2. QED
      BY <1>8, <1>9, <2>1
  <1>12. f \in [0 .. N -> SUBSET S]
    BY <1>10, <1>11
  <1>13. QED
    BY <1>1, <1>8, <1>9, <1>12 DEF N

LEMMA FlattenIs ==
  ASSUME NEW S, NEW N \in Nat \ {0}, NEW s \in [1 .. N -> Seq(S)]
  PROVE  \E f \in [1 .. N -> Seq(S)] :
           /\ f[1] = s[1]
           /\ \A k \in 2 .. N : f[k] = f[k - 1] \o s[k]
           /\ FlattenSeq(s) = f[N]
  <1> DEFINE Body(g) == [i \in 1 .. N |-> IF i = 1 THEN s[i] ELSE g[i - 1] \o s[i]]
             F == [a \in Nat \X Seq(S) |-> IF a[1] \in 1 .. N THEN a[2] \o s[a[1]] ELSE a[2]]
  <1>1. F \in [Nat \X Seq(S) -> Seq(S)]
    OBVIOUS
  <1> HIDE DEF F
  <1>2. PICK g \in [1 .. N -> Seq(S)] :
          g = [k \in 1 .. N |-> IF k = 1 THEN s[1] ELSE F[<<k, g[k - 1]>>]]
    <2> DEFINE X == Seq(S)
               c == s[1]
    <2>1. c \in X /\ 1 \in Nat /\ N \in Nat
      OBVIOUS
    <2>2. F \in [Nat \X X -> X]
      BY <1>1
    <2> HIDE DEF X, c
    <2>3. \E g : Recursive(g, X, c, F, 1, N)
      BY <2>1, <2>2, Recursion
    <2>4. QED
      BY <2>3 DEF X, c, Recursive
  <1>3. ASSUME NEW k \in 2 .. N
        PROVE  F[<<k, g[k - 1]>>] = g[k - 1] \o s[k]
    <2>1. <<k, g[k - 1]>> \in Nat \X Seq(S) /\ k \in 1 .. N
      <3>1. k - 1 \in 1 .. N /\ k \in 1 .. N
        OBVIOUS
      <3>2. QED
        BY <1>2, <3>1
    <2> DEFINE a == <<k, g[k - 1]>>
    <2>2. a[1] = k /\ a[2] = g[k - 1]
      OBVIOUS
    <2> HIDE DEF a
    <2>3. F[a] = a[2] \o s[a[1]]
      BY <2>1, <2>2 DEF F, a
    <2>4. QED
      BY <2>2, <2>3 DEF a
  <1>4. g = Body(g)
    <2>1. ASSUME NEW k \in 1 .. N PROVE g[k] = Body(g)[k]
      <3>1. g[k] = IF k = 1 THEN s[1] ELSE F[<<k, g[k - 1]>>]
        BY <1>2
      <3>2. Body(g)[k] = IF k = 1 THEN s[k] ELSE g[k - 1] \o s[k]
        OBVIOUS
      <3>3. k # 1 => k \in 2 .. N
        OBVIOUS
      <3> HIDE DEF Body
      <3>4. QED
        BY <1>3, <3>1, <3>2, <3>3
    <2>2. g = [k \in 1 .. N |-> g[k]]
      OBVIOUS
    <2>3. Body(g) = [k \in 1 .. N |-> Body(g)[k]]
      OBVIOUS
    <2> HIDE DEF Body
    <2>4. QED
      BY <2>1, <2>2, <2>3
  <1>5. Len(s) = N
    OBVIOUS
  <1> DEFINE h == CHOOSE h : h = Body(h)
  <1>6. FlattenSeq(s) = h[N]
    BY <1>5 DEF FlattenSeq
  <1> HIDE DEF Body, h
  <1>7. h = Body(h)
    BY <1>4 DEF h
  <1>8. /\ h[1] = s[1]
        /\ \A k \in 2 .. N : h[k] = h[k - 1] \o s[k]
    <2>1. Body(h)[1] = s[1]
      BY DEF Body
    <2>2. ASSUME NEW k \in 2 .. N PROVE h[k] = h[k - 1] \o s[k]
      <3>1. k \in 1 .. N /\ k # 1
        OBVIOUS
      <3>2. Body(h)[k] = h[k - 1] \o s[k]
        BY <3>1 DEF Body
      <3>3. QED
        BY <1>7, <3>2
    <2>3. QED
      BY <1>7, <2>1, <2>2
  <1>9. h = [k \in 1 .. N |-> h[k]]
    BY <1>7 DEF Body
  <1>10. \A k \in Nat : k \in {i \in Nat : i \in 1 .. N => h[i] \in Seq(S)}
    <2> DEFINE T == {i \in Nat : i \in 1 .. N => h[i] \in Seq(S)}
    <2>1. 0 \in T
      OBVIOUS
    <2>2. ASSUME NEW k \in Nat, k \in T PROVE k + 1 \in T
      <3>1. CASE k + 1 \notin 1 .. N
        BY <3>1
      <3>2. CASE k = 0
        BY <1>8, <3>2
      <3>3. CASE k \in 1 .. N /\ k + 1 \in 1 .. N
        <4>1. h[k] \in Seq(S) /\ s[k + 1] \in Seq(S)
          BY <2>2, <3>3
        <4>2. h[k + 1] = h[k] \o s[k + 1]
          <5>1. k + 1 \in 2 .. N /\ (k + 1) - 1 = k
            BY <3>3
          <5>2. h[k + 1] = h[(k + 1) - 1] \o s[k + 1]
            BY <1>8, <5>1
          <5>3. QED
            BY <5>1, <5>2
        <4>3. h[k + 1] \in Seq(S)
          BY <4>1, <4>2
        <4>4. QED
          BY <4>3
      <3>4. k = 0 \/ k + 1 \notin 1 .. N \/ (k \in 1 .. N /\ k + 1 \in 1 .. N)
        OBVIOUS
      <3>5. QED
        BY <3>1, <3>2, <3>3, <3>4
    <2> HIDE DEF T
    <2>3. \A k \in Nat : k \in T
      BY <2>1, <2>2, Inductive
    <2>4. QED
      BY <2>3 DEF T
  <1>11. \A k \in 1 .. N : h[k] \in Seq(S)
    BY <1>10
  <1>12. h \in [1 .. N -> Seq(S)]
    BY <1>9, <1>11
  <1>13. QED
    BY <1>6, <1>8, <1>12

\* F is an order of the nodes of R: every node once, sources first.
IsOrder(F, R, E) ==
  /\ F \in Seq(Names)
  /\ \A i, j \in 1 .. Len(F) : F[i] = F[j] => i = j
  /\ \A i \in 1 .. Len(F) : F[i] \in R
  /\ \A n \in R : \E i \in 1 .. Len(F) : F[i] = n
  /\ \A i, j \in 1 .. Len(F) : <<F[i], F[j]>> \in E => i < j

LEMMA OrderExtends ==
  ASSUME NEW Q \in SUBSET Names, NEW R \in SUBSET Q, NEW E, NEW F, IsOrder(F, R, E),
         NEW m \in Nat, NEW B \in [1 .. m -> Q \ R],
         \A i, j \in 1 .. m : B[i] = B[j] => i = j,
         \A n \in Q \ R : \E i \in 1 .. m : B[i] = n,
         \A n \in Q : SourcesIn(E, n) \subseteq R
  PROVE  IsOrder(F \o B, Q, E)
  <1> DEFINE G == F \o B
             l == Len(F)
  <1>1. F \in Seq(Names) /\ l \in Nat
    BY DEF IsOrder
  <1>2. B \in Seq(Names) /\ Len(B) = m
    OBVIOUS
  <1>3. G \in Seq(Names) /\ Len(G) = l + m
        /\ \A i \in 1 .. l + m : G[i] = IF i <= l THEN F[i] ELSE B[i - l]
    <2>1. /\ G \in Seq(Names) /\ Len(G) = Len(F) + Len(B)
          /\ \A i \in 1 .. Len(F) + Len(B) : G[i] = IF i <= Len(F) THEN F[i] ELSE B[i - Len(F)]
      <3>1. G \in Seq(Names) /\ Len(G) = Len(F) + Len(B)
        BY <1>1, <1>2
      <3>2. ASSUME NEW i \in 1 .. Len(F) + Len(B)
            PROVE  G[i] = IF i <= Len(F) THEN F[i] ELSE B[i - Len(F)]
        BY <1>1, <1>2
      <3>3. QED
        BY <3>1, <3>2
    <2> HIDE DEF G
    <2>2. QED
      BY <1>2, <2>1
  <1> HIDE DEF G
  <1>4. ASSUME NEW i \in 1 .. l + m
        PROVE  /\ i <= l => i \in 1 .. l /\ G[i] = F[i] /\ G[i] \in R
               /\ i > l => i - l \in 1 .. m /\ G[i] = B[i - l] /\ G[i] \in Q \ R
    <2>1. CASE i <= l
      BY <1>1, <1>3, <2>1 DEF IsOrder
    <2>2. CASE i > l
      BY <1>1, <1>3, <2>2
    <2>3. QED
      BY <1>1, <2>1, <2>2
  <1>5. ASSUME NEW i \in 1 .. l + m, NEW j \in 1 .. l + m, G[i] = G[j]
        PROVE  i = j
    <2>1. CASE i <= l /\ j <= l
      BY <1>4, <1>5, <2>1 DEF IsOrder
    <2>2. CASE i > l /\ j > l
      <3>1. i - l = j - l
        BY <1>4, <1>5, <2>2
      <3>2. QED
        BY <1>1, <3>1
    <2>3. CASE i <= l /\ j > l
      BY <1>4, <1>5, <2>3
    <2>4. CASE i > l /\ j <= l
      BY <1>4, <1>5, <2>4
    <2>5. QED
      BY <1>1, <2>1, <2>2, <2>3, <2>4
  <1>6. \A i \in 1 .. l + m : G[i] \in Q
    BY <1>1, <1>4
  <1>7. ASSUME NEW n \in Q PROVE \E i \in 1 .. l + m : G[i] = n
    <2>1. CASE n \in R
      <3>1. PICK i \in 1 .. l : F[i] = n
        BY <2>1 DEF IsOrder
      <3>2. i \in 1 .. l + m /\ i <= l
        BY <1>1
      <3>3. QED
        BY <1>3, <3>1, <3>2
    <2>2. CASE n \in Q \ R
      <3>1. PICK i \in 1 .. m : B[i] = n
        BY <2>2
      <3>2. i + l \in 1 .. l + m /\ ~(i + l <= l) /\ (i + l) - l = i
        BY <1>1
      <3>3. QED
        BY <1>3, <3>1, <3>2
    <2>3. QED
      BY <2>1, <2>2
  <1>8. ASSUME NEW i \in 1 .. l + m, NEW j \in 1 .. l + m, <<G[i], G[j]>> \in E
        PROVE  i < j
    <2>1. G[i] \in SourcesIn(E, G[j])
      BY <1>8 DEF SourcesIn
    <2>2. G[i] \in R
      BY <1>6, <2>1
    <2>3. i <= l
      BY <1>1, <1>4, <2>2
    <2>4. CASE j <= l
      BY <1>4, <1>8, <2>3, <2>4 DEF IsOrder
    <2>5. CASE j > l
      BY <1>1, <2>3, <2>5
    <2>6. QED
      BY <1>1, <2>4, <2>5
  <1>9. IsOrder(G, Q, E)
    BY <1>3, <1>5, <1>6, <1>7, <1>8 DEF IsOrder
  <1>10. QED
    BY <1>9 DEF G

\* Each round keeps what is settled.
LEMMA SettledGrows ==
  ASSUME NEW S, IsFiniteSet(S), NEW E
  PROVE  \A k \in 1 .. Cardinality(S) : Settled(S, E)[k - 1] \subseteq Settled(S, E)[k]
  <1> DEFINE N == Cardinality(S)
             f == Settled(S, E)
             T == {k \in Nat : k + 1 \in 1 .. N => f[k] \subseteq f[k + 1]}
  <1>1. /\ N \in Nat /\ f \in [0 .. N -> SUBSET S] /\ f[0] = {}
        /\ \A k \in 1 .. N : f[k] = {n \in S : SourcesIn(E, n) \subseteq f[k - 1]}
    BY SettledIs
  <1> HIDE DEF N, f
  <1>2. 0 \in T
    BY <1>1
  <1>3. ASSUME NEW k \in Nat, k \in T PROVE k + 1 \in T
    <2>1. SUFFICES ASSUME (k + 1) + 1 \in 1 .. N PROVE f[k + 1] \subseteq f[(k + 1) + 1]
      OBVIOUS
    <2>2. k + 1 \in 1 .. N /\ (k + 1) - 1 = k /\ ((k + 1) + 1) - 1 = k + 1
      BY <1>1, <2>1
    <2>3. f[k + 1] = {n \in S : SourcesIn(E, n) \subseteq f[k]}
      <3>1. f[k + 1] = {n \in S : SourcesIn(E, n) \subseteq f[(k + 1) - 1]}
        BY <1>1, <2>2
      <3>2. QED
        BY <2>2, <3>1
    <2>4. f[(k + 1) + 1] = {n \in S : SourcesIn(E, n) \subseteq f[k + 1]}
      <3>1. f[(k + 1) + 1] = {n \in S : SourcesIn(E, n) \subseteq f[((k + 1) + 1) - 1]}
        BY <1>1, <2>1
      <3>2. QED
        BY <2>2, <3>1
    <2>5. f[k] \subseteq f[k + 1]
      BY <1>3, <2>2
    <2>6. QED
      BY <2>3, <2>4, <2>5
  <1> HIDE DEF T
  <1>4. \A k \in Nat : k \in T
    BY <1>2, <1>3, Inductive
  <1>5. ASSUME NEW k \in 1 .. N PROVE f[k - 1] \subseteq f[k]
    <2>1. k - 1 \in Nat /\ (k - 1) + 1 = k /\ k - 1 \in T
      BY <1>1, <1>4
    <2>2. QED
      BY <2>1 DEF T
  <1>6. QED
    BY <1>5 DEF N, f

\* The sort of S is an order of what its rounds settle.
LEMMA SortIsOrder ==
  ASSUME NEW S \in SUBSET Names, IsFiniteSet(S), NEW E
  PROVE  IsOrder(TopologicalSort(S, E), Settled(S, E)[Cardinality(S)], E)
  <1> DEFINE N == Cardinality(S)
             f == Settled(S, E)
             s == [k \in 1 .. N |-> Sorted(f[k] \ f[k - 1])]
  <1>1. /\ N \in Nat /\ f \in [0 .. N -> SUBSET S] /\ f[0] = {}
        /\ \A k \in 1 .. N : f[k] = {n \in S : SourcesIn(E, n) \subseteq f[k - 1]}
    BY SettledIs
  <1>2. \A k \in 1 .. N : f[k - 1] \subseteq f[k]
    BY SettledGrows
  <1>3. TopologicalSort(S, E) = FlattenSeq(s)
    BY DEF TopologicalSort
  <1> HIDE DEF N, f
  <1>4. ASSUME NEW k \in 1 .. N
        PROVE  \E m \in Nat : /\ s[k] \in [1 .. m -> f[k] \ f[k - 1]]
                              /\ \A i, j \in 1 .. m : s[k][i] = s[k][j] => i = j
                              /\ \A n \in f[k] \ f[k - 1] : \E i \in 1 .. m : s[k][i] = n
    <2> DEFINE D == f[k] \ f[k - 1]
    <2>1. D \in SUBSET Names /\ IsFiniteSet(D)
      <3>1. k \in 0 .. N /\ D \in SUBSET S
        BY <1>1
      <3>2. QED
        BY <3>1, FS_Subset
    <2>2. s[k] = Sorted(D)
      OBVIOUS
    <2> HIDE DEF D, s
    <2>3. /\ Cardinality(D) \in Nat
          /\ Sorted(D) \in [1 .. Cardinality(D) -> D]
          /\ \A i, j \in 1 .. Cardinality(D) : Sorted(D)[i] = Sorted(D)[j] => i = j
          /\ \A n \in D : \E i \in 1 .. Cardinality(D) : Sorted(D)[i] = n
      BY <2>1, SortedIs
    <2> DEFINE m == Cardinality(D)
    <2>4. /\ m \in Nat /\ s[k] \in [1 .. m -> D]
          /\ \A i, j \in 1 .. m : s[k][i] = s[k][j] => i = j
          /\ \A n \in D : \E i \in 1 .. m : s[k][i] = n
      BY <2>2, <2>3
    <2> HIDE DEF m
    <2>5. QED
      BY <2>4 DEF D
  <1>5. DOMAIN s = 1 .. N /\ Len(s) = N
    BY <1>1
  <1>6. ASSUME NEW k \in 1 .. N PROVE s[k] \in Seq(Names)
    <2>1. PICK m \in Nat : s[k] \in [1 .. m -> f[k] \ f[k - 1]]
      BY <1>4
    <2>2. f[k] \ f[k - 1] \subseteq Names
      BY <1>1
    <2> HIDE DEF s
    <2>3. s[k] \in [1 .. m -> Names]
      BY <2>1, <2>2
    <2> DEFINE q == s[k]
    <2>4. q \in [1 .. m -> Names]
      BY <2>3
    <2> HIDE DEF q
    <2>5. q \in Seq(Names)
      BY <2>4
    <2>6. QED
      BY <2>5 DEF q
  <1>7. CASE N = 0
    <2>1. FlattenSeq(s) = s /\ s = <<>>
      BY <1>5, <1>7 DEF FlattenSeq
    <2>2. IsOrder(<<>>, {}, E)
      BY DEF IsOrder
    <2>3. QED
      BY <1>1, <1>3, <1>7, <2>1, <2>2 DEF f, N
  <1>8. CASE N # 0
    <2>1. s \in [1 .. N -> Seq(Names)]
      BY <1>6
    <2>2. PICK g \in [1 .. N -> Seq(Names)] :
            /\ g[1] = s[1]
            /\ \A k \in 2 .. N : g[k] = g[k - 1] \o s[k]
            /\ FlattenSeq(s) = g[N]
      BY <1>1, <1>8, <2>1, FlattenIs
    <2> HIDE DEF s
    <2> DEFINE T == {k \in Nat : k \in 1 .. N => IsOrder(g[k], f[k], E)}
    <2>3. ASSUME NEW k \in 1 .. N, NEW F, IsOrder(F, f[k - 1], E)
          PROVE  IsOrder(F \o s[k], f[k], E)
      <3> DEFINE Q == f[k]
                 R == f[k - 1]
                 B == s[k]
      <3>1. PICK m \in Nat : /\ B \in [1 .. m -> Q \ R]
                             /\ \A i, j \in 1 .. m : B[i] = B[j] => i = j
                             /\ \A n \in Q \ R : \E i \in 1 .. m : B[i] = n
        BY <1>4
      <3>2. Q \in SUBSET Names /\ R \in SUBSET Q
        BY <1>1, <1>2
      <3>3. \A n \in Q : SourcesIn(E, n) \subseteq R
        BY <1>1
      <3>4. IsOrder(F, R, E)
        BY <2>3
      <3> HIDE DEF Q, R, B
      <3>5. IsOrder(F \o B, Q, E)
        BY <3>1, <3>2, <3>3, <3>4, OrderExtends
      <3>6. QED
        BY <3>5 DEF Q, B
    <2>4. 0 \in T
      OBVIOUS
    <2>5. ASSUME NEW k \in Nat, k \in T PROVE k + 1 \in T
      <3>1. SUFFICES ASSUME k + 1 \in 1 .. N PROVE IsOrder(g[k + 1], f[k + 1], E)
        OBVIOUS
      <3>2. (k + 1) - 1 = k /\ (k = 0 \/ (k \in 1 .. N /\ k + 1 \in 2 .. N))
        BY <1>1, <3>1
      <3>3. CASE k = 0
        <4>1. IsOrder(<<>>, f[0], E)
          BY <1>1 DEF IsOrder
        <4>2. IsOrder(<<>> \o s[1], f[1], E)
          <5>1. 1 \in 1 .. N /\ 1 - 1 = 0
            BY <3>1, <3>3
          <5>2. QED
            BY <2>3, <4>1, <5>1
        <4>3. <<>> \o s[1] = s[1]
          BY <1>6, <3>1, <3>3, ConcatEmptySeq
        <4>4. QED
          BY <2>2, <3>3, <4>2, <4>3
      <3>4. CASE k \in 1 .. N /\ k + 1 \in 2 .. N
        <4>1. IsOrder(g[k], f[k], E)
          BY <2>5, <3>4
        <4>2. IsOrder(g[k] \o s[k + 1], f[k + 1], E)
          BY <2>3, <3>1, <3>2, <4>1
        <4>3. g[k + 1] = g[k] \o s[k + 1]
          <5>1. g[k + 1] = g[(k + 1) - 1] \o s[k + 1]
            BY <2>2, <3>4
          <5>2. QED
            BY <3>2, <5>1
        <4>4. QED
          BY <4>2, <4>3
      <3>5. QED
        BY <3>2, <3>3, <3>4
    <2> HIDE DEF T
    <2>6. N \in T
      BY <1>1, <2>4, <2>5, Inductive
    <2>7. IsOrder(g[N], f[N], E)
      BY <1>1, <1>8, <2>6 DEF T
    <2>8. QED
      BY <1>3, <2>2, <2>7 DEF f, N
  <1>9. QED
    BY <1>7, <1>8

LEMMA FullSortSettles ==
  ASSUME NEW S \in SUBSET Names, IsFiniteSet(S), NEW E,
         Len(TopologicalSort(S, E)) = Cardinality(S)
  PROVE  IsOrder(TopologicalSort(S, E), S, E)
  <1> DEFINE F == TopologicalSort(S, E)
             R == Settled(S, E)[Cardinality(S)]
             N == Cardinality(S)
  <1>1. N \in Nat /\ R \in SUBSET S
    <2>1. N \in Nat /\ Settled(S, E) \in [0 .. N -> SUBSET S]
      BY SettledIs
    <2>2. QED
      BY <2>1
  <1>2. IsOrder(F, R, E) /\ Len(F) = N
    BY SortIsOrder
  <1> HIDE DEF F, R, N
  <1>3. F \in [1 .. N -> R] /\ F \in [1 .. N -> S]
    BY <1>1, <1>2 DEF IsOrder
  <1>4. F \in Injection(1 .. N, S)
    BY <1>2, <1>3 DEF IsOrder, Injection, IsInjective
  <1>5. Cardinality(1 .. N) = Cardinality(S)
    BY <1>1, FS_Interval DEF N
  <1>6. F \in Surjection(1 .. N, S)
    BY <1>4, <1>5, FS_Injection
  <1>7. S \subseteq R
    BY <1>3, <1>6 DEF Surjection
  <1>8. R = S
    BY <1>1, <1>7
  <1>9. QED
    BY <1>2, <1>8 DEF F

-----------------------------------------------------------------------------
(* Types.                                                                  *)

GraphTyped ==
  /\ nodes \in SUBSET Names /\ IsFiniteSet(nodes)
  /\ edgesIn \in SUBSET (Names \X Names) /\ IsFiniteSet(edgesIn)
  /\ edgesOut \in SUBSET (Names \X Names) /\ IsFiniteSet(edgesOut)
  /\ subgraphs \in SUBSET Names

ValueTyped == DOMAIN value = nodes /\ \A n \in nodes : value[n] \in [Params(n) -> Nat]

PortsTyped ==
  /\ inputs \in SUBSET Names /\ IsFiniteSet(inputs)
  /\ outputs \in SUBSET Names /\ IsFiniteSet(outputs)

WalkTyped ==
  /\ \/ sweep = Idle
     \/ sweep.root \in Names /\ sweep.param \in Params(sweep.root) /\ sweep.values \in Lists
  /\ newSrc \in SUBSET Names /\ visited \in SUBSET newSrc
  /\ stack \in Seq(Seq(Names))
  /\ stack = <<>> <=> ~Sweeping

RunTyped ==
  /\ status \in {"script", "raised", "ready", "refused"}
  /\ status # "script" => ~Sweeping
  /\ sweeps \in 0 .. MaxSweeps
  /\ order \in Seq(Names)

TInv == GraphTyped /\ ValueTyped /\ PortsTyped /\ WalkTyped /\ RunTyped

LEMMA ImageFinite ==
  ASSUME NEW S, IsFiniteSet(S), NEW T, NEW f \in [S -> T]
  PROVE  IsFiniteSet({f[x] : x \in S})
  <1>1. f \in Surjection(S, {f[x] : x \in S})
    BY DEF Surjection
  <1>2. QED
    BY <1>1, FS_Surjection

LEMMA NeighboursFinite ==
  ASSUME NEW E \in SUBSET (Names \X Names), IsFiniteSet(E), NEW n
  PROVE  /\ SourcesIn(E, n) \in SUBSET Names /\ IsFiniteSet(SourcesIn(E, n))
         /\ Dependents(E, n) \in SUBSET Names /\ IsFiniteSet(Dependents(E, n))
  <1>1. SourcesIn(E, n) \in SUBSET Names /\ IsFiniteSet(SourcesIn(E, n))
    <2> DEFINE S == {x \in E : x[2] = n}
               f == [e \in S |-> e[1]]
    <2>1. IsFiniteSet(S)
      BY FS_Subset
    <2>2. f \in [S -> Names]
      OBVIOUS
    <2>3. IsFiniteSet({f[e] : e \in S})
      <3> HIDE DEF S, f
      <3>1. QED
        BY <2>1, <2>2, ImageFinite
    <2>4. SourcesIn(E, n) = {f[e] : e \in S}
      BY DEF SourcesIn
    <2>5. QED
      BY <2>2, <2>3, <2>4
  <1>2. Dependents(E, n) \in SUBSET Names /\ IsFiniteSet(Dependents(E, n))
    <2> DEFINE S == {x \in E : x[1] = n}
               f == [e \in S |-> e[2]]
    <2>1. IsFiniteSet(S)
      BY FS_Subset
    <2>2. f \in [S -> Names]
      OBVIOUS
    <2>3. IsFiniteSet({f[e] : e \in S})
      <3> HIDE DEF S, f
      <3>1. QED
        BY <2>1, <2>2, ImageFinite
    <2>4. Dependents(E, n) = {f[e] : e \in S}
      BY DEF Dependents
    <2>5. QED
      BY <2>2, <2>3, <2>4
  <1>3. QED
    BY <1>1, <1>2

LEMMA TargetsFinite ==
  ASSUME NEW E \in SUBSET (Names \X Names), IsFiniteSet(E)
  PROVE  {e[2] : e \in E} \in SUBSET Names /\ IsFiniteSet({e[2] : e \in E})
  <1> DEFINE f == [e \in E |-> e[2]]
  <1>1. f \in [E -> Names]
    OBVIOUS
  <1>2. {e[2] : e \in E} = {f[e] : e \in E}
    OBVIOUS
  <1>3. IsFiniteSet({f[e] : e \in E})
    <2> HIDE DEF f
    <2>1. QED
      BY <1>1, ImageFinite
  <1>4. QED
    BY <1>1, <1>2, <1>3

LEMMA PendingIsOrder ==
  ASSUME GraphTyped, NEW n
  PROVE  \E R \in SUBSET Dependents(edgesOut, n) :
           IsOrder(Pending(n), R, Within(Dependents(edgesOut, n)))
  <1> DEFINE deps == Dependents(edgesOut, n)
  <1>1. deps \in SUBSET Names /\ IsFiniteSet(deps)
    BY NeighboursFinite DEF GraphTyped
  <1>2. /\ Cardinality(deps) \in Nat
        /\ Settled(deps, Within(deps)) \in [0 .. Cardinality(deps) -> SUBSET deps]
    BY <1>1, SettledIs
  <1>3. IsOrder(TopologicalSort(deps, Within(deps)), Settled(deps, Within(deps))[Cardinality(deps)],
                Within(deps))
    BY <1>1, SortIsOrder
  <1>4. Pending(n) = TopologicalSort(deps, Within(deps))
    BY DEF Pending
  <1> HIDE DEF deps
  <1>5. Settled(deps, Within(deps))[Cardinality(deps)] \in SUBSET deps
    BY <1>2
  <1>6. QED
    BY <1>3, <1>4, <1>5 DEF deps

LEMMA InstanceIs ==
  ASSUME NEW n \in Names, NEW p \in Nat, NEW v \in Nat
  PROVE  /\ Instance(n, p, v) \in Names
         /\ Instance(n, p, v)[1] = n[1]
         /\ Params(Instance(n, p, v)) = Params(n)
         /\ Len(Instance(n, p, v)[2]) = Len(n[2]) + 1
         /\ \A i \in 1 .. Len(n[2]) : Instance(n, p, v)[2][i] = n[2][i]
         /\ Instance(n, p, v)[2][Len(n[2]) + 1] = <<p, v>>
         /\ Last(Instance(n, p, v)[2]) = <<p, v>>
  <1>1. n[1] \in Base \cup {0, 1} /\ n[2] \in Seq(Pair) /\ <<p, v>> \in Pair
    BY DEF Names, Pair
  <1>2. Append(n[2], <<p, v>>) \in Seq(Pair)
    BY <1>1
  <1>3. Instance(n, p, v)[1] = n[1] /\ Instance(n, p, v)[2] = Append(n[2], <<p, v>>)
    BY DEF Instance
  <1>4. Instance(n, p, v) \in Names
    BY <1>1, <1>2 DEF Instance, Names
  <1>5. Params(Instance(n, p, v)) = Params(n)
    BY <1>3 DEF Params
  <1>6. /\ Len(Append(n[2], <<p, v>>)) = Len(n[2]) + 1
        /\ \A i \in 1 .. Len(n[2]) : Append(n[2], <<p, v>>)[i] = n[2][i]
        /\ Append(n[2], <<p, v>>)[Len(n[2]) + 1] = <<p, v>>
    BY <1>1
  <1>7. Last(Append(n[2], <<p, v>>)) = <<p, v>>
    BY <1>1, <1>6 DEF Last
  <1>8. QED
    BY <1>3, <1>4, <1>5, <1>6, <1>7

LEMMA ParamsAreNat == \A n : Params(n) \in SUBSET Nat
  BY ValueAssumption DEF Params

\* The instances of a node for the values of a list.
Instances(n, p, l) == {Instance(n, p, v) : v \in ToSet(l)}

LEMMA ListIs ==
  ASSUME NEW l \in Lists
  PROVE  ToSet(l) \in SUBSET Nat /\ IsFiniteSet(ToSet(l)) /\ ToSet(l) # {} /\ l # <<>>
  <1>1. l \in Seq(Nat) /\ Len(l) \in Nat /\ Len(l) > 0 /\ DOMAIN l = 1 .. Len(l)
    BY ListsAssumption
  <1>2. ToSet(l) = {l[i] : i \in 1 .. Len(l)}
    BY <1>1 DEF ToSet
  <1>3. l \in [1 .. Len(l) -> Nat]
    BY <1>1
  <1>4. IsFiniteSet(ToSet(l))
    <2> DEFINE D == 1 .. Len(l)
    <2>1. IsFiniteSet(D)
      BY <1>1, FS_Interval
    <2>2. l \in [D -> Nat] /\ ToSet(l) = {l[i] : i \in D}
      BY <1>2, <1>3
    <2> HIDE DEF D
    <2>3. IsFiniteSet({l[i] : i \in D})
      BY <2>1, <2>2, ImageFinite
    <2>4. QED
      BY <2>2, <2>3
  <1>5. l[1] \in ToSet(l)
    BY <1>1, <1>2
  <1>6. QED
    BY <1>1, <1>2, <1>4, <1>5

LEMMA InstancesAre ==
  ASSUME NEW n \in Names, NEW p \in Nat, NEW l \in Lists
  PROVE  /\ Instances(n, p, l) \in SUBSET Names /\ IsFiniteSet(Instances(n, p, l))
         /\ \A m \in Instances(n, p, l) : \E v \in ToSet(l) : m = Instance(n, p, v)
  <1> DEFINE f == [v \in ToSet(l) |-> Instance(n, p, v)]
  <1>1. ToSet(l) \in SUBSET Nat /\ IsFiniteSet(ToSet(l))
    BY ListIs
  <1>2. f \in [ToSet(l) -> Names]
    BY <1>1, InstanceIs
  <1>3. Instances(n, p, l) = {f[v] : v \in ToSet(l)}
    BY DEF Instances
  <1>4. IsFiniteSet({f[v] : v \in ToSet(l)})
    <2> HIDE DEF f
    <2>1. QED
      BY <1>1, <1>2, ImageFinite
  <1>5. QED
    BY <1>2, <1>3, <1>4 DEF Instances

LEMMA WiresAre ==
  ASSUME TInv, Sweeping, NEW m \in Names
  PROVE  Wires(m) \in SUBSET (Names \X Names) /\ IsFiniteSet(Wires(m))
  <1> DEFINE S == SourcesIn(edgesIn, m)
             V == ToSet(sweep.values)
             f == [z \in S \X V |-> <<SourceFor(z[1], z[2]), Instance(m, sweep.param, z[2])>>]
  <1>1. /\ S \in SUBSET Names /\ IsFiniteSet(S)
        /\ V \in SUBSET Nat /\ IsFiniteSet(V) /\ sweep.param \in Nat
    BY NeighboursFinite, ListIs, ParamsAreNat DEF TInv, GraphTyped, WalkTyped, Sweeping
  <1>2. IsFiniteSet(S \X V)
    BY <1>1, FS_Product
  <1>3. \A z \in S \X V : SourceFor(z[1], z[2]) \in Names /\ Instance(m, sweep.param, z[2]) \in Names
    BY <1>1, InstanceIs DEF SourceFor
  <1>4. f \in [S \X V -> Names \X Names]
    BY <1>3
  <1>5. IsFiniteSet({f[z] : z \in S \X V})
    <2> DEFINE D == S \X V
               X == Names \X Names
    <2>1. IsFiniteSet(D) /\ f \in [D -> X]
      BY <1>2, <1>4
    <2> HIDE DEF f, D, X
    <2>2. IsFiniteSet({f[z] : z \in D})
      BY <2>1, ImageFinite
    <2>3. QED
      BY <2>2 DEF D
  <1>6. Wires(m) = {f[z] : z \in S \X V}
    <2>1. Wires(m) = {<<SourceFor(s, v), Instance(m, sweep.param, v)>> : s \in S, v \in V}
      BY DEF Wires
    <2>2. \A z \in S \X V : z[1] \in S /\ z[2] \in V
      OBVIOUS
    <2>3. \A s \in S, v \in V : /\ <<s, v>> \in S \X V
                               /\ f[<<s, v>>] = <<SourceFor(s, v), Instance(m, sweep.param, v)>>
      OBVIOUS
    <2>4. \A z \in S \X V : f[z] = <<SourceFor(z[1], z[2]), Instance(m, sweep.param, z[2])>>
      OBVIOUS
    <2> HIDE DEF f, S, V
    <2> DEFINE Z == {f[z] : z \in S \X V}
    <2>5. ASSUME NEW w \in Wires(m) PROVE w \in Z
      <3>1. PICK s \in S, v \in V : w = <<SourceFor(s, v), Instance(m, sweep.param, v)>>
        BY <2>1
      <3>2. QED
        BY <2>3, <3>1
    <2>6. ASSUME NEW z \in S \X V PROVE f[z] \in Wires(m)
      BY <2>1, <2>2, <2>4
    <2>7. QED
      BY <2>5, <2>6
  <1>7. QED
    BY <1>4, <1>5, <1>6

LEMMA ReplacedTyped ==
  ASSUME GraphTyped, NEW n, NEW new \in SUBSET Names, IsFiniteSet(new),
         NEW wires \in SUBSET (Names \X Names), IsFiniteSet(wires),
         Replaced(n, new, wires), subgraphs' = subgraphs
  PROVE  GraphTyped'
  <1>1. IsFiniteSet(nodes \ {n}) /\ IsFiniteSet({e \in edgesIn : e[2] # n})
        /\ IsFiniteSet({e \in edgesOut : e[2] # n})
    BY FS_Subset DEF GraphTyped
  <1>2. IsFiniteSet(nodes') /\ IsFiniteSet(edgesIn') /\ IsFiniteSet(edgesOut')
    BY <1>1, FS_Union DEF Replaced
  <1>3. QED
    BY <1>2 DEF GraphTyped, Replaced

LEMMA ClonedTyped ==
  ASSUME GraphTyped, ValueTyped, NEW n \in nodes, NEW p \in Nat, NEW l \in Lists,
         NEW wires, Replaced(n, Instances(n, p, l), wires), Cloned(n, p, Instances(n, p, l))
  PROVE  ValueTyped'
  <1> DEFINE new == Instances(n, p, l)
  <1>1. \A m \in new : \E v \in ToSet(l) : m = Instance(n, p, v)
    BY DEF Instances
  <1>2. nodes' = (nodes \ {n}) \cup new
    BY DEF Replaced
  <1>3. value' = [m \in (nodes \ {n}) \cup new |->
                    IF m \in new THEN WithParam(n, p, Last(m[2])[2]) ELSE value[m]]
    BY DEF Cloned
  <1> HIDE DEF new
  <1>4. ASSUME NEW m \in nodes' PROVE value'[m] \in [Params(m) -> Nat]
    <2>1. CASE m \in new
      <3>1. PICK v \in ToSet(l) : m = Instance(n, p, v)
        BY <1>1, <2>1
      <3>2. v \in Nat /\ n \in Names
        BY ListIs DEF GraphTyped
      <3>3. Last(m[2]) = <<p, v>> /\ Params(m) = Params(n)
        BY <3>1, <3>2, InstanceIs
      <3>4. value'[m] = WithParam(n, p, v)
        BY <1>2, <1>3, <2>1, <3>3
      <3>5. WithParam(n, p, v) \in [Params(n) -> Nat]
        BY <3>2 DEF WithParam, ValueTyped
      <3>6. QED
        BY <3>3, <3>4, <3>5
    <2>2. CASE m \notin new
      BY <1>2, <1>3, <2>2 DEF ValueTyped
    <2>3. QED
      BY <2>1, <2>2
  <1>5. QED
    BY <1>2, <1>3, <1>4 DEF ValueTyped

LEMMA NameIs ==
  ASSUME NEW b \in Base \cup {0, 1}
  PROVE  Name(b) \in Names /\ Name(b)[1] = b /\ Name(b)[2] = <<>>
  <1>1. <<>> \in Seq(Pair)
    OBVIOUS
  <1>2. <<b, <<>>>> \in Names
    BY <1>1 DEF Names
  <1>3. QED
    BY <1>2 DEF Name

LEMMA InitTyped == Init => TInv
  <1>1. SUFFICES ASSUME Init PROVE TInv
    OBVIOUS
  <1>2. IsFiniteSet({})
    BY FS_EmptySet
  <1>3. GraphTyped /\ PortsTyped
    BY <1>1, <1>2 DEF Init, GraphTyped, PortsTyped
  <1>4. ValueTyped
    BY <1>1 DEF Init, ValueTyped
  <1>5. WalkTyped /\ RunTyped
    BY <1>1, BoundAssumption DEF Init, WalkTyped, RunTyped, Sweeping
  <1>6. QED
    BY <1>3, <1>4, <1>5 DEF TInv

\* The steps of the script other than its sweeps.
BuildStep ==
  \/ \E b \in Base : AddNode(b)
  \/ \E s \in nodes, d \in nodes : ConnectByName(s, d)
  \/ \E n \in nodes : AddInput(n) \/ AddOutput(n)
  \/ \E p \in {hp[2] : hp \in HasParam}, v \in {Default + 1} : UpdateParams(p, v)

LEMMA BuildTyped ==
  ASSUME TInv, BuildStep
  PROVE  TInv'
  <1> USE DEF TInv
  <1>1. ASSUME NEW b \in Base, AddNode(b) PROVE TInv'
    <2>1. AddNode(b)
      BY <1>1
    <2>2. Name(b) \in Names /\ Params(Name(b)) \in SUBSET Nat
      BY NameIs, ParamsAreNat
    <2>3. IsFiniteSet(nodes \cup {Name(b)})
      BY FS_AddElement DEF GraphTyped
    <2>4. GraphTyped'
      BY <2>1, <2>2, <2>3 DEF AddNode, GraphTyped
    <2>5. Configured(b) \in [Params(Name(b)) -> Nat]
      BY ValueAssumption DEF Configured
    <2>6. nodes' = nodes \cup {Name(b)}
          /\ value' = [m \in nodes' |-> IF m = Name(b) THEN Configured(b) ELSE value[m]]
      BY <2>1 DEF AddNode
    <2>7. ASSUME NEW m \in nodes' PROVE value'[m] \in [Params(m) -> Nat]
      BY <2>5, <2>6 DEF ValueTyped
    <2>8. ValueTyped'
      BY <2>6, <2>7 DEF ValueTyped
    <2>9. PortsTyped' /\ WalkTyped' /\ RunTyped'
      BY <2>1 DEF AddNode, ports, walk, PortsTyped, WalkTyped, RunTyped, Sweeping
    <2>10. QED
      BY <2>4, <2>8, <2>9
  <1>2. ASSUME NEW s \in nodes, NEW d \in nodes, ConnectByName(s, d) PROVE TInv'
    <2>1. ConnectByName(s, d)
      BY <1>2
    <2>2. IsFiniteSet(edgesIn \cup {<<s, d>>}) /\ IsFiniteSet(edgesOut \cup {<<s, d>>})
      BY FS_AddElement DEF GraphTyped
    <2>3. GraphTyped'
      BY <2>1, <2>2 DEF ConnectByName, Connect, GraphTyped
    <2>4. ValueTyped' /\ PortsTyped' /\ WalkTyped' /\ RunTyped'
      BY <2>1 DEF ConnectByName, ports, walk, ValueTyped, PortsTyped, WalkTyped, RunTyped, Sweeping
    <2>5. QED
      BY <2>3, <2>4
  <1>3. ASSUME NEW n \in nodes, AddInput(n) \/ AddOutput(n) PROVE TInv'
    <2>1. AddInput(n) \/ AddOutput(n)
      BY <1>3
    <2>2. IsFiniteSet(inputs \cup {n}) /\ IsFiniteSet(outputs \cup {n})
      BY FS_AddElement DEF PortsTyped
    <2>3. PortsTyped'
      BY <2>1, <2>2 DEF AddInput, AddOutput, PortsTyped, GraphTyped
    <2>4. UNCHANGED <<graph, walk, status, order>>
      BY <2>1 DEF AddInput, AddOutput
    <2>5. GraphTyped' /\ ValueTyped' /\ WalkTyped' /\ RunTyped'
      BY <2>4 DEF graph, walk, GraphTyped, ValueTyped, WalkTyped, RunTyped, Sweeping
    <2>6. QED
      BY <2>3, <2>5
  <1>4. ASSUME NEW p, NEW v \in Nat, UpdateParams(p, v) PROVE TInv'
    <2>1. UpdateParams(p, v)
      BY <1>4
    <2>2. GraphTyped' /\ PortsTyped' /\ WalkTyped' /\ RunTyped'
      BY <2>1 DEF UpdateParams, ports, walk, GraphTyped, PortsTyped, WalkTyped, RunTyped, Sweeping
    <2>3. ValueTyped'
      BY <2>1 DEF UpdateParams, WithParam, ValueTyped
    <2>4. QED
      BY <2>2, <2>3
  <1>5. Default + 1 \in Nat
    BY ValueAssumption
  <1>6. QED
    BY <1>1, <1>2, <1>3, <1>4, <1>5 DEF BuildStep

LEMMA ParamSpaceTyped ==
  ASSUME TInv, NEW n \in nodes, NEW p, NEW l \in Lists
  PROVE  /\ ParamSpace(n, p, l) => TInv'
         /\ ParamSpaceRaises(n, p, l) => TInv'
  <1> USE DEF TInv
  <1>1. ParamSpace(n, p, l) => TInv'
    <2>1. SUFFICES ASSUME ParamSpace(n, p, l) PROVE TInv'
      OBVIOUS
    <2>2. p \in Params(n) /\ p \in Nat /\ n \in Names
      BY <2>1, ParamsAreNat DEF ParamSpace, GraphTyped
    <2> DEFINE new == Instances(n, p, l)
               wires == SourcesIn(edgesIn, n) \X new
    <2>3. Replaced(n, new, wires) /\ Cloned(n, p, new)
      BY <2>1 DEF ParamSpace, Instances
    <2>4. new \in SUBSET Names /\ IsFiniteSet(new)
      BY <2>2, InstancesAre
    <2>5. wires \in SUBSET (Names \X Names) /\ IsFiniteSet(wires)
      BY <2>4, NeighboursFinite, FS_Product DEF GraphTyped
    <2>6. GraphTyped'
      <3>1. subgraphs' = subgraphs
        BY <2>1 DEF ParamSpace
      <3> HIDE DEF new, wires
      <3>2. QED
        BY <2>3, <2>4, <2>5, <3>1, ReplacedTyped
    <2>7. ValueTyped'
      <3> HIDE DEF wires
      <3>1. QED
        BY <2>2, <2>3, ClonedTyped
    <2>8. Pending(n) \in Seq(Names)
      BY PendingIsOrder DEF IsOrder
    <2>9. WalkTyped'
      <3>1. /\ sweep' = [root |-> n, param |-> p, values |-> l]
            /\ newSrc' = {n} /\ visited' = {} /\ stack' = <<Pending(n)>>
        BY <2>1 DEF ParamSpace
      <3>2. sweep'.root = n /\ sweep'.param = p /\ sweep'.values = l
        BY <3>1
      <3>3. sweep' # Idle
        BY <3>2, ListIs DEF Idle
      <3>4. stack' \in Seq(Seq(Names)) /\ stack' # <<>>
        BY <2>8, <3>1
      <3>5. QED
        BY <2>2, <3>1, <3>2, <3>3, <3>4 DEF WalkTyped, Sweeping
    <2>10. PortsTyped'
      BY <2>1 DEF ParamSpace, ports, PortsTyped
    <2>11. RunTyped'
      BY <2>1, BoundAssumption DEF ParamSpace, Building, Scripting, RunTyped
    <2>12. QED
      BY <2>6, <2>7, <2>9, <2>10, <2>11
  <1>2. ParamSpaceRaises(n, p, l) => TInv'
    BY DEF ParamSpaceRaises, Building, Scripting, graph, ports, walk, GraphTyped, ValueTyped,
       PortsTyped, WalkTyped, RunTyped, Sweeping
  <1>3. QED
    BY <1>1, <1>2

LEMMA FrontIs ==
  ASSUME NEW S, NEW s \in Seq(S), s # <<>>
  PROVE  /\ Front(s) \in Seq(S) /\ Len(Front(s)) = Len(s) - 1
         /\ \A i \in 1 .. Len(s) - 1 : Front(s)[i] = s[i]
         /\ Front(s) = <<>> <=> Len(s) = 1
  <1>1. Len(s) \in Nat \ {0}
    OBVIOUS
  <1> DEFINE n == Len(s) - 1
  <1>2. n \in Nat /\ n <= Len(s) /\ Len(s) \in Nat
    BY <1>1
  <1> HIDE DEF n
  <1>3. SubSeq(s, 1, n) \in Seq(S)
    BY <1>2
  <1>4. Len(SubSeq(s, 1, n)) = n /\ \A i \in 1 .. n : SubSeq(s, 1, n)[i] = s[i]
    BY <1>2
  <1>5. SubSeq(s, 1, n) = <<>> <=> n = 0
    BY <1>2, <1>3, <1>4, EmptySeq
  <1>6. n = 0 <=> Len(s) = 1
    BY <1>1 DEF n
  <1>7. QED
    BY <1>3, <1>4, <1>5, <1>6 DEF Front, n

\* The walk is at work on a node.
LEMMA CallIs ==
  ASSUME WalkTyped, NEW m, Calls(m)
  PROVE  /\ Len(stack) \in Nat \ {0} /\ Top \in Seq(Names) /\ Top # <<>>
         /\ m \in Names /\ m = Top[1]
         /\ Popped \in Seq(Seq(Names)) /\ Len(Popped) = Len(stack) /\ Popped # <<>>
         /\ Popped[Len(stack)] = Tail(Top)
         /\ \A i \in 1 .. Len(stack) : i # Len(stack) => Popped[i] = stack[i]
  <1>1. stack \in Seq(Seq(Names)) /\ stack # <<>> /\ Top # <<>> /\ m = Head(Top)
    BY DEF WalkTyped, Calls
  <1>2. Len(stack) \in Nat \ {0} /\ Len(stack) \in 1 .. Len(stack)
    BY <1>1
  <1>3. Top \in Seq(Names)
    BY <1>1, <1>2 DEF Top
  <1>4. m \in Names /\ m = Top[1] /\ Tail(Top) \in Seq(Names)
    BY <1>1, <1>3
  <1>5. Popped = [stack EXCEPT ![Len(stack)] = Tail(Top)]
    BY DEF Popped, Top
  <1>6. /\ Popped \in Seq(Seq(Names)) /\ Len(Popped) = Len(stack)
        /\ Popped[Len(stack)] = Tail(Top)
        /\ \A i \in 1 .. Len(stack) : i # Len(stack) => Popped[i] = stack[i]
    BY <1>1, <1>2, <1>4, <1>5
  <1>7. Popped # <<>>
    BY <1>2, <1>6
  <1>8. QED
    BY <1>1, <1>2, <1>3, <1>4, <1>6, <1>7

LEMMA SweepTyped ==
  ASSUME TInv, SweepStep
  PROVE  TInv'
  <1> USE DEF TInv
  <1>1. ASSUME NEW m, HelperReturnsAtOnce(m) PROVE TInv'
    <2>1. Calls(m)
      BY <1>1 DEF HelperReturnsAtOnce
    <2>2. Popped \in Seq(Seq(Names)) /\ Popped # <<>>
      BY <2>1, CallIs
    <2>3. WalkTyped'
      BY <1>1, <2>1, <2>2 DEF HelperReturnsAtOnce, Calls, WalkTyped, Sweeping
    <2>4. GraphTyped' /\ ValueTyped' /\ PortsTyped' /\ RunTyped'
      BY <1>1 DEF HelperReturnsAtOnce, graph, ports, GraphTyped, ValueTyped, PortsTyped, RunTyped,
         Sweeping
    <2>5. QED
      BY <2>3, <2>4
  <1>2. ASSUME NEW m, Helper(m) PROVE TInv'
    <2>1. Calls(m) /\ Sweeping
      BY <1>2 DEF Helper, Calls
    <2>2. Popped \in Seq(Seq(Names)) /\ Popped # <<>> /\ m \in Names
      BY <2>1, CallIs
    <2> DEFINE p == sweep.param
               l == sweep.values
               new == Instances(m, p, l)
    <2>3. p \in Nat /\ l \in Lists /\ m \in nodes
      BY <1>2, <2>1, ParamsAreNat DEF WalkTyped, Sweeping, Helper, Resolves
    <2>4. Replaced(m, new, Wires(m)) /\ Cloned(m, p, new)
      BY <1>2 DEF Helper, Instances
    <2>5. new \in SUBSET Names /\ IsFiniteSet(new)
      BY <2>2, <2>3, InstancesAre
    <2>6. Wires(m) \in SUBSET (Names \X Names) /\ IsFiniteSet(Wires(m))
      BY <2>1, <2>2, WiresAre
    <2>7. GraphTyped'
      <3>1. subgraphs' = subgraphs
        BY <1>2 DEF Helper
      <3> HIDE DEF new
      <3>2. QED
        BY <2>4, <2>5, <2>6, <3>1, ReplacedTyped
    <2>8. ValueTyped'
      <3> HIDE DEF p, l
      <3>1. QED
        BY <2>3, <2>4, ClonedTyped
    <2>9. Pending(m) \in Seq(Names)
      BY PendingIsOrder DEF IsOrder
    <2>10. WalkTyped'
      <3>1. Append(Popped, Pending(m)) \in Seq(Seq(Names)) /\ Append(Popped, Pending(m)) # <<>>
        BY <2>2, <2>9
      <3>2. /\ stack' = Append(Popped, Pending(m)) /\ sweep' = sweep
            /\ visited' = visited \cup {m} /\ newSrc' = newSrc \cup {m}
        BY <1>2 DEF Helper
      <3>3. QED
        BY <2>1, <2>2, <3>1, <3>2 DEF WalkTyped, Sweeping
    <2>11. PortsTyped' /\ RunTyped'
      BY <1>2 DEF Helper, ports, PortsTyped, RunTyped, Sweeping
    <2>12. QED
      BY <2>7, <2>8, <2>10, <2>11
  <1>3. CASE HelperDone
    <2>1. stack \in Seq(Seq(Names)) /\ stack # <<>>
      BY <1>3 DEF HelperDone, WalkTyped
    <2>2. Front(stack) \in Seq(Seq(Names)) /\ (Front(stack) = <<>> <=> Len(stack) = 1)
      <3> DEFINE X == Seq(Names)
      <3> HIDE DEF X
      <3>1. stack \in Seq(X) /\ stack # <<>>
        BY <2>1 DEF X
      <3>2. Front(stack) \in Seq(X) /\ (Front(stack) = <<>> <=> Len(stack) = 1)
        BY <3>1, FrontIs
      <3>3. QED
        BY <3>2 DEF X
    <2>3. WalkTyped'
      BY <1>3, <2>2 DEF HelperDone, WalkTyped, Sweeping
    <2>4. GraphTyped' /\ ValueTyped' /\ PortsTyped' /\ RunTyped'
      BY <1>3 DEF HelperDone, graph, ports, GraphTyped, ValueTyped, PortsTyped, RunTyped, Sweeping
    <2>5. QED
      BY <2>3, <2>4
  <1>4. QED
    BY <1>1, <1>2, <1>3 DEF SweepStep

LEMMA GeneratedIs ==
  ASSUME PortsTyped, NEW a \in BOOLEAN
  PROVE  /\ Generated(a).nodes \in SUBSET {InputNode, OutputNode}
         /\ Generated(a).nodes \in SUBSET Names /\ IsFiniteSet(Generated(a).nodes)
         /\ Generated(a).edges \in SUBSET (Names \X Names) /\ IsFiniteSet(Generated(a).edges)
  <1> DEFINE I == IF a THEN inputs ELSE {}
             N == (IF I = {} THEN {} ELSE {InputNode})
                    \cup (IF outputs = {} THEN {} ELSE {OutputNode})
             E == ({InputNode} \X I) \cup (outputs \X {OutputNode})
  <1>1. Generated(a).nodes = N /\ Generated(a).edges = E
    BY DEF Generated
  <1>2. InputNode \in Names /\ OutputNode \in Names
    BY NameIs DEF InputNode, OutputNode
  <1>3. I \in SUBSET Names /\ IsFiniteSet(I)
    BY FS_EmptySet DEF PortsTyped
  <1>4. IsFiniteSet({InputNode}) /\ IsFiniteSet({OutputNode}) /\ IsFiniteSet({InputNode, OutputNode})
    <2>1. IsFiniteSet({InputNode}) /\ IsFiniteSet({OutputNode})
      BY FS_Singleton
    <2>2. IsFiniteSet({InputNode} \cup {OutputNode})
      BY <2>1, FS_Union
    <2>3. {InputNode} \cup {OutputNode} = {InputNode, OutputNode}
      OBVIOUS
    <2>4. QED
      BY <2>1, <2>2, <2>3
  <1> HIDE DEF I
  <1>5. N \in SUBSET {InputNode, OutputNode} /\ IsFiniteSet(N)
    <2>1. N \in SUBSET {InputNode, OutputNode}
      OBVIOUS
    <2>2. QED
      BY <2>1, <1>4, FS_Subset
  <1>6. IsFiniteSet({InputNode} \X I) /\ IsFiniteSet(outputs \X {OutputNode})
    BY <1>3, <1>4, FS_Product DEF PortsTyped
  <1>7. IsFiniteSet(E)
    BY <1>6, FS_Union
  <1>8. E \in SUBSET (Names \X Names)
    BY <1>2, <1>3 DEF PortsTyped
  <1>9. QED
    BY <1>1, <1>2, <1>5, <1>7, <1>8

LEMMA LaunchTyped ==
  ASSUME TInv, NEW a \in BOOLEAN, Launch(a)
  PROVE  TInv' /\ OrderIsTopological'
  <1> DEFINE gen == Generated(a)
             N == nodes \cup gen.nodes
             E == edgesIn \cup gen.edges
             targets == {e[2] : e \in E}
             keys == N \cup targets
             sorted == TopologicalSort(keys, E)
  <1>1. /\ gen.nodes \in SUBSET {InputNode, OutputNode}
        /\ gen.nodes \in SUBSET Names /\ IsFiniteSet(gen.nodes)
        /\ gen.edges \in SUBSET (Names \X Names) /\ IsFiniteSet(gen.edges)
    BY GeneratedIs DEF TInv
  <1>2. /\ nodes' = N /\ edgesIn' = E /\ edgesOut' = edgesOut \cup gen.edges
        /\ value' = [n \in N |-> IF n \in nodes THEN value[n] ELSE <<>>]
        /\ order' = sorted /\ Scripting
        /\ status' = "ready" \/ status' = "refused"
        /\ status' = "ready" => Len(sorted) = Cardinality(keys) /\ keys \subseteq N
        /\ UNCHANGED <<subgraphs, ports, walk>>
    BY DEF Launch
  <1> HIDE DEF gen
  <1>3. N \in SUBSET Names /\ IsFiniteSet(N)
    BY <1>1, FS_Union DEF TInv, GraphTyped
  <1>4. /\ E \in SUBSET (Names \X Names) /\ IsFiniteSet(E)
        /\ edgesOut \cup gen.edges \in SUBSET (Names \X Names)
        /\ IsFiniteSet(edgesOut \cup gen.edges)
    BY <1>1, FS_Union DEF TInv, GraphTyped
  <1>5. targets \in SUBSET Names /\ IsFiniteSet(targets)
    <2> HIDE DEF E
    <2>1. QED
      BY <1>4, TargetsFinite
  <1>6. keys \in SUBSET Names /\ IsFiniteSet(keys)
    <2> HIDE DEF N, targets
    <2>1. QED
      BY <1>3, <1>5, FS_Union
  <1>7. sorted \in Seq(Names)
    <2> HIDE DEF keys, E
    <2>1. QED
      BY <1>6, SortIsOrder DEF IsOrder
  <1>8. GraphTyped'
    <2> HIDE DEF N, E
    <2>1. QED
      BY <1>2, <1>3, <1>4 DEF TInv, GraphTyped
  <1>9. ValueTyped'
    <2>1. ASSUME NEW n \in N PROVE value'[n] \in [Params(n) -> Nat]
      <3>1. CASE n \in nodes
        BY <1>2, <3>1 DEF TInv, ValueTyped
      <3>2. CASE n \notin nodes
        <4>1. n[1] = 0 \/ n[1] = 1
          BY <1>1, <3>2, NameIs DEF InputNode, OutputNode
        <4>2. Params(n) = {}
          BY <4>1, ValueAssumption, GraphAssumption DEF Params
        <4>3. value'[n] = <<>>
          BY <1>2, <3>2
        <4>4. QED
          BY <4>2, <4>3
      <3>3. QED
        BY <3>1, <3>2
    <2>2. DOMAIN value' = N
      BY <1>2
    <2> HIDE DEF N
    <2>3. QED
      BY <1>2, <2>1, <2>2 DEF ValueTyped
  <1>10. PortsTyped' /\ WalkTyped'
    BY <1>2 DEF TInv, ports, walk, PortsTyped, WalkTyped, Sweeping
  <1>11. RunTyped'
    <2> HIDE DEF sorted
    <2>1. QED
      BY <1>2, <1>7 DEF TInv, ports, walk, RunTyped, Sweeping, Scripting
  <1>12. TInv'
    BY <1>8, <1>9, <1>10, <1>11 DEF TInv
  <1>13. ASSUME status' = "ready" PROVE OrderIsTopological'
    <2>1. keys = N /\ Len(sorted) = Cardinality(keys)
      BY <1>2, <1>13
    <2>2. IsOrder(sorted, keys, E)
      <3> HIDE DEF keys, E
      <3>1. QED
        BY <1>6, <2>1, FullSortSettles
    <2> HIDE DEF keys, sorted, E, N
    <2>3. IsOrder(order', nodes', edgesIn') /\ Len(order') = Cardinality(nodes')
      BY <1>2, <2>1, <2>2
    <2>4. DOMAIN order' = 1 .. Len(order')
      BY <2>3 DEF IsOrder
    <2>5. ToSet(order') = nodes'
      BY <2>3, <2>4 DEF ToSet, IsOrder
    <2>6. ASSUME NEW e \in edgesIn', NEW i \in DOMAIN order', NEW j \in DOMAIN order',
                 e = <<order'[i], order'[j]>>
          PROVE  i < j
      BY <2>3, <2>4, <2>6 DEF IsOrder
    <2>7. QED
      BY <2>3, <2>5, <2>6 DEF OrderIsTopological
  <1>14. QED
    BY <1>12, <1>13 DEF OrderIsTopological

LEMMA NextIs ==
  Next <=> \/ BuildStep
           \/ \E n \in nodes, p \in {hp[2] : hp \in HasParam}, l \in Lists :
                ParamSpace(n, p, l) \/ ParamSpaceRaises(n, p, l)
           \/ SweepStep
           \/ \E a \in BOOLEAN : Launch(a)
  BY DEF Next, BuildStep

LEMMA StepTyped == TInv /\ [Next]_vars => TInv'
  <1>1. SUFFICES ASSUME TInv, [Next]_vars PROVE TInv'
    OBVIOUS
  <1>2. CASE BuildStep
    BY <1>1, <1>2, BuildTyped
  <1>3. ASSUME NEW n \in nodes, NEW p, NEW l \in Lists,
               ParamSpace(n, p, l) \/ ParamSpaceRaises(n, p, l)
        PROVE  TInv'
    BY <1>1, <1>3, ParamSpaceTyped
  <1>4. CASE SweepStep
    BY <1>1, <1>4, SweepTyped
  <1>5. ASSUME NEW a \in BOOLEAN, Launch(a) PROVE TInv'
    BY <1>1, <1>5, LaunchTyped
  <1>6. CASE UNCHANGED vars
    BY <1>1, <1>6 DEF vars, graph, ports, walk, TInv, GraphTyped, ValueTyped, PortsTyped,
       WalkTyped, RunTyped, Sweeping
  <1>7. QED
    BY <1>1, <1>2, <1>3, <1>4, <1>5, <1>6, NextIs

\* What the actions are given has its type; the walk of a sweep is at work while
\* a call of the helper is.
THEOREM Types == Spec => []TInv
  <1>1. Init => TInv
    BY InitTyped
  <1>2. TInv /\ [Next]_vars => TInv'
    BY StepTyped
  <1>3. QED
    BY <1>1, <1>2, PTL DEF Spec

\* Every build order a launch hands to the run has each node of the graph once
\* and the sources of a node before it, whatever graph the script has built
\* (topological_sort and its assertion, BuildOrchestrator).
THEOREM OrderIsTopologicalHolds == Spec => []OrderIsTopological
  <1>1. Init => OrderIsTopological
    BY DEF Init, OrderIsTopological
  <1>2. TInv /\ OrderIsTopological /\ [Next]_vars => OrderIsTopological'
    <2>1. SUFFICES ASSUME TInv, OrderIsTopological, [Next]_vars PROVE OrderIsTopological'
      OBVIOUS
    <2>2. status # "script" => ~Sweeping
      BY <2>1 DEF TInv, RunTyped
    <2>3. CASE BuildStep
      <3>1. status = "script"
        BY <2>3 DEF BuildStep, AddNode, ConnectByName, AddInput, AddOutput, UpdateParams,
           Building, Scripting
      <3>2. status' = status
        BY <2>3 DEF BuildStep, AddNode, ConnectByName, AddInput, AddOutput, UpdateParams
      <3>3. QED
        BY <3>1, <3>2 DEF OrderIsTopological
    <2>4. ASSUME NEW n \in nodes, NEW p, NEW l \in Lists,
                 ParamSpace(n, p, l) \/ ParamSpaceRaises(n, p, l)
          PROVE  OrderIsTopological'
      BY <2>4 DEF ParamSpace, ParamSpaceRaises, Building, Scripting, OrderIsTopological
    <2>5. CASE SweepStep
      <3>1. Sweeping /\ status' = status
        BY <2>5 DEF SweepStep, HelperReturnsAtOnce, Helper, HelperDone, Calls
      <3>2. QED
        BY <2>2, <3>1 DEF OrderIsTopological
    <2>6. ASSUME NEW a \in BOOLEAN, Launch(a) PROVE OrderIsTopological'
      BY <2>1, <2>6, LaunchTyped
    <2>7. CASE UNCHANGED vars
      BY <2>1, <2>7 DEF vars, graph, OrderIsTopological
    <2>8. QED
      BY <2>1, <2>3, <2>4, <2>5, <2>6, <2>7, NextIs
  <1>3. QED
    BY <1>1, <1>2, Types, PTL DEF Spec

-----------------------------------------------------------------------------
(* Names and values.                                                       *)

\* Before the first sweep no name has a pair appended.
NamesPlain == sweeps = 0 => ~Sweeping /\ \A n \in nodes : n[2] = <<>>

LEMMA ClonesTellValue ==
  ASSUME GraphTyped, ValueTyped, NameTellsValue,
         NEW n \in nodes, NEW p \in Nat, NEW l \in Lists,
         NEW wires, Replaced(n, Instances(n, p, l), wires), Cloned(n, p, Instances(n, p, l))
  PROVE  NameTellsValue'
  <1> DEFINE new == Instances(n, p, l)
  <1>1. \A m \in new : \E v \in ToSet(l) : m = Instance(n, p, v)
    BY DEF Instances
  <1>2. nodes' = (nodes \ {n}) \cup new
    BY DEF Replaced
  <1>3. value' = [m \in (nodes \ {n}) \cup new |->
                    IF m \in new THEN WithParam(n, p, Last(m[2])[2]) ELSE value[m]]
    BY DEF Cloned
  <1> HIDE DEF new
  <1>4. ASSUME NEW m \in nodes', NEW i \in 1 .. Len(m[2]), m[2][i][1] \in Params(m),
               \A j \in i + 1 .. Len(m[2]) : m[2][j][1] # m[2][i][1]
        PROVE  value'[m][m[2][i][1]] = m[2][i][2]
    <2>1. CASE m \in new
      <3>1. PICK v \in ToSet(l) : m = Instance(n, p, v)
        BY <1>1, <2>1
      <3>2. v \in Nat /\ n \in Names /\ Len(n[2]) \in Nat
        BY ListIs DEF GraphTyped, Names
      <3>3. /\ Params(m) = Params(n) /\ Len(m[2]) = Len(n[2]) + 1
            /\ \A k \in 1 .. Len(n[2]) : m[2][k] = n[2][k]
            /\ m[2][Len(n[2]) + 1] = <<p, v>> /\ Last(m[2]) = <<p, v>>
        BY <3>1, <3>2, InstanceIs
      <3>4. value'[m] = WithParam(n, p, v)
        BY <1>2, <1>3, <2>1, <3>3
      <3>5. CASE i = Len(n[2]) + 1
        <4>1. p \in Params(n) /\ m[2][i][1] = p /\ m[2][i][2] = v
          BY <1>4, <3>3, <3>5
        <4>2. QED
          BY <3>4, <4>1 DEF WithParam
      <3>6. CASE i \in 1 .. Len(n[2])
        <4>1. m[2][i] = n[2][i] /\ n[2][i][1] \in Params(n)
          BY <1>4, <3>3, <3>6
        <4>2. Len(n[2]) + 1 \in i + 1 .. Len(m[2])
          BY <3>2, <3>3, <3>6
        <4>3. n[2][i][1] # p
          BY <1>4, <3>3, <4>1, <4>2
        <4>4. \A j \in i + 1 .. Len(n[2]) : n[2][j][1] # n[2][i][1]
          <5>1. \A j \in i + 1 .. Len(n[2]) : j \in 1 .. Len(n[2]) /\ j \in i + 1 .. Len(m[2])
            BY <3>2, <3>3, <3>6
          <5>2. QED
            BY <1>4, <3>3, <4>1, <5>1
        <4>5. value[n][n[2][i][1]] = n[2][i][2]
          BY <3>6, <4>1, <4>4 DEF NameTellsValue
        <4>6. value'[m][n[2][i][1]] = value[n][n[2][i][1]]
          BY <3>4, <4>1, <4>3 DEF WithParam
        <4>7. QED
          BY <4>1, <4>5, <4>6
      <3>7. QED
        BY <3>2, <3>3, <3>5, <3>6
    <2>2. CASE m \notin new
      <3>1. m \in nodes /\ value'[m] = value[m]
        BY <1>2, <1>3, <2>2
      <3>2. QED
        BY <1>4, <3>1 DEF NameTellsValue
    <2>3. QED
      BY <2>1, <2>2
  <1>5. QED
    BY <1>4 DEF NameTellsValue

LEMMA StepTellsValue ==
  ASSUME TInv, NamesPlain, NameTellsValue, [Next]_vars
  PROVE  NamesPlain' /\ NameTellsValue'
  <1> DEFINE Goal == NamesPlain' /\ NameTellsValue'
  <1>1. ASSUME UNCHANGED <<nodes, value, sweeps>>, Sweeping' => Sweeping PROVE Goal
    BY <1>1 DEF NamesPlain, NameTellsValue
  <1>2. ASSUME NEW b \in Base, AddNode(b) PROVE Goal
    <2>1. /\ nodes' = nodes \cup {Name(b)} /\ sweeps' = sweeps /\ sweep' = sweep
          /\ value' = [m \in nodes' |-> IF m = Name(b) THEN Configured(b) ELSE value[m]]
      BY <1>2 DEF AddNode, walk
    <2>2. Name(b)[2] = <<>>
      BY NameIs
    <2>3. NamesPlain'
      BY <2>1, <2>2 DEF NamesPlain, Sweeping
    <2>4. ASSUME NEW m \in nodes', NEW i \in 1 .. Len(m[2])
          PROVE  m \in nodes /\ value'[m] = value[m]
      BY <2>1, <2>2, <2>4
    <2>5. NameTellsValue'
      BY <2>4 DEF NameTellsValue
    <2>6. QED
      BY <2>3, <2>5
  <1>3. ASSUME NEW p, NEW v, UpdateParams(p, v) PROVE Goal
    <2>1. sweeps = 0 /\ sweeps' = 0 /\ nodes' = nodes /\ sweep' = sweep
      BY <1>3 DEF UpdateParams, walk
    <2>2. ~Sweeping' /\ \A n \in nodes' : n[2] = <<>>
      BY <2>1 DEF NamesPlain, Sweeping
    <2>3. QED
      BY <2>2 DEF NamesPlain, NameTellsValue
  <1>4. CASE BuildStep
    <2>1. ASSUME NEW s \in nodes, NEW d \in nodes, ConnectByName(s, d) PROVE Goal
      BY <1>1, <2>1 DEF ConnectByName, walk, Sweeping
    <2>2. ASSUME NEW n \in nodes, AddInput(n) \/ AddOutput(n) PROVE Goal
      BY <1>1, <2>2 DEF AddInput, AddOutput, graph, walk, Sweeping
    <2>3. QED
      BY <1>2, <1>3, <1>4, <2>1, <2>2 DEF BuildStep
  <1>5. ASSUME NEW n \in nodes, NEW p, NEW l \in Lists,
               ParamSpace(n, p, l) \/ ParamSpaceRaises(n, p, l)
        PROVE  Goal
    <2>1. CASE ParamSpaceRaises(n, p, l)
      BY <1>1, <2>1 DEF ParamSpaceRaises, graph, walk, Sweeping
    <2>2. CASE ParamSpace(n, p, l)
      <3> DEFINE wires == SourcesIn(edgesIn, n) \X Instances(n, p, l)
      <3>1. /\ Replaced(n, Instances(n, p, l), wires) /\ Cloned(n, p, Instances(n, p, l))
            /\ p \in Nat /\ sweeps' = sweeps + 1
        BY <2>2, ParamsAreNat DEF ParamSpace, Instances
      <3> HIDE DEF wires
      <3>2. NameTellsValue'
        BY <3>1, ClonesTellValue DEF TInv
      <3>3. sweeps' # 0
        BY <3>1 DEF TInv, RunTyped
      <3>4. QED
        BY <3>2, <3>3 DEF NamesPlain
    <2>3. QED
      BY <1>5, <2>1, <2>2
  <1>6. ASSUME NEW m, Helper(m) PROVE Goal
    <2> DEFINE p == sweep.param
               l == sweep.values
    <2>1. /\ Replaced(m, Instances(m, p, l), Wires(m)) /\ Cloned(m, p, Instances(m, p, l))
          /\ m \in nodes /\ Sweeping /\ sweeps' = sweeps
      BY <1>6 DEF Helper, Instances, Resolves, Calls
    <2>2. p \in Nat /\ l \in Lists /\ sweeps # 0
      BY <2>1, ParamsAreNat DEF TInv, WalkTyped, Sweeping, NamesPlain
    <2> HIDE DEF p, l
    <2>3. NameTellsValue'
      BY <2>1, <2>2, ClonesTellValue DEF TInv
    <2>4. QED
      BY <2>1, <2>2, <2>3 DEF NamesPlain
  <1>7. CASE SweepStep
    <2>1. ASSUME NEW m, HelperReturnsAtOnce(m) PROVE Goal
      BY <1>1, <2>1 DEF HelperReturnsAtOnce, graph, Sweeping
    <2>2. CASE HelperDone
      BY <1>1, <2>2 DEF HelperDone, graph, Sweeping
    <2>3. QED
      BY <1>6, <1>7, <2>1, <2>2 DEF SweepStep
  <1>8. ASSUME NEW a \in BOOLEAN, Launch(a) PROVE Goal
    <2> DEFINE N == nodes \cup Generated(a).nodes
    <2>1. /\ nodes' = N /\ value' = [n \in N |-> IF n \in nodes THEN value[n] ELSE <<>>]
          /\ sweep' = sweep /\ sweeps' = sweeps
      BY <1>8 DEF Launch, walk
    <2>2. \A n \in Generated(a).nodes : n[2] = <<>>
      BY GeneratedIs, NameIs DEF TInv, InputNode, OutputNode
    <2> HIDE DEF N
    <2>3. nodes' = N /\ N = nodes \cup Generated(a).nodes
      BY <2>1 DEF N
    <2>4. NamesPlain'
      BY <2>1, <2>2, <2>3 DEF NamesPlain, Sweeping
    <2>5. ASSUME NEW m \in nodes', NEW i \in 1 .. Len(m[2])
          PROVE  m \in nodes /\ value'[m] = value[m]
      BY <2>1, <2>2, <2>3, <2>5
    <2>6. NameTellsValue'
      BY <2>5 DEF NameTellsValue
    <2>7. QED
      BY <2>4, <2>6
  <1>9. CASE UNCHANGED vars
    BY <1>1, <1>9 DEF vars, graph, walk, Sweeping
  <1>10. QED
    BY <1>4, <1>5, <1>7, <1>8, <1>9, NextIs

\* The name of a build directory tells the values its node was configured
\* with, however many sweeps replicated it and its sources (the suffixes that
\* param_space and its helper append to a name, and set_param).
THEOREM NameTellsValueHolds == Spec => []NameTellsValue
  <1>1. Init => NamesPlain /\ NameTellsValue
    BY DEF Init, NamesPlain, NameTellsValue, Sweeping
  <1>2. TInv /\ NamesPlain /\ NameTellsValue /\ [Next]_vars => NamesPlain' /\ NameTellsValue'
    BY StepTellsValue
  <1>3. QED
    BY <1>1, <1>2, Types, PTL DEF Spec

-----------------------------------------------------------------------------
(* A graph without cycles is sorted as a whole.                            *)

\* Every set of nodes has one without sources in it.
Acyclic(S, E) ==
  \A X \in SUBSET S : X # {} => \E n \in X : SourcesIn(E, n) \cap X = {}

LEMMA AcyclicSettles ==
  ASSUME NEW S, IsFiniteSet(S), NEW E, Acyclic(S, E), \A n \in S : SourcesIn(E, n) \subseteq S
  PROVE  Settled(S, E)[Cardinality(S)] = S
  <1> DEFINE N == Cardinality(S)
             f == Settled(S, E)
             T == {k \in Nat : k \in 0 .. N => f[k] = S \/ Cardinality(f[k]) >= k}
  <1>1. /\ N \in Nat /\ f \in [0 .. N -> SUBSET S] /\ f[0] = {}
        /\ \A k \in 1 .. N : f[k] = {n \in S : SourcesIn(E, n) \subseteq f[k - 1]}
    BY SettledIs
  <1>2. \A k \in 1 .. N : f[k - 1] \subseteq f[k]
    BY SettledGrows
  <1> HIDE DEF f
  <1>3. ASSUME NEW k \in 0 .. N
        PROVE  f[k] \in SUBSET S /\ IsFiniteSet(f[k]) /\ Cardinality(f[k]) \in Nat
    BY <1>1, FS_Subset, FS_CardinalityType
  <1>4. 0 \in T
    <2>1. 0 \in 0 .. N
      BY <1>1
    <2>2. QED
      BY <1>3, <2>1
  <1>5. ASSUME NEW k \in Nat, k \in T PROVE k + 1 \in T
    <2>1. SUFFICES ASSUME k + 1 \in 0 .. N
                   PROVE  f[k + 1] = S \/ Cardinality(f[k + 1]) >= k + 1
      OBVIOUS
    <2>2. k \in 0 .. N /\ k + 1 \in 1 .. N /\ (k + 1) - 1 = k
      BY <1>1, <2>1
    <2>3. f[k] \subseteq f[k + 1] /\ f[k + 1] = {n \in S : SourcesIn(E, n) \subseteq f[k]}
      <3>1. f[(k + 1) - 1] \subseteq f[k + 1]
            /\ f[k + 1] = {n \in S : SourcesIn(E, n) \subseteq f[(k + 1) - 1]}
        BY <1>1, <1>2, <2>2
      <3>2. QED
        BY <2>2, <3>1
    <2>4. CASE f[k] = S
      BY <1>3, <2>1, <2>3, <2>4
    <2>5. CASE f[k] # S
      <3>1. S \ f[k] # {} /\ S \ f[k] \in SUBSET S
        BY <1>3, <2>2, <2>5
      <3>2. PICK n \in S \ f[k] : SourcesIn(E, n) \cap (S \ f[k]) = {}
        BY <3>1 DEF Acyclic
      <3>3. n \in f[k + 1] /\ n \notin f[k]
        BY <2>3, <3>2
      <3>4. Cardinality(f[k]) <= Cardinality(f[k + 1])
            /\ Cardinality(f[k]) # Cardinality(f[k + 1])
        BY <1>3, <2>1, <2>3, <3>3, FS_Subset
      <3>5. Cardinality(f[k]) >= k
        BY <1>5, <2>2, <2>5
      <3>6. QED
        BY <1>3, <2>1, <2>2, <3>4, <3>5
    <2>6. QED
      BY <2>4, <2>5
  <1> HIDE DEF T
  <1>6. N \in T
    BY <1>1, <1>4, <1>5, Inductive
  <1>7. N \in 0 .. N
    BY <1>1
  <1>8. f[N] = S \/ Cardinality(f[N]) >= N
    BY <1>6, <1>7 DEF T
  <1>9. f[N] \in SUBSET S /\ Cardinality(f[N]) <= N /\ (Cardinality(f[N]) = N => f[N] = S)
    BY <1>3, <1>7, FS_Subset
  <1>10. f[N] = S
    BY <1>1, <1>3, <1>7, <1>8, <1>9
  <1>11. QED
    BY <1>10 DEF f

\* The minimum of a rank that grows along the edges has no source.
LEMMA RankedIsAcyclic ==
  ASSUME NEW S, NEW E, NEW r, \A n \in S : r[n] \in Nat,
         \A e \in E : e[1] \in S /\ e[2] \in S => r[e[1]] < r[e[2]]
  PROVE  Acyclic(S, E)
  <1>1. SUFFICES ASSUME NEW X \in SUBSET S, X # {}
                 PROVE  \E n \in X : SourcesIn(E, n) \cap X = {}
    BY DEF Acyclic
  <1> DEFINE I == {r[n] : n \in X}
  <1>2. I \in SUBSET Nat /\ I # {}
    BY <1>1
  <1>3. PICK m \in I : \A y \in I : m <= y
    BY <1>2, LeastNat
  <1>4. PICK n \in X : m = r[n]
    OBVIOUS
  <1>5. ASSUME NEW s \in SourcesIn(E, n) \cap X PROVE FALSE
    <2>1. PICK e \in E : e[1] = s /\ e[2] = n
      BY <1>5 DEF SourcesIn
    <2>2. r[s] < r[n] /\ r[s] \in I /\ r[s] \in Nat /\ r[n] \in Nat
      BY <1>4, <1>5, <2>1
    <2>3. QED
      BY <1>3, <1>4, <2>2
  <1>6. QED
    BY <1>5

LEMMA AcyclicSort ==
  ASSUME NEW S \in SUBSET Names, IsFiniteSet(S), NEW E, Acyclic(S, E),
         \A n \in S : SourcesIn(E, n) \subseteq S
  PROVE  IsOrder(TopologicalSort(S, E), S, E) /\ Len(TopologicalSort(S, E)) = Cardinality(S)
  <1> DEFINE F == TopologicalSort(S, E)
  <1>1. IsOrder(F, S, E)
    BY SortIsOrder, AcyclicSettles
  <1> HIDE DEF F
  <1>2. F \in Seq(Names) /\ Len(F) \in Nat
    BY <1>1 DEF IsOrder
  <1>3. F \in Bijection(1 .. Len(F), S)
    BY <1>1, <1>2 DEF IsOrder, Bijection, Injection, Surjection, IsInjective
  <1>4. IsFiniteSet(1 .. Len(F)) /\ Cardinality(1 .. Len(F)) = Len(F)
    BY <1>2, FS_Interval
  <1>5. ExistsBijection(1 .. Len(F), S)
    BY <1>3 DEF ExistsBijection
  <1>6. Cardinality(S) = Len(F)
    BY <1>4, <1>5, FS_Bijection
  <1>7. QED
    BY <1>1, <1>6 DEF F

-----------------------------------------------------------------------------
(* Names of instances.                                                     *)

\* x is o or descends from it by sweeps.
Under(o, x) == o[1] = x[1] /\ IsPrefix(o[2], x[2])

LEMMA UnderIs ==
  ASSUME NEW o \in Names, NEW x \in Names
  PROVE  Under(o, x) <=> /\ o[1] = x[1] /\ Len(o[2]) <= Len(x[2])
                         /\ \A i \in 1 .. Len(o[2]) : o[2][i] = x[2][i]
  <1>1. o[2] \in Seq(Pair) /\ x[2] \in Seq(Pair)
    BY DEF Names
  <1>2. IsPrefix(o[2], x[2]) <=> /\ Len(o[2]) <= Len(x[2])
                                 /\ \A i \in 1 .. Len(o[2]) : o[2][i] = x[2][i]
    BY <1>1, PrefixIs
  <1>3. QED
    BY <1>2 DEF Under

LEMMA UnderIsOrder ==
  ASSUME NEW o \in Names, NEW x \in Names, NEW y \in Names
  PROVE  /\ Under(o, o)
         /\ Under(o, x) /\ Under(x, y) => Under(o, y)
         /\ Under(o, x) /\ Under(x, o) => o = x
         /\ Under(o, y) /\ Under(x, y) => Under(o, x) \/ Under(x, o)
  <1>1. /\ Len(o[2]) \in Nat /\ Len(x[2]) \in Nat /\ Len(y[2]) \in Nat
        /\ o[2] \in Seq(Pair) /\ x[2] \in Seq(Pair) /\ o = <<o[1], o[2]>> /\ x = <<x[1], x[2]>>
    BY DEF Names
  <1>2. Under(o, o)
    BY <1>1, UnderIs
  <1>3. ASSUME Under(o, x), Under(x, y) PROVE Under(o, y)
    <2>1. \A i \in 1 .. Len(o[2]) : o[2][i] = x[2][i] /\ i \in 1 .. Len(x[2])
      BY <1>1, <1>3, UnderIs
    <2>2. \A i \in 1 .. Len(x[2]) : x[2][i] = y[2][i]
      BY <1>3, UnderIs
    <2>3. o[1] = y[1] /\ Len(o[2]) <= Len(y[2])
      BY <1>1, <1>3, UnderIs
    <2>4. QED
      BY <2>1, <2>2, <2>3, UnderIs
  <1>4. ASSUME Under(o, x), Under(x, o) PROVE o = x
    <2>1. o[1] = x[1] /\ Len(o[2]) = Len(x[2]) /\ \A i \in 1 .. Len(o[2]) : o[2][i] = x[2][i]
      BY <1>1, <1>4, UnderIs
    <2>2. o[2] = x[2]
      BY <1>1, <2>1, SeqEqual
    <2>3. QED
      BY <1>1, <2>1, <2>2
  <1>5. ASSUME Under(o, y), Under(x, y) PROVE Under(o, x) \/ Under(x, o)
    <2>1. /\ o[1] = y[1] /\ x[1] = y[1]
          /\ \A i \in 1 .. Len(o[2]) : o[2][i] = y[2][i]
          /\ \A i \in 1 .. Len(x[2]) : x[2][i] = y[2][i]
      BY <1>5, UnderIs
    <2>2. CASE Len(o[2]) <= Len(x[2])
      <3>1. \A i \in 1 .. Len(o[2]) : o[2][i] = x[2][i]
        BY <1>1, <2>1, <2>2
      <3>2. QED
        BY <2>1, <2>2, <3>1, UnderIs
    <2>3. CASE Len(x[2]) <= Len(o[2])
      <3>1. \A i \in 1 .. Len(x[2]) : x[2][i] = o[2][i]
        BY <1>1, <2>1, <2>3
      <3>2. QED
        BY <2>1, <2>3, <3>1, UnderIs
    <2>4. QED
      BY <1>1, <2>2, <2>3
  <1>6. QED
    BY <1>2, <1>3, <1>4, <1>5

LEMMA UnderInstance ==
  ASSUME NEW n \in Names, NEW p \in Nat, NEW v \in Nat, NEW x \in Names
  PROVE  /\ Under(n, Instance(n, p, v)) /\ ~Under(Instance(n, p, v), n)
         /\ Under(x, Instance(n, p, v)) => x = Instance(n, p, v) \/ Under(x, n)
  <1> DEFINE m == Instance(n, p, v)
  <1>1. /\ m \in Names /\ m[1] = n[1] /\ Len(m[2]) = Len(n[2]) + 1
        /\ \A i \in 1 .. Len(n[2]) : m[2][i] = n[2][i]
    BY InstanceIs
  <1> HIDE DEF m
  <1>2. Len(n[2]) \in Nat /\ Len(x[2]) \in Nat
    BY DEF Names
  <1>3. Under(n, m)
    BY <1>1, <1>2, UnderIs
  <1>4. ~Under(m, n)
    BY <1>1, <1>2, UnderIs
  <1>5. ASSUME Under(x, m) PROVE x = m \/ Under(x, n)
    <2>1. /\ x[1] = m[1] /\ Len(x[2]) <= Len(m[2])
          /\ \A i \in 1 .. Len(x[2]) : x[2][i] = m[2][i]
      BY <1>1, <1>5, UnderIs
    <2>2. CASE Len(x[2]) = Len(m[2])
      <3>1. Under(m, x)
        BY <1>1, <2>1, <2>2, UnderIs
      <3>2. QED
        BY <1>1, <1>5, <3>1, UnderIsOrder
    <2>3. CASE Len(x[2]) <= Len(n[2])
      <3>1. \A i \in 1 .. Len(x[2]) : x[2][i] = n[2][i]
        BY <1>1, <1>2, <2>1, <2>3
      <3>2. QED
        BY <1>1, <2>1, <2>3, <3>1, UnderIs
    <2>4. QED
      BY <1>1, <1>2, <2>1, <2>2, <2>3
  <1>6. QED
    BY <1>3, <1>4, <1>5 DEF m

\* No node descends from another, and none is, or is descended from, a node
\* that the sweep has replaced.
Antichain == \A m, n \in nodes : Under(m, n) => m = n
Gone == \A s \in newSrc, n \in nodes : ~Under(n, s)

\* The names of the instances are free.
LEMMA InstancesFresh ==
  ASSUME GraphTyped, Antichain, NEW n \in nodes, NEW p \in Nat, NEW l \in Lists
  PROVE  Fresh(n, p, l)
  <1>1. ASSUME NEW v \in ToSet(l) PROVE Instance(n, p, v) \notin nodes
    <2>1. v \in Nat /\ n \in Names
      BY ListIs DEF GraphTyped
    <2>2. Under(n, Instance(n, p, v)) /\ ~Under(Instance(n, p, v), n)
      BY <2>1, UnderInstance
    <2>3. QED
      BY <2>2 DEF Antichain
  <1>2. QED
    BY <1>1 DEF Fresh

LEMMA ReplacedApart ==
  ASSUME GraphTyped, newSrc \in SUBSET Names, Antichain, Gone,
         NEW n \in nodes, NEW p \in Nat, NEW l \in Lists,
         nodes' = (nodes \ {n}) \cup Instances(n, p, l), newSrc' = newSrc \cup {n}
  PROVE  Antichain' /\ Gone'
  <1> DEFINE new == Instances(n, p, l)
  <1>1. nodes \in SUBSET Names /\ n \in Names /\ ToSet(l) \in SUBSET Nat
    BY ListIs DEF GraphTyped
  <1>2. new \in SUBSET Names
    BY <1>1, InstancesAre
  <1>3. ASSUME NEW x \in Names, NEW m \in new
        PROVE  /\ Under(n, m) /\ ~Under(m, n) /\ (Under(x, m) => x = m \/ Under(x, n))
               /\ Under(m, x) => Under(n, x)
    <2>1. PICK v \in ToSet(l) : m = Instance(n, p, v)
      BY DEF Instances
    <2>2. v \in Nat
      BY <1>1
    <2>3. Under(n, m) /\ ~Under(m, n) /\ (Under(x, m) => x = m \/ Under(x, n))
      BY <1>1, <2>1, <2>2, UnderInstance
    <2>4. QED
      BY <1>1, <1>2, <2>3, UnderIsOrder
  <1> HIDE DEF new
  <1>4. nodes' = (nodes \ {n}) \cup new
    BY DEF new
  <1>5. ASSUME NEW x \in nodes', NEW y \in nodes', Under(x, y) PROVE x = y
    <2>1. x \in Names /\ y \in Names
      BY <1>1, <1>2, <1>4
    <2>2. CASE x \in new /\ y \in new
      BY <1>3, <1>5, <2>1, <2>2
    <2>3. CASE x \in nodes \ {n} /\ y \in new
      BY <1>3, <1>5, <2>1, <2>3 DEF Antichain
    <2>4. CASE x \in new /\ y \in nodes \ {n}
      BY <1>3, <1>5, <2>1, <2>4 DEF Antichain
    <2>5. CASE x \in nodes \ {n} /\ y \in nodes \ {n}
      BY <1>5, <2>5 DEF Antichain
    <2>6. QED
      BY <1>4, <2>2, <2>3, <2>4, <2>5
  <1>6. ASSUME NEW s \in newSrc', NEW x \in nodes' PROVE ~Under(x, s)
    <2>1. s \in Names /\ x \in Names
      BY <1>1, <1>2, <1>4
    <2>2. CASE x \in new
      BY <1>3, <2>1, <2>2 DEF Gone
    <2>3. CASE x \in nodes \ {n}
      BY <2>3 DEF Antichain, Gone
    <2>4. QED
      BY <1>4, <2>2, <2>3
  <1>7. QED
    BY <1>5, <1>6 DEF Antichain, Gone

-----------------------------------------------------------------------------
(* The walk of a sweep.                                                    *)

\* A rank grows along the edges and is that of a node for all its instances.
Ranked(r) ==
  /\ r \in [Names -> Nat]
  /\ \A e \in edgesIn : r[e[1]] < r[e[2]]
  /\ \A o \in nodes \cup newSrc, x \in Names : Under(o, x) => r[x] = r[o]

\* own[i] is the node whose dependents stack[i] are: its instances are in the
\* graph, and all that is at work or waiting further down has a higher rank.
Calling(r, own) ==
  /\ own \in Seq(newSrc) /\ Len(own) = Len(stack)
  /\ \A i, j \in 1 .. Len(stack) : i < j => r[own[i]] < r[own[j]]
  /\ \A i \in 1 .. Len(stack) : \A d \in ToSet(stack[i]) :
       r[own[i]] < r[d] /\ d \in nodes \cup visited
  /\ \A i \in 1 .. Len(stack) : Instances(own[i], sweep.param, sweep.values) \subseteq nodes

\* The edges lead to nodes, and from nodes but for the waiting dependents of
\* the nodes at work.
Edged(own) ==
  \A e \in edgesIn :
    /\ e[2] \in nodes
    /\ \/ e[1] \in nodes
       \/ \E i \in 1 .. Len(stack) : e[1] = own[i] /\ e[2] \in ToSet(stack[i])

LEMMA RankedTyped ==
  ASSUME NEW r, Ranked(r), GraphTyped
  PROVE  /\ \A x \in Names : r[x] \in Nat
         /\ \A e \in edgesIn : e[1] \in Names /\ e[2] \in Names
  BY DEF Ranked, GraphTyped

\* All direct dependents are sorted: they have no cycle.
LEMMA PendingIsAll ==
  ASSUME GraphTyped, edgesIn = edgesOut, NEW r, Ranked(r), NEW n
  PROVE  Pending(n) \in Seq(Names) /\ ToSet(Pending(n)) = Dependents(edgesIn, n)
  <1> DEFINE deps == Dependents(edgesOut, n)
  <1>1. deps \in SUBSET Names /\ IsFiniteSet(deps)
    BY NeighboursFinite DEF GraphTyped
  <1>2. Pending(n) = TopologicalSort(deps, Within(deps))
    BY DEF Pending
  <1> HIDE DEF deps
  <1>3. Acyclic(deps, Within(deps))
    <2>1. \A e \in Within(deps) : r[e[1]] < r[e[2]]
      BY DEF Ranked, Within
    <2>2. \A d \in deps : r[d] \in Nat
      BY <1>1 DEF Ranked
    <2>3. QED
      BY <2>1, <2>2, RankedIsAcyclic
  <1>4. \A d \in deps : SourcesIn(Within(deps), d) \subseteq deps
    BY DEF SourcesIn, Within
  <1>5. IsOrder(Pending(n), deps, Within(deps))
    BY <1>1, <1>2, <1>3, <1>4, AcyclicSort
  <1>6. Pending(n) \in Seq(Names) /\ DOMAIN Pending(n) = 1 .. Len(Pending(n))
    BY <1>5 DEF IsOrder
  <1>7. ToSet(Pending(n)) = deps
    BY <1>5, <1>6 DEF ToSet, IsOrder
  <1>8. QED
    BY <1>6, <1>7 DEF deps

LEMMA ReplacedRanked ==
  ASSUME GraphTyped, newSrc \in SUBSET Names, NEW r, Ranked(r),
         NEW n \in nodes, NEW p \in Nat, NEW l \in Lists,
         NEW wires, \A w \in wires : r[w[1]] < r[w[2]],
         Replaced(n, Instances(n, p, l), wires), newSrc' = newSrc \cup {n}
  PROVE  Ranked(r)'
  <1>1. r \in [Names -> Nat] /\ \A e \in edgesIn' : r[e[1]] < r[e[2]]
    BY DEF Ranked, Replaced
  <1>2. ASSUME NEW o \in nodes' \cup newSrc', NEW x \in Names, Under(o, x)
        PROVE  r[x] = r[o]
    <2>1. CASE o \in nodes \cup newSrc
      BY <1>2, <2>1 DEF Ranked
    <2>2. CASE o \in Instances(n, p, l)
      <3>1. PICK v \in ToSet(l) : o = Instance(n, p, v)
        BY <2>2 DEF Instances
      <3>2. v \in Nat /\ n \in Names
        BY ListIs DEF GraphTyped
      <3>3. o \in Names /\ Under(n, o)
        BY <3>1, <3>2, InstanceIs, UnderInstance
      <3>4. Under(n, x)
        BY <1>2, <3>2, <3>3, UnderIsOrder
      <3>5. QED
        BY <3>3, <3>4 DEF Ranked
    <2>3. QED
      BY <2>1, <2>2 DEF Replaced
  <1>3. QED
    BY <1>1, <1>2 DEF Ranked

\* A node is replaced: the calls at work are as before, and one more.
LEMMA ReplacedCalling ==
  ASSUME GraphTyped, newSrc \in SUBSET Names, edgesIn = edgesOut,
         \A e \in edgesIn : e[2] \in nodes,
         NEW r, Ranked(r), NEW own, NEW st,
         NEW n \in nodes, NEW p \in Nat, NEW l \in Lists, NEW wires,
         Replaced(n, Instances(n, p, l), wires), newSrc' = newSrc \cup {n},
         stack' = Append(st, Pending(n)), sweep'.param = p, sweep'.values = l,
         own \in Seq(newSrc), st \in Seq(Seq(Names)), Len(own) = Len(st),
         \A i \in 1 .. Len(st) : r[own[i]] < r[n],
         \A i, j \in 1 .. Len(st) : i < j => r[own[i]] < r[own[j]],
         \A i \in 1 .. Len(st) : \A d \in ToSet(st[i]) :
           r[own[i]] < r[d] /\ d \in (nodes \ {n}) \cup visited',
         \A i \in 1 .. Len(st) : Instances(own[i], p, l) \subseteq nodes
  PROVE  Calling(r, Append(own, n))'
  <1> DEFINE own2 == Append(own, n)
             k == Len(st)
  <1>1. Pending(n) \in Seq(Names) /\ ToSet(Pending(n)) = Dependents(edgesIn, n)
    BY PendingIsAll
  <1>2. /\ k \in Nat /\ Len(own2) = k + 1 /\ Len(stack') = k + 1
        /\ own2[k + 1] = n /\ stack'[k + 1] = Pending(n)
        /\ \A i \in 1 .. k : own2[i] = own[i] /\ stack'[i] = st[i] /\ own[i] \in newSrc
    OBVIOUS
  <1>3. own2 \in Seq(newSrc')
    <2>1. \A i \in 1 .. k + 1 : own2[i] \in newSrc'
      BY <1>2
    <2>2. own \in Seq(newSrc')
      OBVIOUS
    <2>3. n \in newSrc'
      OBVIOUS
    <2>4. QED
      BY <2>2, <2>3
  <1> HIDE DEF own2, k
  <1>5. \A x \in Names : r[x] \in Nat
    BY RankedTyped
  <1>6. ASSUME NEW i \in 1 .. k + 1, NEW j \in 1 .. k + 1, i < j
        PROVE  r[own2[i]] < r[own2[j]]
    <2>1. i \in 1 .. k /\ (j \in 1 .. k \/ j = k + 1)
      BY <1>2, <1>6
    <2>2. CASE j \in 1 .. k
      BY <1>2, <1>6, <2>1, <2>2 DEF k
    <2>3. CASE j = k + 1
      BY <1>2, <2>1, <2>3 DEF k
    <2>4. QED
      BY <2>1, <2>2, <2>3
  <1>7. nodes' = (nodes \ {n}) \cup Instances(n, p, l)
    BY DEF Replaced
  <1>8. ASSUME NEW i \in 1 .. k + 1, NEW d \in ToSet(stack'[i])
        PROVE  r[own2[i]] < r[d] /\ d \in nodes' \cup visited'
    <2>1. CASE i \in 1 .. k
      BY <1>2, <1>7, <1>8, <2>1 DEF k
    <2>2. CASE i = k + 1
      <3>1. own2[i] = n /\ d \in Dependents(edgesIn, n)
        BY <1>1, <1>2, <1>8, <2>2
      <3>2. PICK e \in edgesIn : e[1] = n /\ e[2] = d
        BY <3>1 DEF Dependents
      <3>3. r[n] < r[d] /\ d \in nodes /\ n \in Names
        BY <3>2 DEF Ranked, GraphTyped
      <3>4. d # n
        BY <1>5, <3>3
      <3>5. QED
        BY <1>7, <3>1, <3>3, <3>4
    <2>3. QED
      BY <1>2, <2>1, <2>2
  <1>9. ASSUME NEW i \in 1 .. k + 1 PROVE Instances(own2[i], p, l) \subseteq nodes'
    <2>1. CASE i = k + 1
      BY <1>2, <1>7, <2>1
    <2>2. CASE i \in 1 .. k
      <3>1. own2[i] = own[i] /\ own[i] \in newSrc /\ own[i] \in Names
        BY <1>2, <2>2
      <3>2. ASSUME NEW v \in ToSet(l) PROVE Instance(own[i], p, v) \in nodes \ {n}
        <4>1. v \in Nat
          BY ListIs
        <4>2. Instance(own[i], p, v) \in Names /\ Under(own[i], Instance(own[i], p, v))
          BY <3>1, <4>1, InstanceIs, UnderInstance
        <4>3. r[Instance(own[i], p, v)] = r[own[i]]
          BY <3>1, <4>2 DEF Ranked
        <4>4. r[own[i]] < r[n] /\ r[own[i]] \in Nat
          BY <1>5, <2>2, <3>1 DEF k
        <4>5. Instance(own[i], p, v) \in nodes
          BY <2>2 DEF k, Instances
        <4>6. QED
          BY <4>3, <4>4, <4>5
      <3>3. QED
        BY <1>7, <3>1, <3>2 DEF Instances
    <2>3. QED
      BY <1>2, <2>1, <2>2
  <1>10. Calling(r, own2)'
    BY <1>2, <1>3, <1>6, <1>8, <1>9 DEF Calling
  <1>11. QED
    BY <1>10 DEF own2

LEMMA ReplacedEdged ==
  ASSUME GraphTyped, edgesIn = edgesOut, NEW r, Ranked(r), NEW own, NEW st,
         NEW n \in nodes, NEW p \in Nat, NEW l \in Lists, NEW wires,
         Replaced(n, Instances(n, p, l), wires), stack' = Append(st, Pending(n)),
         own \in Seq(newSrc), st \in Seq(Seq(Names)), Len(own) = Len(st),
         \A e \in edgesIn :
           /\ e[2] \in nodes
           /\ \/ e[1] \in nodes
              \/ e[2] = n
              \/ \E i \in 1 .. Len(st) : e[1] = own[i] /\ e[2] \in ToSet(st[i]),
         \A w \in wires : w[1] \in nodes \ {n} /\ w[2] \in Instances(n, p, l)
  PROVE  Edged(Append(own, n))'
  <1> DEFINE own2 == Append(own, n)
             k == Len(st)
  <1>1. Pending(n) \in Seq(Names) /\ ToSet(Pending(n)) = Dependents(edgesIn, n)
    BY PendingIsAll
  <1>2. /\ k \in Nat /\ Len(own2) = k + 1 /\ Len(stack') = k + 1
        /\ own2[k + 1] = n /\ stack'[k + 1] = Pending(n)
        /\ \A i \in 1 .. k : own2[i] = own[i] /\ stack'[i] = st[i]
    OBVIOUS
  <1> HIDE DEF own2, k
  <1>3. /\ nodes' = (nodes \ {n}) \cup Instances(n, p, l)
        /\ edgesIn' = {e \in edgesIn : e[2] # n} \cup wires
    BY DEF Replaced
  <1>4. ASSUME NEW e \in edgesIn'
        PROVE  /\ e[2] \in nodes'
               /\ \/ e[1] \in nodes'
                  \/ \E i \in 1 .. k + 1 : e[1] = own2[i] /\ e[2] \in ToSet(stack'[i])
    <2>1. CASE e \in wires
      BY <1>3, <2>1
    <2>2. CASE e \in edgesIn /\ e[2] # n
      <3>1. e[2] \in nodes'
        BY <1>3, <2>2
      <3>2. CASE e[1] \in nodes /\ e[1] # n
        BY <1>3, <3>1, <3>2
      <3>3. CASE e[1] = n
        <4>1. e[2] \in ToSet(stack'[k + 1]) /\ k + 1 \in 1 .. k + 1
          BY <1>1, <1>2, <2>2, <3>3 DEF Dependents
        <4>2. QED
          BY <1>2, <3>1, <3>3, <4>1
      <3>4. ASSUME NEW i \in 1 .. k, e[1] = own[i] /\ e[2] \in ToSet(st[i])
            PROVE  \E j \in 1 .. k + 1 : e[1] = own2[j] /\ e[2] \in ToSet(stack'[j])
        <4>1. i \in 1 .. k + 1
          BY <1>2
        <4>2. QED
          BY <1>2, <3>4, <4>1
      <3>5. QED
        BY <2>2, <3>1, <3>2, <3>3, <3>4 DEF k
    <2>3. QED
      BY <1>3, <2>1, <2>2
  <1>5. Edged(own2)'
    BY <1>2, <1>4 DEF Edged
  <1>6. QED
    BY <1>5 DEF own2

\* The wiring of a graph under construction.
Wired(r, own) == Ranked(r) /\ Calling(r, own) /\ Edged(own)

WInv ==
  /\ edgesIn = edgesOut
  /\ status = "script" =>
       /\ Antichain /\ Gone
       /\ ~Sweeping => newSrc = {}
       /\ \E r, own : Wired(r, own)

\* The helper finds its node and the sources of all instances.
LEMMA HelperResolves ==
  ASSUME TInv, Gone, NEW r, NEW own, Wired(r, own), NEW m, Calls(m), m \notin visited
  PROVE  /\ m \in nodes /\ r[own[Len(stack)]] < r[m]
         /\ \A w \in Wires(m) :
              /\ w[1] \in nodes \ {m} /\ w[2] \in Instances(m, sweep.param, sweep.values)
              /\ r[w[1]] < r[w[2]]
  <1> DEFINE p == sweep.param
             l == sweep.values
             k == Len(stack)
  <1>1. /\ p \in Nat /\ l \in Lists /\ ToSet(l) \in SUBSET Nat
        /\ newSrc \in SUBSET Names /\ nodes \in SUBSET Names
    BY ParamsAreNat, ListIs DEF TInv, WalkTyped, GraphTyped, Sweeping, Calls
  <1>2. /\ k \in 1 .. k /\ k \in Nat /\ Top \in Seq(Names) /\ Top # <<>> /\ m \in Names
        /\ m = Top[1] /\ Top = stack[k]
    BY CallIs DEF TInv, Top
  <1>3. m \in ToSet(stack[k])
    <2>1. 1 \in DOMAIN Top
      BY <1>2
    <2>2. QED
      BY <1>2, <2>1 DEF ToSet
  <1>4. r[own[k]] < r[m] /\ m \in nodes
    BY <1>2, <1>3 DEF Wired, Calling
  <1>5. own \in Seq(newSrc) /\ Len(own) = k
    BY DEF Wired, Calling
  <1>6. \A x \in Names : r[x] \in Nat
    BY RankedTyped DEF Wired, TInv
  <1> HIDE DEF k, p, l
  <1>7. ASSUME NEW s \in SourcesIn(edgesIn, m), NEW v \in ToSet(l)
        PROVE  /\ SourceFor(s, v) \in nodes \ {m}
               /\ r[SourceFor(s, v)] < r[Instance(m, p, v)]
    <2>1. PICK e \in edgesIn : e[1] = s /\ e[2] = m
      BY DEF SourcesIn
    <2>2. s \in Names /\ r[s] < r[m]
      BY <2>1, RankedTyped DEF Wired, Ranked, TInv
    <2>3. s \in nodes \/ \E i \in 1 .. k : s = own[i]
      BY <2>1 DEF Wired, Edged, k
    <2>4. v \in Nat /\ Instance(m, p, v) \in Names /\ Under(m, Instance(m, p, v))
      BY <1>1, <1>2, InstanceIs, UnderInstance
    <2>5. r[Instance(m, p, v)] = r[m]
      BY <1>4, <2>4 DEF Wired, Ranked
    <2>6. CASE s \in newSrc
      <3>1. s \notin nodes
        BY <1>1, <2>6, UnderIsOrder DEF Gone
      <3>2. PICK i \in 1 .. k : s = own[i]
        BY <2>3, <3>1
      <3>3. Instance(s, p, v) \in nodes
        BY <3>2 DEF Wired, Calling, k, p, l, Instances
      <3>4. SourceFor(s, v) = Instance(s, p, v)
        BY <2>6 DEF SourceFor, p
      <3>5. Instance(s, p, v) \in Names /\ Under(s, Instance(s, p, v))
        BY <1>1, <2>2, <2>4, InstanceIs, UnderInstance
      <3>6. r[Instance(s, p, v)] = r[s]
        BY <2>6, <3>5 DEF Wired, Ranked
      <3>7. Instance(s, p, v) # m
        BY <1>2, <1>6, <2>2, <3>6
      <3>8. QED
        BY <2>2, <2>5, <3>3, <3>4, <3>6, <3>7
    <2>7. CASE s \notin newSrc
      <3>1. s \in nodes
        BY <1>5, <2>3, <2>7
      <3>2. SourceFor(s, v) = s
        BY <2>7 DEF SourceFor
      <3>3. s # m
        BY <1>2, <1>6, <2>2
      <3>4. QED
        BY <2>2, <2>5, <3>1, <3>2, <3>3
    <2>8. QED
      BY <2>6, <2>7
  <1>8. ASSUME NEW w \in Wires(m)
        PROVE  w[1] \in nodes \ {m} /\ w[2] \in Instances(m, p, l) /\ r[w[1]] < r[w[2]]
    <2>1. PICK s \in SourcesIn(edgesIn, m), v \in ToSet(l) :
            w = <<SourceFor(s, v), Instance(m, p, v)>>
      BY DEF Wires, p, l
    <2>2. w[1] = SourceFor(s, v) /\ w[2] = Instance(m, p, v)
      BY <2>1
    <2>3. w[2] \in Instances(m, p, l)
      BY <2>2 DEF Instances
    <2>4. QED
      BY <1>7, <2>2, <2>3
  <1>9. QED
    BY <1>4, <1>8 DEF p, l, k

LEMMA ParamSpaceWired ==
  ASSUME TInv, WInv, NEW n \in nodes, NEW p, NEW l \in Lists, ParamSpace(n, p, l)
  PROVE  WInv'
  <1> DEFINE new == Instances(n, p, l)
             wires == SourcesIn(edgesIn, n) \X new
  <1>1. /\ Replaced(n, new, wires) /\ p \in Nat /\ status = "script" /\ ~Sweeping
        /\ newSrc' = {n} /\ stack' = <<Pending(n)>>
        /\ sweep' = [root |-> n, param |-> p, values |-> l]
    BY ParamsAreNat DEF ParamSpace, Building, Scripting, Instances
  <1>2. PICK r, own : Wired(r, own)
    BY <1>1 DEF WInv
  <1>3. /\ GraphTyped /\ newSrc = {} /\ newSrc \in SUBSET Names /\ stack = <<>>
        /\ edgesIn = edgesOut /\ Antichain /\ Gone /\ Ranked(r)
        /\ newSrc' = newSrc \cup {n}
    BY <1>1, <1>2 DEF TInv, WalkTyped, WInv, Wired
  <1>4. n \in Names /\ ToSet(l) \in SUBSET Nat
    BY <1>3, ListIs DEF GraphTyped
  <1>5. \A e \in edgesIn : e[1] \in nodes /\ e[2] \in nodes
    BY <1>2, <1>3 DEF Wired, Edged
  <1>6. ASSUME NEW w \in wires
        PROVE  w[1] \in nodes \ {n} /\ w[2] \in new /\ r[w[1]] < r[w[2]]
    <2>1. w[1] \in SourcesIn(edgesIn, n) /\ w[2] \in new
      OBVIOUS
    <2>2. PICK e \in edgesIn : e[1] = w[1] /\ e[2] = n
      BY <2>1 DEF SourcesIn
    <2>3. PICK v \in ToSet(l) : w[2] = Instance(n, p, v)
      BY <2>1 DEF Instances
    <2>4. w[2] \in Names /\ Under(n, w[2])
      BY <1>1, <1>4, <2>3, InstanceIs, UnderInstance
    <2>5. r[w[2]] = r[n] /\ r[w[1]] < r[n] /\ r[n] \in Nat
      BY <1>3, <1>4, <2>2, <2>4 DEF Ranked
    <2>6. QED
      BY <1>5, <2>1, <2>2, <2>5
  <1> HIDE DEF wires
  <1>7. nodes' = (nodes \ {n}) \cup Instances(n, p, l)
    BY <1>1 DEF Replaced
  <1>8. Antichain' /\ Gone'
    BY <1>1, <1>3, <1>7, ReplacedApart
  <1>9. Ranked(r)'
    BY <1>1, <1>3, <1>6, ReplacedRanked
  <1>10. PICK st : st = <<>> /\ st \in Seq(Seq(Names)) /\ st \in Seq(newSrc) /\ 1 .. Len(st) = {}
    <2>1. PICK st : st = <<>>
      OBVIOUS
    <2>2. st \in Seq(Seq(Names)) /\ st \in Seq(newSrc) /\ Len(st) = 0
      BY <2>1, EmptySeq
    <2>3. 1 .. Len(st) = {}
      BY <2>2
    <2>4. QED
      BY <2>1, <2>2, <2>3
  <1>11. stack' = Append(st, Pending(n))
    BY <1>1, <1>10
  <1>12. sweep'.param = p /\ sweep'.values = l
    BY <1>1
  <1>13. Calling(r, Append(st, n))'
    BY <1>1, <1>3, <1>5, <1>10, <1>11, <1>12, ReplacedCalling
  <1>14. Edged(Append(st, n))'
    BY <1>1, <1>3, <1>5, <1>6, <1>10, <1>11, ReplacedEdged
  <1>15. Sweeping' /\ edgesIn' = edgesOut'
    <2>1. sweep' # Idle
      BY <1>12, ListIs DEF Idle
    <2>2. QED
      BY <1>1, <1>3, <2>1 DEF Sweeping, Replaced
  <1>16. \E r2, own2 : Wired(r2, own2)'
    BY <1>9, <1>13, <1>14 DEF Wired
  <1>17. QED
    BY <1>8, <1>15, <1>16 DEF WInv

LEMMA TailIs ==
  ASSUME NEW S, NEW s \in Seq(S), s # <<>>
  PROVE  ToSet(s) = {s[1]} \cup ToSet(Tail(s))
  <1>1. Len(s) \in Nat \ {0} /\ Tail(s) \in Seq(S) /\ Len(Tail(s)) = Len(s) - 1
    OBVIOUS
  <1>2. \A i \in 1 .. Len(s) - 1 : Tail(s)[i] = s[i + 1]
    OBVIOUS
  <1>3. DOMAIN s = 1 .. Len(s) /\ DOMAIN Tail(s) = 1 .. Len(s) - 1
    BY <1>1
  <1>4. ASSUME NEW x \in ToSet(s) PROVE x \in {s[1]} \cup ToSet(Tail(s))
    <2>1. PICK i \in 1 .. Len(s) : x = s[i]
      BY <1>3 DEF ToSet
    <2>2. CASE i # 1
      <3>1. i - 1 \in 1 .. Len(s) - 1 /\ x = Tail(s)[i - 1]
        BY <1>1, <1>2, <2>1, <2>2
      <3>2. QED
        BY <1>3, <3>1 DEF ToSet
    <2>3. QED
      BY <2>1, <2>2
  <1>5. s[1] \in ToSet(s)
    BY <1>1, <1>3 DEF ToSet
  <1>6. ASSUME NEW x \in ToSet(Tail(s)) PROVE x \in ToSet(s)
    <2>1. PICK i \in 1 .. Len(s) - 1 : x = Tail(s)[i]
      BY <1>3 DEF ToSet
    <2>2. i + 1 \in 1 .. Len(s) /\ x = s[i + 1]
      BY <1>1, <1>2, <2>1
    <2>3. QED
      BY <1>3, <2>2 DEF ToSet
  <1>7. QED
    BY <1>4, <1>5, <1>6

LEMMA HelperWired ==
  ASSUME TInv, WInv, NEW m, Helper(m)
  PROVE  WInv'
  <1> DEFINE p == sweep.param
             l == sweep.values
             k == Len(stack)
  <1>1. /\ Replaced(m, Instances(m, p, l), Wires(m)) /\ Calls(m) /\ m \notin visited
        /\ newSrc' = newSrc \cup {m} /\ visited' = visited \cup {m}
        /\ stack' = Append(Popped, Pending(m)) /\ sweep' = sweep /\ status' = status
    BY DEF Helper, Instances
  <1>2. /\ Sweeping /\ status = "script" /\ p \in Nat /\ l \in Lists
        /\ newSrc \in SUBSET Names /\ GraphTyped /\ WalkTyped
    BY <1>1, ParamsAreNat DEF Calls, TInv, WalkTyped, RunTyped, Sweeping
  <1>3. /\ edgesIn = edgesOut /\ Antichain /\ Gone
        /\ \E r, own : Wired(r, own)
    BY <1>2 DEF WInv
  <1>4. PICK r, own : Wired(r, own)
    BY <1>3
  <1>5. /\ m \in nodes /\ r[own[k]] < r[m]
        /\ \A w \in Wires(m) : /\ w[1] \in nodes \ {m} /\ w[2] \in Instances(m, p, l)
                               /\ r[w[1]] < r[w[2]]
    BY <1>1, <1>3, <1>4, HelperResolves
  <1>6. /\ k \in Nat \ {0} /\ Top \in Seq(Names) /\ Top # <<>> /\ m \in Names
        /\ m = Top[1] /\ Top = stack[k]
        /\ Popped \in Seq(Seq(Names)) /\ Len(Popped) = k /\ Popped[k] = Tail(Top)
        /\ \A i \in 1 .. k : i # k => Popped[i] = stack[i]
    BY <1>1, <1>2, CallIs DEF Top
  <1>7. Ranked(r) /\ Calling(r, own) /\ Edged(own)
    BY <1>4 DEF Wired
  <1>8. own \in Seq(newSrc) /\ Len(own) = k
    BY <1>7 DEF Calling
  <1>9. /\ ToSet(Top) = {m} \cup ToSet(Popped[k])
        /\ \A i \in 1 .. k : i # k => ToSet(Popped[i]) = ToSet(stack[i])
    <2>1. ToSet(Top) = {m} \cup ToSet(Tail(Top))
      BY <1>6, TailIs
    <2>2. QED
      BY <1>6, <2>1
  <1>10. \A x \in Names : r[x] \in Nat
    BY <1>2, <1>7, RankedTyped
  <1> HIDE DEF p, l, k
  <1>11. \A i, j \in 1 .. k : i < j => r[own[i]] < r[own[j]]
    BY <1>7 DEF Calling, k
  <1>12. ASSUME NEW i \in 1 .. k PROVE r[own[i]] < r[m]
    <2>1. CASE i = k
      BY <1>5, <2>1
    <2>2. CASE i < k
      <3>1. k \in 1 .. k /\ r[own[i]] < r[own[k]]
        BY <1>6, <1>11, <2>2
      <3>2. own[i] \in Names /\ own[k] \in Names
        BY <1>2, <1>8, <3>1
      <3>3. QED
        BY <1>5, <1>6, <1>10, <3>1, <3>2
    <2>3. QED
      BY <1>6, <2>1, <2>2
  <1>13. ASSUME NEW i \in 1 .. k, NEW d \in ToSet(Popped[i])
         PROVE  r[own[i]] < r[d] /\ d \in (nodes \ {m}) \cup visited'
    <2>1. d \in ToSet(stack[i])
      BY <1>6, <1>9, <1>13
    <2>2. r[own[i]] < r[d] /\ d \in nodes \cup visited
      BY <1>7, <2>1 DEF Calling, k
    <2>3. QED
      BY <1>1, <2>2
  <1>14. \A i \in 1 .. k : Instances(own[i], p, l) \subseteq nodes
    BY <1>7 DEF Calling, k, p, l
  <1>15. ASSUME NEW e \in edgesIn
         PROVE  /\ e[2] \in nodes
                /\ \/ e[1] \in nodes
                   \/ e[2] = m
                   \/ \E i \in 1 .. k : e[1] = own[i] /\ e[2] \in ToSet(Popped[i])
    <2>1. /\ e[2] \in nodes
          /\ \/ e[1] \in nodes
             \/ \E i \in 1 .. k : e[1] = own[i] /\ e[2] \in ToSet(stack[i])
      BY <1>7 DEF Edged, k
    <2>2. ASSUME NEW i \in 1 .. k, e[2] \in ToSet(stack[i]), e[2] # m
          PROVE  e[2] \in ToSet(Popped[i])
      BY <1>6, <1>9, <2>2
    <2>3. QED
      BY <2>1, <2>2
  <1>16. PICK st : st = Popped
    OBVIOUS
  <1>17. /\ st \in Seq(Seq(Names)) /\ Len(st) = k /\ stack' = Append(st, Pending(m))
         /\ sweep'.param = p /\ sweep'.values = l
    BY <1>1, <1>6, <1>16 DEF p, l
  <1>18. nodes' = (nodes \ {m}) \cup Instances(m, p, l)
    BY <1>1 DEF Replaced
  <1>20. Antichain' /\ Gone'
    BY <1>1, <1>2, <1>3, <1>5, <1>18, ReplacedApart
  <1>21. Ranked(r)'
    BY <1>1, <1>2, <1>5, <1>7, ReplacedRanked
  <1>22. Calling(r, Append(own, m))'
    BY <1>1, <1>2, <1>3, <1>5, <1>7, <1>8, <1>11, <1>12, <1>13, <1>14, <1>15, <1>16, <1>17,
       ReplacedCalling
  <1>23. Edged(Append(own, m))'
    BY <1>1, <1>2, <1>3, <1>5, <1>7, <1>8, <1>15, <1>16, <1>17, ReplacedEdged
  <1>24. edgesIn' = edgesOut' /\ Sweeping'
    BY <1>1, <1>2, <1>3 DEF Replaced, Sweeping
  <1>25. \E r2, own2 : Wired(r2, own2)'
    BY <1>21, <1>22, <1>23 DEF Wired
  <1>26. QED
    BY <1>20, <1>24, <1>25 DEF WInv

LEMMA ReturnWired ==
  ASSUME TInv, WInv, NEW m, HelperReturnsAtOnce(m)
  PROVE  WInv'
  <1> DEFINE k == Len(stack)
  <1>1. /\ Calls(m) /\ m \in visited /\ stack' = Popped
        /\ UNCHANGED <<nodes, edgesIn, edgesOut, sweep, newSrc, visited, status>>
    BY DEF HelperReturnsAtOnce, graph
  <1>2. /\ Sweeping /\ status = "script" /\ newSrc \in SUBSET Names /\ visited \subseteq newSrc
        /\ WalkTyped
    BY <1>1 DEF Calls, TInv, WalkTyped, RunTyped
  <1>3. PICK r, own : Wired(r, own)
    BY <1>2 DEF WInv
  <1>4. Ranked(r) /\ Calling(r, own) /\ Edged(own) /\ Gone /\ Antichain
    BY <1>2, <1>3 DEF Wired, WInv
  <1>5. m \in Names /\ m \notin nodes
    BY <1>1, <1>2, <1>4, UnderIsOrder DEF Gone
  <1>6. /\ k \in Nat \ {0} /\ Top \in Seq(Names) /\ Top # <<>>
        /\ m = Top[1] /\ Top = stack[k] /\ Len(stack') = k /\ stack'[k] = Tail(Top)
        /\ \A i \in 1 .. k : i # k => stack'[i] = stack[i]
    BY <1>1, <1>2, CallIs DEF Top
  <1>7. ToSet(Top) = {m} \cup ToSet(Tail(Top))
    BY <1>6, TailIs
  <1> HIDE DEF k
  <1>8. ASSUME NEW i \in 1 .. k
        PROVE  /\ ToSet(stack'[i]) \subseteq ToSet(stack[i])
               /\ ToSet(stack[i]) \subseteq ToSet(stack'[i]) \cup {m}
    BY <1>6, <1>7
  <1>9. Ranked(r)' /\ Antichain' /\ Gone'
    BY <1>1, <1>4 DEF Ranked, Antichain, Gone
  <1>10. Calling(r, own)'
    <2>1. own \in Seq(newSrc') /\ Len(own) = Len(stack')
      BY <1>1, <1>4, <1>6 DEF Calling, k
    <2>2. \A i, j \in 1 .. k : i < j => r[own[i]] < r[own[j]]
      BY <1>4 DEF Calling, k
    <2>3. ASSUME NEW i \in 1 .. k, NEW d \in ToSet(stack'[i])
          PROVE  r[own[i]] < r[d] /\ d \in nodes' \cup visited'
      BY <1>1, <1>4, <1>8 DEF Calling, k
    <2>4. \A i \in 1 .. k : Instances(own[i], sweep'.param, sweep'.values) \subseteq nodes'
      BY <1>1, <1>4 DEF Calling, k
    <2>5. QED
      BY <1>6, <2>1, <2>2, <2>3, <2>4 DEF Calling
  <1>11. Edged(own)'
    <2>1. ASSUME NEW e \in edgesIn'
          PROVE  /\ e[2] \in nodes'
                 /\ \/ e[1] \in nodes'
                    \/ \E i \in 1 .. k : e[1] = own[i] /\ e[2] \in ToSet(stack'[i])
      <3>1. /\ e[2] \in nodes
            /\ \/ e[1] \in nodes
               \/ \E i \in 1 .. k : e[1] = own[i] /\ e[2] \in ToSet(stack[i])
        BY <1>1, <1>4 DEF Edged, k
      <3>2. QED
        BY <1>1, <1>5, <1>8, <3>1
    <2>2. QED
      BY <1>6, <2>1 DEF Edged
  <1>12. edgesIn' = edgesOut' /\ Sweeping'
    BY <1>1, <1>2 DEF Sweeping, WInv
  <1>13. \E r2, own2 : Wired(r2, own2)'
    BY <1>9, <1>10, <1>11 DEF Wired
  <1>14. QED
    BY <1>9, <1>12, <1>13 DEF WInv

LEMMA DoneWired ==
  ASSUME TInv, WInv, HelperDone
  PROVE  WInv'
  <1> DEFINE k == Len(stack)
  <1>1. /\ Sweeping /\ Top = <<>> /\ stack' = Front(stack)
        /\ UNCHANGED <<nodes, edgesIn, edgesOut, status>>
        /\ k = 1 => sweep' = Idle /\ newSrc' = {}
        /\ k # 1 => UNCHANGED <<sweep, newSrc, visited>>
    BY DEF HelperDone, graph
  <1>2. status = "script" /\ stack \in Seq(Seq(Names)) /\ stack # <<>>
    BY <1>1 DEF TInv, WalkTyped, RunTyped
  <1>3. PICK r, own : Wired(r, own)
    BY <1>2 DEF WInv
  <1>4. Ranked(r) /\ Calling(r, own) /\ Edged(own) /\ Gone /\ Antichain
    BY <1>2, <1>3 DEF Wired, WInv
  <1>5. k \in Nat \ {0} /\ Top = stack[k]
    BY <1>2 DEF Top
  <1>6. /\ Len(stack') = k - 1
        /\ \A i \in 1 .. k - 1 : stack'[i] = stack[i] /\ i \in 1 .. k
    <2> DEFINE X == Seq(Names)
    <2> HIDE DEF X
    <2>1. stack \in Seq(X)
      BY <1>2 DEF X
    <2>2. Len(Front(stack)) = k - 1 /\ \A i \in 1 .. k - 1 : Front(stack)[i] = stack[i]
      BY <1>2, <2>1, FrontIs
    <2>3. QED
      BY <1>1, <1>5, <2>2
  <1>7. own \in Seq(newSrc) /\ Len(own) = k
    BY <1>4 DEF Calling
  <1>8. PICK own2 : own2 = Front(own)
    OBVIOUS
  <1>9. own2 \in Seq(newSrc) /\ Len(own2) = k - 1 /\ \A i \in 1 .. k - 1 : own2[i] = own[i]
    <2>1. own # <<>>
      BY <1>5, <1>7
    <2>2. QED
      BY <1>7, <1>8, <2>1, FrontIs
  <1> HIDE DEF k
  <1>10. Ranked(r)' /\ Antichain' /\ Gone'
    BY <1>1, <1>4 DEF Ranked, Antichain, Gone
  <1>11. Calling(r, own2)'
    <2>1. CASE k = 1
      <3>1. own2 = <<>> /\ Len(stack') = 0
        BY <1>6, <1>9, <2>1
      <3>2. own2 \in Seq(newSrc') /\ Len(own2) = 0 /\ 1 .. Len(stack') = {}
        BY <3>1
      <3>3. QED
        BY <3>1, <3>2 DEF Calling
    <2>2. CASE k # 1
      <3>1. own2 \in Seq(newSrc') /\ Len(own2) = Len(stack')
        BY <1>1, <1>6, <1>9, <2>2
      <3>2. \A i, j \in 1 .. k - 1 : i < j => r[own2[i]] < r[own2[j]]
        BY <1>4, <1>6, <1>9 DEF Calling, k
      <3>3. ASSUME NEW i \in 1 .. k - 1, NEW d \in ToSet(stack'[i])
            PROVE  r[own2[i]] < r[d] /\ d \in nodes' \cup visited'
        BY <1>1, <1>4, <1>6, <1>9, <2>2 DEF Calling, k
      <3>4. ASSUME NEW i \in 1 .. k - 1
            PROVE  Instances(own2[i], sweep'.param, sweep'.values) \subseteq nodes'
        BY <1>1, <1>4, <1>6, <1>9, <2>2 DEF Calling, k
      <3>5. QED
        BY <1>6, <3>1, <3>2, <3>3, <3>4 DEF Calling
    <2>3. QED
      BY <2>1, <2>2
  <1>12. Edged(own2)'
    <2>1. ASSUME NEW e \in edgesIn'
          PROVE  /\ e[2] \in nodes'
                 /\ \/ e[1] \in nodes'
                    \/ \E i \in 1 .. k - 1 : e[1] = own2[i] /\ e[2] \in ToSet(stack'[i])
      <3>1. /\ e[2] \in nodes
            /\ \/ e[1] \in nodes
               \/ \E i \in 1 .. k : e[1] = own[i] /\ e[2] \in ToSet(stack[i])
        BY <1>1, <1>4 DEF Edged, k
      <3>2. ASSUME NEW i \in 1 .. k, e[1] = own[i], e[2] \in ToSet(stack[i])
            PROVE  i \in 1 .. k - 1
        <4>1. ToSet(<<>>) = {}
          BY DEF ToSet
        <4>2. i # k
          BY <1>1, <1>5, <3>2, <4>1
        <4>3. QED
          BY <1>5, <4>2
      <3>3. QED
        BY <1>1, <1>6, <1>9, <3>1, <3>2
    <2>2. QED
      BY <1>6, <2>1 DEF Edged
  <1>13. edgesIn' = edgesOut' /\ (~Sweeping' => newSrc' = {})
    BY <1>1, <1>2 DEF Sweeping, WInv
  <1>14. \E r2, own3 : Wired(r2, own3)'
    BY <1>10, <1>11, <1>12 DEF Wired
  <1>15. QED
    BY <1>10, <1>13, <1>14 DEF WInv

-----------------------------------------------------------------------------
(* The cone of a node.                                                     *)

LEMMA ConeIs ==
  ASSUME NEW S, IsFiniteSet(S), NEW E \in SUBSET (S \X S), NEW d \in S
  PROVE  \E f \in [0 .. Cardinality(S) -> SUBSET S] :
           /\ f[0] = {d}
           /\ \A k \in 1 .. Cardinality(S) :
                f[k] = f[k - 1] \cup {e[2] : e \in {x \in E : x[1] \in f[k - 1]}}
           /\ Cone([nodes |-> S, edges |-> E], d) = f[Cardinality(S)]
  <1> DEFINE N == Cardinality(S)
             Near(a) == a \cup {e[2] : e \in {x \in E : x[1] \in a}}
             Body(g) == [k \in 0 .. N |-> IF k = 0 THEN {d} ELSE Near(g[k - 1])]
             F == [a \in Nat \X SUBSET S |-> Near(a[2])]
  <1>1. N \in Nat
    BY FS_CardinalityType
  <1>2. F \in [Nat \X SUBSET S -> SUBSET S]
    <2>1. ASSUME NEW a \in SUBSET S PROVE Near(a) \in SUBSET S
      OBVIOUS
    <2>2. QED
      BY <2>1
  <1> DEFINE h == CHOOSE h : h = Body(h)
  <1>3. Cone([nodes |-> S, edges |-> E], d) = h[N]
    BY DEF Cone
  <1> HIDE DEF N, F, Near
  <1>4. PICK g \in [0 .. N -> SUBSET S] :
          g = [k \in 0 .. N |-> IF k = 0 THEN {d} ELSE F[<<k, g[k - 1]>>]]
    <2> DEFINE X == SUBSET S
               c == {d}
    <2>1. c \in X /\ 0 \in Nat
      OBVIOUS
    <2>2. F \in [Nat \X X -> X]
      BY <1>2
    <2> HIDE DEF X, c
    <2>3. \E g : Recursive(g, X, c, F, 0, N)
      BY <1>1, <2>1, <2>2, Recursion
    <2>4. QED
      BY <2>3 DEF X, c, Recursive
  <1>5. ASSUME NEW k \in 1 .. N
        PROVE  F[<<k, g[k - 1]>>] = Near(g[k - 1])
    <2>1. k \in Nat /\ g[k - 1] \in SUBSET S
      BY <1>1, <1>4
    <2>2. <<k, g[k - 1]>> \in Nat \X SUBSET S
      BY <2>1
    <2>3. QED
      BY <2>2 DEF F
  <1>6. g = Body(g)
    <2>1. ASSUME NEW k \in 0 .. N PROVE g[k] = Body(g)[k]
      <3>1. g[k] = IF k = 0 THEN {d} ELSE F[<<k, g[k - 1]>>]
        BY <1>4
      <3>2. Body(g)[k] = IF k = 0 THEN {d} ELSE Near(g[k - 1])
        OBVIOUS
      <3>3. k # 0 => k \in 1 .. N
        BY <1>1
      <3> HIDE DEF Body
      <3>4. QED
        BY <1>5, <3>1, <3>2, <3>3
    <2>2. g = [k \in 0 .. N |-> g[k]]
      OBVIOUS
    <2>3. Body(g) = [k \in 0 .. N |-> Body(g)[k]]
      OBVIOUS
    <2> HIDE DEF Body
    <2>4. QED
      BY <2>1, <2>2, <2>3
  <1> HIDE DEF Body, h
  <1>7. h = Body(h)
    BY <1>6 DEF h
  <1>8. h[0] = {d}
    <2>1. Body(h)[0] = {d}
      BY <1>1 DEF Body
    <2>2. QED
      BY <1>7, <2>1
  <1>9. ASSUME NEW k \in 1 .. N PROVE h[k] = Near(h[k - 1])
    <2>1. Body(h)[k] = Near(h[k - 1])
      BY <1>1 DEF Body
    <2>2. QED
      BY <1>7, <2>1
  <1>10. h = [k \in 0 .. N |-> h[k]]
    BY <1>7 DEF Body
  <1> DEFINE T == {k \in Nat : k \in 0 .. N => h[k] \in SUBSET S}
  <1>11. 0 \in T
    BY <1>8
  <1>12. ASSUME NEW k \in Nat, k \in T PROVE k + 1 \in T
    <2>1. SUFFICES ASSUME k + 1 \in 0 .. N PROVE h[k + 1] \in SUBSET S
      OBVIOUS
    <2>2. k \in 0 .. N /\ k + 1 \in 1 .. N /\ (k + 1) - 1 = k
      BY <1>1, <2>1
    <2>3. h[k] \in SUBSET S /\ h[k + 1] = Near(h[k])
      <3>1. h[k + 1] = Near(h[(k + 1) - 1])
        BY <1>9, <2>2
      <3>2. QED
        BY <1>12, <2>2, <3>1
    <2>4. QED
      BY <2>3 DEF Near
  <1> HIDE DEF T
  <1>13. \A k \in Nat : k \in T
    BY <1>11, <1>12, Inductive
  <1>14. h \in [0 .. N -> SUBSET S]
    <2>1. \A k \in 0 .. N : h[k] \in SUBSET S
      BY <1>1, <1>13 DEF T
    <2>2. QED
      BY <1>10, <2>1
  <1>15. QED
    BY <1>3, <1>8, <1>9, <1>14 DEF N, Near

\* The cone of a node has it, and whatever an edge leads to from the cone.
LEMMA ConeIsClosed ==
  ASSUME NEW S, IsFiniteSet(S), NEW E \in SUBSET (S \X S), NEW d \in S
  PROVE  LET C == Cone([nodes |-> S, edges |-> E], d) IN
           d \in C /\ C \in SUBSET S /\ \A e \in E : e[1] \in C => e[2] \in C
  <1> DEFINE N == Cardinality(S)
             Closed(a) == \A e \in E : e[1] \in a => e[2] \in a
  <1>1. PICK f \in [0 .. N -> SUBSET S] :
          /\ f[0] = {d}
          /\ \A k \in 1 .. N : f[k] = f[k - 1] \cup {e[2] : e \in {x \in E : x[1] \in f[k - 1]}}
          /\ Cone([nodes |-> S, edges |-> E], d) = f[N]
    BY ConeIs
  <1>2. N \in Nat
    BY FS_CardinalityType
  <1>3. ASSUME NEW k \in 0 .. N
        PROVE  f[k] \in SUBSET S /\ IsFiniteSet(f[k]) /\ Cardinality(f[k]) \in Nat
               /\ Cardinality(f[k]) <= N
    BY <1>1, FS_Subset, FS_CardinalityType
  <1> HIDE DEF N
  <1> DEFINE T == {k \in Nat : k \in 0 .. N =>
                     d \in f[k] /\ (Closed(f[k]) \/ Cardinality(f[k]) >= k + 1)}
  <1>4. 0 \in T
    <2>1. d \in f[0] /\ Cardinality(f[0]) = 1
      BY <1>1, FS_Singleton
    <2>2. QED
      BY <2>1
  <1>5. ASSUME NEW k \in Nat, k \in T PROVE k + 1 \in T
    <2>1. SUFFICES ASSUME k + 1 \in 0 .. N
                   PROVE  /\ d \in f[k + 1]
                          /\ Closed(f[k + 1]) \/ Cardinality(f[k + 1]) >= (k + 1) + 1
      OBVIOUS
    <2>2. k \in 0 .. N /\ k + 1 \in 1 .. N /\ (k + 1) - 1 = k
      BY <1>2, <2>1
    <2>3. f[k + 1] = f[k] \cup {e[2] : e \in {x \in E : x[1] \in f[k]}}
      <3>1. f[k + 1] = f[(k + 1) - 1] \cup {e[2] : e \in {x \in E : x[1] \in f[(k + 1) - 1]}}
        BY <1>1, <2>2
      <3>2. QED
        BY <2>2, <3>1
    <2>4. d \in f[k] /\ (Closed(f[k]) \/ Cardinality(f[k]) >= k + 1)
      BY <1>5, <2>2
    <2>5. CASE Closed(f[k])
      <3>1. f[k + 1] = f[k]
        BY <2>3, <2>5
      <3>2. QED
        BY <2>4, <2>5, <3>1
    <2>6. CASE ~Closed(f[k])
      <3>1. PICK e \in E : e[1] \in f[k] /\ e[2] \notin f[k]
        BY <2>6
      <3>2. e[2] \in f[k + 1] /\ f[k] \subseteq f[k + 1]
        BY <2>3, <3>1
      <3>3. Cardinality(f[k]) <= Cardinality(f[k + 1])
            /\ Cardinality(f[k]) # Cardinality(f[k + 1])
        BY <1>3, <2>1, <3>1, <3>2, FS_Subset
      <3>4. Cardinality(f[k + 1]) >= (k + 1) + 1
        BY <1>3, <2>1, <2>2, <2>4, <2>6, <3>3
      <3>5. QED
        BY <2>4, <3>2, <3>4
    <2>7. QED
      BY <2>5, <2>6
  <1> HIDE DEF T
  <1>6. N \in T
    BY <1>2, <1>4, <1>5, Inductive
  <1>7. N \in 0 .. N
    BY <1>2
  <1>8. d \in f[N] /\ Closed(f[N])
    BY <1>2, <1>3, <1>6, <1>7 DEF T
  <1>9. QED
    BY <1>1, <1>3, <1>7, <1>8

-----------------------------------------------------------------------------
(* The wiring of the graph is right at every step.                         *)

\* Between sweeps nothing is replaced, and all edges are between nodes.
LEMMA Calm ==
  ASSUME TInv, WInv, Scripting
  PROVE  /\ newSrc = {} /\ stack = <<>> /\ edgesIn = edgesOut /\ Antichain
         /\ edgesIn \in SUBSET (nodes \X nodes)
         /\ \E r : Ranked(r)
  <1>1. newSrc = {} /\ stack = <<>> /\ edgesIn = edgesOut /\ Antichain
    BY DEF Scripting, TInv, WalkTyped, WInv
  <1>2. PICK r, own : Ranked(r) /\ Edged(own)
    BY DEF Scripting, WInv, Wired
  <1>3. 1 .. Len(stack) = {}
    BY <1>1
  <1>4. ASSUME NEW e \in edgesIn PROVE e \in nodes \X nodes
    <2>1. e[1] \in nodes /\ e[2] \in nodes
      BY <1>2, <1>3 DEF Edged
    <2>2. e \in Names \X Names
      BY DEF TInv, GraphTyped
    <2>3. QED
      BY <2>1, <2>2
  <1>5. QED
    BY <1>1, <1>2, <1>4

LEMMA CalmWired ==
  ASSUME NEW r, Ranked(r)', stack' = <<>>, newSrc' = {}, Antichain', edgesIn' = edgesOut',
         edgesIn' \in SUBSET (nodes' \X nodes')
  PROVE  WInv'
  <1>1. PICK own : own = <<>>
    OBVIOUS
  <1>2. own \in Seq(newSrc') /\ Len(own) = 0 /\ Len(stack') = 0 /\ 1 .. Len(stack') = {}
    BY <1>1
  <1>3. Calling(r, own)'
    BY <1>2 DEF Calling
  <1>4. Edged(own)'
    BY DEF Edged
  <1>5. Gone'
    BY DEF Gone
  <1>6. \E r2, own2 : Wired(r2, own2)'
    BY <1>3, <1>4 DEF Wired
  <1>7. QED
    BY <1>5, <1>6 DEF WInv

LEMMA AddNodeWired ==
  ASSUME TInv, WInv, NEW b \in Base, AddNode(b)
  PROVE  WInv'
  <1>1. /\ nodes' = nodes \cup {Name(b)} /\ UNCHANGED <<edgesIn, edgesOut, newSrc, stack>>
        /\ Scripting /\ \A n \in nodes : n[1] # b
    BY DEF AddNode, walk, Building
  <1>2. /\ newSrc = {} /\ stack = <<>> /\ edgesIn = edgesOut /\ Antichain
        /\ edgesIn \in SUBSET (nodes \X nodes)
        /\ \E r : Ranked(r)
    BY <1>1, Calm
  <1>3. PICK r : Ranked(r)
    BY <1>2
  <1>4. Name(b) \in Names /\ Name(b)[1] = b /\ nodes \in SUBSET Names
    BY NameIs DEF TInv, GraphTyped
  <1>5. Antichain'
    BY <1>1, <1>2, <1>4 DEF Antichain, Under
  <1>6. PICK q : q = [x \in Names |-> IF x[1] = b THEN 0 ELSE r[x]]
    OBVIOUS
  <1>7. \A x \in Names : r[x] \in Nat
    BY <1>3 DEF Ranked
  <1>8. q \in [Names -> Nat] /\ \A x \in Names : x[1] # b => q[x] = r[x]
    BY <1>6, <1>7
  <1>9. ASSUME NEW e \in edgesIn' PROVE q[e[1]] < q[e[2]]
    <2>1. e[1] \in nodes /\ e[2] \in nodes /\ r[e[1]] < r[e[2]]
      BY <1>1, <1>2, <1>3 DEF Ranked
    <2>2. QED
      BY <1>1, <1>4, <1>8, <2>1
  <1>10. ASSUME NEW o \in nodes', NEW x \in Names, Under(o, x) PROVE q[x] = q[o]
    <2>1. o[1] = x[1] /\ o \in Names
      BY <1>1, <1>4, <1>10 DEF Under
    <2>2. CASE o[1] = b
      BY <1>6, <2>1, <2>2
    <2>3. CASE o[1] # b
      <3>1. r[x] = r[o]
        BY <1>1, <1>3, <1>4, <1>10, <2>3 DEF Ranked
      <3>2. QED
        BY <1>8, <2>1, <2>3, <3>1
    <2>4. QED
      BY <2>2, <2>3
  <1>11. Ranked(q)'
    BY <1>1, <1>2, <1>8, <1>9, <1>10 DEF Ranked
  <1>12. edgesIn' \in SUBSET (nodes' \X nodes')
    BY <1>1, <1>2
  <1>13. QED
    BY <1>1, <1>2, <1>5, <1>11, <1>12, CalmWired

LEMMA ConnectWired ==
  ASSUME TInv, WInv, NEW s \in nodes, NEW d \in nodes, ConnectByName(s, d)
  PROVE  WInv'
  <1> DEFINE C == Cone([nodes |-> nodes, edges |-> edgesIn], d)
             Shifted(x) == \E o \in C : Under(o, x)
  <1>1. /\ edgesIn' = edgesIn \cup {<<s, d>>} /\ edgesOut' = edgesOut \cup {<<s, d>>}
        /\ UNCHANGED <<nodes, newSrc, stack>> /\ Scripting /\ s \notin C
    BY DEF ConnectByName, Connect, walk, Building
  <1>2. /\ newSrc = {} /\ stack = <<>> /\ edgesIn = edgesOut /\ Antichain
        /\ edgesIn \in SUBSET (nodes \X nodes)
        /\ \E r : Ranked(r)
    BY <1>1, Calm
  <1>3. PICK r : Ranked(r)
    BY <1>2
  <1>4. d \in C /\ C \in SUBSET nodes /\ \A e \in edgesIn : e[1] \in C => e[2] \in C
    BY <1>2, ConeIsClosed DEF TInv, GraphTyped
  <1> HIDE DEF C
  <1>5. nodes \in SUBSET Names
    BY DEF TInv, GraphTyped
  <1>6. ASSUME NEW n \in nodes PROVE Shifted(n) <=> n \in C
    BY <1>2, <1>4, <1>5, UnderIsOrder DEF Antichain
  <1>7. ASSUME NEW o \in nodes, NEW x \in Names, Under(o, x) PROVE Shifted(x) <=> Shifted(o)
    <2>1. ASSUME NEW c \in C, Under(c, x) PROVE c = o
      <3>1. Under(c, o) \/ Under(o, c)
        BY <1>4, <1>5, <1>7, <2>1, UnderIsOrder
      <3>2. QED
        BY <1>2, <1>4, <3>1 DEF Antichain
    <2>2. o \in Names /\ Under(o, o)
      BY <1>5, UnderIsOrder
    <2>3. o \in C <=> Shifted(o)
      BY <1>6
    <2>4. QED
      BY <1>7, <2>1, <2>2, <2>3
  <1>8. PICK q : q = [x \in Names |-> IF Shifted(x) THEN r[x] + r[s] + 1 ELSE r[x]]
    OBVIOUS
  <1>9. \A x \in Names : r[x] \in Nat
    BY <1>3 DEF Ranked
  <1>10. r[s] \in Nat /\ r[d] \in Nat
    BY <1>5, <1>9
  <1> HIDE DEF Shifted
  <1>11. q \in [Names -> Nat]
    BY <1>8, <1>9, <1>10
  <1>12. \A x \in Names : /\ Shifted(x) => q[x] = r[x] + r[s] + 1
                          /\ ~Shifted(x) => q[x] = r[x]
    BY <1>8
  <1>13. ASSUME NEW e \in edgesIn' PROVE q[e[1]] < q[e[2]]
    <2>1. CASE e \in edgesIn
      <3>1. e[1] \in nodes /\ e[2] \in nodes /\ r[e[1]] < r[e[2]]
        BY <1>2, <1>3, <2>1 DEF Ranked
      <3>2. Shifted(e[1]) => Shifted(e[2])
        BY <1>4, <1>6, <2>1, <3>1
      <3>3. r[e[1]] \in Nat /\ r[e[2]] \in Nat /\ e[1] \in Names /\ e[2] \in Names
        BY <1>5, <1>9, <3>1
      <3>4. QED
        BY <1>10, <1>12, <3>1, <3>2, <3>3
    <2>2. CASE e = <<s, d>>
      <3>1. ~Shifted(s) /\ Shifted(d) /\ s \in Names /\ d \in Names
        BY <1>1, <1>4, <1>5, <1>6
      <3>2. q[s] = r[s] /\ q[d] = r[d] + r[s] + 1
        BY <1>12, <3>1
      <3>3. q[s] < q[d]
        BY <1>10, <3>2
      <3>4. QED
        BY <2>2, <3>3
    <2>3. QED
      BY <1>1, <2>1, <2>2
  <1>14. ASSUME NEW o \in nodes', NEW x \in Names, Under(o, x) PROVE q[x] = q[o]
    <2>1. r[x] = r[o] /\ o \in Names /\ (Shifted(x) <=> Shifted(o))
      BY <1>1, <1>3, <1>5, <1>7, <1>14 DEF Ranked
    <2>2. QED
      BY <1>12, <2>1
  <1>15. Ranked(q)'
    BY <1>1, <1>2, <1>11, <1>13, <1>14 DEF Ranked
  <1>16. edgesIn' \in SUBSET (nodes' \X nodes') /\ Antichain'
    BY <1>1, <1>2 DEF Antichain
  <1>17. QED
    BY <1>1, <1>2, <1>15, <1>16, CalmWired

LEMMA StepWired == TInv /\ WInv /\ [Next]_vars => WInv'
  <1>1. SUFFICES ASSUME TInv, WInv, [Next]_vars PROVE WInv'
    OBVIOUS
  <1>2. ASSUME UNCHANGED <<nodes, edgesIn, edgesOut, sweep, newSrc, visited, stack>>,
               status' = status \/ status' # "script"
        PROVE  WInv'
    BY <1>1, <1>2 DEF WInv, Antichain, Gone, Sweeping, Wired, Ranked, Calling, Edged
  <1>3. CASE BuildStep
    <2>1. ASSUME NEW b \in Base, AddNode(b) PROVE WInv'
      BY <1>1, <2>1, AddNodeWired
    <2>2. ASSUME NEW s \in nodes, NEW d \in nodes, ConnectByName(s, d) PROVE WInv'
      BY <1>1, <2>2, ConnectWired
    <2>3. ASSUME NEW n \in nodes, AddInput(n) \/ AddOutput(n) PROVE WInv'
      BY <1>2, <2>3 DEF AddInput, AddOutput, graph, walk
    <2>4. ASSUME NEW p, NEW v, UpdateParams(p, v) PROVE WInv'
      BY <1>2, <2>4 DEF UpdateParams, walk
    <2>5. QED
      BY <1>3, <2>1, <2>2, <2>3, <2>4 DEF BuildStep
  <1>4. ASSUME NEW n \in nodes, NEW p, NEW l \in Lists,
               ParamSpace(n, p, l) \/ ParamSpaceRaises(n, p, l)
        PROVE  WInv'
    <2>1. CASE ParamSpaceRaises(n, p, l)
      BY <1>2, <2>1 DEF ParamSpaceRaises, graph, walk
    <2>2. QED
      BY <1>1, <1>4, <2>1, ParamSpaceWired
  <1>5. CASE SweepStep
    BY <1>1, <1>5, ReturnWired, HelperWired, DoneWired DEF SweepStep
  <1>6. ASSUME NEW a \in BOOLEAN, Launch(a) PROVE WInv'
    <2>1. /\ edgesIn' = edgesIn \cup Generated(a).edges
          /\ edgesOut' = edgesOut \cup Generated(a).edges
          /\ status' # "script"
      BY <1>6 DEF Launch
    <2>2. QED
      BY <1>1, <2>1 DEF WInv
  <1>7. CASE UNCHANGED vars
    BY <1>2, <1>7 DEF vars, graph, walk
  <1>8. QED
    BY <1>1, <1>3, <1>4, <1>5, <1>6, <1>7, NextIs

LEMMA InitWired == Init => WInv
  <1>1. SUFFICES ASSUME Init PROVE WInv
    OBVIOUS
  <1>2. PICK r : r = [x \in Names |-> 0]
    OBVIOUS
  <1>3. PICK own : own = <<>>
    OBVIOUS
  <1>4. Ranked(r)
    BY <1>1, <1>2 DEF Init, Ranked
  <1>5. own \in Seq(newSrc) /\ Len(own) = 0 /\ Len(stack) = 0 /\ 1 .. Len(stack) = {}
    BY <1>1, <1>3 DEF Init
  <1>6. Calling(r, own) /\ Edged(own)
    BY <1>1, <1>5 DEF Init, Calling, Edged
  <1>7. QED
    BY <1>1, <1>4, <1>6 DEF Init, WInv, Wired, Antichain, Gone

\* The graph has no cycle and no two names one of which descends from the
\* other, and a sweep at work has lost no edge and no instance (param_space and
\* its recursive helper).
THEOREM Wiring == Spec => []WInv
  <1>1. TInv /\ WInv /\ [Next]_vars => WInv'
    BY StepWired
  <1>2. QED
    BY <1>1, InitWired, Types, PTL DEF Spec

\* Incoming and outgoing edges agree, and outside a sweep they connect nodes of
\* the graph: what the recursive helper leaves dangling for a while it has
\* removed when the outermost call returns (Graph.param_space, remove_node).
THEOREM EdgesAgreeHolds == Spec => []EdgesAgree
  <1>1. TInv /\ WInv => EdgesAgree
    BY Calm DEF EdgesAgree, Scripting, WInv
  <1>2. QED
    BY <1>1, Types, Wiring, PTL

\* Whenever the helper is called for a node, this node and the sources its
\* instances are wired to are there and the names of the instances are free,
\* so neither its look-ups nor the assertion of add_node fail.
THEOREM HelperNeverRaisesHolds == Spec => []HelperNeverRaises
  <1>1. TInv /\ WInv => HelperNeverRaises
    <2>1. SUFFICES ASSUME TInv, WInv, stack # <<>>, Top # <<>>, Head(Top) \notin visited
                   PROVE  Resolves(Head(Top)) /\ Fresh(Head(Top), sweep.param, sweep.values)
      BY DEF HelperNeverRaises
    <2>2. Sweeping /\ status = "script"
      BY <2>1 DEF TInv, WalkTyped, RunTyped
    <2>3. PICK m : m = Head(Top)
      OBVIOUS
    <2>4. Calls(m) /\ m \notin visited
      BY <2>1, <2>2, <2>3 DEF Calls
    <2>5. Antichain /\ Gone /\ \E r, own : Wired(r, own)
      BY <2>1, <2>2 DEF WInv
    <2>6. PICK r, own : Wired(r, own)
      BY <2>5
    <2>7. m \in nodes /\ \A w \in Wires(m) : w[1] \in nodes \ {m}
      BY <2>1, <2>4, <2>5, <2>6, HelperResolves
    <2>8. sweep.param \in Nat /\ sweep.values \in Lists
      BY <2>1, <2>2, ParamsAreNat DEF TInv, WalkTyped, Sweeping
    <2>9. Fresh(m, sweep.param, sweep.values)
      BY <2>1, <2>5, <2>7, <2>8, InstancesFresh DEF TInv
    <2>10. QED
      BY <2>3, <2>7, <2>9 DEF Resolves
  <1>2. QED
    BY <1>1, Types, Wiring, PTL

-----------------------------------------------------------------------------
(* What a launch takes and refuses.                                        *)

\* Names the script speaks of are not those of the generated nodes, and there
\* is no build order before the launch.
Scripted ==
  /\ \A n \in inputs \cup outputs : n[1] \in Base
  /\ status = "script" => \A n \in nodes : n[1] \in Base
  /\ status \in {"script", "raised"} => order = <<>>

PInv == Scripted /\ order \in Seq(nodes \cup inputs \cup outputs) /\ RefusedOnlyIfStale

LEMMA LaunchTakes ==
  ASSUME TInv, WInv, Scripted, NEW a \in BOOLEAN, Launch(a)
  PROVE  PInv'
  <1> DEFINE gen == Generated(a)
             I == IF a THEN inputs ELSE {}
             N == nodes \cup gen.nodes
             E == edgesIn \cup gen.edges
             targets == {e[2] : e \in E}
             keys == N \cup targets
             sorted == TopologicalSort(keys, E)
  <1>1. /\ nodes' = N /\ edgesIn' = E /\ order' = sorted /\ Scripting
        /\ status' = "refused" =>
             ~(/\ subgraphs \subseteq N
               /\ Len(sorted) = Cardinality(keys) /\ keys \subseteq N /\ E \subseteq N \X N)
        /\ status' = "ready" \/ status' = "refused"
        /\ UNCHANGED <<subgraphs, inputs, outputs>>
    BY DEF Launch, ports
  <1>2. /\ gen.nodes = (IF I = {} THEN {} ELSE {InputNode})
                         \cup (IF outputs = {} THEN {} ELSE {OutputNode})
        /\ gen.edges = ({InputNode} \X I) \cup (outputs \X {OutputNode})
    BY DEF Generated
  <1>3. /\ gen.nodes \in SUBSET Names /\ IsFiniteSet(gen.nodes)
        /\ gen.edges \in SUBSET (Names \X Names) /\ IsFiniteSet(gen.edges)
    BY GeneratedIs DEF TInv
  <1> HIDE DEF gen
  <1>4. edgesIn \in SUBSET (nodes \X nodes) /\ \E r : Ranked(r)
    BY <1>1, Calm
  <1>5. I \subseteq inputs
    OBVIOUS
  <1> HIDE DEF I
  <1>6. targets \subseteq N \cup inputs
    <2>1. ASSUME NEW e \in E PROVE e[2] \in N \cup inputs
      <3>1. CASE e \in edgesIn
        BY <1>4, <3>1
      <3>2. CASE e \in {InputNode} \X I
        BY <1>5, <3>2
      <3>3. CASE e \in outputs \X {OutputNode}
        BY <1>2, <3>3
      <3>4. QED
        BY <1>2, <3>1, <3>2, <3>3
    <2>2. QED
      BY <2>1
  <1>7. N \in SUBSET Names /\ IsFiniteSet(N)
    BY <1>3, FS_Union DEF TInv, GraphTyped
  <1>8. E \in SUBSET (Names \X Names) /\ IsFiniteSet(E)
    BY <1>3, FS_Union DEF TInv, GraphTyped
  <1>9. targets \in SUBSET Names /\ IsFiniteSet(targets)
    <2> HIDE DEF E
    <2>1. QED
      BY <1>8, TargetsFinite
  <1>10. keys \in SUBSET Names /\ IsFiniteSet(keys)
    <2> HIDE DEF N, targets
    <2>1. QED
      BY <1>7, <1>9, FS_Union
  <1>11. sorted \in Seq(N \cup inputs \cup outputs)
    <2> HIDE DEF N, targets
    <2> DEFINE R == Settled(keys, E)[Cardinality(keys)]
    <2>1. IsOrder(sorted, R, E) /\ R \in SUBSET keys
      <3> HIDE DEF keys, E
      <3>1. Cardinality(keys) \in Nat
            /\ Settled(keys, E) \in [0 .. Cardinality(keys) -> SUBSET keys]
        BY <1>10, SettledIs
      <3>2. QED
        BY <1>10, <3>1, SortIsOrder
    <2>2. keys \subseteq N \cup inputs \cup outputs
      BY <1>6
    <2> HIDE DEF R, keys, sorted
    <2>3. sorted \in Seq(Names) /\ \A i \in 1 .. Len(sorted) : sorted[i] \in N \cup inputs \cup outputs
      BY <2>1, <2>2 DEF IsOrder
    <2>4. QED
      BY <2>3
  <1>12. ASSUME status' = "refused", inputs \cup outputs \cup subgraphs \subseteq N
         PROVE  FALSE
    <2>1. /\ \A n \in nodes \cup inputs \cup outputs : n[1] \in Base
          /\ InputNode[1] = 0 /\ OutputNode[1] = 1
          /\ 0 \notin Base /\ 1 \notin Base
      BY <1>1, GraphAssumption, NameIs DEF Scripted, Scripting, InputNode, OutputNode
    <2>2. inputs \subseteq nodes /\ outputs \subseteq nodes
      BY <1>2, <1>12, <2>1
    <2>3. E \subseteq N \X N
      BY <1>2, <1>4, <1>5, <2>2
    <2>4. keys = N
      BY <2>3
    <2>5. PICK r : Ranked(r)
      BY <1>4
    <2>6. ASSUME NEW X \in SUBSET N, X # {}
          PROVE  \E n \in X : SourcesIn(E, n) \cap X = {}
      <3>1. CASE InputNode \in X
        <4>1. SourcesIn(E, InputNode) = {}
          <5>1. ASSUME NEW e \in E PROVE e[2] # InputNode
            BY <1>2, <1>4, <1>5, <2>1, <2>2
          <5>2. QED
            BY <5>1 DEF SourcesIn
        <4>2. QED
          BY <3>1, <4>1
      <3>2. CASE InputNode \notin X /\ X \cap nodes # {}
        <4>1. Acyclic(nodes, edgesIn)
          <5>1. \A n \in nodes : r[n] \in Nat
            BY <2>5 DEF Ranked, TInv, GraphTyped
          <5>2. \A e \in edgesIn : r[e[1]] < r[e[2]]
            BY <2>5 DEF Ranked
          <5>3. QED
            BY <5>1, <5>2, RankedIsAcyclic
        <4>2. PICK n \in X \cap nodes : SourcesIn(edgesIn, n) \cap (X \cap nodes) = {}
          BY <3>2, <4>1 DEF Acyclic
        <4>3. ASSUME NEW s \in SourcesIn(E, n) \cap X PROVE FALSE
          <5>1. PICK e \in E : e[1] = s /\ e[2] = n
            BY DEF SourcesIn
          <5>2. n # OutputNode
            BY <2>1
          <5>3. e \in edgesIn
            BY <1>2, <3>2, <4>3, <5>1, <5>2
          <5>4. s \in SourcesIn(edgesIn, n) /\ s \in nodes
            BY <1>4, <5>1, <5>3 DEF SourcesIn
          <5>5. QED
            BY <4>2, <4>3, <5>4
        <4>4. QED
          BY <4>2, <4>3
      <3>3. CASE InputNode \notin X /\ X \cap nodes = {}
        <4>1. X = {OutputNode}
          BY <1>2, <2>6, <3>3
        <4>2. ASSUME NEW e \in E, e[2] = OutputNode PROVE e[1] \in nodes
          BY <1>2, <1>4, <1>5, <2>1, <2>2, <4>2
        <4>3. SourcesIn(E, OutputNode) \subseteq nodes
          BY <4>2 DEF SourcesIn
        <4>4. QED
          BY <3>3, <4>1, <4>3
      <3>4. QED
        BY <3>1, <3>2, <3>3
    <2>7. Acyclic(N, E)
      BY <2>6 DEF Acyclic
    <2>8. \A n \in N : SourcesIn(E, n) \subseteq N
      BY <2>3 DEF SourcesIn
    <2>9. Len(sorted) = Cardinality(keys)
      <3>1. sorted = TopologicalSort(N, E)
        BY <2>4
      <3> HIDE DEF N, E, keys, sorted
      <3>2. QED
        BY <1>7, <2>4, <2>7, <2>8, <3>1, AcyclicSort
    <2> HIDE DEF sorted, E, N, keys
    <2>10. QED
      BY <1>1, <1>12, <2>3, <2>4, <2>9
  <1> HIDE DEF sorted, N, keys, E
  <1>13. RefusedOnlyIfStale'
    BY <1>1, <1>12 DEF RefusedOnlyIfStale
  <1>14. Scripted'
    BY <1>1 DEF Scripted
  <1>15. QED
    BY <1>1, <1>11, <1>13, <1>14 DEF PInv

LEMMA StepTakes ==
  ASSUME TInv, WInv, PInv, [Next]_vars
  PROVE  PInv'
  <1> DEFINE Free == {"script", "raised"}
  <1>1. ASSUME status \in Free, status' \in Free, order' = order, Scripted'
        PROVE  PInv'
    <2>1. order' = <<>>
      BY <1>1 DEF PInv, Scripted
    <2>2. order' \in Seq(nodes' \cup inputs' \cup outputs')
      BY <2>1
    <2>3. QED
      BY <1>1, <2>2 DEF PInv, RefusedOnlyIfStale
  <1>2. CASE BuildStep
    <2>1. status = "script" /\ UNCHANGED <<status, order>>
      BY <1>2 DEF BuildStep, AddNode, ConnectByName, AddInput, AddOutput, UpdateParams,
         Building, Scripting
    <2>2. \A n \in nodes' : n[1] \in Base
      <3>1. \A b \in Base : Name(b)[1] = b
        BY NameIs
      <3>2. \/ nodes' = nodes
            \/ \E b \in Base : nodes' = nodes \cup {Name(b)}
        BY <1>2 DEF BuildStep, AddNode, ConnectByName, AddInput, AddOutput, UpdateParams, graph
      <3>3. QED
        BY <2>1, <3>1, <3>2 DEF PInv, Scripted
    <2>3. \A n \in inputs' \cup outputs' : n[1] \in Base
      <3>1. CASE UNCHANGED ports
        BY <3>1 DEF ports, PInv, Scripted
      <3>2. ASSUME NEW n \in nodes, AddInput(n) \/ AddOutput(n)
            PROVE  \A x \in inputs' \cup outputs' : x[1] \in Base
        BY <3>2, GraphAssumption DEF AddInput, AddOutput, PInv, Scripted
      <3>3. QED
        BY <1>2, <3>1, <3>2 DEF BuildStep, AddNode, ConnectByName, UpdateParams
    <2>4. Scripted'
      BY <2>1, <2>2, <2>3 DEF PInv, Scripted
    <2>5. QED
      BY <1>1, <2>1, <2>4
  <1>3. ASSUME NEW n \in nodes, NEW p \in Nat, NEW l \in Lists, NEW wires,
               Replaced(n, Instances(n, p, l), wires), status = "script",
               UNCHANGED <<ports, status, order>>
        PROVE  PInv'
    <2>1. n \in Names /\ \A v \in ToSet(l) : Instance(n, p, v)[1] = n[1]
      <3>1. n \in Names
        BY DEF TInv, GraphTyped
      <3>2. QED
        BY <3>1, ListIs, InstanceIs
    <2>2. \A m \in nodes' : m[1] \in Base
      BY <1>3, <2>1 DEF Replaced, Instances, PInv, Scripted
    <2>3. Scripted'
      BY <1>3, <2>2 DEF PInv, Scripted, ports
    <2>4. QED
      BY <1>1, <1>3, <2>3
  <1>4. ASSUME NEW n \in nodes, NEW p, NEW l \in Lists,
               ParamSpace(n, p, l) \/ ParamSpaceRaises(n, p, l)
        PROVE  PInv'
    <2>1. CASE ParamSpace(n, p, l)
      <3>1. /\ Replaced(n, Instances(n, p, l), SourcesIn(edgesIn, n) \X Instances(n, p, l))
            /\ p \in Nat /\ status = "script" /\ UNCHANGED <<ports, status, order>>
        BY <2>1, ParamsAreNat DEF ParamSpace, Building, Scripting, Instances
      <3>2. QED
        BY <1>3, <3>1
    <2>2. CASE ParamSpaceRaises(n, p, l)
      <3>1. /\ status = "script" /\ status' = "raised" /\ order' = order
            /\ UNCHANGED <<nodes, inputs, outputs>>
        BY <2>2 DEF ParamSpaceRaises, Building, Scripting, graph, ports
      <3>2. Scripted'
        BY <3>1 DEF PInv, Scripted
      <3>3. QED
        BY <1>1, <3>1, <3>2
    <2>3. QED
      BY <1>4, <2>1, <2>2
  <1>5. CASE SweepStep
    <2>1. status = "script"
      BY <1>5 DEF SweepStep, HelperReturnsAtOnce, Helper, HelperDone, Calls, TInv, RunTyped
    <2>2. ASSUME UNCHANGED <<graph, ports, status, order>> PROVE PInv'
      BY <2>2 DEF graph, ports, PInv, Scripted, RefusedOnlyIfStale
    <2>3. ASSUME NEW m, Helper(m) PROVE PInv'
      <3>1. /\ Replaced(m, Instances(m, sweep.param, sweep.values), Wires(m))
            /\ m \in nodes /\ Sweeping /\ UNCHANGED <<ports, status, order>>
        BY <2>3 DEF Helper, Instances, Resolves, Calls
      <3>2. sweep.param \in Nat /\ sweep.values \in Lists
        BY <3>1, ParamsAreNat DEF TInv, WalkTyped, Sweeping
      <3>3. QED
        BY <1>3, <2>1, <3>1, <3>2
    <2>4. QED
      BY <1>5, <2>2, <2>3 DEF SweepStep, HelperReturnsAtOnce, HelperDone
  <1>6. ASSUME NEW a \in BOOLEAN, Launch(a) PROVE PInv'
    BY <1>6, LaunchTakes DEF PInv
  <1>7. CASE UNCHANGED vars
    BY <1>7 DEF vars, graph, ports, PInv, Scripted, RefusedOnlyIfStale
  <1>8. QED
    BY <1>2, <1>4, <1>5, <1>6, <1>7, NextIs

\* A launch refuses for stale names only, and orders what it was given
\* (BuildOrchestrator, topological_sort).
THEOREM Takes == Spec => []PInv
  <1>1. Init => PInv
    <2>1. SUFFICES ASSUME Init PROVE PInv
      OBVIOUS
    <2>2. order = <<>> /\ order \in Seq(nodes \cup inputs \cup outputs)
      BY <2>1 DEF Init
    <2>3. QED
      BY <2>1, <2>2 DEF Init, PInv, Scripted, RefusedOnlyIfStale
  <1>2. TInv /\ WInv /\ PInv /\ [Next]_vars => PInv'
    BY StepTakes
  <1>3. QED
    BY <1>1, <1>2, Types, Wiring, PTL DEF Spec

\* Every variable keeps its type; a build order names nodes and handles only.
THEOREM TypeCorrect == Spec => []TypeOK
  <1>1. TInv /\ PInv => TypeOK
    <2>1. SUFFICES ASSUME TInv, PInv PROVE TypeOK
      OBVIOUS
    <2>2. \A n \in Names : IsName(n)
      BY DEF Names, Pair, IsName
    <2>3. \A n \in nodes \cup subgraphs \cup inputs \cup outputs : IsName(n)
      BY <2>1, <2>2 DEF TInv, GraphTyped, PortsTyped
    <2>4. \A e \in edgesIn \cup edgesOut : IsName(e[1]) /\ IsName(e[2])
      BY <2>1, <2>2 DEF TInv, GraphTyped
    <2>5. newSrc \cup visited \subseteq before.nodes \cup newSrc
      BY <2>1 DEF TInv, WalkTyped
    <2>6. (stack = <<>>) = ~Sweeping
      BY <2>1 DEF TInv, WalkTyped
    <2>7. QED
      BY <2>1, <2>3, <2>4, <2>5, <2>6 DEF TypeOK, TInv, ValueTyped, RunTyped, PInv
  <1>2. QED
    BY <1>1, Types, Takes, PTL

\* A graph whose script has succeeded is taken unless a handle or a Subgraph
\* object names a node that a sweep has replaced: the graph that the script and
\* its sweeps leave is sorted without remainder, generated nodes included.
THEOREM RefusedOnlyIfStaleHolds == Spec => []RefusedOnlyIfStale
  <1>1. PInv => RefusedOnlyIfStale
    BY DEF PInv
  <1>2. QED
    BY <1>1, Takes, PTL
=============================================================================
