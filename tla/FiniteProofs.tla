---------------------------- MODULE FiniteProofs ----------------------------
(***************************************************************************)
(* What the proofs of several components need of finite sets: iterations   *)
(* and the walks through a set of nodes that are made of them, and sums    *)
(* over the elements of a set.                                             *)
(***************************************************************************)
EXTENDS Naturals, FiniteSets, FiniteSetTheorems, WellFoundedInduction, TLAPS

\* Induction, for a set of numbers.
LEMMA NatSetInduction ==
  ASSUME NEW G, 0 \in G, \A n \in Nat : n \in G => n + 1 \in G
  PROVE  Nat \subseteq G
<1> SUFFICES ASSUME Nat \ G # {} PROVE FALSE
  OBVIOUS
<1>1. PICK n \in Nat \ G : \A m \in Nat \ G : ~ (<<m, n>> \in OpToRel(<, Nat))
  <2>1. IsWellFoundedOn(OpToRel(<, Nat), Nat)
    BY NatLessThanWellFounded
  <2>2. Nat \ G \subseteq Nat
    OBVIOUS
  <2> HIDE DEF OpToRel
  <2> QED BY <2>1, <2>2, WFMin
<1>2. n \in Nat /\ n # 0 /\ n \notin G
  BY <1>1
<1>3. n - 1 \in Nat /\ n - 1 < n /\ n - 1 + 1 = n
  BY <1>2
<1>4. n - 1 \in G
  BY <1>1, <1>3 DEF OpToRel
<1> QED BY <1>2, <1>3, <1>4

Steps(S) == [Nat \X S -> S]
Iterates(g, a, step) == g[0] = a /\ \A n \in Nat : g[n + 1] = step[<<n, g[n]>>]

\* A step that goes on from what the last one left defines a sequence.
LEMMA IterationExists ==
  ASSUME NEW S, NEW a \in S, NEW step \in Steps(S)
  PROVE  \E g \in [Nat -> S] : Iterates(g, a, step)
<1> USE DEF Steps, Iterates
<1> DEFINE Starts(n, h) == h[0] = a /\ \A m \in 0..n : m < n => h[m + 1] = step[<<m, h[m]>>]
           G == {n \in Nat : \E h \in [0..n -> S] : Starts(n, h)}
           D == {n \in Nat : \A k, l \in Nat : \A f \in [0..k -> S], h \in [0..l -> S] :
                   n <= k /\ n <= l /\ Starts(k, f) /\ Starts(l, h) => f[n] = h[n]}
<1>1. Nat \subseteq G
  <2>1. 0 \in G
    <3>1. [i \in 0..0 |-> a] \in [0..0 -> S] /\ Starts(0, [i \in 0..0 |-> a])
      OBVIOUS
    <3> QED BY <3>1
  <2>2. ASSUME NEW n \in Nat, n \in G PROVE n + 1 \in G
    <3>1. PICK h \in [0..n -> S] : Starts(n, h)
      BY <2>2
    <3> DEFINE k == [i \in 0..n + 1 |-> IF i = n + 1 THEN step[<<n, h[n]>>] ELSE h[i]]
    <3>2. k \in [0..n + 1 -> S]
      BY <3>1
    <3>3. k[0] = a
      BY <3>1
    <3>4. ASSUME NEW m \in 0..n + 1, m < n + 1 PROVE k[m + 1] = step[<<m, k[m]>>]
      <4>1. CASE m = n
        BY <3>1, <4>1
      <4>2. CASE m # n
        <5>1. m \in 0..n /\ m < n /\ m + 1 \in 0..n
          BY <3>4, <4>2
        <5> QED BY <3>1, <5>1
      <4> QED BY <4>1, <4>2
    <3> HIDE DEF k
    <3>5. Starts(n + 1, k)
      BY <3>3, <3>4
    <3> QED BY <3>2, <3>5
  <2> HIDE DEF G
  <2> QED BY <2>1, <2>2, NatSetInduction
<1>2. Nat \subseteq D
  <2>1. 0 \in D
    OBVIOUS
  <2>2. ASSUME NEW n \in Nat, n \in D PROVE n + 1 \in D
    <3> SUFFICES ASSUME NEW k \in Nat, NEW l \in Nat, NEW f \in [0..k -> S], NEW h \in [0..l -> S],
                        n + 1 <= k, n + 1 <= l, Starts(k, f), Starts(l, h)
                 PROVE  f[n + 1] = h[n + 1]
      OBVIOUS
    <3>1. n <= k /\ n <= l
      OBVIOUS
    <3>2. f[n] = h[n]
      <4> HIDE DEF Starts
      <4> QED BY <2>2, <3>1
    <3>3. f[n + 1] = step[<<n, f[n]>>]
      <4>1. n \in 0..k /\ n < k
        OBVIOUS
      <4> QED BY <4>1
    <3>4. h[n + 1] = step[<<n, h[n]>>]
      <4>1. n \in 0..l /\ n < l
        OBVIOUS
      <4> QED BY <4>1
    <3> QED BY <3>2, <3>3, <3>4
  <2> HIDE DEF D
  <2> QED BY <2>1, <2>2, NatSetInduction
<1> DEFINE run == [n \in Nat |-> CHOOSE h \in [0..n -> S] : Starts(n, h)]
           g == [n \in Nat |-> run[n][n]]
<1>3. \A n \in Nat : run[n] \in [0..n -> S] /\ Starts(n, run[n])
  <2>1. \A n \in Nat : \E h \in [0..n -> S] : Starts(n, h)
    BY <1>1
  <2> HIDE DEF Starts
  <2> QED BY <2>1
<1> HIDE DEF run
<1>4. g \in [Nat -> S]
  <2>1. \A n \in Nat : run[n] \in [0..n -> S] /\ n \in 0..n
    BY <1>3
  <2> QED BY <2>1
<1>5. g[0] = a
  BY <1>3
<1>6. ASSUME NEW n \in Nat PROVE g[n + 1] = step[<<n, g[n]>>]
  <2>1. n \in D /\ n + 1 \in Nat /\ n <= n + 1 /\ n <= n
    <3>1. n \in D
      <4> HIDE DEF D
      <4> QED BY <1>2
    <3> HIDE DEF D
    <3> QED BY <3>1
  <2>2. /\ run[n + 1] \in [0..n + 1 -> S] /\ Starts(n + 1, run[n + 1])
        /\ run[n] \in [0..n -> S] /\ Starts(n, run[n])
    <3> HIDE DEF Starts
    <3> QED BY <1>3, <2>1
  <2>3. run[n + 1][n] = run[n][n]
    <3> HIDE DEF Starts
    <3> QED BY <2>1, <2>2
  <2>4. run[n + 1][n + 1] = step[<<n, run[n + 1][n]>>]
    <3>1. n \in 0..n + 1 /\ n < n + 1
      OBVIOUS
    <3> QED BY <2>2, <3>1
  <2>5. g[n + 1] = run[n + 1][n + 1] /\ g[n] = run[n][n]
    OBVIOUS
  <2> QED BY <2>3, <2>4, <2>5
<1> QED BY <1>4, <1>5, <1>6

\* What n rounds of a walk over U have come to, one step further each round.
WalkFrom(p, next, V) ==
  /\ V[0] = {p}
  /\ \A n \in Nat : V[n + 1] = V[n] \cup UNION {next[q] : q \in V[n]}

\* A walk is over after as many rounds as there are nodes: it came to p, to
\* all that follows what it came to, and to nothing else.
LEMMA WalkIsClosure ==
  ASSUME NEW U, IsFiniteSet(U), NEW next \in [U -> SUBSET U], NEW p \in U,
         NEW V \in [Nat -> SUBSET U], WalkFrom(p, next, V)
  PROVE  LET all == V[Cardinality(U)]
         IN /\ p \in all /\ all \subseteq U
            /\ \A q \in all : next[q] \subseteq all
            /\ \A C : p \in C /\ (\A q \in C \cap U : next[q] \subseteq C) => all \subseteq C
<1> DEFINE P == {n \in Nat : p \in V[n]}
           G == {n \in Nat : V[n + 1] = V[n] \/ Cardinality(V[n]) >= n + 1}
<1>1. Nat \subseteq P
  <2>1. 0 \in P
    BY DEF WalkFrom
  <2>2. ASSUME NEW n \in Nat, n \in P PROVE n + 1 \in P
    BY <2>2 DEF WalkFrom
  <2> HIDE DEF P
  <2> QED BY <2>1, <2>2, NatSetInduction
<1>2. Nat \subseteq G
  <2>1. 0 \in G
    <3>1. Cardinality(V[0]) = 1
      BY FS_Singleton DEF WalkFrom
    <3> QED BY <3>1
  <2>2. ASSUME NEW n \in Nat, n \in G PROVE n + 1 \in G
    <3>1. CASE V[n + 1] = V[n]
      <4>1. V[(n + 1) + 1] = V[n + 1] \cup UNION {next[q] : q \in V[n + 1]}
        BY DEF WalkFrom
      <4>2. V[n + 1] = V[n] \cup UNION {next[q] : q \in V[n]}
        BY DEF WalkFrom
      <4>3. UNION {next[q] : q \in V[n + 1]} = UNION {next[q] : q \in V[n]}
        BY <3>1
      <4>4. V[(n + 1) + 1] = V[n + 1] /\ n + 1 \in Nat
        BY <3>1, <4>1, <4>2, <4>3
      <4> QED BY <4>4
    <3>2. CASE V[n + 1] # V[n]
      <4>1. V[n] \subseteq V[n + 1] /\ V[n] \in SUBSET U /\ V[n + 1] \in SUBSET U
        BY DEF WalkFrom
      <4>2. /\ IsFiniteSet(V[n + 1]) /\ Cardinality(V[n + 1]) \in Nat
            /\ IsFiniteSet(V[n]) /\ Cardinality(V[n]) \in Nat
        BY <4>1, FS_Subset, FS_CardinalityType, n + 1 \in Nat
      <4>3. /\ Cardinality(V[n]) <= Cardinality(V[n + 1])
            /\ Cardinality(V[n + 1]) = Cardinality(V[n]) => V[n + 1] = V[n]
        BY <4>1, <4>2, FS_Subset
      <4>4. Cardinality(V[n]) >= n + 1
        BY <2>2, <3>2
      <4>5. Cardinality(V[n + 1]) >= (n + 1) + 1
        BY <3>2, <4>2, <4>3, <4>4
      <4>6. n + 1 \in Nat
        OBVIOUS
      <4> HIDE DEF P
      <4> QED BY <4>5, <4>6
    <3> QED BY <3>1, <3>2
  <2> HIDE DEF G
  <2> QED BY <2>1, <2>2, NatSetInduction
<1> DEFINE n == Cardinality(U)
<1>3. n \in Nat
  BY FS_CardinalityType
<1>4. V[n + 1] = V[n]
  <2>1. V[n] \in SUBSET U
    BY <1>3
  <2>2. Cardinality(V[n]) <= n /\ Cardinality(V[n]) \in Nat
    BY <2>1, FS_Subset, FS_CardinalityType
  <2>3. n \in G
    BY <1>2, <1>3
  <2> HIDE DEF n
  <2> QED BY <1>3, <2>2, <2>3
<1>5. p \in V[n] /\ V[n] \subseteq U
  BY <1>1, <1>3
<1>6. \A q \in V[n] : next[q] \subseteq V[n]
  <2>1. V[n + 1] = V[n] \cup UNION {next[q] : q \in V[n]}
    BY <1>3 DEF WalkFrom
  <2> QED BY <1>4, <2>1
<1>7. ASSUME NEW C, p \in C, \A q \in C \cap U : next[q] \subseteq C
      PROVE  V[n] \subseteq C
  <2> DEFINE K == {m \in Nat : V[m] \subseteq C}
  <2>1. 0 \in K
    BY <1>7 DEF WalkFrom
  <2>2. ASSUME NEW m \in Nat, m \in K PROVE m + 1 \in K
    <3>1. V[m + 1] = V[m] \cup UNION {next[q] : q \in V[m]}
      BY DEF WalkFrom
    <3>2. V[m] \subseteq C /\ V[m] \subseteq U
      BY <2>2
    <3> QED BY <1>7, <3>1, <3>2
  <2>3. Nat \subseteq K
    <3> HIDE DEF K
    <3> QED BY <2>1, <2>2, NatSetInduction
  <2> QED BY <1>3, <2>3
<1> QED BY <1>5, <1>6, <1>7

(***************************************************************************)
(* A sum is the number of units: an element c contributes the pairs of c   *)
(* with 1..w[c].                                                           *)
(***************************************************************************)
UnitsOf(w, c) == {c} \X (1..w[c])
Units(w, T) == UNION {UnitsOf(w, c) : c \in T}
Sum(w, T) == Cardinality(Units(w, T))

LEMMA UnitsOfOne ==
  ASSUME NEW C, NEW w \in [C -> Nat], NEW c \in C
  PROVE  IsFiniteSet(UnitsOf(w, c)) /\ Cardinality(UnitsOf(w, c)) = w[c]
<1>1. w[c] \in Nat
  OBVIOUS
<1>2. IsFiniteSet({c}) /\ Cardinality({c}) = 1
  BY FS_Singleton
<1>3. IsFiniteSet(1..w[c]) /\ Cardinality(1..w[c]) = w[c]
  BY <1>1, FS_Interval
<1>4. /\ IsFiniteSet({c} \X (1..w[c]))
      /\ Cardinality({c} \X (1..w[c])) = Cardinality({c}) * Cardinality(1..w[c])
  BY <1>2, <1>3, FS_Product
<1> QED BY <1>1, <1>2, <1>3, <1>4 DEF UnitsOf

LEMMA UnitsAreFinite ==
  ASSUME NEW C, NEW w \in [C -> Nat], NEW T \in SUBSET C, IsFiniteSet(T)
  PROVE  IsFiniteSet(Units(w, T))
<1> DEFINE U == {UnitsOf(w, c) : c \in T}
           f == [c \in T |-> UnitsOf(w, c)]
<1>1. f \in Surjection(T, U)
  BY DEF Surjection
<1>2. IsFiniteSet(U)
  BY <1>1, FS_Surjection DEF ExistsSurjection
<1>3. \A u \in U : IsFiniteSet(u)
  BY UnitsOfOne
<1> QED BY <1>2, <1>3, FS_UNION DEF Units

\* The sum over no elements, and the sum without one of them.
LEMMA SumOfSome ==
  ASSUME NEW C, NEW w \in [C -> Nat], NEW T \in SUBSET C, IsFiniteSet(T)
  PROVE  /\ Sum(w, T) \in Nat
         /\ T = {} => Sum(w, T) = 0
         /\ \A c \in T : Sum(w, T) = Sum(w, T \ {c}) + w[c]
<1>1. IsFiniteSet(Units(w, T)) /\ Sum(w, T) \in Nat
  BY UnitsAreFinite, FS_CardinalityType DEF Sum
<1>2. ASSUME T = {} PROVE Sum(w, T) = 0
  <2>1. Units(w, T) = {}
    BY <1>2 DEF Units
  <2> QED BY <2>1, FS_EmptySet DEF Sum
<1>3. ASSUME NEW c \in T PROVE Sum(w, T) = Sum(w, T \ {c}) + w[c]
  <2> DEFINE R == Units(w, T \ {c})
             I == UnitsOf(w, c)
  <2>1. IsFiniteSet(R) /\ Cardinality(R) \in Nat
    BY FS_Subset, UnitsAreFinite, FS_CardinalityType
  <2>2. IsFiniteSet(I) /\ Cardinality(I) = w[c] /\ w[c] \in Nat
    BY UnitsOfOne
  <2>3. Units(w, T) = R \cup I
    BY DEF Units
  <2>4. R \cap I = {}
    BY DEF Units, UnitsOf
  <2> HIDE DEF R, I
  <2>5. Cardinality(R \cup I) = Cardinality(R) + Cardinality(I) - Cardinality(R \cap I)
    BY <2>1, <2>2, FS_Union
  <2>6. Cardinality(R \cap I) = 0
    BY <2>4, FS_EmptySet
  <2> QED BY <2>1, <2>2, <2>3, <2>5, <2>6 DEF Sum, R
<1> QED BY <1>1, <1>2, <1>3

\* A sum depends on what its elements contribute, and on nothing else.
LEMMA SumOfSame ==
  ASSUME NEW w, NEW v, NEW T, \A c \in T : w[c] = v[c]
  PROVE  Sum(w, T) = Sum(v, T)
<1>1. Units(w, T) = Units(v, T)
  BY DEF Units, UnitsOf
<1> QED BY <1>1 DEF Sum
=============================================================================
