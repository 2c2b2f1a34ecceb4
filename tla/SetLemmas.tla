--------------------------- MODULE SetLemmas -----------------------------
(***************************************************************************)
(* Least and greatest elements of sets of naturals and sums over finite    *)
(* sets: what Min, Max and MapThenSumSet of FiniteSetsExt return, for the  *)
(* proofs of the other modules.                                            *)
(***************************************************************************)
EXTENDS Naturals, FiniteSetsExt, NaturalsInduction, WellFoundedInduction, FiniteSetTheorems,
        TLAPS

\* A nonempty set of naturals has a least element.
LEMMA MinExists ==
    ASSUME NEW S \in SUBSET Nat, S # {}
    PROVE  \E x \in S : \A y \in S : x <= y
<1>1. PICK x \in S : \A y \in S : ~(<<y, x>> \in OpToRel(<, Nat))
  BY NatLessThanWellFounded, WFMin
<1>2. \A y \in S : ~(y < x)
  BY <1>1 DEF OpToRel
<1> QED  BY <1>2

\* Min, as FiniteSetsExt defines it, of a nonempty set of naturals.
LEMMA MinOfNats ==
    ASSUME NEW S \in SUBSET Nat, S # {}
    PROVE  Min(S) \in S /\ \A y \in S : Min(S) <= y
BY MinExists DEF Min

\* Max of a nonempty set of naturals below a bound.
LEMMA MaxOfNats ==
    ASSUME NEW n \in Nat, NEW S \in SUBSET (0 .. n), S # {}
    PROVE  Max(S) \in S /\ \A y \in S : y <= Max(S)
<1> DEFINE T == {n - y : y \in S}
<1>0. \A y \in S : n - y \in Nat
  OBVIOUS
<1>1. T \in SUBSET Nat /\ T # {}
  BY <1>0
<1>2. PICK x \in T : \A y \in T : x <= y
  BY <1>1, MinExists
<1>3. PICK m \in S : x = n - m
  BY <1>2
<1>4. \A y \in S : n - y \in T
  OBVIOUS
<1>5. \A y \in S : m >= y
  BY <1>2, <1>3, <1>4
<1> QED  BY <1>5 DEF Max

-----------------------------------------------------------------------------
(* Sums over finite sets, as MapThenSumSet computes them                   *)

\* g is the recursive function behind the sum of f over S.
SumRec(f, S, g) == g = [s \in SUBSET S |->
    IF s = {} THEN 0 ELSE f[CHOOSE x \in s : TRUE] + g[s \ {CHOOSE x \in s : TRUE}]]
Sum(f, S) == (CHOOSE g : SumRec(f, S, g))[S]

\* Up to sets of n elements.
SumUpTo(f, S, g, n) == \A s \in SUBSET S : Cardinality(s) <= n =>
    g[s] = IF s = {} THEN 0 ELSE f[CHOOSE x \in s : TRUE] + g[s \ {CHOOSE x \in s : TRUE}]

LEMMA SubsetsFinite ==
    ASSUME NEW S, IsFiniteSet(S), NEW s \in SUBSET S
    PROVE  /\ IsFiniteSet(s) /\ Cardinality(s) \in Nat /\ Cardinality(s) <= Cardinality(S)
           /\ s # {} => Cardinality(s) > 0
           /\ \A x \in s : s \ {x} \in SUBSET S /\ Cardinality(s \ {x}) = Cardinality(s) - 1
<1>1. IsFiniteSet(s) /\ Cardinality(s) <= Cardinality(S)
  BY FS_Subset
<1>2. Cardinality(s) \in Nat
  BY <1>1, FS_CardinalityType
<1>3. s # {} => Cardinality(s) # 0
  BY <1>1, FS_EmptySet
<1>4. \A x \in s : Cardinality(s \ {x}) = Cardinality(s) - 1
  BY <1>1, FS_RemoveElement
<1> QED  BY <1>1, <1>2, <1>3, <1>4

LEMMA SumExists ==
    ASSUME NEW S, IsFiniteSet(S), NEW f, \A x \in S : f[x] \in Nat
    PROVE  \E g : SumRec(f, S, g) /\ g \in [SUBSET S -> Nat]
<1> DEFINE bad == {n \in Nat : ~ \E g \in [SUBSET S -> Nat] : SumUpTo(f, S, g, n)}
<1>1. bad = {}
  <2> SUFFICES ASSUME bad # {} PROVE FALSE
    OBVIOUS
  <2>1. PICK n \in bad : \A m \in bad : n <= m
    <3> HIDE DEF bad
    <3>1. bad \in SUBSET Nat
      BY DEF bad
    <3> QED  BY <3>1, MinExists
  <2>2. \E h \in [SUBSET S -> Nat] : n # 0 => SumUpTo(f, S, h, n - 1)
    <3>1. CASE n = 0
      <4>1. [s \in SUBSET S |-> 0] \in [SUBSET S -> Nat]
        OBVIOUS
      <4> QED  BY <3>1, <4>1
    <3>2. CASE n # 0
      <4>1. n - 1 \in Nat /\ ~(n <= n - 1)
        BY <3>2
      <4>2. n - 1 \notin bad
        BY <2>1, <4>1
      <4> QED  BY <4>1, <4>2
    <3> QED  BY <3>1, <3>2
  <2>3. PICK h \in [SUBSET S -> Nat] : n # 0 => SumUpTo(f, S, h, n - 1)
    BY <2>2
  <2> DEFINE pick(s) == CHOOSE x \in s : TRUE
             g == [s \in SUBSET S |-> IF s = {} THEN 0
                                      ELSE IF Cardinality(s) < n THEN h[s]
                                      ELSE f[pick(s)] + h[s \ {pick(s)}]]
  <2>4. ASSUME NEW s \in SUBSET S, s # {}
        PROVE  pick(s) \in s /\ s \ {pick(s)} \in SUBSET S /\ f[pick(s)] \in Nat /\ h[s \ {pick(s)}] \in Nat
               /\ Cardinality(s) \in Nat /\ Cardinality(s) > 0 /\ Cardinality(s \ {pick(s)}) = Cardinality(s) - 1
    <3>1. pick(s) \in s
      BY <2>4
    <3> HIDE DEF pick
    <3> QED  BY <2>4, <3>1, SubsetsFinite
  <2>5. g \in [SUBSET S -> Nat]
    <3>1. ASSUME NEW s \in SUBSET S, s # {}
          PROVE  h[s] \in Nat /\ f[pick(s)] + h[s \ {pick(s)}] \in Nat
      <4>1. h[s] \in Nat
        OBVIOUS
      <4>2. f[pick(s)] \in Nat /\ h[s \ {pick(s)}] \in Nat
        BY <2>4, <3>1
      <4> HIDE DEF pick, g
      <4> QED  BY <4>1, <4>2
    <3> HIDE DEF pick
    <3> QED  BY <3>1
  <2>6. SumUpTo(f, S, g, n)
    <3> SUFFICES ASSUME NEW s \in SUBSET S, Cardinality(s) <= n, s # {}
                 PROVE  g[s] = f[pick(s)] + g[s \ {pick(s)}]
      <4>1. {} \in SUBSET S /\ g[{}] = 0
        OBVIOUS
      <4> HIDE DEF g
      <4> QED  BY <4>1 DEF SumUpTo
    <3> DEFINE t == s \ {pick(s)}
    <3>1. t \in SUBSET S /\ Cardinality(t) = Cardinality(s) - 1 /\ Cardinality(s) \in Nat /\ Cardinality(s) > 0
          /\ n \in Nat
      BY <2>4
    <3>2. g[t] = h[t]
      <4>1. CASE t = {}
        <5>1. g[t] = 0
          BY <4>1
        <5>2. h[t] = 0
          <6>1. CASE n = 0
            BY <3>1, <6>1
          <6>2. CASE n # 0
            <7>1. SumUpTo(f, S, h, n - 1) /\ Cardinality(t) <= n - 1
              BY <2>3, <3>1, <6>2
            <7> HIDE DEF t
            <7> QED  BY <3>1, <4>1, <7>1 DEF SumUpTo
          <6> QED  BY <6>1, <6>2
        <5> QED  BY <5>1, <5>2
      <4>2. CASE t # {}
        <5>1. Cardinality(t) < n
          BY <3>1
        <5> HIDE DEF t
        <5> QED  BY <3>1, <4>2, <5>1
      <4> QED  BY <4>1, <4>2
    <3>3. CASE Cardinality(s) < n
      <4>1. g[s] = h[s]
        BY <3>3
      <4>2. SumUpTo(f, S, h, n - 1) /\ Cardinality(s) <= n - 1
        <5>1. n # 0 /\ Cardinality(s) <= n - 1
          BY <3>1, <3>3
        <5> QED  BY <2>3, <5>1
      <4>3. h[s] = f[pick(s)] + h[t]
        BY <4>2 DEF SumUpTo
      <4> HIDE DEF g, t
      <4> QED  BY <3>2, <4>1, <4>3 DEF t
    <3>4. CASE ~(Cardinality(s) < n)
      <4>1. g[s] = f[pick(s)] + h[t]
        BY <3>4
      <4> HIDE DEF g, t
      <4> QED  BY <3>2, <4>1 DEF t
    <3> QED  BY <3>3, <3>4
  <2>7. n \notin bad
    <3> HIDE DEF g
    <3> QED  BY <2>5, <2>6
  <2> QED  BY <2>1, <2>7
<1>2. Cardinality(S) \in Nat
  BY FS_CardinalityType
<1>3. PICK g \in [SUBSET S -> Nat] : SumUpTo(f, S, g, Cardinality(S))
  BY <1>1, <1>2
<1>4. ASSUME NEW s \in SUBSET S
      PROVE  g[s] = IF s = {} THEN 0 ELSE f[CHOOSE x \in s : TRUE] + g[s \ {CHOOSE x \in s : TRUE}]
  <2>1. Cardinality(s) <= Cardinality(S)
    BY SubsetsFinite
  <2> QED  BY <1>3, <2>1 DEF SumUpTo
<1>5. SumRec(f, S, g)
  BY <1>4 DEF SumRec
<1> QED  BY <1>5

\* The recursion has one solution, which does not depend on the set around.
LEMMA SumUnique ==
    ASSUME NEW S, IsFiniteSet(S), NEW f, NEW T \in SUBSET S, NEW g, NEW h,
           SumRec(f, S, g), SumRec(f, T, h)
    PROVE  \A s \in SUBSET T : g[s] = h[s]
<1> DEFINE bad == {n \in Nat : \E s \in SUBSET T : Cardinality(s) = n /\ g[s] # h[s]}
           pick(s) == CHOOSE x \in s : TRUE
<1>1. \A s \in SUBSET S : g[s] = IF s = {} THEN 0 ELSE f[pick(s)] + g[s \ {pick(s)}]
  BY Zenon DEF SumRec
<1>2. \A s \in SUBSET T : h[s] = IF s = {} THEN 0 ELSE f[pick(s)] + h[s \ {pick(s)}]
  BY Zenon DEF SumRec
<1>3. \A s : s # {} => pick(s) \in s
  OBVIOUS
<1> HIDE DEF pick
<1>4. bad = {}
  <2> SUFFICES ASSUME bad # {} PROVE FALSE
    OBVIOUS
  <2>1. PICK n \in bad : \A m \in bad : n <= m
    <3> HIDE DEF bad
    <3>1. bad \in SUBSET Nat
      BY DEF bad
    <3> QED  BY <3>1, MinExists
  <2>2. PICK s \in SUBSET T : Cardinality(s) = n /\ g[s] # h[s]
    BY <2>1
  <2>3. s # {}
    BY <1>1, <1>2, <2>2
  <2> DEFINE t == s \ {pick(s)}
  <2>4. t \in SUBSET T /\ Cardinality(t) = n - 1 /\ n - 1 \in Nat /\ ~(n <= n - 1)
    <3>1. IsFiniteSet(s) /\ s \in SUBSET S
      BY FS_Subset
    <3>2. Cardinality(s) \in Nat /\ Cardinality(s) > 0 /\ Cardinality(t) = Cardinality(s) - 1
      BY <1>3, <2>3, <3>1, SubsetsFinite
    <3> HIDE DEF t
    <3> QED  BY <2>2, <3>2 DEF t
  <2>5. g[t] # h[t]
    <3>1. g[s] = f[pick(s)] + g[t] /\ h[s] = f[pick(s)] + h[t]
      BY <1>1, <1>2, <2>3
    <3> HIDE DEF t
    <3> QED  BY <2>2, <3>1
  <2>6. n - 1 \in bad
    <3> HIDE DEF t
    <3> QED  BY <2>4, <2>5
  <2> QED  BY <2>1, <2>4, <2>6
<1>5. ASSUME NEW s \in SUBSET T PROVE Cardinality(s) \in Nat
  <2>1. s \in SUBSET S
    OBVIOUS
  <2> QED  BY <2>1, SubsetsFinite
<1> QED  BY <1>4, <1>5

\* A solution, which sums up every subset.
Sums(f, S, g) == /\ SumRec(f, S, g) /\ g \in [SUBSET S -> Nat]
                 /\ \A T \in SUBSET S : Sum(f, T) = g[T]

LEMMA SumIs ==
    ASSUME NEW S, IsFiniteSet(S), NEW f, \A x \in S : f[x] \in Nat
    PROVE  \E g : Sums(f, S, g)
<1>1. PICK g : SumRec(f, S, g) /\ g \in [SUBSET S -> Nat]
  BY SumExists
<1>2. ASSUME NEW T \in SUBSET S PROVE Sum(f, T) = g[T]
  <2>1. IsFiniteSet(T) /\ \A x \in T : f[x] \in Nat
    BY FS_Subset
  <2>2. \E h : SumRec(f, T, h)
    BY <2>1, SumExists
  <2> DEFINE h == CHOOSE h : SumRec(f, T, h)
  <2>3. SumRec(f, T, h)
    BY <2>2
  <2>4. Sum(f, T) = h[T]
    BY DEF Sum
  <2> HIDE DEF h
  <2>5. g[T] = h[T]
    BY <1>1, <2>3, SumUnique
  <2> QED  BY <2>4, <2>5
<1> QED  BY <1>1, <1>2 DEF Sums

LEMMA SumNat ==
    ASSUME NEW S, IsFiniteSet(S), NEW f, \A x \in S : f[x] \in Nat
    PROVE  Sum(f, S) \in Nat /\ Sum(f, {}) = 0
<1>1. PICK g : Sums(f, S, g)
  BY SumIs
<1>2. g[{}] = 0
  BY <1>1 DEF Sums, SumRec
<1> QED  BY <1>1, <1>2 DEF Sums

\* Any element may be taken out first.
LEMMA SumRemove ==
    ASSUME NEW S, IsFiniteSet(S), NEW f, \A x \in S : f[x] \in Nat, NEW y \in S
    PROVE  Sum(f, S) = f[y] + Sum(f, S \ {y}) /\ Sum(f, S \ {y}) \in Nat /\ Sum(f, S) \in Nat
<1>1. PICK g : Sums(f, S, g)
  BY SumIs
<1> DEFINE pick(s) == CHOOSE x \in s : TRUE
           bad == {n \in Nat : \E s \in SUBSET S : Cardinality(s) = n /\ \E x \in s : g[s] # f[x] + g[s \ {x}]}
<1>2. \A s \in SUBSET S : s # {} => g[s] = f[pick(s)] + g[s \ {pick(s)}] /\ pick(s) \in s
  BY <1>1 DEF Sums, SumRec
<1> HIDE DEF pick
<1>3. bad = {}
  <2> SUFFICES ASSUME bad # {} PROVE FALSE
    OBVIOUS
  <2>1. PICK n \in bad : \A m \in bad : n <= m
    <3> HIDE DEF bad
    <3>1. bad \in SUBSET Nat
      BY DEF bad
    <3> QED  BY <3>1, MinExists
  <2>0. PICK s \in SUBSET S : Cardinality(s) = n /\ \E x \in s : g[s] # f[x] + g[s \ {x}]
    BY <2>1
  <2>2. PICK x \in s : Cardinality(s) = n /\ g[s] # f[x] + g[s \ {x}]
    BY <2>0
  <2> DEFINE p == pick(s)
             t == s \ {p}
             u == s \ {x}
  <2>3. p \in s /\ g[s] = f[p] + g[t] /\ x # p
    BY <1>2, <2>2
  <2>4. t \in SUBSET S /\ Cardinality(t) = n - 1 /\ n - 1 \in Nat /\ ~(n <= n - 1) /\ x \in t
    <3>1. Cardinality(s) \in Nat /\ Cardinality(s) > 0 /\ Cardinality(t) = Cardinality(s) - 1
      BY <2>3, SubsetsFinite
    <3> QED  BY <2>2, <2>3, <3>1
  <2>5. u \in SUBSET S /\ Cardinality(u) = n - 1 /\ p \in u
    <3>1. Cardinality(u) = Cardinality(s) - 1
      BY <2>2, SubsetsFinite
    <3> QED  BY <2>2, <2>3, <3>1
  <2>6. n - 1 \notin bad
    BY <2>1, <2>4
  <2>7. g[t] = f[x] + g[t \ {x}]
    <3> HIDE DEF t, u, p
    <3> QED  BY <2>4, <2>6
  <2>8. g[u] = f[p] + g[u \ {p}]
    <3> HIDE DEF t, u, p
    <3> QED  BY <2>4, <2>5, <2>6
  <2>9. t \ {x} = u \ {p}
    OBVIOUS
  <2>10. f[p] \in Nat /\ f[x] \in Nat /\ g[t \ {x}] \in Nat
    <3>1. p \in S /\ x \in S /\ t \ {x} \in SUBSET S
      BY <2>3
    <3> HIDE DEF t, u, p
    <3> QED  BY <1>1, <3>1 DEF Sums
  <2> HIDE DEF t, p
  <2>11. g[s] = f[x] + g[u]
    <3> DEFINE r == g[t \ {x}]
    <3>1. g[t] = f[x] + r /\ g[u] = f[p] + r /\ r \in Nat
      BY <2>7, <2>8, <2>9, <2>10
    <3> HIDE DEF u, r
    <3> QED  BY <2>3, <2>10, <3>1
  <2> QED  BY <2>2, <2>11
<1>4. Cardinality(S) \in Nat
  BY FS_CardinalityType
<1>5. g[S] = f[y] + g[S \ {y}]
  BY <1>3, <1>4
<1>6. S \in SUBSET S /\ S \ {y} \in SUBSET S
  OBVIOUS
<1> QED  BY <1>1, <1>5, <1>6 DEF Sums

\* Only the values on the set count.
LEMMA SumSame ==
    ASSUME NEW S, IsFiniteSet(S), NEW f, NEW h, \A x \in S : f[x] \in Nat /\ h[x] = f[x]
    PROVE  Sum(h, S) = Sum(f, S)
<1>1. PICK g : Sums(f, S, g)
  BY SumIs
<1>2. PICK k : Sums(h, S, k)
  BY SumIs
<1>3. SumRec(f, S, k)
  <2> DEFINE pick(s) == CHOOSE x \in s : TRUE
             a(s) == IF s = {} THEN 0 ELSE h[pick(s)] + k[s \ {pick(s)}]
             b(s) == IF s = {} THEN 0 ELSE f[pick(s)] + k[s \ {pick(s)}]
  <2>1. \A s \in SUBSET S : a(s) = b(s)
    <3> SUFFICES ASSUME NEW s \in SUBSET S, s # {} PROVE h[pick(s)] = f[pick(s)]
      OBVIOUS
    <3>1. pick(s) \in s
      OBVIOUS
    <3> HIDE DEF pick
    <3> QED  BY <3>1
  <2>2. k = [s \in SUBSET S |-> a(s)]
    BY <1>2, Zenon DEF Sums, SumRec
  <2>3. k = [s \in SUBSET S |-> b(s)]
    <3> HIDE DEF a, b
    <3> QED  BY <2>1, <2>2
  <2> QED  BY <2>3, Zenon DEF SumRec
<1>4. g[S] = k[S]
  BY <1>1, <1>3, SumUnique DEF Sums
<1> QED  BY <1>1, <1>2, <1>4 DEF Sums

\* A part of a set sums up to no more than the set.
LEMMA SumWithin ==
    ASSUME NEW S, IsFiniteSet(S), NEW f, \A x \in S : f[x] \in Nat, NEW T \in SUBSET S
    PROVE  Sum(f, S) \in Nat /\ Sum(f, T) \in Nat /\ Sum(f, T) <= Sum(f, S)
<1> DEFINE bad == {n \in Nat : \E U \in SUBSET S : T \subseteq U /\ Cardinality(U) = n
                                                  /\ ~(Sum(f, T) <= Sum(f, U))}
<1>1. ASSUME NEW U \in SUBSET S PROVE IsFiniteSet(U) /\ Cardinality(U) \in Nat /\ Sum(f, U) \in Nat
  <2>1. IsFiniteSet(U) /\ Cardinality(U) \in Nat /\ \A x \in U : f[x] \in Nat
    BY SubsetsFinite
  <2> QED  BY <2>1, SumNat
<1>2. bad = {}
  <2> SUFFICES ASSUME bad # {} PROVE FALSE
    OBVIOUS
  <2>1. PICK n \in bad : \A m \in bad : n <= m
    <3> HIDE DEF bad
    <3>1. bad \in SUBSET Nat
      BY DEF bad
    <3> QED  BY <3>1, MinExists
  <2>2. PICK U \in SUBSET S : T \subseteq U /\ Cardinality(U) = n /\ ~(Sum(f, T) <= Sum(f, U))
    BY <2>1
  <2>3. Sum(f, T) \in Nat /\ Sum(f, U) \in Nat /\ IsFiniteSet(U) /\ n \in Nat
    BY <1>1, <2>2
  <2>4. PICK y \in U : y \notin T
    <3>1. U # T
      BY <2>2, <2>3
    <3> QED  BY <2>2, <3>1
  <2> DEFINE V == U \ {y}
  <2>5. Sum(f, U) = f[y] + Sum(f, V) /\ Sum(f, V) \in Nat /\ f[y] \in Nat
    BY <2>3, SumRemove
  <2>6. V \in SUBSET S /\ T \subseteq V
    BY <2>2, <2>4
  <2>7. Cardinality(V) = n - 1 /\ n - 1 \in Nat /\ ~(n <= n - 1)
    <3>1. Cardinality(V) = Cardinality(U) - 1
      BY <2>3, FS_RemoveElement
    <3>2. Cardinality(V) \in Nat
      BY <1>1, <2>6
    <3> HIDE DEF V
    <3> QED  BY <2>2, <2>3, <3>1, <3>2
  <2>8. n - 1 \notin bad
    BY <2>1, <2>7
  <2>9. Sum(f, T) <= Sum(f, V)
    BY <2>6, <2>7, <2>8
  <2> HIDE DEF V, bad
  <2> QED  BY <2>2, <2>3, <2>5, <2>9
<1>3. S \in SUBSET S /\ Cardinality(S) \in Nat
  BY <1>1
<1>4. Sum(f, T) <= Sum(f, S)
  BY <1>2, <1>3
<1> QED  BY <1>1, <1>3, <1>4
=============================================================================
