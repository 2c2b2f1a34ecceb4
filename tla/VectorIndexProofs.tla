-------------------------- MODULE VectorIndexProofs --------------------------
(***************************************************************************)
(* Theorems about VectorIndex, for every finite set of vectors, every      *)
(* metric without ties, every M, ef and over-query factor, and any number  *)
(* of puts, overwrites, refused puts, deletes and reloads: the graph keeps *)
(* its shape through every insertion and repair, the maps fit the graph,   *)
(* and the searches answer as they promise.                                *)
(***************************************************************************)
EXTENDS VectorIndex, SetLemmas, SequenceTheorems

-----------------------------------------------------------------------------
(* Folds and descending recursion                                          *)

\* Induction up to n, over the members of a set.
LEMMA UpTo ==
    ASSUME NEW n \in Nat, NEW S, 0 \in S, \A i \in 1 .. n : i - 1 \in S => i \in S
    PROVE  \A i \in 0 .. n : i \in S
<1> SUFFICES ASSUME {i \in 0 .. n : i \notin S} # {} PROVE FALSE
  OBVIOUS
<1> DEFINE T == {i \in 0 .. n : i \notin S}
<1>1. PICK m \in T : \A y \in T : m <= y
  <2>1. T \in SUBSET Nat /\ T # {}
    OBVIOUS
  <2> QED  BY <2>1, MinExists
<1>2. m \in 1 .. n /\ m - 1 \in 0 .. n /\ ~(m <= m - 1)
  BY <1>1
<1> QED  BY <1>1, <1>2

\* The prefixes are the sets that a fold over a sequence goes through.
LEMMA PrefixMax ==
    ASSUME NEW n \in Nat, NEW i \in 1 .. n
    PROVE  /\ 1 .. i \in SUBSET (1 .. n) /\ 1 .. i # {} /\ Max(1 .. i) = i
           /\ (1 .. i) \ {i} = 1 .. i - 1
<1>1. 1 .. i \in SUBSET (0 .. n) /\ 1 .. i # {} /\ i \in 1 .. i
  OBVIOUS
<1>2. Max(1 .. i) \in 1 .. i /\ i <= Max(1 .. i)
  BY <1>1, MaxOfNats
<1> QED  BY <1>1, <1>2

\* The greatest member of a set of 1 .. n, and the set without it.
LEMMA SetMax ==
    ASSUME NEW n \in Nat, NEW s \in SUBSET (1 .. n), s # {}
    PROVE  /\ Max(s) \in s /\ Max(s) \in 1 .. n /\ s \ {Max(s)} \in SUBSET (1 .. n)
           /\ \A y \in s : y <= Max(s)
<1>1. s \in SUBSET (0 .. n)
  OBVIOUS
<1>2. Max(s) \in s /\ \A y \in s : y <= Max(s)
  BY <1>1, MaxOfNats
<1> QED  BY <1>2

\* h folds F over every subset of 1 .. n, from base on.
Folds(F, base, n, h) ==
    \A s \in SUBSET (1 .. n) : h[s] = IF s = {} THEN base ELSE F[<<h[s \ {Max(s)}], Max(s)>>]

\* A fold that stays in D exists.
LEMMA FoldExists ==
    ASSUME NEW n \in Nat, NEW D, NEW base \in D, NEW F \in [D \X (1 .. n) -> D]
    PROVE  \E h \in [SUBSET (1 .. n) -> D] : Folds(F, base, n, h)
<1> DEFINE S == {m \in 0 .. n : \E h \in [SUBSET (1 .. n) -> D] : Folds(F, base, m, h)}
<1>1. 0 \in S
  <2> DEFINE h == [s \in SUBSET (1 .. n) |-> base]
  <2>1. h \in [SUBSET (1 .. n) -> D]
    OBVIOUS
  <2>2. \A s \in SUBSET (1 .. 0) : s = {} /\ s \in SUBSET (1 .. n)
    OBVIOUS
  <2>3. Folds(F, base, 0, h)
    BY <2>2 DEF Folds
  <2> HIDE DEF h
  <2>4. 0 \in 0 .. n
    OBVIOUS
  <2> QED  BY <2>1, <2>3, <2>4
<1>2. ASSUME NEW m \in 1 .. n, m - 1 \in S PROVE m \in S
  <2>1. PICK h \in [SUBSET (1 .. n) -> D] : Folds(F, base, m - 1, h)
    BY <1>2
  <2> DEFINE g == [s \in SUBSET (1 .. n) |-> IF s \subseteq 1 .. m - 1 THEN h[s]
                                             ELSE F[<<h[s \ {Max(s)}], Max(s)>>]]
  <2>2. g \in [SUBSET (1 .. n) -> D]
    <3>1. ASSUME NEW s \in SUBSET (1 .. n), ~(s \subseteq 1 .. m - 1)
          PROVE  F[<<h[s \ {Max(s)}], Max(s)>>] \in D
      <4>1. Max(s) \in 1 .. n /\ s \ {Max(s)} \in SUBSET (1 .. n)
        BY <3>1, SetMax
      <4> QED  BY <4>1
    <3> QED  BY <3>1
  <2>3. ASSUME NEW s \in SUBSET (1 .. m)
        PROVE  g[s] = IF s = {} THEN base ELSE F[<<g[s \ {Max(s)}], Max(s)>>]
    <3>1. s \in SUBSET (1 .. n) /\ m \in Nat /\ m - 1 \in Nat
      OBVIOUS
    <3>2. CASE s \subseteq 1 .. m - 1
      <4>1. g[s] = h[s] /\ h[s] = IF s = {} THEN base ELSE F[<<h[s \ {Max(s)}], Max(s)>>]
        BY <2>1, <3>1, <3>2 DEF Folds
      <4>2. s # {} => s \ {Max(s)} \in SUBSET (1 .. n) /\ s \ {Max(s)} \subseteq 1 .. m - 1
        BY <3>1, <3>2
      <4>3. s # {} => g[s \ {Max(s)}] = h[s \ {Max(s)}]
        BY <4>2
      <4> HIDE DEF g
      <4> QED  BY <4>1, <4>3
    <3>3. CASE ~(s \subseteq 1 .. m - 1)
      <4>1. m \in s /\ s # {}
        BY <3>3
      <4>2. Max(s) = m
        <5>1. Max(s) \in 1 .. m /\ m <= Max(s)
          BY <3>1, <4>1, SetMax
        <5> QED  BY <5>1
      <4>3. s \ {m} \subseteq 1 .. m - 1 /\ s \ {m} \in SUBSET (1 .. n)
        OBVIOUS
      <4>4. g[s] = F[<<h[s \ {m}], m>>] /\ g[s \ {m}] = h[s \ {m}]
        BY <3>1, <3>3, <4>2, <4>3
      <4> HIDE DEF g
      <4> QED  BY <4>1, <4>2, <4>4
    <3> QED  BY <3>2, <3>3
  <2>4. Folds(F, base, m, g)
    <3> HIDE DEF g
    <3> QED  BY <2>3 DEF Folds
  <2> HIDE DEF g
  <2> QED  BY <2>2, <2>4
<1>3. n \in S
  <2> HIDE DEF S
  <2> QED  BY <1>1, <1>2, UpTo
<1> QED  BY <1>3

\* What such a fold does at a set that is not empty.
FoldsIn(F, base, n, D, h) ==
    /\ h \in [SUBSET (1 .. n) -> D] /\ h[{}] = base
    /\ \A s \in SUBSET (1 .. n) : s # {} =>
          /\ Max(s) \in 1 .. n /\ h[s \ {Max(s)}] \in D
          /\ h[s] = F[<<h[s \ {Max(s)}], Max(s)>>]

\* Such a fold with what it does at each set.
LEMMA FoldIn ==
    ASSUME NEW n \in Nat, NEW D, NEW base \in D, NEW F \in [D \X (1 .. n) -> D]
    PROVE  \E h : FoldsIn(F, base, n, D, h)
<1>1. PICK h \in [SUBSET (1 .. n) -> D] : Folds(F, base, n, h)
  BY FoldExists
<1>2. ASSUME NEW s \in SUBSET (1 .. n), s # {}
      PROVE  /\ Max(s) \in 1 .. n /\ h[s \ {Max(s)}] \in D
             /\ h[s] = F[<<h[s \ {Max(s)}], Max(s)>>]
  <2>1. s \ {Max(s)} \in SUBSET (1 .. n) /\ Max(s) \in 1 .. n
    BY <1>2, SetMax
  <2> QED  BY <1>1, <1>2, <2>1 DEF Folds
<1>3. {} \in SUBSET (1 .. n)
  OBVIOUS
<1> QED  BY <1>1, <1>2, <1>3 DEF Folds, FoldsIn

\* The steps of F lead from base to r.
Run(F, base, n, D, k) == /\ k \in [0 .. n -> D] /\ k[0] = base
                         /\ \A i \in 1 .. n : k[i] = F[<<k[i - 1], i>>]
Leads(F, base, n, D, r) == \E k : Run(F, base, n, D, k) /\ k[n] = r

\* A recursion over sets that is the fold of F as long as it stays in D.
Unfolds(F, base, n, D, c) ==
    /\ c[{}] = base
    /\ \A s \in SUBSET (1 .. n) : s # {} /\ c[s \ {Max(s)}] \in D =>
           c[s] = F[<<c[s \ {Max(s)}], Max(s)>>]

\* A recursion over sets that FoldLeft unfolds to is a run of its steps.
LEMMA FoldRuns ==
    ASSUME NEW n \in Nat, NEW D, NEW base \in D, NEW F \in [D \X (1 .. n) -> D], NEW c,
           Unfolds(F, base, n, D, c)
    PROVE  Leads(F, base, n, D, c[1 .. n])
<1> DEFINE k == [i \in 0 .. n |-> c[1 .. i]]
           S == {i \in 0 .. n : k[i] \in D}
<1>1. k[0] = base /\ 0 \in S
  <2>1. 1 .. 0 = {}
    OBVIOUS
  <2> QED  BY <2>1 DEF Unfolds
<1>2. ASSUME NEW i \in 1 .. n, k[i - 1] \in D
      PROVE  k[i] = F[<<k[i - 1], i>>] /\ k[i] \in D
  <2>1. /\ 1 .. i \in SUBSET (1 .. n) /\ 1 .. i # {} /\ Max(1 .. i) = i
        /\ (1 .. i) \ {i} = 1 .. i - 1
    BY PrefixMax
  <2>2. k[i - 1] = c[1 .. i - 1] /\ k[i] = c[1 .. i]
    OBVIOUS
  <2>3. c[1 .. i] = F[<<c[1 .. i - 1], i>>]
    <3> HIDE DEF k
    <3> QED  BY <1>2, <2>1, <2>2 DEF Unfolds
  <2> HIDE DEF k
  <2> QED  BY <1>2, <2>2, <2>3
<1>3. \A i \in 0 .. n : k[i] \in D
  <2> HIDE DEF k
  <2>1. ASSUME NEW i \in 1 .. n, i - 1 \in S PROVE i \in S
    <3>1. i \in 0 .. n /\ k[i - 1] \in D
      BY <2>1
    <3>2. k[i] \in D
      BY <1>2, <3>1
    <3> QED  BY <3>1, <3>2
  <2> HIDE DEF S
  <2>2. \A i \in 0 .. n : i \in S
    BY <1>1, <2>1, UpTo
  <2> QED  BY <2>2 DEF S
<1>4. k \in [0 .. n -> D]
  <2>1. \A i \in 0 .. n : k[i] = c[1 .. i]
    OBVIOUS
  <2>2. \A i \in 0 .. n : c[1 .. i] \in D
    <3> HIDE DEF k
    <3> QED  BY <1>3, <2>1
  <2> QED  BY <2>2
<1>5. \A i \in 1 .. n : k[i] = F[<<k[i - 1], i>>]
  <2>1. \A i \in 1 .. n : i - 1 \in 0 .. n
    OBVIOUS
  <2> HIDE DEF k
  <2> QED  BY <1>2, <1>3, <2>1
<1>6. k[n] = c[1 .. n]
  OBVIOUS
<1> HIDE DEF k
<1> QED  BY <1>1, <1>4, <1>5, <1>6 DEF Run, Leads

\* A recursion from top down to lo whose value at l is in P[l].
Lowers(F, lo, top, P) == \A l \in lo .. top - 1 : \A a \in P[l + 1] : F[<<a, l>>] \in P[l]
Descent(F, base, lo, top, P, h) ==
    /\ h = [l \in lo .. top |-> IF l = top THEN base ELSE F[<<h[l + 1], l>>]]
    /\ \A l \in lo .. top : h[l] \in P[l]

\* A downward recursion whose values stay in P exists.
LEMMA DescentExists ==
    ASSUME NEW lo \in Int, NEW top \in Int, lo <= top, NEW P, NEW F, NEW base \in P[top],
           Lowers(F, lo, top, P)
    PROVE  \E h : Descent(F, base, lo, top, P, h)
<1> DEFINE Rec(h, m) == /\ DOMAIN h = lo .. top
                        /\ \A l \in m .. top : /\ h[l] = IF l = top THEN base ELSE F[<<h[l + 1], l>>]
                                               /\ h[l] \in P[l]
           S == {i \in 0 .. top - lo : \E h : Rec(h, top - i)}
<1>0. top - lo \in Nat
  OBVIOUS
<1>1. 0 \in S
  <2>1. Rec([l \in lo .. top |-> base], top)
    OBVIOUS
  <2>2. top - 0 = top /\ 0 \in 0 .. top - lo
    OBVIOUS
  <2> HIDE DEF Rec
  <2> QED  BY <2>1, <2>2
<1>2. ASSUME NEW i \in 1 .. top - lo, i - 1 \in S PROVE i \in S
  <2> DEFINE m == top - i
  <2>1. top - (i - 1) = m + 1 /\ m \in lo .. top - 1 /\ m \in Int
    OBVIOUS
  <2>2. PICK h : Rec(h, m + 1)
    <3> HIDE DEF Rec
    <3> QED  BY <1>2, <2>1
  <2> HIDE DEF m
  <2> DEFINE g == [l \in lo .. top |-> IF l = m THEN F[<<h[m + 1], m>>] ELSE h[l]]
  <2>3. h[m + 1] \in P[m + 1] /\ F[<<h[m + 1], m>>] \in P[m]
    <3>1. m + 1 \in m + 1 .. top
      BY <2>1
    <3>2. h[m + 1] \in P[m + 1]
      BY <2>2, <3>1
    <3> QED  BY <2>1, <3>2 DEF Lowers
  <2>4. g[m] = F[<<h[m + 1], m>>] /\ \A l \in m + 1 .. top : g[l] = h[l]
    BY <2>1
  <2>5. DOMAIN g = lo .. top
    OBVIOUS
  <2> HIDE DEF g
  <2>6. Rec(g, m)
    <3>1. ASSUME NEW l \in m .. top
          PROVE  g[l] = (IF l = top THEN base ELSE F[<<g[l + 1], l>>]) /\ g[l] \in P[l]
      <4>1. CASE l = m
        BY <2>1, <2>3, <2>4, <4>1
      <4>2. CASE l # m
        <5>1. l \in m + 1 .. top /\ (l # top => l + 1 \in m + 1 .. top)
          BY <2>1, <4>2
        <5> QED  BY <2>2, <2>4, <5>1
      <4> QED  BY <4>1, <4>2
    <3> QED  BY <2>5, <3>1
  <2> HIDE DEF Rec
  <2> QED  BY <2>6 DEF m
<1>3. top - lo \in S
  <2> HIDE DEF S
  <2> QED  BY <1>0, <1>1, <1>2, UpTo
<1>4. PICK h : Rec(h, lo)
  <2>1. top - (top - lo) = lo
    OBVIOUS
  <2> HIDE DEF Rec
  <2> QED  BY <1>3, <2>1
<1> DEFINE f == [l \in lo .. top |-> h[l]]
<1>5. f = [l \in lo .. top |-> IF l = top THEN base ELSE F[<<f[l + 1], l>>]]
  <2>1. \A l \in lo .. top : f[l] = IF l = top THEN base ELSE F[<<f[l + 1], l>>]
    <3> SUFFICES ASSUME NEW l \in lo .. top
                 PROVE  f[l] = IF l = top THEN base ELSE F[<<f[l + 1], l>>]
      OBVIOUS
    <3>1. f[l] = h[l] /\ (l # top => l + 1 \in lo .. top)
      OBVIOUS
    <3>2. l # top => f[l + 1] = h[l + 1]
      BY <3>1
    <3> HIDE DEF f
    <3> QED  BY <1>4, <3>1, <3>2
  <2> DEFINE e(l) == IF l = top THEN base ELSE F[<<f[l + 1], l>>]
  <2>2. f = [l \in lo .. top |-> f[l]]
    OBVIOUS
  <2> HIDE DEF f
  <2>3. \A l \in lo .. top : f[l] = e(l)
    BY <2>1
  <2> HIDE DEF e
  <2>4. f = [l \in lo .. top |-> e(l)]
    BY <2>2, <2>3
  <2> QED  BY <2>4 DEF e
<1>6. \A l \in lo .. top : f[l] \in P[l]
  <2>1. \A l \in lo .. top : f[l] = h[l]
    OBVIOUS
  <2> HIDE DEF f
  <2> QED  BY <1>4, <2>1
<1> QED  BY <1>5, <1>6 DEF Descent

\* A recursion that is the one of F as long as it stays in P stays there.
LEMMA DescentStays ==
    ASSUME NEW lo \in Int, NEW top \in Int, lo <= top, NEW P, NEW c,
           c[top] \in P[top],
           \A l \in lo .. top - 1 : c[l + 1] \in P[l + 1] => c[l] \in P[l]
    PROVE  \A l \in lo .. top : c[l] \in P[l]
<1> DEFINE S == {i \in 0 .. top - lo : c[top - i] \in P[top - i]}
<1>0. top - lo \in Nat
  OBVIOUS
<1>1. 0 \in S
  <2>1. top - 0 = top
    OBVIOUS
  <2> QED  BY <2>1
<1>2. ASSUME NEW i \in 1 .. top - lo, i - 1 \in S PROVE i \in S
  <2>1. top - (i - 1) = (top - i) + 1 /\ top - i \in lo .. top - 1
    OBVIOUS
  <2> QED  BY <1>2, <2>1
<1>3. \A i \in 0 .. top - lo : i \in S
  <2> HIDE DEF S
  <2> QED  BY <1>0, <1>1, <1>2, UpTo
<1> SUFFICES ASSUME NEW l \in lo .. top PROVE c[l] \in P[l]
  OBVIOUS
<1>4. top - l \in 0 .. top - lo /\ top - (top - l) = l
  OBVIOUS
<1> QED  BY <1>3, <1>4

-----------------------------------------------------------------------------
(* Graphs and distances                                                    *)

Recs(n) == [vector : Vectors, neighbors : UNION {[0 .. l -> Seq(1 .. n)] : l \in Nat},
            deleted : BOOLEAN]
Graphs(n) == [1 .. n -> Recs(n)]

\* The nodes that have a layer.
At(g, layer) == {i \in DOMAIN g : layer \in DOMAIN g[i].neighbors}

\* No vector is inserted twice.
VectorsDiffer(g) == \A i, j \in DOMAIN g : i # j => g[i].vector # g[j].vector

\* Cardinalities of subsets of 1 .. n.
LEMMA SmallSets ==
    ASSUME NEW n \in Nat, NEW S \in SUBSET (1 .. n)
    PROVE  /\ IsFiniteSet(S) /\ Cardinality(S) \in Nat /\ Cardinality(S) <= n
           /\ (S = {} <=> Cardinality(S) = 0)
           /\ \A x \in S : Cardinality(S \ {x}) = Cardinality(S) - 1
           /\ \A x \in (1 .. n) \ S : Cardinality(S \cup {x}) = Cardinality(S) + 1
           /\ \A T \in SUBSET S : /\ Cardinality(T) \in Nat /\ Cardinality(T) <= Cardinality(S)
                                  /\ Cardinality(T) = Cardinality(S) => T = S
<1>1. IsFiniteSet(1 .. n) /\ Cardinality(1 .. n) = n
  <2>1. 1 \in Int /\ n \in Int
    OBVIOUS
  <2>2. IsFiniteSet(1 .. n) /\ Cardinality(1 .. n) = IF 1 > n THEN 0 ELSE n - 1 + 1
    BY <2>1, FS_Interval
  <2> QED  BY <2>2
<1>2. IsFiniteSet(S) /\ Cardinality(S) <= n
  BY <1>1, FS_Subset
<1>3. Cardinality(S) \in Nat
  BY <1>2, FS_CardinalityType
<1>4. S = {} <=> Cardinality(S) = 0
  BY <1>2, FS_EmptySet
<1>5. \A x \in S : Cardinality(S \ {x}) = Cardinality(S) - 1
  BY <1>2, FS_RemoveElement
<1>6. \A x \in (1 .. n) \ S : Cardinality(S \cup {x}) = Cardinality(S) + 1
  BY <1>2, FS_AddElement
<1>7. ASSUME NEW T \in SUBSET S
      PROVE  /\ Cardinality(T) \in Nat /\ Cardinality(T) <= Cardinality(S)
             /\ Cardinality(T) = Cardinality(S) => T = S
  <2>1. Cardinality(T) <= Cardinality(S) /\ (Cardinality(S) = Cardinality(T) => S = T) /\ IsFiniteSet(T)
    BY <1>2, FS_Subset
  <2> QED  BY <2>1, FS_CardinalityType
<1> QED  BY <1>2, <1>3, <1>4, <1>5, <1>6, <1>7

\* A set that is not empty has a least and a greatest value of f.
LEMMA Extremes ==
    ASSUME NEW n \in Nat, NEW f, \A c \in 1 .. n : f[c] \in Nat, NEW S \in SUBSET (1 .. n), S # {}
    PROVE  /\ \E c \in S : \A d \in S : f[c] <= f[d]
           /\ \E c \in S : \A d \in S : f[c] >= f[d]
<1>1. \E c \in S : \A d \in S : f[c] <= f[d]
  <2> DEFINE T == {f[c] : c \in S}
  <2>1. T \in SUBSET Nat /\ T # {}
    OBVIOUS
  <2>2. PICK x \in T : \A y \in T : x <= y
    BY <2>1, MinExists
  <2> QED  BY <2>2
<1>2. \E c \in S : \A d \in S : f[c] >= f[d]
  <2> DEFINE Good(m) == \A T \in SUBSET (1 .. m) : T # {} => \E c \in T : \A d \in T : f[c] >= f[d]
             G == {m \in 0 .. n : Good(m)}
  <2>1. 0 \in G
    <3>1. \A T \in SUBSET (1 .. 0) : T = {}
      OBVIOUS
    <3>2. Good(0)
      BY <3>1
    <3> HIDE DEF Good
    <3> QED  BY <3>2
  <2>2. ASSUME NEW m \in 1 .. n, m - 1 \in G PROVE m \in G
    <3> SUFFICES ASSUME NEW T \in SUBSET (1 .. m), T # {} PROVE \E c \in T : \A d \in T : f[c] >= f[d]
      <4>1. Good(m) => m \in G
        OBVIOUS
      <4> HIDE DEF G
      <4> QED  BY <4>1
    <3>1. T \ {m} \in SUBSET (1 .. m - 1) /\ m \in 1 .. n
      OBVIOUS
    <3>2. CASE T \ {m} = {}
      <4>1. T = {m} /\ f[m] \in Nat
        BY <3>1, <3>2
      <4>2. f[m] >= f[m]
        BY <4>1
      <4> QED  BY <4>1, <4>2
    <3>3. CASE T \ {m} # {}
      <4>1. PICK c \in T \ {m} : \A d \in T \ {m} : f[c] >= f[d]
        BY <2>2, <3>1, <3>3
      <4>2. CASE m \in T /\ f[m] >= f[c]
        <5>1. \A d \in T : f[d] \in Nat
          OBVIOUS
        <5>2. \A d \in T : f[m] >= f[d]
          BY <4>1, <4>2, <5>1
        <5> QED  BY <4>2, <5>2
      <4>3. CASE ~(m \in T /\ f[m] >= f[c])
        <5>1. f[c] \in Nat /\ f[m] \in Nat
          BY <4>1, <3>1
        <5>2. \A d \in T : f[c] >= f[d]
          BY <4>1, <4>3, <5>1
        <5> QED  BY <4>1, <5>2
      <4> QED  BY <4>2, <4>3
    <3> QED  BY <3>2, <3>3
  <2>3. n \in G
    <3> HIDE DEF G
    <3> QED  BY <2>1, <2>2, UpTo
  <2> QED  BY <2>3
<1> QED  BY <1>1, <1>2

\* What a graph of n nodes is made of.
LEMMA GraphIs ==
    ASSUME NEW n \in Nat, NEW g \in Graphs(n)
    PROVE  /\ DOMAIN g = 1 .. n /\ Len(g) = n /\ g \in Seq(Recs(n))
           /\ DOMAIN Arena(g) = 1 .. n /\ \A i \in 1 .. n : Arena(g)[i] = i
           /\ \A i \in 1 .. n : /\ g[i] \in Recs(n) /\ g[i].vector \in Vectors /\ g[i].deleted \in BOOLEAN
                                /\ Level(g[i]) \in Nat /\ DOMAIN g[i].neighbors = 0 .. Level(g[i])
                                /\ g[i].neighbors \in [0 .. Level(g[i]) -> Seq(1 .. n)]
<1>1. DOMAIN g = 1 .. n /\ Len(g) = n /\ g \in Seq(Recs(n))
  BY DEF Graphs
<1>2. DOMAIN Arena(g) = 1 .. n /\ \A i \in 1 .. n : Arena(g)[i] = i
  BY <1>1 DEF Arena
<1>3. ASSUME NEW i \in 1 .. n
      PROVE  /\ g[i] \in Recs(n) /\ g[i].vector \in Vectors /\ g[i].deleted \in BOOLEAN
             /\ Level(g[i]) \in Nat /\ DOMAIN g[i].neighbors = 0 .. Level(g[i])
             /\ g[i].neighbors \in [0 .. Level(g[i]) -> Seq(1 .. n)]
  <2>1. g[i] \in Recs(n)
    BY DEF Graphs
  <2>2. g[i].vector \in Vectors /\ g[i].deleted \in BOOLEAN
        /\ g[i].neighbors \in UNION {[0 .. l -> Seq(1 .. n)] : l \in Nat}
    BY <2>1 DEF Recs
  <2>3. PICK l \in Nat : g[i].neighbors \in [0 .. l -> Seq(1 .. n)]
    BY <2>2
  <2>4. DOMAIN g[i].neighbors = 0 .. l /\ Cardinality(0 .. l) = l + 1
    <3>1. 0 \in Int /\ l \in Int
      OBVIOUS
    <3>2. Cardinality(0 .. l) = IF 0 > l THEN 0 ELSE l - 0 + 1
      BY <3>1, FS_Interval
    <3> QED  BY <2>3, <3>2
  <2>5. Level(g[i]) = l
    BY <2>4 DEF Level
  <2> QED  BY <2>1, <2>2, <2>3, <2>4, <2>5
<1> QED  BY <1>1, <1>2, <1>3

\* Distances of q to the nodes, as a function.
Distances(g, q) == [i \in DOMAIN g |-> distance(g, q, i)]

\* Distances are naturals.
LEMMA DistanceIs ==
    ASSUME NEW n \in Nat, NEW g \in Graphs(n), NEW q \in Vectors
    PROVE  \A i \in 1 .. n : distance(g, q, i) \in Nat /\ Distances(g, q)[i] = distance(g, q, i)
<1>1. \A i \in 1 .. n : <<q, g[i].vector>> \in Vectors \X Vectors
  BY GraphIs
<1>2. DOMAIN g = 1 .. n
  BY GraphIs
<1> QED  BY <1>1, <1>2, IndexAssumption DEF distance, Distances

\* No two nodes are equally far from a vector.
LEMMA DistancesDiffer ==
    ASSUME NEW n \in Nat, NEW g \in Graphs(n), VectorsDiffer(g), NEW q \in Vectors,
           NEW i \in 1 .. n, NEW j \in 1 .. n, i # j
    PROVE  distance(g, q, i) # distance(g, q, j)
<1>1. g[i].vector \in Vectors /\ g[j].vector \in Vectors /\ DOMAIN g = 1 .. n
  BY GraphIs
<1>2. g[i].vector # g[j].vector
  BY <1>1 DEF VectorsDiffer
<1>3. \A u, v, w \in Vectors : v # w => Dist[u, v] # Dist[u, w]
  BY IndexAssumption
<1>4. Dist[q, g[i].vector] # Dist[q, g[j].vector]
  BY <1>1, <1>2, <1>3
<1> QED  BY <1>4 DEF distance

\* Closest returns a closest node.
LEMMA ClosestIs ==
    ASSUME NEW n \in Nat, NEW g \in Graphs(n), NEW q \in Vectors,
           NEW S \in SUBSET (1 .. n), S # {}
    PROVE  /\ Closest(g, q, S) \in S
           /\ \A d \in S : distance(g, q, Closest(g, q, S)) <= distance(g, q, d)
<1>0. \A c \in 1 .. n : Distances(g, q)[c] \in Nat
  BY DistanceIs
<1>1. \E c \in S : \A d \in S : Distances(g, q)[c] <= Distances(g, q)[d]
  BY <1>0, Extremes
<1>2. \E c \in S : \A d \in S : distance(g, q, c) <= distance(g, q, d)
  BY <1>1, DistanceIs
<1> QED  BY <1>2 DEF Closest

\* Farthest returns a farthest node.
LEMMA FarthestIs ==
    ASSUME NEW n \in Nat, NEW g \in Graphs(n), NEW q \in Vectors,
           NEW S \in SUBSET (1 .. n), S # {}
    PROVE  /\ Farthest(g, q, S) \in S
           /\ \A d \in S : distance(g, q, Farthest(g, q, S)) >= distance(g, q, d)
<1>0. \A c \in 1 .. n : Distances(g, q)[c] \in Nat
  BY DistanceIs
<1>1. \E c \in S : \A d \in S : Distances(g, q)[c] >= Distances(g, q)[d]
  BY <1>0, Extremes
<1>2. \E c \in S : \A d \in S : distance(g, q, c) >= distance(g, q, d)
  BY <1>1, DistanceIs
<1> QED  BY <1>2 DEF Farthest

-----------------------------------------------------------------------------
(* Sorting by distance                                                     *)

Closer(f, S, c) == {d \in S : f[d] < f[c]}

\* An injective f has an element of every rank.
Ranked(f, S) == \A i \in 1 .. Cardinality(S) : \E c \in S : Cardinality(Closer(f, S, c)) = i - 1

\* The ranks of the members of a set are 0 .. Cardinality - 1, each once.
LEMMA Ranks ==
    ASSUME NEW n \in Nat, NEW f, \A c \in 1 .. n : f[c] \in Nat, NEW S \in SUBSET (1 .. n),
           \A c, d \in S : c # d => f[c] # f[d]
    PROVE  Ranked(f, S)
<1> SUFFICES \A i \in 1 .. Cardinality(S) : \E c \in S : Cardinality(Closer(f, S, c)) = i - 1
  BY DEF Ranked
<1> DEFINE Inj(T) == \A c, d \in T : c # d => f[c] # f[d]
           All(T) == \A i \in 1 .. Cardinality(T) : \E c \in T : Cardinality(Closer(f, T, c)) = i - 1
           Good(m) == \A T \in SUBSET (1 .. n) : Cardinality(T) = m /\ Inj(T) => All(T)
           G == {m \in 0 .. n : Good(m)}
<1>1. 0 \in G
  OBVIOUS
<1>2. ASSUME NEW m \in 1 .. n, m - 1 \in G PROVE m \in G
  <2> SUFFICES ASSUME NEW T \in SUBSET (1 .. n), Cardinality(T) = m, Inj(T),
                      NEW i \in 1 .. Cardinality(T)
               PROVE  \E c \in T : Cardinality(Closer(f, T, c)) = i - 1
    <3>1. Good(m) => m \in G
      OBVIOUS
    <3> HIDE DEF G, Inj
    <3> QED  BY <3>1
  <2>1. T # {} /\ \A x \in T : Cardinality(T \ {x}) = m - 1
    <3>1. (T = {} <=> Cardinality(T) = 0) /\ \A x \in T : Cardinality(T \ {x}) = Cardinality(T) - 1
      BY SmallSets
    <3> HIDE DEF Inj
    <3> QED  BY <3>1
  <2>2. PICK x \in T : \A d \in T : f[x] >= f[d]
    BY <2>1, Extremes
  <2> DEFINE U == T \ {x}
  <2>3. \A d \in T : f[d] \in Nat
    OBVIOUS
  <2>4. \A d \in U : f[d] < f[x]
    BY <2>2, <2>3
  <2>5. Closer(f, T, x) = U
    <3>1. f[x] \in Nat /\ ~(f[x] < f[x])
      BY <2>3
    <3>2. \A d \in T : d \in Closer(f, T, x) <=> d \in U
      BY <2>4, <3>1 DEF Closer
    <3>3. Closer(f, T, x) \subseteq T /\ U \subseteq T
      BY DEF Closer
    <3> HIDE DEF U
    <3> QED  BY <3>2, <3>3
  <2>6. CASE i = m
    BY <2>1, <2>2, <2>5, <2>6
  <2>7. CASE i # m
    <3>1. U \in SUBSET (1 .. n) /\ Cardinality(U) = m - 1 /\ Inj(U) /\ i \in 1 .. m - 1
      BY <2>1, <2>2, <2>7
    <3>2. Good(m - 1)
      BY <1>2
    <3>3. All(U)
      <4> HIDE DEF U, Inj, All
      <4> QED  BY <3>1, <3>2
    <3>4. PICK c \in U : Cardinality(Closer(f, U, c)) = i - 1
      <4> HIDE DEF U
      <4> QED  BY <3>1, <3>3
    <3>5. Closer(f, T, c) = Closer(f, U, c)
      BY <2>3, <2>4 DEF Closer
    <3> QED  BY <3>4, <3>5
  <2> QED  BY <2>6, <2>7
<1>3. \A m \in 0 .. n : m \in G
  <2> HIDE DEF G
  <2> QED  BY <1>1, <1>2, UpTo
<1>4. Cardinality(S) \in 0 .. n
  BY SmallSets
<1>5. Good(Cardinality(S))
  <2> HIDE DEF Good
  <2> QED  BY <1>3, <1>4
<1> QED  BY <1>5

\* A node nearer than another has the lower rank.
LEMMA RankOrder ==
    ASSUME NEW n \in Nat, NEW f, \A x \in 1 .. n : f[x] \in Nat, NEW S \in SUBSET (1 .. n),
           NEW c \in S, NEW d \in S
    PROVE  /\ Cardinality(Closer(f, S, c)) \in 0 .. Cardinality(S) - 1
           /\ f[c] < f[d] <=> Cardinality(Closer(f, S, c)) < Cardinality(Closer(f, S, d))
<1>1. \A x \in S : f[x] \in Nat
  OBVIOUS
<1>2. ASSUME NEW x \in S, NEW y \in S, f[x] <= f[y]
      PROVE  Closer(f, S, x) \in SUBSET Closer(f, S, y) /\ (f[x] < f[y] => x \in Closer(f, S, y) \ Closer(f, S, x))
  <2>1. f[x] \in Nat /\ f[y] \in Nat /\ ~(f[x] < f[x])
    BY <1>1
  <2>2. \A z \in S : f[z] < f[x] => f[z] < f[y]
    BY <1>1, <1>2, <2>1
  <2>3. \A z \in Closer(f, S, x) : z \in Closer(f, S, y)
    BY <2>2 DEF Closer
  <2>4. x \notin Closer(f, S, x) /\ (f[x] < f[y] => x \in Closer(f, S, y))
    BY <2>1 DEF Closer
  <2> QED  BY <2>3, <2>4
<1>3. \A x \in S : Closer(f, S, x) \in SUBSET (1 .. n)
  BY DEF Closer
<1>4. ASSUME NEW x \in S, NEW y \in S, f[x] <= f[y]
      PROVE  /\ Cardinality(Closer(f, S, x)) <= Cardinality(Closer(f, S, y))
             /\ f[x] < f[y] => Cardinality(Closer(f, S, x)) < Cardinality(Closer(f, S, y))
  <2> DEFINE X == Closer(f, S, x)
             Y == Closer(f, S, y)
  <2>1. X \in SUBSET Y /\ (f[x] < f[y] => X # Y) /\ Y \in SUBSET (1 .. n)
    BY <1>2, <1>3, <1>4
  <2> HIDE DEF X, Y
  <2>2. Cardinality(X) \in Nat /\ Cardinality(Y) \in Nat /\ Cardinality(X) <= Cardinality(Y)
        /\ (Cardinality(X) = Cardinality(Y) => X = Y)
    BY <2>1, SmallSets
  <2>3. f[x] < f[y] => Cardinality(X) < Cardinality(Y)
    BY <2>1, <2>2
  <2> QED  BY <2>2, <2>3 DEF X, Y
<1>5. Cardinality(Closer(f, S, c)) \in 0 .. Cardinality(S) - 1
  <2> DEFINE X == Closer(f, S, c)
  <2>1. X \in SUBSET S /\ X # S /\ X \in SUBSET (1 .. n)
    <3>1. ~(f[c] < f[c])
      BY <1>1
    <3>2. c \notin X
      BY <3>1 DEF Closer
    <3>3. X \subseteq S
      BY DEF Closer
    <3> HIDE DEF X
    <3> QED  BY <3>2, <3>3
  <2> HIDE DEF X
  <2>2. Cardinality(X) \in Nat /\ Cardinality(S) \in Nat /\ Cardinality(X) <= Cardinality(S)
        /\ Cardinality(X) # Cardinality(S)
    BY <2>1, SmallSets
  <2>3. Cardinality(X) \in 0 .. Cardinality(S) - 1
    BY <2>2
  <2> QED  BY <2>3 DEF X
<1>6. \A x \in S : Cardinality(Closer(f, S, x)) \in Nat
  BY <1>3, SmallSets
<1>7. CASE f[c] < f[d]
  BY <1>1, <1>4, <1>5, <1>7
<1>8. CASE f[d] <= f[c]
  <2>1. Cardinality(Closer(f, S, d)) <= Cardinality(Closer(f, S, c))
    BY <1>4, <1>8
  <2> QED  BY <1>1, <1>5, <1>6, <1>8, <2>1
<1> QED  BY <1>1, <1>7, <1>8, <1>5

\* s lists the set S, closest to q first.
Sorted(g, q, s) == \A i, j \in DOMAIN s : i < j => distance(g, q, s[i]) < distance(g, q, s[j])

\* ByDistance lists the whole set in ascending order.
LEMMA ByDistanceIs ==
    ASSUME NEW n \in Nat, NEW g \in Graphs(n), VectorsDiffer(g), NEW q \in Vectors,
           NEW S \in SUBSET (1 .. n)
    PROVE  /\ ByDistance(g, q, S) \in Seq(S) /\ Len(ByDistance(g, q, S)) = Cardinality(S)
           /\ ByDistance(g, q, S) \in [1 .. Cardinality(S) -> S] /\ Cardinality(S) \in Nat
           /\ Sorted(g, q, ByDistance(g, q, S))
           /\ ToSet(ByDistance(g, q, S)) = S
<1> DEFINE f == Distances(g, q)
           r(c) == Cardinality(Closer(f, S, c))
           s == ByDistance(g, q, S)
           m == Cardinality(S)
<1>1. \A c \in 1 .. n : f[c] \in Nat /\ f[c] = distance(g, q, c)
  BY DistanceIs
<1>2. \A c, d \in S : c # d => f[c] # f[d]
  BY <1>1, DistancesDiffer
<1>3. m \in Nat
  BY SmallSets
<1> HIDE DEF f
<1>4. \A c \in S : {d \in S : distance(g, q, d) < distance(g, q, c)} = Closer(f, S, c)
  BY <1>1 DEF Closer
<1>5. s = [i \in 1 .. m |-> CHOOSE c \in S : Cardinality({d \in S : distance(g, q, d) < distance(g, q, c)}) = i - 1]
  BY DEF ByDistance
<1> HIDE DEF s, m
<1>6. ASSUME NEW i \in 1 .. m PROVE s[i] \in S /\ r(s[i]) = i - 1
  <2>1. \E c \in S : r(c) = i - 1
    <3>1. \A x \in 1 .. n : f[x] \in Nat
      BY <1>1
    <3>2. Ranked(f, S)
      BY <1>2, <3>1, Ranks
    <3> QED  BY <3>2 DEF m, Ranked
  <2>2. \E c \in S : Cardinality({d \in S : distance(g, q, d) < distance(g, q, c)}) = i - 1
    BY <1>4, <2>1
  <2>3. s[i] = CHOOSE c \in S : Cardinality({d \in S : distance(g, q, d) < distance(g, q, c)}) = i - 1
    BY <1>5
  <2>4. s[i] \in S /\ Cardinality({d \in S : distance(g, q, d) < distance(g, q, s[i])}) = i - 1
    BY <2>2, <2>3
  <2> QED  BY <1>4, <2>4
<1>7. \A c, d \in S : r(c) \in 0 .. m - 1 /\ (f[c] < f[d] <=> r(c) < r(d))
  BY <1>1, RankOrder DEF m
<1> HIDE DEF r
<1>8. s \in [1 .. m -> S] /\ DOMAIN s = 1 .. m
  BY <1>5, <1>6
<1>9. s \in Seq(S) /\ Len(s) = m
  BY <1>3, <1>8
<1>10. Sorted(g, q, s)
  <2> SUFFICES ASSUME NEW i \in 1 .. m, NEW j \in 1 .. m, i < j
               PROVE  distance(g, q, s[i]) < distance(g, q, s[j])
    BY <1>8 DEF Sorted
  <2>1. s[i] \in S /\ s[j] \in S /\ r(s[i]) < r(s[j])
    BY <1>3, <1>6
  <2>2. f[s[i]] < f[s[j]]
    BY <1>7, <2>1
  <2> QED  BY <1>1, <2>1, <2>2
<1>11. ToSet(s) = S
  <2>1. ASSUME NEW c \in S PROVE \E i \in 1 .. m : s[i] = c
    <3>1. r(c) \in 0 .. m - 1
      BY <1>7
    <3>2. PICK i \in 1 .. m : i - 1 = r(c)
      <4> DEFINE j == r(c) + 1
      <4>1. j \in 1 .. m /\ j - 1 = r(c)
        BY <1>3, <3>1
      <4> HIDE DEF j
      <4> QED  BY <4>1
    <3> DEFINE d == s[i]
    <3>3. d \in S /\ r(d) = r(c)
      BY <1>6, <3>2
    <3>4. f[c] \in Nat /\ f[d] \in Nat
      BY <1>1, <3>3
    <3>5. ~(f[c] < f[d]) /\ ~(f[d] < f[c])
      <4>1. (f[c] < f[d] <=> r(c) < r(d)) /\ (f[d] < f[c] <=> r(d) < r(c))
        BY <1>7, <3>3
      <4> QED  BY <3>1, <3>3, <4>1
    <3>6. f[c] = f[d]
      BY <3>4, <3>5
    <3>7. d = c
      BY <1>2, <3>3, <3>6
    <3> QED  BY <3>2, <3>7
  <2> QED  BY <1>6, <1>8, <2>1 DEF ToSet
<1> QED  BY <1>3, <1>8, <1>9, <1>10, <1>11 DEF s, m

-----------------------------------------------------------------------------
(* The loops as runs of their steps                                        *)

\* The elements that Kept appends.
KeepStep(D, n, list, S) ==
    [x \in D \X (1 .. n) |-> (IF list[x[2]] \in S THEN Append(x[1], list[x[2]]) ELSE x[1])]

\* The loop is a run of those steps.
LEMMA KeepRuns ==
    ASSUME NEW n \in Nat, NEW D, NEW list, NEW S,
           DOMAIN list = 1 .. n, <<>> \in D,
           \A a \in D, i \in 1 .. n : (IF list[i] \in S THEN Append(a, list[i]) ELSE a) \in D
    PROVE  Leads(KeepStep(D, n, list, S), <<>>, n, D,
                 Kept(list, S))
<1> DEFINE st(a, i) == (IF list[i] \in S THEN Append(a, list[i]) ELSE a)
           b == <<>>
           F == [x \in D \X (1 .. n) |-> st(x[1], x[2])]
           Rec(c) == c = [s \in SUBSET (1 .. n) |->
                             IF s = {} THEN b ELSE st(c[s \ {Max(s)}], Max(s))]
           c == CHOOSE c : Rec(c)
<1>1. Kept(list, S) = c[1 .. n]
  BY Zenon DEF Kept, FoldLeft, MapThenFoldSet
<1> HIDE DEF c
<1>2. b \in D /\ \A a \in D, i \in 1 .. n : st(a, i) \in D
  BY Zenon
<1>0. KeepStep(D, n, list, S) = F
  BY Zenon DEF KeepStep
<1> HIDE DEF st, b
<1>3. F \in [D \X (1 .. n) -> D] /\ \A a \in D, i \in 1 .. n : F[<<a, i>>] = st(a, i)
  BY <1>2
<1> HIDE DEF F
<1>4. PICK h : FoldsIn(F, b, n, D, h)
  BY <1>2, <1>3, FoldIn
<1>5. Rec(h)
  <2>1. h = [s \in SUBSET (1 .. n) |-> h[s]]
    BY <1>4 DEF FoldsIn
  <2>2. \A s \in SUBSET (1 .. n) : h[s] = IF s = {} THEN b ELSE st(h[s \ {Max(s)}], Max(s))
    BY <1>3, <1>4 DEF FoldsIn
  <2> QED  BY <2>1, <2>2, Zenon
<1>6. Rec(c)
  BY <1>5, Zenon DEF c
<1>7. ASSUME NEW s \in SUBSET (1 .. n), s # {}, c[s \ {Max(s)}] \in D
      PROVE  c[s] = F[<<c[s \ {Max(s)}], Max(s)>>]
  <2>1. c[s] = st(c[s \ {Max(s)}], Max(s))
    BY <1>6, <1>7, Zenon
  <2> QED  BY <1>3, <1>7, <2>1, SetMax
<1>8. c[{}] = b
  <2>1. {} \in SUBSET (1 .. n)
    OBVIOUS
  <2> QED  BY <1>6, <2>1, Zenon
<1>9. Unfolds(F, b, n, D, c)
  BY <1>7, <1>8 DEF Unfolds
<1>10. Leads(F, b, n, D, c[1 .. n])
  BY <1>2, <1>3, <1>9, FoldRuns
<1> QED  BY <1>0, <1>1, <1>10 DEF b

\* The moves of greedy_search_layer.
MoveStep(D, n, g, q, layer) == [x \in D \X (1 .. n) |-> Nearer(g, q, x[1], layer)]

\* The loop is a run of those steps.
LEMMA MoveRuns ==
    ASSUME NEW n \in Nat, NEW D, NEW g, NEW q, NEW layer, NEW start,
           DOMAIN g = 1 .. n, start \in D,
           \A a \in D, i \in 1 .. n : Nearer(g, q, a, layer) \in D
    PROVE  Leads(MoveStep(D, n, g, q, layer), start, n, D,
                 greedy_search_layer(g, q, start, layer))
<1> DEFINE st(a, i) == Nearer(g, q, a, layer)
           b == start
           F == [x \in D \X (1 .. n) |-> st(x[1], x[2])]
           Rec(c) == c = [s \in SUBSET (1 .. n) |->
                             IF s = {} THEN b ELSE st(c[s \ {Max(s)}], Max(s))]
           c == CHOOSE c : Rec(c)
<1>1. greedy_search_layer(g, q, start, layer) = c[1 .. n]
  <2>1. DOMAIN Arena(g) = 1 .. n
    BY DEF Arena
  <2> QED  BY <2>1, Zenon DEF greedy_search_layer, FoldLeft, MapThenFoldSet
<1> HIDE DEF c
<1>2. b \in D /\ \A a \in D, i \in 1 .. n : st(a, i) \in D
  BY Zenon
<1>0. MoveStep(D, n, g, q, layer) = F
  BY Zenon DEF MoveStep
<1> HIDE DEF st, b
<1>3. F \in [D \X (1 .. n) -> D] /\ \A a \in D, i \in 1 .. n : F[<<a, i>>] = st(a, i)
  BY <1>2
<1> HIDE DEF F
<1>4. PICK h : FoldsIn(F, b, n, D, h)
  BY <1>2, <1>3, FoldIn
<1>5. Rec(h)
  <2>1. h = [s \in SUBSET (1 .. n) |-> h[s]]
    BY <1>4 DEF FoldsIn
  <2>2. \A s \in SUBSET (1 .. n) : h[s] = IF s = {} THEN b ELSE st(h[s \ {Max(s)}], Max(s))
    BY <1>3, <1>4 DEF FoldsIn
  <2> QED  BY <2>1, <2>2, Zenon
<1>6. Rec(c)
  BY <1>5, Zenon DEF c
<1>7. ASSUME NEW s \in SUBSET (1 .. n), s # {}, c[s \ {Max(s)}] \in D
      PROVE  c[s] = F[<<c[s \ {Max(s)}], Max(s)>>]
  <2>1. c[s] = st(c[s \ {Max(s)}], Max(s))
    BY <1>6, <1>7, Zenon
  <2> QED  BY <1>3, <1>7, <2>1, SetMax
<1>8. c[{}] = b
  <2>1. {} \in SUBSET (1 .. n)
    OBVIOUS
  <2> QED  BY <1>6, <2>1, Zenon
<1>9. Unfolds(F, b, n, D, c)
  BY <1>7, <1>8 DEF Unfolds
<1>10. Leads(F, b, n, D, c[1 .. n])
  BY <1>2, <1>3, <1>9, FoldRuns
<1> QED  BY <1>0, <1>1, <1>10 DEF b

\* The neighbours that expand visits.
VisitStep(D, n, g, q, ef, list) == [x \in D \X (1 .. n) |-> visit(g, q, ef, x[1], list[x[2]])]

\* The loop is a run of those steps.
LEMMA VisitRuns ==
    ASSUME NEW n \in Nat, NEW D, NEW g, NEW q, NEW ef, NEW list, NEW t,
           DOMAIN list = 1 .. n, t \in D,
           \A a \in D, i \in 1 .. n : visit(g, q, ef, a, list[i]) \in D
    PROVE  Leads(VisitStep(D, n, g, q, ef, list), t, n, D,
                 visit_each(g, q, ef, t, list))
<1> DEFINE st(a, i) == visit(g, q, ef, a, list[i])
           b == t
           F == [x \in D \X (1 .. n) |-> st(x[1], x[2])]
           Rec(c) == c = [s \in SUBSET (1 .. n) |->
                             IF s = {} THEN b ELSE st(c[s \ {Max(s)}], Max(s))]
           c == CHOOSE c : Rec(c)
<1>1. visit_each(g, q, ef, t, list) = c[1 .. n]
  BY Zenon DEF visit_each, FoldLeft, MapThenFoldSet
<1> HIDE DEF c
<1>2. b \in D /\ \A a \in D, i \in 1 .. n : st(a, i) \in D
  BY Zenon
<1>0. VisitStep(D, n, g, q, ef, list) = F
  BY Zenon DEF VisitStep
<1> HIDE DEF st, b
<1>3. F \in [D \X (1 .. n) -> D] /\ \A a \in D, i \in 1 .. n : F[<<a, i>>] = st(a, i)
  BY <1>2
<1> HIDE DEF F
<1>4. PICK h : FoldsIn(F, b, n, D, h)
  BY <1>2, <1>3, FoldIn
<1>5. Rec(h)
  <2>1. h = [s \in SUBSET (1 .. n) |-> h[s]]
    BY <1>4 DEF FoldsIn
  <2>2. \A s \in SUBSET (1 .. n) : h[s] = IF s = {} THEN b ELSE st(h[s \ {Max(s)}], Max(s))
    BY <1>3, <1>4 DEF FoldsIn
  <2> QED  BY <2>1, <2>2, Zenon
<1>6. Rec(c)
  BY <1>5, Zenon DEF c
<1>7. ASSUME NEW s \in SUBSET (1 .. n), s # {}, c[s \ {Max(s)}] \in D
      PROVE  c[s] = F[<<c[s \ {Max(s)}], Max(s)>>]
  <2>1. c[s] = st(c[s \ {Max(s)}], Max(s))
    BY <1>6, <1>7, Zenon
  <2> QED  BY <1>3, <1>7, <2>1, SetMax
<1>8. c[{}] = b
  <2>1. {} \in SUBSET (1 .. n)
    OBVIOUS
  <2> QED  BY <1>6, <2>1, Zenon
<1>9. Unfolds(F, b, n, D, c)
  BY <1>7, <1>8 DEF Unfolds
<1>10. Leads(F, b, n, D, c[1 .. n])
  BY <1>2, <1>3, <1>9, FoldRuns
<1> QED  BY <1>0, <1>1, <1>10 DEF b

\* The expansions of search_layer.
BeamStep(D, n, g, q, layer, ef) == [x \in D \X (1 .. n) |-> expand(g, q, layer, ef, x[1])]

\* The loop is a run of those steps.
LEMMA BeamRuns ==
    ASSUME NEW n \in Nat, NEW D, NEW g, NEW q, NEW start, NEW layer, NEW ef,
           DOMAIN g = 1 .. n, Alone(start) \in D,
           \A a \in D, i \in 1 .. n : expand(g, q, layer, ef, a) \in D
    PROVE  Leads(BeamStep(D, n, g, q, layer, ef), Alone(start), n, D,
                 beam(g, q, start, layer, ef))
<1> DEFINE st(a, i) == expand(g, q, layer, ef, a)
           b == Alone(start)
           F == [x \in D \X (1 .. n) |-> st(x[1], x[2])]
           Rec(c) == c = [s \in SUBSET (1 .. n) |->
                             IF s = {} THEN b ELSE st(c[s \ {Max(s)}], Max(s))]
           c == CHOOSE c : Rec(c)
<1>1. beam(g, q, start, layer, ef) = c[1 .. n]
  <2>1. DOMAIN Arena(g) = 1 .. n
    BY DEF Arena
  <2> QED  BY <2>1, Zenon DEF beam, FoldLeft, MapThenFoldSet
<1> HIDE DEF c
<1>2. b \in D /\ \A a \in D, i \in 1 .. n : st(a, i) \in D
  BY Zenon
<1>0. BeamStep(D, n, g, q, layer, ef) = F
  BY Zenon DEF BeamStep
<1> HIDE DEF st, b
<1>3. F \in [D \X (1 .. n) -> D] /\ \A a \in D, i \in 1 .. n : F[<<a, i>>] = st(a, i)
  BY <1>2
<1> HIDE DEF F
<1>4. PICK h : FoldsIn(F, b, n, D, h)
  BY <1>2, <1>3, FoldIn
<1>5. Rec(h)
  <2>1. h = [s \in SUBSET (1 .. n) |-> h[s]]
    BY <1>4 DEF FoldsIn
  <2>2. \A s \in SUBSET (1 .. n) : h[s] = IF s = {} THEN b ELSE st(h[s \ {Max(s)}], Max(s))
    BY <1>3, <1>4 DEF FoldsIn
  <2> QED  BY <2>1, <2>2, Zenon
<1>6. Rec(c)
  BY <1>5, Zenon DEF c
<1>7. ASSUME NEW s \in SUBSET (1 .. n), s # {}, c[s \ {Max(s)}] \in D
      PROVE  c[s] = F[<<c[s \ {Max(s)}], Max(s)>>]
  <2>1. c[s] = st(c[s \ {Max(s)}], Max(s))
    BY <1>6, <1>7, Zenon
  <2> QED  BY <1>3, <1>7, <2>1, SetMax
<1>8. c[{}] = b
  <2>1. {} \in SUBSET (1 .. n)
    OBVIOUS
  <2> QED  BY <1>6, <2>1, Zenon
<1>9. Unfolds(F, b, n, D, c)
  BY <1>7, <1>8 DEF Unfolds
<1>10. Leads(F, b, n, D, c[1 .. n])
  BY <1>2, <1>3, <1>9, FoldRuns
<1> QED  BY <1>0, <1>1, <1>10 DEF b

\* The candidates that select_neighbors_heuristic goes through.
ChooseStep(D, n, g, q, cands, m) ==
    [x \in D \X (1 .. n) |->
        (IF Len(x[1]) < m /\ Diverse(g, q, x[1], ByDistance(g, q, cands)[x[2]])
         THEN Append(x[1], ByDistance(g, q, cands)[x[2]]) ELSE x[1])]

\* The loop is a run of those steps.
LEMMA ChooseRuns ==
    ASSUME NEW n \in Nat, NEW D, NEW g, NEW q, NEW cands, NEW m,
           DOMAIN ByDistance(g, q, cands) = 1 .. n, <<>> \in D,
           \A a \in D, i \in 1 .. n :
               (IF Len(a) < m /\ Diverse(g, q, a, ByDistance(g, q, cands)[i])
                THEN Append(a, ByDistance(g, q, cands)[i]) ELSE a) \in D
    PROVE  Leads(ChooseStep(D, n, g, q, cands, m), <<>>, n, D,
                 select_neighbors_heuristic(g, q, cands, m))
<1> DEFINE st(a, i) == (IF Len(a) < m /\ Diverse(g, q, a, ByDistance(g, q, cands)[i])
                        THEN Append(a, ByDistance(g, q, cands)[i]) ELSE a)
           b == <<>>
           F == [x \in D \X (1 .. n) |-> st(x[1], x[2])]
           Rec(c) == c = [s \in SUBSET (1 .. n) |->
                             IF s = {} THEN b ELSE st(c[s \ {Max(s)}], Max(s))]
           c == CHOOSE c : Rec(c)
<1>1. select_neighbors_heuristic(g, q, cands, m) = c[1 .. n]
  BY Zenon DEF select_neighbors_heuristic, FoldLeft, MapThenFoldSet
<1> HIDE DEF c
<1>2. b \in D /\ \A a \in D, i \in 1 .. n : st(a, i) \in D
  BY Zenon
<1>0. ChooseStep(D, n, g, q, cands, m) = F
  BY Zenon DEF ChooseStep
<1> HIDE DEF st, b
<1>3. F \in [D \X (1 .. n) -> D] /\ \A a \in D, i \in 1 .. n : F[<<a, i>>] = st(a, i)
  BY <1>2
<1> HIDE DEF F
<1>4. PICK h : FoldsIn(F, b, n, D, h)
  BY <1>2, <1>3, FoldIn
<1>5. Rec(h)
  <2>1. h = [s \in SUBSET (1 .. n) |-> h[s]]
    BY <1>4 DEF FoldsIn
  <2>2. \A s \in SUBSET (1 .. n) : h[s] = IF s = {} THEN b ELSE st(h[s \ {Max(s)}], Max(s))
    BY <1>3, <1>4 DEF FoldsIn
  <2> QED  BY <2>1, <2>2, Zenon
<1>6. Rec(c)
  BY <1>5, Zenon DEF c
<1>7. ASSUME NEW s \in SUBSET (1 .. n), s # {}, c[s \ {Max(s)}] \in D
      PROVE  c[s] = F[<<c[s \ {Max(s)}], Max(s)>>]
  <2>1. c[s] = st(c[s \ {Max(s)}], Max(s))
    BY <1>6, <1>7, Zenon
  <2> QED  BY <1>3, <1>7, <2>1, SetMax
<1>8. c[{}] = b
  <2>1. {} \in SUBSET (1 .. n)
    OBVIOUS
  <2> QED  BY <1>6, <2>1, Zenon
<1>9. Unfolds(F, b, n, D, c)
  BY <1>7, <1>8 DEF Unfolds
<1>10. Leads(F, b, n, D, c[1 .. n])
  BY <1>2, <1>3, <1>9, FoldRuns
<1> QED  BY <1>0, <1>1, <1>10 DEF b

\* The links back of insert, at one layer.
LinkStep(D, n, chosen, id, layer) ==
    [x \in D \X (1 .. n) |-> LinkBack(x[1], chosen[x[2]], id, layer)]

\* The loop is a run of those steps.
LEMMA LinkRuns ==
    ASSUME NEW n \in Nat, NEW D, NEW g, NEW chosen, NEW id, NEW layer,
           DOMAIN chosen = 1 .. n, g \in D,
           \A a \in D, i \in 1 .. n : LinkBack(a, chosen[i], id, layer) \in D
    PROVE  Leads(LinkStep(D, n, chosen, id, layer), g, n, D,
                 LinkEach(g, chosen, id, layer))
<1> DEFINE st(a, i) == LinkBack(a, chosen[i], id, layer)
           b == g
           F == [x \in D \X (1 .. n) |-> st(x[1], x[2])]
           Rec(c) == c = [s \in SUBSET (1 .. n) |->
                             IF s = {} THEN b ELSE st(c[s \ {Max(s)}], Max(s))]
           c == CHOOSE c : Rec(c)
<1>1. LinkEach(g, chosen, id, layer) = c[1 .. n]
  BY Zenon DEF LinkEach, FoldLeft, MapThenFoldSet
<1> HIDE DEF c
<1>2. b \in D /\ \A a \in D, i \in 1 .. n : st(a, i) \in D
  BY Zenon
<1>0. LinkStep(D, n, chosen, id, layer) = F
  BY Zenon DEF LinkStep
<1> HIDE DEF st, b
<1>3. F \in [D \X (1 .. n) -> D] /\ \A a \in D, i \in 1 .. n : F[<<a, i>>] = st(a, i)
  BY <1>2
<1> HIDE DEF F
<1>4. PICK h : FoldsIn(F, b, n, D, h)
  BY <1>2, <1>3, FoldIn
<1>5. Rec(h)
  <2>1. h = [s \in SUBSET (1 .. n) |-> h[s]]
    BY <1>4 DEF FoldsIn
  <2>2. \A s \in SUBSET (1 .. n) : h[s] = IF s = {} THEN b ELSE st(h[s \ {Max(s)}], Max(s))
    BY <1>3, <1>4 DEF FoldsIn
  <2> QED  BY <2>1, <2>2, Zenon
<1>6. Rec(c)
  BY <1>5, Zenon DEF c
<1>7. ASSUME NEW s \in SUBSET (1 .. n), s # {}, c[s \ {Max(s)}] \in D
      PROVE  c[s] = F[<<c[s \ {Max(s)}], Max(s)>>]
  <2>1. c[s] = st(c[s \ {Max(s)}], Max(s))
    BY <1>6, <1>7, Zenon
  <2> QED  BY <1>3, <1>7, <2>1, SetMax
<1>8. c[{}] = b
  <2>1. {} \in SUBSET (1 .. n)
    OBVIOUS
  <2> QED  BY <1>6, <2>1, Zenon
<1>9. Unfolds(F, b, n, D, c)
  BY <1>7, <1>8 DEF Unfolds
<1>10. Leads(F, b, n, D, c[1 .. n])
  BY <1>2, <1>3, <1>9, FoldRuns
<1> QED  BY <1>0, <1>1, <1>10 DEF b

\* The new links of a repaired node.
BothStep(D, n, chosen, id, layer) ==
    [x \in D \X (1 .. n) |-> LinkBoth(x[1], id, chosen[x[2]], layer)]

\* The loop is a run of those steps.
LEMMA BothRuns ==
    ASSUME NEW n \in Nat, NEW D, NEW g, NEW chosen, NEW id, NEW layer,
           DOMAIN chosen = 1 .. n, g \in D,
           \A a \in D, i \in 1 .. n : LinkBoth(a, id, chosen[i], layer) \in D
    PROVE  Leads(BothStep(D, n, chosen, id, layer), g, n, D,
                 LinkBothEach(g, id, chosen, layer))
<1> DEFINE st(a, i) == LinkBoth(a, id, chosen[i], layer)
           b == g
           F == [x \in D \X (1 .. n) |-> st(x[1], x[2])]
           Rec(c) == c = [s \in SUBSET (1 .. n) |->
                             IF s = {} THEN b ELSE st(c[s \ {Max(s)}], Max(s))]
           c == CHOOSE c : Rec(c)
<1>1. LinkBothEach(g, id, chosen, layer) = c[1 .. n]
  BY Zenon DEF LinkBothEach, FoldLeft, MapThenFoldSet
<1> HIDE DEF c
<1>2. b \in D /\ \A a \in D, i \in 1 .. n : st(a, i) \in D
  BY Zenon
<1>0. BothStep(D, n, chosen, id, layer) = F
  BY Zenon DEF BothStep
<1> HIDE DEF st, b
<1>3. F \in [D \X (1 .. n) -> D] /\ \A a \in D, i \in 1 .. n : F[<<a, i>>] = st(a, i)
  BY <1>2
<1> HIDE DEF F
<1>4. PICK h : FoldsIn(F, b, n, D, h)
  BY <1>2, <1>3, FoldIn
<1>5. Rec(h)
  <2>1. h = [s \in SUBSET (1 .. n) |-> h[s]]
    BY <1>4 DEF FoldsIn
  <2>2. \A s \in SUBSET (1 .. n) : h[s] = IF s = {} THEN b ELSE st(h[s \ {Max(s)}], Max(s))
    BY <1>3, <1>4 DEF FoldsIn
  <2> QED  BY <2>1, <2>2, Zenon
<1>6. Rec(c)
  BY <1>5, Zenon DEF c
<1>7. ASSUME NEW s \in SUBSET (1 .. n), s # {}, c[s \ {Max(s)}] \in D
      PROVE  c[s] = F[<<c[s \ {Max(s)}], Max(s)>>]
  <2>1. c[s] = st(c[s \ {Max(s)}], Max(s))
    BY <1>6, <1>7, Zenon
  <2> QED  BY <1>3, <1>7, <2>1, SetMax
<1>8. c[{}] = b
  <2>1. {} \in SUBSET (1 .. n)
    OBVIOUS
  <2> QED  BY <1>6, <2>1, Zenon
<1>9. Unfolds(F, b, n, D, c)
  BY <1>7, <1>8 DEF Unfolds
<1>10. Leads(F, b, n, D, c[1 .. n])
  BY <1>2, <1>3, <1>9, FoldRuns
<1> QED  BY <1>0, <1>1, <1>10 DEF b

\* The neighbours that repair_layer_after_delete goes through.
RepairStep(D, n, g, id, layer) ==
    [x \in D \X (1 .. n) |-> RepairNode(x[1], Kept(g[id].neighbors[layer], LiveIn(g))[x[2]], id, layer)]

\* The loop is a run of those steps.
LEMMA RepairRuns ==
    ASSUME NEW n \in Nat, NEW D, NEW g, NEW id, NEW layer,
           DOMAIN Kept(g[id].neighbors[layer], LiveIn(g)) = 1 .. n, g \in D,
           \A a \in D, i \in 1 .. n : RepairNode(a, Kept(g[id].neighbors[layer], LiveIn(g))[i], id, layer) \in D
    PROVE  Leads(RepairStep(D, n, g, id, layer), g, n, D,
                 repair_layer_after_delete(g, id, layer))
<1> DEFINE st(a, i) == RepairNode(a, Kept(g[id].neighbors[layer], LiveIn(g))[i], id, layer)
           b == g
           F == [x \in D \X (1 .. n) |-> st(x[1], x[2])]
           Rec(c) == c = [s \in SUBSET (1 .. n) |->
                             IF s = {} THEN b ELSE st(c[s \ {Max(s)}], Max(s))]
           c == CHOOSE c : Rec(c)
<1>1. repair_layer_after_delete(g, id, layer) = c[1 .. n]
  BY Zenon DEF repair_layer_after_delete, FoldLeft, MapThenFoldSet
<1> HIDE DEF c
<1>2. b \in D /\ \A a \in D, i \in 1 .. n : st(a, i) \in D
  BY Zenon
<1>0. RepairStep(D, n, g, id, layer) = F
  BY Zenon DEF RepairStep
<1> HIDE DEF st, b
<1>3. F \in [D \X (1 .. n) -> D] /\ \A a \in D, i \in 1 .. n : F[<<a, i>>] = st(a, i)
  BY <1>2
<1> HIDE DEF F
<1>4. PICK h : FoldsIn(F, b, n, D, h)
  BY <1>2, <1>3, FoldIn
<1>5. Rec(h)
  <2>1. h = [s \in SUBSET (1 .. n) |-> h[s]]
    BY <1>4 DEF FoldsIn
  <2>2. \A s \in SUBSET (1 .. n) : h[s] = IF s = {} THEN b ELSE st(h[s \ {Max(s)}], Max(s))
    BY <1>3, <1>4 DEF FoldsIn
  <2> QED  BY <2>1, <2>2, Zenon
<1>6. Rec(c)
  BY <1>5, Zenon DEF c
<1>7. ASSUME NEW s \in SUBSET (1 .. n), s # {}, c[s \ {Max(s)}] \in D
      PROVE  c[s] = F[<<c[s \ {Max(s)}], Max(s)>>]
  <2>1. c[s] = st(c[s \ {Max(s)}], Max(s))
    BY <1>6, <1>7, Zenon
  <2> QED  BY <1>3, <1>7, <2>1, SetMax
<1>8. c[{}] = b
  <2>1. {} \in SUBSET (1 .. n)
    OBVIOUS
  <2> QED  BY <1>6, <2>1, Zenon
<1>9. Unfolds(F, b, n, D, c)
  BY <1>7, <1>8 DEF Unfolds
<1>10. Leads(F, b, n, D, c[1 .. n])
  BY <1>2, <1>3, <1>9, FoldRuns
<1> QED  BY <1>0, <1>1, <1>10 DEF b

\* The layers that delete repairs.
LayerStep(D, n, id, layers) ==
    [x \in D \X (1 .. n) |-> repair_layer_after_delete(x[1], id, layers[x[2]])]

\* The loop is a run of those steps.
LEMMA LayerRuns ==
    ASSUME NEW n \in Nat, NEW D, NEW g, NEW id, NEW layers,
           DOMAIN layers = 1 .. n, g \in D,
           \A a \in D, i \in 1 .. n : repair_layer_after_delete(a, id, layers[i]) \in D
    PROVE  Leads(LayerStep(D, n, id, layers), g, n, D,
                 RepairEach(g, id, layers))
<1> DEFINE st(a, i) == repair_layer_after_delete(a, id, layers[i])
           b == g
           F == [x \in D \X (1 .. n) |-> st(x[1], x[2])]
           Rec(c) == c = [s \in SUBSET (1 .. n) |->
                             IF s = {} THEN b ELSE st(c[s \ {Max(s)}], Max(s))]
           c == CHOOSE c : Rec(c)
<1>1. RepairEach(g, id, layers) = c[1 .. n]
  BY Zenon DEF RepairEach, FoldLeft, MapThenFoldSet
<1> HIDE DEF c
<1>2. b \in D /\ \A a \in D, i \in 1 .. n : st(a, i) \in D
  BY Zenon
<1>0. LayerStep(D, n, id, layers) = F
  BY Zenon DEF LayerStep
<1> HIDE DEF st, b
<1>3. F \in [D \X (1 .. n) -> D] /\ \A a \in D, i \in 1 .. n : F[<<a, i>>] = st(a, i)
  BY <1>2
<1> HIDE DEF F
<1>4. PICK h : FoldsIn(F, b, n, D, h)
  BY <1>2, <1>3, FoldIn
<1>5. Rec(h)
  <2>1. h = [s \in SUBSET (1 .. n) |-> h[s]]
    BY <1>4 DEF FoldsIn
  <2>2. \A s \in SUBSET (1 .. n) : h[s] = IF s = {} THEN b ELSE st(h[s \ {Max(s)}], Max(s))
    BY <1>3, <1>4 DEF FoldsIn
  <2> QED  BY <2>1, <2>2, Zenon
<1>6. Rec(c)
  BY <1>5, Zenon DEF c
<1>7. ASSUME NEW s \in SUBSET (1 .. n), s # {}, c[s \ {Max(s)}] \in D
      PROVE  c[s] = F[<<c[s \ {Max(s)}], Max(s)>>]
  <2>1. c[s] = st(c[s \ {Max(s)}], Max(s))
    BY <1>6, <1>7, Zenon
  <2> QED  BY <1>3, <1>7, <2>1, SetMax
<1>8. c[{}] = b
  <2>1. {} \in SUBSET (1 .. n)
    OBVIOUS
  <2> QED  BY <1>6, <2>1, Zenon
<1>9. Unfolds(F, b, n, D, c)
  BY <1>7, <1>8 DEF Unfolds
<1>10. Leads(F, b, n, D, c[1 .. n])
  BY <1>2, <1>3, <1>9, FoldRuns
<1> QED  BY <1>0, <1>1, <1>10 DEF b

\* The steps of ReachableFrom.
GrowStep(D, n, layer) == [x \in D \X (1 .. n) |-> (x[1] \cup Successors(x[1], layer))]

\* The loop is a run of those steps.
LEMMA GrowRuns ==
    ASSUME NEW n \in Nat, NEW D, NEW start, NEW layer,
           DOMAIN nodes = 1 .. n, {start} \in D,
           \A a \in D, i \in 1 .. n : (a \cup Successors(a, layer)) \in D
    PROVE  Leads(GrowStep(D, n, layer), {start}, n, D,
                 ReachableFrom(start, layer))
<1> DEFINE st(a, i) == (a \cup Successors(a, layer))
           b == {start}
           F == [x \in D \X (1 .. n) |-> st(x[1], x[2])]
           Rec(c) == c = [s \in SUBSET (1 .. n) |->
                             IF s = {} THEN b ELSE st(c[s \ {Max(s)}], Max(s))]
           c == CHOOSE c : Rec(c)
<1>1. ReachableFrom(start, layer) = c[1 .. n]
  <2>1. DOMAIN Arena(nodes) = 1 .. n
    BY DEF Arena
  <2> QED  BY <2>1, Zenon DEF ReachableFrom, FoldLeft, MapThenFoldSet
<1> HIDE DEF c
<1>2. b \in D /\ \A a \in D, i \in 1 .. n : st(a, i) \in D
  BY Zenon
<1>0. GrowStep(D, n, layer) = F
  BY Zenon DEF GrowStep
<1> HIDE DEF st, b
<1>3. F \in [D \X (1 .. n) -> D] /\ \A a \in D, i \in 1 .. n : F[<<a, i>>] = st(a, i)
  BY <1>2
<1> HIDE DEF F
<1>4. PICK h : FoldsIn(F, b, n, D, h)
  BY <1>2, <1>3, FoldIn
<1>5. Rec(h)
  <2>1. h = [s \in SUBSET (1 .. n) |-> h[s]]
    BY <1>4 DEF FoldsIn
  <2>2. \A s \in SUBSET (1 .. n) : h[s] = IF s = {} THEN b ELSE st(h[s \ {Max(s)}], Max(s))
    BY <1>3, <1>4 DEF FoldsIn
  <2> QED  BY <2>1, <2>2, Zenon
<1>6. Rec(c)
  BY <1>5, Zenon DEF c
<1>7. ASSUME NEW s \in SUBSET (1 .. n), s # {}, c[s \ {Max(s)}] \in D
      PROVE  c[s] = F[<<c[s \ {Max(s)}], Max(s)>>]
  <2>1. c[s] = st(c[s \ {Max(s)}], Max(s))
    BY <1>6, <1>7, Zenon
  <2> QED  BY <1>3, <1>7, <2>1, SetMax
<1>8. c[{}] = b
  <2>1. {} \in SUBSET (1 .. n)
    OBVIOUS
  <2> QED  BY <1>6, <2>1, Zenon
<1>9. Unfolds(F, b, n, D, c)
  BY <1>7, <1>8 DEF Unfolds
<1>10. Leads(F, b, n, D, c[1 .. n])
  BY <1>2, <1>3, <1>9, FoldRuns
<1> QED  BY <1>0, <1>1, <1>10 DEF b

\* The over-queries of nearest_filtered.
WidenStep(D, n, q, k, pass) ==
    [x \in D \X (1 .. n) |-> (IF x[1].done THEN x[1] ELSE Attempt(q, k, pass, 2 * x[1].factor))]

\* The loop is a run of those steps.
LEMMA WidenRuns ==
    ASSUME NEW n \in Nat, NEW D, NEW q, NEW k, NEW pass, NEW first,
           DOMAIN nodes = 1 .. n, first \in D,
           \A a \in D, i \in 1 .. n : (IF a.done THEN a ELSE Attempt(q, k, pass, 2 * a.factor)) \in D
    PROVE  Leads(WidenStep(D, n, q, k, pass), first, n, D,
                 Widened(q, k, pass, first))
<1> DEFINE st(a, i) == (IF a.done THEN a ELSE Attempt(q, k, pass, 2 * a.factor))
           b == first
           F == [x \in D \X (1 .. n) |-> st(x[1], x[2])]
           Rec(c) == c = [s \in SUBSET (1 .. n) |->
                             IF s = {} THEN b ELSE st(c[s \ {Max(s)}], Max(s))]
           c == CHOOSE c : Rec(c)
<1>1. Widened(q, k, pass, first) = c[1 .. n]
  <2>1. DOMAIN Arena(nodes) = 1 .. n
    BY DEF Arena
  <2> QED  BY <2>1, Zenon DEF Widened, FoldLeft, MapThenFoldSet
<1> HIDE DEF c
<1>2. b \in D /\ \A a \in D, i \in 1 .. n : st(a, i) \in D
  BY Zenon
<1>0. WidenStep(D, n, q, k, pass) = F
  BY Zenon DEF WidenStep
<1> HIDE DEF st, b
<1>3. F \in [D \X (1 .. n) -> D] /\ \A a \in D, i \in 1 .. n : F[<<a, i>>] = st(a, i)
  BY <1>2
<1> HIDE DEF F
<1>4. PICK h : FoldsIn(F, b, n, D, h)
  BY <1>2, <1>3, FoldIn
<1>5. Rec(h)
  <2>1. h = [s \in SUBSET (1 .. n) |-> h[s]]
    BY <1>4 DEF FoldsIn
  <2>2. \A s \in SUBSET (1 .. n) : h[s] = IF s = {} THEN b ELSE st(h[s \ {Max(s)}], Max(s))
    BY <1>3, <1>4 DEF FoldsIn
  <2> QED  BY <2>1, <2>2, Zenon
<1>6. Rec(c)
  BY <1>5, Zenon DEF c
<1>7. ASSUME NEW s \in SUBSET (1 .. n), s # {}, c[s \ {Max(s)}] \in D
      PROVE  c[s] = F[<<c[s \ {Max(s)}], Max(s)>>]
  <2>1. c[s] = st(c[s \ {Max(s)}], Max(s))
    BY <1>6, <1>7, Zenon
  <2> QED  BY <1>3, <1>7, <2>1, SetMax
<1>8. c[{}] = b
  <2>1. {} \in SUBSET (1 .. n)
    OBVIOUS
  <2> QED  BY <1>6, <2>1, Zenon
<1>9. Unfolds(F, b, n, D, c)
  BY <1>7, <1>8 DEF Unfolds
<1>10. Leads(F, b, n, D, c[1 .. n])
  BY <1>2, <1>3, <1>9, FoldRuns
<1> QED  BY <1>0, <1>1, <1>10 DEF b

\* A run that stays in D ends in D.
LEMMA LeadsIn ==
    ASSUME NEW n \in Nat, NEW D, NEW base, NEW F, NEW r, Leads(F, base, n, D, r)
    PROVE  r \in D
<1>1. PICK k : Run(F, base, n, D, k) /\ k[n] = r
  BY DEF Leads
<1> QED  BY <1>1 DEF Run

-----------------------------------------------------------------------------
(* The part of a list that is in a set                                     *)

\* The elements of kept are those of list up to i that are in S, in order.
KeptTo(list, S, i, kept) ==
    /\ Len(kept) <= i /\ kept \in Seq(S)
    /\ \A j \in 1 .. i : list[j] \in S => \E a \in DOMAIN kept : kept[a] = list[j]
    /\ \A a \in DOMAIN kept : \E j \in 1 .. i : kept[a] = list[j]
    /\ \A a, b \in DOMAIN kept : a < b =>
          \E j, l \in 1 .. i : j < l /\ kept[a] = list[j] /\ kept[b] = list[l]
    /\ (\A j \in 1 .. i : list[j] \in S) => Len(kept) = i

\* Kept returns what of the list is in S, in its order.
LEMMA KeptIs ==
    ASSUME NEW T, NEW list \in Seq(T), NEW S
    PROVE  Kept(list, S) \in Seq(T) /\ KeptTo(list, S, Len(list), Kept(list, S))
<1> DEFINE n == Len(list)
           D == Seq(T)
           F == KeepStep(D, n, list, S)
<1>1. n \in Nat /\ DOMAIN list = 1 .. n /\ <<>> \in D /\ \A i \in 1 .. n : list[i] \in T
  OBVIOUS
<1> HIDE DEF n
<1>2. ASSUME NEW a \in D, NEW i \in 1 .. n
      PROVE  (IF list[i] \in S THEN Append(a, list[i]) ELSE a) \in D
  BY <1>1
<1>3. Leads(F, <<>>, n, D, Kept(list, S))
  <2> HIDE DEF D
  <2> QED  BY <1>1, <1>2, KeepRuns
<1>4. PICK k : Run(F, <<>>, n, D, k) /\ k[n] = Kept(list, S)
  BY <1>3 DEF Leads
<1>5. \A i \in 1 .. n : /\ k[i - 1] \in D /\ k[i] \in D
                        /\ k[i] = IF list[i] \in S THEN Append(k[i - 1], list[i]) ELSE k[i - 1]
  <2>1. \A i \in 1 .. n : i - 1 \in 0 .. n /\ i \in 0 .. n
    BY <1>1
  <2> HIDE DEF D
  <2> QED  BY <1>4, <2>1 DEF Run, KeepStep
<1> DEFINE I == {i \in 0 .. n : KeptTo(list, S, i, k[i])}
<1>6. 0 \in I
  BY <1>1, <1>4 DEF Run, KeptTo
<1>7. ASSUME NEW i \in 1 .. n, i - 1 \in I PROVE i \in I
  <2> DEFINE a == k[i - 1]
             z == k[i]
  <2>1. a \in Seq(T) /\ KeptTo(list, S, i - 1, a) /\ i - 1 \in Nat /\ i \in 0 .. n
    BY <1>5, <1>7
  <2>2. z = IF list[i] \in S THEN Append(a, list[i]) ELSE a
    BY <1>5
  <2> HIDE DEF a, z
  <2>3. \A j \in 1 .. i : j = i \/ j \in 1 .. i - 1
    OBVIOUS
  <2>4. CASE list[i] \notin S
    <3>1. z = a
      BY <2>2, <2>4
    <3>2. KeptTo(list, S, i, a)
      <4>1. \A j \in 1 .. i - 1 : j \in 1 .. i
        OBVIOUS
      <4>2. Len(a) <= i /\ a \in Seq(S)
        BY <2>1 DEF KeptTo
      <4>3. ~(\A j \in 1 .. i : list[j] \in S)
        BY <2>4
      <4>4. \A j \in 1 .. i : list[j] \in S => \E d \in DOMAIN a : a[d] = list[j]
        BY <2>1, <2>3, <2>4 DEF KeptTo
      <4>5. \A d \in DOMAIN a : \E j \in 1 .. i : a[d] = list[j]
        BY <2>1, <4>1 DEF KeptTo
      <4>6. \A d, b \in DOMAIN a : d < b => \E j, l \in 1 .. i : j < l /\ a[d] = list[j] /\ a[b] = list[l]
        BY <2>1, <4>1 DEF KeptTo
      <4> QED  BY <4>2, <4>3, <4>4, <4>5, <4>6 DEF KeptTo
    <3> QED  BY <2>1, <3>1, <3>2 DEF z
  <2>5. CASE list[i] \in S
    <3>1. /\ z = Append(a, list[i]) /\ a \in Seq(S) /\ z \in Seq(S) /\ Len(a) \in Nat
          /\ Len(z) = Len(a) + 1 /\ z[Len(z)] = list[i]
          /\ \A d \in 1 .. Len(a) : z[d] = a[d]
      BY <2>1, <2>2, <2>5 DEF KeptTo
    <3>2. DOMAIN a = 1 .. Len(a) /\ DOMAIN z = 1 .. Len(z)
      BY <3>1
    <3>3. \A d \in DOMAIN z : d = Len(z) \/ d \in DOMAIN a
      BY <3>1, <3>2
    <3>4. Len(z) <= i /\ ((\A j \in 1 .. i : list[j] \in S) => Len(z) = i)
      <4>1. \A j \in 1 .. i - 1 : j \in 1 .. i
        OBVIOUS
      <4>2. Len(a) <= i - 1 /\ ((\A j \in 1 .. i - 1 : list[j] \in S) => Len(a) = i - 1)
        BY <2>1 DEF KeptTo
      <4> QED  BY <3>1, <4>1, <4>2
    <3>5. ASSUME NEW j \in 1 .. i, list[j] \in S PROVE \E d \in DOMAIN z : z[d] = list[j]
      <4>1. CASE j = i
        <5>1. Len(z) \in DOMAIN z
          BY <3>1, <3>2
        <5> QED  BY <3>1, <4>1, <5>1
      <4>2. CASE j \in 1 .. i - 1
        <5>1. PICK d \in DOMAIN a : a[d] = list[j]
          BY <2>1, <3>5, <4>2 DEF KeptTo
        <5>2. d \in DOMAIN z /\ z[d] = a[d]
          BY <3>1, <3>2
        <5> QED  BY <5>1, <5>2
      <4> QED  BY <2>3, <4>1, <4>2
    <3>6. ASSUME NEW d \in DOMAIN z PROVE \E j \in 1 .. i : z[d] = list[j]
      <4>1. CASE d = Len(z)
        BY <3>1, <4>1
      <4>2. CASE d \in DOMAIN a
        <5>1. PICK j \in 1 .. i - 1 : a[d] = list[j]
          BY <2>1, <4>2 DEF KeptTo
        <5>2. j \in 1 .. i /\ z[d] = a[d]
          BY <3>1, <3>2, <4>2
        <5> QED  BY <5>1, <5>2
      <4> QED  BY <3>3, <4>1, <4>2
    <3>7. ASSUME NEW d \in DOMAIN z, NEW b \in DOMAIN z, d < b
          PROVE  \E j, l \in 1 .. i : j < l /\ z[d] = list[j] /\ z[b] = list[l]
      <4>1. d \in DOMAIN a /\ z[d] = a[d]
        BY <3>1, <3>2, <3>3, <3>7
      <4>2. CASE b = Len(z)
        <5>1. PICK j \in 1 .. i - 1 : a[d] = list[j]
          BY <2>1, <4>1 DEF KeptTo
        <5>2. j \in 1 .. i /\ i \in 1 .. i /\ j < i
          OBVIOUS
        <5> QED  BY <3>1, <4>1, <4>2, <5>1, <5>2
      <4>3. CASE b \in DOMAIN a
        <5>1. PICK j \in 1 .. i - 1, l \in 1 .. i - 1 : j < l /\ a[d] = list[j] /\ a[b] = list[l]
          BY <2>1, <3>7, <4>1, <4>3 DEF KeptTo
        <5>2. j \in 1 .. i /\ l \in 1 .. i /\ z[b] = a[b]
          BY <3>1, <3>2, <4>3
        <5> QED  BY <4>1, <5>1, <5>2
      <4> QED  BY <3>3, <4>2, <4>3
    <3>8. KeptTo(list, S, i, z)
      BY <3>1, <3>4, <3>5, <3>6, <3>7 DEF KeptTo
    <3> QED  BY <2>1, <3>8 DEF z
  <2> QED  BY <2>4, <2>5
<1>8. n \in I
  <2> HIDE DEF I
  <2>1. \A i \in 0 .. n : i \in I
    BY <1>1, <1>6, <1>7, UpTo
  <2> QED  BY <1>1, <2>1
<1>9. Kept(list, S) \in D
  BY <1>1, <1>3, LeadsIn
<1> QED  BY <1>4, <1>8, <1>9 DEF n

\* What most users of Kept need.
LEMMA KeptSome ==
    ASSUME NEW T, NEW list \in Seq(T), NEW S
    PROVE  /\ Kept(list, S) \in Seq(T) /\ Len(Kept(list, S)) <= Len(list)
           /\ ToSet(Kept(list, S)) = ToSet(list) \cap S
           /\ DOMAIN Kept(list, S) = 1 .. Len(Kept(list, S))
<1> DEFINE z == Kept(list, S)
           n == Len(list)
<1>1. z \in Seq(T) /\ KeptTo(list, S, n, z)
  BY KeptIs
<1> HIDE DEF z
<1>2. DOMAIN list = 1 .. n /\ Len(z) <= n /\ z \in Seq(S)
  BY <1>1 DEF KeptTo
<1>3. \A x \in ToSet(z) : x \in ToSet(list) /\ x \in S
  BY <1>1, <1>2 DEF KeptTo, ToSet
<1>4. \A x \in ToSet(list) : x \in S => x \in ToSet(z)
  BY <1>1, <1>2 DEF KeptTo, ToSet
<1>5. DOMAIN z = 1 .. Len(z)
  BY <1>1
<1> QED  BY <1>1, <1>2, <1>3, <1>4, <1>5 DEF z

-----------------------------------------------------------------------------
(* Searches stay among nodes that are linked to each other only            *)

\* The nodes of W have the layer, and their neighbours there are in W.
Closed(g, layer, W) == \A i \in W : /\ layer \in DOMAIN g[i].neighbors
                                    /\ ToSet(g[i].neighbors[layer]) \subseteq W

\* The neighbour lists of nodes of a closed set.
LEMMA NeighboursIn ==
    ASSUME NEW n \in Nat, NEW g \in Graphs(n), NEW layer, NEW W \in SUBSET (1 .. n),
           Closed(g, layer, W), NEW i \in W
    PROVE  LET list == g[i].neighbors[layer]
           IN  /\ list \in Seq(1 .. n) /\ list \in Seq(W) /\ DOMAIN list = 1 .. Len(list)
               /\ Len(list) \in Nat /\ ToSet(list) \in SUBSET W
<1> DEFINE list == g[i].neighbors[layer]
<1>1. list \in Seq(1 .. n)
  <2>1. layer \in DOMAIN g[i].neighbors
    BY DEF Closed
  <2>2. DOMAIN g[i].neighbors = 0 .. Level(g[i])
        /\ g[i].neighbors \in [0 .. Level(g[i]) -> Seq(1 .. n)]
    BY GraphIs
  <2> QED  BY <2>1, <2>2
<1>2. ToSet(list) \in SUBSET W
  BY DEF Closed
<1> HIDE DEF list
<1>3. DOMAIN list = 1 .. Len(list) /\ Len(list) \in Nat
  BY <1>1
<1>4. \A j \in 1 .. Len(list) : list[j] \in W
  BY <1>2, <1>3 DEF ToSet
<1>5. list \in Seq(W)
  BY <1>1, <1>3, <1>4
<1> QED  BY <1>1, <1>2, <1>3, <1>5 DEF list

\* greedy_search_layer stays in a closed set.
LEMMA GreedyIn ==
    ASSUME NEW n \in Nat, NEW g \in Graphs(n), NEW q \in Vectors, NEW layer,
           NEW W \in SUBSET (1 .. n), Closed(g, layer, W), NEW start \in W
    PROVE  greedy_search_layer(g, q, start, layer) \in W
<1>1. ASSUME NEW c \in W PROVE Nearer(g, q, c, layer) \in W
  <2>1. {c} \cup ToSet(g[c].neighbors[layer]) \in SUBSET W
    BY DEF Closed
  <2> DEFINE S == {c} \cup ToSet(g[c].neighbors[layer])
  <2>2. S \in SUBSET (1 .. n) /\ S # {} /\ S \in SUBSET W
    BY <2>1
  <2> HIDE DEF S
  <2>3. Closest(g, q, S) \in S
    BY <2>2, ClosestIs
  <2> QED  BY <2>2, <2>3 DEF Nearer, S
<1>2. DOMAIN g = 1 .. n
  BY GraphIs
<1>3. Leads(MoveStep(W, n, g, q, layer), start, n, W, greedy_search_layer(g, q, start, layer))
  BY <1>1, <1>2, MoveRuns
<1> QED  BY <1>3, LeadsIn

\* The states of a search among W.
States(W) == {s \in [visited : SUBSET W, candidates : SUBSET W, results : SUBSET W] :
                 s.results # {}}

\* visit stays in a closed set and keeps a result.
LEMMA VisitIn ==
    ASSUME NEW n \in Nat, NEW g \in Graphs(n), NEW q \in Vectors,
           NEW W \in SUBSET (1 .. n), NEW ef \in Nat \ {0}, NEW s \in States(W), NEW x \in W
    PROVE  visit(g, q, ef, s, x) \in States(W)
<1> DEFINE wider == s.results \cup {x}
           kept == IF Cardinality(wider) > ef THEN wider \ {Farthest(g, q, wider)} ELSE wider
<1>1. wider \in SUBSET W /\ wider # {} /\ wider \in SUBSET (1 .. n)
  BY DEF States
<1> HIDE DEF wider
<1>2. kept \in SUBSET W /\ kept # {}
  <2>1. CASE Cardinality(wider) > ef
    <3>1. Farthest(g, q, wider) \in wider
      BY <1>1, FarthestIs
    <3>2. Cardinality(wider \ {Farthest(g, q, wider)}) = Cardinality(wider) - 1 /\ Cardinality(wider) \in Nat
      BY <1>1, <3>1, SmallSets
    <3>3. Cardinality(wider \ {Farthest(g, q, wider)}) # 0
      BY <2>1, <3>2
    <3>4. {} \in SUBSET (1 .. n)
      OBVIOUS
    <3>5. Cardinality({}) = 0
      BY <3>4, SmallSets
    <3>6. wider \ {Farthest(g, q, wider)} # {}
      BY <3>3, <3>5
    <3> QED  BY <1>1, <2>1, <3>6
  <2> QED  BY <1>1, <2>1
<1> HIDE DEF kept
<1>3. s = [visited |-> s.visited, candidates |-> s.candidates, results |-> s.results]
      /\ s.visited \in SUBSET W /\ s.candidates \in SUBSET W /\ s.results \in SUBSET W /\ s.results # {}
  BY DEF States
<1>4. \/ visit(g, q, ef, s, x) = s
      \/ visit(g, q, ef, s, x) = [visited |-> s.visited \cup {x}, candidates |-> s.candidates \cup {x},
                                  results |-> kept]
      \/ visit(g, q, ef, s, x) = [s EXCEPT !.visited = @ \cup {x}]
  BY DEF visit, kept, wider
<1>5. [visited |-> s.visited \cup {x}, candidates |-> s.candidates \cup {x}, results |-> kept] \in States(W)
  BY <1>2, <1>3 DEF States
<1>6. [s EXCEPT !.visited = @ \cup {x}] \in States(W)
  BY <1>3 DEF States
<1> QED  BY <1>4, <1>5, <1>6

\* expand stays in a closed set and keeps a result.
LEMMA ExpandIn ==
    ASSUME NEW n \in Nat, NEW g \in Graphs(n), NEW q \in Vectors, NEW layer,
           NEW W \in SUBSET (1 .. n), Closed(g, layer, W), NEW ef \in Nat \ {0}, NEW s \in States(W)
    PROVE  expand(g, q, layer, ef, s) \in States(W)
<1> DEFINE c == Closest(g, q, s.candidates)
           t == [s EXCEPT !.candidates = @ \ {c}]
           list == g[c].neighbors[layer]
<1>1. CASE s.candidates = {} \/ distance(g, q, c) > distance(g, q, Farthest(g, q, s.results))
  BY <1>1 DEF expand
<1>2. CASE ~(s.candidates = {} \/ distance(g, q, c) > distance(g, q, Farthest(g, q, s.results)))
  <2>1. s.candidates \in SUBSET W /\ s.candidates # {} /\ s.candidates \in SUBSET (1 .. n)
    BY <1>2 DEF States
  <2>2. c \in W
    BY <2>1, ClosestIs
  <2>3. expand(g, q, layer, ef, s) = visit_each(g, q, ef, t, list)
    BY <1>2 DEF expand
  <2>4. t \in States(W)
    BY DEF States
  <2> HIDE DEF c
  <2>5. list \in Seq(W) /\ DOMAIN list = 1 .. Len(list) /\ Len(list) \in Nat
    BY <2>2, NeighboursIn
  <2> HIDE DEF t, list
  <2>6. \A i \in 1 .. Len(list) : list[i] \in W
    BY <2>5
  <2>7. \A a \in States(W), i \in 1 .. Len(list) : visit(g, q, ef, a, list[i]) \in States(W)
    BY <2>6, VisitIn
  <2>8. Leads(VisitStep(States(W), Len(list), g, q, ef, list), t, Len(list), States(W),
              visit_each(g, q, ef, t, list))
    BY <2>4, <2>5, <2>7, VisitRuns
  <2> QED  BY <2>3, <2>5, <2>8, LeadsIn
<1> QED  BY <1>1, <1>2

\* search_layer returns nodes of the closed set it started in, at least one.
LEMMA SearchIn ==
    ASSUME NEW n \in Nat, NEW g \in Graphs(n), NEW q \in Vectors, NEW layer,
           NEW W \in SUBSET (1 .. n), Closed(g, layer, W), NEW ef \in Nat \ {0}, NEW start \in W
    PROVE  /\ search_layer(g, q, start, layer, ef) \in SUBSET W
           /\ search_layer(g, q, start, layer, ef) # {}
<1>1. Alone(start) \in States(W) /\ DOMAIN g = 1 .. n
  BY GraphIs DEF States, Alone
<1>2. \A a \in States(W), i \in 1 .. n : expand(g, q, layer, ef, a) \in States(W)
  BY ExpandIn
<1>3. Leads(BeamStep(States(W), n, g, q, layer, ef), Alone(start), n, States(W),
            beam(g, q, start, layer, ef))
  BY <1>1, <1>2, BeamRuns
<1>4. beam(g, q, start, layer, ef) \in States(W)
  BY <1>3, LeadsIn
<1> QED  BY <1>4 DEF search_layer, States

\* The heuristic chooses at most m of the candidates.
LEMMA SelectIs ==
    ASSUME NEW n \in Nat, NEW g \in Graphs(n), VectorsDiffer(g), NEW q \in Vectors,
           NEW S \in SUBSET (1 .. n), NEW m \in Nat
    PROVE  LET s == select_neighbors_heuristic(g, q, S, m)
           IN  s \in Seq(S) /\ Len(s) \in Nat /\ Len(s) <= m /\ DOMAIN s = 1 .. Len(s)
<1> DEFINE D == {s \in Seq(S) : Len(s) <= m}
           list == ByDistance(g, q, S)
           l == Len(list)
<1>1. list \in Seq(S) /\ DOMAIN list = 1 .. l /\ l \in Nat /\ \A i \in 1 .. l : list[i] \in S
  <2>1. list \in Seq(S)
    BY ByDistanceIs
  <2> HIDE DEF list
  <2> QED  BY <2>1
<1> HIDE DEF l
<1>2. ASSUME NEW a \in D, NEW i \in 1 .. l
      PROVE  (IF Len(a) < m /\ Diverse(g, q, a, list[i]) THEN Append(a, list[i]) ELSE a) \in D
  <2> HIDE DEF list
  <2> QED  BY <1>1
<1>3. <<>> \in D
  OBVIOUS
<1>4. Leads(ChooseStep(D, l, g, q, S, m), <<>>, l, D, select_neighbors_heuristic(g, q, S, m))
  <2> HIDE DEF D
  <2> QED  BY <1>1, <1>2, <1>3, ChooseRuns
<1> DEFINE s == select_neighbors_heuristic(g, q, S, m)
<1>5. s \in D
  <2> HIDE DEF D
  <2> QED  BY <1>1, <1>4, LeadsIn
<1> HIDE DEF s
<1>6. s \in Seq(S) /\ Len(s) \in Nat /\ Len(s) <= m /\ DOMAIN s = 1 .. Len(s)
  BY <1>5
<1> QED  BY <1>6 DEF s

-----------------------------------------------------------------------------
(* Changing neighbour lists                                                *)

\* h is g with other neighbours.
Same(g, h) == /\ DOMAIN h = DOMAIN g
              /\ \A i \in DOMAIN g : /\ h[i].vector = g[i].vector /\ h[i].deleted = g[i].deleted
                                     /\ DOMAIN h[i].neighbors = DOMAIN g[i].neighbors

\* An edge at a layer joins two different nodes that have it.
Linked(h) == \A i \in DOMAIN h : \A l \in DOMAIN h[i].neighbors :
                 \A x \in ToSet(h[i].neighbors[l]) :
                     x \in DOMAIN h /\ x # i /\ l \in DOMAIN h[x].neighbors

\* No list but those of X is over the limit of its layer.
Fits(h, X) == \A i \in DOMAIN h : \A l \in DOMAIN h[i].neighbors :
                  <<i, l>> \notin X => Len(h[i].neighbors[l]) <= DegreeLimit(l)

\* Below layer lo no list has id.
Unknown(h, id, lo) == \A i \in DOMAIN h : \A l \in DOMAIN h[i].neighbors :
                          l < lo => id \notin ToSet(h[i].neighbors[l])

\* What the graph may be while it is changed: g with other neighbours.
Fine(g, n, X, id, lo) ==
    {h \in Graphs(n) : Same(g, h) /\ Linked(h) /\ Fits(h, X) /\ Unknown(h, id, lo)}

\* What a graph being changed keeps of the one before.
LEMMA FineIs ==
    ASSUME NEW n \in Nat, NEW g \in Graphs(n), NEW X, NEW id, NEW lo,
           NEW h \in Fine(g, n, X, id, lo)
    PROVE  /\ h \in Graphs(n) /\ DOMAIN h = 1 .. n
           /\ \A l : At(h, l) = At(g, l) /\ At(h, l) \in SUBSET (1 .. n)
           /\ LiveIn(h) = LiveIn(g) /\ LiveIn(h) \in SUBSET (1 .. n)
           /\ \A i \in 1 .. n : h[i].vector = g[i].vector /\ h[i].deleted = g[i].deleted
           /\ VectorsDiffer(g) => VectorsDiffer(h)
<1>1. h \in Graphs(n) /\ Same(g, h)
  BY DEF Fine
<1>2. DOMAIN h = 1 .. n /\ DOMAIN g = 1 .. n
  BY <1>1, GraphIs
<1>3. ASSUME NEW l PROVE At(h, l) = At(g, l) /\ At(h, l) \in SUBSET (1 .. n)
  BY <1>1, <1>2 DEF At, Same
<1>4. LiveIn(h) = LiveIn(g) /\ LiveIn(h) \in SUBSET (1 .. n)
  BY <1>1, <1>2 DEF LiveIn, Same
<1>5. VectorsDiffer(g) => VectorsDiffer(h)
  BY <1>1, <1>2 DEF VectorsDiffer, Same
<1> QED  BY <1>1, <1>2, <1>3, <1>4, <1>5 DEF Same

\* Replacing one neighbour list.
LEMMA SetList ==
    ASSUME NEW n \in Nat, NEW g \in Graphs(n), NEW X, NEW id, NEW lo \in Int,
           NEW h \in Fine(g, n, X, id, lo), NEW l, l >= lo, NEW i \in At(h, l),
           NEW list \in Seq(At(h, l) \ {i})
    PROVE  LET z == [h EXCEPT ![i].neighbors[l] = list]
           IN  /\ z \in Fine(g, n, X \cup {<<i, l>>}, id, lo)
               /\ Len(list) <= DegreeLimit(l) => z \in Fine(g, n, X \ {<<i, l>>}, id, lo)
               /\ z[i].neighbors[l] = list
<1> DEFINE z == [h EXCEPT ![i].neighbors[l] = list]
<1>1. h \in Graphs(n) /\ Same(g, h) /\ Linked(h) /\ Fits(h, X) /\ Unknown(h, id, lo)
  BY DEF Fine
<1>2. DOMAIN h = 1 .. n /\ i \in 1 .. n /\ l \in DOMAIN h[i].neighbors
  BY <1>1, GraphIs DEF At
<1> DEFINE L == Level(h[i])
<1>3. /\ L \in Nat /\ DOMAIN h[i].neighbors = 0 .. L /\ l \in 0 .. L
      /\ h[i].neighbors \in [0 .. L -> Seq(1 .. n)] /\ h[i] \in Recs(n)
  BY <1>1, <1>2, GraphIs
<1> HIDE DEF L
<1>4. list \in Seq(1 .. n)
  <2>1. At(h, l) \ {i} \in SUBSET (1 .. n)
    BY <1>2 DEF At
  <2> QED  BY <2>1
<1> DEFINE lists == [h[i].neighbors EXCEPT ![l] = list]
<1>5. lists \in [0 .. L -> Seq(1 .. n)] /\ lists[l] = list
      /\ \A m \in 0 .. L : m # l => lists[m] = h[i].neighbors[m]
  BY <1>3, <1>4
<1>6. z = [h EXCEPT ![i] = [h[i] EXCEPT !.neighbors = lists]]
  OBVIOUS
<1> HIDE DEF z, lists
<1>7. /\ z \in [1 .. n -> {z[j] : j \in 1 .. n}]
      /\ \A j \in 1 .. n : j # i => z[j] = h[j]
      /\ z[i] = [h[i] EXCEPT !.neighbors = lists]
  BY <1>1, <1>2, <1>6 DEF Graphs
<1>8. z[i] \in Recs(n) /\ z[i].neighbors = lists /\ z[i].vector = h[i].vector /\ z[i].deleted = h[i].deleted
  <2>1. lists \in UNION {[0 .. k -> Seq(1 .. n)] : k \in Nat}
    BY <1>3, <1>5
  <2> QED  BY <1>3, <1>7, <2>1 DEF Recs
<1>9. \A j \in 1 .. n : z[j] \in Recs(n)
  <2>1. \A j \in 1 .. n : h[j] \in Recs(n)
    BY <1>1 DEF Graphs
  <2> QED  BY <1>7, <1>8, <2>1
<1>10. z \in Graphs(n) /\ DOMAIN z = 1 .. n
  BY <1>7, <1>9 DEF Graphs
<1>11. Same(h, z)
  BY <1>2, <1>3, <1>5, <1>7, <1>8, <1>10 DEF Same
<1>12. Same(g, z)
  BY <1>1, <1>11 DEF Same
\* A list of z is the new one or one of h.
<1>13. ASSUME NEW j \in 1 .. n, NEW m \in DOMAIN z[j].neighbors
       PROVE  /\ m \in DOMAIN h[j].neighbors
              /\ \/ j = i /\ m = l /\ z[j].neighbors[m] = list
                 \/ <<j, m>> # <<i, l>> /\ z[j].neighbors[m] = h[j].neighbors[m]
  <2>1. CASE j = i
    <3>1. m \in 0 .. L
      BY <1>5, <1>8, <2>1
    <3> QED  BY <1>3, <1>5, <1>8, <2>1, <3>1
  <2>2. CASE j # i
    BY <1>7, <1>13, <2>2
  <2> QED  BY <2>1, <2>2
<1>14. Linked(z)
  <2> SUFFICES ASSUME NEW j \in 1 .. n, NEW m \in DOMAIN z[j].neighbors,
                      NEW x \in ToSet(z[j].neighbors[m])
               PROVE  x \in 1 .. n /\ x # j /\ m \in DOMAIN z[x].neighbors
    BY <1>10 DEF Linked
  <2>1. x \in 1 .. n /\ x # j /\ m \in DOMAIN h[x].neighbors
    <3>1. CASE j = i /\ m = l /\ z[j].neighbors[m] = list
      <4>1. x \in At(h, l) \ {i}
        BY <3>1 DEF ToSet
      <4> QED  BY <1>2, <3>1, <4>1 DEF At
    <3>2. CASE z[j].neighbors[m] = h[j].neighbors[m]
      BY <1>1, <1>2, <1>13, <3>2 DEF Linked
    <3> QED  BY <1>13, <3>1, <3>2
  <2> QED  BY <1>2, <1>11, <2>1 DEF Same
<1>15. Unknown(z, id, lo)
  <2> SUFFICES ASSUME NEW j \in 1 .. n, NEW m \in DOMAIN z[j].neighbors, m < lo
               PROVE  id \notin ToSet(z[j].neighbors[m])
    BY <1>10 DEF Unknown
  <2>1. m # l
    BY <1>3
  <2> QED  BY <1>1, <1>2, <1>13, <2>1 DEF Unknown
<1>16. Fits(z, X \cup {<<i, l>>})
  BY <1>1, <1>2, <1>10, <1>13 DEF Fits
<1>17. Len(list) <= DegreeLimit(l) => Fits(z, X \ {<<i, l>>})
  BY <1>1, <1>2, <1>10, <1>13 DEF Fits
<1>18. z[i].neighbors[l] = list
  BY <1>5, <1>8
<1> QED  BY <1>10, <1>12, <1>14, <1>15, <1>16, <1>17, <1>18 DEF Fine, z

\* Exempting more lists from their cap.
LEMMA FineMore ==
    ASSUME NEW n \in Nat, NEW g \in Graphs(n), NEW X, NEW Y, X \subseteq Y, NEW id,
           NEW lo \in Int, NEW low \in Int, low <= lo, NEW h \in Fine(g, n, X, id, lo)
    PROVE  h \in Fine(g, n, Y, id, low)
<1>1. h \in Graphs(n) /\ Same(g, h) /\ Linked(h) /\ Fits(h, X) /\ Unknown(h, id, lo)
  BY DEF Fine
<1>2. Fits(h, Y)
  BY <1>1 DEF Fits
<1>3. Unknown(h, id, low)
  <2> SUFFICES ASSUME NEW i \in DOMAIN h, NEW l \in DOMAIN h[i].neighbors, l < low
               PROVE  id \notin ToSet(h[i].neighbors[l])
    BY DEF Unknown
  <2>1. l \in Nat
    BY <1>1, GraphIs
  <2>2. l < lo
    BY <2>1
  <2> QED  BY <1>1, <2>2 DEF Unknown
<1> QED  BY <1>1, <1>2, <1>3 DEF Fine

\* A neighbour list of a graph being changed.
LEMMA ListIn ==
    ASSUME NEW n \in Nat, NEW h \in Graphs(n), Linked(h), NEW l, NEW i \in At(h, l)
    PROVE  LET list == h[i].neighbors[l]
           IN  /\ list \in Seq(At(h, l) \ {i}) /\ list \in Seq(1 .. n) /\ Len(list) \in Nat
               /\ DOMAIN list = 1 .. Len(list) /\ ToSet(list) \in SUBSET (At(h, l) \ {i})
<1> DEFINE list == h[i].neighbors[l]
<1>1. i \in 1 .. n /\ l \in DOMAIN h[i].neighbors /\ DOMAIN h = 1 .. n
  BY GraphIs DEF At
<1>2. list \in Seq(1 .. n)
  <2>1. DOMAIN h[i].neighbors = 0 .. Level(h[i])
        /\ h[i].neighbors \in [0 .. Level(h[i]) -> Seq(1 .. n)]
    BY <1>1, GraphIs
  <2> QED  BY <1>1, <2>1
<1>3. ToSet(list) \in SUBSET (At(h, l) \ {i})
  BY <1>1 DEF Linked, At
<1> HIDE DEF list
<1>4. DOMAIN list = 1 .. Len(list) /\ Len(list) \in Nat
  BY <1>2
<1>5. \A j \in 1 .. Len(list) : list[j] \in At(h, l) \ {i}
  BY <1>3, <1>4 DEF ToSet
<1>6. list \in Seq(At(h, l) \ {i})
  BY <1>2, <1>4, <1>5
<1> QED  BY <1>2, <1>3, <1>4, <1>6 DEF list

\* No limit is below the cap of its layer or below M.
LEMMA CapIs == \A l : Cap(l) \in Nat /\ DegreeLimit(l) \in Nat
                      /\ Cap(l) <= DegreeLimit(l) /\ M <= DegreeLimit(l)
<1>1. MMax0 \in Nat /\ M \in Nat
  BY IndexAssumption
<1> SUFFICES ASSUME NEW l PROVE Cap(l) \in Nat /\ DegreeLimit(l) \in Nat
                                /\ Cap(l) <= DegreeLimit(l) /\ M <= DegreeLimit(l)
  OBVIOUS
<1>2. Cap(l) \in Nat
  BY <1>1 DEF Cap
<1> QED  BY <1>1, <1>2 DEF DegreeLimit

\* trim_neighbors brings a list that is too long under its cap.
LEMMA TrimIn ==
    ASSUME NEW n \in Nat, NEW g \in Graphs(n), VectorsDiffer(g), NEW X, NEW id, NEW lo \in Int,
           NEW h \in Fine(g, n, X, id, lo), NEW l, l >= lo, NEW i \in At(h, l)
    PROVE  trim_neighbors(h, i, l) \in Fine(g, n, X \ {<<i, l>>}, id, lo)
<1> DEFINE list == h[i].neighbors[l]
           short == select_neighbors_heuristic(h, h[i].vector, ToSet(list), Cap(l))
<1>1. /\ h \in Graphs(n) /\ Same(g, h) /\ Linked(h) /\ Fits(h, X) /\ Unknown(h, id, lo)
      /\ VectorsDiffer(h) /\ DOMAIN h = 1 .. n /\ i \in 1 .. n
  BY FineIs DEF Fine, At
<1>2. ToSet(list) \in SUBSET (At(h, l) \ {i}) /\ ToSet(list) \in SUBSET (1 .. n)
  <2>1. ToSet(list) \in SUBSET (At(h, l) \ {i})
    BY <1>1, ListIn
  <2>2. At(h, l) \in SUBSET (1 .. n)
    BY <1>1 DEF At
  <2> QED  BY <2>1, <2>2
<1>3. CASE Len(list) <= Cap(l)
  <2>1. Fits(h, X \ {<<i, l>>})
    <3>1. Len(list) <= DegreeLimit(l)
      <4>1. Len(list) \in Nat
        BY <1>1, GraphIs DEF At
      <4> QED  BY <1>3, <4>1, CapIs
    <3> QED  BY <1>1, <3>1 DEF Fits
  <2>2. trim_neighbors(h, i, l) = h
    BY <1>3 DEF trim_neighbors
  <2> QED  BY <1>1, <2>1, <2>2 DEF Fine
<1>4. CASE ~(Len(list) <= Cap(l))
  <2>1. h[i].vector \in Vectors /\ Cap(l) \in Nat
    BY <1>1, GraphIs, CapIs
  <2> DEFINE S == ToSet(list)
             v == h[i].vector
  <2> HIDE DEF S, v
  <2>2. S \in SUBSET (1 .. n) /\ v \in Vectors
    BY <1>2, <2>1 DEF S, v
  <2>3. short \in Seq(S) /\ Len(short) <= Cap(l)
    <3>1. select_neighbors_heuristic(h, v, S, Cap(l)) \in Seq(S)
          /\ Len(select_neighbors_heuristic(h, v, S, Cap(l))) <= Cap(l)
      BY <1>1, <2>1, <2>2, SelectIs
    <3> QED  BY <3>1 DEF S, v
  <2>4. trim_neighbors(h, i, l) = [h EXCEPT ![i].neighbors[l] = short]
    BY <1>4 DEF trim_neighbors
  <2> HIDE DEF short
  <2>5. short \in Seq(At(h, l) \ {i})
    <3>1. S \subseteq At(h, l) \ {i}
      BY <1>2 DEF S
    <3> QED  BY <2>3, <3>1
  <2>6. Len(short) <= DegreeLimit(l)
    BY <2>1, <2>3, CapIs
  <2>7. [h EXCEPT ![i].neighbors[l] = short] \in Fine(g, n, X \ {<<i, l>>}, id, lo)
    BY <2>5, <2>6, SetList
  <2> QED  BY <2>4, <2>7
<1> QED  BY <1>3, <1>4

\* A node at the end of a list, before any trimming.
LEMMA AppendIn ==
    ASSUME NEW n \in Nat, NEW g \in Graphs(n), NEW X, NEW id, NEW lo \in Int,
           NEW h \in Fine(g, n, X, id, lo), NEW l, l >= lo, NEW i \in At(h, l),
           NEW x \in At(h, l) \ {i}
    PROVE  [h EXCEPT ![i].neighbors[l] = Append(@, x)] \in Fine(g, n, X \cup {<<i, l>>}, id, lo)
<1> DEFINE list == Append(h[i].neighbors[l], x)
<1>1. h \in Graphs(n) /\ Linked(h)
  BY DEF Fine
<1>2. h[i].neighbors[l] \in Seq(At(h, l) \ {i})
  BY <1>1, ListIn
<1>3. list \in Seq(At(h, l) \ {i})
  BY <1>2
<1>4. [h EXCEPT ![i].neighbors[l] = list] = [h EXCEPT ![i].neighbors[l] = Append(@, x)]
  OBVIOUS
<1> HIDE DEF list
<1>5. [h EXCEPT ![i].neighbors[l] = list] \in Fine(g, n, X \cup {<<i, l>>}, id, lo)
  BY <1>3, SetList
<1> QED  BY <1>4, <1>5

\* One more edge, trimmed.
LEMMA LinkBackIn ==
    ASSUME NEW n \in Nat, NEW g \in Graphs(n), VectorsDiffer(g), NEW X, NEW id, NEW lo \in Int,
           NEW h \in Fine(g, n, X, id, lo), NEW l, l >= lo, NEW i \in At(h, l),
           NEW x \in At(h, l) \ {i}
    PROVE  LinkBack(h, i, x, l) \in Fine(g, n, X, id, lo)
<1> DEFINE z == [h EXCEPT ![i].neighbors[l] = Append(@, x)]
<1>1. z \in Fine(g, n, X \cup {<<i, l>>}, id, lo)
  BY AppendIn
<1>2. LinkBack(h, i, x, l) = trim_neighbors(z, i, l)
  BY DEF LinkBack
<1> HIDE DEF z
<1>3. i \in At(z, l)
  BY <1>1, FineIs
<1>4. trim_neighbors(z, i, l) \in Fine(g, n, (X \cup {<<i, l>>}) \ {<<i, l>>}, id, lo)
  BY <1>1, <1>3, TrimIn
<1>5. (X \cup {<<i, l>>}) \ {<<i, l>>} \subseteq X
  OBVIOUS
<1>6. trim_neighbors(z, i, l) \in Fine(g, n, X, id, lo)
  BY <1>4, <1>5, FineMore
<1> QED  BY <1>2, <1>6

\* The links back to x at layer l from the nodes it chose.
LEMMA LinkEachIn ==
    ASSUME NEW n \in Nat, NEW g \in Graphs(n), VectorsDiffer(g), NEW id, NEW lo \in Int,
           NEW h \in Fine(g, n, {}, id, lo), NEW l, l >= lo, NEW x \in At(h, l),
           NEW chosen \in Seq(At(h, l) \ {x})
    PROVE  LinkEach(h, chosen, x, l) \in Fine(g, n, {}, id, lo)
<1> DEFINE D == Fine(g, n, {}, id, lo)
<1>1. Len(chosen) \in Nat /\ DOMAIN chosen = 1 .. Len(chosen)
      /\ \A j \in 1 .. Len(chosen) : chosen[j] \in At(h, l) \ {x}
  OBVIOUS
<1>2. ASSUME NEW a \in D, NEW j \in 1 .. Len(chosen) PROVE LinkBack(a, chosen[j], x, l) \in D
  <2>1. At(a, l) = At(h, l)
    BY FineIs
  <2>2. chosen[j] \in At(a, l) /\ x \in At(a, l) \ {chosen[j]}
    BY <1>1, <2>1
  <2> QED  BY <2>2, LinkBackIn
<1> HIDE DEF D
<1>3. h \in D
  BY DEF D
<1>4. Leads(LinkStep(D, Len(chosen), chosen, x, l), h, Len(chosen), D, LinkEach(h, chosen, x, l))
  BY <1>1, <1>2, <1>3, LinkRuns
<1>5. LinkEach(h, chosen, x, l) \in D
  BY <1>1, <1>4, LeadsIn
<1> QED  BY <1>5 DEF D

\* The links in both directions between a repaired node i and its new
\* neighbours, while its own list may be too long.
LEMMA LinkBothEachIn ==
    ASSUME NEW n \in Nat, NEW g \in Graphs(n), VectorsDiffer(g), NEW id, NEW lo \in Int,
           NEW l, l >= lo, NEW i, NEW h \in Fine(g, n, {<<i, l>>}, id, lo), i \in At(h, l),
           NEW chosen \in Seq(At(h, l) \ {i})
    PROVE  LinkBothEach(h, i, chosen, l) \in Fine(g, n, {<<i, l>>}, id, lo)
<1> DEFINE X == {<<i, l>>}
           D == Fine(g, n, X, id, lo)
<1>1. Len(chosen) \in Nat /\ DOMAIN chosen = 1 .. Len(chosen)
      /\ \A j \in 1 .. Len(chosen) : chosen[j] \in At(h, l) \ {i}
  OBVIOUS
<1>2. ASSUME NEW a \in D, NEW j \in 1 .. Len(chosen) PROVE LinkBoth(a, i, chosen[j], l) \in D
  <2> DEFINE c == chosen[j]
             z == [a EXCEPT ![i].neighbors[l] = Append(@, c)]
  <2>1. At(a, l) = At(h, l) /\ i \in At(h, l)
    BY FineIs
  <2>2. c \in At(a, l) \ {i} /\ i \in At(a, l)
    BY <1>1, <2>1
  <2> HIDE DEF c
  <2>3. z \in Fine(g, n, X \cup {<<i, l>>}, id, lo)
    BY <2>2, AppendIn
  <2> HIDE DEF z
  <2>4. X \cup {<<i, l>>} = X
    OBVIOUS
  <2>5. z \in D
    BY <2>3, <2>4
  <2>6. c \in At(z, l) /\ i \in At(z, l) \ {c}
    <3>1. At(z, l) = At(h, l)
      BY <2>5, FineIs
    <3> QED  BY <2>1, <2>2, <3>1
  <2> HIDE DEF X
  <2>7. LinkBack(z, c, i, l) \in D
    BY <2>5, <2>6, LinkBackIn
  <2> QED  BY <2>7 DEF LinkBoth, z, c
<1> HIDE DEF D
<1>3. h \in D
  BY DEF D
<1>4. Leads(BothStep(D, Len(chosen), chosen, i, l), h, Len(chosen), D, LinkBothEach(h, i, chosen, l))
  BY <1>1, <1>2, <1>3, BothRuns
<1>5. LinkBothEach(h, i, chosen, l) \in D
  BY <1>1, <1>4, LeadsIn
<1> QED  BY <1>5 DEF D

\* Greatest and least of two naturals.
LEMMA PairIs ==
    ASSUME NEW a \in Nat, NEW b \in Nat
    PROVE  /\ Max({a, b}) = IF a >= b THEN a ELSE b
           /\ Min({a, b}) = IF a <= b THEN a ELSE b
<1>1. Max({a, b}) = IF a >= b THEN a ELSE b
  <2> DEFINE m == IF a >= b THEN a ELSE b
  <2>1. m \in {a, b} /\ \A y \in {a, b} : m >= y
    OBVIOUS
  <2> HIDE DEF m
  <2>2. Max({a, b}) \in {a, b} /\ \A y \in {a, b} : Max({a, b}) >= y
    BY <2>1 DEF Max
  <2>3. Max({a, b}) >= m /\ m >= Max({a, b}) /\ m \in Nat /\ Max({a, b}) \in Nat
    BY <2>1, <2>2
  <2> QED  BY <2>3 DEF m
<1>2. Min({a, b}) = IF a <= b THEN a ELSE b
  <2> DEFINE m == IF a <= b THEN a ELSE b
  <2>1. m \in {a, b} /\ \A y \in {a, b} : m <= y
    OBVIOUS
  <2> HIDE DEF m
  <2>2. Min({a, b}) \in {a, b} /\ \A y \in {a, b} : Min({a, b}) <= y
    BY <2>1 DEF Min
  <2>3. Min({a, b}) <= m /\ m <= Min({a, b}) /\ m \in Nat /\ Min({a, b}) \in Nat
    BY <2>1, <2>2
  <2> QED  BY <2>3 DEF m
<1> QED  BY <1>1, <1>2

\* The way down from e ends at a node other than id that has the layer, if
\* only e leads in and no node but id leads to id.
LEMMA DescendIn ==
    ASSUME NEW n \in Nat, NEW g \in Graphs(n), NEW q \in Vectors, NEW id,
           \A l : Closed(g, l, At(g, l) \ {id}),
           NEW e, e.level \in Nat, e.node \in At(g, e.level) \ {id}, NEW lo \in Nat
    PROVE  Descend(g, q, e, lo) \in At(g, Min({lo, e.level})) \ {id}
<1> DEFINE top == Max({e.level, lo})
           base == e.node
           st(a, l) == greedy_search_layer(g, q, a, l + 1)
           Rec(c) == c = [l \in lo .. top |-> IF l = top THEN base ELSE st(c[l + 1], l)]
           c == CHOOSE c : Rec(c)
           P == [l \in lo .. top |-> At(g, IF l <= e.level THEN l ELSE e.level) \ {id}]
           F == [x \in (1 .. n) \X (lo .. top) |-> st(x[1], x[2])]
<1>1. Descend(g, q, e, lo) = c[lo]
  BY Zenon DEF Descend
<1> HIDE DEF c
<1>2. top \in Nat /\ lo <= top /\ (top = lo \/ top = e.level) /\ e.level <= top
      /\ lo \in Int /\ top \in Int
  BY PairIs
<1>3. base \in P[top]
  <2>1. top \in lo .. top /\ (top <= e.level => top = e.level)
    <3> HIDE DEF top
    <3> QED  BY <1>2
  <2>2. P[top] = At(g, e.level) \ {id}
    <3> HIDE DEF top
    <3> QED  BY <2>1
  <2> QED  BY <2>2
<1>4. ASSUME NEW l \in lo .. top - 1, NEW a \in P[l + 1]
      PROVE  st(a, l) \in P[l] /\ F[<<a, l>>] = st(a, l)
  <2>1. l \in lo .. top /\ l + 1 \in lo .. top /\ l + 1 <= e.level /\ l <= e.level
    BY <1>2
  <2>2. P[l + 1] = At(g, l + 1) \ {id} /\ P[l] = At(g, l) \ {id}
    BY <2>1
  <2>3. At(g, l + 1) \ {id} \in SUBSET (1 .. n) /\ At(g, l + 1) \subseteq At(g, l)
    <3>1. DOMAIN g = 1 .. n /\ \A i \in 1 .. n : Level(g[i]) \in Nat /\ DOMAIN g[i].neighbors = 0 .. Level(g[i])
      BY GraphIs
    <3>2. \A i \in 1 .. n : l + 1 \in 0 .. Level(g[i]) => l \in 0 .. Level(g[i])
      <4> HIDE DEF top
      <4>1. l \in Nat
        BY <1>2
      <4> QED  BY <3>1, <4>1
    <3> QED  BY <3>1, <3>2 DEF At
  <2>4. a \in At(g, l + 1) \ {id}
    BY <1>4, <2>2
  <2> DEFINE W == At(g, l + 1) \ {id}
             m == l + 1
  <2>5. W \in SUBSET (1 .. n) /\ Closed(g, m, W) /\ a \in W
    BY <2>3, <2>4
  <2>6. st(a, l) \in W
    <3> HIDE DEF W, m
    <3>1. greedy_search_layer(g, q, a, m) \in W
      BY <2>5, GreedyIn
    <3> QED  BY <3>1 DEF m
  <2>7. F[<<a, l>>] = st(a, l)
    BY <2>1, <2>5
  <2> HIDE DEF P, F, st
  <2> QED  BY <2>2, <2>3, <2>6, <2>7
<1> HIDE DEF F
<1>5. PICK h : Descent(F, base, lo, top, P, h)
  <2>1. Lowers(F, lo, top, P)
    BY <1>4 DEF Lowers
  <2> HIDE DEF P, top, st, base
  <2>2. lo \in Int /\ top \in Int /\ lo <= top
    BY <1>2
  <2> QED  BY <1>3, <2>1, <2>2, DescentExists
<1> HIDE DEF P, top, st, base
<1>6. Rec(h)
  <2>1. \A l \in lo .. top : (IF l = top THEN base ELSE F[<<h[l + 1], l>>]) = (IF l = top THEN base ELSE st(h[l + 1], l))
    <3>1. ASSUME NEW l \in lo .. top, l # top PROVE l \in lo .. top - 1 /\ h[l + 1] \in P[l + 1]
      BY <1>2, <1>5, <3>1 DEF Descent
    <3> QED  BY <1>4, <3>1
  <2> QED  BY <1>5, <2>1 DEF Descent
<1>7. Rec(c)
  BY <1>6, Zenon DEF c
<1>8. c[top] \in P[top]
  BY <1>2, <1>3, <1>7
<1>9. \A l \in lo .. top - 1 : c[l + 1] \in P[l + 1] => c[l] \in P[l]
  <2> SUFFICES ASSUME NEW l \in lo .. top - 1, c[l + 1] \in P[l + 1] PROVE c[l] \in P[l]
    OBVIOUS
  <2>1. l \in lo .. top /\ l # top
    BY <1>2
  <2>2. c[l] = st(c[l + 1], l)
    BY <1>7, <2>1
  <2> QED  BY <1>4, <2>2
<1>10. c[lo] \in P[lo]
  <2>1. lo \in Int /\ top \in Int /\ lo <= top /\ lo \in lo .. top
    BY <1>2
  <2>2. \A l \in lo .. top : c[l] \in P[l]
    BY <1>8, <1>9, <2>1, DescentStays
  <2> QED  BY <2>1, <2>2
<1>11. P[lo] = At(g, Min({lo, e.level})) \ {id}
  <2>1. lo \in lo .. top
    BY <1>2
  <2>2. Min({lo, e.level}) = IF lo <= e.level THEN lo ELSE e.level
    BY PairIs
  <2> QED  BY <2>1, <2>2 DEF P
<1> QED  BY <1>1, <1>10, <1>11

-----------------------------------------------------------------------------
(* Deleting a node                                                         *)

\* The nodes that have a layer are closed at it.
LEMMA FineClosed ==
    ASSUME NEW n \in Nat, NEW h \in Graphs(n), Linked(h), NEW l
    PROVE  Closed(h, l, At(h, l)) /\ At(h, l) \in SUBSET (1 .. n)
<1>1. DOMAIN h = 1 .. n
  BY GraphIs
<1> QED  BY <1>1 DEF Closed, At, Linked

\* Repairing one neighbour of the deleted node.
LEMMA RepairNodeIn ==
    ASSUME NEW n \in Nat, NEW g \in Graphs(n), VectorsDiffer(g), NEW id, NEW lo \in Int,
           NEW h \in Fine(g, n, {}, id, lo), NEW l, l >= lo, NEW i \in At(h, l), NEW d
    PROVE  RepairNode(h, i, d, l) \in Fine(g, n, {}, id, lo)
<1> DEFINE v == h[i].vector
           kept == Kept(h[i].neighbors[l], DOMAIN h \ {d})
           cut == [h EXCEPT ![i].neighbors[l] = kept]
           found == {c \in search_layer(cut, v, i, l, EfConstruction) : ~cut[c].deleted}
           novel == Novel(found, i, ToSet(cut[i].neighbors[l]))
           chosen == select_neighbors_heuristic(cut, v, novel, M)
           X == {<<i, l>>}
<1>1. RepairNode(h, i, d, l) = trim_neighbors(LinkBothEach(cut, i, chosen, l), i, l)
  <2>1. cut = [h EXCEPT ![i].neighbors[l] = Kept(@, DOMAIN h \ {d})]
    OBVIOUS
  <2> HIDE DEF cut
  <2> QED  BY <2>1, Zenon DEF RepairNode
<1>2. /\ h \in Graphs(n) /\ Linked(h) /\ Fits(h, {}) /\ DOMAIN h = 1 .. n /\ i \in 1 .. n
      /\ l \in DOMAIN h[i].neighbors /\ v \in Vectors
  <2>1. h \in Graphs(n) /\ Linked(h) /\ Fits(h, {}) /\ DOMAIN h = 1 .. n
    BY FineIs DEF Fine
  <2> QED  BY <2>1, GraphIs DEF At
<1> HIDE DEF v
<1>3. kept \in Seq(At(h, l) \ {i}) /\ Len(kept) <= DegreeLimit(l)
  <2> DEFINE list == h[i].neighbors[l]
  <2>1. list \in Seq(At(h, l) \ {i}) /\ Len(list) \in Nat /\ Len(list) <= DegreeLimit(l)
    BY <1>2, ListIn DEF Fits
  <2> HIDE DEF list
  <2>2. Kept(list, DOMAIN h \ {d}) \in Seq(At(h, l) \ {i})
        /\ Len(Kept(list, DOMAIN h \ {d})) <= Len(list)
    BY <2>1, KeptSome
  <2>3. DegreeLimit(l) \in Nat /\ Len(Kept(list, DOMAIN h \ {d})) \in Nat
    BY <2>2, CapIs
  <2> QED  BY <2>1, <2>2, <2>3 DEF list
<1> HIDE DEF kept
<1>4. cut \in Fine(g, n, X, id, lo) /\ At(cut, l) = At(h, l) /\ cut \in Graphs(n) /\ Linked(cut)
      /\ VectorsDiffer(cut) /\ DOMAIN cut = 1 .. n
  <2>1. cut \in Fine(g, n, {} \cup X, id, lo)
    BY <1>3, SetList
  <2>2. {} \cup X = X
    OBVIOUS
  <2> HIDE DEF cut
  <2> QED  BY <2>1, <2>2, FineIs DEF Fine
<1> HIDE DEF cut
<1>5. found \in SUBSET At(h, l)
  <2>1. Closed(cut, l, At(cut, l)) /\ At(cut, l) \in SUBSET (1 .. n) /\ EfConstruction \in Nat \ {0}
    BY <1>4, FineClosed, IndexAssumption
  <2>2. search_layer(cut, v, i, l, EfConstruction) \in SUBSET At(cut, l)
    BY <1>2, <1>4, <2>1, SearchIn
  <2> QED  BY <1>4, <2>2
<1> HIDE DEF found
<1>6. novel \in SUBSET (At(h, l) \ {i}) /\ novel \in SUBSET (1 .. n)
  <2>1. novel \in SUBSET (At(h, l) \ {i})
    BY <1>5 DEF Novel
  <2>2. At(h, l) \in SUBSET (1 .. n)
    BY <1>2 DEF At
  <2> HIDE DEF novel
  <2> QED  BY <2>1, <2>2
<1> HIDE DEF novel
<1>7. chosen \in Seq(At(cut, l) \ {i})
  <2>1. M \in Nat
    BY IndexAssumption
  <2>2. chosen \in Seq(novel)
    BY <1>2, <1>4, <1>6, <2>1, SelectIs
  <2> HIDE DEF chosen
  <2>3. novel \subseteq At(cut, l) \ {i}
    BY <1>4, <1>6
  <2> DEFINE S == At(cut, l) \ {i}
  <2> HIDE DEF S
  <2> QED  BY <2>2, <2>3 DEF S
<1> HIDE DEF chosen
<1> DEFINE z == LinkBothEach(cut, i, chosen, l)
<1>8. z \in Fine(g, n, X, id, lo)
  BY <1>4, <1>7, LinkBothEachIn
<1> HIDE DEF z
<1>9. trim_neighbors(z, i, l) \in Fine(g, n, X \ {<<i, l>>}, id, lo)
  <2>1. i \in At(z, l)
    <3>1. At(z, l) = At(g, l) /\ At(h, l) = At(g, l)
      BY <1>8, FineIs
    <3> QED  BY <3>1
  <2> HIDE DEF X
  <2> QED  BY <1>8, <2>1, TrimIn
<1>10. X \ {<<i, l>>} = {}
  OBVIOUS
<1> QED  BY <1>1, <1>9, <1>10 DEF z

\* Repairing one layer.
LEMMA RepairLayerIn ==
    ASSUME NEW n \in Nat, NEW g \in Graphs(n), VectorsDiffer(g), NEW id, NEW lo \in Int,
           NEW h \in Fine(g, n, {}, id, lo), NEW l, l >= lo, NEW d \in At(h, l)
    PROVE  repair_layer_after_delete(h, d, l) \in Fine(g, n, {}, id, lo)
<1> DEFINE D == Fine(g, n, {}, id, lo)
           list == Kept(h[d].neighbors[l], LiveIn(h))
           m == Len(list)
<1>1. h \in Graphs(n) /\ Linked(h)
  BY DEF Fine
<1>2. list \in Seq(At(h, l) \ {d})
  <2>1. h[d].neighbors[l] \in Seq(At(h, l) \ {d})
    BY <1>1, ListIn
  <2> QED  BY <2>1, KeptSome
<1> HIDE DEF list
<1>3. m \in Nat /\ DOMAIN list = 1 .. m /\ \A j \in 1 .. m : list[j] \in At(h, l)
  BY <1>2
<1>4. ASSUME NEW a \in D, NEW j \in 1 .. m PROVE RepairNode(a, list[j], d, l) \in D
  <2>1. At(a, l) = At(g, l) /\ At(h, l) = At(g, l)
    BY FineIs
  <2>2. list[j] \in At(a, l)
    BY <1>3, <2>1
  <2> QED  BY <2>2, RepairNodeIn
<1>5. h \in D
  OBVIOUS
<1> HIDE DEF D, m
<1>6. Leads(RepairStep(D, m, h, d, l), h, m, D, repair_layer_after_delete(h, d, l))
  BY <1>3, <1>4, <1>5, RepairRuns DEF list
<1>7. repair_layer_after_delete(h, d, l) \in D
  BY <1>3, <1>6, LeadsIn
<1> QED  BY <1>7 DEF D

\* Repairing all layers of the deleted node.
LEMMA RepairEachIn ==
    ASSUME NEW n \in Nat, NEW g \in Graphs(n), VectorsDiffer(g), Linked(g), Fits(g, {}),
           NEW d \in 1 .. n
    PROVE  RepairEach(g, d, LayersOf(g[d])) \in Fine(g, n, {}, NoNode, 0)
<1> DEFINE D == Fine(g, n, {}, NoNode, 0)
           layers == LayersOf(g[d])
           m == Level(g[d]) + 1
<1>1. DOMAIN g = 1 .. n /\ Level(g[d]) \in Nat /\ DOMAIN g[d].neighbors = 0 .. Level(g[d])
  BY GraphIs
<1>2. m \in Nat /\ DOMAIN layers = 1 .. m /\ \A j \in 1 .. m : layers[j] >= 0 /\ layers[j] \in DOMAIN g[d].neighbors
  BY <1>1 DEF LayersOf
<1> HIDE DEF layers, m
<1>3. ASSUME NEW a \in D, NEW j \in 1 .. m PROVE repair_layer_after_delete(a, d, layers[j]) \in D
  <2>1. At(a, layers[j]) = At(g, layers[j])
    BY FineIs
  <2>2. d \in At(a, layers[j]) /\ layers[j] >= 0
    BY <1>1, <1>2, <2>1 DEF At
  <2> QED  BY <2>2, RepairLayerIn
<1>4. g \in D
  <2>1. Same(g, g)
    BY DEF Same
  <2>2. Unknown(g, NoNode, 0)
    <3> SUFFICES ASSUME NEW i \in 1 .. n, NEW l \in DOMAIN g[i].neighbors PROVE NoNode \notin ToSet(g[i].neighbors[l])
      BY <1>1 DEF Unknown
    <3>1. ToSet(g[i].neighbors[l]) \subseteq 1 .. n
      BY <1>1 DEF Linked
    <3> QED  BY <3>1 DEF NoNode
  <2> QED  BY <2>1, <2>2 DEF Fine
<1> HIDE DEF D
<1>5. Leads(LayerStep(D, m, d, layers), g, m, D, RepairEach(g, d, layers))
  BY <1>2, <1>3, <1>4, LayerRuns
<1>6. RepairEach(g, d, layers) \in D
  BY <1>2, <1>5, LeadsIn
<1> QED  BY <1>6 DEF D, layers

-----------------------------------------------------------------------------
(* Delete and insert keep the graph and its entry point good               *)

GoodGraph(g, n) == g \in Graphs(n) /\ VectorsDiffer(g) /\ Linked(g) /\ Fits(g, {})

\* EntryHighest of a graph and an entry point.
EntryOf(g, e) ==
    /\ e.node \in Nat /\ e.level \in Nat
    /\ (e = NoEntry) <=> (LiveIn(g) = {})
    /\ e # NoEntry => /\ e.node \in LiveIn(g) /\ e.level = Level(g[e.node])
                      /\ \A i \in LiveIn(g) : Level(g[i]) <= e.level

\* pick_new_entry returns a highest live node, if there is one.
LEMMA PickIs ==
    ASSUME NEW n \in Nat, NEW g \in Graphs(n)
    PROVE  EntryOf(g, pick_new_entry(g))
<1> DEFINE live == LiveIn(g)
           f == [i \in 1 .. n |-> Level(g[i])]
           highest == {i \in LiveIn(g) : \A j \in LiveIn(g) : Level(g[j]) <= Level(g[i])}
<1>1. live \in SUBSET (1 .. n) /\ DOMAIN g = 1 .. n
  BY GraphIs DEF LiveIn
<1>2. \A i \in 1 .. n : f[i] \in Nat /\ f[i] = Level(g[i])
  BY GraphIs
<1> HIDE DEF f
<1>3. CASE live = {}
  <2>1. highest = {}
    BY <1>3
  <2>2. pick_new_entry(g) = NoEntry
    BY <2>1 DEF pick_new_entry
  <2> QED  BY <1>3, <2>2 DEF EntryOf, NoEntry, NoNode
<1>4. CASE live # {}
  <2>1. \E i \in live : \A j \in live : f[i] >= f[j]
    <3> HIDE DEF live
    <3>1. \A i \in 1 .. n : f[i] \in Nat
      BY <1>2
    <3> QED  BY <1>1, <1>4, <3>1, Extremes
  <2>2. \A i \in live : i \in 1 .. n /\ f[i] = Level(g[i]) /\ f[i] \in Nat
    BY <1>1, <1>2
  <2>3. highest # {}
    <3>1. PICK i \in live : \A j \in live : f[i] >= f[j]
      BY <2>1
    <3>2. \A j \in live : Level(g[j]) <= Level(g[i])
      BY <2>2, <3>1
    <3> QED  BY <3>2
  <2>4. highest \in SUBSET (0 .. n)
    BY <1>1
  <2> DEFINE m == Max(highest)
  <2>5. m \in highest
    <3> HIDE DEF highest
    <3> QED  BY <2>3, <2>4, MaxOfNats
  <2>6. pick_new_entry(g) = [node |-> m, level |-> Level(g[m])]
    BY <2>3, Zenon DEF pick_new_entry
  <2>7. m \in live /\ (\A j \in live : Level(g[j]) <= Level(g[m])) /\ m \in 1 .. n
    <3> HIDE DEF m
    <3> QED  BY <1>1, <2>5
  <2> HIDE DEF m
  <2>8. Level(g[m]) \in Nat
    BY <2>7, <1>2
  <2>9. [node |-> m, level |-> Level(g[m])] # NoEntry
    BY <2>7 DEF NoEntry, NoNode
  <2> QED  BY <1>4, <2>6, <2>7, <2>8, <2>9 DEF EntryOf
<1> QED  BY <1>3, <1>4

\* delete keeps the graph and its entry point good.
LEMMA DeleteGood ==
    ASSUME NEW n \in Nat, NEW g, GoodGraph(g, n), NEW e, EntryOf(g, e), NEW d \in LiveIn(g)
    PROVE  LET r == delete(g, e, d)
           IN  /\ GoodGraph(r.g, n) /\ EntryOf(r.g, r.e) /\ LiveIn(r.g) = LiveIn(g) \ {d}
               /\ \A i \in 1 .. n : r.g[i].vector = g[i].vector
<1> DEFINE marked == [g EXCEPT ![d].deleted = TRUE]
           h == RepairEach(marked, d, LayersOf(g[d]))
           x == IF e.node = d THEN pick_new_entry(h) ELSE e
<1>1. g \in Graphs(n) /\ VectorsDiffer(g) /\ Linked(g) /\ Fits(g, {})
      /\ DOMAIN g = 1 .. n /\ d \in 1 .. n
  BY GraphIs DEF GoodGraph, LiveIn
<1>2. /\ marked \in Graphs(n) /\ DOMAIN marked = 1 .. n
      /\ \A i \in 1 .. n : marked[i].vector = g[i].vector /\ marked[i].neighbors = g[i].neighbors
      /\ \A i \in 1 .. n : marked[i].deleted <=> (g[i].deleted \/ i = d)
  <2>1. \A i \in 1 .. n : g[i] \in Recs(n)
    BY <1>1 DEF Graphs
  <2>2. [g[d] EXCEPT !.deleted = TRUE] \in Recs(n)
    BY <1>1, <2>1 DEF Recs
  <2>3. marked = [i \in 1 .. n |-> IF i = d THEN [g[d] EXCEPT !.deleted = TRUE] ELSE g[i]]
    BY <1>1 DEF Graphs
  <2>4. \A i \in 1 .. n : i # d => marked[i] = g[i]
    BY <2>3
  <2>5. marked[d] = [g[d] EXCEPT !.deleted = TRUE]
    BY <1>1, <2>3
  <2>6. marked \in Graphs(n)
    BY <2>1, <2>2, <2>3 DEF Graphs
  <2>7. marked[d].vector = g[d].vector /\ marked[d].neighbors = g[d].neighbors /\ marked[d].deleted
    BY <1>1, <2>1, <2>5 DEF Recs
  <2>8. DOMAIN marked = 1 .. n
    BY <2>3
  <2> HIDE DEF marked
  <2> QED  BY <2>4, <2>6, <2>7, <2>8
<1> HIDE DEF marked
<1>3. VectorsDiffer(marked) /\ Linked(marked) /\ Fits(marked, {})
  BY <1>1, <1>2 DEF VectorsDiffer, Linked, Fits
<1>4. LayersOf(g[d]) = LayersOf(marked[d])
  BY <1>1, <1>2 DEF LayersOf, Level
<1>5. h \in Fine(marked, n, {}, NoNode, 0)
  BY <1>1, <1>2, <1>3, <1>4, RepairEachIn
<1>6. delete(g, e, d) = [g |-> h, e |-> x]
  BY Zenon DEF delete, marked
<1> HIDE DEF h
<1>7. GoodGraph(h, n) /\ Same(marked, h)
  BY <1>2, <1>3, <1>5, FineIs DEF Fine, GoodGraph
<1>8. /\ DOMAIN h = 1 .. n /\ \A i \in 1 .. n : h[i].vector = g[i].vector /\ Level(h[i]) = Level(g[i])
      /\ LiveIn(h) = LiveIn(g) \ {d}
  <2>1. /\ DOMAIN h = 1 .. n
        /\ \A i \in 1 .. n : /\ h[i].vector = g[i].vector /\ h[i].deleted = marked[i].deleted
                             /\ DOMAIN h[i].neighbors = DOMAIN g[i].neighbors
    BY <1>2, <1>7 DEF Same
  <2>2. LiveIn(h) = LiveIn(g) \ {d}
    BY <1>1, <1>2, <2>1 DEF LiveIn
  <2> QED  BY <2>1, <2>2 DEF Level
<1>9. EntryOf(h, x)
  <2>1. CASE e.node = d
    BY <1>7, <2>1, PickIs DEF GoodGraph
  <2>2. CASE e.node # d
    <3>1. e # NoEntry /\ e.node \in LiveIn(h) /\ LiveIn(h) \subseteq 1 .. n
      BY <1>1, <1>8, <2>2 DEF EntryOf, LiveIn
    <3> QED  BY <1>8, <2>2, <3>1 DEF EntryOf
  <2> QED  BY <2>1, <2>2
<1> QED  BY <1>6, <1>7, <1>8, <1>9

\* insert at one layer, from an entry node other than id that has the layer.
LEMMA LinkLayerIn ==
    ASSUME NEW n \in Nat, NEW g \in Graphs(n), VectorsDiffer(g), NEW l \in Nat, NEW id \in At(g, l),
           NEW s, s.g \in Fine(g, n, {}, id, l + 1), s.ep \in At(g, l) \ {id}
    PROVE  LET r == LinkLayer(s, id, l)
           IN  r \in [g : Fine(g, n, {}, id, l), ep : At(g, l) \ {id}]
<1> DEFINE h == s.g
           v == h[id].vector
           found == search_layer(h, v, s.ep, l, EfConstruction)
           chosen == select_neighbors_heuristic(h, v, found, M)
           z == [h EXCEPT ![id].neighbors[l] = chosen]
           W == At(g, l) \ {id}
<1>1. LinkLayer(s, id, l) = [g |-> LinkEach(z, chosen, id, l), ep |-> Closest(h, v, found)]
  BY Zenon DEF LinkLayer
<1> HIDE DEF h
<1>2. /\ h \in Graphs(n) /\ Linked(h) /\ Fits(h, {}) /\ Unknown(h, id, l + 1) /\ VectorsDiffer(h)
      /\ At(h, l) = At(g, l) /\ DOMAIN h = 1 .. n /\ At(h, l) \in SUBSET (1 .. n)
  <2>1. l + 1 \in Int /\ h \in Fine(g, n, {}, id, l + 1)
    BY DEF h
  <2> QED  BY <2>1, FineIs DEF Fine
<1>3. v \in Vectors /\ id \in 1 .. n
  BY <1>2, GraphIs
<1> HIDE DEF v
<1>4. W \in SUBSET (1 .. n) /\ Closed(h, l, W)
  <2>1. Closed(h, l, At(h, l))
    BY <1>2, FineClosed
  <2>2. \A i \in At(h, l) : id \notin ToSet(h[i].neighbors[l])
    BY <1>2 DEF At, Unknown
  <2> QED  BY <1>2, <2>1, <2>2 DEF Closed
<1>5. s.ep \in W
  OBVIOUS
<1> HIDE DEF W
<1>6. found \in SUBSET W /\ found # {} /\ found \in SUBSET (1 .. n)
  <2>1. EfConstruction \in Nat \ {0}
    BY IndexAssumption
  <2>2. found \in SUBSET W /\ found # {}
    BY <1>2, <1>3, <1>4, <1>5, <2>1, SearchIn
  <2> QED  BY <1>4, <2>2
<1> HIDE DEF found
<1>7. chosen \in Seq(found) /\ Len(chosen) <= DegreeLimit(l)
  <2>1. M \in Nat /\ M <= DegreeLimit(l) /\ DegreeLimit(l) \in Nat
    BY IndexAssumption, CapIs
  <2>2. chosen \in Seq(found) /\ Len(chosen) \in Nat /\ Len(chosen) <= M
    BY <1>2, <1>3, <1>6, <2>1, SelectIs
  <2> HIDE DEF chosen
  <2> QED  BY <2>1, <2>2
<1> HIDE DEF chosen
<1>8. chosen \in Seq(At(h, l) \ {id})
  <2>1. found \subseteq At(h, l) \ {id}
    BY <1>2, <1>6 DEF W
  <2> DEFINE S == At(h, l) \ {id}
  <2> HIDE DEF S
  <2> QED  BY <1>7, <2>1 DEF S
<1>9. h \in Fine(g, n, {}, id, l)
  <2>1. l <= l + 1 /\ l \in Int /\ l + 1 \in Int /\ {} \subseteq {} /\ h \in Fine(g, n, {}, id, l + 1)
    BY DEF h
  <2> QED  BY <2>1, FineMore
<1>10. z \in Fine(g, n, {}, id, l)
  <2>1. l >= l /\ l \in Int /\ id \in At(h, l)
    BY <1>2
  <2>2. z \in Fine(g, n, {} \ {<<id, l>>}, id, l)
    BY <1>7, <1>8, <1>9, <2>1, SetList
  <2>3. {} \ {<<id, l>>} = {}
    OBVIOUS
  <2> QED  BY <2>2, <2>3
<1> HIDE DEF z
<1>11. LinkEach(z, chosen, id, l) \in Fine(g, n, {}, id, l)
  <2>1. l >= l /\ l \in Int /\ At(z, l) = At(g, l)
    BY <1>10, FineIs
  <2>2. id \in At(z, l) /\ chosen \in Seq(At(z, l) \ {id})
    BY <1>2, <1>8, <2>1
  <2> QED  BY <1>10, <2>1, <2>2, LinkEachIn
<1>12. Closest(h, v, found) \in W
  <2>1. Closest(h, v, found) \in found
    BY <1>2, <1>3, <1>6, ClosestIs
  <2> QED  BY <1>6, <2>1
<1> QED  BY <1>1, <1>11, <1>12 DEF W

NewNode(v, level) == [vector |-> v, neighbors |-> [l \in 0 .. level |-> <<>>], deleted |-> FALSE]

\* The graph with the new node, before it is linked.
LEMMA GrownGood ==
    ASSUME NEW n \in Nat, NEW g, GoodGraph(g, n), NEW v \in Vectors,
           \A i \in DOMAIN g : g[i].vector # v, NEW level \in Nat
    PROVE  LET z == Append(g, NewNode(v, level))
           IN  /\ GoodGraph(z, n + 1) /\ Level(z[n + 1]) = level /\ \A l : Unknown(z, n + 1, l)
               /\ z[n + 1].vector = v /\ ~z[n + 1].deleted
               /\ \A i \in 1 .. n : z[i] = g[i]
<1> DEFINE z == Append(g, NewNode(v, level))
           new == NewNode(v, level)
<1>1. g \in Graphs(n) /\ VectorsDiffer(g) /\ Linked(g) /\ Fits(g, {})
      /\ DOMAIN g = 1 .. n /\ Len(g) = n /\ g \in Seq(Recs(n))
  BY GraphIs DEF GoodGraph
<1>0. /\ DOMAIN z = 1 .. n + 1 /\ z[n + 1] = new /\ \A i \in 1 .. n : z[i] = g[i]
      /\ z = [i \in 1 .. n + 1 |-> z[i]]
  <2> DEFINE S == Recs(n) \cup {new}
  <2>1. g \in Seq(S) /\ new \in S
    <3>1. Recs(n) \subseteq S
      OBVIOUS
    <3> HIDE DEF S
    <3>2. \A i \in 1 .. n : g[i] \in S
      BY <1>1, <3>1
    <3> QED  BY <1>1, <3>2 DEF S
  <2> HIDE DEF S, new
  <2>2. z \in Seq(S) /\ Len(z) = n + 1 /\ z[n + 1] = new /\ \A i \in 1 .. n : z[i] = g[i]
    BY <1>1, <2>1, AppendProperties DEF new
  <2> HIDE DEF z
  <2>3. DOMAIN z = 1 .. n + 1 /\ z = [i \in 1 .. n + 1 |-> z[i]]
    BY <2>2
  <2> QED  BY <2>2, <2>3
<1>2. DOMAIN z = 1 .. n + 1 /\ z[n + 1] = new /\ \A i \in 1 .. n : z[i] = g[i]
  BY <1>0
<1>3. /\ new.vector = v /\ new.neighbors = [l \in 0 .. level |-> <<>>] /\ new.deleted = FALSE
      /\ new = [vector |-> v, neighbors |-> [l \in 0 .. level |-> <<>>], deleted |-> FALSE]
      /\ DOMAIN new.neighbors = 0 .. level /\ \A l \in 0 .. level : new.neighbors[l] = <<>>
  BY DEF NewNode
<1> HIDE DEF z, new
<1>5. new \in Recs(n + 1)
  <2>1. [l \in 0 .. level |-> <<>>] \in [0 .. level -> Seq(1 .. n + 1)]
    OBVIOUS
  <2>2. [l \in 0 .. level |-> <<>>] \in UNION {[0 .. l -> Seq(1 .. n + 1)] : l \in Nat}
    BY <2>1
  <2> QED  BY <1>3, <2>2 DEF Recs
<1>6. ASSUME NEW i \in 1 .. n PROVE g[i] \in Recs(n + 1)
  <2>1. g[i] \in Recs(n)
    BY <1>1 DEF Graphs
  <2>2. 1 .. n \subseteq 1 .. n + 1
    OBVIOUS
  <2>3. Seq(1 .. n) \subseteq Seq(1 .. n + 1)
    BY <2>2
  <2>4. \A l \in Nat : [0 .. l -> Seq(1 .. n)] \subseteq [0 .. l -> Seq(1 .. n + 1)]
    <3> DEFINE A == Seq(1 .. n)
               B == Seq(1 .. n + 1)
    <3> HIDE DEF A, B
    <3> QED  BY <2>3 DEF A, B
  <2>5. UNION {[0 .. l -> Seq(1 .. n)] : l \in Nat} \subseteq UNION {[0 .. l -> Seq(1 .. n + 1)] : l \in Nat}
    BY <2>4
  <2> QED  BY <2>1, <2>5 DEF Recs
<1>7. \A i \in 1 .. n + 1 : i = n + 1 \/ i \in 1 .. n
  OBVIOUS
<1>8. z \in Graphs(n + 1)
  <2>1. \A i \in 1 .. n + 1 : z[i] \in Recs(n + 1)
    BY <1>2, <1>5, <1>6, <1>7
  <2> QED  BY <1>0, <2>1 DEF Graphs
<1>9. VectorsDiffer(z)
  <2> SUFFICES ASSUME NEW i \in 1 .. n + 1, NEW j \in 1 .. n + 1, i # j
               PROVE  z[i].vector # z[j].vector
    BY <1>2, Zenon DEF VectorsDiffer
  <2>1. CASE i \in 1 .. n /\ j \in 1 .. n
    <3>1. g[i].vector # g[j].vector
      <4>1. i \in DOMAIN g /\ j \in DOMAIN g
        BY <1>1, <2>1
      <4> QED  BY <1>1, <4>1, Zenon DEF VectorsDiffer
    <3>2. z[i] = g[i] /\ z[j] = g[j]
      BY <1>2, <2>1
    <3> QED  BY <3>1, <3>2
  <2>2. CASE i = n + 1
    <3>1. j \in 1 .. n
      BY <1>7, <2>2
    <3>2. z[i].vector = v
      BY <1>2, <1>3, <2>2
    <3>3. z[j] = g[j] /\ j \in DOMAIN g
      BY <1>1, <1>2, <3>1
    <3> QED  BY <3>2, <3>3, Zenon
  <2>3. CASE j = n + 1
    <3>1. i \in 1 .. n
      BY <1>7, <2>3
    <3>2. z[j].vector = v
      BY <1>2, <1>3, <2>3
    <3>3. z[i] = g[i] /\ i \in DOMAIN g
      BY <1>1, <1>2, <3>1
    <3> QED  BY <3>2, <3>3, Zenon
  <2> QED  BY <1>7, <2>1, <2>2, <2>3
<1>10. ASSUME NEW i \in 1 .. n + 1, NEW l \in DOMAIN z[i].neighbors
       PROVE  \/ z[i].neighbors[l] = <<>>
              \/ i \in 1 .. n /\ l \in DOMAIN g[i].neighbors /\ z[i].neighbors[l] = g[i].neighbors[l]
  BY <1>2, <1>3, <1>7, <1>10
<1>11. ToSet(<<>>) = {} /\ Len(<<>>) = 0
  BY DEF ToSet
<1>12. Linked(z)
  <2> SUFFICES ASSUME NEW i \in 1 .. n + 1, NEW l \in DOMAIN z[i].neighbors,
                      NEW x \in ToSet(z[i].neighbors[l])
               PROVE  x \in 1 .. n + 1 /\ x # i /\ l \in DOMAIN z[x].neighbors
    BY <1>2 DEF Linked
  <2>1. i \in 1 .. n /\ l \in DOMAIN g[i].neighbors /\ x \in ToSet(g[i].neighbors[l])
    BY <1>10, <1>11
  <2>2. x \in 1 .. n /\ x # i /\ l \in DOMAIN g[x].neighbors
    BY <1>1, <2>1 DEF Linked
  <2> QED  BY <1>2, <2>2
<1>13. Fits(z, {})
  <2> SUFFICES ASSUME NEW i \in 1 .. n + 1, NEW l \in DOMAIN z[i].neighbors
               PROVE  Len(z[i].neighbors[l]) <= DegreeLimit(l)
    BY <1>2 DEF Fits
  <2>1. DegreeLimit(l) \in Nat
    BY CapIs
  <2>2. CASE z[i].neighbors[l] = <<>>
    BY <1>11, <2>1, <2>2
  <2>3. CASE i \in 1 .. n /\ l \in DOMAIN g[i].neighbors /\ z[i].neighbors[l] = g[i].neighbors[l]
    BY <1>1, <2>3 DEF Fits
  <2> QED  BY <1>10, <2>2, <2>3
<1>14. ASSUME NEW k PROVE Unknown(z, n + 1, k)
  <2> SUFFICES ASSUME NEW i \in 1 .. n + 1, NEW l \in DOMAIN z[i].neighbors
               PROVE  n + 1 \notin ToSet(z[i].neighbors[l])
    BY <1>2 DEF Unknown
  <2>1. CASE i \in 1 .. n /\ l \in DOMAIN g[i].neighbors /\ z[i].neighbors[l] = g[i].neighbors[l]
    <3>1. ToSet(g[i].neighbors[l]) \subseteq 1 .. n
      BY <1>1, <2>1 DEF Linked
    <3>2. n + 1 \notin 1 .. n
      OBVIOUS
    <3> QED  BY <2>1, <3>1, <3>2
  <2> QED  BY <1>10, <1>11, <2>1
<1>15. Level(z[n + 1]) = level
  <2>1. Level(z[n + 1]) \in Nat /\ DOMAIN z[n + 1].neighbors = 0 .. Level(z[n + 1])
    <3>1. n + 1 \in 1 .. n + 1 /\ n + 1 \in Nat
      OBVIOUS
    <3> QED  BY <1>8, <3>1, GraphIs
  <2> DEFINE k == Level(z[n + 1])
  <2>2. k \in Nat /\ 0 .. k = 0 .. level
    BY <1>2, <1>3, <2>1
  <2> HIDE DEF k
  <2>3. k \in 0 .. level /\ level \in 0 .. k
    BY <2>2
  <2>4. k = level
    BY <2>2, <2>3
  <2> QED  BY <2>4 DEF k
<1> QED  BY <1>2, <1>3, <1>8, <1>9, <1>12, <1>13, <1>14, <1>15 DEF z, GoodGraph

\* What insert keeps: the old nodes but for their neighbours.
LEMMA InsertGood ==
    ASSUME NEW n \in Nat, NEW g, GoodGraph(g, n), NEW e, EntryOf(g, e), NEW v \in Vectors,
           \A i \in DOMAIN g : g[i].vector # v, NEW level \in Nat
    PROVE  LET r == insert(g, e, v, level)
           IN  /\ GoodGraph(r.g, n + 1) /\ EntryOf(r.g, r.e)
               /\ LiveIn(r.g) = LiveIn(g) \cup {n + 1} /\ r.g[n + 1].vector = v
               /\ \A i \in 1 .. n : r.g[i].vector = g[i].vector
<1> DEFINE id == Len(g) + 1
           grown == Append(g, NewNode(v, level))
           top == Min({level, e.level}) + 1
           base == [g |-> grown, ep |-> Descend(grown, v, e, level)]
           st(a, l) == LinkLayer(a, id, l)
           Rec(c) == c = [l \in 0 .. top |-> IF l = top THEN base ELSE st(c[l + 1], l)]
           c == CHOOSE c : Rec(c)
           Q(l) == [g : Fine(grown, n + 1, {}, id, l),
                    ep : At(grown, IF l = 0 THEN 0 ELSE l - 1) \ {id}]
           P == [l \in 0 .. top |-> Q(l)]
           F == [x \in (UNION {Q(l) : l \in 0 .. top}) \X (0 .. top) |-> st(x[1], x[2])]
           h == IF e = NoEntry THEN grown ELSE c[0].g
           x == IF e = NoEntry THEN [node |-> id, level |-> level] ELSE EntryAfterInsert(e, id, level)
<1>1. insert(g, e, v, level) = [g |-> h, e |-> x]
  <2>1. CASE e = NoEntry
    <3> HIDE DEF c
    <3> QED  BY <2>1, Zenon DEF insert, NewNode
  <2>2. CASE e # NoEntry
    <3>1. insert(g, e, v, level) = [g |-> c[0].g, e |-> EntryAfterInsert(e, id, level)]
      BY <2>2, Zenon DEF insert, NewNode
    <3> HIDE DEF c
    <3> QED  BY <2>2, <3>1
  <2> QED  BY <2>1, <2>2
<1> HIDE DEF c
<1>2. g \in Graphs(n) /\ VectorsDiffer(g) /\ Linked(g) /\ Fits(g, {})
      /\ DOMAIN g = 1 .. n /\ id = n + 1
  BY GraphIs DEF GoodGraph
<1> HIDE DEF id
<1>3. /\ GoodGraph(grown, n + 1) /\ Level(grown[id]) = level /\ \A l : Unknown(grown, id, l)
      /\ grown[id].vector = v /\ ~grown[id].deleted
      /\ \A i \in 1 .. n : grown[i] = g[i]
  BY <1>2, GrownGood
<1> HIDE DEF grown
<1>4. /\ grown \in Graphs(n + 1) /\ VectorsDiffer(grown) /\ Linked(grown) /\ Fits(grown, {})
      /\ DOMAIN grown = 1 .. n + 1 /\ n + 1 \in Nat /\ id \in 1 .. n + 1
  <2>1. n + 1 \in Nat /\ id \in 1 .. n + 1
    BY <1>2
  <2> QED  BY <1>3, <2>1, GraphIs DEF GoodGraph
<1>5. /\ LiveIn(grown) = LiveIn(g) \cup {id} /\ id \notin LiveIn(g)
      /\ \A i \in LiveIn(g) : i \in 1 .. n /\ grown[i] = g[i]
  <2>1. \A i \in 1 .. n + 1 : i = id \/ i \in 1 .. n
    BY <1>2
  <2>2. id \notin 1 .. n
    BY <1>2
  <2> QED  BY <1>2, <1>3, <1>4, <2>1, <2>2 DEF LiveIn
<1>6. DOMAIN grown[id].neighbors = 0 .. level
  BY <1>3, <1>4, GraphIs
<1>7. e # NoEntry => h \in Fine(grown, n + 1, {}, id, 0)
  <2> SUFFICES ASSUME e # NoEntry PROVE c[0].g \in Fine(grown, n + 1, {}, id, 0)
    OBVIOUS
  <2> DEFINE m == Min({level, e.level})
  <2>1. e.level \in Nat /\ e.node \in At(grown, e.level) \ {id}
    <3>1. e.level \in Nat /\ e.node \in LiveIn(g) /\ e.level = Level(g[e.node])
      BY DEF EntryOf
    <3>2. e.node \in 1 .. n + 1 /\ e.node # id /\ e.level = Level(grown[e.node])
      BY <1>5, <3>1
    <3>3. DOMAIN grown[e.node].neighbors = 0 .. e.level
      BY <1>4, <3>2, GraphIs
    <3>4. e.level \in 0 .. e.level
      BY <3>1
    <3> QED  BY <1>4, <3>2, <3>3, <3>4 DEF At
  <2>2. m \in Nat /\ m <= level /\ top = m + 1 /\ top \in Nat
    <3>1. m \in Nat /\ m <= level
      <4>1. e.level \in Nat
        BY <2>1
      <4> HIDE DEF m, top, base, st, Rec, Q, P, F, h, x
      <4>2. m = IF level <= e.level THEN level ELSE e.level
        <5> DEFINE b == e.level
        <5>1. b \in Nat
          BY <4>1
        <5> HIDE DEF b
        <5>2. Min({level, b}) = IF level <= b THEN level ELSE b
          BY <5>1, PairIs
        <5> QED  BY <5>2 DEF b, m
      <4> QED  BY <4>1, <4>2
    <3>2. top = m + 1
      OBVIOUS
    <3> HIDE DEF m, top
    <3> QED  BY <3>1, <3>2
  <2>3. ASSUME NEW l PROVE Closed(grown, l, At(grown, l) \ {id})
    <3>1. Closed(grown, l, At(grown, l))
      BY <1>4, FineClosed
    <3>2. \A i \in At(grown, l) : id \notin ToSet(grown[i].neighbors[l])
      <4> SUFFICES ASSUME NEW i \in At(grown, l) PROVE id \notin ToSet(grown[i].neighbors[l])
        OBVIOUS
      <4>1. i \in 1 .. n + 1 /\ l \in DOMAIN grown[i].neighbors
        BY <1>4 DEF At
      <4>2. l \in Nat
        <5>1. DOMAIN grown[i].neighbors = 0 .. Level(grown[i]) /\ Level(grown[i]) \in Nat
          BY <1>4, <4>1, GraphIs
        <5> QED  BY <4>1, <5>1
      <4>3. l < l + 1 /\ Unknown(grown, id, l + 1)
        BY <1>3, <4>2
      <4> QED  BY <1>4, <4>1, <4>3 DEF Unknown
    <3> QED  BY <3>1, <3>2 DEF Closed
  <2>4. Descend(grown, v, e, level) \in At(grown, m) \ {id}
    <3>1. \A l : Closed(grown, l, At(grown, l) \ {id})
      BY <2>3
    <3> QED  BY <1>4, <2>1, <3>1, DescendIn
  <2>5. \A l : grown \in Fine(grown, n + 1, {}, id, l)
    <3>1. Same(grown, grown)
      BY DEF Same
    <3> QED  BY <1>3, <1>4, <3>1 DEF Fine
  <2> HIDE DEF m, top
  <2>6. base \in P[top] /\ top \in 0 .. top
    <3>1. top # 0 /\ top - 1 = m /\ top \in 0 .. top
      BY <2>2
    <3>2. base \in Q(top)
      BY <2>4, <2>5, <3>1
    <3> HIDE DEF base, Q
    <3> QED  BY <3>1, <3>2
  <2>7. ASSUME NEW l \in 0 .. top - 1, NEW a \in P[l + 1]
        PROVE  st(a, l) \in P[l] /\ F[<<a, l>>] = st(a, l)
    <3>1. l \in 0 .. top /\ l + 1 \in 0 .. top /\ l \in Nat /\ l + 1 # 0 /\ l + 1 - 1 = l /\ l <= level
      BY <2>2
    <3>2. P[l + 1] = Q(l + 1) /\ P[l] = Q(l)
      <4> HIDE DEF Q
      <4> QED  BY <3>1
    <3>3. a.g \in Fine(grown, n + 1, {}, id, l + 1) /\ a.ep \in At(grown, l) \ {id}
      BY <2>7, <3>1, <3>2
    <3>4. id \in At(grown, l)
      BY <1>4, <1>6, <3>1 DEF At
    <3>5. st(a, l) \in [g : Fine(grown, n + 1, {}, id, l), ep : At(grown, l) \ {id}]
      BY <1>4, <3>1, <3>3, <3>4, LinkLayerIn
    <3>6. At(grown, l) \subseteq At(grown, IF l = 0 THEN 0 ELSE l - 1)
      <4>1. \A i \in 1 .. n + 1 : Level(grown[i]) \in Nat /\ DOMAIN grown[i].neighbors = 0 .. Level(grown[i])
        BY <1>4, GraphIs
      <4>2. \A i \in 1 .. n + 1 : l \in 0 .. Level(grown[i]) => (IF l = 0 THEN 0 ELSE l - 1) \in 0 .. Level(grown[i])
        BY <3>1, <4>1
      <4> QED  BY <1>4, <4>1, <4>2 DEF At
    <3>7. st(a, l) \in Q(l)
      <4> HIDE DEF st
      <4> QED  BY <3>5, <3>6
    <3>8. F[<<a, l>>] = st(a, l)
      <4> HIDE DEF Q, st
      <4>1. a \in UNION {Q(k) : k \in 0 .. top} /\ l \in 0 .. top
        BY <2>7, <3>1, <3>2
      <4> QED  BY <4>1
    <3> QED  BY <3>2, <3>7, <3>8
  <2> HIDE DEF F, P, st, base, Q
  <2>8. PICK f : Descent(F, base, 0, top, P, f)
    <3>1. Lowers(F, 0, top, P)
      BY <2>7 DEF Lowers
    <3>2. 0 \in Int /\ top \in Int /\ 0 <= top
      BY <2>2
    <3> QED  BY <2>6, <3>1, <3>2, DescentExists
  <2>9. Rec(f)
    <3>1. \A l \in 0 .. top : (IF l = top THEN base ELSE F[<<f[l + 1], l>>]) = (IF l = top THEN base ELSE st(f[l + 1], l))
      <4>1. ASSUME NEW l \in 0 .. top, l # top PROVE l \in 0 .. top - 1 /\ f[l + 1] \in P[l + 1]
        BY <2>2, <2>8, <4>1 DEF Descent
      <4> QED  BY <2>7, <4>1
    <3> QED  BY <2>8, <3>1 DEF Descent
  <2>10. Rec(c)
    BY <2>9, Zenon DEF c
  <2>11. c[top] \in P[top]
    BY <2>6, <2>10
  <2>12. \A l \in 0 .. top - 1 : c[l + 1] \in P[l + 1] => c[l] \in P[l]
    <3> SUFFICES ASSUME NEW l \in 0 .. top - 1, c[l + 1] \in P[l + 1] PROVE c[l] \in P[l]
      OBVIOUS
    <3>1. l \in 0 .. top /\ l # top
      BY <2>2
    <3>2. c[l] = st(c[l + 1], l)
      BY <2>10, <3>1
    <3> QED  BY <2>7, <3>2
  <2>13. c[0] \in P[0]
    <3>1. 0 \in Int /\ top \in Int /\ 0 <= top /\ 0 \in 0 .. top
      BY <2>2
    <3>2. \A l \in 0 .. top : c[l] \in P[l]
      BY <2>11, <2>12, <3>1, DescentStays
    <3> QED  BY <3>1, <3>2
  <2>14. P[0] = Q(0)
    <3>1. 0 \in 0 .. top
      BY <2>2
    <3> QED  BY <3>1 DEF P
  <2> QED  BY <2>13, <2>14 DEF Q
<1> HIDE DEF h
<1>8. /\ GoodGraph(h, n + 1) /\ LiveIn(h) = LiveIn(g) \cup {id}
      /\ \A i \in 1 .. n + 1 : h[i].vector = grown[i].vector /\ Level(h[i]) = Level(grown[i])
  <2>1. CASE e = NoEntry
    BY <1>3, <1>5, <2>1 DEF h
  <2>2. CASE e # NoEntry
    <3>1. 0 \in Int /\ h \in Fine(grown, n + 1, {}, id, 0)
      BY <1>7, <2>2
    <3>2. /\ h \in Graphs(n + 1) /\ DOMAIN h = 1 .. n + 1 /\ LiveIn(h) = LiveIn(grown) /\ VectorsDiffer(h)
          /\ \A i \in 1 .. n + 1 : h[i].vector = grown[i].vector
      BY <1>4, <3>1, FineIs
    <3>3. Same(grown, h) /\ Linked(h) /\ Fits(h, {})
      BY <3>1 DEF Fine
    <3> QED  BY <1>4, <1>5, <3>2, <3>3 DEF GoodGraph, Same, Level
  <2> QED  BY <2>1, <2>2
<1>9. EntryOf(h, x)
  <2>1. /\ Level(h[id]) = level /\ id \in 1 .. n + 1 /\ id # 0
        /\ \A i \in LiveIn(g) : i \in 1 .. n + 1 /\ Level(h[i]) = Level(g[i])
    BY <1>3, <1>4, <1>5, <1>8
  <2>2. CASE e = NoEntry
    <3>1. LiveIn(g) = {} /\ x = [node |-> id, level |-> level]
      BY <2>2 DEF EntryOf
    <3> QED  BY <1>8, <2>1, <3>1 DEF EntryOf, NoEntry, NoNode
  <2>3. CASE e # NoEntry /\ level > e.level
    <3>1. x = [node |-> id, level |-> level]
      BY <2>3 DEF EntryAfterInsert
    <3>2. \A i \in LiveIn(g) : Level(h[i]) <= level
      <4>1. \A i \in LiveIn(g) : Level(h[i]) \in Nat /\ Level(h[i]) <= e.level
        <5>1. \A i \in 1 .. n : Level(g[i]) \in Nat
          BY <1>2, GraphIs
        <5> QED  BY <1>5, <2>1, <2>3, <5>1 DEF EntryOf
      <4>2. e.level \in Nat
        BY DEF EntryOf
      <4> QED  BY <2>3, <4>1, <4>2
    <3>3. id \in LiveIn(h) /\ \A i \in LiveIn(h) : Level(h[i]) <= level
      BY <1>8, <2>1, <3>2
    <3> QED  BY <2>1, <3>1, <3>3 DEF EntryOf, NoEntry, NoNode
  <2>4. CASE e # NoEntry /\ ~(level > e.level)
    <3>1. x = e
      BY <2>4 DEF EntryAfterInsert
    <3>2. e.level \in Nat /\ e.node \in Nat /\ e.node \in LiveIn(g) /\ e.level = Level(g[e.node])
      BY <2>4 DEF EntryOf
    <3>3. level <= e.level
      BY <2>4, <3>2
    <3>4. \A i \in LiveIn(g) : Level(h[i]) <= e.level
      BY <2>1, <2>4 DEF EntryOf
    <3>5. \A i \in LiveIn(h) : Level(h[i]) <= e.level
      BY <1>8, <2>1, <3>3, <3>4
    <3>6. e.node \in LiveIn(h) /\ e.level = Level(h[e.node]) /\ LiveIn(h) # {}
      BY <1>8, <2>1, <3>2
    <3> QED  BY <2>4, <3>1, <3>2, <3>5, <3>6 DEF EntryOf
  <2> QED  BY <2>2, <2>3, <2>4
<1>10. h[n + 1].vector = v /\ \A i \in 1 .. n : h[i].vector = g[i].vector
  <2>1. \A i \in 1 .. n : i \in 1 .. n + 1
    OBVIOUS
  <2> QED  BY <1>2, <1>3, <1>4, <1>8, <2>1
<1> HIDE DEF x
<1>11. /\ GoodGraph(h, n + 1) /\ EntryOf(h, x) /\ LiveIn(h) = LiveIn(g) \cup {n + 1}
       /\ h[n + 1].vector = v /\ \A i \in 1 .. n : h[i].vector = g[i].vector
  BY <1>2, <1>8, <1>9, <1>10
<1> QED  BY <1>1, <1>11

-----------------------------------------------------------------------------
(* The maps between keys and nodes                                         *)

\* KeysMatchLive of two maps and a set of nodes.
KeysMatch(there, back, live) ==
    /\ \A k \in Keys : there[k] # NoNode => back[there[k]] = k
    /\ \A i \in NodeIds : back[i] # NoKey => there[back[i]] = i
    /\ {i \in NodeIds : back[i] # NoKey} = live
MapTypes(there, back) == /\ there \in [Keys -> NodeIds \cup {NoNode}]
                         /\ back \in [NodeIds -> Keys \cup {NoKey}]

Unmapped(there, back, k) == IF there[k] # NoNode THEN [back EXCEPT ![there[k]] = NoKey] ELSE back

\* The sentinels are outside their types.
LEMMA NoneIs == NoKey \notin Keys /\ NoNode \notin NodeIds
<1>1. NoKey \notin Keys
  BY IndexAssumption, Zenon
<1>2. NoNode \notin NodeIds
  BY DEF NoNode, NodeIds
<1> QED  BY <1>1, <1>2

\* unregister takes one node out of the maps.
LEMMA UnmappedIs ==
    ASSUME NEW there, NEW back, MapTypes(there, back), NEW live, KeysMatch(there, back, live),
           NEW k \in Keys
    PROVE  LET t == [there EXCEPT ![k] = NoNode]
               b == Unmapped(there, back, k)
           IN  MapTypes(t, b) /\ KeysMatch(t, b, live \ {there[k]}) /\ t[k] = NoNode
<1> DEFINE t == [there EXCEPT ![k] = NoNode]
           b == Unmapped(there, back, k)
<1>1. /\ there \in [Keys -> NodeIds \cup {NoNode}] /\ back \in [NodeIds -> Keys \cup {NoKey}]
      /\ NoKey \notin Keys /\ NoNode \notin NodeIds
  BY NoneIs DEF MapTypes
<1>2. t \in [Keys -> NodeIds \cup {NoNode}] /\ t[k] = NoNode
      /\ \A j \in Keys : j # k => t[j] = there[j]
  BY <1>1
<1> HIDE DEF t
<1>3. CASE there[k] = NoNode
  <2>1. b = back
    BY <1>3 DEF Unmapped
  <2>2. NoNode \notin live
    BY <1>1 DEF KeysMatch
  <2>3. live \ {there[k]} = live
    BY <1>3, <2>2
  <2>4. \A i \in NodeIds : back[i] # NoKey => back[i] # k
    BY <1>1, <1>3 DEF KeysMatch
  <2>5. KeysMatch(t, back, live)
    BY <1>1, <1>2, <2>4 DEF KeysMatch
  <2> QED  BY <1>1, <1>2, <2>1, <2>3, <2>5 DEF MapTypes, t
<1>4. CASE there[k] # NoNode
  <2> DEFINE d == there[k]
  <2>1. d \in NodeIds /\ back[d] = k
    BY <1>1, <1>4 DEF KeysMatch
  <2>2. b = [back EXCEPT ![d] = NoKey]
    BY <1>4 DEF Unmapped
  <2>3. b \in [NodeIds -> Keys \cup {NoKey}] /\ b[d] = NoKey
        /\ \A i \in NodeIds : i # d => b[i] = back[i]
    BY <1>1, <2>1, <2>2
  <2> HIDE DEF b
  <2>4. ASSUME NEW j \in Keys, t[j] # NoNode PROVE b[t[j]] = j
    <3>1. j # k /\ t[j] = there[j] /\ there[j] \in NodeIds
      BY <1>1, <1>2, <2>4
    <3>2. there[j] # d
      BY <2>1, <3>1, <2>4 DEF KeysMatch
    <3> QED  BY <2>3, <2>4, <3>1, <3>2 DEF KeysMatch
  <2>5. ASSUME NEW i \in NodeIds, b[i] # NoKey PROVE t[b[i]] = i
    <3>1. i # d /\ b[i] = back[i]
      BY <2>3, <2>5
    <3>2. there[back[i]] = i /\ back[i] \in Keys /\ back[i] # k
      BY <1>1, <2>1, <2>5, <3>1 DEF KeysMatch
    <3> QED  BY <1>2, <3>1, <3>2
  <2>6. {i \in NodeIds : b[i] # NoKey} = live \ {d}
    BY <1>1, <2>1, <2>3 DEF KeysMatch
  <2> QED  BY <1>1, <1>2, <2>3, <2>4, <2>5, <2>6 DEF MapTypes, KeysMatch, t, b
<1> QED  BY <1>3, <1>4

\* register adds one node to the maps.
LEMMA MappedIs ==
    ASSUME NEW there, NEW back, MapTypes(there, back), NEW live, KeysMatch(there, back, live),
           NEW k \in Keys, there[k] = NoNode, NEW id \in NodeIds, id \notin live
    PROVE  LET t == [there EXCEPT ![k] = id]
               b == [back EXCEPT ![id] = k]
           IN  MapTypes(t, b) /\ KeysMatch(t, b, live \cup {id})
<1> DEFINE t == [there EXCEPT ![k] = id]
           b == [back EXCEPT ![id] = k]
<1>1. /\ there \in [Keys -> NodeIds \cup {NoNode}] /\ back \in [NodeIds -> Keys \cup {NoKey}]
      /\ NoKey \notin Keys /\ NoNode \notin NodeIds
  BY NoneIs DEF MapTypes
<1>2. t \in [Keys -> NodeIds \cup {NoNode}] /\ t[k] = id
      /\ \A j \in Keys : j # k => t[j] = there[j]
  BY <1>1
<1>3. b \in [NodeIds -> Keys \cup {NoKey}] /\ b[id] = k
      /\ \A i \in NodeIds : i # id => b[i] = back[i]
  BY <1>1
<1> HIDE DEF t, b
<1>4. back[id] = NoKey
  BY DEF KeysMatch
<1>5. ASSUME NEW j \in Keys, t[j] # NoNode PROVE b[t[j]] = j
  <2>1. CASE j = k
    BY <1>2, <1>3, <2>1
  <2>2. CASE j # k
    <3>1. t[j] = there[j] /\ there[j] \in NodeIds /\ back[there[j]] = j
      BY <1>1, <1>2, <1>5, <2>2 DEF KeysMatch
    <3>2. there[j] # id
      BY <1>1, <1>4, <3>1
    <3> QED  BY <1>3, <3>1, <3>2
  <2> QED  BY <2>1, <2>2
<1>6. ASSUME NEW i \in NodeIds, b[i] # NoKey PROVE t[b[i]] = i
  <2>1. CASE i = id
    BY <1>2, <1>3, <2>1
  <2>2. CASE i # id
    <3>1. b[i] = back[i] /\ there[back[i]] = i /\ back[i] \in Keys
      BY <1>1, <1>3, <1>6, <2>2 DEF KeysMatch
    <3>2. back[i] # k
      BY <1>1, <3>1
    <3> QED  BY <1>2, <3>1, <3>2
  <2> QED  BY <2>1, <2>2
<1>7. {i \in NodeIds : b[i] # NoKey} = live \cup {id}
  BY <1>1, <1>3 DEF KeysMatch
<1> QED  BY <1>2, <1>3, <1>5, <1>6, <1>7 DEF MapTypes, KeysMatch, t, b

\* As no vector is inserted twice, there are node ids for all nodes.
LEMMA RoomForNodes ==
    ASSUME NEW n \in Nat, NEW g, GoodGraph(g, n)
    PROVE  1 .. n \subseteq NodeIds
<1> DEFINE f == [i \in 1 .. n |-> g[i].vector]
<1>1. g \in Graphs(n) /\ DOMAIN g = 1 .. n /\ VectorsDiffer(g)
  BY GraphIs DEF GoodGraph
<1>2. f \in [1 .. n -> Vectors] /\ \A i, j \in 1 .. n : f[i] = f[j] => i = j
  BY <1>1, GraphIs DEF VectorsDiffer
<1>3. f \in Injection(1 .. n, Vectors)
  <2> HIDE DEF f
  <2> QED  BY <1>2 DEF Injection, IsInjective
<1>4. IsFiniteSet(Vectors)
  BY IndexAssumption
<1>5. Cardinality(1 .. n) <= Cardinality(Vectors) /\ Cardinality(Vectors) \in Nat
  BY <1>3, <1>4, FS_Injection, FS_CardinalityType
<1>6. Cardinality(1 .. n) = n
  <2>1. 1 \in Int /\ n \in Int
    OBVIOUS
  <2>2. Cardinality(1 .. n) = IF 1 > n THEN 0 ELSE n - 1 + 1
    BY <2>1, FS_Interval
  <2> QED  BY <2>2
<1> QED  BY <1>5, <1>6 DEF NodeIds

-----------------------------------------------------------------------------
(* The inductive invariant                                                 *)

\* The graph and its entry point are good, and the maps cover its live nodes.
IndexInv == /\ GoodGraph(nodes, Len(nodes)) /\ Len(nodes) \in Nat
            /\ EntryOf(nodes, entry)
            /\ MapTypes(key_to_node, node_to_key)
            /\ KeysMatch(key_to_node, node_to_key, LiveIn(nodes))

\* KeysMatch is KeysMatchLive of the current state.
LEMMA KeysMatchIs == KeysMatchLive <=> KeysMatch(key_to_node, node_to_key, LiveIn(nodes))
BY DEF KeysMatchLive, KeysMatch, Live, Indexed

\* The empty index is good.
LEMMA InitIndexInv == Init => IndexInv
<1> SUFFICES ASSUME Init PROVE IndexInv
  OBVIOUS
<1>1. nodes = <<>> /\ Len(nodes) = 0 /\ DOMAIN nodes = {}
  BY DEF Init
<1>2. nodes \in Graphs(0)
  <2>1. 1 .. 0 = {} /\ nodes \in [{} -> Recs(0)]
    BY <1>1
  <2> QED  BY <2>1 DEF Graphs
<1>3. GoodGraph(nodes, 0)
  BY <1>1, <1>2 DEF GoodGraph, VectorsDiffer, Linked, Fits
<1>4. LiveIn(nodes) = {}
  BY <1>1 DEF LiveIn
<1>5. EntryOf(nodes, entry)
  BY <1>4 DEF EntryOf, Init, NoEntry, NoNode
<1>6. MapTypes(key_to_node, node_to_key) /\ KeysMatch(key_to_node, node_to_key, {})
  BY DEF Init, MapTypes, KeysMatch
<1> QED  BY <1>1, <1>3, <1>4, <1>5, <1>6 DEF IndexInv

\* After the node of k, if any, is gone.
LEMMA WithoutGood ==
    ASSUME IndexInv, NEW k \in Keys
    PROVE  LET w == Without(k)
               n == Len(nodes)
               t == [key_to_node EXCEPT ![k] = NoNode]
           IN  /\ GoodGraph(w.g, n) /\ EntryOf(w.g, w.e) /\ Len(w.g) = n /\ n \in Nat
               /\ \A i \in 1 .. n : w.g[i].vector = nodes[i].vector
               /\ DOMAIN nodes = 1 .. n /\ DOMAIN w.g = 1 .. n /\ LiveIn(w.g) \subseteq 1 .. n
               /\ MapTypes(t, unregister(k)) /\ KeysMatch(t, unregister(k), LiveIn(w.g))
               /\ t[k] = NoNode
<1> DEFINE n == Len(nodes)
           t == [key_to_node EXCEPT ![k] = NoNode]
           w == Without(k)
           d == key_to_node[k]
<1>1. /\ GoodGraph(nodes, n) /\ n \in Nat /\ EntryOf(nodes, entry) /\ DOMAIN nodes = 1 .. n
      /\ MapTypes(key_to_node, node_to_key) /\ KeysMatch(key_to_node, node_to_key, LiveIn(nodes))
  BY GraphIs DEF IndexInv, GoodGraph
<1>2. LiveIn(nodes) \subseteq 1 .. n
  BY <1>1 DEF LiveIn
<1>3. /\ MapTypes(t, unregister(k)) /\ KeysMatch(t, unregister(k), LiveIn(nodes) \ {d})
      /\ t[k] = NoNode
  <2>1. unregister(k) = Unmapped(key_to_node, node_to_key, k)
    BY DEF unregister, Unmapped, Indexed
  <2> HIDE DEF t
  <2> QED  BY <1>1, <2>1, UnmappedIs DEF t
<1>4. /\ GoodGraph(w.g, n) /\ EntryOf(w.g, w.e) /\ LiveIn(w.g) = LiveIn(nodes) \ {d}
      /\ \A i \in 1 .. n : w.g[i].vector = nodes[i].vector
  <2>1. CASE Indexed(k)
    <3>1. d \in LiveIn(nodes)
      <4>1. d \in NodeIds /\ node_to_key[d] = k /\ k # NoKey
        BY <1>1, <2>1, NoneIs DEF Indexed, KeysMatch, MapTypes
      <4> QED  BY <1>1, <4>1 DEF KeysMatch
    <3>2. w = delete(nodes, entry, d)
      BY <2>1 DEF Without
    <3> HIDE DEF n, d, w
    <3> QED  BY <1>1, <3>1, <3>2, DeleteGood
  <2>2. CASE ~Indexed(k)
    <3>1. w = [g |-> nodes, e |-> entry] /\ d = NoNode
      BY <2>2 DEF Without, Indexed
    <3>2. NoNode \notin LiveIn(nodes)
      BY <1>2 DEF NoNode
    <3> HIDE DEF n, d, w
    <3> QED  BY <1>1, <3>1, <3>2
  <2> QED  BY <2>1, <2>2
<1> HIDE DEF w
<1>5. DOMAIN w.g = 1 .. n /\ Len(w.g) = n
  <2>1. w.g \in Graphs(n)
    BY <1>4 DEF GoodGraph
  <2> QED  BY <1>1, <2>1, GraphIs
<1> QED  BY <1>1, <1>2, <1>3, <1>4, <1>5 DEF w

\* Delete and put_rejected keep the invariant.
LEMMA RemoveInv ==
    ASSUME IndexInv, NEW k \in Keys, nodes' = Without(k).g, entry' = Without(k).e, Unregisters(k)
    PROVE  IndexInv'
<1> DEFINE t == [key_to_node EXCEPT ![k] = NoNode]
           n == Len(nodes)
           w == Without(k)
<1>1. /\ GoodGraph(w.g, n) /\ EntryOf(w.g, w.e) /\ Len(w.g) = n /\ n \in Nat
      /\ MapTypes(t, unregister(k)) /\ KeysMatch(t, unregister(k), LiveIn(w.g))
  BY WithoutGood
<1>2. key_to_node' = t /\ node_to_key' = unregister(k) /\ nodes' = w.g /\ entry' = w.e
  BY DEF Unregisters
<1> HIDE DEF t, n, w
<1> QED  BY <1>1, <1>2 DEF IndexInv

\* put_indexed keeps the invariant.
LEMMA PutInv ==
    ASSUME IndexInv, NEW k \in Keys, NEW v \in Vectors, NEW level \in Levels,
           put_indexed(k, v, level)
    PROVE  IndexInv'
<1> DEFINE n == Len(nodes)
           t == [key_to_node EXCEPT ![k] = NoNode]
           w == Without(k)
           new == insert(w.g, w.e, v, level)
<1>1. /\ GoodGraph(w.g, n) /\ EntryOf(w.g, w.e) /\ n \in Nat
      /\ \A i \in 1 .. n : w.g[i].vector = nodes[i].vector
      /\ DOMAIN nodes = 1 .. n /\ DOMAIN w.g = 1 .. n /\ LiveIn(w.g) \subseteq 1 .. n
      /\ MapTypes(t, unregister(k)) /\ KeysMatch(t, unregister(k), LiveIn(w.g))
      /\ t[k] = NoNode
  BY WithoutGood
<1>2. /\ nodes' = new.g /\ entry' = new.e
      /\ key_to_node' = [key_to_node EXCEPT ![k] = Len(new.g)]
      /\ node_to_key' = [unregister(k) EXCEPT ![Len(new.g)] = k]
      /\ \A i \in DOMAIN nodes : nodes[i].vector # v
  BY DEF put_indexed, register
<1> HIDE DEF w, n
<1>3. level \in Nat /\ \A i \in DOMAIN w.g : w.g[i].vector # v
  <2>1. level \in Nat
    BY DEF Levels
  <2> QED  BY <1>1, <1>2, <2>1
<1>4. /\ GoodGraph(new.g, n + 1) /\ EntryOf(new.g, new.e) /\ LiveIn(new.g) = LiveIn(w.g) \cup {n + 1}
  BY <1>1, <1>3, InsertGood
<1> HIDE DEF new
<1>5. Len(new.g) = n + 1 /\ n + 1 \in NodeIds /\ n + 1 \notin LiveIn(w.g) /\ n + 1 \in Nat
  <2>1. n + 1 \in Nat /\ n + 1 \in 1 .. n + 1 /\ n + 1 \notin 1 .. n
    BY <1>1
  <2>2. 1 .. n + 1 \subseteq NodeIds
    BY <1>4, <2>1, RoomForNodes
  <2>3. new.g \in Graphs(n + 1)
    BY <1>4 DEF GoodGraph
  <2> QED  BY <1>1, <2>1, <2>2, <2>3, GraphIs
<1>6. key_to_node' = [t EXCEPT ![k] = n + 1]
  <2>1. key_to_node \in [Keys -> NodeIds \cup {NoNode}]
    BY DEF IndexInv, MapTypes
  <2> QED  BY <1>2, <1>5, <2>1
<1> HIDE DEF t
<1>7. MapTypes(key_to_node', node_to_key') /\ KeysMatch(key_to_node', node_to_key', LiveIn(new.g))
  <2>1. node_to_key' = [unregister(k) EXCEPT ![n + 1] = k]
    BY <1>2, <1>5
  <2> DEFINE u == unregister(k)
             live == LiveIn(w.g)
  <2>2. MapTypes(t, u) /\ KeysMatch(t, u, live) /\ t[k] = NoNode
        /\ n + 1 \in NodeIds /\ n + 1 \notin live
    BY <1>1, <1>5
  <2> HIDE DEF u, live
  <2>3. /\ MapTypes([t EXCEPT ![k] = n + 1], [u EXCEPT ![n + 1] = k])
        /\ KeysMatch([t EXCEPT ![k] = n + 1], [u EXCEPT ![n + 1] = k], live \cup {n + 1})
    BY <2>2, MappedIs
  <2> QED  BY <1>4, <1>6, <2>1, <2>3 DEF u, live
<1> QED  BY <1>2, <1>4, <1>5, <1>7 DEF IndexInv

\* What a snapshot says of the keys.
LEMMA SnapshotKeys ==
    ASSUME IndexInv
    PROVE  /\ encode_snapshot.nodes = nodes /\ encode_snapshot.entry = entry
           /\ \A i \in DOMAIN nodes : i \in NodeIds /\ encode_snapshot.keys[i] = node_to_key[i]
           /\ LiveIn(nodes) \subseteq DOMAIN nodes
           /\ \A k \in Keys : DecodedNode(encode_snapshot, k) = key_to_node[k]
<1> DEFINE s == encode_snapshot
           n == Len(nodes)
           keys(i) == {k \in Keys : key_to_node[k] = i}
<1>1. /\ n \in Nat /\ DOMAIN nodes = 1 .. n /\ 1 .. n \subseteq NodeIds
      /\ KeysMatch(key_to_node, node_to_key, LiveIn(nodes)) /\ MapTypes(key_to_node, node_to_key)
      /\ LiveIn(nodes) \subseteq DOMAIN nodes
  BY GraphIs, RoomForNodes DEF IndexInv, GoodGraph, LiveIn
<1>2. NoKey \notin Keys /\ NoNode \notin NodeIds
  BY NoneIs
<1>3. s.nodes = nodes /\ s.entry = entry
      /\ s.keys = [i \in DOMAIN nodes |-> IF keys(i) = {} THEN NoKey ELSE CHOOSE k \in keys(i) : TRUE]
  BY DEF encode_snapshot
<1>4. ASSUME NEW i \in 1 .. n PROVE s.keys[i] = node_to_key[i]
  <2>1. i \in NodeIds
    BY <1>1
  <2>2. CASE node_to_key[i] = NoKey
    <3>1. keys(i) = {}
      BY <1>1, <1>2, <2>1, <2>2 DEF KeysMatch
    <3> QED  BY <1>1, <1>3, <2>2, <3>1
  <2>3. CASE node_to_key[i] # NoKey
    <3>1. keys(i) = {node_to_key[i]}
      BY <1>1, <1>2, <2>1, <2>3 DEF KeysMatch, MapTypes
    <3>2. (CHOOSE k \in {node_to_key[i]} : TRUE) = node_to_key[i]
      OBVIOUS
    <3>3. s.keys[i] = CHOOSE k \in keys(i) : TRUE
      BY <1>1, <1>3, <3>1
    <3> QED  BY <3>1, <3>2, <3>3
  <2> QED  BY <2>2, <2>3
<1> HIDE DEF s
<1>5. ASSUME NEW k \in Keys PROVE DecodedNode(s, k) = key_to_node[k]
  <2> DEFINE ids == {i \in LiveIn(nodes) : node_to_key[i] = k}
  <2>1. DecodedNode(s, k) = IF ids = {} THEN NoNode ELSE Max(ids)
    <3>1. {i \in LiveIn(s.nodes) : s.keys[i] = k} = ids
      BY <1>1, <1>3, <1>4
    <3> HIDE DEF ids
    <3> QED  BY <3>1 DEF DecodedNode
  <2>2. CASE key_to_node[k] = NoNode
    <3>1. ids = {}
      BY <1>1, <1>2, <2>2 DEF KeysMatch
    <3> QED  BY <2>1, <2>2, <3>1
  <2>3. CASE key_to_node[k] # NoNode
    <3> DEFINE d == key_to_node[k]
    <3>1. d \in NodeIds /\ node_to_key[d] = k /\ d \in LiveIn(nodes) /\ d \in 1 .. n
      BY <1>1, <1>2, <2>3 DEF KeysMatch, MapTypes
    <3>2. ids = {d}
      BY <1>1, <3>1 DEF KeysMatch
    <3> HIDE DEF d
    <3>3. Max({d}) = d
      <4>1. {d} \in SUBSET (0 .. n) /\ {d} # {}
        BY <3>1
      <4>2. Max({d}) \in {d}
        BY <1>1, <4>1, MaxOfNats
      <4> QED  BY <4>2
    <3> HIDE DEF ids
    <3> QED  BY <2>1, <3>2, <3>3 DEF d
  <2> QED  BY <2>2, <2>3
<1> QED  BY <1>1, <1>3, <1>4, <1>5 DEF s

\* Reading a snapshot back keeps the invariant.
LEMMA ReloadInv == ASSUME IndexInv, Reload PROVE IndexInv'
<1> DEFINE s == encode_snapshot
<1>1. /\ nodes' = s.nodes /\ entry' = s.entry
      /\ key_to_node' = [k \in Keys |-> DecodedNode(s, k)]
      /\ node_to_key' = [i \in NodeIds |-> IF i \in LiveIn(s.nodes) THEN s.keys[i] ELSE NoKey]
  BY DEF Reload
<1>2. /\ s.nodes = nodes /\ s.entry = entry
      /\ \A i \in DOMAIN nodes : i \in NodeIds /\ s.keys[i] = node_to_key[i]
      /\ LiveIn(nodes) \subseteq DOMAIN nodes
      /\ \A k \in Keys : DecodedNode(s, k) = key_to_node[k]
  BY SnapshotKeys
<1> HIDE DEF s
<1>3. /\ key_to_node \in [Keys -> NodeIds \cup {NoNode}] /\ node_to_key \in [NodeIds -> Keys \cup {NoKey}]
      /\ \A i \in NodeIds : node_to_key[i] # NoKey <=> i \in LiveIn(nodes)
  BY DEF IndexInv, MapTypes, KeysMatch
<1>4. key_to_node' = key_to_node
  BY <1>1, <1>2, <1>3
<1>5. \A i \in NodeIds : (IF i \in LiveIn(s.nodes) THEN s.keys[i] ELSE NoKey) = node_to_key[i]
  BY <1>2, <1>3
<1>6. node_to_key' = node_to_key
  BY <1>1, <1>3, <1>5
<1> QED  BY <1>1, <1>2, <1>4, <1>6 DEF IndexInv

\* The invariant is inductive.
LEMMA NextIndexInv == IndexInv /\ [Next]_vars => IndexInv'
<1> SUFFICES ASSUME IndexInv, [Next]_vars PROVE IndexInv'
  OBVIOUS
<1>1. CASE \E k \in Keys, v \in Vectors, level \in Levels : put_indexed(k, v, level)
  BY <1>1, PutInv
<1>2. ASSUME NEW k \in Keys, Delete(k) PROVE IndexInv'
  BY <1>2, RemoveInv DEF Delete
<1>3. ASSUME NEW k \in Keys, put_rejected(k) PROVE IndexInv'
  BY <1>3, RemoveInv DEF put_rejected
<1>4. CASE Reload
  BY <1>4, ReloadInv
<1>5. CASE UNCHANGED vars
  BY <1>5 DEF vars, IndexInv
<1> QED  BY <1>1, <1>2, <1>3, <1>4, <1>5 DEF Next

\* After every call, whatever mixture of put_indexed, overwrites, refused
\* vectors, deletes and reloads came before, the graph is well formed, the
\* entry point fits it and the two maps fit its live nodes.
THEOREM IndexInvariant == Spec => []IndexInv
<1> QED  BY InitIndexInv, NextIndexInv, PTL DEF Spec

-----------------------------------------------------------------------------
(* What the graph and the maps promise                                     *)

\* insert links and repair_layer_after_delete relinks only nodes that have
\* the layer, so no search indexes a neighbour list that does not exist.
THEOREM EdgesInLayers == Spec => []EdgesWithinLayers
<1>1. IndexInv => EdgesWithinLayers
  <2> SUFFICES ASSUME IndexInv, NEW i \in DOMAIN nodes, NEW l \in DOMAIN nodes[i].neighbors,
                      NEW n \in ToSet(nodes[i].neighbors[l])
               PROVE  n \in DOMAIN nodes /\ n # i /\ l <= Level(nodes[n])
    BY DEF EdgesWithinLayers
  <2>1. n \in DOMAIN nodes /\ n # i /\ l \in DOMAIN nodes[n].neighbors
    BY DEF IndexInv, GoodGraph, Linked
  <2>2. nodes \in Graphs(Len(nodes)) /\ Len(nodes) \in Nat
    BY DEF IndexInv, GoodGraph
  <2>3. DOMAIN nodes = 1 .. Len(nodes)
    BY <2>2, GraphIs
  <2>4. DOMAIN nodes[n].neighbors = 0 .. Level(nodes[n]) /\ Level(nodes[n]) \in Nat
    BY <2>1, <2>2, <2>3, GraphIs
  <2>5. l <= Level(nodes[n])
    BY <2>1, <2>4
  <2> QED  BY <2>1, <2>5
<1> QED  BY <1>1, IndexInvariant, PTL

\* Every push onto a neighbour list, in insert and in repair, is followed by
\* the trimming it needs, for every m and m_max_0: between calls no list is
\* over its cap but the M neighbours a new node got with a cap below M.
THEOREM DegreesBounded == Spec => []DegreeBounded
<1>1. IndexInv => DegreeBounded
  BY DEF IndexInv, GoodGraph, Fits, DegreeBounded
<1> QED  BY <1>1, IndexInvariant, PTL

\* Through insert, delete and pick_new_entry the entry point is a highest
\* live node, and there is none exactly when no node is live.
THEOREM EntryIsHighest == Spec => []EntryHighest
<1>1. IndexInv => EntryHighest
  BY DEF IndexInv, EntryOf, EntryHighest, Live
<1> QED  BY <1>1, IndexInvariant, PTL

\* register and unregister keep key_to_node and node_to_key inverse to each
\* other and in step with the nodes that insert adds and delete marks.
THEOREM KeysMatchLiveNodes == Spec => []KeysMatchLive
<1>1. IndexInv => KeysMatchLive
  BY KeysMatchIs DEF IndexInv
<1> QED  BY <1>1, IndexInvariant, PTL

\* decode_snapshot never refuses what encode_snapshot wrote, and rebuilds the
\* maps the engine had.
THEOREM SnapshotsReadable == Spec => []SnapshotReadable
<1>1. IndexInv => SnapshotReadable
  <2> SUFFICES ASSUME IndexInv PROVE SnapshotReadable
    OBVIOUS
  <2> DEFINE s == encode_snapshot
  <2>1. /\ s.nodes = nodes /\ s.entry = entry
        /\ \A i \in DOMAIN nodes : i \in NodeIds /\ s.keys[i] = node_to_key[i]
        /\ LiveIn(nodes) \subseteq DOMAIN nodes
        /\ \A k \in Keys : DecodedNode(s, k) = key_to_node[k]
    BY SnapshotKeys
  <2> HIDE DEF s
  <2>2. KeysMatch(key_to_node, node_to_key, LiveIn(nodes)) /\ Linked(nodes) /\ EntryOf(nodes, entry)
    BY DEF IndexInv, GoodGraph
  <2>3. \A i \in LiveIn(nodes) : node_to_key[i] # NoKey /\ key_to_node[node_to_key[i]] = i
    BY <2>2 DEF KeysMatch
  <2>4. \A i \in LiveIn(s.nodes) : s.keys[i] # NoKey
    BY <2>1, <2>3
  <2>5. \A i, j \in LiveIn(s.nodes) : i # j => s.keys[i] # s.keys[j]
    <3> SUFFICES ASSUME NEW i \in LiveIn(nodes), NEW j \in LiveIn(nodes), i # j
                 PROVE  s.keys[i] # s.keys[j]
      BY <2>1
    <3>1. s.keys[i] = node_to_key[i] /\ s.keys[j] = node_to_key[j]
      BY <2>1
    <3> QED  BY <2>3, <3>1
  <2>6. \A i \in DOMAIN s.nodes : \A l \in DOMAIN s.nodes[i].neighbors :
            ToSet(s.nodes[i].neighbors[l]) \subseteq DOMAIN s.nodes
    BY <2>1, <2>2 DEF Linked
  <2>7. s.entry # NoEntry => s.entry.node \in DOMAIN s.nodes
                             /\ s.entry.level <= Level(s.nodes[s.entry.node])
    BY <2>1, <2>2 DEF EntryOf
  <2>8. decode_snapshot_accepts(s)
    BY <2>4, <2>5, <2>6, <2>7 DEF decode_snapshot_accepts
  <2> QED  BY <2>1, <2>8 DEF SnapshotReadable, s
<1> QED  BY <1>1, IndexInvariant, PTL

-----------------------------------------------------------------------------
(* The engine's answers                                                    *)

\* The first k elements of a list.
LEMMA FirstIs ==
    ASSUME NEW T, NEW s \in Seq(T), NEW k \in Nat
    PROVE  LET f == First(k, s)
           IN  /\ f \in Seq(T) /\ Len(f) \in Nat /\ DOMAIN f = 1 .. Len(f)
               /\ Len(f) <= k /\ Len(f) <= Len(s) /\ (Len(f) < k => Len(f) = Len(s))
               /\ \A i \in DOMAIN f : i \in DOMAIN s /\ f[i] = s[i]
<1> DEFINE m == Min({k, Len(s)})
<1>1. Len(s) \in Nat /\ DOMAIN s = 1 .. Len(s)
  OBVIOUS
<1>2. m = IF k <= Len(s) THEN k ELSE Len(s)
  BY <1>1, PairIs
<1> HIDE DEF m
<1>3. m \in Nat /\ m <= k /\ m <= Len(s) /\ (m < k => m = Len(s))
  <2> DEFINE c == Len(s)
  <2>1. c \in Nat /\ m = IF k <= c THEN k ELSE c
    BY <1>1, <1>2
  <2> HIDE DEF c
  <2>2. m \in Nat /\ m <= k /\ m <= c /\ (m < k => m = c)
    BY <2>1
  <2> QED  BY <2>2 DEF c
<1> DEFINE f == SubSeq(s, 1, m)
<1>4. f \in Seq(T) /\ Len(f) = m /\ DOMAIN f = 1 .. m /\ \A i \in 1 .. m : f[i] = s[i]
  <2>1. f \in Seq(T) /\ Len(f) = m
    <3> DEFINE c == Len(s)
    <3>1. c \in Nat
      BY <1>1
    <3> HIDE DEF c
    <3>2. 1 \in 1 .. c + 1 /\ m \in 1 - 1 .. c /\ m - 1 + 1 = m /\ (1 <= m \/ m = 0)
      BY <1>3, <3>1 DEF c
    <3>3. f \in Seq(T) /\ Len(f) = IF 1 <= m THEN m - 1 + 1 ELSE 0
      BY <3>2, SubSeqProperties DEF c
    <3> QED  BY <3>2, <3>3
  <2>2. \A i \in 1 .. m : f[i] = s[i]
    <3> DEFINE c == Len(s)
    <3>1. c \in Nat
      BY <1>1
    <3> HIDE DEF c
    <3>2. 1 \in 1 .. c + 1 /\ m \in 1 - 1 .. c
      BY <1>3, <3>1 DEF c
    <3>3. \A i \in 1 .. m - 1 + 1 : f[i] = s[1 + i - 1]
      BY <3>2, SubSeqProperties DEF c
    <3>4. \A i \in 1 .. m : i \in 1 .. m - 1 + 1 /\ 1 + i - 1 = i
      BY <1>3
    <3> HIDE DEF f
    <3> QED  BY <3>3, <3>4
  <2> HIDE DEF f
  <2> QED  BY <2>1, <2>2
<1>5. First(k, s) = f
  BY DEF First, m
<1> HIDE DEF f
<1>6. \A i \in 1 .. m : i \in 1 .. Len(s)
  <2> DEFINE c == Len(s)
  <2>1. c \in Nat /\ m \in Nat /\ m <= c
    BY <1>1, <1>3
  <2> HIDE DEF c
  <2>2. \A i \in 1 .. m : i \in 1 .. c
    BY <2>1
  <2> QED  BY <2>2 DEF c
<1> QED  BY <1>1, <1>3, <1>4, <1>5, <1>6

\* search returns live nodes, closest first.
LEMMA SearchIs ==
    ASSUME IndexInv, NEW q \in Vectors, NEW k \in Nat
    PROVE  /\ search(q, k) \in Seq(LiveIn(nodes)) /\ Len(search(q, k)) <= k
           /\ DOMAIN search(q, k) = 1 .. Len(search(q, k)) /\ Len(search(q, k)) \in Nat
           /\ Sorted(nodes, q, search(q, k))
<1> DEFINE n == Len(nodes)
<1>1. /\ n \in Nat /\ nodes \in Graphs(n) /\ VectorsDiffer(nodes) /\ Linked(nodes)
      /\ EntryOf(nodes, entry) /\ DOMAIN nodes = 1 .. n
  BY GraphIs DEF IndexInv, GoodGraph
<1>2. CASE nodes = <<>> \/ k = 0 \/ entry = NoEntry
  <2>1. search(q, k) = <<>>
    BY <1>2 DEF search
  <2> QED  BY <2>1 DEF Sorted
<1>3. CASE ~(nodes = <<>> \/ k = 0 \/ entry = NoEntry)
  <2> DEFINE ef == Max({EfSearch, 2 * k})
             start == Descend(nodes, q, entry, 0)
             found == search_layer(nodes, q, start, 0, ef)
             hits == Filtered(nodes, found)
             list == ByDistance(nodes, q, hits)
  <2>1. search(q, k) = First(k, list)
    <3>1. search(q, k) = IF nodes = <<>> \/ k = 0 \/ entry = NoEntry THEN <<>> ELSE First(k, list)
      BY DEF search
    <3> HIDE DEF list
    <3> QED  BY <1>3, <3>1
  <2>2. ef \in Nat \ {0}
    <3>1. EfSearch \in Nat
      BY IndexAssumption, Zenon
    <3>2. 2 * k \in Nat /\ 2 * k # 0
      BY <1>3
    <3>3. ef = IF EfSearch >= 2 * k THEN EfSearch ELSE 2 * k
      BY <3>1, <3>2, PairIs
    <3> QED  BY <3>1, <3>2, <3>3
  <2>3. start \in At(nodes, 0)
    <3>1. /\ entry.level \in Nat /\ entry.node \in LiveIn(nodes)
          /\ entry.level = Level(nodes[entry.node])
      BY <1>1, <1>3 DEF EntryOf
    <3>2. entry.node \in 1 .. n /\ entry.level \in 0 .. entry.level
      BY <1>1, <3>1 DEF LiveIn
    <3>3. DOMAIN nodes[entry.node].neighbors = 0 .. entry.level
      BY <1>1, <3>1, <3>2, GraphIs
    <3>4. \A l : NoNode \notin At(nodes, l)
      BY <1>1 DEF At, NoNode
    <3>5. entry.node \in At(nodes, entry.level) \ {NoNode}
      BY <1>1, <3>2, <3>3, <3>4 DEF At
    <3>6. \A l : Closed(nodes, l, At(nodes, l) \ {NoNode})
      <4>1. \A l : At(nodes, l) \ {NoNode} = At(nodes, l)
        BY <3>4
      <4> QED  BY <1>1, <4>1, FineClosed
    <3>7. start \in At(nodes, Min({0, entry.level})) \ {NoNode}
      <4>1. 0 \in Nat /\ entry.level \in Nat
        BY <3>1
      <4> HIDE DEF n
      <4> QED  BY <1>1, <3>5, <3>6, <4>1, DescendIn
    <3>8. Min({0, entry.level}) = 0
      BY <3>1, PairIs
    <3> QED  BY <3>7, <3>8
  <2> HIDE DEF ef, start
  <2>4. found \in SUBSET (1 .. n)
    <3>1. Closed(nodes, 0, At(nodes, 0)) /\ At(nodes, 0) \in SUBSET (1 .. n)
      BY <1>1, FineClosed
    <3> DEFINE W == At(nodes, 0)
    <3> HIDE DEF W, n
    <3>2. found \in SUBSET W
      BY <1>1, <2>2, <2>3, <3>1, SearchIn DEF W
    <3> QED  BY <3>1, <3>2 DEF W
  <2> HIDE DEF found
  <2>5. hits \in SUBSET LiveIn(nodes) /\ hits \in SUBSET (1 .. n)
    BY <1>1, <2>4 DEF Filtered, LiveIn
  <2> HIDE DEF hits
  <2>6. list \in Seq(hits) /\ Sorted(nodes, q, list)
    <3> HIDE DEF n
    <3> QED  BY <1>1, <2>5, ByDistanceIs
  <2> HIDE DEF list
  <2>7. list \in Seq(LiveIn(nodes))
    <3> DEFINE S == LiveIn(nodes)
    <3>1. hits \subseteq S
      BY <2>5
    <3> HIDE DEF S
    <3> QED  BY <2>6, <3>1 DEF S
  <2> DEFINE f == First(k, list)
  <2>8. /\ f \in Seq(LiveIn(nodes)) /\ Len(f) \in Nat /\ DOMAIN f = 1 .. Len(f) /\ Len(f) <= k
        /\ \A i \in DOMAIN f : i \in DOMAIN list /\ f[i] = list[i]
    BY <2>7, FirstIs
  <2> HIDE DEF f
  <2>9. Sorted(nodes, q, f)
    BY <2>6, <2>8 DEF Sorted
  <2> QED  BY <2>1, <2>8, <2>9 DEF f
<1> QED  BY <1>2, <1>3

\* keys, in an order, with nodes closer and closer to q.
LEMMA KeysOfIs ==
    ASSUME IndexInv, NEW q \in Vectors, NEW hits \in Seq(LiveIn(nodes)), Sorted(nodes, q, hits)
    PROVE  LET r == KeysOf(hits)
           IN  /\ r \in Seq(Keys) /\ Len(r) = Len(hits) /\ DOMAIN r = 1 .. Len(r) /\ Len(r) \in Nat
               /\ \A i \in DOMAIN r : Indexed(r[i])
               /\ Ascending(q, r)
<1> DEFINE S == {id \in NodeIds : node_to_key[id] # NoKey}
           known == Kept(hits, S)
           r == KeysOf(hits)
<1>1. /\ KeysMatch(key_to_node, node_to_key, LiveIn(nodes))
      /\ MapTypes(key_to_node, node_to_key)
  BY DEF IndexInv
<1>2. S = LiveIn(nodes)
  BY <1>1 DEF KeysMatch
<1>3. \A id \in LiveIn(nodes) : /\ id \in NodeIds /\ node_to_key[id] \in Keys
                                /\ key_to_node[node_to_key[id]] = id /\ id # NoNode
  BY <1>1, NoneIs DEF KeysMatch, MapTypes
<1>4. r = [i \in DOMAIN known |-> node_to_key[known[i]]]
  BY DEF KeysOf
<1> HIDE DEF S, r
<1>5. Len(hits) \in Nat /\ DOMAIN hits = 1 .. Len(hits) /\ \A j \in 1 .. Len(hits) : hits[j] \in S
  BY <1>2
<1>6. known \in Seq(LiveIn(nodes)) /\ KeptTo(hits, S, Len(hits), known)
  BY KeptIs
<1> HIDE DEF known
<1>7. /\ Len(known) = Len(hits) /\ DOMAIN known = 1 .. Len(hits)
      /\ \A i \in 1 .. Len(hits) : known[i] \in LiveIn(nodes)
  <2>1. Len(known) = Len(hits)
    BY <1>5, <1>6 DEF KeptTo
  <2> QED  BY <1>6, <2>1
<1>8. r \in Seq(Keys) /\ Len(r) = Len(hits) /\ DOMAIN r = 1 .. Len(r)
  <2>1. r \in [1 .. Len(hits) -> Keys]
    BY <1>3, <1>4, <1>7
  <2> QED  BY <1>5, <2>1
<1>9. \A i \in DOMAIN r : key_to_node[r[i]] = known[i] /\ known[i] # NoNode /\ i \in DOMAIN known
  BY <1>3, <1>4, <1>7
<1>10. Ascending(q, r)
  <2> SUFFICES ASSUME NEW i \in DOMAIN r, NEW j \in DOMAIN r, i < j
               PROVE  distance(nodes, q, key_to_node[r[i]]) < distance(nodes, q, key_to_node[r[j]])
    BY DEF Ascending
  <2>1. PICK a \in 1 .. Len(hits), b \in 1 .. Len(hits) :
            a < b /\ known[i] = hits[a] /\ known[j] = hits[b]
    BY <1>6, <1>9 DEF KeptTo
  <2> QED  BY <1>5, <1>9, <2>1 DEF Sorted
<1> QED  BY <1>5, <1>8, <1>9, <1>10 DEF r, Indexed

\* nearest returns at most k keys of live vectors, closest first, and drops no
\* hit of the search for want of a key.
THEOREM NearestIsSound == Spec => []NearestSound
<1>1. IndexInv => NearestSound
  <2> SUFFICES ASSUME IndexInv, NEW q \in Queries, NEW k \in Ks
               PROVE  LET r == nearest(q, k)
                      IN  /\ Len(r) <= k /\ Len(r) = Len(search(q, k))
                          /\ \A i \in DOMAIN r : Indexed(r[i])
                          /\ Ascending(q, r)
    BY DEF NearestSound
  <2>1. q \in Vectors /\ k \in Nat
    BY IndexAssumption, Zenon
  <2> DEFINE hits == search(q, k)
  <2>2. hits \in Seq(LiveIn(nodes)) /\ Len(hits) <= k /\ Len(hits) \in Nat /\ Sorted(nodes, q, hits)
    BY <2>1, SearchIs
  <2>3. nearest(q, k) = KeysOf(hits)
    BY DEF nearest
  <2> HIDE DEF hits
  <2> DEFINE r == KeysOf(hits)
  <2>4. Len(r) = Len(hits) /\ (\A i \in DOMAIN r : Indexed(r[i])) /\ Ascending(q, r)
    BY <2>1, <2>2, KeysOfIs
  <2> HIDE DEF r
  <2>5. Len(r) <= k
    BY <2>2, <2>4
  <2> QED  BY <2>3, <2>4, <2>5 DEF r, hits
<1> QED  BY <1>1, IndexInvariant, PTL

-----------------------------------------------------------------------------
(* Filtered searches                                                       *)

\* The number of live nodes.
LEMMA LiveCount ==
    ASSUME IndexInv
    PROVE  /\ Len(nodes) \in Nat /\ DOMAIN nodes = 1 .. Len(nodes)
           /\ Cardinality(LiveIn(nodes)) \in Nat /\ Cardinality(LiveIn(nodes)) <= Len(nodes)
           /\ LiveIn(nodes) = {} <=> Cardinality(LiveIn(nodes)) = 0
<1> DEFINE n == Len(nodes)
           live == LiveIn(nodes)
<1>1. n \in Nat /\ DOMAIN nodes = 1 .. n
  BY GraphIs DEF IndexInv, GoodGraph
<1>2. live \in SUBSET (1 .. n)
  BY <1>1 DEF LiveIn
<1> HIDE DEF n, live
<1>3. Cardinality(live) \in Nat /\ Cardinality(live) <= n /\ (live = {} <=> Cardinality(live) = 0)
  BY <1>1, <1>2, SmallSets
<1> QED  BY <1>1, <1>3 DEF n, live

\* One over-query returns the first k of the keys that pass, in their order.
LEMMA AttemptIs ==
    ASSUME IndexInv, NEW q \in Vectors, NEW k \in Nat, NEW pass \in SUBSET Keys, NEW factor \in Nat
    PROVE  LET a == Attempt(q, k, pass, factor)
               live == Cardinality(LiveIn(nodes))
           IN  /\ a.factor = factor /\ a.done \in BOOLEAN
               /\ Len(a.r) <= k /\ ToSet(a.r) \subseteq pass /\ Ascending(q, a.r)
               /\ k * factor >= live => a.done
               /\ a.done /\ Len(a.r) < k => ToSet(a.r) = Passing(pass, nearest(q, live))
<1> DEFINE live == Cardinality(LiveIn(nodes))
           asked == Min({k * factor, live})
           keys == KeysOf(search(q, asked))
           kept == Kept(keys, pass)
           r == First(k, kept)
           a == Attempt(q, k, pass, factor)
<1>1. a = [factor |-> factor, r |-> r, done |-> FilterDone(Len(r), k, asked, live)]
  BY DEF Attempt
<1>2. live \in Nat /\ k * factor \in Nat
  BY LiveCount
<1>3. asked \in Nat /\ (asked = IF k * factor <= live THEN k * factor ELSE live)
  <2> HIDE DEF live
  <2> DEFINE x == k * factor
  <2>1. x \in Nat
    BY <1>2
  <2> HIDE DEF x
  <2>2. Min({x, live}) = IF x <= live THEN x ELSE live
    BY <1>2, <2>1, PairIs
  <2>3. Min({x, live}) \in Nat
    BY <1>2, <2>1, <2>2
  <2> QED  BY <2>2, <2>3 DEF x
<1> HIDE DEF asked, live
<1>4. keys \in Seq(Keys) /\ DOMAIN keys = 1 .. Len(keys) /\ Len(keys) \in Nat /\ Ascending(q, keys)
  <2> DEFINE hits == search(q, asked)
  <2>1. hits \in Seq(LiveIn(nodes)) /\ Sorted(nodes, q, hits)
    BY <1>3, SearchIs
  <2> HIDE DEF hits
  <2> DEFINE u == KeysOf(hits)
  <2>2. u \in Seq(Keys) /\ DOMAIN u = 1 .. Len(u) /\ Len(u) \in Nat /\ Ascending(q, u)
    BY <2>1, KeysOfIs
  <2> QED  BY <2>2 DEF hits
<1>5. keys = nearest(q, asked)
  BY DEF nearest
<1> HIDE DEF keys
<1>6. /\ kept \in Seq(Keys) /\ KeptTo(keys, pass, Len(keys), kept) /\ DOMAIN kept = 1 .. Len(kept)
      /\ ToSet(kept) = ToSet(keys) \cap pass
  BY <1>4, KeptIs, KeptSome
<1>7. Ascending(q, kept)
  <2> SUFFICES ASSUME NEW i \in DOMAIN kept, NEW j \in DOMAIN kept, i < j
               PROVE  distance(nodes, q, key_to_node[kept[i]]) < distance(nodes, q, key_to_node[kept[j]])
    BY DEF Ascending
  <2>1. PICK b \in 1 .. Len(keys), c \in 1 .. Len(keys) : b < c /\ kept[i] = keys[b] /\ kept[j] = keys[c]
    BY <1>6 DEF KeptTo
  <2> QED  BY <1>4, <2>1 DEF Ascending
<1> HIDE DEF kept
<1>8. /\ r \in Seq(Keys) /\ Len(r) \in Nat /\ DOMAIN r = 1 .. Len(r) /\ Len(r) <= k
      /\ (Len(r) < k => Len(r) = Len(kept))
      /\ \A i \in DOMAIN r : i \in DOMAIN kept /\ r[i] = kept[i]
  BY <1>6, FirstIs
<1> HIDE DEF r
<1>9. ToSet(r) \subseteq ToSet(kept) /\ Ascending(q, r)
  BY <1>7, <1>8 DEF ToSet, Ascending
<1>10. Len(r) < k => ToSet(r) = ToSet(kept)
  BY <1>6, <1>8 DEF ToSet
<1>11. a.factor = factor /\ a.r = r /\ a.done = (Len(r) = k \/ asked >= live)
  BY <1>1 DEF FilterDone
<1> HIDE DEF a
<1>12. k * factor >= live => asked >= live
  <2> DEFINE x == k * factor
  <2>1. x \in Nat /\ asked = IF x <= live THEN x ELSE live
    BY <1>2, <1>3
  <2> HIDE DEF x
  <2>2. x >= live => asked >= live
    BY <1>2, <2>1
  <2> QED  BY <2>2 DEF x
<1>13. asked >= live => asked = live
  <2> DEFINE x == k * factor
  <2>1. x \in Nat /\ asked = IF x <= live THEN x ELSE live
    BY <1>2, <1>3
  <2> HIDE DEF x
  <2> QED  BY <1>2, <2>1
<1>14. ASSUME a.done, Len(a.r) < k PROVE ToSet(a.r) = Passing(pass, nearest(q, live))
  <2>1. asked = live
    <3> DEFINE y == Len(r)
    <3>1. y \in Nat /\ y < k /\ (y = k \/ asked >= live)
      BY <1>8, <1>11, <1>14
    <3> HIDE DEF y
    <3>2. asked >= live
      BY <3>1
    <3> QED  BY <1>13, <3>2
  <2>2. ToSet(a.r) = ToSet(keys) \cap pass
    BY <1>6, <1>10, <1>11, <1>14
  <2> QED  BY <1>5, <2>1, <2>2 DEF Passing
<1>15. /\ a.factor = factor /\ a.done \in BOOLEAN
       /\ Len(a.r) <= k /\ ToSet(a.r) \subseteq pass /\ Ascending(q, a.r)
       /\ k * factor >= live => a.done
  BY <1>6, <1>8, <1>9, <1>11, <1>12
<1> QED  BY <1>14, <1>15 DEF a, live

\* The factor doubles until the search is for every live node.
LEMMA WidenedIs ==
    ASSUME IndexInv, NEW q \in Vectors, NEW k \in Nat, k # 0, NEW pass \in SUBSET Keys
    PROVE  \E factor \in Nat :
              LET a == Attempt(q, k, pass, factor)
              IN  a.done /\ Widened(q, k, pass, Attempt(q, k, pass, FilterFactor)) = a
<1> DEFINE n == Len(nodes)
           at(factor) == Attempt(q, k, pass, factor)
           D == {at(factor) : factor \in Nat \ {0}}
           st(a) == IF a.done THEN a ELSE at(2 * a.factor)
           F == WidenStep(D, n, q, k, pass)
           base == at(FilterFactor)
           last == Widened(q, k, pass, base)
<1>1. n \in Nat /\ DOMAIN nodes = 1 .. n /\ Cardinality(LiveIn(nodes)) \in Nat
      /\ Cardinality(LiveIn(nodes)) <= n
  BY LiveCount
<1>2. \A factor \in Nat : /\ at(factor).factor = factor
                          /\ k * factor >= Cardinality(LiveIn(nodes)) => at(factor).done
  <2> SUFFICES ASSUME NEW factor \in Nat
               PROVE  /\ at(factor).factor = factor
                      /\ k * factor >= Cardinality(LiveIn(nodes)) => at(factor).done
    OBVIOUS
  <2> DEFINE a == Attempt(q, k, pass, factor)
  <2>1. /\ a.factor = factor
        /\ k * factor >= Cardinality(LiveIn(nodes)) => a.done
    <3> DEFINE live == Cardinality(LiveIn(nodes))
    <3>1. /\ a.factor = factor /\ a.done \in BOOLEAN
          /\ Len(a.r) <= k /\ ToSet(a.r) \subseteq pass /\ Ascending(q, a.r)
          /\ k * factor >= live => a.done
          /\ a.done /\ Len(a.r) < k => ToSet(a.r) = Passing(pass, nearest(q, live))
      BY AttemptIs
    <3> HIDE DEF a, live
    <3>2. a.factor = factor /\ (k * factor >= live => a.done)
      BY <3>1
    <3> QED  BY <3>2 DEF live
  <2> HIDE DEF a
  <2>2. at(factor) = a
    BY DEF a
  <2> HIDE DEF at
  <2> QED  BY <2>1, <2>2
<1> DEFINE live == Cardinality(LiveIn(nodes))
<1> HIDE DEF at, n, live
<1>3. FilterFactor \in Nat \ {0}
  BY IndexAssumption, Zenon
<1>4. \A a \in D : a = at(a.factor) /\ a.factor \in Nat \ {0} /\ st(a) \in D
  <2> SUFFICES ASSUME NEW f \in Nat \ {0} PROVE at(f) = at(at(f).factor) /\ at(f).factor \in Nat \ {0} /\ st(at(f)) \in D
    OBVIOUS
  <2>1. at(f).factor = f
    BY <1>2
  <2>2. 2 * f \in Nat \ {0}
    OBVIOUS
  <2> QED  BY <2>1, <2>2
<1>5. base \in D
  BY <1>3
<1>6. Leads(F, base, n, D, last)
  <2>1. \A a \in D, i \in 1 .. n : (IF a.done THEN a ELSE Attempt(q, k, pass, 2 * a.factor)) \in D
    BY <1>4 DEF at
  <2> HIDE DEF D, base
  <2> QED  BY <1>1, <1>5, <2>1, WidenRuns
<1>7. PICK s : Run(F, base, n, D, s) /\ s[n] = last
  BY <1>6 DEF Leads
<1>8. s[0] = base /\ \A i \in 1 .. n : s[i] = st(s[i - 1]) /\ s[i] \in D /\ s[i - 1] \in D
  <2>1. \A i \in 1 .. n : i - 1 \in 0 .. n /\ i \in 0 .. n
    BY <1>1
  <2>2. \A i \in 1 .. n : s[i] = F[<<s[i - 1], i>>] /\ s[i] \in D /\ s[i - 1] \in D
    <3> HIDE DEF D, F
    <3> QED  BY <1>7, <2>1 DEF Run
  <2>3. \A a \in D, i \in 1 .. n : F[<<a, i>>] = st(a)
    <3> HIDE DEF D
    <3> QED  BY DEF WidenStep, at
  <2>4. s[0] = base
    BY <1>7 DEF Run
  <2> HIDE DEF D, F, st
  <2> QED  BY <2>2, <2>3, <2>4
<1> DEFINE S == {i \in 0 .. n : s[i].done \/ s[i].factor >= i + 1}
<1>9. 0 \in S
  <2>1. base.factor = FilterFactor /\ FilterFactor >= 0 + 1
    BY <1>2, <1>3
  <2>2. 0 \in 0 .. n
    BY <1>1
  <2> HIDE DEF base
  <2> QED  BY <1>8, <2>1, <2>2
<1>10. ASSUME NEW i \in 1 .. n, i - 1 \in S PROVE i \in S
  <2> DEFINE a == s[i - 1]
  <2>1. s[i] = st(a) /\ a \in D /\ i \in 0 .. n
    <3>1. i \in 0 .. n
      BY <1>1
    <3> HIDE DEF D, st
    <3> QED  BY <1>8, <3>1
  <2>2. a.done \/ a.factor >= i
    <3>1. a.done \/ a.factor >= (i - 1) + 1
      BY <1>10
    <3>2. (i - 1) + 1 = i
      BY <1>1
    <3> HIDE DEF a
    <3> QED  BY <3>1, <3>2
  <2>3. a.factor \in Nat \ {0}
    BY <1>4, <2>1
  <2>4. CASE a.done
    BY <2>1, <2>4
  <2>5. CASE ~a.done
    <3>1. s[i] = at(2 * a.factor) /\ 2 * a.factor \in Nat
      BY <2>1, <2>3, <2>5
    <3>2. s[i].factor = 2 * a.factor
      BY <1>2, <3>1
    <3>3. 2 * a.factor >= i + 1
      <4> DEFINE f == a.factor
      <4>1. f \in Nat \ {0} /\ f >= i /\ i \in Nat
        BY <1>1, <2>2, <2>3, <2>5
      <4> HIDE DEF f
      <4>2. 2 * f >= i + 1
        BY <4>1
      <4> QED  BY <4>2 DEF f
    <3> QED  BY <2>1, <3>2, <3>3
  <2> QED  BY <2>4, <2>5
<1>11. n \in S
  <2> HIDE DEF S
  <2>1. \A i \in 0 .. n : i \in S
    BY <1>1, <1>9, <1>10, UpTo
  <2> QED  BY <1>1, <2>1
<1>12. last \in D
  <2> HIDE DEF D, F
  <2> QED  BY <1>1, <1>6, LeadsIn
<1>13. last.done
  <2> SUFFICES ASSUME last.factor >= n + 1 PROVE last.done
    BY <1>7, <1>11
  <2> DEFINE f == last.factor
  <2>1. last = at(f) /\ f \in Nat
    BY <1>4, <1>12
  <2> HIDE DEF last
  <2>2. f >= n + 1
    BY DEF last
  <2> HIDE DEF f
  <2>3. k * f >= live
    <3>1. k * f >= f
      BY <2>1
    <3>2. live \in Nat /\ live <= n /\ k * f \in Nat
      BY <1>1, <2>1 DEF live
    <3> QED  BY <1>1, <2>1, <2>2, <3>1, <3>2
  <2> QED  BY <1>2, <2>1, <2>3 DEF live
<1>14. last = at(last.factor) /\ last.factor \in Nat
  BY <1>4, <1>12
<1> QED  BY <1>13, <1>14 DEF at

\* The doubling of nearest_filtered ends, and it returns fewer than k keys
\* only when even the search for every live node finds no other that passes.
THEOREM FilteredSearchExhausts == Spec => []FilteredExhaustsSearch
<1>1. IndexInv => FilteredExhaustsSearch
  <2> SUFFICES ASSUME IndexInv, NEW q \in Queries, NEW k \in Ks,
                      NEW pass \in SUBSET {x \in Keys : Indexed(x)}
               PROVE  LET r == nearest_filtered(q, k, pass)
                      IN  /\ Len(r) <= k /\ ToSet(r) \subseteq pass /\ Ascending(q, r)
                          /\ Len(r) < k => ToSet(r) = Passing(pass, nearest(q, Cardinality(Live)))
    BY DEF FilteredExhaustsSearch
  <2>1. q \in Vectors /\ k \in Nat
    BY IndexAssumption, Zenon
  <2>2. pass \in SUBSET Keys
    OBVIOUS
  <2>3. ToSet(<<>>) = {} /\ Len(<<>>) = 0 /\ Ascending(q, <<>>)
    BY DEF ToSet, Ascending
  <2>4. CASE k = 0
    <3>1. nearest_filtered(q, k, pass) = <<>>
      BY <2>4 DEF nearest_filtered
    <3>2. ~(0 < k) /\ 0 <= k
      BY <2>4
    <3> QED  BY <2>3, <3>1, <3>2
  <2>5. CASE LiveIn(nodes) = {}
    <3>1. nearest_filtered(q, k, pass) = <<>>
      BY <2>5 DEF nearest_filtered
    <3>2. Cardinality(Live) = 0
      BY <2>5, LiveCount DEF Live
    <3>3. search(q, 0) = <<>>
      BY DEF search
    <3>4. ToSet(nearest(q, 0)) = {}
      <4> DEFINE hits == search(q, 0)
                 u == KeysOf(hits)
      <4>1. hits \in Seq(LiveIn(nodes)) /\ Sorted(nodes, q, hits) /\ Len(hits) = 0
        BY <2>1, <3>3, SearchIs
      <4> HIDE DEF hits
      <4>2. Len(u) = 0 /\ DOMAIN u = 1 .. Len(u)
        BY <2>1, <4>1, KeysOfIs
      <4>3. ToSet(u) = {}
        BY <4>2 DEF ToSet
      <4> QED  BY <4>3 DEF nearest, hits
    <3>5. Passing(pass, nearest(q, Cardinality(Live))) = {}
      BY <3>2, <3>4 DEF Passing
    <3>6. 0 <= k
      BY <2>1
    <3> QED  BY <2>3, <3>1, <3>5, <3>6
  <2>6. CASE k # 0 /\ LiveIn(nodes) # {}
    <3> DEFINE last == Widened(q, k, pass, Attempt(q, k, pass, FilterFactor))
    <3>1. nearest_filtered(q, k, pass) = last.r
      BY <2>6 DEF nearest_filtered
    <3> HIDE DEF last
    <3>2. PICK factor \in Nat : Attempt(q, k, pass, factor).done /\ last = Attempt(q, k, pass, factor)
      BY <2>1, <2>2, <2>6, WidenedIs DEF last
    <3>3. /\ Len(last.r) <= k /\ ToSet(last.r) \subseteq pass /\ Ascending(q, last.r)
          /\ Len(last.r) < k => ToSet(last.r) = Passing(pass, nearest(q, Cardinality(LiveIn(nodes))))
      BY <2>1, <2>2, <3>2, AttemptIs
    <3> QED  BY <3>1, <3>3 DEF Live
  <2> QED  BY <2>4, <2>5, <2>6
<1> QED  BY <1>1, IndexInvariant, PTL

-----------------------------------------------------------------------------
(* A beam as wide as the arena                                             *)

Shut(C, layer) == Successors(C, layer) \subseteq C

\* What Successors returns.
LEMMA SuccessorsAre ==
    ASSUME NEW S, NEW layer
    PROVE  /\ \A x \in Successors(S, layer) : \E i \in S : x \in ToSet(nodes[i].neighbors[layer])
           /\ \A i \in S : ToSet(nodes[i].neighbors[layer]) \subseteq Successors(S, layer)
BY DEF Successors

\* More nodes have more successors.
LEMMA SuccessorsGrow ==
    ASSUME NEW S, NEW C, S \subseteq C, NEW layer
    PROVE  Successors(S, layer) \subseteq Successors(C, layer)
BY DEF Successors

\* ReachableFrom is the smallest set with the start that no edge leaves.
LEMMA ReachIs ==
    ASSUME NEW n \in Nat, DOMAIN nodes = 1 .. n, NEW layer, NEW W \in SUBSET (1 .. n),
           Closed(nodes, layer, W), NEW start \in W
    PROVE  LET R == ReachableFrom(start, layer)
           IN  /\ R \in SUBSET W /\ start \in R /\ Shut(R, layer)
               /\ \A C : start \in C /\ Shut(C, layer) => R \subseteq C
<1> DEFINE R == ReachableFrom(start, layer)
           D == SUBSET W
           F == GrowStep(D, n, layer)
           next(S) == S \cup Successors(S, layer)
<1>1. ASSUME NEW S \in D PROVE next(S) \in D
  BY SuccessorsAre DEF Closed
<1>2. Leads(F, {start}, n, D, R)
  <2>1. {start} \in D
    OBVIOUS
  <2> HIDE DEF D, R
  <2> QED  BY <1>1, <2>1, GrowRuns DEF R
<1> HIDE DEF R
<1>3. PICK k : Run(F, {start}, n, D, k) /\ k[n] = R
  BY <1>2 DEF Leads
<1>4. \A i \in 1 .. n : k[i - 1] \in D /\ k[i] \in D /\ k[i] = next(k[i - 1])
  <2>1. \A i \in 1 .. n : i - 1 \in 0 .. n /\ i \in 0 .. n
    OBVIOUS
  <2> HIDE DEF D
  <2> QED  BY <1>3, <2>1 DEF Run, GrowStep
<1>5. k[0] = {start} /\ n \in 0 .. n /\ 0 \in 0 .. n /\ \A i \in 0 .. n : k[i] \in D
  BY <1>3 DEF Run
<1>6. ASSUME NEW C, start \in C, Shut(C, layer) PROVE R \subseteq C
  <2> DEFINE S == {i \in 0 .. n : k[i] \subseteq C}
  <2>1. 0 \in S
    BY <1>5, <1>6
  <2>2. ASSUME NEW i \in 1 .. n, i - 1 \in S PROVE i \in S
    <3>1. k[i - 1] \subseteq C /\ i \in 0 .. n
      BY <2>2
    <3>2. Successors(k[i - 1], layer) \subseteq C
      BY <1>6, <3>1, SuccessorsGrow DEF Shut
    <3> QED  BY <1>4, <3>1, <3>2
  <2> HIDE DEF S
  <2>3. n \in S
    BY <1>5, <2>1, <2>2, UpTo
  <2> QED  BY <1>3, <2>3 DEF S
<1>7. start \in R
  <2> DEFINE S == {i \in 0 .. n : start \in k[i]}
  <2>1. 0 \in S
    BY <1>5
  <2>2. ASSUME NEW i \in 1 .. n, i - 1 \in S PROVE i \in S
    BY <1>4, <2>2
  <2> HIDE DEF S
  <2>3. n \in S
    BY <1>5, <2>1, <2>2, UpTo
  <2> QED  BY <1>3, <2>3 DEF S
<1>8. R \in D
  BY <1>3, <1>5
<1>9. Shut(R, layer)
  <2> DEFINE S == {i \in 0 .. n : Shut(k[i], layer) \/ Cardinality(k[i]) >= i + 1}
  <2>1. 0 \in S
    <3>1. Cardinality(k[0]) >= 0 + 1
      <4>1. {start} \in SUBSET (1 .. n) /\ {start} # {}
        OBVIOUS
      <4>2. Cardinality({start}) \in Nat /\ Cardinality({start}) # 0
        BY <4>1, SmallSets
      <4> QED  BY <1>5, <4>2
    <3> QED  BY <1>5, <3>1
  <2>2. ASSUME NEW i \in 1 .. n, i - 1 \in S PROVE i \in S
    <3> DEFINE a == k[i - 1]
               b == k[i]
    <3>0. b = next(a) /\ a \in D /\ b \in D
      <4> HIDE DEF D, next
      <4> QED  BY <1>4
    <3>1. b = next(a) /\ a \in SUBSET (1 .. n) /\ b \in SUBSET (1 .. n) /\ i \in 0 .. n
      <4>1. \A z \in D : z \in SUBSET (1 .. n)
        OBVIOUS
      <4>2. i \in 0 .. n
        OBVIOUS
      <4> HIDE DEF D, next, a, b
      <4> QED  BY <3>0, <4>1, <4>2
    <3>2. Shut(a, layer) \/ Cardinality(a) >= (i - 1) + 1
      BY <2>2
    <3> HIDE DEF a, b
    <3>3. CASE Shut(a, layer)
      <4>1. b = a
        BY <3>1, <3>3 DEF Shut
      <4> QED  BY <3>1, <3>3, <4>1 DEF b
    <3>4. CASE ~Shut(a, layer)
      <4>1. a \subseteq b /\ a # b
        BY <3>1, <3>4 DEF Shut
      <4>2. /\ Cardinality(a) \in Nat /\ Cardinality(b) \in Nat
            /\ Cardinality(a) <= Cardinality(b) /\ Cardinality(a) # Cardinality(b)
        BY <3>1, <4>1, SmallSets
      <4>3. Cardinality(b) >= i + 1
        BY <3>2, <3>4, <4>2
      <4> QED  BY <3>1, <4>3 DEF b
    <3> QED  BY <3>3, <3>4
  <2> HIDE DEF S
  <2>3. n \in S
    BY <1>5, <2>1, <2>2, UpTo
  <2>4. Cardinality(R) \in Nat /\ Cardinality(R) <= n
    <3>1. R \in SUBSET (1 .. n)
      BY <1>8
    <3> QED  BY <3>1, SmallSets
  <2> QED  BY <1>3, <2>3, <2>4 DEF S
<1> QED  BY <1>6, <1>7, <1>8, <1>9 DEF R

\* The states of a search among R whose results are all it visited.
WideStates(R, start) ==
    {s \in [visited : SUBSET R, candidates : SUBSET R, results : SUBSET R] :
        s.results = s.visited /\ s.candidates \subseteq s.visited /\ start \in s.visited}
Expanded(s) == s.visited \ s.candidates
WideSearch(R, start, layer) ==
    {s \in WideStates(R, start) : Successors(Expanded(s), layer) \subseteq s.visited}

\* t is s once x is visited.
VisitedToo(R, start, s, x, t) == /\ t \in WideStates(R, start) /\ Expanded(t) = Expanded(s)
                                 /\ t.visited = s.visited \cup {x}

\* Visiting one more neighbour keeps all results and the expanded nodes.
LEMMA WideVisit ==
    ASSUME NEW n \in Nat, NEW g, NEW q, NEW R \in SUBSET (1 .. n), NEW start,
           NEW s \in WideStates(R, start), NEW x \in R
    PROVE  VisitedToo(R, start, s, x, visit(g, q, n, s, x))
<1> DEFINE t == visit(g, q, n, s, x)
<1>1. /\ s.visited \in SUBSET R /\ s.candidates \in SUBSET R /\ s.results = s.visited
      /\ s.candidates \subseteq s.visited /\ start \in s.visited
  BY DEF WideStates
<1>2. CASE x \in s.visited
  <2>1. t = s
    BY <1>2 DEF visit
  <2> HIDE DEF t
  <2> QED  BY <1>1, <1>2, <2>1 DEF t, VisitedToo
<1>3. CASE x \notin s.visited
  <2> DEFINE wider == s.results \cup {x}
             worst == distance(g, q, Farthest(g, q, s.results))
             size == Cardinality(s.results)
  <2>1. size \in Nat /\ Cardinality(wider) = size + 1 /\ Cardinality(wider) <= n
    <3>1. s.results \in SUBSET (1 .. n) /\ wider \in SUBSET (1 .. n) /\ x \in (1 .. n) \ s.results
      BY <1>1, <1>3
    <3> HIDE DEF wider
    <3>2. Cardinality(wider) <= n
      BY <3>1, SmallSets
    <3>3. size \in Nat /\ Cardinality(s.results \cup {x}) = size + 1
      BY <3>1, SmallSets
    <3> QED  BY <3>2, <3>3 DEF wider
  <2>2. Admitted(distance(g, q, x), worst, size, n) /\ ~(Cardinality(wider) > n)
    <3> HIDE DEF size, wider, worst
    <3> QED  BY <2>1 DEF Admitted
  <2>3. t = [visited |-> s.visited \cup {x}, candidates |-> s.candidates \cup {x}, results |-> wider]
    BY <1>3, <2>2 DEF visit
  <2> HIDE DEF t
  <2>4. t.visited = s.visited \cup {x} /\ t.candidates = s.candidates \cup {x} /\ t \in WideStates(R, start)
    BY <1>1, <2>3 DEF WideStates
  <2>5. Expanded(t) = Expanded(s)
    BY <1>1, <1>3, <2>4 DEF Expanded
  <2> QED  BY <2>4, <2>5 DEF t, VisitedToo
<1> QED  BY <1>2, <1>3

\* All neighbours of an expanded node are visited in the end.
LEMMA WideVisits ==
    ASSUME NEW n \in Nat, NEW g, NEW q, NEW R \in SUBSET (1 .. n), NEW start,
           NEW s \in WideStates(R, start), NEW list \in Seq(R)
    PROVE  LET t == visit_each(g, q, n, s, list)
           IN  /\ t \in WideStates(R, start) /\ Expanded(t) = Expanded(s)
               /\ s.visited \cup ToSet(list) \subseteq t.visited
<1> DEFINE t == visit_each(g, q, n, s, list)
           D == {a \in WideStates(R, start) : Expanded(a) = Expanded(s)}
           m == Len(list)
           F == VisitStep(D, m, g, q, n, list)
<1>1. m \in Nat /\ DOMAIN list = 1 .. m /\ \A i \in 1 .. m : list[i] \in R
  OBVIOUS
<1>2. \A a \in D, i \in 1 .. m : /\ visit(g, q, n, a, list[i]) \in D
                                 /\ visit(g, q, n, a, list[i]).visited = a.visited \cup {list[i]}
  <2> SUFFICES ASSUME NEW a \in D, NEW i \in 1 .. m
               PROVE  /\ visit(g, q, n, a, list[i]) \in D
                      /\ visit(g, q, n, a, list[i]).visited = a.visited \cup {list[i]}
    OBVIOUS
  <2> DEFINE x == list[i]
             u == visit(g, q, n, a, x)
  <2>1. x \in R /\ a \in WideStates(R, start)
    BY <1>1
  <2> HIDE DEF x
  <2>2. u \in WideStates(R, start) /\ Expanded(u) = Expanded(a) /\ u.visited = a.visited \cup {x}
    <3>1. VisitedToo(R, start, a, x, visit(g, q, n, a, x))
      <4> HIDE DEF D, m
      <4> QED  BY <2>1, WideVisit
    <3> QED  BY <3>1 DEF VisitedToo
  <2> HIDE DEF u
  <2> QED  BY <2>2 DEF u, x
<1>3. s \in D
  OBVIOUS
<1> HIDE DEF m, D, t
<1>4. Leads(F, s, m, D, t)
  BY <1>1, <1>2, <1>3, VisitRuns DEF t
<1>5. PICK k : Run(F, s, m, D, k) /\ k[m] = t
  BY <1>4 DEF Leads
<1>6. \A i \in 1 .. m : k[i].visited = k[i - 1].visited \cup {list[i]} /\ i \in 0 .. m
  <2>1. \A i \in 1 .. m : i - 1 \in 0 .. m /\ i \in 0 .. m
    BY <1>1
  <2>2. \A i \in 1 .. m : k[i] = visit(g, q, n, k[i - 1], list[i]) /\ k[i - 1] \in D
    BY <1>5, <2>1 DEF Run, VisitStep
  <2> QED  BY <1>2, <2>1, <2>2
<1> DEFINE S == {i \in 0 .. m : s.visited \subseteq k[i].visited /\ \A j \in 1 .. i : list[j] \in k[i].visited}
<1>7. 0 \in S
  BY <1>1, <1>5 DEF Run
<1>8. ASSUME NEW i \in 1 .. m, i - 1 \in S PROVE i \in S
  <2>1. s.visited \subseteq k[i - 1].visited /\ \A j \in 1 .. i - 1 : list[j] \in k[i - 1].visited
    BY <1>8
  <2>2. \A j \in 1 .. i : j = i \/ j \in 1 .. i - 1
    BY <1>1
  <2>3. \A j \in 1 .. i : list[j] \in k[i].visited
    BY <1>6, <2>1, <2>2
  <2> QED  BY <1>6, <2>1, <2>3
<1>9. m \in S
  <2> HIDE DEF S
  <2>1. \A i \in 0 .. m : i \in S
    BY <1>1, <1>7, <1>8, UpTo
  <2> QED  BY <1>1, <2>1
<1>10. s.visited \cup ToSet(list) \subseteq t.visited
  BY <1>1, <1>5, <1>9 DEF ToSet
<1>11. t \in D
  BY <1>1, <1>4, LeadsIn
<1> QED  BY <1>10, <1>11 DEF D, t

\* One more node is expanded: no candidate is farther than the worst result.
LEMMA WideExpand ==
    ASSUME NEW n \in Nat, nodes \in Graphs(n), NEW q \in Vectors, NEW layer,
           NEW R \in SUBSET (1 .. n), Closed(nodes, layer, R), NEW start,
           NEW s \in WideSearch(R, start, layer)
    PROVE  LET t == expand(nodes, q, layer, n, s)
           IN  /\ t \in WideSearch(R, start, layer)
               /\ s.candidates = {} => t = s
               /\ s.candidates # {} => Cardinality(Expanded(t)) = Cardinality(Expanded(s)) + 1
<1> DEFINE t == expand(nodes, q, layer, n, s)
           c == Closest(nodes, q, s.candidates)
           u == [s EXCEPT !.candidates = @ \ {c}]
           list == nodes[c].neighbors[layer]
<1>1. /\ s.visited \in SUBSET R /\ s.candidates \in SUBSET R /\ s.results = s.visited
      /\ s.candidates \subseteq s.visited /\ start \in s.visited /\ s \in WideStates(R, start)
      /\ Successors(Expanded(s), layer) \subseteq s.visited
  BY DEF WideSearch, WideStates
<1>2. CASE s.candidates = {}
  <2>1. t = s
    BY <1>2 DEF expand
  <2> HIDE DEF t
  <2> QED  BY <1>2, <2>1 DEF t
<1>3. CASE s.candidates # {}
  <2> DEFINE far == Farthest(nodes, q, s.results)
  <2>1. c \in s.candidates /\ c \in R /\ c \in 1 .. n /\ c \in s.results
    <3>1. s.candidates \in SUBSET (1 .. n)
      BY <1>1
    <3>2. c \in s.candidates
      BY <1>3, <3>1, ClosestIs
    <3> HIDE DEF c
    <3> QED  BY <1>1, <3>2
  <2> HIDE DEF c
  <2>2. far \in 1 .. n /\ distance(nodes, q, far) >= distance(nodes, q, c)
    <3>1. s.results \in SUBSET (1 .. n) /\ s.results # {}
      BY <1>1, <2>1
    <3>2. far \in s.results /\ \A d \in s.results : distance(nodes, q, far) >= distance(nodes, q, d)
      BY <3>1, FarthestIs
    <3> HIDE DEF far
    <3> QED  BY <2>1, <3>1, <3>2
  <2> HIDE DEF far
  <2>3. distance(nodes, q, far) \in Nat /\ distance(nodes, q, c) \in Nat
    BY <2>1, <2>2, DistanceIs
  <2>4. ~(distance(nodes, q, c) > distance(nodes, q, far))
    <3> DEFINE x == distance(nodes, q, c)
               y == distance(nodes, q, far)
    <3>1. x \in Nat /\ y \in Nat /\ y >= x
      BY <2>2, <2>3
    <3> HIDE DEF x, y
    <3>2. ~(x > y)
      BY <3>1
    <3> QED  BY <3>2 DEF x, y
  <2>5. t = visit_each(nodes, q, n, u, list)
    BY <1>3, <2>4 DEF expand, c, far
  <2> HIDE DEF t
  <2>6. u \in WideStates(R, start) /\ u.visited = s.visited /\ Expanded(u) = Expanded(s) \cup {c}
    BY <1>1, <2>1 DEF WideStates, Expanded
  <2> HIDE DEF u
  <2>7. list \in Seq(R)
    BY <2>1, NeighboursIn
  <2>8. /\ t \in WideStates(R, start) /\ Expanded(t) = Expanded(s) \cup {c}
        /\ s.visited \cup ToSet(list) \subseteq t.visited
    <3> DEFINE z == visit_each(nodes, q, n, u, list)
    <3>1. /\ z \in WideStates(R, start) /\ Expanded(z) = Expanded(u)
          /\ u.visited \cup ToSet(list) \subseteq z.visited
      <4> HIDE DEF list
      <4> QED  BY <2>6, <2>7, WideVisits
    <3> HIDE DEF z
    <3> QED  BY <2>5, <2>6, <3>1 DEF z
  <2>9. Successors(Expanded(t), layer) \subseteq t.visited
    <3> SUFFICES ASSUME NEW x \in Successors(Expanded(t), layer) PROVE x \in t.visited
      OBVIOUS
    <3>1. PICK i \in Expanded(t) : x \in ToSet(nodes[i].neighbors[layer])
      BY SuccessorsAre
    <3>2. CASE i = c
      BY <2>8, <3>1, <3>2
    <3>3. CASE i \in Expanded(s)
      <4>1. x \in Successors(Expanded(s), layer)
        BY <3>1, <3>3, SuccessorsAre
      <4> QED  BY <1>1, <2>8, <4>1
    <3> QED  BY <2>8, <3>1, <3>2, <3>3
  <2>10. t \in WideSearch(R, start, layer)
    BY <2>8, <2>9 DEF WideSearch
  <2>11. Cardinality(Expanded(t)) = Cardinality(Expanded(s)) + 1
    <3>1. Expanded(s) \in SUBSET (1 .. n) /\ c \in (1 .. n) \ Expanded(s)
      BY <1>1, <2>1 DEF Expanded
    <3>2. Cardinality(Expanded(s) \cup {c}) = Cardinality(Expanded(s)) + 1
      BY <3>1, SmallSets
    <3> QED  BY <2>8, <3>2
  <2> QED  BY <1>3, <2>10, <2>11 DEF t
<1> QED  BY <1>2, <1>3

\* The beam stops only when nothing it visited has a neighbour left.
LEMMA WideBeam ==
    ASSUME NEW n \in Nat, nodes \in Graphs(n), NEW q \in Vectors, NEW layer,
           NEW R \in SUBSET (1 .. n), Closed(nodes, layer, R), NEW start \in R,
           \A C : start \in C /\ Shut(C, layer) => R \subseteq C
    PROVE  search_layer(nodes, q, start, layer, n) = R
<1> DEFINE D == WideSearch(R, start, layer)
           F == BeamStep(D, n, nodes, q, layer, n)
           last == beam(nodes, q, start, layer, n)
           next(s) == expand(nodes, q, layer, n, s)
<1>1. Alone(start) \in D
  BY DEF Alone, WideSearch, WideStates, Expanded, Successors
<1>2. \A s \in D : /\ next(s) \in D
                   /\ s.candidates = {} => next(s) = s
                   /\ s.candidates # {} => Cardinality(Expanded(next(s))) = Cardinality(Expanded(s)) + 1
  <2> SUFFICES ASSUME NEW s \in D
               PROVE  /\ next(s) \in D
                      /\ s.candidates = {} => next(s) = s
                      /\ s.candidates # {} => Cardinality(Expanded(next(s))) = Cardinality(Expanded(s)) + 1
    OBVIOUS
  <2> QED  BY WideExpand
<1>3. \A s \in D : Expanded(s) \in SUBSET (1 .. n) /\ Cardinality(Expanded(s)) \in Nat
                   /\ Cardinality(Expanded(s)) <= n
  <2>1. \A s \in D : Expanded(s) \in SUBSET (1 .. n)
    BY DEF WideSearch, WideStates, Expanded
  <2> HIDE DEF D
  <2> QED  BY <2>1, SmallSets
<1>4. \A s \in D : /\ s.visited \in SUBSET R /\ s.candidates \subseteq s.visited /\ s.results = s.visited
                   /\ start \in s.visited /\ Successors(Expanded(s), layer) \subseteq s.visited
  BY DEF WideSearch, WideStates
<1> HIDE DEF D, last
<1>5. DOMAIN nodes = 1 .. n
  BY GraphIs
<1>6. Leads(F, Alone(start), n, D, last)
  BY <1>1, <1>2, <1>5, BeamRuns DEF last
<1>7. PICK k : Run(F, Alone(start), n, D, k) /\ k[n] = last
  BY <1>6 DEF Leads
<1>8. \A i \in 1 .. n : k[i - 1] \in D /\ k[i] = next(k[i - 1]) /\ i \in 0 .. n
  <2>1. \A i \in 1 .. n : i - 1 \in 0 .. n /\ i \in 0 .. n
    OBVIOUS
  <2> QED  BY <1>7, <2>1 DEF Run, BeamStep
<1> HIDE DEF next
<1> DEFINE S == {i \in 0 .. n : k[i].candidates = {} \/ Cardinality(Expanded(k[i])) >= i}
<1>9. 0 \in S
  <2>1. k[0] \in D /\ 0 \in 0 .. n
    BY <1>1, <1>7 DEF Run
  <2>2. Cardinality(Expanded(k[0])) >= 0
    BY <1>3, <2>1
  <2> QED  BY <2>1, <2>2
<1>10. ASSUME NEW i \in 1 .. n, i - 1 \in S PROVE i \in S
  <2> DEFINE a == k[i - 1]
             b == k[i]
  <2>1. a \in D /\ b = next(a) /\ i \in 0 .. n
    BY <1>8
  <2>2. a.candidates = {} \/ Cardinality(Expanded(a)) >= i - 1
    BY <1>10
  <2> HIDE DEF a, b
  <2>3. CASE a.candidates = {}
    <3>1. b.candidates = {}
      BY <1>2, <2>1, <2>3
    <3> QED  BY <2>1, <3>1 DEF b
  <2>4. CASE a.candidates # {}
    <3>1. Cardinality(Expanded(b)) = Cardinality(Expanded(a)) + 1 /\ Cardinality(Expanded(a)) \in Nat
      BY <1>2, <1>3, <2>1, <2>4
    <3>2. Cardinality(Expanded(b)) >= i
      BY <2>2, <2>4, <3>1
    <3> QED  BY <2>1, <3>2 DEF b
  <2> QED  BY <2>3, <2>4
<1>11. last \in D
  BY <1>6, LeadsIn
<1>12. last.candidates = {}
  <2>1. n \in S
    <3> HIDE DEF S
    <3>1. \A i \in 0 .. n : i \in S
      BY <1>9, <1>10, UpTo
    <3>2. n \in 0 .. n
      OBVIOUS
    <3> QED  BY <3>1, <3>2
  <2>2. CASE Cardinality(Expanded(last)) >= n
    <3> DEFINE all == 1 .. n
    <3>1. Expanded(last) \in SUBSET all /\ Cardinality(Expanded(last)) = n
      BY <1>3, <1>11, <2>2
    <3>2. Cardinality(all) = n
      <4>1. all \in SUBSET (1 .. n)
        OBVIOUS
      <4>2. Cardinality(all) <= n /\ Cardinality(all) \in Nat
        BY <4>1, SmallSets
      <4>3. Cardinality(Expanded(last)) <= Cardinality(all)
        BY <3>1, <4>1, SmallSets
      <4> HIDE DEF all
      <4> QED  BY <3>1, <4>2, <4>3
    <3>3. Expanded(last) = all
      <4>1. all \in SUBSET (1 .. n)
        OBVIOUS
      <4> QED  BY <3>1, <3>2, <4>1, SmallSets
    <3>4. last.candidates \subseteq all
      BY <1>4, <1>11
    <3> HIDE DEF all
    <3> QED  BY <3>3, <3>4 DEF Expanded
  <2> QED  BY <1>7, <2>1, <2>2
<1>13. Expanded(last) = last.visited
  BY <1>12 DEF Expanded
<1>14. Shut(last.visited, layer)
  BY <1>4, <1>11, <1>13 DEF Shut
<1>15. last.results = R
  BY <1>4, <1>11, <1>14
<1> QED  BY <1>15 DEF last, search_layer

\* search_layer with room for the whole arena returns exactly the nodes that
\* are reachable at the layer: its early exit loses nothing then.
THEOREM BeamIsExhaustive == Spec => []BeamExhaustive
<1>1. IndexInv => BeamExhaustive
  <2> SUFFICES ASSUME IndexInv, NEW q \in Queries, NEW i \in DOMAIN nodes,
                      NEW l \in DOMAIN nodes[i].neighbors
               PROVE  search_layer(nodes, q, i, l, Len(nodes)) = ReachableFrom(i, l)
    BY DEF BeamExhaustive
  <2> DEFINE n == Len(nodes)
             W == At(nodes, l)
             R == ReachableFrom(i, l)
  <2>1. nodes \in Graphs(n) /\ n \in Nat /\ Linked(nodes)
    BY DEF IndexInv, GoodGraph
  <2>2. q \in Vectors
    BY IndexAssumption, Zenon
  <2>3. i \in W
    BY DEF At
  <2> HIDE DEF n
  <2>4. DOMAIN nodes = 1 .. n
    BY <2>1, GraphIs
  <2>5. Closed(nodes, l, W) /\ W \in SUBSET (1 .. n)
    BY <2>1, FineClosed
  <2> HIDE DEF W
  <2>6. /\ R \in SUBSET W /\ i \in R /\ Shut(R, l)
        /\ \A C : i \in C /\ Shut(C, l) => R \subseteq C
    BY <2>1, <2>3, <2>4, <2>5, ReachIs
  <2> HIDE DEF R
  <2>7. Closed(nodes, l, R) /\ R \in SUBSET (1 .. n)
    <3>1. \A j \in R : ToSet(nodes[j].neighbors[l]) \subseteq R
      BY <2>6, SuccessorsAre DEF Shut
    <3> QED  BY <2>5, <2>6, <3>1 DEF Closed
  <2>8. search_layer(nodes, q, i, l, n) = R
    BY <2>1, <2>2, <2>6, <2>7, WideBeam
  <2> QED  BY <2>8 DEF n, R
<1> QED  BY <1>1, IndexInvariant, PTL
=============================================================================
