----------------------------- MODULE SumsProofs ----------------------------
(***************************************************************************)
(* What sums over 1..n are and how they change, and what a selection from  *)
(* a list holds.  Induction over the naturals is drawn from the            *)
(* well-foundedness of their order, for a set rather than for a predicate. *)
(***************************************************************************)
EXTENDS Sums, Lists, TLAPS, WellFoundedInduction, FiniteSetTheorems

\* Every nonempty set of naturals has a least element.
LEMMA LeastNat ==
  ASSUME NEW T, T \subseteq Nat, T # {}
  PROVE  \E x \in T : \A y \in T : x =< y
<1> DEFINE R == {ss \in Nat \X Nat : ss[1] < ss[2]}
<1>1. R = OpToRel(<, Nat)
  BY Zenon DEF OpToRel
<1>2. IsWellFoundedOn(R, Nat)
  BY <1>1, NatLessThanWellFounded, Zenon
<1>3. \E x \in T : \A y \in T : ~ (<<y, x>> \in R)
  <2> HIDE DEF R
  <2> QED BY <1>2, WFMin, Zenon
<1>4. ASSUME NEW x \in Nat, NEW y \in Nat, ~ (<<y, x>> \in R)
      PROVE  x =< y
  BY <1>4
<1>5. QED
  <2> HIDE DEF R
  <2> QED BY <1>3, <1>4

\* Induction over the naturals, for a set.
LEMMA SetInduction ==
  ASSUME NEW S, 0 \in S, \A n \in Nat : n \in S => n + 1 \in S
  PROVE  Nat \subseteq S
<1>1. SUFFICES ASSUME Nat \ S # {} PROVE FALSE
  OBVIOUS
<1>2. PICK x \in Nat \ S : \A y \in Nat \ S : x =< y
  BY <1>1, LeastNat
<1>3. x # 0
  BY <1>2
<1>4. x - 1 \in Nat /\ x - 1 \in S
  BY <1>2, <1>3
<1>5. QED BY <1>2, <1>4

\* The recursive definition of SumTo defines the sum.
LEMMA SumToDef ==
  ASSUME NEW f, NEW n \in Nat
  PROVE  /\ SumTo(f, 0) = 0
         /\ SumTo(f, n + 1) = SumTo(f, n) + f[n + 1]
<1> DEFINE A(m, g) == g = [k \in 0 .. m |-> IF k = 0 THEN 0 ELSE g[k - 1] + f[k]]
           D(s) == s = [k \in Nat |-> IF k = 0 THEN 0 ELSE s[k - 1] + f[k]]
           E == {m \in Nat : \E g : A(m, g)}
           U == {k \in Nat : \A p \in Nat, q \in Nat : \A g, h :
                   k =< p /\ k =< q /\ A(p, g) /\ A(q, h) => g[k] = h[k]}
<1>1. Nat \subseteq E
  <2>1. 0 \in E
    <3> DEFINE g == [k \in 0 .. 0 |-> 0]
    <3>1. A(0, g)
      OBVIOUS
    <3>2. QED BY <3>1
  <2>2. ASSUME NEW m \in Nat, m \in E
        PROVE  m + 1 \in E
    <3>1. PICK g : A(m, g)
      BY <2>2
    <3> DEFINE h == [k \in 0 .. m + 1 |-> IF k = m + 1 THEN g[m] + f[m + 1] ELSE g[k]]
    <3>2. ASSUME NEW k \in 0 .. m + 1
          PROVE  h[k] = IF k = 0 THEN 0 ELSE h[k - 1] + f[k]
      <4>1. CASE k = 0
        BY <3>1, <4>1
      <4>2. CASE k = m + 1
        BY <4>2
      <4>3. CASE k # 0 /\ k # m + 1
        BY <3>1, <4>3
      <4>4. QED BY <4>1, <4>2, <4>3
    <3>3. A(m + 1, h)
      BY <3>2
    <3> HIDE DEF A, h
    <3>4. QED BY <3>3
  <2> HIDE DEF E
  <2>3. QED BY <2>1, <2>2, SetInduction
<1>2. Nat \subseteq U
  <2>1. 0 \in U
    OBVIOUS
  <2>2. ASSUME NEW k \in Nat, k \in U
        PROVE  k + 1 \in U
    <3>1. SUFFICES ASSUME NEW p \in Nat, NEW q \in Nat, NEW g, NEW h,
                          k + 1 =< p, k + 1 =< q, A(p, g), A(q, h)
                   PROVE  g[k + 1] = h[k + 1]
      <4> HIDE DEF A
      <4> QED BY DEF U
    <3>2. g[k] = h[k]
      <4> HIDE DEF A
      <4>1. k =< p /\ k =< q
        BY <3>1
      <4> QED BY <2>2, <3>1, <4>1 DEF U
    <3>3. g[k + 1] = g[k] + f[k + 1] /\ h[k + 1] = h[k] + f[k + 1]
      BY <3>1
    <3>4. QED BY <3>2, <3>3
  <2> HIDE DEF U
  <2>3. QED BY <2>1, <2>2, SetInduction
<1> DEFINE G == [m \in Nat |-> (CHOOSE g : A(m, g))[m]]
<1>3. ASSUME NEW m \in Nat
      PROVE  A(m, CHOOSE g : A(m, g))
  BY <1>1
<1>4. D(G)
  <2>1. ASSUME NEW k \in Nat
        PROVE  G[k] = IF k = 0 THEN 0 ELSE G[k - 1] + f[k]
    <3>1. CASE k = 0
      <4> DEFINE g == CHOOSE x : A(k, x)
      <4>1. A(k, g)
        BY <1>3
      <4>2. g[0] = 0
        <5> HIDE DEF g
        <5> QED BY <4>1, <3>1
      <4>3. G[k] = g[k]
        OBVIOUS
      <4> HIDE DEF g, G
      <4>4. QED BY <4>2, <4>3, <3>1
    <3>2. CASE k # 0
      <4> DEFINE g == CHOOSE x : A(k, x)
                 h == CHOOSE x : A(k - 1, x)
      <4>1. k - 1 \in Nat
        BY <3>2
      <4>2. A(k, g) /\ A(k - 1, h)
        BY <4>1, <1>3
      <4>3. g[k] = g[k - 1] + f[k]
        <5> HIDE DEF g
        <5> QED BY <4>2, <3>2
      <4>4. g[k - 1] = h[k - 1]
        <5> HIDE DEF g, h, A
        <5>1. k - 1 \in U
          BY <4>1, <1>2
        <5>2. k - 1 =< k /\ k - 1 =< k - 1
          BY <4>1
        <5>3. QED BY <5>1, <5>2, <4>1, <4>2
      <4>5. G[k] = g[k] /\ G[k - 1] = h[k - 1]
        BY <4>1
      <4> HIDE DEF g, h, G
      <4>6. QED BY <4>3, <4>4, <4>5, <3>2
    <3>3. QED BY <3>1, <3>2
  <2>2. G = [k \in Nat |-> G[k]]
    OBVIOUS
  <2> HIDE DEF G
  <2>3. QED BY <2>1, <2>2
<1>5. D(CHOOSE s : D(s))
  <2> HIDE DEF D, G
  <2> QED BY <1>4
<1>6. ASSUME NEW m \in Nat
      PROVE  SumTo(f, m) = (CHOOSE s : D(s))[m]
  BY DEF SumTo
<1> DEFINE s == CHOOSE t : D(t)
<1>7. s[0] = 0 /\ s[n + 1] = s[n] + f[n + 1]
  <2>1. D(s)
    BY <1>5
  <2> HIDE DEF s
  <2> QED BY <2>1
<1>8. QED
  <2> HIDE DEF s
  <2>1. SumTo(f, 0) = s[0] /\ SumTo(f, n) = s[n] /\ SumTo(f, n + 1) = s[n + 1]
    BY <1>6 DEF s
  <2> QED BY <2>1, <1>7

\* Functions that agree on 1..n have the same sum.
LEMMA SumExtensional ==
  ASSUME NEW n \in Nat, NEW f, NEW g, \A i \in 1 .. n : f[i] = g[i]
  PROVE  SumTo(f, n) = SumTo(g, n)
<1> DEFINE S == {m \in Nat : m =< n => SumTo(f, m) = SumTo(g, m)}
<1>1. 0 \in S
  BY SumToDef
<1>2. ASSUME NEW m \in Nat, m \in S PROVE m + 1 \in S
  <2>1. SUFFICES ASSUME m + 1 =< n PROVE SumTo(f, m + 1) = SumTo(g, m + 1)
    OBVIOUS
  <2>2. SumTo(f, m) = SumTo(g, m) /\ f[m + 1] = g[m + 1]
    BY <1>2, <2>1
  <2>3. QED BY <2>2, SumToDef
<1>3. n \in S
  <2> HIDE DEF S
  <2> QED BY <1>1, <1>2, SetInduction
<1>4. QED BY <1>3

\* A sum of integers is an integer.
LEMMA SumType ==
  ASSUME NEW n \in Nat, NEW f, \A i \in 1 .. n : f[i] \in Int
  PROVE  SumTo(f, n) \in Int
<1> DEFINE S == {m \in Nat : m =< n => SumTo(f, m) \in Int}
<1>1. 0 \in S
  BY SumToDef
<1>2. ASSUME NEW m \in Nat, m \in S PROVE m + 1 \in S
  <2>1. SUFFICES ASSUME m + 1 =< n PROVE SumTo(f, m + 1) \in Int
    OBVIOUS
  <2>2. SumTo(f, m) \in Int /\ f[m + 1] \in Int
    BY <1>2, <2>1
  <2>3. QED BY <2>2, SumToDef
<1>3. n \in S
  <2> HIDE DEF S
  <2> QED BY <1>1, <1>2, SetInduction
<1>4. QED BY <1>3

\* Sums add up pointwise.
LEMMA SumAdd ==
  ASSUME NEW n \in Nat, NEW f, NEW g, NEW h,
         \A i \in 1 .. n : f[i] \in Int /\ g[i] \in Int /\ h[i] = f[i] + g[i]
  PROVE  SumTo(h, n) = SumTo(f, n) + SumTo(g, n)
<1> DEFINE S == {m \in Nat : m =< n => /\ SumTo(f, m) \in Int
                                       /\ SumTo(g, m) \in Int
                                       /\ SumTo(h, m) = SumTo(f, m) + SumTo(g, m)}
<1>1. 0 \in S
  BY SumToDef
<1>2. ASSUME NEW m \in Nat, m \in S PROVE m + 1 \in S
  <2>1. SUFFICES ASSUME m + 1 =< n
                 PROVE  /\ SumTo(f, m + 1) \in Int
                        /\ SumTo(g, m + 1) \in Int
                        /\ SumTo(h, m + 1) = SumTo(f, m + 1) + SumTo(g, m + 1)
    OBVIOUS
  <2>2. /\ SumTo(f, m) \in Int
        /\ SumTo(g, m) \in Int
        /\ SumTo(h, m) = SumTo(f, m) + SumTo(g, m)
    BY <1>2, <2>1
  <2>3. f[m + 1] \in Int /\ g[m + 1] \in Int /\ h[m + 1] = f[m + 1] + g[m + 1]
    BY <2>1
  <2>4. /\ SumTo(f, m + 1) = SumTo(f, m) + f[m + 1]
        /\ SumTo(g, m + 1) = SumTo(g, m) + g[m + 1]
        /\ SumTo(h, m + 1) = SumTo(h, m) + h[m + 1]
    BY SumToDef
  <2>5. QED BY <2>2, <2>3, <2>4
<1>3. n \in S
  <2> HIDE DEF S
  <2> QED BY <1>1, <1>2, SetInduction
<1>4. QED BY <1>3

\* Changing one term changes the sum by the difference.
LEMMA SumUpdate ==
  ASSUME NEW n \in Nat, NEW k \in 1 .. n, NEW f, NEW g,
         \A i \in 1 .. n : f[i] \in Int /\ g[i] \in Int,
         \A i \in 1 .. n : i # k => g[i] = f[i]
  PROVE  SumTo(g, n) = SumTo(f, n) - f[k] + g[k]
<1> DEFINE d(m) == IF k =< m THEN g[k] - f[k] ELSE 0
           S == {m \in Nat : m =< n => /\ SumTo(f, m) \in Int
                                       /\ SumTo(g, m) = SumTo(f, m) + d(m)}
<1>1. 0 \in S
  BY SumToDef
<1>2. ASSUME NEW m \in Nat, m \in S PROVE m + 1 \in S
  <2>1. SUFFICES ASSUME m + 1 =< n
                 PROVE  /\ SumTo(f, m + 1) \in Int
                        /\ SumTo(g, m + 1) = SumTo(f, m + 1) + d(m + 1)
    OBVIOUS
  <2>2. /\ SumTo(f, m) \in Int
        /\ SumTo(g, m) = SumTo(f, m) + d(m)
    BY <1>2, <2>1
  <2>3. f[m + 1] \in Int /\ g[m + 1] \in Int /\ (m + 1 # k => g[m + 1] = f[m + 1])
    BY <2>1
  <2>4. /\ SumTo(f, m + 1) = SumTo(f, m) + f[m + 1]
        /\ SumTo(g, m + 1) = SumTo(g, m) + g[m + 1]
    BY SumToDef
  <2>5. QED BY <2>2, <2>3, <2>4
<1>3. n \in S
  <2> HIDE DEF S
  <2> QED BY <1>1, <1>2, SetInduction
<1>4. SumTo(f, n) \in Int /\ SumTo(g, n) = SumTo(f, n) + (g[k] - f[k])
  BY <1>3
<1>5. f[k] \in Int /\ g[k] \in Int
  OBVIOUS
<1>6. QED BY <1>4, <1>5

\* One more term adds to the sum, whatever became of the function's domain.
LEMMA SumExtend ==
  ASSUME NEW n \in Nat, NEW f, NEW g, \A i \in 1 .. n : g[i] = f[i]
  PROVE  SumTo(g, n + 1) = SumTo(f, n) + g[n + 1]
<1>1. SumTo(g, n) = SumTo(f, n)
  BY SumExtensional
<1>2. QED BY <1>1, SumToDef

\* The sum over a concatenation is the sum over its parts.
LEMMA SumConcat ==
  ASSUME NEW n \in Nat, NEW m \in Nat, NEW p, p = n + m, NEW f, NEW v, NEW g,
         \A i \in 1 .. n : f[i] \in Int /\ g[i] = f[i],
         \A j \in 1 .. m : v[j] \in Int /\ g[n + j] = v[j]
  PROVE  SumTo(g, p) = SumTo(f, n) + SumTo(v, m)
<1> DEFINE S == {k \in Nat : k =< m => SumTo(g, n + k) = SumTo(f, n) + SumTo(v, k)}
<1>0. SumTo(f, n) \in Int
  BY SumType
<1>1. 0 \in S
  <2>1. SumTo(g, n) = SumTo(f, n) /\ SumTo(v, 0) = 0 /\ n + 0 = n
    BY SumExtensional, SumToDef
  <2>2. QED BY <2>1, <1>0
<1>2. ASSUME NEW k \in Nat, k \in S PROVE k + 1 \in S
  <2>1. SUFFICES ASSUME k + 1 =< m
                 PROVE  SumTo(g, n + (k + 1)) = SumTo(f, n) + SumTo(v, k + 1)
    OBVIOUS
  <2>2. SumTo(g, n + k) = SumTo(f, n) + SumTo(v, k)
    BY <1>2, <2>1
  <2>3. v[k + 1] \in Int /\ g[n + (k + 1)] = v[k + 1]
    BY <2>1
  <2>4. SumTo(v, k) \in Int
    <3>1. \A i \in 1 .. k : v[i] \in Int
      BY <2>1
    <3>2. QED BY <3>1, SumType
  <2>5. n + k \in Nat /\ (n + k) + 1 = n + (k + 1)
    OBVIOUS
  <2>6. /\ SumTo(g, (n + k) + 1) = SumTo(g, n + k) + g[(n + k) + 1]
        /\ SumTo(v, k + 1) = SumTo(v, k) + v[k + 1]
    BY <2>5, SumToDef
  <2>7. SumTo(g, n + (k + 1)) = SumTo(g, n + k) + v[k + 1]
    BY <2>3, <2>5, <2>6
  <2>8. QED BY <1>0, <2>2, <2>3, <2>4, <2>6, <2>7
<1>3. m \in S
  <2> HIDE DEF S
  <2> QED BY <1>1, <1>2, SetInduction
<1>4. QED BY <1>3

----------------------------------------------------------------------------
\* Lists

\* Every position of a finite sequence of length n is counted once.
LEMMA PositionsFinite ==
  ASSUME NEW n \in Nat, NEW K \in SUBSET (1 .. n)
  PROVE  IsFiniteSet(K) /\ Cardinality(K) \in Nat /\ Cardinality(K) =< n
<1>1. IsFiniteSet(1 .. n) /\ Cardinality(1 .. n) = n
  BY FS_Interval, SMT
<1>2. IsFiniteSet(K) /\ Cardinality(K) =< n
  BY <1>1, FS_Subset
<1> QED
  BY <1>2, FS_CardinalityType

\* A proper part of a finite set has fewer elements.
LEMMA FewerElements ==
  ASSUME NEW S, IsFiniteSet(S), NEW T \in SUBSET S, NEW x \in S, x \notin T
  PROVE  IsFiniteSet(T) /\ Cardinality(T) < Cardinality(S)
<1>1. IsFiniteSet(T) /\ Cardinality(T) =< Cardinality(S)
      /\ (Cardinality(T) = Cardinality(S) => T = S)
  BY FS_Subset
<1>2. Cardinality(T) \in Nat /\ Cardinality(S) \in Nat
  BY <1>1, FS_CardinalityType
<1> QED
  BY <1>1, <1>2

\* The elements of K, in their order, have the places 1 .. Cardinality(K), each
\* exactly one.
LEMMA PlaceOfEach ==
  ASSUME NEW K \in SUBSET Int, IsFiniteSet(K)
  PROVE  /\ \A i \in K : Place(K, i) \in 1 .. Cardinality(K)
         /\ \A i, h \in K : Place(K, i) = Place(K, h) => i = h
         /\ \A k \in 1 .. Cardinality(K) : \E i \in K : Place(K, i) = k
<1> DEFINE upto(i) == {j \in K : j =< i}
           place == [i \in K |-> Cardinality(upto(i))]
<1>k. IsFiniteSet(K) /\ Cardinality(K) \in Nat
  BY FS_CardinalityType
<1>1. ASSUME NEW i \in K
      PROVE  IsFiniteSet(upto(i)) /\ Cardinality(upto(i)) \in 1 .. Cardinality(K)
  <2>1. upto(i) \in SUBSET K /\ i \in upto(i)
    OBVIOUS
  <2>2. IsFiniteSet(upto(i)) /\ Cardinality(upto(i)) =< Cardinality(K)
    BY <2>1, <1>k, FS_Subset
  <2>3. Cardinality(upto(i)) \in Nat /\ Cardinality(upto(i)) # 0
    BY <2>1, <2>2, FS_CardinalityType, FS_EmptySet
  <2> QED
    BY <2>2, <2>3, <1>k
<1>2. ASSUME NEW i \in K, NEW h \in K, i < h
      PROVE  Cardinality(upto(i)) < Cardinality(upto(h))
  <2>0. \A j \in K : j \in Int
    OBVIOUS
  <2>1. upto(i) \in SUBSET upto(h) /\ h \in upto(h) /\ h \notin upto(i)
    <3>1. i \in Int /\ h \in Int
      BY <2>0
    <3>2. \A j \in K : j =< i => j =< h
      BY <1>2, <2>0, <3>1
    <3>3. ~(h =< i) /\ h =< h
      BY <1>2, <3>1
    <3> QED
      BY <3>2, <3>3
  <2>2. IsFiniteSet(upto(h))
    BY <1>1
  <2> HIDE DEF upto
  <2> QED
    BY <2>1, <2>2, FewerElements
<1>5. ASSUME NEW i \in K, NEW h \in K, Cardinality(upto(i)) = Cardinality(upto(h))
      PROVE  i = h
  <2>1. Cardinality(upto(i)) \in Nat /\ Cardinality(upto(h)) \in Nat
    BY <1>1, <1>k
  <2>2. i \in Int /\ h \in Int
    OBVIOUS
  <2> HIDE DEF upto
  <2> QED
    BY <1>2, <1>5, <2>1, <2>2
<1>3. ASSUME NEW k \in 1 .. Cardinality(K), \A i \in K : Cardinality(upto(i)) # k
      PROVE  FALSE
  <2> DEFINE T == (1 .. Cardinality(K)) \ {k}
  <2>1. place \in [K -> T]
    BY <1>1, <1>3
  <2>2. IsFiniteSet(1 .. Cardinality(K)) /\ Cardinality(1 .. Cardinality(K)) = Cardinality(K)
    BY <1>k, FS_Interval, SMT
  <2>3. IsFiniteSet(T) /\ Cardinality(T) < Cardinality(K)
    BY <2>2, FewerElements
  <2>4. PICK x \in K, y \in K : x # y /\ place[x] = place[y]
    <3> HIDE DEF place, T
    <3> QED
      BY <1>k, <2>1, <2>3, FS_PigeonHole
  <2> QED
    BY <2>4, <1>5
<1> QED
  BY <1>1, <1>3, <1>5 DEF Place

\* The numbers of K in their order: each of them once, and no other.
LEMMA AscendingProperties ==
  ASSUME NEW K \in SUBSET Int, IsFiniteSet(K)
  PROVE  /\ Ascending(K) \in [1 .. Cardinality(K) -> K]
         /\ \A i \in K : Place(K, i) \in 1 .. Cardinality(K) /\ Ascending(K)[Place(K, i)] = i
<1>1. ASSUME NEW k \in 1 .. Cardinality(K)
      PROVE  Ascending(K)[k] \in K /\ Place(K, Ascending(K)[k]) = k
  <2>1. \E i \in K : Place(K, i) = k
    BY PlaceOfEach
  <2>2. Ascending(K)[k] = CHOOSE i \in K : Place(K, i) = k
    BY DEF Ascending
  <2> QED
    BY <2>1, <2>2
<1>2. Ascending(K) \in [1 .. Cardinality(K) -> K]
  BY <1>1 DEF Ascending
<1>3. \A i \in K : Place(K, i) \in 1 .. Cardinality(K)
  BY PlaceOfEach
<1>4. \A i, h \in K : Place(K, i) = Place(K, h) => i = h
  BY PlaceOfEach
<1> QED
  BY <1>1, <1>2, <1>3, <1>4

\* Keeping the positions K of a sequence keeps their elements and no other.
LEMMA OnlyProperties ==
  ASSUME NEW S, NEW s \in Seq(S), NEW K \in SUBSET (DOMAIN s)
  PROVE  /\ Only(s, K) \in Seq(S)
         /\ Len(Only(s, K)) = Cardinality(K)
         /\ {Only(s, K)[k] : k \in DOMAIN Only(s, K)} = {s[i] : i \in K}
<1> DEFINE at == Ascending(K)
<1>1. Len(s) \in Nat /\ DOMAIN s = 1 .. Len(s)
  OBVIOUS
<1>k. IsFiniteSet(K) /\ K \in SUBSET Int /\ Cardinality(K) \in Nat
  BY <1>1, PositionsFinite
<1>2. /\ at \in [1 .. Cardinality(K) -> K]
      /\ \A i \in K : Place(K, i) \in 1 .. Cardinality(K) /\ at[Place(K, i)] = i
  BY <1>k, AscendingProperties
<1>5. Only(s, K) = [k \in 1 .. Cardinality(K) |-> s[at[k]]]
  BY DEF Only
<1> HIDE DEF at
<1>6. Only(s, K) \in [1 .. Cardinality(K) -> S]
  BY <1>1, <1>2, <1>5
<1>7. Only(s, K) \in Seq(S) /\ Len(Only(s, K)) = Cardinality(K)
  BY <1>6, <1>k
<1>9. {Only(s, K)[k] : k \in DOMAIN Only(s, K)} = {s[at[k]] : k \in 1 .. Cardinality(K)}
  BY <1>5
<1>10. {s[at[k]] : k \in 1 .. Cardinality(K)} = {s[i] : i \in K}
  BY <1>2
<1> QED
  BY <1>7, <1>9, <1>10

============================================================================
