---------------------------- MODULE VaultProofs ----------------------------
(***************************************************************************)
(* Safety of the vault for every value of its constants.                   *)
(***************************************************************************)
EXTENDS VaultQueue, Vault, SumsProofs, FiniteSetTheorems

----------------------------------------------------------------------------
(* What the operators of the vault's modules return.                       *)

\* Division and remainder by a positive number.
LEMMA DivMod ==
  ASSUME NEW a \in Nat, NEW b \in Nat \ {0}
  PROVE  a \div b \in Nat /\ a % b \in 0 .. b - 1
OBVIOUS

\* A larger window lets a larger pool leave.
LEMMA TimesMonotone ==
  ASSUME NEW a \in Nat, NEW b \in Nat, NEW k \in Nat, a =< b
  PROVE  k * a \in Nat /\ k * b \in Nat /\ k * a =< k * b
OBVIOUS

\* A nonempty set of positive numbers that is bounded has a largest element.
LEMMA LargestBelow ==
  ASSUME NEW n \in Nat, NEW T, T \subseteq 1 .. n, T # {}
  PROVE  \E x \in T : \A y \in T : y =< x
<1> DEFINE M == {y \in Nat : \E x \in T : x + y = n}
<1>1. ASSUME NEW y \in T PROVE n - y \in M
  OBVIOUS
<1>2. M \subseteq Nat /\ M # {}
  BY <1>1
<1>3. PICK m \in M : \A y \in M : m =< y
  <2> HIDE DEF M
  <2> QED BY <1>2, LeastNat
<1>4. PICK x \in T : x + m = n
  BY <1>3
<1>5. ASSUME NEW y \in T PROVE y =< x
  <2>1. m =< n - y
    <3> HIDE DEF M
    <3> QED BY <1>1, <1>3
  <2>2. m \in Nat /\ x \in Nat /\ y \in Nat
    BY <1>3
  <2>3. QED BY <2>1, <2>2, <1>4
<1>6. QED BY <1>5

\* The k-th smallest element of a finite set of IDs is one of them.
LEMMA KthIdIn ==
  ASSUME NEW n \in Nat, NEW ids, ids \subseteq 1 .. n,
         NEW k \in 1 .. Cardinality(ids)
  PROVE  KthId(ids, k) \in ids
<1> DEFINE Below(m) == {j \in ids : j =< m}
           T == {m \in Nat : Cardinality(Below(m)) >= k}
<1>1. IsFiniteSet(ids) /\ Cardinality(ids) \in Nat
  <2>1. IsFiniteSet(1 .. n)
    BY FS_Interval
  <2>2. IsFiniteSet(ids)
    BY <2>1, FS_Subset
  <2>3. QED BY <2>2, FS_CardinalityType
<1>2. ASSUME NEW m \in Nat
      PROVE  IsFiniteSet(Below(m)) /\ Cardinality(Below(m)) \in Nat
  <2>1. Below(m) \subseteq ids
    OBVIOUS
  <2>2. QED BY <1>1, <2>1, FS_Subset, FS_CardinalityType
<1>3. n \in T
  <2>1. Below(n) = ids
    <3>1. ASSUME NEW j \in ids PROVE j =< n
      OBVIOUS
    <3>2. QED BY <3>1
  <2>2. QED BY <2>1, <1>1
<1>4. PICK m \in Nat : /\ Cardinality(Below(m)) >= k
                      /\ \A y \in Nat : Cardinality(Below(y)) >= k => m =< y
  <2>1. T \subseteq Nat /\ T # {}
    BY <1>3
  <2>2. \E x \in T : \A y \in T : x =< y
    <3> HIDE DEF T
    <3> QED BY <2>1, LeastNat
  <2> HIDE DEF Below
  <2>3. QED BY <2>2
<1>5. m # 0
  <2>1. Below(0) = {}
    <3>1. ASSUME NEW j \in ids PROVE ~ (j =< 0)
      OBVIOUS
    <3>2. QED BY <3>1
  <2>2. Cardinality(Below(0)) = 0
    BY <2>1, FS_EmptySet
  <2> HIDE DEF Below
  <2>3. QED BY <2>2, <1>4
<1>6. m - 1 \in Nat /\ Cardinality(Below(m - 1)) < k
  <2> HIDE DEF Below
  <2>1. m - 1 \in Nat
    BY <1>5
  <2>2. ~ (m =< m - 1)
    OBVIOUS
  <2>3. ~ (Cardinality(Below(m - 1)) >= k)
    BY <2>1, <2>2, <1>4
  <2>4. Cardinality(Below(m - 1)) \in Nat /\ k \in Nat
    BY <2>1, <1>1, <1>2
  <2>5. QED BY <2>1, <2>3, <2>4
<1>7. m \in ids
  <2>1. SUFFICES ASSUME m \notin ids PROVE FALSE
    OBVIOUS
  <2>2. Below(m) = Below(m - 1)
    <3>1. ASSUME NEW j \in ids PROVE j =< m <=> j =< m - 1
      BY <2>1
    <3>2. QED BY <3>1
  <2> HIDE DEF Below
  <2>3. Cardinality(Below(m)) \in Nat /\ k \in Nat
    BY <1>1, <1>2
  <2>4. QED BY <2>2, <2>3, <1>6, <1>4
<1>8. Cardinality(Below(m)) = k
  <2>1. Below(m) = Below(m - 1) \cup {m} /\ m \notin Below(m - 1)
    <3>1. ASSUME NEW j \in ids PROVE j =< m <=> j =< m - 1 \/ j = m
      OBVIOUS
    <3>2. ~ (m =< m - 1)
      OBVIOUS
    <3>3. QED BY <3>1, <3>2, <1>7
  <2> HIDE DEF Below
  <2>2. Cardinality(Below(m)) = Cardinality(Below(m - 1)) + 1
    BY <2>1, <1>2, <1>6, FS_AddElement
  <2>3. Cardinality(Below(m)) \in Nat /\ Cardinality(Below(m - 1)) \in Nat /\ k \in Nat
    BY <1>1, <1>2, <1>6
  <2>4. QED BY <2>2, <2>3, <1>4, <1>6
<1>9. \E i \in ids : Cardinality({j \in ids : j =< i}) = k
  BY <1>7, <1>8
<1>10. QED BY <1>9 DEF KthId

\* The output values of pending deposits are values of notes, two for each.
LEMMA OutputValuesType ==
  ASSUME TypeOK, NEW ids, ids \subseteq DOMAIN pending
  PROVE  /\ IsFiniteSet(ids)
         /\ Cardinality(ids) \in Nat
         /\ OutputValues(ids) \in Seq(Nat)
         /\ Len(OutputValues(ids)) = 2 * Cardinality(ids)
<1> DEFINE n == next_deposit_id - 1
           c == 2 * Cardinality(ids)
<1>1. n \in Nat /\ ids \subseteq 1 .. n
  <2>1. next_deposit_id \in Nat \ {0} /\ DOMAIN pending \subseteq 1 .. next_deposit_id - 1
    BY Zenon DEF TypeOK, EntryTypeOK, TreeTypeOK
  <2>2. QED BY <2>1
<1>2. IsFiniteSet(ids) /\ Cardinality(ids) \in Nat
  <2>1. IsFiniteSet(1 .. n)
    BY <1>1, FS_Interval
  <2>2. IsFiniteSet(ids)
    BY <1>1, <2>1, FS_Subset
  <2>3. QED BY <2>2, FS_CardinalityType
<1>3. ASSUME NEW k \in 1 .. c
      PROVE  OutputValues(ids)[k] \in Nat
  <2>1. (k + 1) \div 2 \in 1 .. Cardinality(ids)
    BY <1>2
  <2>2. KthId(ids, (k + 1) \div 2) \in ids
    <3> HIDE DEF n
    <3> QED BY <1>1, <2>1, KthIdIn
  <2> DEFINE d == pending[KthId(ids, (k + 1) \div 2)]
  <2>3. d \in PendingDeposit
    BY <2>2 DEF TypeOK, EntryTypeOK, TreeTypeOK
  <2>4. d.output0 \in Nat /\ d.output1 \in Nat
    <3> HIDE DEF d
    <3> QED BY <2>3 DEF PendingDeposit
  <2>5. OutputValues(ids)[k] = IF k % 2 = 1 THEN d.output0 ELSE d.output1
    BY DEF OutputValues
  <2> HIDE DEF d
  <2>6. QED BY <2>4, <2>5
<1>4. OutputValues(ids) = [k \in 1 .. c |-> OutputValues(ids)[k]]
  BY DEF OutputValues
<1>5. c \in Nat
  BY <1>2
<1>6. OutputValues(ids) \in Seq(Nat) /\ Len(OutputValues(ids)) = c
  <2> DEFINE o == OutputValues(ids)
  <2> HIDE DEF o, c
  <2>1. o = [k \in 1 .. c |-> o[k]] /\ \A k \in 1 .. c : o[k] \in Nat
    BY <1>3, <1>4 DEF o
  <2>2. o \in [1 .. c -> Nat]
    BY <2>1
  <2>3. o \in Seq(Nat) /\ Len(o) = c
    BY <2>2, <1>5
  <2>4. QED BY <2>3 DEF o
<1>7. QED BY <1>2, <1>6

\* Appending keeps the tree well formed.
LEMMA AppendType ==
  ASSUME TypeOK, NEW values \in Seq(Nat), append(values)
  PROVE  /\ leaves' \in Seq(Nat)
         /\ Len(leaves') = Len(leaves) + Len(values)
         /\ newest' \in 0 .. ROOT_HISTORY - 1
         /\ roots' \in [0 .. ROOT_HISTORY - 1 -> Nat \cup {NoRoot}]
<1> DEFINE n == Len(values) \div 2
           Hits(s) == {j \in 1 .. n : (newest + j) % ROOT_HISTORY = s}
           Last(s) == CHOOSE j \in Hits(s) : \A k \in Hits(s) : k =< j
<1>0. leaves \in Seq(Nat) /\ ROOT_HISTORY \in Nat \ {0} /\ newest \in 0 .. ROOT_HISTORY - 1
  BY ConstantAssumptions, Zenon DEF TypeOK, EntryTypeOK, TreeTypeOK
<1>1. n \in Nat /\ Len(leaves) \in Nat
  BY <1>0
<1>2. leaves' \in Seq(Nat) /\ Len(leaves') = Len(leaves) + Len(values)
  BY <1>0 DEF append
<1>3. newest' \in 0 .. ROOT_HISTORY - 1
  <2>1. newest + n \in Nat
    <3> HIDE DEF n
    <3> QED BY <1>0, <1>1
  <2>2. newest' = (newest + n) % ROOT_HISTORY
    BY DEF append
  <2> HIDE DEF n
  <2>3. QED BY <2>1, <2>2, <1>0, DivMod
<1>4. ASSUME NEW s \in 0 .. ROOT_HISTORY - 1
      PROVE  roots'[s] \in Nat \cup {NoRoot}
  <2>1. roots'[s] = IF Hits(s) = {} THEN roots[s] ELSE Len(leaves) + 2 * Last(s)
    BY Zenon DEF append
  <2>2. CASE Hits(s) = {}
    BY <2>1, <2>2 DEF TypeOK, EntryTypeOK, TreeTypeOK
  <2>3. CASE Hits(s) # {}
    <3>1. Hits(s) \subseteq 1 .. n
      OBVIOUS
    <3>2. \E x \in Hits(s) : \A y \in Hits(s) : y =< x
      <4> HIDE DEF Hits, n
      <4> QED BY <3>1, <2>3, <1>1, LargestBelow
    <3>3. Last(s) \in Hits(s)
      <4> HIDE DEF Hits
      <4> QED BY <3>2
    <3>4. Last(s) \in Nat
      <4> HIDE DEF Last, Hits, n
      <4> QED BY <3>1, <3>3, <1>1
    <3> HIDE DEF Last, Hits
    <3>5. QED BY <2>1, <2>3, <3>4, <1>1
  <2>4. QED BY <2>2, <2>3
<1>5. roots' = [s \in 0 .. ROOT_HISTORY - 1 |-> roots'[s]]
  BY DEF append
<1>6. roots' \in [0 .. ROOT_HISTORY - 1 -> Nat \cup {NoRoot}]
  BY <1>4, <1>5
<1>7. QED BY <1>2, <1>3, <1>6

\* The recursive definition of release's loop defines its iterations.
LEMMA ReleaseLoopDef ==
  /\ ReleaseLoop(0) = ReleaseStart
  /\ \A n \in Nat : ReleaseLoop(n + 1) = ReleaseStep(ReleaseLoop(n))
<1> DEFINE A(m, g) == g = [k \in 0 .. m |-> IF k = 0 THEN ReleaseStart
                                            ELSE ReleaseStep(g[k - 1])]
           D(s) == s = [k \in Nat |-> IF k = 0 THEN ReleaseStart
                                      ELSE ReleaseStep(s[k - 1])]
           E == {m \in Nat : \E g : A(m, g)}
           U == {k \in Nat : \A p \in Nat, q \in Nat : \A g, h :
                   k =< p /\ k =< q /\ A(p, g) /\ A(q, h) => g[k] = h[k]}
<1>1. Nat \subseteq E
  <2>1. 0 \in E
    <3> DEFINE g == [k \in 0 .. 0 |-> ReleaseStart]
    <3>1. A(0, g)
      OBVIOUS
    <3> HIDE DEF A, g
    <3>2. QED BY <3>1
  <2>2. ASSUME NEW m \in Nat, m \in E
        PROVE  m + 1 \in E
    <3>1. PICK g : A(m, g)
      BY <2>2
    <3> DEFINE h == [k \in 0 .. m + 1 |-> IF k = m + 1 THEN ReleaseStep(g[m]) ELSE g[k]]
    <3>2. ASSUME NEW k \in 0 .. m + 1
          PROVE  h[k] = IF k = 0 THEN ReleaseStart ELSE ReleaseStep(h[k - 1])
      <4>1. CASE k = 0
        BY <3>1, <4>1
      <4>2. CASE k = m + 1
        <5>1. k - 1 = m /\ h[k] = ReleaseStep(g[m]) /\ h[m] = g[m] /\ k # 0
          BY <4>2
        <5> HIDE DEF h
        <5>2. QED BY <5>1
      <4>3. CASE k # 0 /\ k # m + 1
        <5>1. h[k] = g[k] /\ h[k - 1] = g[k - 1] /\ g[k] = ReleaseStep(g[k - 1])
          BY <3>1, <4>3
        <5> HIDE DEF h
        <5>2. QED BY <5>1, <4>3
      <4>4. QED BY <4>1, <4>2, <4>3
    <3>3. A(m + 1, h)
      BY <3>2
    <3> HIDE DEF A, h
    <3>4. QED BY <3>3
  <2> HIDE DEF E
  <2>3. QED BY <2>1, <2>2, SetInduction
<1>2. Nat \subseteq U
  <2>1. 0 \in U
    OBVIOUS
  <2>2. ASSUME NEW k \in Nat, k \in U
        PROVE  k + 1 \in U
    <3>1. SUFFICES ASSUME NEW p \in Nat, NEW q \in Nat, NEW g, NEW h,
                          k + 1 =< p, k + 1 =< q, A(p, g), A(q, h)
                   PROVE  g[k + 1] = h[k + 1]
      <4> HIDE DEF A
      <4> QED BY DEF U
    <3>2. g[k] = h[k]
      <4> HIDE DEF A
      <4>1. k =< p /\ k =< q
        BY <3>1
      <4> QED BY <2>2, <3>1, <4>1 DEF U
    <3>3. g[k + 1] = ReleaseStep(g[k]) /\ h[k + 1] = ReleaseStep(h[k])
      <4>1. k + 1 \in 0 .. p /\ k + 1 \in 0 .. q /\ k + 1 # 0 /\ (k + 1) - 1 = k
        BY <3>1
      <4>2. /\ g[k + 1] = ReleaseStep(g[(k + 1) - 1])
            /\ h[k + 1] = ReleaseStep(h[(k + 1) - 1])
        BY <3>1, <4>1
      <4>3. QED BY <4>1, <4>2
    <3>4. QED BY <3>2, <3>3
  <2> HIDE DEF U
  <2>3. QED BY <2>1, <2>2, SetInduction
<1> DEFINE G == [m \in Nat |-> (CHOOSE g : A(m, g))[m]]
<1>3. ASSUME NEW m \in Nat
      PROVE  A(m, CHOOSE g : A(m, g))
  <2>1. \E g : A(m, g)
    BY <1>1
  <2> HIDE DEF A
  <2>2. QED BY <2>1
<1>4. D(G)
  <2>1. ASSUME NEW k \in Nat
        PROVE  G[k] = IF k = 0 THEN ReleaseStart ELSE ReleaseStep(G[k - 1])
    <3>1. CASE k = 0
      <4> DEFINE g == CHOOSE x : A(k, x)
      <4>1. A(k, g)
        BY <1>3
      <4>2. g[0] = ReleaseStart
        <5> HIDE DEF g
        <5> QED BY <4>1, <3>1
      <4>3. G[k] = g[k]
        OBVIOUS
      <4> HIDE DEF g, G
      <4>4. QED BY <4>2, <4>3, <3>1
    <3>2. CASE k # 0
      <4> DEFINE g == CHOOSE x : A(k, x)
                 h == CHOOSE x : A(k - 1, x)
      <4>1. k - 1 \in Nat
        BY <3>2
      <4>2. A(k, g) /\ A(k - 1, h)
        BY <4>1, <1>3
      <4>3. g[k] = ReleaseStep(g[k - 1])
        <5> HIDE DEF g
        <5> QED BY <4>2, <3>2
      <4>4. g[k - 1] = h[k - 1]
        <5> HIDE DEF g, h, A
        <5>1. k - 1 \in U
          BY <4>1, <1>2
        <5>2. k - 1 =< k /\ k - 1 =< k - 1
          BY <4>1
        <5>3. QED BY <5>1, <5>2, <4>1, <4>2
      <4>5. G[k] = g[k] /\ G[k - 1] = h[k - 1]
        BY <4>1
      <4> HIDE DEF g, h, G
      <4>6. QED BY <4>3, <4>4, <4>5, <3>2
    <3>3. QED BY <3>1, <3>2
  <2>2. G = [k \in Nat |-> G[k]]
    OBVIOUS
  <2> HIDE DEF G
  <2>3. QED BY <2>1, <2>2
<1> DEFINE s == CHOOSE t : D(t)
<1>5. D(s)
  <2> HIDE DEF D, G
  <2> QED BY <1>4
<1>6. ASSUME NEW m \in Nat
      PROVE  ReleaseLoop(m) = s[m]
  BY DEF ReleaseLoop
<1>7. s[0] = ReleaseStart
  <2> HIDE DEF s
  <2> QED BY <1>5
<1>8. ASSUME NEW n \in Nat PROVE s[n + 1] = ReleaseStep(s[n])
  <2> HIDE DEF s
  <2>1. n + 1 \in Nat /\ n + 1 # 0 /\ (n + 1) - 1 = n
    OBVIOUS
  <2>2. s[n + 1] = ReleaseStep(s[(n + 1) - 1])
    BY <1>5, <2>1
  <2>3. QED BY <2>1, <2>2
<1>9. QED
  <2> HIDE DEF s
  <2>1. ReleaseLoop(0) = s[0] /\ \A n \in Nat : ReleaseLoop(n) = s[n]
    BY <1>6
  <2>2. ASSUME NEW n \in Nat PROVE ReleaseLoop(n + 1) = ReleaseStep(ReleaseLoop(n))
    BY <2>1, <1>8
  <2>3. QED BY <2>1, <2>2, <1>7

----------------------------------------------------------------------------
(* The invariants and what each action does to them.                       *)

\* What an exit still owes is something, and fits into one whole window.
Owing(exit) ==
  /\ exit.payout + exit.fee > 0
  /\ exit.payout + exit.fee =< limits.max_daily_outflow

\* What holds of release's loop at each iteration.
LoopInv(s) ==
  /\ s.count \in Nat
  /\ s.head \in exit_head .. exit_tail
  /\ s.exits \in [s.head .. exit_tail - 1 -> Exit]
  /\ \A i \in s.head .. exit_tail - 1 : Owing(s.exits[i])
  /\ s.stranded \in [DOMAIN s.stranded -> Exit]
  /\ DOMAIN s.stranded \subseteq 1 .. s.head - 1
  /\ \A i \in DOMAIN s.stranded : Owing(s.stranded[i])
  /\ s.queued \in Int
  /\ s.tvl \in Int
  /\ s.tvl =< tvl
  /\ s.today \in Nat
  /\ s.today =< limits.max_daily_outflow
  /\ s.funds \in Int
  /\ s.funds - s.tvl = balance - tvl
  /\ s.acc \in [Accounts -> AccountState]
  /\ s.due \in [Accounts -> Int]

\* What the head exit is paid of the part that fits.
payout_paid(s) == try_pay(s.acc, s.funds, HeadExit(s).recipient, PayoutPart(s))
fee_paid(s) ==
  try_pay(Credited(s.acc, HeadExit(s).recipient, payout_paid(s)),
          s.funds - payout_paid(s), HeadExit(s).relayer, FeePart(s))
left(s) == [HeadExit(s) EXCEPT !.payout = @ - payout_paid(s), !.fee = @ - fee_paid(s)]
refused(s) == payout_paid(s) < PayoutPart(s) \/ fee_paid(s) < FeePart(s)

\* The parts of the head exit that fit the window, and what is paid of them.
LEMMA HeadParts ==
  ASSUME NEW s, LoopInv(s), ~Stops(s), TypeOK
  PROVE  /\ s.head \in s.head .. exit_tail - 1
         /\ HeadExit(s) \in Exit
         /\ Owing(HeadExit(s))
         /\ Room(s) \in Nat \ {0}
         /\ PayoutPart(s) \in 0 .. HeadExit(s).payout
         /\ FeePart(s) \in 0 .. HeadExit(s).fee
         /\ PayoutPart(s) + FeePart(s) =< Room(s)
         /\ payout_paid(s) \in {0, PayoutPart(s)}
         /\ fee_paid(s) \in {0, FeePart(s)}
<1>1. /\ s.head \in exit_head .. exit_tail
      /\ s.exits \in [s.head .. exit_tail - 1 -> Exit]
      /\ \A i \in s.head .. exit_tail - 1 : Owing(s.exits[i])
      /\ s.today \in Nat
      /\ s.today =< limits.max_daily_outflow
  BY Zenon DEF LoopInv
<1>2. exit_head \in Nat \ {0} /\ exit_tail \in Nat \ {0} /\ limits \in Limits
  BY Zenon DEF TypeOK, GuardianTypeOK, ExitTypeOK, AssetTypeOK
<1>3. limits.max_daily_outflow \in Nat
  BY <1>2 DEF Limits
<1>4. s.head \in Nat /\ s.head < exit_tail /\ Room(s) # 0
  BY <1>1, <1>2 DEF Stops
<1>5. s.head \in s.head .. exit_tail - 1
  BY <1>2, <1>4
<1>6. HeadExit(s) \in Exit /\ Owing(HeadExit(s))
  BY <1>1, <1>5 DEF HeadExit
<1>7. HeadExit(s).payout \in Nat /\ HeadExit(s).fee \in Nat
  BY <1>6 DEF Exit
<1>8. Room(s) \in Nat \ {0}
  BY <1>1, <1>3, <1>4 DEF Room
<1>9. PayoutPart(s) \in 0 .. HeadExit(s).payout /\ PayoutPart(s) =< Room(s)
  BY <1>7, <1>8 DEF PayoutPart, Min2
<1>10. FeePart(s) \in 0 .. HeadExit(s).fee /\ PayoutPart(s) + FeePart(s) =< Room(s)
  BY <1>7, <1>8, <1>9 DEF FeePart, Min2
<1>11. payout_paid(s) \in {0, PayoutPart(s)} /\ fee_paid(s) \in {0, FeePart(s)}
  BY Zenon DEF payout_paid, fee_paid, try_pay
<1>12. QED BY <1>5, <1>6, <1>8, <1>9, <1>10, <1>11

\* PayHead by field.
LEMMA PayHeadFields ==
  ASSUME NEW s
  PROVE  LET settled == left(s).payout = 0 /\ left(s).fee = 0
             paid    == payout_paid(s) + fee_paid(s)
         IN /\ PayHead(s).count = s.count + 1
            /\ PayHead(s).head = IF refused(s) \/ settled THEN s.head + 1 ELSE s.head
            /\ PayHead(s).exits = IF refused(s) \/ settled THEN Drop(s.exits, {s.head})
                                  ELSE Put(s.exits, s.head, left(s))
            /\ PayHead(s).stranded = IF refused(s) THEN Put(s.stranded, s.head, left(s))
                                     ELSE s.stranded
            /\ PayHead(s).queued = s.queued - paid
            /\ PayHead(s).tvl = s.tvl - paid
            /\ PayHead(s).today = s.today + paid
            /\ PayHead(s).funds = s.funds - paid
            /\ PayHead(s).acc =
                 Credited(Credited(s.acc, HeadExit(s).recipient, payout_paid(s)),
                          HeadExit(s).relayer, fee_paid(s))
            /\ PayHead(s).due =
                 [a \in Accounts |->
                    s.due[a] - (IF a = HeadExit(s).recipient THEN payout_paid(s) ELSE 0)
                             - (IF a = HeadExit(s).relayer THEN fee_paid(s) ELSE 0)]
BY DEF PayHead, left, refused, payout_paid, fee_paid

\* What an exit still owes after a payment, and what is stranded of it.
LEMMA LeftOwing ==
  ASSUME NEW s, LoopInv(s), ~Stops(s), TypeOK
  PROVE  /\ left(s) \in Exit
         /\ left(s).payout + left(s).fee =< limits.max_daily_outflow
         /\ refused(s) => left(s).payout + left(s).fee > 0
         /\ ~(left(s).payout = 0 /\ left(s).fee = 0) => left(s).payout + left(s).fee > 0
<1> DEFINE e == HeadExit(s)
           p == payout_paid(s)
           f == fee_paid(s)
<1>1. /\ e \in Exit
      /\ PayoutPart(s) \in 0 .. e.payout
      /\ FeePart(s) \in 0 .. e.fee
      /\ p \in {0, PayoutPart(s)}
      /\ f \in {0, FeePart(s)}
      /\ e.payout + e.fee =< limits.max_daily_outflow
  BY HeadParts DEF Owing
<1>2. limits.max_daily_outflow \in Nat
  <2>1. limits \in Limits
    BY Zenon DEF TypeOK, GuardianTypeOK, ExitTypeOK, AssetTypeOK
  <2>2. QED BY <2>1 DEF Limits
<1>3. e.payout \in Nat /\ e.fee \in Nat
  BY <1>1 DEF Exit
<1>4. left(s) = [e EXCEPT !.payout = @ - p, !.fee = @ - f]
  BY DEF left
<1> HIDE DEF e, p, f
<1>5. p \in Nat /\ f \in Nat /\ p =< e.payout /\ f =< e.fee
  BY <1>1, <1>3
<1>6. e.payout - p \in Nat /\ e.fee - f \in Nat
  BY <1>3, <1>5
<1>7. left(s) \in Exit /\ left(s).payout = e.payout - p /\ left(s).fee = e.fee - f
  BY <1>1, <1>4, <1>6 DEF Exit
<1>8. refused(s) => left(s).payout > 0 \/ left(s).fee > 0
  <2>1. refused(s) => p < PayoutPart(s) \/ f < FeePart(s)
    BY DEF refused, p, f
  <2>2. PayoutPart(s) \in Nat /\ PayoutPart(s) =< e.payout
    BY <1>1, <1>3
  <2>3. FeePart(s) \in Nat /\ FeePart(s) =< e.fee
    BY <1>1, <1>3
  <2>4. p < PayoutPart(s) => e.payout - p > 0
    BY <2>2, <1>3, <1>5
  <2>5. f < FeePart(s) => e.fee - f > 0
    BY <2>3, <1>3, <1>5
  <2>6. QED BY <2>1, <2>4, <2>5, <1>7
<1>9. left(s).payout \in Nat /\ left(s).fee \in Nat
  BY <1>6, <1>7
<1>10. left(s).payout + left(s).fee =< limits.max_daily_outflow
  <2>1. (e.payout - p) + (e.fee - f) =< limits.max_daily_outflow
    <3>1. e.payout + e.fee =< limits.max_daily_outflow
      BY <1>1
    <3>2. QED BY <3>1, <1>2, <1>3, <1>5
  <2>2. QED BY <2>1, <1>7
<1>11. QED BY <1>7, <1>8, <1>9, <1>10

\* An iteration of release's loop keeps the loop invariant.
LEMMA PayHeadKeepsLoopInv ==
  ASSUME NEW s, LoopInv(s), ~Stops(s), TypeOK
  PROVE  LoopInv(PayHead(s))
<1> DEFINE t == PayHead(s)
           gone == refused(s) \/ (left(s).payout = 0 /\ left(s).fee = 0)
           paid == payout_paid(s) + fee_paid(s)
<1>1. /\ s.count \in Nat
      /\ s.head \in exit_head .. exit_tail
      /\ s.exits \in [s.head .. exit_tail - 1 -> Exit]
      /\ \A i \in s.head .. exit_tail - 1 : Owing(s.exits[i])
      /\ s.stranded \in [DOMAIN s.stranded -> Exit]
      /\ DOMAIN s.stranded \subseteq 1 .. s.head - 1
      /\ \A i \in DOMAIN s.stranded : Owing(s.stranded[i])
      /\ s.queued \in Int
      /\ s.tvl \in Int
      /\ s.tvl =< tvl
      /\ s.today \in Nat
      /\ s.today =< limits.max_daily_outflow
      /\ s.funds \in Int
      /\ s.funds - s.tvl = balance - tvl
      /\ s.acc \in [Accounts -> AccountState]
      /\ s.due \in [Accounts -> Int]
  BY Zenon DEF LoopInv
<1>2. /\ exit_head \in Nat \ {0}
      /\ exit_tail \in Nat \ {0}
      /\ tvl \in Int
      /\ balance \in Int
      /\ limits \in Limits
  BY Zenon DEF TypeOK, GuardianTypeOK, ExitTypeOK, AssetTypeOK
<1>3. limits.max_daily_outflow \in Nat
  BY <1>2 DEF Limits
<1>4. s.head \in Nat \ {0} /\ s.head < exit_tail /\ s.head \in s.head .. exit_tail - 1
  BY <1>1, <1>2, HeadParts
<1>5. /\ payout_paid(s) \in Nat
      /\ fee_paid(s) \in Nat
      /\ paid \in Nat
      /\ paid =< Room(s)
  <2>1. /\ PayoutPart(s) \in Nat
        /\ FeePart(s) \in Nat
        /\ PayoutPart(s) + FeePart(s) =< Room(s)
        /\ payout_paid(s) \in {0, PayoutPart(s)}
        /\ fee_paid(s) \in {0, FeePart(s)}
        /\ Room(s) \in Nat
    BY HeadParts
  <2>2. QED BY <2>1
<1>6. left(s) \in Exit /\ (refused(s) => Owing(left(s))) /\ (~gone => Owing(left(s)))
  BY LeftOwing DEF Owing
<1>7. /\ t.count = s.count + 1
      /\ t.head = IF gone THEN s.head + 1 ELSE s.head
      /\ t.exits = IF gone THEN Drop(s.exits, {s.head}) ELSE Put(s.exits, s.head, left(s))
      /\ t.stranded = IF refused(s) THEN Put(s.stranded, s.head, left(s)) ELSE s.stranded
      /\ t.queued = s.queued - paid
      /\ t.tvl = s.tvl - paid
      /\ t.today = s.today + paid
      /\ t.funds = s.funds - paid
  BY PayHeadFields
<1>8. t.acc \in [Accounts -> AccountState]
  <2>1. ASSUME NEW acc \in [Accounts -> AccountState], NEW to, NEW amount
        PROVE  Credited(acc, to, amount) \in [Accounts -> AccountState]
    BY DEF Credited, AccountState
  <2>2. t.acc = Credited(Credited(s.acc, HeadExit(s).recipient, payout_paid(s)),
                         HeadExit(s).relayer, fee_paid(s))
    BY PayHeadFields
  <2> HIDE DEF t
  <2>3. QED BY <1>1, <2>1, <2>2
<1>9. t.due \in [Accounts -> Int]
  <2>1. t.due = [a \in Accounts |->
                   s.due[a] - (IF a = HeadExit(s).recipient THEN payout_paid(s) ELSE 0)
                            - (IF a = HeadExit(s).relayer THEN fee_paid(s) ELSE 0)]
    BY PayHeadFields
  <2> HIDE DEF t
  <2>2. QED BY <1>1, <1>5, <2>1
<1> HIDE DEF t, gone, paid
<1>10. t.head \in exit_head .. exit_tail
  BY <1>1, <1>2, <1>4, <1>7
<1>11. /\ t.exits \in [t.head .. exit_tail - 1 -> Exit]
       /\ \A i \in t.head .. exit_tail - 1 : Owing(t.exits[i])
  <2>1. CASE gone
    <3>1. (s.head .. exit_tail - 1) \ {s.head} = s.head + 1 .. exit_tail - 1
      BY <1>2, <1>4
    <3>2. t.exits = [i \in s.head + 1 .. exit_tail - 1 |-> s.exits[i]]
      BY <1>1, <1>7, <2>1, <3>1 DEF Drop
    <3>3. s.head + 1 .. exit_tail - 1 \subseteq s.head .. exit_tail - 1
      BY <3>1
    <3>4. QED BY <1>1, <1>7, <2>1, <3>2, <3>3
  <2>2. CASE ~gone
    <3>1. (s.head .. exit_tail - 1) \cup {s.head} = s.head .. exit_tail - 1
      BY <1>4
    <3>2. t.exits = [i \in s.head .. exit_tail - 1 |-> IF i = s.head THEN left(s) ELSE s.exits[i]]
      BY <1>1, <1>7, <2>2, <3>1 DEF Put
    <3>3. \A i \in s.head .. exit_tail - 1 : t.exits[i] \in Exit /\ Owing(t.exits[i])
      BY <1>1, <1>6, <2>2, <3>2
    <3>4. t.head = s.head
      BY <1>7, <2>2
    <3>5. QED BY <3>2, <3>3, <3>4
  <2>3. QED BY <2>1, <2>2
<1>12. /\ t.stranded \in [DOMAIN t.stranded -> Exit]
       /\ DOMAIN t.stranded \subseteq 1 .. t.head - 1
       /\ \A i \in DOMAIN t.stranded : Owing(t.stranded[i])
  <2>1. CASE refused(s)
    <3>1. t.stranded = [i \in DOMAIN s.stranded \cup {s.head} |->
                          IF i = s.head THEN left(s) ELSE s.stranded[i]]
      BY <1>7, <2>1 DEF Put
    <3>2. t.head = s.head + 1
      BY <1>7, <2>1 DEF gone
    <3>3. DOMAIN t.stranded = DOMAIN s.stranded \cup {s.head}
      BY <3>1
    <3>4. DOMAIN t.stranded \subseteq 1 .. t.head - 1
      BY <3>2, <3>3, <1>1, <1>4
    <3>5. \A i \in DOMAIN t.stranded : t.stranded[i] \in Exit /\ Owing(t.stranded[i])
      BY <3>1, <3>3, <1>1, <1>6, <2>1
    <3>6. QED BY <3>1, <3>3, <3>4, <3>5
  <2>2. CASE ~refused(s)
    <3>1. t.stranded = s.stranded
      BY <1>7, <2>2
    <3>2. s.head =< t.head /\ t.head \in Nat
      BY <1>4, <1>7
    <3>3. DOMAIN t.stranded \subseteq 1 .. t.head - 1
      BY <3>1, <3>2, <1>1, <1>4
    <3>4. QED BY <3>1, <3>3, <1>1
  <2>3. QED BY <2>1, <2>2
<1>13. /\ t.count \in Nat
       /\ t.queued \in Int
       /\ t.tvl \in Int
       /\ t.tvl =< tvl
       /\ t.today \in Nat
       /\ t.funds \in Int
       /\ t.funds - t.tvl = balance - tvl
  <2>1. /\ s.count \in Nat
        /\ s.queued \in Int
        /\ s.tvl \in Int
        /\ s.tvl =< tvl
        /\ s.today \in Nat
        /\ s.funds \in Int
        /\ s.funds - s.tvl = balance - tvl
    BY <1>1
  <2>2. paid \in Nat /\ tvl \in Int /\ balance \in Int
    BY <1>2, <1>5
  <2>3. QED BY <2>1, <2>2, <1>7
<1>14. t.today =< limits.max_daily_outflow
  <2>1. Room(s) = limits.max_daily_outflow - s.today
    BY DEF Room
  <2>2. QED BY <2>1, <1>1, <1>3, <1>5, <1>7
<1>15. LoopInv(t)
  BY <1>8, <1>9, <1>10, <1>11, <1>12, <1>13, <1>14, Zenon DEF LoopInv
<1>16. QED BY <1>15 DEF t

\* The loop invariant holds when release ends.
LEMMA ReleaseLoopInv ==
  ASSUME TypeOK, LoopInv(ReleaseStart), NEW n \in Nat
  PROVE  LoopInv(ReleaseLoop(n))
<1> DEFINE S == {k \in Nat : LoopInv(ReleaseLoop(k))}
<1>1. 0 \in S
  BY ReleaseLoopDef
<1>2. ASSUME NEW k \in Nat, k \in S PROVE k + 1 \in S
  <2>1. LoopInv(ReleaseLoop(k)) /\ ReleaseLoop(k + 1) = ReleaseStep(ReleaseLoop(k))
    BY <1>2, ReleaseLoopDef
  <2>2. LoopInv(ReleaseStep(ReleaseLoop(k)))
    <3>1. CASE Stops(ReleaseLoop(k))
      BY <2>1, <3>1 DEF ReleaseStep
    <3>2. CASE ~Stops(ReleaseLoop(k))
      BY <2>1, <3>2, PayHeadKeepsLoopInv DEF ReleaseStep
    <3>3. QED BY <3>1, <3>2
  <2>3. QED BY <2>1, <2>2
<1>3. n \in S
  <2> HIDE DEF S
  <2> QED BY <1>1, <1>2, SetInduction
<1>4. QED BY <1>3

----------------------------------------------------------------------------
\* The limits in force passed the checks made of them.
LimitsSound == check_limits(limits)

\* A queued loosening becomes due no sooner than LOOSENING_DELAY after the
\* limits last changed.
NoticeGiven ==
  /\ limits_since =< now
  /\ \A queued \in queued_limits : queued.ready_at >= limits_since + LOOSENING_DELAY

\* The next halt waits for the cooldown of the last one.
CooldownKept == halted_until > 0 => next_halt_at >= halted_until + HALT_COOLDOWN

\* What the exits, the pool and the guardian's settings satisfy together.  The
\* outflow of the last day that paid anything never exceeds the window, so the
\* outflow of today does not either.
ExitsSound    == QueueInOrder /\ WindowRespected /\ outflow =< limits.max_daily_outflow
PoolSound     == PoolCanLeave /\ Solvent
GuardianSound == LimitsSound /\ NoticeGiven /\ CooldownKept

\* The inductive invariant of the vault.
IndInv == TypeOK /\ ExitsSound /\ PoolSound /\ GuardianSound /\ AttestedExist

\* What a step leaves alone keeps its part of the invariant.
LEMMA Frames ==
  /\ GuardianTypeOK /\ UNCHANGED guardianVars => GuardianTypeOK'
  /\ EntryTypeOK /\ UNCHANGED entryVars => EntryTypeOK'
  /\ ExitTypeOK /\ UNCHANGED exitVars => ExitTypeOK'
  /\ TreeTypeOK /\ UNCHANGED treeVars => TreeTypeOK'
  /\ AssetTypeOK /\ UNCHANGED assetVars => AssetTypeOK'
  /\ ExitsSound /\ UNCHANGED <<now, limits, exitVars>> => ExitsSound'
  /\ PoolSound /\ UNCHANGED <<tvl, limits, balance, clawed>> => PoolSound'
  /\ GuardianSound /\ UNCHANGED <<now, guardianVars, limits_since>> => GuardianSound'
  /\ AttestedExist /\ UNCHANGED <<attested_up_to, next_deposit_id>> => AttestedExist'
<1>1. GuardianTypeOK /\ UNCHANGED guardianVars => GuardianTypeOK'
  BY DEF GuardianTypeOK, guardianVars
<1>2. EntryTypeOK /\ UNCHANGED entryVars => EntryTypeOK'
  BY DEF EntryTypeOK, entryVars
<1>3. ExitTypeOK /\ UNCHANGED exitVars => ExitTypeOK'
  BY DEF ExitTypeOK, exitVars
<1>4. TreeTypeOK /\ UNCHANGED treeVars => TreeTypeOK'
  BY DEF TreeTypeOK, treeVars
<1>5. AssetTypeOK /\ UNCHANGED assetVars => AssetTypeOK'
  BY DEF AssetTypeOK, assetVars
<1>6. ExitsSound /\ UNCHANGED <<now, limits, exitVars>> => ExitsSound'
  BY DEF ExitsSound, QueueInOrder, WindowRespected, outflow_today, today, exitVars
<1>7. PoolSound /\ UNCHANGED <<tvl, limits, balance, clawed>> => PoolSound'
  BY DEF PoolSound, PoolCanLeave, Solvent
<1>8. GuardianSound /\ UNCHANGED <<now, guardianVars, limits_since>> => GuardianSound'
  BY DEF GuardianSound, LimitsSound, check_limits, NoticeGiven, CooldownKept, guardianVars
<1>9. AttestedExist /\ UNCHANGED <<attested_up_to, next_deposit_id>> => AttestedExist'
  BY DEF AttestedExist
<1>10. QED
  BY <1>1, <1>2, <1>3, <1>4, <1>5, <1>6, <1>7, <1>8, <1>9

\* The parts of the outflow window that the proofs compute with.
LEMMA WindowFacts ==
  ASSUME TypeOK, ExitsSound
  PROVE  /\ today \in Nat
         /\ outflow_today \in Nat
         /\ outflow_today =< limits.max_daily_outflow
         /\ limits.max_daily_outflow \in Nat
         /\ limits.tvl_cap \in Nat
<1>1. now \in Nat /\ Day \in Nat \ {0} /\ outflow \in Nat /\ limits \in Limits
  BY ConstantAssumptions, Zenon DEF TypeOK, GuardianTypeOK, ExitTypeOK
<1>2. today \in Nat
  BY <1>1, DivMod DEF today
<1>3. outflow_today \in Nat
  BY <1>1 DEF outflow_today
<1>4. outflow_today =< limits.max_daily_outflow
  BY Zenon DEF ExitsSound, WindowRespected
<1>5. limits.max_daily_outflow \in Nat /\ limits.tvl_cap \in Nat
  BY <1>1 DEF Limits
<1>6. QED BY <1>2, <1>3, <1>4, <1>5

----------------------------------------------------------------------------
\* Each step of the environment keeps the invariant.
LEMMA TickStep ==
  ASSUME IndInv, tick
  PROVE  IndInv'
<1>1. /\ TypeOK /\ ExitsSound /\ PoolSound /\ GuardianSound /\ AttestedExist
      /\ now' = now + 1
      /\ UNCHANGED <<guardianVars, entryVars, exitVars, tvl, treeVars, assetVars,
                     due, clawed, limits_since>>
  BY DEF IndInv, tick, ghostVars
<1>2. UNCHANGED <<limits, queued_limits, halted_until, next_halt_at, balance,
                  attested_up_to, next_deposit_id, exit_head, exit_tail, exits, stranded,
                  outflow_day, outflow>>
  BY <1>1 DEF guardianVars, entryVars, exitVars, assetVars
<1>3. TypeOK'
  BY <1>1, Frames DEF TypeOK
<1>4. ExitsSound'
  <2>1. outflow =< limits.max_daily_outflow /\ 0 =< limits.max_daily_outflow
    BY <1>1, WindowFacts DEF ExitsSound
  <2>2. outflow_today' =< limits'.max_daily_outflow
    BY <1>2, <2>1 DEF outflow_today
  <2>3. QED BY <1>1, <1>2, <2>2 DEF ExitsSound, QueueInOrder, WindowRespected
<1>5. PoolSound' /\ AttestedExist'
  BY <1>1, <1>2, Frames
<1>6. GuardianSound'
  <2>1. now \in Nat /\ limits_since \in Nat
    BY <1>1, Zenon DEF TypeOK
  <2>2. QED BY <1>1, <1>2, <2>1 DEF GuardianSound, LimitsSound, check_limits, NoticeGiven,
                                   CooldownKept
<1>7. QED BY <1>3, <1>4, <1>5, <1>6 DEF IndInv

\* An account or trustline that changes leaves the vault's books alone.
LEMMA SetAccountStep ==
  ASSUME IndInv, NEW to \in Accounts, NEW state \in AccountStates, set_account(to, state)
  PROVE  IndInv'
<1>1. /\ TypeOK /\ ExitsSound /\ PoolSound /\ GuardianSound /\ AttestedExist
      /\ accounts' = [accounts EXCEPT ![to] = state]
      /\ UNCHANGED <<now, guardianVars, entryVars, exitVars, tvl, treeVars, account_min,
                     vault_authorized, balance, due, clawed, limits_since>>
  BY DEF IndInv, set_account, ghostVars
<1>2. UNCHANGED <<limits, attested_up_to, next_deposit_id>>
  BY <1>1 DEF guardianVars, entryVars
<1>3. AssetTypeOK'
  <2>1. state \in AccountState
    BY ConstantAssumptions, Zenon
  <2>2. QED BY <1>1, <2>1 DEF TypeOK, AssetTypeOK
<1>4. TypeOK'
  BY <1>1, <1>3, Frames DEF TypeOK
<1>5. QED BY <1>1, <1>2, <1>4, Frames DEF IndInv

\* So does a change of the base reserve.
LEMMA SetReserveStep ==
  ASSUME IndInv, NEW min \in AccountMins, set_reserve(min)
  PROVE  IndInv'
<1>1. /\ TypeOK /\ ExitsSound /\ PoolSound /\ GuardianSound /\ AttestedExist
      /\ account_min' = min
      /\ UNCHANGED <<now, guardianVars, entryVars, exitVars, tvl, treeVars, accounts,
                     vault_authorized, balance, due, clawed, limits_since>>
  BY DEF IndInv, set_reserve, ghostVars
<1>2. UNCHANGED <<limits, attested_up_to, next_deposit_id>>
  BY <1>1 DEF guardianVars, entryVars
<1>3. AssetTypeOK'
  <2>1. min \in Nat
    BY ConstantAssumptions
  <2>2. QED BY <1>1, <2>1 DEF TypeOK, AssetTypeOK
<1>4. TypeOK'
  BY <1>1, <1>3, Frames DEF TypeOK
<1>5. QED BY <1>1, <1>2, <1>4, Frames DEF IndInv

\* And the issuer's authorization of the vault.
LEMMA AuthorizeVaultStep ==
  ASSUME IndInv, NEW allowed \in VaultAuthorizations, authorize_vault(allowed)
  PROVE  IndInv'
<1>1. /\ TypeOK /\ ExitsSound /\ PoolSound /\ GuardianSound /\ AttestedExist
      /\ vault_authorized' = allowed
      /\ UNCHANGED <<now, guardianVars, entryVars, exitVars, tvl, treeVars, accounts,
                     account_min, balance, due, clawed, limits_since>>
  BY DEF IndInv, authorize_vault, ghostVars
<1>2. UNCHANGED <<limits, attested_up_to, next_deposit_id>>
  BY <1>1 DEF guardianVars, entryVars
<1>3. AssetTypeOK'
  <2>1. allowed \in BOOLEAN
    BY ConstantAssumptions, Zenon
  <2>2. QED BY <1>1, <2>1 DEF TypeOK, AssetTypeOK
<1>4. TypeOK'
  BY <1>1, <1>3, Frames DEF TypeOK
<1>5. QED BY <1>1, <1>2, <1>4, Frames DEF IndInv

\* A clawback takes from the balance what it adds to `clawed`.
LEMMA ClawBackStep ==
  ASSUME IndInv, claw_back
  PROVE  IndInv'
<1>1. /\ TypeOK /\ ExitsSound /\ PoolSound /\ GuardianSound /\ AttestedExist
      /\ balance' = balance - 1
      /\ clawed' = clawed + 1
      /\ UNCHANGED <<now, guardianVars, entryVars, exitVars, tvl, treeVars, accounts,
                     account_min, vault_authorized, due, limits_since>>
  BY DEF IndInv, claw_back
<1>2. UNCHANGED <<limits, attested_up_to, next_deposit_id>>
  BY <1>1 DEF guardianVars, entryVars
<1>3. balance \in Int /\ clawed \in Nat
  BY <1>1, Zenon DEF TypeOK, AssetTypeOK
<1>4. AssetTypeOK' /\ clawed' \in Nat
  BY <1>1, <1>3 DEF TypeOK, AssetTypeOK
<1>5. TypeOK'
  BY <1>1, <1>4, Frames DEF TypeOK
<1>6. PoolSound'
  BY <1>1, <1>2, <1>3 DEF PoolSound, PoolCanLeave, Solvent
<1>7. QED BY <1>1, <1>2, <1>5, <1>6, Frames DEF IndInv

----------------------------------------------------------------------------
\* Each step of the guardian keeps the invariant.
LEMMA PauseStep ==
  ASSUME IndInv, NEW p \in BOOLEAN, NEW q \in BOOLEAN, set_pause(p, q)
  PROVE  IndInv'
<1>1. /\ TypeOK /\ ExitsSound /\ PoolSound /\ GuardianSound /\ AttestedExist
      /\ deposits_paused' = p
      /\ transfers_paused' = q
      /\ UNCHANGED <<now, limits, queued_limits, halted_until, next_halt_at, entryVars,
                     exitVars, tvl, treeVars, assetVars, due, clawed, limits_since>>
  BY DEF IndInv, set_pause, ghostVars
<1>2. UNCHANGED <<balance, attested_up_to, next_deposit_id>>
  BY <1>1 DEF assetVars, entryVars
<1>3. GuardianTypeOK'
  BY <1>1 DEF TypeOK, GuardianTypeOK
<1>4. TypeOK'
  BY <1>1, <1>3, Frames DEF TypeOK
<1>5. GuardianSound'
  BY <1>1 DEF GuardianSound, LimitsSound, check_limits, NoticeGiven, CooldownKept
<1>6. QED BY <1>1, <1>2, <1>4, <1>5, Frames DEF IndInv

\* halt puts the next halt a HALT_COOLDOWN after the end of this one.
LEMMA HaltStep ==
  ASSUME IndInv, halt
  PROVE  IndInv'
<1>1. /\ TypeOK /\ ExitsSound /\ PoolSound /\ GuardianSound /\ AttestedExist
      /\ halted_until' = now + HALT_DURATION
      /\ next_halt_at' = now + HALT_DURATION + HALT_COOLDOWN
      /\ UNCHANGED <<now, limits, queued_limits, deposits_paused, transfers_paused,
                     entryVars, exitVars, tvl, treeVars, assetVars, due, clawed,
                     limits_since>>
  BY DEF IndInv, halt, ghostVars
<1>2. UNCHANGED <<balance, attested_up_to, next_deposit_id>>
  BY <1>1 DEF assetVars, entryVars
<1>3. now \in Nat /\ HALT_DURATION \in Nat /\ HALT_COOLDOWN \in Nat
  BY <1>1, ConstantAssumptions DEF TypeOK
<1>4. GuardianTypeOK'
  BY <1>1, <1>3 DEF TypeOK, GuardianTypeOK
<1>5. TypeOK'
  BY <1>1, <1>4, Frames DEF TypeOK
<1>6. GuardianSound'
  BY <1>1, <1>3 DEF GuardianSound, LimitsSound, check_limits, NoticeGiven, CooldownKept
<1>7. QED BY <1>1, <1>2, <1>5, <1>6, Frames DEF IndInv

\* resume ends the halt now, and the cooldown runs from now.
LEMMA ResumeStep ==
  ASSUME IndInv, resume
  PROVE  IndInv'
<1>1. /\ TypeOK /\ ExitsSound /\ PoolSound /\ GuardianSound /\ AttestedExist
      /\ halted_until' = now
      /\ next_halt_at' = now + HALT_COOLDOWN
      /\ UNCHANGED <<now, limits, queued_limits, deposits_paused, transfers_paused,
                     entryVars, exitVars, tvl, treeVars, assetVars, due, clawed,
                     limits_since>>
  BY DEF IndInv, resume, ghostVars
<1>2. UNCHANGED <<balance, attested_up_to, next_deposit_id>>
  BY <1>1 DEF assetVars, entryVars
<1>3. now \in Nat /\ HALT_COOLDOWN \in Nat
  BY <1>1, ConstantAssumptions DEF TypeOK
<1>4. GuardianTypeOK'
  BY <1>1, <1>3 DEF TypeOK, GuardianTypeOK
<1>5. TypeOK'
  BY <1>1, <1>4, Frames DEF TypeOK
<1>6. GuardianSound'
  BY <1>1, <1>3 DEF GuardianSound, LimitsSound, check_limits, NoticeGiven, CooldownKept
<1>7. QED BY <1>1, <1>2, <1>5, <1>6, Frames DEF IndInv

\* The window never shrinks, so a change of the limits keeps what the exits
\* and the pool were promised.
LEMMA LimitsChange ==
  ASSUME IndInv, NEW next, check_change(limits, next), limits' = next,
         UNCHANGED <<now, exitVars, tvl, balance, clawed>>
  PROVE  ExitsSound' /\ PoolSound' /\ LimitsSound'
<1> DEFINE old == limits.max_daily_outflow
           new == next.max_daily_outflow
<1>1. TypeOK /\ ExitsSound /\ PoolSound
  BY DEF IndInv
<1>2. /\ next \in Limits
      /\ next.tvl_cap =< ExitDays * new
      /\ new >= old
  BY DEF check_change, check_limits
<1>3. LimitsSound'
  BY <1>2 DEF LimitsSound, check_limits
<1>4. old \in Nat /\ new \in Nat /\ old =< new
  <2>1. old \in Nat
    BY <1>1, WindowFacts
  <2>2. new \in Nat
    BY <1>2 DEF Limits
  <2>3. QED BY <2>1, <2>2, <1>2
<1>5. UNCHANGED <<exit_head, exit_tail, exits, stranded, outflow_day, outflow>>
  BY DEF exitVars
<1>6. PoolSound'
  <2>1. ExitDays * old \in Nat /\ ExitDays * new \in Nat /\ ExitDays * old =< ExitDays * new
    <3>1. ExitDays \in Nat
      BY ConstantAssumptions
    <3> HIDE DEF old, new
    <3>2. QED BY <3>1, <1>4, TimesMonotone
  <2>2. tvl \in Int /\ tvl =< ExitDays * old
    BY <1>1, Zenon DEF TypeOK, PoolSound, PoolCanLeave
  <2>3. tvl =< ExitDays * new
    <3> HIDE DEF old, new
    <3> QED BY <2>1, <2>2
  <2>4. PoolCanLeave'
    BY <2>3 DEF PoolCanLeave
  <2>5. Solvent'
    BY <1>1 DEF PoolSound, Solvent
  <2>6. QED BY <2>4, <2>5 DEF PoolSound
<1>7. ExitsSound'
  <2>1. QueueInOrder'
    BY <1>1, <1>5 DEF ExitsSound, QueueInOrder
  <2>2. outflow \in Nat /\ outflow =< old
    BY <1>1, Zenon DEF TypeOK, ExitTypeOK, ExitsSound
  <2>3. outflow_today' =< new /\ outflow' =< new
    BY <1>4, <1>5, <2>2 DEF outflow_today
  <2>4. ASSUME NEW i \in DOMAIN exits
        PROVE  exits[i].payout + exits[i].fee =< new
    <3>1. exits[i] \in Exit /\ exits[i].payout + exits[i].fee =< old
      BY <1>1 DEF TypeOK, ExitTypeOK, ExitsSound, WindowRespected
    <3>2. exits[i].payout \in Nat /\ exits[i].fee \in Nat
      BY <3>1 DEF Exit
    <3>3. QED BY <3>1, <3>2, <1>4
  <2>5. ASSUME NEW i \in DOMAIN stranded
        PROVE  stranded[i].payout + stranded[i].fee =< new
    <3>1. stranded[i] \in Exit /\ stranded[i].payout + stranded[i].fee =< old
      BY <1>1 DEF TypeOK, ExitTypeOK, ExitsSound, WindowRespected
    <3>2. stranded[i].payout \in Nat /\ stranded[i].fee \in Nat
      BY <3>1 DEF Exit
    <3>3. QED BY <3>1, <3>2, <1>4
  <2>6. QED BY <1>5, <2>1, <2>3, <2>4, <2>5 DEF ExitsSound, WindowRespected
<1>8. QED BY <1>3, <1>6, <1>7

\* set_limits applies a tightening at once and queues anything else.
LEMMA SetLimitsStep ==
  ASSUME IndInv, NEW next, set_limits(next)
  PROVE  IndInv'
<1>1. /\ TypeOK /\ ExitsSound /\ PoolSound /\ GuardianSound /\ AttestedExist
      /\ check_change(limits, next)
      /\ UNCHANGED <<now, deposits_paused, transfers_paused, halted_until, next_halt_at,
                     entryVars, exitVars, tvl, treeVars, assetVars, due, clawed>>
  BY DEF IndInv, set_limits, limitsUnchanged
<1>2. UNCHANGED <<balance, attested_up_to, next_deposit_id>>
  BY <1>1 DEF assetVars, entryVars
<1>3. now \in Nat /\ limits_since \in Nat /\ LOOSENING_DELAY \in Nat
  BY <1>1, ConstantAssumptions DEF TypeOK
<1>4. next \in Limits
  BY <1>1 DEF check_change, check_limits
<1>5. CASE tightening(limits, next)
  <2>1. limits' = next /\ queued_limits' = {} /\ limits_since' = now
    BY <1>5 DEF set_limits
  <2>2. GuardianTypeOK'
    BY <1>1, <1>4, <2>1 DEF TypeOK, GuardianTypeOK
  <2>3. TypeOK'
    BY <1>1, <1>3, <2>1, <2>2, Frames DEF TypeOK
  <2>4. ExitsSound' /\ PoolSound' /\ LimitsSound'
    BY <1>1, <1>2, <2>1, LimitsChange
  <2>5. NoticeGiven' /\ CooldownKept'
    BY <1>1, <1>3, <2>1 DEF NoticeGiven, CooldownKept, GuardianSound
  <2>6. QED BY <1>1, <1>2, <2>3, <2>4, <2>5, Frames DEF IndInv, GuardianSound
<1>6. CASE ~tightening(limits, next)
  <2>1. /\ queued_limits' = {[limits |-> next, ready_at |-> now + LOOSENING_DELAY]}
        /\ UNCHANGED <<limits, limits_since>>
    BY <1>6 DEF set_limits
  <2>2. GuardianTypeOK'
    <3>1. queued_limits' \subseteq QueuedLimits
      BY <1>3, <1>4, <2>1 DEF QueuedLimits
    <3>2. QED BY <1>1, <2>1, <3>1 DEF TypeOK, GuardianTypeOK
  <2>3. TypeOK'
    BY <1>1, <2>1, <2>2, Frames DEF TypeOK
  <2>4. GuardianSound'
    <3>1. LimitsSound' /\ CooldownKept'
      BY <1>1, <2>1 DEF GuardianSound, LimitsSound, check_limits, CooldownKept
    <3>2. limits_since =< now
      BY <1>1 DEF GuardianSound, NoticeGiven
    <3>3. NoticeGiven'
      BY <1>1, <1>3, <2>1, <3>2 DEF NoticeGiven
    <3>4. QED BY <3>1, <3>3 DEF GuardianSound
  <2>5. QED BY <1>1, <1>2, <2>1, <2>3, <2>4, Frames DEF IndInv
<1>7. QED BY <1>5, <1>6

\* apply_limits checks the queued limits against the limits now in force.
LEMMA ApplyLimitsStep ==
  ASSUME IndInv, apply_limits
  PROVE  IndInv'
<1>1. /\ TypeOK /\ ExitsSound /\ PoolSound /\ GuardianSound /\ AttestedExist
      /\ queued_limits' = {}
      /\ limits_since' = now
      /\ UNCHANGED <<now, deposits_paused, transfers_paused, halted_until, next_halt_at,
                     entryVars, exitVars, tvl, treeVars, assetVars, due, clawed>>
  BY DEF IndInv, apply_limits, limitsUnchanged
<1>2. PICK queued \in queued_limits :
        check_change(limits, queued.limits) /\ limits' = queued.limits
  BY DEF apply_limits
<1>3. UNCHANGED <<balance, attested_up_to, next_deposit_id>>
  BY <1>1 DEF assetVars, entryVars
<1>4. now \in Nat
  BY <1>1 DEF TypeOK
<1>5. GuardianTypeOK'
  <2>1. limits' \in Limits
    BY <1>2 DEF check_change, check_limits
  <2>2. QED BY <1>1, <2>1 DEF TypeOK, GuardianTypeOK
<1>6. TypeOK'
  BY <1>1, <1>4, <1>5, Frames DEF TypeOK
<1>7. ExitsSound' /\ PoolSound' /\ LimitsSound'
  BY <1>1, <1>2, <1>3, LimitsChange
<1>8. NoticeGiven' /\ CooldownKept'
  BY <1>1, <1>4 DEF NoticeGiven, CooldownKept, GuardianSound
<1>9. QED BY <1>1, <1>3, <1>6, <1>7, <1>8, Frames DEF IndInv, GuardianSound

\* cancel_limits only drops the queued limits.
LEMMA CancelLimitsStep ==
  ASSUME IndInv, cancel_limits
  PROVE  IndInv'
<1>1. /\ TypeOK /\ ExitsSound /\ PoolSound /\ GuardianSound /\ AttestedExist
      /\ queued_limits' = {}
      /\ UNCHANGED <<now, limits, limits_since, deposits_paused, transfers_paused,
                     halted_until, next_halt_at, entryVars, exitVars, tvl, treeVars,
                     assetVars, due, clawed>>
  BY DEF IndInv, cancel_limits, limitsUnchanged
<1>2. UNCHANGED <<balance, attested_up_to, next_deposit_id>>
  BY <1>1 DEF assetVars, entryVars
<1>3. GuardianTypeOK'
  BY <1>1 DEF TypeOK, GuardianTypeOK
<1>4. TypeOK'
  BY <1>1, <1>3, Frames DEF TypeOK
<1>5. GuardianSound'
  BY <1>1 DEF GuardianSound, LimitsSound, check_limits, NoticeGiven, CooldownKept
<1>6. QED BY <1>1, <1>2, <1>4, <1>5, Frames DEF IndInv

----------------------------------------------------------------------------
\* Each step of the entry gate keeps the invariant.
LEMMA ShieldStep ==
  ASSUME IndInv, NEW d \in Depositors, NEW amount \in Nat \ {0}, NEW output0 \in Nat,
         NEW output1 \in Nat, NEW deadline, shield(d, amount, output0, output1, deadline)
  PROVE  IndInv'
<1> DEFINE spent == IF day_total[d].day = today THEN day_total[d].total ELSE 0
           deposit == [depositor |-> d, amount |-> amount,
                       output0 |-> output0, output1 |-> output1,
                       created_at |-> now, delay |-> delay(amount),
                       flag |-> 0, flagged_at |-> 0]
<1>1. TypeOK /\ ExitsSound /\ PoolSound /\ GuardianSound /\ AttestedExist
  BY DEF IndInv
<1>2. /\ tvl + amount =< limits.tvl_cap
      /\ balance' = balance + amount
      /\ pending' = Put(pending, next_deposit_id, deposit)
      /\ next_deposit_id' = next_deposit_id + 1
      /\ pending_total' = pending_total + amount
      /\ tvl' = tvl + amount
      /\ day_total' = [day_total EXCEPT ![d] = [day |-> today, total |-> spent + amount]]
      /\ UNCHANGED <<now, guardianVars, attested_up_to, exitVars, treeVars,
                     accounts, account_min, vault_authorized, due, clawed, limits_since>>
  BY DEF shield, ghostVars
<1>3. /\ now \in Nat /\ tvl \in Int /\ balance \in Int /\ clawed \in Nat
      /\ next_deposit_id \in Nat \ {0} /\ attested_up_to \in Nat /\ pending_total \in Int
      /\ limits \in Limits
      /\ DOMAIN pending \subseteq 1 .. next_deposit_id - 1
      /\ pending \in [DOMAIN pending -> PendingDeposit]
      /\ day_total \in [Depositors -> [day : Nat, total : Nat]]
  BY <1>1, Zenon DEF TypeOK, GuardianTypeOK, EntryTypeOK, AssetTypeOK
<1>4. today \in Nat /\ limits.max_daily_outflow \in Nat /\ limits.tvl_cap \in Nat
  BY <1>1, WindowFacts
<1>5. EntryTypeOK'
  <2>1. delay(amount) \in Nat
    <3>1. DelaySmall \in Nat /\ DelayLarge \in Nat
      BY ConstantAssumptions
    <3>2. QED BY <3>1 DEF delay
  <2>2. deposit \in PendingDeposit
    <3> HIDE DEF delay
    <3> QED BY <1>3, <2>1 DEF PendingDeposit
  <2> HIDE DEF deposit
  <2>3. pending' = [i \in DOMAIN pending \cup {next_deposit_id} |->
                      IF i = next_deposit_id THEN deposit ELSE pending[i]]
    BY <1>2 DEF Put
  <2>4. DOMAIN pending' = DOMAIN pending \cup {next_deposit_id}
    BY <2>3
  <2>5. \A i \in DOMAIN pending' : pending'[i] \in PendingDeposit
    BY <1>3, <2>2, <2>3, <2>4
  <2>6. pending' \in [DOMAIN pending' -> PendingDeposit]
    BY <2>3, <2>4, <2>5
  <2>7. next_deposit_id' \in Nat \ {0} /\ DOMAIN pending' \subseteq 1 .. next_deposit_id' - 1
    BY <1>2, <1>3, <2>4
  <2>8. day_total' \in [Depositors -> [day : Nat, total : Nat]]
    <3>1. day_total[d].total \in Nat
      BY <1>3
    <3>2. spent \in Nat
      BY <3>1
    <3> HIDE DEF spent
    <3>3. [day |-> today, total |-> spent + amount] \in [day : Nat, total : Nat]
      BY <1>4, <3>2
    <3>4. QED BY <1>2, <1>3, <3>3
  <2>9. attested_up_to' \in Nat /\ pending_total' \in Int
    BY <1>2, <1>3
  <2>10. QED BY <2>6, <2>7, <2>8, <2>9 DEF EntryTypeOK
<1>6. AssetTypeOK' /\ tvl' \in Int /\ now' \in Nat
  BY <1>1, <1>2, <1>3 DEF TypeOK, AssetTypeOK
<1>7. TypeOK'
  BY <1>1, <1>2, <1>5, <1>6, Frames DEF TypeOK
<1>8. UNCHANGED limits
  BY <1>2 DEF guardianVars
<1>9. PoolSound'
  <2>1. balance + clawed = tvl
    BY <1>1 DEF PoolSound, Solvent
  <2>2. Solvent'
    BY <1>2, <1>3, <2>1 DEF Solvent
  <2>3. limits.tvl_cap =< ExitDays * limits.max_daily_outflow
    BY <1>1 DEF GuardianSound, LimitsSound, check_limits
  <2>4. ExitDays * limits.max_daily_outflow \in Nat
    <3>1. ExitDays \in Nat
      BY ConstantAssumptions
    <3>2. QED BY <3>1, <1>4, TimesMonotone
  <2>5. tvl + amount =< ExitDays * limits.max_daily_outflow
    BY <1>2, <1>3, <1>4, <2>3, <2>4
  <2>6. PoolCanLeave'
    BY <1>2, <1>8, <2>5 DEF PoolCanLeave
  <2>7. QED BY <2>2, <2>6 DEF PoolSound
<1>10. AttestedExist'
  BY <1>1, <1>2, <1>3 DEF AttestedExist
<1>11. QED BY <1>1, <1>2, <1>7, <1>8, <1>9, <1>10, Frames DEF IndInv

\* attest never reaches past the last deposit made.
LEMMA AttestStep ==
  ASSUME IndInv, NEW id \in DepositIds, attest(id)
  PROVE  IndInv'
<1>1. /\ TypeOK /\ ExitsSound /\ PoolSound /\ GuardianSound /\ AttestedExist
      /\ id < next_deposit_id
      /\ attested_up_to' = id
      /\ UNCHANGED <<now, guardianVars, next_deposit_id, pending, pending_total,
                     day_total, exitVars, tvl, treeVars, assetVars, due, clawed,
                     limits_since>>
  BY DEF IndInv, attest, ghostVars
<1>2. UNCHANGED <<limits, balance>>
  BY <1>1 DEF guardianVars, assetVars
<1>3. id \in Nat
  BY DEF DepositIds
<1>4. EntryTypeOK'
  BY <1>1, <1>3 DEF TypeOK, EntryTypeOK
<1>5. TypeOK'
  BY <1>1, <1>4, Frames DEF TypeOK
<1>6. AttestedExist'
  BY <1>1 DEF AttestedExist
<1>7. QED BY <1>1, <1>2, <1>5, <1>6, Frames DEF IndInv

\* A change of one pending deposit keeps the invariant.
LEMMA PendingStep ==
  ASSUME IndInv, DOMAIN pending' \subseteq DOMAIN pending,
         pending' \in [DOMAIN pending' -> PendingDeposit], pending_total' \in Int,
         UNCHANGED <<now, guardianVars, next_deposit_id, attested_up_to, day_total,
                     exitVars, treeVars, account_min, vault_authorized, due, clawed,
                     limits_since>>,
         accounts' \in [Accounts -> AccountState],
         \E amount \in Nat : tvl' = tvl - amount /\ balance' = balance - amount
  PROVE  IndInv'
<1>1. TypeOK /\ ExitsSound /\ PoolSound /\ GuardianSound /\ AttestedExist
  BY DEF IndInv
<1>2. PICK amount \in Nat : tvl' = tvl - amount /\ balance' = balance - amount
  OBVIOUS
<1>3. tvl \in Int /\ balance \in Int /\ clawed \in Nat
  BY <1>1, Zenon DEF TypeOK, AssetTypeOK
<1>4. UNCHANGED limits
  BY DEF guardianVars
<1>5. EntryTypeOK'
  BY <1>1 DEF TypeOK, EntryTypeOK
<1>6. AssetTypeOK' /\ tvl' \in Int
  BY <1>1, <1>2, <1>3 DEF TypeOK, AssetTypeOK
<1>7. TypeOK'
  BY <1>1, <1>5, <1>6, Frames DEF TypeOK
<1>8. PoolSound'
  <2>1. balance + clawed = tvl /\ tvl =< ExitDays * limits.max_daily_outflow
    BY <1>1 DEF PoolSound, PoolCanLeave, Solvent
  <2>2. ExitDays * limits.max_daily_outflow \in Nat
    <3>1. ExitDays \in Nat
      BY ConstantAssumptions
    <3>2. limits.max_daily_outflow \in Nat
      BY <1>1, WindowFacts
    <3>3. QED BY <3>1, <3>2, TimesMonotone
  <2>3. tvl' =< ExitDays * limits.max_daily_outflow /\ balance' + clawed = tvl'
    BY <1>2, <1>3, <2>1, <2>2
  <2>4. QED BY <1>4, <2>3 DEF PoolSound, PoolCanLeave, Solvent
<1>9. QED BY <1>1, <1>4, <1>7, <1>8, Frames DEF IndInv

\* flag stamps a deposit that has no stamp.
LEMMA FlagStep ==
  ASSUME IndInv, NEW id \in DepositIds, NEW reason \in Nat, flag(id, reason)
  PROVE  IndInv'
<1>1. /\ id \in DOMAIN pending
      /\ pending' = [pending EXCEPT ![id].flag = reason,
                       ![id].flagged_at = IF pending[id].flag = 0 THEN now ELSE @]
      /\ UNCHANGED <<now, guardianVars, next_deposit_id, attested_up_to, pending_total,
                     day_total, exitVars, tvl, treeVars, assetVars, due, clawed,
                     limits_since>>
  BY DEF flag, ghostVars
<1>2. /\ pending \in [DOMAIN pending -> PendingDeposit] /\ now \in Nat
      /\ pending_total \in Int /\ accounts \in [Accounts -> AccountState]
      /\ tvl \in Int /\ balance \in Int
  BY Zenon DEF IndInv, TypeOK, EntryTypeOK, AssetTypeOK
<1>3. UNCHANGED <<accounts, account_min, vault_authorized, balance>>
  BY <1>1 DEF assetVars
<1>4. DOMAIN pending' = DOMAIN pending
  BY <1>1
<1>5. pending' \in [DOMAIN pending' -> PendingDeposit]
  BY <1>1, <1>2, <1>4 DEF PendingDeposit
<1>6. tvl' = tvl - 0 /\ balance' = balance - 0
  BY <1>1, <1>2, <1>3
<1>7. QED BY <1>1, <1>2, <1>3, <1>4, <1>5, <1>6, PendingStep

\* unflag clears the stamp of a pending deposit.
LEMMA UnflagStep ==
  ASSUME IndInv, NEW id \in DepositIds, unflag(id)
  PROVE  IndInv'
<1>1. /\ id \in DOMAIN pending
      /\ pending' = [pending EXCEPT ![id].flag = 0, ![id].flagged_at = 0]
      /\ UNCHANGED <<now, guardianVars, next_deposit_id, attested_up_to, pending_total,
                     day_total, exitVars, tvl, treeVars, assetVars, due, clawed,
                     limits_since>>
  BY DEF unflag, ghostVars
<1>2. /\ pending \in [DOMAIN pending -> PendingDeposit]
      /\ pending_total \in Int /\ accounts \in [Accounts -> AccountState]
      /\ tvl \in Int /\ balance \in Int
  BY Zenon DEF IndInv, TypeOK, EntryTypeOK, AssetTypeOK
<1>3. UNCHANGED <<accounts, account_min, vault_authorized, balance>>
  BY <1>1 DEF assetVars
<1>4. DOMAIN pending' = DOMAIN pending
  BY <1>1
<1>5. pending' \in [DOMAIN pending' -> PendingDeposit]
  BY <1>1, <1>2, <1>4 DEF PendingDeposit
<1>6. tvl' = tvl - 0 /\ balance' = balance - 0
  BY <1>1, <1>2, <1>3
<1>7. QED BY <1>1, <1>2, <1>3, <1>4, <1>5, <1>6, PendingStep

\* Removing deposits from the entry queue keeps the others.
LEMMA DropType ==
  ASSUME TypeOK, NEW ids, pending' = Drop(pending, ids)
  PROVE  /\ DOMAIN pending' = DOMAIN pending \ ids
         /\ pending' \in [DOMAIN pending' -> PendingDeposit]
<1>1. pending \in [DOMAIN pending -> PendingDeposit]
  BY Zenon DEF TypeOK, EntryTypeOK
<1>2. pending' = [i \in DOMAIN pending \ ids |-> pending[i]]
  BY DEF Drop
<1>3. DOMAIN pending' = DOMAIN pending \ ids
  BY <1>2
<1>4. \A i \in DOMAIN pending' : pending'[i] \in PendingDeposit
  BY <1>1, <1>2, <1>3
<1>5. QED BY <1>2, <1>3, <1>4

\* cancel and refund pay a pending deposit back and take it off the TVL.
LEMMA ReturnStep ==
  ASSUME IndInv, NEW id \in DOMAIN pending, return_deposit(id)
  PROVE  IndInv'
<1> DEFINE amount == pending[id].amount
<1>1. /\ pending' = Drop(pending, {id})
      /\ tvl' = tvl - amount
      /\ pending_total' = pending_total - amount
      /\ balance' = balance - amount
      /\ accounts' = Credited(accounts, pending[id].depositor, amount)
      /\ UNCHANGED <<now, guardianVars, next_deposit_id, attested_up_to, day_total,
                     exitVars, treeVars, account_min, vault_authorized, due, clawed,
                     limits_since>>
  BY DEF return_deposit, ghostVars
<1>2. /\ TypeOK
      /\ pending[id] \in PendingDeposit /\ pending_total \in Int
      /\ accounts \in [Accounts -> AccountState]
  BY DEF IndInv, TypeOK, EntryTypeOK, AssetTypeOK
<1>3. amount \in Nat
  BY <1>2 DEF PendingDeposit
<1>4. /\ DOMAIN pending' \subseteq DOMAIN pending
      /\ pending' \in [DOMAIN pending' -> PendingDeposit]
  BY <1>1, <1>2, DropType
<1>5. accounts' \in [Accounts -> AccountState]
  BY <1>1, <1>2 DEF Credited, AccountState
<1> HIDE DEF amount
<1>6. pending_total' \in Int
  BY <1>1, <1>2, <1>3
<1>7. QED BY <1>1, <1>3, <1>4, <1>5, <1>6, PendingStep

\* The amounts of a set of deposits are naturals.
LEMMA PendingAmountsType ==
  ASSUME TypeOK, NEW ids
  PROVE  /\ next_deposit_id - 1 \in Nat
         /\ \A i \in 1 .. next_deposit_id - 1 : PendingAmounts(ids)[i] \in Nat
<1>1. next_deposit_id \in Nat \ {0} /\ pending \in [DOMAIN pending -> PendingDeposit]
  BY Zenon DEF TypeOK, EntryTypeOK
<1>2. ASSUME NEW i \in 1 .. next_deposit_id - 1
      PROVE  PendingAmounts(ids)[i] \in Nat
  <2>1. i \in DOMAIN pending => pending[i].amount \in Nat
    BY <1>1 DEF PendingDeposit
  <2>2. QED BY <2>1 DEF PendingAmounts
<1>3. QED BY <1>1, <1>2

\* admit moves deposits from pending to the tree and keeps the TVL.
LEMMA AdmitStep ==
  ASSUME IndInv, NEW ids, admit(ids)
  PROVE  IndInv'
<1> DEFINE admitted == {id \in ids : Eligible(id)}
<1>1. /\ append(OutputValues(admitted))
      /\ pending' = Drop(pending, admitted)
      /\ pending_total' =
           pending_total - SumTo(PendingAmounts(admitted), next_deposit_id - 1)
      /\ UNCHANGED <<now, guardianVars, next_deposit_id, attested_up_to, day_total,
                     exitVars, tvl, nullifiers, assetVars, due, clawed, limits_since>>
  BY DEF admit, ghostVars
<1>2. TypeOK /\ ExitsSound /\ PoolSound /\ GuardianSound /\ AttestedExist
  BY DEF IndInv
<1>3. admitted \subseteq DOMAIN pending
  BY DEF Eligible
<1> HIDE DEF admitted
<1>4. /\ DOMAIN pending' \subseteq DOMAIN pending
      /\ pending' \in [DOMAIN pending' -> PendingDeposit]
  BY <1>1, <1>2, DropType
<1>5. pending_total' \in Int
  <2>1. pending_total \in Int
    BY <1>2, Zenon DEF TypeOK, EntryTypeOK
  <2>2. SumTo(PendingAmounts(admitted), next_deposit_id - 1) \in Int
    <3>1. /\ next_deposit_id - 1 \in Nat
          /\ \A i \in 1 .. next_deposit_id - 1 : PendingAmounts(admitted)[i] \in Int
      BY <1>2, PendingAmountsType
    <3>2. QED BY <3>1, SumType
  <2>3. QED BY <1>1, <2>1, <2>2
<1>6. EntryTypeOK'
  BY <1>1, <1>2, <1>4, <1>5 DEF TypeOK, EntryTypeOK
<1>7. TreeTypeOK'
  <2>1. /\ OutputValues(admitted) \in Seq(Nat)
        /\ Len(OutputValues(admitted)) = 2 * Cardinality(admitted)
        /\ Cardinality(admitted) \in Nat
    BY <1>2, <1>3, OutputValuesType
  <2> DEFINE values == OutputValues(admitted)
  <2> HIDE DEF values
  <2>2. values \in Seq(Nat) /\ Len(values) \in Nat /\ append(values)
    BY <1>1, <2>1 DEF values
  <2>3. /\ leaves' \in Seq(Nat)
        /\ Len(leaves') = Len(leaves) + Len(values)
        /\ newest' \in 0 .. ROOT_HISTORY - 1
        /\ roots' \in [0 .. ROOT_HISTORY - 1 -> Nat \cup {NoRoot}]
    BY <1>2, <2>2, AppendType
  <2>4. leaves \in Seq(Nat) /\ nullifiers \subseteq 1 .. Len(leaves)
    BY <1>2, Zenon DEF TypeOK, TreeTypeOK
  <2>5. nullifiers' \subseteq 1 .. Len(leaves')
    <3>1. Len(leaves) \in Nat /\ Len(leaves) =< Len(leaves')
      BY <2>2, <2>3, <2>4
    <3>2. QED BY <1>1, <2>4, <3>1
  <2>6. QED BY <2>3, <2>5 DEF TreeTypeOK
<1>8. TypeOK'
  BY <1>1, <1>2, <1>6, <1>7, Frames DEF TypeOK
<1>9. UNCHANGED <<limits, balance>>
  BY <1>1 DEF guardianVars, assetVars
<1>10. QED BY <1>1, <1>2, <1>8, <1>9, Frames DEF IndInv

----------------------------------------------------------------------------
\* Each step of the exit queue keeps the invariant.

\* Spending two inputs keeps the tree and the nullifiers well formed.
LEMMA SpendType ==
  ASSUME TypeOK, NEW in \in Spendable, NEW output0 \in Nat, NEW output1 \in Nat,
         Spend(in[1], in[2], output0, output1)
  PROVE  TreeTypeOK'
<1>1. PICK root \in Roots : {in[1], in[2]} \subseteq 0 .. root
  BY DEF Spendable, check_inputs
<1>2. leaves \in Seq(Nat) /\ nullifiers \subseteq 1 .. Len(leaves)
  BY Zenon DEF TypeOK, TreeTypeOK
<1>3. Len(leaves) \in Nat /\ root \in 0 .. Len(leaves)
  BY <1>2 DEF Roots
<1>4. {in[1], in[2]} \ {0} \subseteq 1 .. Len(leaves)
  BY <1>1, <1>3
<1> DEFINE values == <<output0, output1>>
<1>5. values \in Seq(Nat) /\ Len(values) = 2
  OBVIOUS
<1>6. append(values) /\ nullifiers' = nullifiers \cup ({in[1], in[2]} \ {0})
  BY DEF Spend
<1> HIDE DEF values
<1>7. /\ leaves' \in Seq(Nat)
      /\ Len(leaves') = Len(leaves) + Len(values)
      /\ newest' \in 0 .. ROOT_HISTORY - 1
      /\ roots' \in [0 .. ROOT_HISTORY - 1 -> Nat \cup {NoRoot}]
  BY <1>5, <1>6, AppendType
<1>8. 1 .. Len(leaves) \subseteq 1 .. Len(leaves')
  BY <1>3, <1>5, <1>7
<1>9. nullifiers' \subseteq 1 .. Len(leaves')
  BY <1>2, <1>4, <1>6, <1>8, Zenon
<1>10. QED BY <1>7, <1>9 DEF TreeTypeOK

\* A transact that pays at once fits the room that is left today.
LEMMA SettledStep ==
  ASSUME IndInv, NEW in \in Spendable, NEW output0 \in Nat, NEW output1 \in Nat,
         NEW payout \in Nat, NEW fee \in Nat, NEW recipient \in Accounts,
         NEW relayer \in Accounts,
         transact_settled(in[1], in[2], output0, output1, payout, fee, recipient, relayer)
  PROVE  IndInv'
<1>1. TypeOK /\ ExitsSound /\ PoolSound /\ GuardianSound /\ AttestedExist
  BY DEF IndInv
<1>2. /\ check_exit(payout, fee, recipient, relayer)
      /\ Fits(payout + fee)
      /\ Spend(in[1], in[2], output0, output1)
      /\ balance' = balance - (payout + fee)
      /\ accounts' = Credited(Credited(accounts, recipient, payout), relayer, fee)
      /\ tvl' = tvl - (payout + fee)
      /\ outflow_day' = today
      /\ outflow' = outflow_today + payout + fee
      /\ UNCHANGED <<now, guardianVars, entryVars, exit_head, exit_tail, exits,
                     stranded, queued_total, account_min, vault_authorized, due, clawed,
                     limits_since>>
  BY Zenon DEF transact_settled, ghostVars
<1>3. /\ now \in Nat /\ tvl \in Int /\ balance \in Int /\ clawed \in Nat
      /\ accounts \in [Accounts -> AccountState]
  BY <1>1, Zenon DEF TypeOK, AssetTypeOK
<1>4. /\ today \in Nat /\ outflow_today \in Nat
      /\ outflow_today =< limits.max_daily_outflow
      /\ limits.max_daily_outflow \in Nat
  BY <1>1, WindowFacts
<1>5. UNCHANGED <<limits, attested_up_to, next_deposit_id>>
  BY <1>2 DEF guardianVars, entryVars
<1>6. TreeTypeOK'
  BY <1>1, <1>2, SpendType
<1>7. ExitTypeOK'
  BY <1>1, <1>2, <1>4 DEF TypeOK, ExitTypeOK
<1>8. AssetTypeOK' /\ tvl' \in Int
  <2>1. ASSUME NEW acc \in [Accounts -> AccountState], NEW to, NEW amount
        PROVE  Credited(acc, to, amount) \in [Accounts -> AccountState]
    BY DEF Credited, AccountState
  <2>2. accounts' \in [Accounts -> AccountState]
    BY <1>2, <1>3, <2>1
  <2>3. QED BY <1>1, <1>2, <1>3, <2>2 DEF TypeOK, AssetTypeOK
<1>9. TypeOK'
  BY <1>1, <1>2, <1>6, <1>7, <1>8, Frames DEF TypeOK
<1>10. ExitsSound'
  <2>1. outflow' =< limits.max_daily_outflow
    <3>1. payout + fee > 0 => outflow_today + (payout + fee) =< limits.max_daily_outflow
      BY <1>2 DEF Fits
    <3>2. QED BY <1>2, <1>4, <3>1
  <2>2. outflow_today' =< limits'.max_daily_outflow
    BY <1>2, <1>4, <1>5, <2>1 DEF outflow_today, today
  <2>3. QED BY <1>1, <1>2, <1>5, <2>1, <2>2 DEF ExitsSound, QueueInOrder, WindowRespected
<1>11. PoolSound'
  <2>1. balance + clawed = tvl /\ tvl =< ExitDays * limits.max_daily_outflow
    BY <1>1 DEF PoolSound, PoolCanLeave, Solvent
  <2>2. ExitDays * limits.max_daily_outflow \in Nat
    <3>1. ExitDays \in Nat
      BY ConstantAssumptions
    <3>2. QED BY <3>1, <1>4, TimesMonotone
  <2>3. tvl' =< ExitDays * limits.max_daily_outflow /\ balance' + clawed = tvl'
    BY <1>2, <1>3, <2>1, <2>2
  <2>4. QED BY <1>2, <1>5, <2>3 DEF PoolSound, PoolCanLeave, Solvent
<1>12. QED BY <1>1, <1>2, <1>5, <1>9, <1>10, <1>11, Frames DEF IndInv

\* An exit that joins the queue at its tail.
LEMMA EnqueueType ==
  ASSUME TypeOK, QueueInOrder, NEW exit \in Exit, Owing(exit),
         \A i \in DOMAIN exits : Owing(exits[i]),
         exits' = Put(exits, exit_tail, exit), exit_tail' = exit_tail + 1,
         UNCHANGED <<exit_head, limits>>
  PROVE  /\ exit_tail' \in Nat \ {0}
         /\ exit_head' =< exit_tail'
         /\ exits' \in [DOMAIN exits' -> Exit]
         /\ DOMAIN exits' = exit_head' .. exit_tail' - 1
         /\ \A i \in DOMAIN exits' : Owing(exits'[i])
<1>1. /\ exit_head \in Nat \ {0} /\ exit_tail \in Nat \ {0}
      /\ exits \in [DOMAIN exits -> Exit]
      /\ exit_head =< exit_tail
      /\ DOMAIN exits = exit_head .. exit_tail - 1
  BY Zenon DEF TypeOK, ExitTypeOK, QueueInOrder
<1>2. exits' = [i \in DOMAIN exits \cup {exit_tail} |->
                  IF i = exit_tail THEN exit ELSE exits[i]]
  BY DEF Put
<1>3. DOMAIN exits' = DOMAIN exits \cup {exit_tail}
  BY <1>2
<1>4. DOMAIN exits' = exit_head' .. exit_tail' - 1 /\ exit_head' =< exit_tail'
  BY <1>1, <1>3
<1>5. \A i \in DOMAIN exits' : exits'[i] \in Exit /\ Owing(exits'[i])
  BY <1>1, <1>2, <1>3
<1>6. QED BY <1>1, <1>2, <1>3, <1>4, <1>5

\* A transact that queues appends one exit at the tail.
LEMMA QueuedStep ==
  ASSUME IndInv, NEW in \in Spendable, NEW output0 \in Nat, NEW output1 \in Nat,
         NEW payout \in Nat, NEW fee \in Nat, NEW recipient \in Accounts,
         NEW relayer \in Accounts,
         transact_queued(in[1], in[2], output0, output1, payout, fee, recipient, relayer)
  PROVE  IndInv'
<1> DEFINE exit == [recipient |-> recipient, payout |-> payout,
                    relayer |-> relayer, fee |-> fee, queued_at |-> now]
<1>1. TypeOK /\ ExitsSound /\ PoolSound /\ GuardianSound /\ AttestedExist
  BY DEF IndInv
<1>2. /\ check_exit(payout, fee, recipient, relayer)
      /\ ~Fits(payout + fee)
      /\ Spend(in[1], in[2], output0, output1)
      /\ exits' = Put(exits, exit_tail, exit)
      /\ exit_tail' = exit_tail + 1
      /\ queued_total' = queued_total + payout + fee
      /\ due' = Owe(payout, fee, recipient, relayer)
      /\ UNCHANGED <<now, guardianVars, entryVars, exit_head, stranded, outflow_day,
                     outflow, tvl, assetVars, clawed, limits_since>>
  BY Zenon DEF transact_queued
<1>3. now \in Nat /\ queued_total \in Int /\ due \in [Accounts -> Int]
  BY <1>1, Zenon DEF TypeOK, ExitTypeOK
<1>4. UNCHANGED <<limits, attested_up_to, next_deposit_id, balance>>
  BY <1>2 DEF guardianVars, entryVars, assetVars
<1>5. exit \in Exit
  BY <1>3 DEF Exit
<1>6. Owing(exit)
  <2>1. payout + fee =< limits.max_daily_outflow
    BY <1>2 DEF check_exit
  <2>2. payout + fee > 0
    BY <1>2 DEF Fits
  <2>3. QED BY <2>1, <2>2 DEF Owing
<1> HIDE DEF exit
<1>7. \A i \in DOMAIN exits : Owing(exits[i])
  BY <1>1 DEF ExitsSound, QueueInOrder, WindowRespected, Owing
<1>8. /\ exit_tail' \in Nat \ {0}
      /\ exit_head' =< exit_tail'
      /\ exits' \in [DOMAIN exits' -> Exit]
      /\ DOMAIN exits' = exit_head' .. exit_tail' - 1
      /\ \A i \in DOMAIN exits' : Owing(exits'[i])
  BY <1>1, <1>2, <1>4, <1>5, <1>6, <1>7, EnqueueType DEF ExitsSound
<1>9. TreeTypeOK'
  BY <1>1, <1>2, SpendType
<1>10. ExitTypeOK'
  <2>1. queued_total' \in Int
    BY <1>2, <1>3
  <2>2. QED BY <1>1, <1>2, <1>8, <2>1 DEF TypeOK, ExitTypeOK
<1>11. due' \in [Accounts -> Int]
  BY <1>2, <1>3 DEF Owe
<1>12. TypeOK'
  BY <1>1, <1>2, <1>9, <1>10, <1>11, Frames DEF TypeOK
<1>13. ExitsSound'
  <2>1. /\ DOMAIN stranded' \subseteq 1 .. exit_head' - 1
        /\ \A i \in DOMAIN stranded' : stranded'[i].payout + stranded'[i].fee > 0
        /\ \A i \in DOMAIN stranded' :
             stranded'[i].payout + stranded'[i].fee =< limits'.max_daily_outflow
        /\ outflow_today' =< limits'.max_daily_outflow
        /\ outflow' =< limits'.max_daily_outflow
    BY <1>1, <1>2, <1>4 DEF ExitsSound, QueueInOrder, WindowRespected, outflow_today, today
  <2>2. QED BY <1>4, <1>8, <2>1 DEF ExitsSound, QueueInOrder, WindowRespected, Owing
<1>14. QED BY <1>1, <1>2, <1>4, <1>12, <1>13, Frames DEF IndInv

\* release begins in a state that satisfies its loop's invariant.
LEMMA ReleaseStartInv ==
  ASSUME IndInv
  PROVE  LoopInv(ReleaseStart)
<1> DEFINE s == ReleaseStart
<1>1. TypeOK /\ ExitsSound
  BY DEF IndInv
<1>2. /\ exit_head \in Nat \ {0} /\ exit_tail \in Nat \ {0}
      /\ exits \in [DOMAIN exits -> Exit] /\ stranded \in [DOMAIN stranded -> Exit]
      /\ queued_total \in Int /\ tvl \in Int /\ balance \in Int
      /\ accounts \in [Accounts -> AccountState] /\ due \in [Accounts -> Int]
  BY <1>1, Zenon DEF TypeOK, ExitTypeOK, AssetTypeOK
<1>3. /\ outflow_today \in Nat
      /\ outflow_today =< limits.max_daily_outflow
  BY <1>1, WindowFacts
<1>4. /\ s.count = 0 /\ s.head = exit_head /\ s.exits = exits
      /\ s.stranded = stranded /\ s.queued = queued_total /\ s.tvl = tvl
      /\ s.today = outflow_today /\ s.funds = balance /\ s.acc = accounts
      /\ s.due = due
  BY DEF ReleaseStart
<1> HIDE DEF s
<1>5. /\ exit_head =< exit_tail
      /\ DOMAIN exits = exit_head .. exit_tail - 1
      /\ DOMAIN stranded \subseteq 1 .. exit_head - 1
      /\ \A i \in DOMAIN exits : Owing(exits[i])
      /\ \A i \in DOMAIN stranded : Owing(stranded[i])
  BY <1>1 DEF ExitsSound, QueueInOrder, WindowRespected, Owing
<1>6. s.head \in exit_head .. exit_tail /\ s.count \in Nat
  BY <1>2, <1>4, <1>5
<1>7. /\ s.exits \in [s.head .. exit_tail - 1 -> Exit]
      /\ \A i \in s.head .. exit_tail - 1 : Owing(s.exits[i])
  BY <1>2, <1>4, <1>5
<1>8. s.funds - s.tvl = balance - tvl /\ s.tvl =< tvl
  BY <1>2, <1>4
<1>9. LoopInv(s)
  BY <1>2, <1>3, <1>4, <1>5, <1>6, <1>7, <1>8 DEF LoopInv
<1>10. QED BY <1>9 DEF s

\* release takes over what the loop's invariant says of its last state.
LEMMA ReleaseActionStep ==
  ASSUME IndInv, NEW max \in Nat, release(max)
  PROVE  IndInv'
<1> DEFINE end == ReleaseLoop(max)
<1>1. TypeOK /\ ExitsSound /\ PoolSound /\ GuardianSound /\ AttestedExist
  BY DEF IndInv
<1>2. /\ exit_head' = end.head
      /\ exits' = end.exits
      /\ stranded' = end.stranded
      /\ queued_total' = end.queued
      /\ tvl' = end.tvl
      /\ outflow_day' = today
      /\ outflow' = end.today
      /\ balance' = end.funds
      /\ accounts' = end.acc
      /\ due' = end.due
      /\ UNCHANGED <<now, guardianVars, entryVars, exit_tail, treeVars, account_min,
                     vault_authorized, clawed, limits_since>>
  BY Zenon DEF release
<1>3. /\ exit_head \in Nat \ {0} /\ exit_tail \in Nat \ {0}
      /\ exits \in [DOMAIN exits -> Exit] /\ stranded \in [DOMAIN stranded -> Exit]
      /\ queued_total \in Int /\ tvl \in Int /\ balance \in Int /\ clawed \in Nat
      /\ accounts \in [Accounts -> AccountState] /\ due \in [Accounts -> Int]
  BY <1>1, Zenon DEF TypeOK, ExitTypeOK, AssetTypeOK
<1>4. /\ today \in Nat /\ outflow_today \in Nat
      /\ outflow_today =< limits.max_daily_outflow
      /\ limits.max_daily_outflow \in Nat
  BY <1>1, WindowFacts
<1>5. LoopInv(ReleaseStart)
  BY ReleaseStartInv
<1>6. LoopInv(end)
  BY <1>1, <1>5, ReleaseLoopInv
<1> HIDE DEF end
<1>7. /\ end.head \in exit_head .. exit_tail
      /\ end.exits \in [end.head .. exit_tail - 1 -> Exit]
      /\ \A i \in end.head .. exit_tail - 1 : Owing(end.exits[i])
      /\ end.stranded \in [DOMAIN end.stranded -> Exit]
      /\ DOMAIN end.stranded \subseteq 1 .. end.head - 1
      /\ \A i \in DOMAIN end.stranded : Owing(end.stranded[i])
      /\ end.queued \in Int
      /\ end.tvl \in Int
      /\ end.tvl =< tvl
      /\ end.today \in Nat
      /\ end.today =< limits.max_daily_outflow
      /\ end.funds \in Int
      /\ end.funds - end.tvl = balance - tvl
      /\ end.acc \in [Accounts -> AccountState]
      /\ end.due \in [Accounts -> Int]
  BY <1>6, Zenon DEF LoopInv
<1>8. UNCHANGED <<limits, attested_up_to, next_deposit_id>>
  BY <1>2 DEF guardianVars, entryVars
<1>9. DOMAIN exits' = exit_head' .. exit_tail' - 1
  BY <1>2, <1>7
<1>10. ExitTypeOK'
  <2>1. exit_head' \in Nat \ {0}
    BY <1>2, <1>3, <1>7
  <2>2. QED BY <1>2, <1>3, <1>4, <1>7, <1>9, <2>1 DEF ExitTypeOK
<1>11. AssetTypeOK' /\ tvl' \in Int /\ due' \in [Accounts -> Int]
  BY <1>1, <1>2, <1>7 DEF TypeOK, AssetTypeOK
<1>12. TypeOK'
  BY <1>1, <1>2, <1>10, <1>11, Frames DEF TypeOK
<1>13. ExitsSound'
  <2>1. exit_head' =< exit_tail'
    BY <1>2, <1>3, <1>7
  <2>2. \A i \in DOMAIN exits' : Owing(exits'[i])
    BY <1>2, <1>7, <1>9
  <2>3. \A i \in DOMAIN stranded' : Owing(stranded'[i])
    BY <1>2, <1>7
  <2>4. DOMAIN stranded' \subseteq 1 .. exit_head' - 1
    BY <1>2, <1>7
  <2>5. outflow' =< limits'.max_daily_outflow
    BY <1>2, <1>7, <1>8
  <2>6. outflow_today' =< limits'.max_daily_outflow
    BY <1>2, <1>4, <1>8, <2>5 DEF outflow_today, today
  <2>7. QED
    BY <1>8, <1>9, <2>1, <2>2, <2>3, <2>4, <2>5, <2>6
       DEF ExitsSound, QueueInOrder, WindowRespected, Owing
<1>14. PoolSound'
  <2>1. balance + clawed = tvl /\ tvl =< ExitDays * limits.max_daily_outflow
    BY <1>1 DEF PoolSound, PoolCanLeave, Solvent
  <2>2. ExitDays * limits.max_daily_outflow \in Nat
    <3>1. ExitDays \in Nat
      BY ConstantAssumptions
    <3>2. QED BY <3>1, <1>4, TimesMonotone
  <2>3. /\ tvl' \in Int /\ tvl' =< tvl /\ balance' \in Int
        /\ balance' - tvl' = balance - tvl
    BY <1>2, <1>7
  <2>4. tvl' =< ExitDays * limits.max_daily_outflow /\ balance' + clawed = tvl'
    BY <1>3, <2>1, <2>2, <2>3
  <2>5. QED BY <1>2, <1>8, <2>4 DEF PoolSound, PoolCanLeave, Solvent
<1>15. QED BY <1>1, <1>2, <1>8, <1>12, <1>13, <1>14, Frames DEF IndInv

\* claim queues anew the parts of a stranded exit that can be paid now.
LEMMA ClaimStep ==
  ASSUME IndInv, NEW id, claim(id)
  PROVE  IndInv'
<1> DEFINE exit   == stranded[id]
           payout == IF exit.payout > 0 /\ can_receive(exit.recipient, exit.payout)
                     THEN exit.payout ELSE 0
           fee    == IF exit.fee > 0 /\ can_receive(exit.relayer, 0) THEN exit.fee ELSE 0
           rest   == [exit EXCEPT !.payout = @ - payout, !.fee = @ - fee]
           moved  == [exit EXCEPT !.payout = payout, !.fee = fee, !.queued_at = now]
<1>1. TypeOK /\ ExitsSound /\ PoolSound /\ GuardianSound /\ AttestedExist
  BY DEF IndInv
<1>2. /\ id \in DOMAIN stranded
      /\ payout + fee > 0
      /\ stranded' = IF rest.payout = 0 /\ rest.fee = 0 THEN Drop(stranded, {id})
                     ELSE Put(stranded, id, rest)
      /\ exits' = Put(exits, exit_tail, moved)
      /\ exit_tail' = exit_tail + 1
      /\ UNCHANGED <<now, guardianVars, entryVars, exit_head, queued_total,
                     outflow_day, outflow, tvl, treeVars, assetVars, due, clawed,
                     limits_since>>
  BY DEF claim, ghostVars
<1>3. /\ now \in Nat
      /\ stranded \in [DOMAIN stranded -> Exit]
      /\ DOMAIN stranded \subseteq 1 .. exit_head - 1
      /\ \A i \in DOMAIN stranded : Owing(stranded[i])
  BY <1>1 DEF TypeOK, ExitTypeOK, ExitsSound, QueueInOrder, WindowRespected, Owing
<1>4. exit \in Exit /\ exit.payout \in Nat /\ exit.fee \in Nat
  BY <1>2, <1>3 DEF Exit
<1>5. exit.payout + exit.fee =< limits.max_daily_outflow /\ limits.max_daily_outflow \in Nat
  <2>1. Owing(exit)
    BY <1>2, <1>3
  <2>2. QED BY <2>1, <1>1, WindowFacts DEF Owing
<1>6. payout \in {0, exit.payout} /\ fee \in {0, exit.fee}
  BY Zenon
<1> HIDE DEF exit, payout, fee
<1>7. /\ moved \in Exit /\ moved.payout = payout /\ moved.fee = fee
      /\ rest \in Exit /\ rest.payout = exit.payout - payout /\ rest.fee = exit.fee - fee
  <2>1. payout \in Nat /\ fee \in Nat /\ now \in Nat
    BY <1>3, <1>4, <1>6
  <2>2. moved \in Exit /\ moved.payout = payout /\ moved.fee = fee
    BY <1>4, <2>1 DEF Exit
  <2>3. exit.payout - payout \in Nat /\ exit.fee - fee \in Nat
    BY <1>4, <1>6
  <2>4. rest \in Exit /\ rest.payout = exit.payout - payout /\ rest.fee = exit.fee - fee
    BY <1>4, <2>3 DEF Exit
  <2>5. QED BY <2>2, <2>4
<1> HIDE DEF moved, rest
<1>8. Owing(moved)
  BY <1>2, <1>4, <1>5, <1>6, <1>7 DEF Owing
<1>9. ~(rest.payout = 0 /\ rest.fee = 0) => Owing(rest)
  <2>1. rest.payout \in Nat /\ rest.fee \in Nat
    BY <1>7 DEF Exit
  <2>2. rest.payout + rest.fee =< limits.max_daily_outflow
    BY <1>4, <1>5, <1>6, <1>7
  <2>3. QED BY <2>1, <2>2 DEF Owing
<1>10. UNCHANGED <<limits, attested_up_to, next_deposit_id, balance>>
  BY <1>2 DEF guardianVars, entryVars, assetVars
<1>11. \A i \in DOMAIN exits : Owing(exits[i])
  BY <1>1 DEF ExitsSound, QueueInOrder, WindowRespected, Owing
<1>12. /\ exit_tail' \in Nat \ {0}
       /\ exit_head' =< exit_tail'
       /\ exits' \in [DOMAIN exits' -> Exit]
       /\ DOMAIN exits' = exit_head' .. exit_tail' - 1
       /\ \A i \in DOMAIN exits' : Owing(exits'[i])
  BY <1>1, <1>2, <1>7, <1>8, <1>10, <1>11, EnqueueType DEF ExitsSound
<1>13. /\ stranded' \in [DOMAIN stranded' -> Exit]
       /\ DOMAIN stranded' \subseteq DOMAIN stranded
       /\ \A i \in DOMAIN stranded' : Owing(stranded'[i])
  <2>1. CASE rest.payout = 0 /\ rest.fee = 0
    <3>1. stranded' = [i \in DOMAIN stranded \ {id} |-> stranded[i]]
      BY <1>2, <2>1 DEF Drop
    <3>2. DOMAIN stranded' = DOMAIN stranded \ {id}
      BY <3>1
    <3>3. \A i \in DOMAIN stranded' : stranded'[i] \in Exit /\ Owing(stranded'[i])
      BY <1>3, <3>1, <3>2
    <3>4. QED BY <3>1, <3>2, <3>3
  <2>2. CASE ~(rest.payout = 0 /\ rest.fee = 0)
    <3>1. stranded' = [i \in DOMAIN stranded \cup {id} |->
                         IF i = id THEN rest ELSE stranded[i]]
      BY <1>2, <2>2 DEF Put
    <3>2. DOMAIN stranded' = DOMAIN stranded
      BY <1>2, <3>1
    <3>3. \A i \in DOMAIN stranded' : stranded'[i] \in Exit /\ Owing(stranded'[i])
      BY <1>3, <1>7, <1>9, <2>2, <3>1, <3>2
    <3>4. QED BY <1>2, <3>1, <3>2, <3>3
  <2>3. QED BY <2>1, <2>2
<1>14. ExitTypeOK'
  BY <1>1, <1>2, <1>12, <1>13 DEF TypeOK, ExitTypeOK
<1>15. TypeOK'
  BY <1>1, <1>2, <1>14, Frames DEF TypeOK
<1>16. ExitsSound'
  <2>1. /\ DOMAIN stranded' \subseteq 1 .. exit_head' - 1
        /\ outflow_today' =< limits'.max_daily_outflow
        /\ outflow' =< limits'.max_daily_outflow
    BY <1>1, <1>2, <1>3, <1>10, <1>13 DEF ExitsSound, WindowRespected, outflow_today, today
  <2>2. \A i \in DOMAIN exits' : Owing(exits'[i])
    BY <1>12
  <2>3. QED BY <1>10, <1>12, <1>13, <2>1 DEF ExitsSound, QueueInOrder, WindowRespected, Owing
<1>17. QED BY <1>1, <1>2, <1>10, <1>15, <1>16, Frames DEF IndInv

----------------------------------------------------------------------------
\* The constructor establishes the invariant.
LEMMA InitInv == Init => IndInv
<1> SUFFICES ASSUME Init PROVE IndInv
  OBVIOUS
<1>1. InitialLimits \in Limits
      /\ InitialLimits.tvl_cap =< ExitDays * InitialLimits.max_daily_outflow
  BY ConstructorChecks DEF check_limits
<1>2. InitialLimits.max_daily_outflow \in Nat
  BY <1>1 DEF Limits
<1>3. ROOT_HISTORY \in Nat \ {0} /\ ExitDays \in Nat /\ Day \in Nat \ {0}
  BY ConstantAssumptions
<1>4. TypeOK
  <2>1. GuardianTypeOK
    BY <1>1 DEF Init, GuardianTypeOK
  <2>2. EntryTypeOK
    BY DEF Init, EntryTypeOK
  <2>3. ExitTypeOK
    BY DEF Init, ExitTypeOK
  <2>4. TreeTypeOK
    BY <1>3 DEF Init, TreeTypeOK, NoRoot
  <2>5. AssetTypeOK
    <3>1. AccountStates \subseteq AccountState /\ AccountMins \subseteq Nat
      BY ConstantAssumptions
    <3>2. accounts \in [Accounts -> AccountStates] /\ account_min \in AccountMins
          /\ vault_authorized = TRUE /\ balance = 0
      BY DEF Init
    <3>3. QED BY <3>1, <3>2 DEF AssetTypeOK
  <2>6. now \in Nat /\ tvl \in Int /\ due \in [Accounts -> Int] /\ clawed \in Nat
        /\ limits_since \in Nat
    BY DEF Init
  <2>7. QED BY <2>1, <2>2, <2>3, <2>4, <2>5, <2>6 DEF TypeOK
<1>5. ExitsSound
  <2>1. outflow_today =< limits.max_daily_outflow /\ outflow =< limits.max_daily_outflow
    BY <1>2 DEF Init, outflow_today
  <2>2. DOMAIN exits = {} /\ DOMAIN stranded = {} /\ exit_head = 1 /\ exit_tail = 1
    BY DEF Init
  <2>3. QED BY <2>1, <2>2 DEF ExitsSound, QueueInOrder, WindowRespected
<1>6. PoolSound
  <2>1. ExitDays * InitialLimits.max_daily_outflow \in Nat
    BY <1>2, <1>3, TimesMonotone
  <2>2. tvl = 0 /\ balance = 0 /\ clawed = 0 /\ limits = InitialLimits
    BY DEF Init
  <2>3. QED BY <2>1, <2>2 DEF PoolSound, PoolCanLeave, Solvent
<1>7. GuardianSound
  BY <1>1 DEF Init, GuardianSound, LimitsSound, check_limits, NoticeGiven, CooldownKept
<1>8. AttestedExist
  BY DEF Init, AttestedExist
<1>9. QED BY <1>4, <1>5, <1>6, <1>7, <1>8 DEF IndInv

\* Every step of the vault and of what surrounds it keeps the invariant.
LEMMA NextInv == IndInv /\ [Next]_vars => IndInv'
<1> SUFFICES ASSUME IndInv, [Next]_vars PROVE IndInv'
  OBVIOUS
<1>1. CASE Entry
  <2>1. ASSUME NEW d \in Depositors, NEW amount \in Amounts, NEW output0 \in Outputs,
               NEW deadline \in Deadlines, output0 =< amount,
               shield(d, amount, output0, amount - output0, deadline)
        PROVE  IndInv'
    <3>1. amount \in Nat \ {0} /\ output0 \in Nat
      BY ConstantAssumptions
    <3>2. amount - output0 \in Nat
      BY <2>1, <3>1
    <3>3. QED BY <2>1, <3>1, <3>2, ShieldStep
  <2>2. ASSUME NEW id \in DepositIds, attest(id) PROVE IndInv'
    BY <2>2, AttestStep
  <2>3. ASSUME NEW id \in DepositIds, NEW reason \in Reasons, flag(id, reason)
        PROVE  IndInv'
    <3>1. reason \in Nat
      BY ConstantAssumptions
    <3>2. QED BY <2>3, <3>1, FlagStep
  <2>4. ASSUME NEW id \in DepositIds, unflag(id) PROVE IndInv'
    BY <2>4, UnflagStep
  <2>5. ASSUME NEW ids \in SUBSET DepositIds, admit(ids) PROVE IndInv'
    BY <2>5, AdmitStep
  <2>6. ASSUME NEW id \in DepositIds, cancel(id) PROVE IndInv'
    BY <2>6, ReturnStep DEF cancel
  <2>7. ASSUME NEW id \in DepositIds, refund(id) PROVE IndInv'
    BY <2>7, ReturnStep DEF refund
  <2>8. QED BY <1>1, <2>1, <2>2, <2>3, <2>4, <2>5, <2>6, <2>7 DEF Entry
<1>2. CASE Exits
  <2>1. ASSUME Transactions PROVE IndInv'
    <3>1. PICK in \in Spendable, payout \in Payouts, fee \in Fees, output0 \in Outputs,
               recipient \in Accounts, relayer \in Relayers :
            LET output1 == InputValue(in[1]) + InputValue(in[2]) - payout - fee - output0
            IN /\ output1 >= 0
               /\ \/ transact_settled(in[1], in[2], output0, output1, payout, fee,
                                      recipient, relayer)
                  \/ transact_queued(in[1], in[2], output0, output1, payout, fee,
                                     recipient, relayer)
      BY <2>1 DEF Transactions
    <3> DEFINE output1 == InputValue(in[1]) + InputValue(in[2]) - payout - fee - output0
    <3>2. /\ output1 >= 0
          /\ \/ transact_settled(in[1], in[2], output0, output1, payout, fee,
                                 recipient, relayer)
             \/ transact_queued(in[1], in[2], output0, output1, payout, fee,
                                recipient, relayer)
      BY <3>1
    <3>3. payout \in Nat /\ fee \in Nat /\ output0 \in Nat /\ relayer \in Accounts
      BY ConstantAssumptions
    <3>4. ASSUME NEW i \in Inputs PROVE InputValue(i) \in Nat
      <4>1. leaves \in Seq(Nat)
        BY Zenon DEF IndInv, TypeOK, TreeTypeOK
      <4>2. QED BY <4>1 DEF Inputs, InputValue
    <3>5. in[1] \in Inputs /\ in[2] \in Inputs
      BY DEF Spendable
    <3>6. InputValue(in[1]) \in Nat /\ InputValue(in[2]) \in Nat
      BY <3>4, <3>5
    <3>7. output1 \in Nat
      BY <3>2, <3>3, <3>6
    <3> HIDE DEF output1
    <3>8. QED BY <3>2, <3>3, <3>7, SettledStep, QueuedStep
  <2>2. ASSUME NEW max \in ReleaseMax, release(max) PROVE IndInv'
    <3>1. max \in Nat
      BY ConstantAssumptions
    <3>2. QED BY <2>2, <3>1, ReleaseActionStep
  <2>3. ASSUME NEW id \in DOMAIN stranded, claim(id) PROVE IndInv'
    BY <2>3, ClaimStep
  <2>4. QED BY <1>2, <2>1, <2>2, <2>3 DEF Exits
<1>3. CASE Guardian
  <2>1. ASSUME NEW p \in Pauses, set_pause(p[1], p[2]) PROVE IndInv'
    <3>1. p \in BOOLEAN \X BOOLEAN
      BY ConstantAssumptions, Zenon
    <3>2. p[1] \in BOOLEAN /\ p[2] \in BOOLEAN
      BY <3>1
    <3>3. QED BY <2>1, <3>2, PauseStep
  <2>2. ASSUME NEW l \in LimitChoices, set_limits(l) PROVE IndInv'
    BY <2>2, SetLimitsStep
  <2>3. QED
    BY <1>3, <2>1, <2>2, HaltStep, ResumeStep, ApplyLimitsStep, CancelLimitsStep DEF Guardian
<1>4. CASE Environment
  <2>1. ASSUME NEW a \in Accounts, NEW state \in AccountStates, set_account(a, state)
        PROVE  IndInv'
    BY <2>1, SetAccountStep
  <2>2. ASSUME NEW min \in AccountMins, set_reserve(min) PROVE IndInv'
    BY <2>2, SetReserveStep
  <2>3. ASSUME NEW allowed \in VaultAuthorizations, authorize_vault(allowed)
        PROVE  IndInv'
    BY <2>3, AuthorizeVaultStep
  <2>4. QED BY <1>4, <2>1, <2>2, <2>3, TickStep, ClawBackStep DEF Environment
<1>5. CASE UNCHANGED vars
  <2>1. /\ TypeOK /\ ExitsSound /\ PoolSound /\ GuardianSound /\ AttestedExist
        /\ UNCHANGED <<now, guardianVars, entryVars, exitVars, tvl, treeVars, assetVars,
                       due, clawed, limits_since>>
    BY <1>5 DEF IndInv, vars, ghostVars
  <2>2. UNCHANGED <<limits, balance, attested_up_to, next_deposit_id>>
    BY <2>1 DEF guardianVars, assetVars, entryVars
  <2>3. TypeOK'
    BY <2>1, Frames DEF TypeOK
  <2>4. QED BY <2>1, <2>2, <2>3, Frames DEF IndInv
<1>6. QED BY <1>1, <1>2, <1>3, <1>4, <1>5 DEF Next

----------------------------------------------------------------------------

\* The inductive invariant holds in every state the vault can reach.
THEOREM Invariance == Spec => []IndInv
  BY InitInv, NextInv, PTL DEF Spec

\* Every variable of the vault keeps its type, under every call of every entry
\* point, the part payments of release included.
THEOREM TypeCorrect == Spec => []TypeOK
<1>1. IndInv => TypeOK
  BY DEF IndInv
<1>2. QED BY <1>1, Invariance, PTL

\* The exit queue is paid in ID order and holds only exits that are owed
\* something, whatever release pays in part, sets aside or claim returns to it.
THEOREM QueueOrdered == Spec => []QueueInOrder
<1>1. IndInv => QueueInOrder
  BY DEF IndInv, ExitsSound
<1>2. QED BY <1>1, Invariance, PTL

\* No day pays out more than its window and every exit owed fits into one, for
\* any limits the guardian sets.
THEOREM WindowKept == Spec => []WindowRespected
<1>1. IndInv => WindowRespected
  BY DEF IndInv, ExitsSound
<1>2. QED BY <1>1, Invariance, PTL

\* A full pool can leave within ExitDays windows, for any limits the guardian sets.
THEOREM PoolLeaves == Spec => []PoolCanLeave
<1>1. IndInv => PoolCanLeave
  BY DEF IndInv, PoolSound
<1>2. QED BY <1>1, Invariance, PTL

\* The vault holds what it owes, less only what the issuer took: no entry point
\* pays what it does not take from the TVL, or takes from the TVL what it did not pay.
THEOREM VaultSolvent == Spec => []Solvent
<1>1. IndInv => Solvent
  BY DEF IndInv, PoolSound
<1>2. QED BY <1>1, Invariance, PTL

\* No deposit is attested before it exists.
THEOREM NoAttestationAhead == Spec => []AttestedExist
<1>1. IndInv => AttestedExist
  BY DEF IndInv
<1>2. QED BY <1>1, Invariance, PTL

\* Only halt and resume set halted_until, and only set_limits and apply_limits
\* the limits.
LEMMA GuardianOnly ==
  ASSUME Next
  PROVE  /\ halted_until' # halted_until => halt \/ resume
         /\ limits' # limits => apply_limits \/ \E l \in LimitChoices : set_limits(l)
<1>1. CASE Entry
  <2>1. UNCHANGED guardianVars
    <3>1. ASSUME NEW id, return_deposit(id) PROVE UNCHANGED guardianVars
      BY <3>1 DEF return_deposit
    <3>2. ASSUME NEW d, NEW amount, NEW output0, NEW output1, NEW deadline,
                 shield(d, amount, output0, output1, deadline)
          PROVE  UNCHANGED guardianVars
      BY <3>2 DEF shield
    <3>3. ASSUME NEW id, \/ attest(id) \/ unflag(id)
                         \/ \E reason \in Reasons : flag(id, reason)
          PROVE  UNCHANGED guardianVars
      BY <3>3 DEF attest, flag, unflag
    <3>4. ASSUME NEW ids, admit(ids) PROVE UNCHANGED guardianVars
      BY <3>4 DEF admit
    <3>5. QED BY <1>1, <3>1, <3>2, <3>3, <3>4, Zenon DEF Entry, cancel, refund
  <2>2. QED BY <2>1 DEF guardianVars
<1>2. CASE Exits
  <2>1. UNCHANGED guardianVars
    <3>1. Transactions => UNCHANGED guardianVars
      <4>1. ASSUME NEW in0, NEW in1, NEW output0, NEW output1, NEW payout, NEW fee,
                   NEW recipient, NEW relayer,
                   \/ transact_settled(in0, in1, output0, output1, payout, fee,
                                       recipient, relayer)
                   \/ transact_queued(in0, in1, output0, output1, payout, fee,
                                      recipient, relayer)
            PROVE  UNCHANGED guardianVars
        BY <4>1, Zenon DEF transact_settled, transact_queued
      <4>2. QED BY <4>1 DEF Transactions
    <3>2. QED BY <1>2, <3>1, Zenon DEF Exits, release, claim
  <2>2. QED BY <2>1 DEF guardianVars
<1>3. CASE Guardian
  BY <1>3 DEF Guardian, set_pause, halt, resume, set_limits, apply_limits, cancel_limits,
              limitsUnchanged
<1>4. CASE Environment
  <2>1. UNCHANGED guardianVars
    BY <1>4 DEF Environment, tick, set_account, set_reserve, authorize_vault, claw_back
  <2>2. QED BY <2>1 DEF guardianVars
<1>5. QED BY <1>1, <1>2, <1>3, <1>4 DEF Next

\* Two halts are HALT_COOLDOWN apart, also when the guardian ends one early.
THEOREM HaltCooldown == Spec => HaltsApart
<1> DEFINE A == halted_until' > halted_until /\ halted_until > 0
                  => now >= halted_until + HALT_COOLDOWN
<1>1. IndInv /\ [Next]_vars => [A]_vars
  <2> SUFFICES ASSUME IndInv, Next, halted_until' > halted_until, halted_until > 0
               PROVE  now >= halted_until + HALT_COOLDOWN
    OBVIOUS
  <2>1. /\ halted_until \in Nat /\ next_halt_at \in Nat /\ now \in Nat
        /\ next_halt_at >= halted_until + HALT_COOLDOWN
    BY DEF IndInv, TypeOK, GuardianTypeOK, GuardianSound, CooldownKept
  <2>2. HALT_COOLDOWN \in Nat
    BY ConstantAssumptions
  <2>3. halt \/ resume
    BY <2>1, GuardianOnly
  <2>4. CASE halt
    BY <2>1, <2>2, <2>4 DEF halt
  <2>5. CASE resume
    BY <2>1, <2>5 DEF resume, halted
  <2>6. QED BY <2>3, <2>4, <2>5
<1>2. QED BY <1>1, Invariance, PTL DEF Spec, HaltsApart

\* Limits are loosened only LOOSENING_DELAY after their last change: a loosening
\* that was queued before a tightening is never applied after it.
THEOREM LooseningNotice == Spec => LooseningGivesNotice
<1> DEFINE A == limits' # limits /\ ~tightening(limits, limits')
                  => now >= limits_since + LOOSENING_DELAY
<1>1. IndInv /\ [Next]_vars => [A]_vars
  <2> SUFFICES ASSUME IndInv, Next, limits' # limits, ~tightening(limits, limits')
               PROVE  now >= limits_since + LOOSENING_DELAY
    OBVIOUS
  <2>1. CASE apply_limits
    <3>1. PICK queued \in queued_limits : now >= queued.ready_at
      BY <2>1 DEF apply_limits
    <3>2. queued \in QueuedLimits /\ now \in Nat /\ limits_since \in Nat
      BY DEF IndInv, TypeOK, GuardianTypeOK
    <3>3. queued.ready_at \in Nat /\ LOOSENING_DELAY \in Nat
      BY <3>2, ConstantAssumptions DEF QueuedLimits
    <3>4. queued.ready_at >= limits_since + LOOSENING_DELAY
      BY DEF IndInv, GuardianSound, NoticeGiven
    <3>5. QED BY <3>1, <3>2, <3>3, <3>4
  <2>2. ASSUME NEW l \in LimitChoices, set_limits(l) PROVE FALSE
    BY <2>2 DEF set_limits
  <2>3. QED BY <2>1, <2>2, GuardianOnly
<1>2. QED BY <1>1, Invariance, PTL DEF Spec, LooseningGivesNotice

----------------------------------------------------------------------------
\* What release's loop knows of the accounts at each iteration: paying opens
\* accounts and closes none, and whatever it set aside names a party that could
\* not receive when release was called.
CauseInv(s) ==
  /\ \A a \in Accounts : accounts[a] = "open" => s.acc[a] = "open"
  /\ \A id \in DOMAIN s.stranded \ DOMAIN stranded :
       \E party \in {s.stranded[id].recipient, s.stranded[id].relayer} :
         accounts[party] # "open"

\* An open account accepts any payment; a payment closes no account.
LEMMA OpenAccepts ==
  ASSUME NEW acc, acc \in [Accounts -> AccountState], NEW to \in Accounts, NEW amount
  PROVE  /\ acc[to] = "open" => Accepts(acc, to, amount)
         /\ Credited(acc, to, amount) \in [Accounts -> AccountState]
         /\ \A a \in Accounts : acc[a] = "open" => Credited(acc, to, amount)[a] = "open"
<1>1. acc[to] = "open" => Accepts(acc, to, amount)
  BY DEF Accepts
<1>2. "open" \in AccountState
  BY DEF AccountState
<1>3. QED BY <1>1, <1>2 DEF Credited

\* A payment is refused only by a party whose account is not open: the vault is
\* authorized and holds what the loop tries to pay.
LEMMA RefusedForCause ==
  ASSUME NEW s, LoopInv(s), ~Stops(s), TypeOK, vault_authorized, CauseInv(s), refused(s)
  PROVE  \E party \in {HeadExit(s).recipient, HeadExit(s).relayer} : accounts[party] # "open"
<1> DEFINE e == HeadExit(s)
           acc1 == Credited(s.acc, e.recipient, payout_paid(s))
           pp == PayoutPart(s)
           fp == FeePart(s)
           paid == payout_paid(s)
<1> SUFFICES ASSUME accounts[e.recipient] = "open", accounts[e.relayer] = "open" PROVE FALSE
  OBVIOUS
<1>1. /\ e \in Exit
      /\ pp \in 0 .. e.payout /\ fp \in 0 .. e.fee
      /\ paid \in {0, pp}
  BY HeadParts
<1>2. e.recipient \in Accounts /\ e.relayer \in Accounts /\ e.payout \in Nat /\ e.fee \in Nat
  BY <1>1 DEF Exit
<1>3. pp \in Nat /\ fp \in Nat
  BY <1>1, <1>2
<1>4. s.funds \in Int /\ s.acc \in [Accounts -> AccountState]
  BY Zenon DEF LoopInv
<1>5. pp + fp =< s.funds
  BY <1>3, <1>4 DEF Stops
<1>6. pp =< s.funds /\ (paid = pp => fp =< s.funds - paid)
  BY <1>3, <1>4, <1>5
<1>7. s.acc[e.recipient] = "open" /\ s.acc[e.relayer] = "open"
  BY <1>2 DEF CauseInv
<1>8. Accepts(s.acc, e.recipient, pp)
  BY <1>2, <1>4, <1>7, OpenAccepts
<1>9. paid = IF pp > 0 /\ vault_authorized /\ pp =< s.funds /\ Accepts(s.acc, e.recipient, pp)
             THEN pp ELSE 0
  BY DEF payout_paid, try_pay
<1> HIDE DEF e, pp, fp, paid
<1>10. paid = pp
  BY <1>3, <1>6, <1>8, <1>9
<1>11. acc1 \in [Accounts -> AccountState] /\ acc1[e.relayer] = "open"
  BY <1>2, <1>4, <1>7, OpenAccepts
<1>12. fee_paid(s) = IF fp > 0 /\ vault_authorized /\ fp =< s.funds - paid
                        /\ Accepts(acc1, e.relayer, fp)
                     THEN fp ELSE 0
  BY DEF fee_paid, try_pay, e, fp, paid
<1> HIDE DEF acc1
<1>13. Accepts(acc1, e.relayer, fp)
  BY <1>2, <1>11, OpenAccepts
<1>14. fee_paid(s) = fp
  BY <1>3, <1>6, <1>10, <1>12, <1>13
<1>15. paid < pp \/ fee_paid(s) < fp
  BY DEF refused, paid, pp, fp
<1>16. QED BY <1>3, <1>10, <1>14, <1>15

LEMMA PayHeadCause ==
  ASSUME NEW s, LoopInv(s), ~Stops(s), TypeOK, vault_authorized, CauseInv(s)
  PROVE  CauseInv(PayHead(s))
<1> DEFINE e == HeadExit(s)
           t == PayHead(s)
           acc1 == Credited(s.acc, e.recipient, payout_paid(s))
<1>1. e \in Exit
  BY HeadParts
<1>2. e.recipient \in Accounts /\ e.relayer \in Accounts
  BY <1>1 DEF Exit
<1>3. /\ t.acc = Credited(acc1, e.relayer, fee_paid(s))
      /\ t.stranded = IF refused(s) THEN Put(s.stranded, s.head, left(s)) ELSE s.stranded
  BY PayHeadFields
<1>4. s.acc \in [Accounts -> AccountState]
  BY Zenon DEF LoopInv
<1>5. left(s).recipient = e.recipient /\ left(s).relayer = e.relayer
  BY <1>1 DEF left, Exit
<1> HIDE DEF e, t
<1>6. /\ acc1 \in [Accounts -> AccountState]
      /\ \A a \in Accounts : s.acc[a] = "open" => acc1[a] = "open"
  BY <1>2, <1>4, OpenAccepts
<1> HIDE DEF acc1
<1>7. \A a \in Accounts : acc1[a] = "open" => t.acc[a] = "open"
  BY <1>2, <1>3, <1>6, OpenAccepts
<1>8. \A a \in Accounts : accounts[a] = "open" => t.acc[a] = "open"
  BY <1>6, <1>7 DEF CauseInv
<1>9. ASSUME NEW id \in DOMAIN t.stranded \ DOMAIN stranded
      PROVE  \E party \in {t.stranded[id].recipient, t.stranded[id].relayer} :
               accounts[party] # "open"
  <2>1. CASE refused(s) /\ id = s.head
    <3>1. t.stranded[id] = left(s)
      BY <1>3, <2>1 DEF Put
    <3>2. \E party \in {e.recipient, e.relayer} : accounts[party] # "open"
      BY <2>1, RefusedForCause DEF e
    <3>3. QED BY <1>5, <3>1, <3>2
  <2>2. CASE ~(refused(s) /\ id = s.head)
    <3>1. id \in DOMAIN s.stranded /\ t.stranded[id] = s.stranded[id]
      BY <1>3, <2>2 DEF Put
    <3>2. QED BY <3>1 DEF CauseInv
  <2>3. QED BY <2>1, <2>2
<1>10. QED BY <1>8, <1>9 DEF CauseInv, t

LEMMA ReleaseLoopCause ==
  ASSUME TypeOK, LoopInv(ReleaseStart), vault_authorized, NEW m \in Nat
  PROVE  CauseInv(ReleaseLoop(m))
<1> DEFINE S == {k \in Nat : CauseInv(ReleaseLoop(k))}
<1>1. 0 \in S
  BY ReleaseLoopDef DEF ReleaseStart, CauseInv
<1>2. ASSUME NEW k \in Nat, k \in S PROVE k + 1 \in S
  <2>1. CauseInv(ReleaseLoop(k)) /\ ReleaseLoop(k + 1) = ReleaseStep(ReleaseLoop(k))
    BY <1>2, ReleaseLoopDef
  <2>2. LoopInv(ReleaseLoop(k))
    BY ReleaseLoopInv
  <2>3. CauseInv(ReleaseStep(ReleaseLoop(k)))
    <3>1. CASE Stops(ReleaseLoop(k))
      BY <2>1, <3>1 DEF ReleaseStep
    <3>2. CASE ~Stops(ReleaseLoop(k))
      BY <2>1, <2>2, <3>2, PayHeadCause DEF ReleaseStep
    <3>3. QED BY <3>1, <3>2
  <2>4. QED BY <2>1, <2>3
<1>3. m \in S
  <2> HIDE DEF S
  <2> QED BY <1>1, <1>2, SetInduction
<1>4. QED BY <1>3

\* Only release sets an exit aside.
LEMMA ReleaseOnly ==
  ASSUME Next, ~(\E max \in ReleaseMax : release(max))
  PROVE  DOMAIN stranded' \subseteq DOMAIN stranded
<1>1. CASE Entry
  <2>1. stranded' = stranded
    <3>1. ASSUME NEW id, return_deposit(id) PROVE stranded' = stranded
      BY <3>1 DEF return_deposit, exitVars
    <3>2. ASSUME NEW d, NEW amount, NEW output0, NEW output1, NEW deadline,
                 shield(d, amount, output0, output1, deadline)
          PROVE  stranded' = stranded
      BY <3>2 DEF shield, exitVars
    <3>3. ASSUME NEW id, \/ attest(id) \/ unflag(id)
                         \/ \E reason \in Reasons : flag(id, reason)
          PROVE  stranded' = stranded
      BY <3>3 DEF attest, flag, unflag, exitVars
    <3>4. ASSUME NEW ids, admit(ids) PROVE stranded' = stranded
      BY <3>4 DEF admit, exitVars
    <3>5. QED BY <1>1, <3>1, <3>2, <3>3, <3>4, Zenon DEF Entry, cancel, refund
  <2>2. QED BY <2>1
<1>2. CASE Exits
  <2>1. ASSUME Transactions PROVE stranded' = stranded
    <3>1. ASSUME NEW in0, NEW in1, NEW output0, NEW output1, NEW payout, NEW fee,
                 NEW recipient, NEW relayer,
                 \/ transact_settled(in0, in1, output0, output1, payout, fee,
                                     recipient, relayer)
                 \/ transact_queued(in0, in1, output0, output1, payout, fee,
                                    recipient, relayer)
          PROVE  stranded' = stranded
      BY <3>1 DEF transact_settled, transact_queued
    <3>2. QED BY <2>1, <3>1 DEF Transactions
  <2>2. ASSUME NEW id \in DOMAIN stranded, claim(id)
        PROVE  DOMAIN stranded' \subseteq DOMAIN stranded
    <3>1. \/ stranded' = Drop(stranded, {id})
          \/ \E rest : stranded' = Put(stranded, id, rest)
      BY <2>2 DEF claim
    <3>2. QED BY <3>1 DEF Drop, Put
  <2>3. QED BY <1>2, <2>1, <2>2 DEF Exits
<1>3. CASE Guardian
  BY <1>3 DEF Guardian, set_pause, halt, resume, set_limits, apply_limits, cancel_limits,
              limitsUnchanged, exitVars
<1>4. CASE Environment
  BY <1>4 DEF Environment, tick, set_account, set_reserve, authorize_vault, claw_back, exitVars
<1>5. QED BY <1>1, <1>2, <1>3, <1>4 DEF Next

\* Whatever release has paid before in the same call, it sets an exit aside only
\* when a party of that exit could not receive.
THEOREM StrandedCause == Spec => StrandedForCause
<1> DEFINE A == \A id \in DOMAIN stranded' \ DOMAIN stranded :
                  \E party \in {stranded'[id].recipient, stranded'[id].relayer} :
                    accounts[party] # "open"
<1>1. IndInv /\ [Next]_vars => [A]_vars
  <2> SUFFICES ASSUME IndInv, Next PROVE A
    OBVIOUS
  <2>1. ASSUME NEW max \in ReleaseMax, release(max) PROVE A
    <3>1. /\ vault_authorized /\ stranded' = ReleaseLoop(max).stranded
      BY <2>1, Zenon DEF release
    <3>2. max \in Nat /\ TypeOK /\ LoopInv(ReleaseStart)
      BY ConstantAssumptions, ReleaseStartInv DEF IndInv
    <3>3. CauseInv(ReleaseLoop(max))
      BY <3>1, <3>2, ReleaseLoopCause
    <3>4. QED BY <3>1, <3>3, Zenon DEF CauseInv
  <2>2. QED BY <2>1, ReleaseOnly
<1>2. QED BY <1>1, Invariance, PTL DEF Spec, StrandedForCause

----------------------------------------------------------------------------
(* The vault's books for every value of its constants: pending_total is    *)
(* the sum of the pending deposits, queued_total and each party's due the  *)
(* sum of the exits still owed, and the TVL is those two and the unspent   *)
(* notes.  Each is an invariant only together with the others: an exit is  *)
(* bought with notes, and a note with a pending deposit.                   *)

\* The two notes of a pending deposit hold its amount.
PendingSplit ==
  \A id \in DOMAIN pending : pending[id].output0 + pending[id].output1 = pending[id].amount

\* The value of the unspent notes is what transact reckons it to be.
NotesAccounted == UnspentValue = Notes

\* What the entry queue, the exit queue and the pool satisfy together.
Books == /\ PendingSplit /\ PendingAccounted
         /\ ExitsAccounted /\ PartiesOwed
         /\ NotesAccounted

----------------------------------------------------------------------------
\* The entry queue: the amounts of the deposits p, by ID up to n.
AmountsOf(p, n) == [i \in 1 .. n |-> IF i \in DOMAIN p THEN p[i].amount ELSE 0]

LEMMA PendingValueIs ==
  /\ PendingValue = SumTo(AmountsOf(pending, next_deposit_id - 1), next_deposit_id - 1)
  /\ PendingValue' = SumTo(AmountsOf(pending', next_deposit_id' - 1), next_deposit_id' - 1)
<1>1. PendingAmounts(DepositIds) = AmountsOf(pending, next_deposit_id - 1)
  BY DEF PendingAmounts, DepositIds, AmountsOf
<1>2. PendingAmounts(DepositIds)' = AmountsOf(pending', next_deposit_id' - 1)
  BY DEF PendingAmounts, DepositIds, AmountsOf
<1>3. QED BY <1>1, <1>2 DEF PendingValue

\* The amounts of well-typed deposits are naturals.
LEMMA AmountsType ==
  ASSUME NEW n \in Nat, NEW p, p \in [DOMAIN p -> PendingDeposit]
  PROVE  /\ \A i \in 1 .. n : AmountsOf(p, n)[i] \in Int
         /\ SumTo(AmountsOf(p, n), n) \in Int
<1>1. ASSUME NEW i \in 1 .. n PROVE AmountsOf(p, n)[i] \in Int
  <2>1. i \in DOMAIN p => p[i].amount \in Nat
    BY DEF PendingDeposit
  <2>2. QED BY <2>1 DEF AmountsOf
<1>2. QED BY <1>1, SumType

\* A new deposit adds its amount.
LEMMA PutAmount ==
  ASSUME NEW n \in Nat, NEW p, DOMAIN p \subseteq 1 .. n, NEW d
  PROVE  SumTo(AmountsOf(Put(p, n + 1, d), n + 1), n + 1)
           = SumTo(AmountsOf(p, n), n) + d.amount
<1> DEFINE q == Put(p, n + 1, d)
           g == AmountsOf(q, n + 1)
<1>1. q = [i \in DOMAIN p \cup {n + 1} |-> IF i = n + 1 THEN d ELSE p[i]]
  BY DEF Put
<1>2. DOMAIN q = DOMAIN p \cup {n + 1} /\ q[n + 1] = d
      /\ \A i \in DOMAIN p : i # n + 1 => q[i] = p[i]
  BY <1>1
<1>3. \A i \in 1 .. n + 1 : g[i] = IF i \in DOMAIN q THEN q[i].amount ELSE 0
  BY DEF AmountsOf
<1> HIDE DEF q, g
<1>4. ASSUME NEW i \in 1 .. n PROVE g[i] = AmountsOf(p, n)[i]
  <2>1. i # n + 1 /\ i \in 1 .. n + 1
    OBVIOUS
  <2>2. QED BY <1>2, <1>3, <2>1 DEF AmountsOf
<1>5. g[n + 1] = d.amount
  <2>1. n + 1 \in 1 .. n + 1
    OBVIOUS
  <2>2. QED BY <1>2, <1>3, <2>1
<1>6. SumTo(g, n + 1) = SumTo(AmountsOf(p, n), n) + g[n + 1]
  BY <1>4, SumExtend
<1>7. QED BY <1>5, <1>6 DEF g, q

\* A deposit that leaves takes its amount along.
LEMMA DropAmount ==
  ASSUME NEW n \in Nat, NEW p, p \in [DOMAIN p -> PendingDeposit],
         DOMAIN p \subseteq 1 .. n, NEW id \in DOMAIN p
  PROVE  SumTo(AmountsOf(Drop(p, {id}), n), n) = SumTo(AmountsOf(p, n), n) - p[id].amount
<1> DEFINE q == Drop(p, {id})
           f == AmountsOf(p, n)
           g == AmountsOf(q, n)
<1>1. q = [i \in DOMAIN p \ {id} |-> p[i]]
  BY DEF Drop
<1>2. DOMAIN q = DOMAIN p \ {id} /\ \A i \in DOMAIN q : q[i] = p[i]
  BY <1>1
<1>3. \A i \in 1 .. n : /\ f[i] = IF i \in DOMAIN p THEN p[i].amount ELSE 0
                        /\ g[i] = IF i \in DOMAIN q THEN q[i].amount ELSE 0
  BY DEF AmountsOf
<1>4. \A i \in 1 .. n : f[i] \in Int
  BY AmountsType
<1>5. id \in 1 .. n
  OBVIOUS
<1>6. SumTo(f, n) \in Int
  BY AmountsType
<1> HIDE DEF q, f, g
<1>7. f[id] = p[id].amount /\ g[id] = 0
  BY <1>2, <1>3, <1>5
<1>8. \A i \in 1 .. n : i # id => g[i] = f[i]
  BY <1>2, <1>3
<1>9. \A i \in 1 .. n : g[i] \in Int
  BY <1>4, <1>7, <1>8
<1>10. SumTo(g, n) = SumTo(f, n) - f[id] + g[id]
  BY <1>4, <1>5, <1>8, <1>9, SumUpdate
<1>11. f[id] \in Int
  BY <1>4, <1>5
<1>12. SumTo(g, n) = SumTo(f, n) - p[id].amount
  BY <1>6, <1>7, <1>10, <1>11
<1>13. QED BY <1>12 DEF f, g, q

\* What an admission takes out of the queue is what leaves the pending total.
LEMMA DropAmounts ==
  ASSUME TypeOK, NEW ids, ids \subseteq DOMAIN pending
  PROVE  LET n == next_deposit_id - 1
         IN SumTo(AmountsOf(Drop(pending, ids), n), n)
              = SumTo(AmountsOf(pending, n), n) - SumTo(PendingAmounts(ids), n)
<1> DEFINE n == next_deposit_id - 1
           q == Drop(pending, ids)
           f == AmountsOf(pending, n)
           g == AmountsOf(q, n)
           a == PendingAmounts(ids)
<1>1. q = [i \in DOMAIN pending \ ids |-> pending[i]]
  BY DEF Drop
<1>2. DOMAIN q = DOMAIN pending \ ids /\ \A i \in DOMAIN q : q[i] = pending[i]
  BY <1>1
<1>3. \A i \in 1 .. n :
        /\ f[i] = IF i \in DOMAIN pending THEN pending[i].amount ELSE 0
        /\ g[i] = IF i \in DOMAIN q THEN q[i].amount ELSE 0
        /\ a[i] = IF i \in ids /\ i \in DOMAIN pending THEN pending[i].amount ELSE 0
  BY DEF AmountsOf, PendingAmounts
<1>4. n \in Nat /\ \A i \in 1 .. n : a[i] \in Int
  BY PendingAmountsType
<1>5. pending \in [DOMAIN pending -> PendingDeposit]
  BY Zenon DEF TypeOK, EntryTypeOK
<1>6. (\A i \in 1 .. n : f[i] \in Int) /\ SumTo(f, n) \in Int
  <2> HIDE DEF n
  <2> QED BY <1>4, <1>5, AmountsType
<1> HIDE DEF n, q, f, g, a
<1>7. ASSUME NEW i \in 1 .. n PROVE g[i] \in Int /\ a[i] \in Int /\ f[i] = g[i] + a[i]
  <2>1. a[i] \in Int /\ f[i] \in Int
    BY <1>4, <1>6
  <2>2. CASE i \in ids
    <3>1. g[i] = 0 /\ a[i] = f[i]
      BY <1>2, <1>3, <2>2
    <3>2. QED BY <2>1, <3>1
  <2>3. CASE i \notin ids
    <3>1. g[i] = f[i] /\ a[i] = 0
      BY <1>2, <1>3, <2>3
    <3>2. QED BY <2>1, <3>1
  <2>4. QED BY <2>2, <2>3
<1>8. SumTo(f, n) = SumTo(g, n) + SumTo(a, n)
  BY <1>4, <1>7, SumAdd
<1>9. SumTo(g, n) \in Int /\ SumTo(a, n) \in Int
  BY <1>4, <1>7, SumType
<1>10. SumTo(g, n) = SumTo(f, n) - SumTo(a, n)
  BY <1>6, <1>8, <1>9
<1>11. QED BY <1>10 DEF n, q, f, g, a

----------------------------------------------------------------------------
\* The exit queue: what an exit owes to the parties of P, what the exits of f owe
\* them by ID up to n, and what queued and stranded exits owe them in all.
ShareOf(exit, P) ==
  (IF exit.recipient \in P THEN exit.payout ELSE 0)
  + (IF exit.relayer \in P THEN exit.fee ELSE 0)

Shares(f, n, P) == [i \in 1 .. n |-> IF i \in DOMAIN f THEN ShareOf(f[i], P) ELSE 0]

OwedIn(f, g, n, P) == SumTo(Shares(f, n, P), n) + SumTo(Shares(g, n, P), n)

\* The books of an exit queue with its total q and the parties' dues d.
ExitBooks(f, g, n, q, d) ==
  /\ q = OwedIn(f, g, n, Accounts)
  /\ \A a \in Accounts : d[a] = OwedIn(f, g, n, {a})

\* The same sums as the properties state them.
AllOwed(f, n) == [i \in 1 .. n |-> IF i \in DOMAIN f THEN f[i].payout + f[i].fee ELSE 0]

PartyOwed(f, n, a) ==
  [i \in 1 .. n |->
     IF i \in DOMAIN f
     THEN (IF f[i].recipient = a THEN f[i].payout ELSE 0)
          + (IF f[i].relayer = a THEN f[i].fee ELSE 0)
     ELSE 0]

LEMMA SharesAre ==
  ASSUME NEW n, NEW f, f \in [DOMAIN f -> Exit]
  PROVE  /\ AllOwed(f, n) = Shares(f, n, Accounts)
         /\ \A a : PartyOwed(f, n, a) = Shares(f, n, {a})
<1>1. ASSUME NEW i \in DOMAIN f PROVE ShareOf(f[i], Accounts) = f[i].payout + f[i].fee
  <2>1. f[i].recipient \in Accounts /\ f[i].relayer \in Accounts
    BY DEF Exit
  <2>2. QED BY <2>1 DEF ShareOf
<1>2. ASSUME NEW i \in DOMAIN f, NEW a
      PROVE  ShareOf(f[i], {a}) = (IF f[i].recipient = a THEN f[i].payout ELSE 0)
                                  + (IF f[i].relayer = a THEN f[i].fee ELSE 0)
  BY DEF ShareOf
<1>3. QED BY <1>1, <1>2 DEF Shares, AllOwed, PartyOwed

LEMMA ExitBooksAre ==
  /\ ExitTypeOK =>
       (ExitsAccounted /\ PartiesOwed
          <=> ExitBooks(exits, stranded, exit_tail - 1, queued_total, due))
  /\ ExitTypeOK' =>
       (ExitsAccounted' /\ PartiesOwed'
          <=> ExitBooks(exits', stranded', exit_tail' - 1, queued_total', due'))
<1>1. ASSUME ExitTypeOK
      PROVE  ExitsAccounted /\ PartiesOwed
               <=> ExitBooks(exits, stranded, exit_tail - 1, queued_total, due)
  <2>1. exits \in [DOMAIN exits -> Exit] /\ stranded \in [DOMAIN stranded -> Exit]
    BY <1>1 DEF ExitTypeOK
  <2>2. \A f : /\ Owed(f) = AllOwed(f, exit_tail - 1)
              /\ \A a : OwedTo(f, a) = PartyOwed(f, exit_tail - 1, a)
    BY DEF Owed, OwedTo, AllOwed, PartyOwed
  <2>3. /\ Owed(exits) = Shares(exits, exit_tail - 1, Accounts)
        /\ Owed(stranded) = Shares(stranded, exit_tail - 1, Accounts)
        /\ \A a \in Accounts : /\ OwedTo(exits, a) = Shares(exits, exit_tail - 1, {a})
                              /\ OwedTo(stranded, a) = Shares(stranded, exit_tail - 1, {a})
    BY <2>1, <2>2, SharesAre
  <2>4. QED BY <2>3, Zenon DEF ExitsAccounted, PartiesOwed, OwedValue, ExitBooks, OwedIn
<1>2. ASSUME ExitTypeOK'
      PROVE  ExitsAccounted' /\ PartiesOwed'
               <=> ExitBooks(exits', stranded', exit_tail' - 1, queued_total', due')
  <2>1. exits' \in [DOMAIN exits' -> Exit] /\ stranded' \in [DOMAIN stranded' -> Exit]
    BY <1>2 DEF ExitTypeOK
  <2>2. /\ Owed(exits)' = AllOwed(exits', exit_tail' - 1)
        /\ Owed(stranded)' = AllOwed(stranded', exit_tail' - 1)
        /\ \A a : /\ OwedTo(exits, a)' = PartyOwed(exits', exit_tail' - 1, a)
                 /\ OwedTo(stranded, a)' = PartyOwed(stranded', exit_tail' - 1, a)
    BY DEF Owed, OwedTo, AllOwed, PartyOwed
  <2>3. /\ Owed(exits)' = Shares(exits', exit_tail' - 1, Accounts)
        /\ Owed(stranded)' = Shares(stranded', exit_tail' - 1, Accounts)
        /\ \A a \in Accounts : /\ OwedTo(exits, a)' = Shares(exits', exit_tail' - 1, {a})
                              /\ OwedTo(stranded, a)' = Shares(stranded', exit_tail' - 1, {a})
    BY <2>1, <2>2, SharesAre
  <2>4. QED BY <2>3, Zenon DEF ExitsAccounted, PartiesOwed, OwedValue, ExitBooks, OwedIn
<1>3. QED BY <1>1, <1>2

\* Shares of well-typed exits are integers.
LEMMA SharesType ==
  ASSUME NEW n \in Nat, NEW P, NEW f, f \in [DOMAIN f -> Exit]
  PROVE  /\ \A i \in DOMAIN f : ShareOf(f[i], P) \in Int
         /\ \A i \in 1 .. n : Shares(f, n, P)[i] \in Int
         /\ SumTo(Shares(f, n, P), n) \in Int
<1>1. ASSUME NEW i \in DOMAIN f PROVE ShareOf(f[i], P) \in Int
  <2>1. f[i].payout \in Nat /\ f[i].fee \in Nat
    BY DEF Exit
  <2>2. QED BY <2>1 DEF ShareOf
<1>2. \A i \in 1 .. n : Shares(f, n, P)[i] \in Int
  BY <1>1 DEF Shares
<1>3. QED BY <1>1, <1>2, SumType

\* Writing, or removing, one exit changes what is owed by its share alone.
LEMMA PutShare ==
  ASSUME NEW n \in Nat, NEW P, NEW f, f \in [DOMAIN f -> Exit],
         NEW k \in 1 .. n, NEW e \in Exit
  PROVE  SumTo(Shares(Put(f, k, e), n, P), n)
           = SumTo(Shares(f, n, P), n) - (IF k \in DOMAIN f THEN ShareOf(f[k], P) ELSE 0)
             + ShareOf(e, P)
<1> DEFINE h == Put(f, k, e)
           s == Shares(f, n, P)
           t == Shares(h, n, P)
<1>1. h = [i \in DOMAIN f \cup {k} |-> IF i = k THEN e ELSE f[i]]
  BY DEF Put
<1>2. /\ DOMAIN h = DOMAIN f \cup {k} /\ h[k] = e
      /\ \A i \in DOMAIN f : i # k => h[i] = f[i]
  BY <1>1
<1>3. h \in [DOMAIN h -> Exit]
  BY <1>1, <1>2
<1>4. \A i \in 1 .. n : /\ s[i] = IF i \in DOMAIN f THEN ShareOf(f[i], P) ELSE 0
                        /\ t[i] = IF i \in DOMAIN h THEN ShareOf(h[i], P) ELSE 0
  BY DEF Shares
<1> HIDE DEF h
<1>5. \A i \in 1 .. n : s[i] \in Int /\ t[i] \in Int
  BY <1>3, SharesType
<1> HIDE DEF s, t
<1>6. \A i \in 1 .. n : i # k => t[i] = s[i]
  BY <1>2, <1>4
<1>7. SumTo(t, n) = SumTo(s, n) - s[k] + t[k]
  BY <1>5, <1>6, SumUpdate
<1>8. s[k] = (IF k \in DOMAIN f THEN ShareOf(f[k], P) ELSE 0) /\ t[k] = ShareOf(e, P)
  BY <1>2, <1>4
<1>9. QED BY <1>7, <1>8 DEF h, s, t

LEMMA DropShare ==
  ASSUME NEW n \in Nat, NEW P, NEW f, f \in [DOMAIN f -> Exit],
         NEW k \in 1 .. n, k \in DOMAIN f
  PROVE  SumTo(Shares(Drop(f, {k}), n, P), n)
           = SumTo(Shares(f, n, P), n) - ShareOf(f[k], P)
<1> DEFINE h == Drop(f, {k})
           s == Shares(f, n, P)
           t == Shares(h, n, P)
<1>1. h = [i \in DOMAIN f \ {k} |-> f[i]]
  BY DEF Drop
<1>2. DOMAIN h = DOMAIN f \ {k} /\ \A i \in DOMAIN h : h[i] = f[i]
  BY <1>1
<1>3. h \in [DOMAIN h -> Exit]
  BY <1>1, <1>2
<1>4. \A i \in 1 .. n : /\ s[i] = IF i \in DOMAIN f THEN ShareOf(f[i], P) ELSE 0
                        /\ t[i] = IF i \in DOMAIN h THEN ShareOf(h[i], P) ELSE 0
  BY DEF Shares
<1> HIDE DEF h
<1>5. (\A i \in 1 .. n : s[i] \in Int /\ t[i] \in Int) /\ SumTo(s, n) \in Int
  BY <1>3, SharesType
<1> HIDE DEF s, t
<1>6. \A i \in 1 .. n : i # k => t[i] = s[i]
  BY <1>2, <1>4
<1>7. SumTo(t, n) = SumTo(s, n) - s[k] + t[k]
  BY <1>5, <1>6, SumUpdate
<1>8. s[k] = ShareOf(f[k], P) /\ t[k] = 0 /\ s[k] \in Int
  BY <1>2, <1>4, <1>5
<1>9. SumTo(t, n) = SumTo(s, n) - s[k]
  BY <1>5, <1>7, <1>8
<1>10. QED BY <1>8, <1>9 DEF h, s, t

\* One more ID, of which nothing is known yet, owes nothing.
LEMMA LongerShares ==
  ASSUME NEW n \in Nat, NEW P, NEW f, f \in [DOMAIN f -> Exit], n + 1 \notin DOMAIN f
  PROVE  SumTo(Shares(f, n + 1, P), n + 1) = SumTo(Shares(f, n, P), n)
<1>1. ASSUME NEW i \in 1 .. n PROVE Shares(f, n + 1, P)[i] = Shares(f, n, P)[i]
  <2>1. i \in 1 .. n + 1
    OBVIOUS
  <2>2. QED BY <2>1 DEF Shares
<1>2. Shares(f, n + 1, P)[n + 1] = 0
  BY DEF Shares
<1>3. SumTo(Shares(f, n + 1, P), n + 1) = SumTo(Shares(f, n, P), n) + 0
  BY <1>1, <1>2, SumExtend
<1>4. SumTo(Shares(f, n, P), n) \in Int
  BY SharesType
<1>5. QED BY <1>3, <1>4

----------------------------------------------------------------------------
\* The books of release's loop at each iteration: what it takes off the queue's
\* total, off the parties' dues and off the TVL is what it takes off the exits.
LoopBooks(s) ==
  /\ ExitBooks(s.exits, s.stranded, exit_tail - 1, s.queued, s.due)
  /\ s.tvl - s.queued = tvl - queued_total

\* What the parties of P are paid of the head exit.
PaidTo(s, P) ==
  (IF HeadExit(s).recipient \in P THEN payout_paid(s) ELSE 0)
  + (IF HeadExit(s).relayer \in P THEN fee_paid(s) ELSE 0)

\* What is left of the head exit is what it owed, less what was paid of it.
LEMMA LeftShare ==
  ASSUME NEW s, LoopInv(s), ~Stops(s), TypeOK, NEW P
  PROVE  /\ PaidTo(s, P) \in Int
         /\ ShareOf(HeadExit(s), P) \in Int
         /\ ShareOf(left(s), P) = ShareOf(HeadExit(s), P) - PaidTo(s, P)
         /\ left(s).payout = 0 /\ left(s).fee = 0 => ShareOf(left(s), P) = 0
<1> DEFINE e == HeadExit(s)
           p == payout_paid(s)
           f == fee_paid(s)
<1>1. /\ e \in Exit
      /\ PayoutPart(s) \in 0 .. e.payout /\ FeePart(s) \in 0 .. e.fee
      /\ p \in {0, PayoutPart(s)} /\ f \in {0, FeePart(s)}
  BY HeadParts
<1>2. left(s) = [e EXCEPT !.payout = @ - p, !.fee = @ - f]
  BY DEF left
<1> HIDE DEF e, p, f
<1>3. e.payout \in Nat /\ e.fee \in Nat
  BY <1>1 DEF Exit
<1>4. p \in Int /\ f \in Int
  BY <1>1, <1>3
<1>5. /\ left(s).recipient = e.recipient /\ left(s).relayer = e.relayer
      /\ left(s).payout = e.payout - p /\ left(s).fee = e.fee - f
  BY <1>1, <1>2 DEF Exit
<1>6. /\ PaidTo(s, P) = (IF e.recipient \in P THEN p ELSE 0)
                        + (IF e.relayer \in P THEN f ELSE 0)
      /\ ShareOf(e, P) = (IF e.recipient \in P THEN e.payout ELSE 0)
                         + (IF e.relayer \in P THEN e.fee ELSE 0)
      /\ ShareOf(left(s), P) = (IF e.recipient \in P THEN left(s).payout ELSE 0)
                               + (IF e.relayer \in P THEN left(s).fee ELSE 0)
  BY <1>5 DEF PaidTo, ShareOf, e, p, f
<1>7. PaidTo(s, P) \in Int /\ ShareOf(e, P) \in Int
  BY <1>3, <1>4, <1>6
<1>8. ShareOf(left(s), P) = ShareOf(e, P) - PaidTo(s, P)
  BY <1>3, <1>4, <1>5, <1>6
<1>9. left(s).payout = 0 /\ left(s).fee = 0 => ShareOf(left(s), P) = 0
  BY <1>6
<1>10. QED BY <1>7, <1>8, <1>9 DEF e

\* An iteration takes what it pays off what the exits owe, whether the exit stays
\* at the head, is settled, or is set aside with what its party refused.
LEMMA PayHeadOwed ==
  ASSUME NEW s, LoopInv(s), ~Stops(s), TypeOK, NEW P
  PROVE  OwedIn(PayHead(s).exits, PayHead(s).stranded, exit_tail - 1, P)
           = OwedIn(s.exits, s.stranded, exit_tail - 1, P) - PaidTo(s, P)
<1> DEFINE t == PayHead(s)
           n == exit_tail - 1
           x == s.exits
           y == s.stranded
           k == s.head
           e == HeadExit(s)
           gone == refused(s) \/ (left(s).payout = 0 /\ left(s).fee = 0)
           X == SumTo(Shares(x, n, P), n)
           Y == SumTo(Shares(y, n, P), n)
<1>1. /\ x \in [k .. n -> Exit] /\ k \in exit_head .. exit_tail
      /\ y \in [DOMAIN y -> Exit] /\ DOMAIN y \subseteq 1 .. k - 1
  BY Zenon DEF LoopInv
<1>2. exit_head \in Nat \ {0} /\ exit_tail \in Nat \ {0}
  BY Zenon DEF TypeOK, ExitTypeOK
<1>3. k \in k .. n /\ e = x[k]
  BY HeadParts DEF HeadExit
<1>4. /\ n \in Nat /\ k \in 1 .. n /\ k \in DOMAIN x /\ k \notin DOMAIN y
      /\ x \in [DOMAIN x -> Exit]
  BY <1>1, <1>2, <1>3
<1>5. left(s) \in Exit
  BY LeftOwing
<1>6. /\ t.exits = IF gone THEN Drop(x, {k}) ELSE Put(x, k, left(s))
      /\ t.stranded = IF refused(s) THEN Put(y, k, left(s)) ELSE y
  BY PayHeadFields
<1>7. /\ PaidTo(s, P) \in Int /\ ShareOf(e, P) \in Int
      /\ ShareOf(left(s), P) = ShareOf(e, P) - PaidTo(s, P)
      /\ left(s).payout = 0 /\ left(s).fee = 0 => ShareOf(left(s), P) = 0
  BY LeftShare
<1> HIDE DEF t, n, x, y, k, e
<1>8. X \in Int /\ Y \in Int
  BY <1>1, <1>4, SharesType
<1>9. /\ SumTo(Shares(Drop(x, {k}), n, P), n) = X - ShareOf(e, P)
      /\ SumTo(Shares(Put(x, k, left(s)), n, P), n) = X - ShareOf(e, P) + ShareOf(left(s), P)
  BY <1>3, <1>4, <1>5, DropShare, PutShare
<1>10. SumTo(Shares(Put(y, k, left(s)), n, P), n) = Y - 0 + ShareOf(left(s), P)
  BY <1>1, <1>4, <1>5, PutShare
<1> HIDE DEF X, Y
<1>11. OwedIn(x, y, n, P) = X + Y
  BY DEF OwedIn, X, Y
<1>12. OwedIn(t.exits, t.stranded, n, P)
         = SumTo(Shares(t.exits, n, P), n) + SumTo(Shares(t.stranded, n, P), n)
  BY DEF OwedIn
<1>13. CASE refused(s)
  <2>1. t.exits = Drop(x, {k}) /\ t.stranded = Put(y, k, left(s))
    BY <1>6, <1>13
  <2>2. QED BY <2>1, <1>7, <1>8, <1>9, <1>10, <1>11, <1>12 DEF t, n, x, y
<1>14. CASE ~refused(s) /\ gone
  <2>1. t.exits = Drop(x, {k}) /\ t.stranded = y /\ ShareOf(left(s), P) = 0
    BY <1>6, <1>7, <1>14
  <2>2. SumTo(Shares(t.stranded, n, P), n) = Y
    BY <2>1 DEF Y
  <2>3. QED BY <2>1, <2>2, <1>7, <1>8, <1>9, <1>11, <1>12 DEF t, n, x, y
<1>15. CASE ~gone
  <2>1. t.exits = Put(x, k, left(s)) /\ t.stranded = y
    BY <1>6, <1>15
  <2>2. SumTo(Shares(t.stranded, n, P), n) = Y
    BY <2>1 DEF Y
  <2>3. QED BY <2>1, <2>2, <1>7, <1>8, <1>9, <1>11, <1>12 DEF t, n, x, y
<1>16. QED BY <1>13, <1>14, <1>15

\* An iteration keeps the loop's books.
LEMMA PayHeadBooks ==
  ASSUME NEW s, LoopInv(s), ~Stops(s), TypeOK, LoopBooks(s)
  PROVE  LoopBooks(PayHead(s))
<1> DEFINE t == PayHead(s)
           n == exit_tail - 1
           e == HeadExit(s)
           p == payout_paid(s)
           f == fee_paid(s)
<1>1. /\ e \in Exit
      /\ PayoutPart(s) \in 0 .. e.payout /\ FeePart(s) \in 0 .. e.fee
      /\ p \in {0, PayoutPart(s)} /\ f \in {0, FeePart(s)}
  BY HeadParts
<1>2. e.payout \in Nat /\ e.fee \in Nat /\ e.recipient \in Accounts /\ e.relayer \in Accounts
  BY <1>1 DEF Exit
<1>3. p \in Int /\ f \in Int
  BY <1>1, <1>2
<1>4. /\ s.queued \in Int /\ s.tvl \in Int /\ s.due \in [Accounts -> Int]
      /\ tvl \in Int /\ queued_total \in Int
  BY Zenon DEF LoopInv, TypeOK, ExitTypeOK
<1>5. /\ s.queued = OwedIn(s.exits, s.stranded, n, Accounts)
      /\ \A a \in Accounts : s.due[a] = OwedIn(s.exits, s.stranded, n, {a})
      /\ s.tvl - s.queued = tvl - queued_total
  BY DEF LoopBooks, ExitBooks
<1>6. /\ t.queued = s.queued - (p + f)
      /\ t.tvl = s.tvl - (p + f)
      /\ t.due = [a \in Accounts |-> s.due[a] - (IF a = e.recipient THEN p ELSE 0)
                                             - (IF a = e.relayer THEN f ELSE 0)]
  BY PayHeadFields
<1>7. \A P : OwedIn(t.exits, t.stranded, n, P) = OwedIn(s.exits, s.stranded, n, P) - PaidTo(s, P)
  BY PayHeadOwed
<1>8. PaidTo(s, Accounts) = p + f
  BY <1>2 DEF PaidTo
<1>9. \A a : PaidTo(s, {a}) = (IF a = e.recipient THEN p ELSE 0)
                              + (IF a = e.relayer THEN f ELSE 0)
  BY DEF PaidTo
<1> HIDE DEF t, n, e, p, f
<1>10. t.queued = OwedIn(t.exits, t.stranded, n, Accounts)
  BY <1>5, <1>6, <1>7, <1>8
<1>11. ASSUME NEW a \in Accounts PROVE t.due[a] = OwedIn(t.exits, t.stranded, n, {a})
  <2>1. t.due[a] = s.due[a] - (IF a = e.recipient THEN p ELSE 0)
                            - (IF a = e.relayer THEN f ELSE 0)
    BY <1>6
  <2>2. s.due[a] \in Int
    BY <1>4
  <2>3. t.due[a] = s.due[a] - PaidTo(s, {a})
    <3> DEFINE u == IF a = e.recipient THEN p ELSE 0
               v == IF a = e.relayer THEN f ELSE 0
    <3>1. t.due[a] = s.due[a] - u - v /\ PaidTo(s, {a}) = u + v
      BY <2>1, <1>9
    <3>2. u \in Int /\ v \in Int
      BY <1>3
    <3> HIDE DEF u, v
    <3>3. QED BY <2>2, <3>1, <3>2
  <2>4. QED BY <2>3, <1>5, <1>7
<1>12. t.tvl - t.queued = tvl - queued_total
  BY <1>3, <1>4, <1>5, <1>6
<1>13. QED BY <1>10, <1>11, <1>12 DEF LoopBooks, ExitBooks, t, n

\* The books balance when release ends, after any number of iterations.
LEMMA ReleaseLoopBooks ==
  ASSUME TypeOK, LoopInv(ReleaseStart), LoopBooks(ReleaseStart), NEW m \in Nat
  PROVE  LoopBooks(ReleaseLoop(m))
<1> DEFINE S == {k \in Nat : LoopBooks(ReleaseLoop(k))}
<1>1. 0 \in S
  BY ReleaseLoopDef
<1>2. ASSUME NEW k \in Nat, k \in S PROVE k + 1 \in S
  <2>1. LoopBooks(ReleaseLoop(k)) /\ ReleaseLoop(k + 1) = ReleaseStep(ReleaseLoop(k))
    BY <1>2, ReleaseLoopDef
  <2>2. LoopInv(ReleaseLoop(k))
    BY ReleaseLoopInv
  <2>3. LoopBooks(ReleaseStep(ReleaseLoop(k)))
    <3>1. CASE Stops(ReleaseLoop(k))
      BY <2>1, <3>1 DEF ReleaseStep
    <3>2. CASE ~Stops(ReleaseLoop(k))
      BY <2>1, <2>2, <3>2, PayHeadBooks DEF ReleaseStep
    <3>3. QED BY <3>1, <3>2
  <2>4. QED BY <2>1, <2>3
<1>3. m \in S
  <2> HIDE DEF S
  <2> QED BY <1>1, <1>2, SetInduction
<1>4. QED BY <1>3

----------------------------------------------------------------------------
\* The pool: what the notes of leaves l hold that are not spent, by leaf.
Unspent(l, spent) == [i \in 1 .. Len(l) |-> IF i \in spent THEN 0 ELSE l[i]]

LEMMA UnspentValueIs ==
  /\ UnspentValue = SumTo(Unspent(leaves, nullifiers), Len(leaves))
  /\ UnspentValue' = SumTo(Unspent(leaves', nullifiers'), Len(leaves'))
<1>1. NoteValues(nullifiers) = Unspent(leaves, nullifiers)
  BY DEF NoteValues, Unspent
<1>2. NoteValues(nullifiers)' = Unspent(leaves', nullifiers')
  BY DEF NoteValues, Unspent
<1>3. QED BY <1>1, <1>2 DEF UnspentValue

LEMMA UnspentType ==
  ASSUME NEW l \in Seq(Nat), NEW spent
  PROVE  /\ Len(l) \in Nat
         /\ \A i \in 1 .. Len(l) : Unspent(l, spent)[i] \in Int
         /\ SumTo(Unspent(l, spent), Len(l)) \in Int
<1>1. Len(l) \in Nat
  OBVIOUS
<1>2. ASSUME NEW i \in 1 .. Len(l) PROVE Unspent(l, spent)[i] \in Int
  <2>1. l[i] \in Nat
    OBVIOUS
  <2>2. QED BY <2>1 DEF Unspent
<1>3. QED BY <1>1, <1>2, SumType

\* New leaves are unspent.
LEMMA AppendNotes ==
  ASSUME NEW l, l \in Seq(Nat), NEW v, v \in Seq(Nat), NEW spent, spent \subseteq 1 .. Len(l)
  PROVE  SumTo(Unspent(l \o v, spent), Len(l) + Len(v))
           = SumTo(Unspent(l, spent), Len(l)) + SumTo(v, Len(v))
<1> DEFINE w == l \o v
           f == Unspent(l, spent)
           g == Unspent(w, spent)
           n == Len(l)
           m == Len(v)
<1>1. /\ w \in Seq(Nat) /\ Len(w) = n + m /\ n \in Nat /\ m \in Nat
      /\ \A i \in 1 .. n : w[i] = l[i]
      /\ \A j \in 1 .. m : w[n + j] = v[j] /\ v[j] \in Int
  <2>1. w \in Seq(Nat) /\ Len(w) = n + m /\ n \in Nat /\ m \in Nat
    OBVIOUS
  <2>2. ASSUME NEW i \in 1 .. n PROVE w[i] = l[i]
    OBVIOUS
  <2>3. ASSUME NEW j \in 1 .. m PROVE w[n + j] = v[j] /\ v[j] \in Int
    <3>1. n + j \in 1 .. n + m /\ n + j > n /\ (n + j) - n = j
      BY <2>1
    <3>2. v[j] \in Nat
      OBVIOUS
    <3>3. QED BY <2>1, <3>1, <3>2
  <2>4. QED BY <2>1, <2>2, <2>3
<1>2. \A i \in 1 .. n : f[i] \in Int
  BY UnspentType
<1>3. \A i \in 1 .. n : f[i] = IF i \in spent THEN 0 ELSE l[i]
  BY DEF Unspent
<1>4. \A i \in 1 .. Len(w) : g[i] = IF i \in spent THEN 0 ELSE w[i]
  BY DEF Unspent
<1>5. spent \subseteq 1 .. n
  OBVIOUS
<1> HIDE DEF w, f, g, n, m
<1>6. ASSUME NEW i \in 1 .. n PROVE g[i] = f[i]
  <2>1. i \in 1 .. Len(w)
    BY <1>1
  <2>2. QED BY <2>1, <1>1, <1>3, <1>4
<1>7. ASSUME NEW j \in 1 .. m PROVE g[n + j] = v[j]
  <2>1. n + j \in 1 .. Len(w) /\ n + j \notin 1 .. n
    BY <1>1
  <2>2. QED BY <2>1, <1>1, <1>4, <1>5
<1>8. SumTo(g, n + m) = SumTo(f, n) + SumTo(v, m)
  <2> DEFINE u == v
             p == n + m
  <2>1. /\ \A i \in 1 .. n : f[i] \in Int /\ g[i] = f[i]
        /\ \A j \in 1 .. m : u[j] \in Int /\ g[n + j] = u[j]
        /\ n \in Nat /\ m \in Nat /\ p = n + m
    BY <1>1, <1>2, <1>6, <1>7
  <2> HIDE DEF u, p
  <2>2. SumTo(g, p) = SumTo(f, n) + SumTo(u, m)
    BY ONLY <2>1, SumConcat
  <2>3. QED BY <2>2 DEF u, p
<1>9. QED BY <1>8 DEF w, f, g, n, m

\* An input that was unspent takes its value out of the pool, and a dummy nothing.
LEMMA SpendNote ==
  ASSUME NEW l \in Seq(Nat), NEW spent, NEW in \in 0 .. Len(l), in \notin spent
  PROVE  /\ (IF in = 0 THEN 0 ELSE l[in]) \in Nat
         /\ SumTo(Unspent(l, spent \cup ({in} \ {0})), Len(l))
              = SumTo(Unspent(l, spent), Len(l)) - (IF in = 0 THEN 0 ELSE l[in])
<1> DEFINE n == Len(l)
           after == spent \cup ({in} \ {0})
           f == Unspent(l, spent)
           g == Unspent(l, after)
<1>1. /\ n \in Nat /\ SumTo(f, n) \in Int
      /\ \A i \in 1 .. n : f[i] \in Int /\ g[i] \in Int
  BY UnspentType
<1>2. CASE in = 0
  <2>1. after = spent
    BY <1>2
  <2>2. g = f
    BY <2>1, Zenon
  <2> HIDE DEF f, g, after, n
  <2>3. SumTo(g, n) = SumTo(f, n) - 0
    BY <2>2, <1>1
  <2>4. QED BY <2>3, <1>2 DEF f, g, after, n
<1>3. CASE in # 0
  <2>1. in \in 1 .. n /\ in \in after /\ l[in] \in Nat
    BY <1>3
  <2>2. \A i \in 1 .. n : /\ f[i] = IF i \in spent THEN 0 ELSE l[i]
                          /\ g[i] = IF i \in after THEN 0 ELSE l[i]
    BY DEF Unspent
  <2>3. \A i : i # in => (i \in after <=> i \in spent)
    BY Zenon
  <2>4. in \notin spent
    OBVIOUS
  <2> HIDE DEF f, g, after, n
  <2>5. \A i \in 1 .. n : i # in => g[i] = f[i]
    BY <2>2, <2>3
  <2>6. f[in] = l[in] /\ g[in] = 0
    BY <2>1, <2>2, <2>4
  <2>7. SumTo(g, n) = SumTo(f, n) - f[in] + g[in]
    <3>1. /\ n \in Nat /\ in \in 1 .. n
          /\ \A i \in 1 .. n : f[i] \in Int /\ g[i] \in Int
          /\ \A i \in 1 .. n : i # in => g[i] = f[i]
      BY <1>1, <2>1, <2>5
    <3>2. QED BY ONLY <3>1, SumUpdate
  <2>8. SumTo(g, n) = SumTo(f, n) - l[in]
    BY <1>1, <2>1, <2>6, <2>7
  <2>9. QED BY <2>1, <2>8, <1>3 DEF f, g, after, n
<1>4. QED BY <1>2, <1>3

\* A transaction takes its inputs out of the pool and puts its outputs in.
LEMMA SpendNotes ==
  ASSUME TypeOK, NEW in \in Spendable, NEW output0 \in Nat, NEW output1 \in Nat,
         Spend(in[1], in[2], output0, output1)
  PROVE  /\ InputValue(in[1]) \in Nat
         /\ InputValue(in[2]) \in Nat
         /\ UnspentValue \in Int
         /\ UnspentValue' = UnspentValue - InputValue(in[1]) - InputValue(in[2])
                            + (output0 + output1)
<1> DEFINE n  == Len(leaves)
           x  == in[1]
           y  == in[2]
           N1 == nullifiers \cup ({x} \ {0})
           N2 == N1 \cup ({y} \ {0})
           v  == <<output0, output1>>
           U(N) == SumTo(Unspent(leaves, N), n)
<1>1. leaves \in Seq(Nat) /\ nullifiers \subseteq 1 .. n /\ n \in Nat
  BY DEF TypeOK, TreeTypeOK
<1>2. PICK root \in Roots, deadline \in Deadlines : check_inputs(root, x, y, deadline)
  BY DEF Spendable
<1>3. x \in 0 .. n /\ y \in 0 .. n
  <2>1. x \in 0 .. root /\ y \in 0 .. root
    BY <1>2, Zenon DEF check_inputs
  <2>2. root \in 0 .. n
    BY <1>1 DEF Roots
  <2> HIDE DEF x, y, n
  <2> QED
    BY <1>1, <2>1, <2>2
<1>4. x \notin nullifiers /\ y \notin nullifiers /\ (x = y => x = 0)
  BY <1>2 DEF check_inputs
<1>5. y \notin N1
  BY <1>4
<1>6. N2 = nullifiers \cup ({x, y} \ {0}) /\ N2 \subseteq 1 .. n
  <2>1. N2 = nullifiers \cup ({x, y} \ {0})
    OBVIOUS
  <2>2. {x, y} \ {0} \subseteq 1 .. n
    BY <1>1, <1>3
  <2> HIDE DEF N2
  <2>3. QED BY <1>1, <2>1, <2>2
<1>7. leaves' = leaves \o v /\ nullifiers' = N2
  BY <1>6 DEF Spend, append
<1>8. InputValue(x) = (IF x = 0 THEN 0 ELSE leaves[x])
      /\ InputValue(y) = (IF y = 0 THEN 0 ELSE leaves[y])
  BY DEF InputValue
<1> HIDE DEF N1, N2, x, y
<1>9. InputValue(x) \in Nat /\ U(N1) = U(nullifiers) - InputValue(x)
  BY <1>1, <1>3, <1>4, <1>8, SpendNote DEF N1
<1>10. InputValue(y) \in Nat /\ U(N2) = U(N1) - InputValue(y)
  BY <1>1, <1>3, <1>5, <1>8, SpendNote DEF N2
<1>11. U(nullifiers) \in Int /\ UnspentValue = U(nullifiers)
  BY <1>1, UnspentType, UnspentValueIs
<1>12. UnspentValue' = U(N2) + SumTo(v, 2)
  <2>1. v \in Seq(Nat) /\ Len(v) = 2
    OBVIOUS
  <2>2. Len(leaves') = n + 2
    BY <1>1, <1>7, <2>1
  <2> HIDE DEF v
  <2>3. SumTo(Unspent(leaves \o v, N2), n + Len(v)) = U(N2) + SumTo(v, Len(v))
    BY <1>1, <1>6, <2>1, AppendNotes
  <2>4. QED BY <1>7, <2>1, <2>2, <2>3, UnspentValueIs
<1>13. SumTo(v, 2) = output0 + output1
  <2>1. SumTo(v, 0) = 0 /\ SumTo(v, 0 + 1) = SumTo(v, 0) + v[0 + 1]
        /\ SumTo(v, 1 + 1) = SumTo(v, 1) + v[1 + 1]
    BY SumToDef
  <2>2. v[1] = output0 /\ v[2] = output1
    OBVIOUS
  <2> HIDE DEF v
  <2>3. QED BY <2>1, <2>2
<1> HIDE DEF U, v
<1>14. UnspentValue' = UnspentValue - InputValue(x) - InputValue(y) + (output0 + output1)
  BY <1>9, <1>10, <1>11, <1>12, <1>13
<1>15. QED BY <1>9, <1>10, <1>11, <1>14 DEF x, y

----------------------------------------------------------------------------
\* Admission: the IDs of a set up to m, and how many they are.
UpTo(ids, m) == {j \in ids : j =< m}

LEMMA UpToFinite ==
  ASSUME NEW n \in Nat, NEW ids, ids \subseteq 1 .. n, NEW m
  PROVE  /\ IsFiniteSet(ids) /\ IsFiniteSet(UpTo(ids, m))
         /\ Cardinality(ids) \in Nat /\ Cardinality(UpTo(ids, m)) \in Nat
         /\ Cardinality(UpTo(ids, m)) =< Cardinality(ids)
<1>1. IsFiniteSet(1 .. n)
  BY FS_Interval
<1>2. IsFiniteSet(ids)
  BY <1>1, FS_Subset
<1>3. UpTo(ids, m) \subseteq ids
  BY DEF UpTo
<1>4. QED BY <1>2, <1>3, FS_Subset, FS_CardinalityType

\* Counting up to an ID of the set counts one more than before it.
LEMMA UpToNext ==
  ASSUME NEW n \in Nat, NEW ids, ids \subseteq 1 .. n, NEW m \in Nat
  PROVE  Cardinality(UpTo(ids, m + 1)) =
           IF m + 1 \in ids THEN Cardinality(UpTo(ids, m)) + 1 ELSE Cardinality(UpTo(ids, m))
<1>0. \A j \in ids : j \in Nat /\ (j =< m + 1 <=> j =< m \/ j = m + 1)
  OBVIOUS
<1>1. CASE m + 1 \in ids
  <2>1. UpTo(ids, m + 1) = UpTo(ids, m) \cup {m + 1}
    BY <1>0, <1>1, Zenon DEF UpTo
  <2>4. m + 1 \notin UpTo(ids, m)
    BY DEF UpTo
  <2>2. IsFiniteSet(UpTo(ids, m))
    BY UpToFinite
  <2>3. QED BY <1>1, <2>1, <2>2, <2>4, FS_AddElement
<1>2. CASE m + 1 \notin ids
  <2>1. UpTo(ids, m + 1) = UpTo(ids, m)
    BY <1>0, <1>2, Zenon DEF UpTo
  <2>2. QED BY <1>2, <2>1
<1>3. QED BY <1>1, <1>2

\* Two IDs of a set are not the same number of the set.
LEMMA UpToDistinct ==
  ASSUME NEW n \in Nat, NEW ids, ids \subseteq 1 .. n, NEW i \in ids, NEW j \in ids, i < j
  PROVE  Cardinality(UpTo(ids, i)) < Cardinality(UpTo(ids, j))
<1> DEFINE B == UpTo(ids, i)
<1>1. IsFiniteSet(B) /\ IsFiniteSet(UpTo(ids, j))
      /\ Cardinality(B) \in Nat /\ Cardinality(UpTo(ids, j)) \in Nat
  BY UpToFinite
<1>2. i \in Nat /\ j \in Nat
  OBVIOUS
<1>3. j \notin B /\ B \cup {j} \subseteq UpTo(ids, j)
  <2>1. ~(j =< i) /\ j =< j
    BY <1>2
  <2>2. \A k \in ids : k =< i => k =< j
    <3>1. \A k \in ids : k \in Nat
      OBVIOUS
    <3>2. QED BY <1>2, <3>1
  <2>3. QED BY <2>1, <2>2, Zenon DEF UpTo
<1> HIDE DEF B
<1>4. Cardinality(B \cup {j}) = Cardinality(B) + 1
  BY <1>1, <1>3, FS_AddElement
<1>5. Cardinality(B \cup {j}) =< Cardinality(UpTo(ids, j))
  BY <1>1, <1>3, FS_Subset
<1>6. QED BY <1>1, <1>4, <1>5 DEF B

\* The k-th ID is the one up to which there are k.
LEMMA KthIdIs ==
  ASSUME NEW n \in Nat, NEW ids, ids \subseteq 1 .. n, NEW id \in ids
  PROVE  KthId(ids, Cardinality(UpTo(ids, id))) = id
<1> DEFINE k == Cardinality(UpTo(ids, id))
           i == KthId(ids, k)
<1>1. i = CHOOSE j \in ids : Cardinality(UpTo(ids, j)) = k
  BY DEF KthId, UpTo
<1>2. \E j \in ids : Cardinality(UpTo(ids, j)) = k
  OBVIOUS
<1> HIDE DEF k
<1>3. i \in ids /\ Cardinality(UpTo(ids, i)) = k
  <2> HIDE DEF i
  <2> QED BY <1>1, <1>2
<1> HIDE DEF i
<1>4. i \in Nat /\ id \in Nat
  BY <1>3
<1>5. Cardinality(UpTo(ids, i)) = Cardinality(UpTo(ids, id))
      /\ Cardinality(UpTo(ids, id)) \in Nat
  BY <1>3, UpToFinite DEF k
<1>6. ~(i < id) /\ ~(id < i)
  <2>1. ASSUME i < id PROVE FALSE
    <3>1. Cardinality(UpTo(ids, i)) < Cardinality(UpTo(ids, id))
      BY <1>3, <2>1, UpToDistinct
    <3>2. QED BY <3>1, <1>5
  <2>2. ASSUME id < i PROVE FALSE
    <3>1. Cardinality(UpTo(ids, id)) < Cardinality(UpTo(ids, i))
      BY <1>3, <2>2, UpToDistinct
    <3>2. QED BY <3>1, <1>5
  <2>3. QED BY <2>1, <2>2
<1>7. i = id
  BY <1>4, <1>6
<1>8. QED BY <1>7 DEF i, k

\* The notes that admit appends hold the amounts of the deposits it admits.
LEMMA AdmittedValues ==
  ASSUME TypeOK, PendingSplit, NEW ids, ids \subseteq DOMAIN pending
  PROVE  SumTo(OutputValues(ids), 2 * Cardinality(ids))
           = SumTo(PendingAmounts(ids), next_deposit_id - 1)
<1> DEFINE n == next_deposit_id - 1
           o == OutputValues(ids)
           a == PendingAmounts(ids)
           c(m) == Cardinality(UpTo(ids, m))
           S == {m \in Nat : m =< n => SumTo(o, 2 * c(m)) = SumTo(a, m)}
<1>1. n \in Nat /\ \A i \in 1 .. n : a[i] \in Nat
  BY PendingAmountsType
<1>2. /\ DOMAIN pending \subseteq 1 .. n /\ pending \in [DOMAIN pending -> PendingDeposit]
      /\ ids \subseteq 1 .. n
  BY Zenon DEF TypeOK, EntryTypeOK
<1>3. \A k \in 1 .. 2 * Cardinality(ids) :
        o[k] = LET deposit == pending[KthId(ids, (k + 1) \div 2)]
               IN IF k % 2 = 1 THEN deposit.output0 ELSE deposit.output1
  BY DEF OutputValues
<1>4. \A i \in 1 .. n : a[i] = IF i \in ids THEN pending[i].amount ELSE 0
  BY DEF PendingAmounts
<1> HIDE DEF n, o, a
<1>5. \A m : c(m) \in Nat /\ c(m) =< Cardinality(ids)
  BY <1>1, <1>2, UpToFinite
<1>6. Cardinality(ids) \in Nat
  BY <1>1, <1>2, UpToFinite
<1>7. 0 \in S
  <2>1. UpTo(ids, 0) = {}
    BY <1>2 DEF UpTo
  <2>2. c(0) = 0
    BY <2>1, FS_EmptySet
  <2>3. SumTo(o, 0) = 0 /\ SumTo(a, 0) = 0
    BY SumToDef
  <2>4. 2 * c(0) = 0
    BY <2>2
  <2>5. QED BY <2>3, <2>4
<1>8. ASSUME NEW m \in Nat, m \in S PROVE m + 1 \in S
  <2>1. SUFFICES ASSUME m + 1 =< n PROVE SumTo(o, 2 * c(m + 1)) = SumTo(a, m + 1)
    OBVIOUS
  <2>2. SumTo(o, 2 * c(m)) = SumTo(a, m)
    BY <1>1, <1>8, <2>1
  <2>3. m + 1 \in 1 .. n
    BY <1>1, <2>1
  <2>4. SumTo(a, m + 1) = SumTo(a, m) + a[m + 1] /\ SumTo(a, m) \in Int
    <3>1. \A i \in 1 .. m : a[i] \in Int
      BY <1>1, <2>1
    <3>2. QED BY <3>1, SumToDef, SumType
  <2>5. CASE m + 1 \notin ids
    <3>1. c(m + 1) = c(m) /\ a[m + 1] = 0
      BY <1>1, <1>2, <1>4, <2>3, <2>5, UpToNext
    <3>2. QED BY <2>2, <2>4, <3>1
  <2>6. CASE m + 1 \in ids
    <3> DEFINE d == pending[m + 1]
               k == c(m)
    <3>1. c(m + 1) = k + 1
      BY <1>1, <1>2, <2>6, UpToNext
    <3>2. KthId(ids, k + 1) = m + 1
      <4>1. KthId(ids, c(m + 1)) = m + 1
        BY <1>1, <1>2, <2>6, KthIdIs
      <4>2. QED BY <4>1, <3>1
    <3>3. k \in Nat /\ k + 1 =< Cardinality(ids)
      BY <1>5, <3>1
    <3>4. a[m + 1] = d.amount
      BY <1>4, <2>3, <2>6
    <3>5. d \in PendingDeposit /\ d.output0 + d.output1 = d.amount
      BY <1>2, <2>6 DEF PendingSplit
    <3>6. d.output0 \in Nat /\ d.output1 \in Nat
      BY <3>5 DEF PendingDeposit
    <3> HIDE DEF c, d, k
    <3>7. /\ 2 * k \in Nat /\ 2 * k + 1 \in 1 .. 2 * Cardinality(ids)
          /\ (2 * k + 1) + 1 \in 1 .. 2 * Cardinality(ids)
          /\ ((2 * k + 1) + 1) \div 2 = k + 1 /\ (((2 * k + 1) + 1) + 1) \div 2 = k + 1
          /\ (2 * k + 1) % 2 = 1 /\ ((2 * k + 1) + 1) % 2 = 0
      BY <1>6, <3>3
    <3>8. o[2 * k + 1] = d.output0 /\ o[(2 * k + 1) + 1] = d.output1
      BY <1>3, <3>2, <3>7 DEF d
    <3>9. /\ SumTo(o, 2 * k + 1) = SumTo(o, 2 * k) + o[2 * k + 1]
          /\ SumTo(o, (2 * k + 1) + 1) = SumTo(o, 2 * k + 1) + o[(2 * k + 1) + 1]
      BY <3>7, SumToDef
    <3>10. 2 * c(m + 1) = (2 * k + 1) + 1
      BY <3>1, <3>3
    <3>11. SumTo(o, 2 * k) = SumTo(a, m)
      BY <2>2 DEF k
    <3>12. QED BY <2>4, <3>4, <3>5, <3>6, <3>8, <3>9, <3>10, <3>11
  <2>7. QED BY <2>5, <2>6
<1>9. n \in S
  <2> HIDE DEF S
  <2> QED BY <1>1, <1>7, <1>8, SetInduction
<1>10. UpTo(ids, n) = ids
  <2>1. \A i \in ids : i =< n
    BY <1>1, <1>2
  <2>2. QED BY <2>1, Zenon DEF UpTo
<1>11. SumTo(o, 2 * Cardinality(ids)) = SumTo(a, n)
  BY <1>1, <1>9, <1>10
<1>12. QED BY <1>11 DEF n, o, a

----------------------------------------------------------------------------
\* What a step leaves alone keeps its books.
LEMMA BookFrames ==
  /\ PendingSplit /\ PendingAccounted /\ UNCHANGED <<next_deposit_id, pending, pending_total>>
       => PendingSplit' /\ PendingAccounted'
  /\ ExitsAccounted /\ PartiesOwed /\ UNCHANGED <<exit_tail, exits, stranded, queued_total, due>>
       => ExitsAccounted' /\ PartiesOwed'
  /\ UNCHANGED <<leaves, nullifiers>> => UnspentValue' = UnspentValue
<1>1. PendingSplit /\ PendingAccounted /\ UNCHANGED <<next_deposit_id, pending, pending_total>>
        => PendingSplit' /\ PendingAccounted'
  BY PendingValueIs DEF PendingSplit, PendingAccounted
<1>2. ExitsAccounted /\ PartiesOwed /\ UNCHANGED <<exit_tail, exits, stranded, queued_total, due>>
        => ExitsAccounted' /\ PartiesOwed'
  BY DEF ExitsAccounted, PartiesOwed, OwedValue, Owed, OwedTo
<1>3. UNCHANGED <<leaves, nullifiers>> => UnspentValue' = UnspentValue
  BY UnspentValueIs
<1>4. QED BY <1>1, <1>2, <1>3

\* A step that touches none of the books keeps them.
LEMMA QuietBooks ==
  ASSUME Books, UNCHANGED <<next_deposit_id, pending, pending_total, exit_tail, exits, stranded,
                            queued_total, due, tvl, leaves, nullifiers>>
  PROVE  Books'
BY BookFrames DEF Books, NotesAccounted, Notes

\* The sums that the books compare are integers.
LEMMA BooksType ==
  ASSUME TypeOK
  PROVE  tvl \in Int /\ pending_total \in Int /\ queued_total \in Int /\ UnspentValue \in Int
<1>1. tvl \in Int /\ pending_total \in Int /\ queued_total \in Int /\ leaves \in Seq(Nat)
  BY Zenon DEF TypeOK, EntryTypeOK, ExitTypeOK, TreeTypeOK
<1>2. UnspentValue \in Int
  BY <1>1, UnspentType, UnspentValueIs
<1>3. QED BY <1>1, <1>2

\* shield adds its amount to the pending deposits and to the TVL.
LEMMA ShieldBooks ==
  ASSUME TypeOK, Books, NEW d, NEW amount \in Nat, NEW output0, NEW output1, NEW deadline,
         shield(d, amount, output0, output1, deadline)
  PROVE  Books'
<1> DEFINE deposit == [depositor |-> d, amount |-> amount,
                       output0 |-> output0, output1 |-> output1,
                       created_at |-> now, delay |-> delay(amount),
                       flag |-> 0, flagged_at |-> 0]
           n == next_deposit_id - 1
<1>1. /\ output0 + output1 = amount
      /\ pending' = Put(pending, next_deposit_id, deposit)
      /\ next_deposit_id' = next_deposit_id + 1
      /\ pending_total' = pending_total + amount
      /\ tvl' = tvl + amount
      /\ UNCHANGED <<exitVars, treeVars, due>>
  BY DEF shield, check_deposit_proof, ghostVars
<1>2. UNCHANGED <<exit_tail, exits, stranded, queued_total, due, leaves, nullifiers>>
  BY <1>1 DEF exitVars, treeVars
<1>3. /\ next_deposit_id \in Nat \ {0} /\ DOMAIN pending \subseteq 1 .. n
      /\ pending \in [DOMAIN pending -> PendingDeposit]
  BY Zenon DEF TypeOK, EntryTypeOK
<1>4. n \in Nat /\ n + 1 = next_deposit_id /\ next_deposit_id' - 1 = n + 1
  BY <1>1, <1>3
<1>5. deposit.amount = amount /\ deposit.output0 = output0 /\ deposit.output1 = output1
  OBVIOUS
<1> HIDE DEF n, deposit
<1>6. PendingValue' = PendingValue + amount
  <2>1. pending' = Put(pending, n + 1, deposit)
    BY <1>1, <1>4
  <2>2. SumTo(AmountsOf(Put(pending, n + 1, deposit), n + 1), n + 1)
          = SumTo(AmountsOf(pending, n), n) + deposit.amount
    BY <1>3, <1>4, PutAmount
  <2>3. PendingValue = SumTo(AmountsOf(pending, n), n)
    BY PendingValueIs DEF n
  <2>4. PendingValue' = SumTo(AmountsOf(pending', n + 1), n + 1)
    BY <1>4, PendingValueIs
  <2>5. QED BY <1>5, <2>1, <2>2, <2>3, <2>4
<1>7. PendingAccounted'
  BY <1>1, <1>6 DEF Books, PendingAccounted
<1>8. PendingSplit'
  <2>1. pending' = [i \in DOMAIN pending \cup {next_deposit_id} |->
                      IF i = next_deposit_id THEN deposit ELSE pending[i]]
    BY <1>1 DEF Put
  <2>2. \A i \in DOMAIN pending : pending[i].output0 + pending[i].output1 = pending[i].amount
    BY DEF Books, PendingSplit
  <2>3. \A i \in DOMAIN pending' : pending'[i].output0 + pending'[i].output1 = pending'[i].amount
    BY <1>1, <1>5, <2>1, <2>2
  <2>4. QED BY <2>3 DEF PendingSplit
<1>9. NotesAccounted'
  <2>1. UnspentValue' = UnspentValue /\ UnspentValue = tvl - pending_total - queued_total
    BY <1>2, BookFrames DEF Books, NotesAccounted, Notes
  <2>2. tvl \in Int /\ pending_total \in Int /\ queued_total \in Int
    BY BooksType
  <2>3. UnspentValue' = tvl' - pending_total' - queued_total'
    BY <1>1, <1>2, <2>1, <2>2
  <2>4. QED BY <2>3 DEF NotesAccounted, Notes
<1>10. QED BY <1>2, <1>7, <1>8, <1>9, BookFrames DEF Books

\* flag and unflag leave what a deposit holds alone.
LEMMA FlagBooks ==
  ASSUME TypeOK, Books, NEW id,
         \/ \E reason : flag(id, reason)
         \/ unflag(id)
  PROVE  Books'
<1>1. /\ id \in DOMAIN pending
      /\ \E f, t : pending' = [pending EXCEPT ![id].flag = f, ![id].flagged_at = t]
      /\ UNCHANGED <<next_deposit_id, pending_total, exitVars, tvl, treeVars, due>>
  BY DEF flag, unflag, ghostVars
<1>2. UNCHANGED <<exit_tail, exits, stranded, queued_total, due, leaves, nullifiers>>
  BY <1>1 DEF exitVars, treeVars
<1>3. PICK f, t : pending' = [pending EXCEPT ![id].flag = f, ![id].flagged_at = t]
  BY <1>1
<1>4. pending \in [DOMAIN pending -> PendingDeposit] /\ next_deposit_id \in Nat \ {0}
  BY Zenon DEF TypeOK, EntryTypeOK
<1>5. /\ DOMAIN pending' = DOMAIN pending
      /\ \A i \in DOMAIN pending : /\ pending'[i].amount = pending[i].amount
                                   /\ pending'[i].output0 = pending[i].output0
                                   /\ pending'[i].output1 = pending[i].output1
  BY <1>1, <1>3, <1>4 DEF PendingDeposit
<1>6. AmountsOf(pending', next_deposit_id - 1) = AmountsOf(pending, next_deposit_id - 1)
  BY <1>5 DEF AmountsOf
<1>7. PendingAccounted'
  BY <1>1, <1>6, PendingValueIs DEF Books, PendingAccounted
<1>8. PendingSplit'
  BY <1>5 DEF Books, PendingSplit
<1>9. NotesAccounted'
  BY <1>1, <1>2, BookFrames DEF Books, NotesAccounted, Notes
<1>10. QED BY <1>2, <1>7, <1>8, <1>9, BookFrames DEF Books

\* cancel and refund take a deposit's amount off the pending deposits and the TVL.
LEMMA ReturnBooks ==
  ASSUME TypeOK, Books, NEW id \in DOMAIN pending, return_deposit(id)
  PROVE  Books'
<1> DEFINE amount == pending[id].amount
           n == next_deposit_id - 1
<1>1. /\ pending' = Drop(pending, {id})
      /\ tvl' = tvl - amount
      /\ pending_total' = pending_total - amount
      /\ UNCHANGED <<next_deposit_id, exitVars, treeVars, due>>
  BY DEF return_deposit, ghostVars
<1>2. UNCHANGED <<exit_tail, exits, stranded, queued_total, due, leaves, nullifiers>>
  BY <1>1 DEF exitVars, treeVars
<1>3. /\ next_deposit_id \in Nat \ {0} /\ DOMAIN pending \subseteq 1 .. n
      /\ pending \in [DOMAIN pending -> PendingDeposit]
  BY Zenon DEF TypeOK, EntryTypeOK
<1>4. n \in Nat /\ amount \in Nat
  BY <1>3 DEF PendingDeposit
<1>5. PendingValue' = PendingValue - amount
  <2>1. SumTo(AmountsOf(Drop(pending, {id}), n), n) = SumTo(AmountsOf(pending, n), n) - amount
    <3> HIDE DEF n
    <3> QED BY <1>3, <1>4, DropAmount
  <2>2. QED BY <1>1, <2>1, PendingValueIs
<1>6. PendingAccounted'
  BY <1>1, <1>5 DEF Books, PendingAccounted
<1>7. PendingSplit'
  <2>1. pending' = [i \in DOMAIN pending \ {id} |-> pending[i]]
    BY <1>1 DEF Drop
  <2>2. \A i \in DOMAIN pending : pending[i].output0 + pending[i].output1 = pending[i].amount
    BY DEF Books, PendingSplit
  <2>3. \A i \in DOMAIN pending' : pending'[i].output0 + pending'[i].output1 = pending'[i].amount
    BY <2>1, <2>2
  <2>4. QED BY <2>3 DEF PendingSplit
<1> HIDE DEF amount
<1>8. NotesAccounted'
  <2>1. UnspentValue' = UnspentValue /\ UnspentValue = tvl - pending_total - queued_total
    BY <1>2, BookFrames DEF Books, NotesAccounted, Notes
  <2>2. tvl \in Int /\ pending_total \in Int /\ queued_total \in Int
    BY BooksType
  <2>3. UnspentValue' = tvl' - pending_total' - queued_total'
    BY <1>1, <1>2, <1>4, <2>1, <2>2
  <2>4. QED BY <2>3 DEF NotesAccounted, Notes
<1>9. QED BY <1>2, <1>6, <1>7, <1>8, BookFrames DEF Books

\* admit turns pending deposits into notes of the same value.
LEMMA AdmitBooks ==
  ASSUME TypeOK, Books, NEW ids, admit(ids)
  PROVE  Books'
<1> DEFINE admitted == {id \in ids : Eligible(id)}
           n == next_deposit_id - 1
           values == OutputValues(admitted)
           sum == SumTo(PendingAmounts(admitted), n)
<1>1. /\ append(values)
      /\ pending' = Drop(pending, admitted)
      /\ pending_total' = pending_total - sum
      /\ UNCHANGED <<next_deposit_id, exitVars, tvl, nullifiers, due>>
  BY DEF admit, ghostVars
<1>2. UNCHANGED <<exit_tail, exits, stranded, queued_total, due>>
  BY <1>1 DEF exitVars
<1>3. admitted \subseteq DOMAIN pending
  BY DEF Eligible
<1> HIDE DEF admitted
<1>4. /\ values \in Seq(Nat) /\ Len(values) = 2 * Cardinality(admitted)
      /\ Cardinality(admitted) \in Nat
  BY <1>3, OutputValuesType
<1>5. SumTo(values, Len(values)) = sum
  <2>1. SumTo(values, 2 * Cardinality(admitted)) = sum
    BY <1>3, AdmittedValues DEF Books
  <2> HIDE DEF values, sum
  <2>2. QED BY <1>4, <2>1
<1>6. n \in Nat /\ sum \in Int
  <2>1. n \in Nat /\ \A i \in 1 .. n : PendingAmounts(admitted)[i] \in Int
    BY PendingAmountsType
  <2> HIDE DEF n
  <2>2. QED BY <2>1, SumType
<1>7. PendingValue' = PendingValue - sum
  <2>1. SumTo(AmountsOf(Drop(pending, admitted), n), n) = SumTo(AmountsOf(pending, n), n) - sum
    BY <1>3, DropAmounts
  <2>2. QED BY <1>1, <2>1, PendingValueIs
<1>8. PendingAccounted'
  BY <1>1, <1>7 DEF Books, PendingAccounted
<1>9. PendingSplit'
  <2>1. pending' = [i \in DOMAIN pending \ admitted |-> pending[i]]
    BY <1>1 DEF Drop
  <2>2. \A i \in DOMAIN pending : pending[i].output0 + pending[i].output1 = pending[i].amount
    BY DEF Books, PendingSplit
  <2>3. \A i \in DOMAIN pending' : pending'[i].output0 + pending'[i].output1 = pending'[i].amount
    BY <2>1, <2>2
  <2>4. QED BY <2>3 DEF PendingSplit
<1> HIDE DEF values, sum
<1>10. UnspentValue' = UnspentValue + sum
  <2>1. leaves \in Seq(Nat) /\ nullifiers \subseteq 1 .. Len(leaves)
    BY Zenon DEF TypeOK, TreeTypeOK
  <2>2. leaves' = leaves \o values /\ nullifiers' = nullifiers
    BY <1>1 DEF append
  <2>3. Len(leaves') = Len(leaves) + Len(values)
    BY <1>1, <1>4, AppendType
  <2>4. SumTo(Unspent(leaves \o values, nullifiers), Len(leaves) + Len(values))
          = SumTo(Unspent(leaves, nullifiers), Len(leaves)) + SumTo(values, Len(values))
    BY <1>4, <2>1, AppendNotes
  <2>5. UnspentValue' = SumTo(Unspent(leaves \o values, nullifiers), Len(leaves) + Len(values))
    BY <2>2, <2>3, UnspentValueIs, Zenon
  <2>6. QED BY <1>5, <2>4, <2>5, UnspentValueIs, Zenon
<1>11. NotesAccounted'
  <2>1. UnspentValue = tvl - pending_total - queued_total
    BY DEF Books, NotesAccounted, Notes
  <2>2. tvl \in Int /\ pending_total \in Int /\ queued_total \in Int
    BY BooksType
  <2>3. UnspentValue' = tvl' - pending_total' - queued_total'
    BY <1>1, <1>2, <1>6, <1>10, <2>1, <2>2
  <2>4. QED BY <2>3 DEF NotesAccounted, Notes
<1>12. QED BY <1>2, <1>8, <1>9, <1>11, BookFrames DEF Books

\* What a transaction pays is what its outputs hold less than its inputs.
LEMMA SpentNotes ==
  ASSUME TypeOK, Books, NEW in \in Spendable, NEW output0 \in Nat, NEW output1 \in Nat,
         NEW payout \in Nat, NEW fee \in Nat,
         check_value(in[1], in[2], output0, output1, payout, fee),
         Spend(in[1], in[2], output0, output1)
  PROVE  UnspentValue' = tvl - pending_total - queued_total - (payout + fee)
<1>1. /\ InputValue(in[1]) \in Nat /\ InputValue(in[2]) \in Nat /\ UnspentValue \in Int
      /\ UnspentValue' = UnspentValue - InputValue(in[1]) - InputValue(in[2])
                         + (output0 + output1)
  BY SpendNotes
<1>2. InputValue(in[1]) + InputValue(in[2]) = output0 + output1 + payout + fee
  BY DEF check_value
<1>3. UnspentValue = tvl - pending_total - queued_total
  BY DEF Books, NotesAccounted, Notes
<1>4. QED BY <1>1, <1>2, <1>3

\* An exit settled at once leaves the TVL and the notes by the same amount.
LEMMA SettledBooks ==
  ASSUME TypeOK, Books, NEW in \in Spendable, NEW output0 \in Nat, NEW output1 \in Nat,
         NEW payout \in Nat, NEW fee \in Nat, NEW recipient, NEW relayer,
         transact_settled(in[1], in[2], output0, output1, payout, fee, recipient, relayer)
  PROVE  Books'
<1>1. /\ check_value(in[1], in[2], output0, output1, payout, fee)
      /\ Spend(in[1], in[2], output0, output1)
      /\ tvl' = tvl - (payout + fee)
      /\ UNCHANGED <<entryVars, exit_tail, exits, stranded, queued_total, due>>
  BY DEF transact_settled, ghostVars
<1>2. UNCHANGED <<next_deposit_id, pending, pending_total>>
  BY <1>1 DEF entryVars
<1>3. UnspentValue' = tvl - pending_total - queued_total - (payout + fee)
  BY <1>1, SpentNotes
<1>4. tvl \in Int /\ pending_total \in Int /\ queued_total \in Int
  BY BooksType
<1>5. UnspentValue' = tvl' - pending_total' - queued_total'
  BY <1>1, <1>2, <1>3, <1>4
<1>6. NotesAccounted'
  BY <1>5 DEF NotesAccounted, Notes
<1>7. QED BY <1>1, <1>2, <1>6, BookFrames DEF Books

\* A new exit at the tail of the queue owes its share.
LEMMA EnqueueShare ==
  ASSUME NEW n \in Nat, NEW P, NEW f, f \in [DOMAIN f -> Exit], n + 1 \notin DOMAIN f,
         NEW e \in Exit
  PROVE  SumTo(Shares(Put(f, n + 1, e), n + 1, P), n + 1)
           = SumTo(Shares(f, n, P), n) + ShareOf(e, P)
<1> DEFINE k == n + 1
<1>1. k \in Nat /\ k \in 1 .. k /\ k \notin DOMAIN f
  OBVIOUS
<1>2. SumTo(Shares(f, k, P), k) = SumTo(Shares(f, n, P), n)
  BY LongerShares
<1>3. SumTo(Shares(f, n, P), n) \in Int
  BY SharesType
<1> HIDE DEF k
<1>4. SumTo(Shares(Put(f, k, e), k, P), k) = SumTo(Shares(f, k, P), k) - 0 + ShareOf(e, P)
  BY <1>1, PutShare
<1>5. SumTo(Shares(Put(f, k, e), k, P), k) = SumTo(Shares(f, n, P), n) + ShareOf(e, P)
  BY <1>2, <1>3, <1>4
<1>6. QED BY <1>5 DEF k

\* Where the exits of the queue and the stranded ones are, and what they are.
LEMMA ExitFacts ==
  ASSUME IndInv
  PROVE  /\ exit_tail - 1 \in Nat /\ exit_tail = (exit_tail - 1) + 1
         /\ exits \in [DOMAIN exits -> Exit] /\ stranded \in [DOMAIN stranded -> Exit]
         /\ DOMAIN exits \subseteq 1 .. exit_tail - 1
         /\ DOMAIN stranded \subseteq 1 .. exit_tail - 1
         /\ exit_tail \notin DOMAIN exits /\ exit_tail \notin DOMAIN stranded
         /\ ExitTypeOK /\ due \in [Accounts -> Int] /\ queued_total \in Int
<1>1. /\ exit_head \in Nat \ {0} /\ exit_tail \in Nat \ {0}
      /\ exits \in [DOMAIN exits -> Exit] /\ stranded \in [DOMAIN stranded -> Exit]
      /\ ExitTypeOK /\ due \in [Accounts -> Int] /\ queued_total \in Int
  BY Zenon DEF IndInv, TypeOK, ExitTypeOK
<1>2. /\ exit_head =< exit_tail /\ DOMAIN exits = exit_head .. exit_tail - 1
      /\ DOMAIN stranded \subseteq 1 .. exit_head - 1
  BY Zenon DEF IndInv, ExitsSound, QueueInOrder
<1>3. /\ exit_tail - 1 \in Nat /\ exit_tail = (exit_tail - 1) + 1
      /\ exit_head .. exit_tail - 1 \subseteq 1 .. exit_tail - 1
      /\ 1 .. exit_head - 1 \subseteq 1 .. exit_tail - 1
      /\ exit_tail \notin 1 .. exit_tail - 1
  <2>1. PICK h \in Nat \ {0}, x \in Nat \ {0} : h = exit_head /\ x = exit_tail /\ h =< x
    BY <1>1, <1>2, Zenon
  <2>2. x - 1 \in Nat /\ x = (x - 1) + 1 /\ x \notin 1 .. x - 1
    OBVIOUS
  <2>3. h .. x - 1 \subseteq 1 .. x - 1 /\ 1 .. h - 1 \subseteq 1 .. x - 1
    BY <2>1
  <2> QED
    BY <2>1, <2>2, <2>3, Zenon
<1>4. /\ DOMAIN exits \subseteq 1 .. exit_tail - 1
      /\ DOMAIN stranded \subseteq 1 .. exit_tail - 1
      /\ exit_tail \notin DOMAIN exits /\ exit_tail \notin DOMAIN stranded
  BY <1>2, <1>3, Zenon
<1>5. QED BY <1>1, <1>3, <1>4

\* A queued exit moves its value from the notes to what the queue owes.
LEMMA QueuedBooks ==
  ASSUME IndInv, IndInv', Books, NEW in \in Spendable, NEW output0 \in Nat,
         NEW output1 \in Nat, NEW payout \in Nat, NEW fee \in Nat, NEW recipient \in Accounts,
         NEW relayer \in Accounts,
         transact_queued(in[1], in[2], output0, output1, payout, fee, recipient, relayer)
  PROVE  Books'
<1> DEFINE e == [recipient |-> recipient, payout |-> payout,
                 relayer |-> relayer, fee |-> fee, queued_at |-> now]
           n == exit_tail - 1
<1>1. /\ check_value(in[1], in[2], output0, output1, payout, fee)
      /\ Spend(in[1], in[2], output0, output1)
      /\ exits' = Put(exits, exit_tail, e)
      /\ exit_tail' = exit_tail + 1
      /\ queued_total' = queued_total + payout + fee
      /\ due' = Owe(payout, fee, recipient, relayer)
      /\ UNCHANGED <<entryVars, stranded, tvl>>
  BY DEF transact_queued
<1>2. UNCHANGED <<next_deposit_id, pending, pending_total>>
  BY <1>1 DEF entryVars
<1>3. TypeOK /\ now \in Nat
  BY DEF IndInv, TypeOK
<1>4. NotesAccounted'
  <2>1. UnspentValue' = tvl - pending_total - queued_total - (payout + fee)
    BY <1>1, <1>3, SpentNotes
  <2>2. tvl \in Int /\ pending_total \in Int /\ queued_total \in Int
    BY <1>3, BooksType
  <2>3. UnspentValue' = tvl' - pending_total' - queued_total'
    BY <1>1, <1>2, <2>1, <2>2
  <2>4. QED BY <2>3 DEF NotesAccounted, Notes
<1>5. /\ e \in Exit
      /\ e.recipient = recipient /\ e.relayer = relayer /\ e.payout = payout /\ e.fee = fee
  BY <1>3 DEF Exit
<1>6. /\ n \in Nat /\ exit_tail = n + 1
      /\ exits \in [DOMAIN exits -> Exit] /\ stranded \in [DOMAIN stranded -> Exit]
      /\ exit_tail \notin DOMAIN exits /\ exit_tail \notin DOMAIN stranded
      /\ ExitTypeOK /\ due \in [Accounts -> Int] /\ queued_total \in Int
  BY ExitFacts
<1>7. exit_tail' - 1 = n + 1
  BY <1>1, <1>6
<1> HIDE DEF e, n
<1>8. ASSUME NEW P
      PROVE  OwedIn(exits', stranded', n + 1, P) = OwedIn(exits, stranded, n, P) + ShareOf(e, P)
  <2>1. exits' = Put(exits, n + 1, e) /\ stranded' = stranded
    BY <1>1, <1>6
  <2>2. SumTo(Shares(Put(exits, n + 1, e), n + 1, P), n + 1)
          = SumTo(Shares(exits, n, P), n) + ShareOf(e, P)
    BY <1>5, <1>6, EnqueueShare
  <2>3. SumTo(Shares(stranded, n + 1, P), n + 1) = SumTo(Shares(stranded, n, P), n)
    BY <1>6, LongerShares
  <2>4. /\ SumTo(Shares(exits, n, P), n) \in Int /\ SumTo(Shares(stranded, n, P), n) \in Int
        /\ ShareOf(e, P) \in Int
    BY <1>5, <1>6, SharesType DEF ShareOf
  <2>5. QED BY <2>1, <2>2, <2>3, <2>4 DEF OwedIn
<1>9. /\ queued_total = OwedIn(exits, stranded, n, Accounts)
      /\ \A a \in Accounts : due[a] = OwedIn(exits, stranded, n, {a})
  BY <1>6, ExitBooksAre DEF Books, ExitBooks, n
<1>10. queued_total' = OwedIn(exits', stranded', n + 1, Accounts)
  <2>1. ShareOf(e, Accounts) = payout + fee
    BY <1>5 DEF ShareOf
  <2>2. QED BY <1>1, <1>6, <1>8, <1>9, <2>1
<1>11. ASSUME NEW a \in Accounts PROVE due'[a] = OwedIn(exits', stranded', n + 1, {a})
  <2> DEFINE u == IF a = recipient THEN payout ELSE 0
             v == IF a = relayer THEN fee ELSE 0
  <2>1. due'[a] = due[a] + u + v
    BY <1>1 DEF Owe
  <2>2. ShareOf(e, {a}) = u + v
    BY <1>5 DEF ShareOf
  <2>3. u \in Int /\ v \in Int /\ due[a] \in Int
    BY <1>6
  <2> HIDE DEF u, v
  <2>4. OwedIn(exits', stranded', n + 1, {a}) = due[a] + (u + v)
    BY <1>8, <1>9, <2>2, Zenon
  <2>5. QED BY <2>1, <2>3, <2>4
<1>12. ExitsAccounted' /\ PartiesOwed'
  <2>1. ExitBooks(exits', stranded', exit_tail' - 1, queued_total', due')
    BY <1>7, <1>10, <1>11 DEF ExitBooks
  <2>2. ExitTypeOK'
    BY DEF IndInv, TypeOK
  <2>3. QED BY <2>1, <2>2, ExitBooksAre
<1>13. QED BY <1>2, <1>4, <1>12, BookFrames DEF Books

\* claim moves parts of a stranded exit to the queue: what is owed stays the same.
LEMMA ClaimBooks ==
  ASSUME IndInv, IndInv', Books, NEW id, claim(id)
  PROVE  Books'
<1> DEFINE exit   == stranded[id]
           payout == IF exit.payout > 0 /\ can_receive(exit.recipient, exit.payout)
                     THEN exit.payout ELSE 0
           fee    == IF exit.fee > 0 /\ can_receive(exit.relayer, 0) THEN exit.fee ELSE 0
           rest   == [exit EXCEPT !.payout = @ - payout, !.fee = @ - fee]
           moved  == [exit EXCEPT !.payout = payout, !.fee = fee, !.queued_at = now]
           n      == exit_tail - 1
<1>1. /\ id \in DOMAIN stranded
      /\ stranded' = IF rest.payout = 0 /\ rest.fee = 0 THEN Drop(stranded, {id})
                     ELSE Put(stranded, id, rest)
      /\ exits' = Put(exits, exit_tail, moved)
      /\ exit_tail' = exit_tail + 1
      /\ UNCHANGED <<entryVars, queued_total, tvl, treeVars, due>>
  BY DEF claim, ghostVars
<1>2. UNCHANGED <<next_deposit_id, pending, pending_total, leaves, nullifiers>>
  BY <1>1 DEF entryVars, treeVars
<1>3. /\ n \in Nat /\ exit_tail = n + 1
      /\ exits \in [DOMAIN exits -> Exit] /\ stranded \in [DOMAIN stranded -> Exit]
      /\ DOMAIN stranded \subseteq 1 .. n
      /\ exit_tail \notin DOMAIN exits /\ exit_tail \notin DOMAIN stranded
      /\ ExitTypeOK
  BY ExitFacts
<1>4. exit \in Exit /\ exit.payout \in Nat /\ exit.fee \in Nat
  BY <1>1, <1>3 DEF Exit
<1>5. payout \in {0, exit.payout} /\ fee \in {0, exit.fee}
  BY Zenon
<1>6. id \in 1 .. n
  BY <1>1, <1>3, Zenon
<1>7. exit_tail' - 1 = n + 1
  BY <1>1, <1>3
<1> HIDE DEF exit, payout, fee, n
<1>8. /\ moved \in Exit /\ moved.payout = payout /\ moved.fee = fee
      /\ moved.recipient = exit.recipient /\ moved.relayer = exit.relayer
  <2>1. payout \in Nat /\ fee \in Nat /\ now \in Nat
    BY <1>4, <1>5 DEF IndInv, TypeOK
  <2>2. QED BY <1>4, <2>1 DEF Exit
<1>9. /\ rest \in Exit /\ rest.payout = exit.payout - payout /\ rest.fee = exit.fee - fee
      /\ rest.recipient = exit.recipient /\ rest.relayer = exit.relayer
  <2>1. exit.payout - payout \in Nat /\ exit.fee - fee \in Nat
    BY <1>4, <1>5
  <2>2. QED BY <1>4, <2>1 DEF Exit
<1> HIDE DEF moved, rest
<1>10. ASSUME NEW P
       PROVE  /\ ShareOf(exit, P) = ShareOf(moved, P) + ShareOf(rest, P)
              /\ ShareOf(exit, P) \in Int /\ ShareOf(moved, P) \in Int
              /\ ShareOf(rest, P) \in Int
              /\ rest.payout = 0 /\ rest.fee = 0 => ShareOf(rest, P) = 0
  <2>1. payout \in Int /\ fee \in Int /\ exit.payout \in Int /\ exit.fee \in Int
    BY <1>4, <1>5
  <2>2. QED BY <1>8, <1>9, <2>1 DEF ShareOf
<1>11. ASSUME NEW P
       PROVE  OwedIn(exits', stranded', n + 1, P) = OwedIn(exits, stranded, n, P)
  <2> DEFINE X == SumTo(Shares(exits, n, P), n)
             Y == SumTo(Shares(stranded, n, P), n)
  <2>1. X \in Int /\ Y \in Int
    BY <1>3, SharesType
  <2>2. SumTo(Shares(exits', n + 1, P), n + 1) = X + ShareOf(moved, P)
    <3>1. exits' = Put(exits, n + 1, moved)
      BY <1>1, <1>3
    <3>2. QED BY <1>3, <1>8, <3>1, EnqueueShare
  <2>3. SumTo(Shares(stranded', n, P), n) = Y - ShareOf(exit, P) + ShareOf(rest, P)
    <3>1. CASE rest.payout = 0 /\ rest.fee = 0
      <4>1. stranded' = Drop(stranded, {id}) /\ ShareOf(rest, P) = 0
        BY <1>1, <1>10, <3>1
      <4>2. SumTo(Shares(Drop(stranded, {id}), n, P), n) = Y - ShareOf(stranded[id], P)
        BY <1>1, <1>3, <1>6, DropShare
      <4>3. QED BY <1>10, <2>1, <4>1, <4>2 DEF exit
    <3>2. CASE ~(rest.payout = 0 /\ rest.fee = 0)
      <4>1. stranded' = Put(stranded, id, rest)
        BY <1>1, <3>2
      <4>2. SumTo(Shares(Put(stranded, id, rest), n, P), n)
              = Y - ShareOf(stranded[id], P) + ShareOf(rest, P)
        BY <1>1, <1>3, <1>6, <1>9, PutShare
      <4>3. QED BY <4>1, <4>2 DEF exit
    <3>3. QED BY <3>1, <3>2
  <2>4. SumTo(Shares(stranded', n + 1, P), n + 1) = SumTo(Shares(stranded', n, P), n)
    <3>1. stranded' \in [DOMAIN stranded' -> Exit]
      BY Zenon DEF IndInv, TypeOK, ExitTypeOK
    <3>2. DOMAIN stranded' \subseteq DOMAIN stranded
      BY <1>1 DEF Put, Drop
    <3>3. n + 1 \notin DOMAIN stranded'
      BY <1>3, <3>2
    <3>4. QED BY <1>3, <3>1, <3>3, LongerShares
  <2> HIDE DEF X, Y
  <2>5. OwedIn(exits, stranded, n, P) = X + Y
    BY DEF OwedIn, X, Y
  <2>6. OwedIn(exits', stranded', n + 1, P)
          = (X + ShareOf(moved, P)) + (Y - ShareOf(exit, P) + ShareOf(rest, P))
    BY <2>2, <2>3, <2>4 DEF OwedIn
  <2>7. QED BY <1>10, <2>1, <2>5, <2>6
<1>12. ExitBooks(exits, stranded, n, queued_total, due)
  BY <1>3, ExitBooksAre DEF Books, n
<1>13. ExitBooks(exits', stranded', n + 1, queued_total', due')
  BY <1>1, <1>11, <1>12 DEF ExitBooks
<1>14. ExitsAccounted' /\ PartiesOwed'
  <2>1. ExitTypeOK'
    BY DEF IndInv, TypeOK
  <2>2. QED BY <1>7, <1>13, <2>1, ExitBooksAre
<1>15. QED BY <1>1, <1>2, <1>14, BookFrames DEF Books, NotesAccounted, Notes

\* release takes what it pays off the TVL and off what is owed, and no notes.
LEMMA ReleaseBooks ==
  ASSUME IndInv, IndInv', Books, NEW max \in Nat, release(max)
  PROVE  Books'
<1> DEFINE end == ReleaseLoop(max)
<1>1. /\ exits' = end.exits /\ stranded' = end.stranded
      /\ queued_total' = end.queued /\ tvl' = end.tvl /\ due' = end.due
      /\ UNCHANGED <<entryVars, exit_tail, treeVars>>
  BY Zenon DEF release
<1>2. UNCHANGED <<next_deposit_id, pending, pending_total, leaves, nullifiers>>
  BY <1>1 DEF entryVars, treeVars
<1>3. TypeOK /\ ExitTypeOK /\ ExitTypeOK'
  BY Zenon DEF IndInv, TypeOK
<1>4. LoopBooks(ReleaseStart)
  <2>1. ExitBooks(exits, stranded, exit_tail - 1, queued_total, due)
    BY <1>3, ExitBooksAre DEF Books
  <2>2. QED BY <2>1 DEF LoopBooks, ReleaseStart
<1>5. LoopBooks(end) /\ LoopInv(end)
  BY <1>3, <1>4, ReleaseStartInv, ReleaseLoopBooks, ReleaseLoopInv
<1> HIDE DEF end
<1>6. ExitsAccounted' /\ PartiesOwed'
  <2>1. ExitBooks(exits', stranded', exit_tail' - 1, queued_total', due')
    BY <1>1, <1>5 DEF LoopBooks
  <2>2. QED BY <1>3, <2>1, ExitBooksAre
<1>7. NotesAccounted'
  <2> DEFINE t == end.tvl
             q == end.queued
  <2>1. t - q = tvl - queued_total
    BY <1>5 DEF LoopBooks
  <2>2. t \in Int /\ q \in Int
    BY <1>5, Zenon DEF LoopInv
  <2>3. tvl \in Int /\ queued_total \in Int /\ pending_total \in Int
    BY <1>3, BooksType
  <2>4. tvl' = t /\ queued_total' = q /\ pending_total' = pending_total
    BY <1>1, <1>2
  <2> HIDE DEF t, q
  <2>5. tvl - pending_total - queued_total = t - pending_total - q
    BY <2>1, <2>2, <2>3
  <2>6. UnspentValue = tvl - pending_total - queued_total
    BY DEF Books, NotesAccounted, Notes
  <2>7. UnspentValue' = UnspentValue
    BY <1>2, BookFrames
  <2>8. QED BY <2>4, <2>5, <2>6, <2>7 DEF NotesAccounted, Notes
<1>8. QED BY <1>2, <1>6, <1>7, BookFrames DEF Books

----------------------------------------------------------------------------
\* The books balance when the vault is created ...
LEMMA InitBooks == Init => Books
<1> SUFFICES ASSUME Init PROVE Books
  OBVIOUS
<1>1. /\ next_deposit_id - 1 = 0 /\ exit_tail - 1 = 0 /\ leaves = <<>>
      /\ DOMAIN pending = {} /\ pending_total = 0 /\ queued_total = 0 /\ tvl = 0
      /\ due = [a \in Accounts |-> 0]
  BY DEF Init
<1>2. \A f : SumTo(f, 0) = 0
  BY SumToDef
<1>3. PendingSplit /\ PendingAccounted
  BY <1>1, <1>2 DEF PendingSplit, PendingAccounted, PendingValue
<1>4. ExitsAccounted /\ PartiesOwed
  BY <1>1, <1>2 DEF ExitsAccounted, PartiesOwed, OwedValue
<1>5. NotesAccounted
  <2>1. Len(leaves) = 0
    BY <1>1
  <2>2. QED BY <1>1, <1>2, <2>1 DEF NotesAccounted, Notes, UnspentValue
<1>6. QED BY <1>3, <1>4, <1>5 DEF Books

\* ... and after every step.
LEMMA NextBooks == IndInv /\ IndInv' /\ Books /\ [Next]_vars => Books'
<1> SUFFICES ASSUME IndInv, IndInv', Books, [Next]_vars PROVE Books'
  OBVIOUS
<1> USE DEF entryVars, exitVars, treeVars, ghostVars
<1>1. TypeOK
  BY DEF IndInv
<1>2. CASE Entry
  <2>1. ASSUME NEW d \in Depositors, NEW amount \in Amounts, NEW output0 \in Outputs,
               NEW deadline \in Deadlines, output0 =< amount,
               shield(d, amount, output0, amount - output0, deadline)
        PROVE  Books'
    <3>1. amount \in Nat \ {0} /\ output0 \in Nat
      BY ConstantAssumptions
    <3>2. amount - output0 \in Nat
      BY <2>1, <3>1
    <3>3. QED BY <1>1, <2>1, <3>1, <3>2, ShieldBooks
  <2>2. ASSUME NEW id \in DepositIds, attest(id) PROVE Books'
    BY <2>2, QuietBooks DEF attest
  <2>3. ASSUME NEW id \in DepositIds, NEW reason \in Reasons, flag(id, reason)
        PROVE  Books'
    BY <1>1, <2>3, FlagBooks
  <2>4. ASSUME NEW id \in DepositIds, unflag(id) PROVE Books'
    BY <1>1, <2>4, FlagBooks
  <2>5. ASSUME NEW ids \in SUBSET DepositIds, admit(ids) PROVE Books'
    BY <1>1, <2>5, AdmitBooks
  <2>6. ASSUME NEW id \in DepositIds, cancel(id) PROVE Books'
    BY <1>1, <2>6, ReturnBooks DEF cancel
  <2>7. ASSUME NEW id \in DepositIds, refund(id) PROVE Books'
    BY <1>1, <2>7, ReturnBooks DEF refund
  <2>8. QED BY <1>2, <2>1, <2>2, <2>3, <2>4, <2>5, <2>6, <2>7 DEF Entry
<1>3. CASE Exits
  <2>1. ASSUME Transactions PROVE Books'
    <3>1. PICK in \in Spendable, payout \in Payouts, fee \in Fees, output0 \in Outputs,
               recipient \in Accounts, relayer \in Relayers :
            LET output1 == InputValue(in[1]) + InputValue(in[2]) - payout - fee - output0
            IN /\ output1 >= 0
               /\ \/ transact_settled(in[1], in[2], output0, output1, payout, fee,
                                      recipient, relayer)
                  \/ transact_queued(in[1], in[2], output0, output1, payout, fee,
                                     recipient, relayer)
      BY <2>1 DEF Transactions
    <3> DEFINE output1 == InputValue(in[1]) + InputValue(in[2]) - payout - fee - output0
    <3>2. /\ output1 >= 0
          /\ \/ transact_settled(in[1], in[2], output0, output1, payout, fee,
                                 recipient, relayer)
             \/ transact_queued(in[1], in[2], output0, output1, payout, fee,
                                recipient, relayer)
      BY <3>1
    <3>3. payout \in Nat /\ fee \in Nat /\ output0 \in Nat /\ relayer \in Accounts
      BY ConstantAssumptions
    <3>4. ASSUME NEW i \in Inputs PROVE InputValue(i) \in Nat
      <4>1. leaves \in Seq(Nat)
        BY Zenon DEF IndInv, TypeOK, TreeTypeOK
      <4>2. QED BY <4>1 DEF Inputs, InputValue
    <3>5. in[1] \in Inputs /\ in[2] \in Inputs
      BY DEF Spendable
    <3>6. InputValue(in[1]) \in Nat /\ InputValue(in[2]) \in Nat
      BY <3>4, <3>5
    <3>7. output1 \in Nat
      BY <3>2, <3>3, <3>6
    <3> HIDE DEF output1
    <3>8. QED BY <1>1, <3>2, <3>3, <3>7, SettledBooks, QueuedBooks
  <2>2. ASSUME NEW max \in ReleaseMax, release(max) PROVE Books'
    <3>1. max \in Nat
      BY ConstantAssumptions
    <3>2. QED BY <2>2, <3>1, ReleaseBooks
  <2>3. ASSUME NEW id \in DOMAIN stranded, claim(id) PROVE Books'
    BY <2>3, ClaimBooks
  <2>4. QED BY <1>3, <2>1, <2>2, <2>3 DEF Exits
<1>4. CASE Guardian
  <2>1. UNCHANGED <<entryVars, exitVars, tvl, treeVars, due>>
    BY <1>4 DEF Guardian, set_pause, halt, resume, set_limits, apply_limits, cancel_limits,
                limitsUnchanged
  <2>2. QED BY <2>1, QuietBooks
<1>5. CASE Environment
  <2>1. UNCHANGED <<entryVars, exitVars, tvl, treeVars, due>>
    BY <1>5 DEF Environment, tick, set_account, set_reserve, authorize_vault, claw_back
  <2>2. QED BY <2>1, QuietBooks
<1>6. CASE UNCHANGED vars
  <2>1. UNCHANGED <<entryVars, exitVars, tvl, treeVars, due>>
    BY <1>6 DEF vars
  <2>2. QED BY <2>1, QuietBooks
<1>7. QED BY <1>2, <1>3, <1>4, <1>5, <1>6 DEF Next

----------------------------------------------------------------------------
\* The vault's books balance in every state it can reach, together.
THEOREM BooksKept == Spec => []Books
<1>1. Init => Books
  BY InitBooks
<1>2. IndInv /\ IndInv' /\ Books /\ [Next]_vars => Books'
  BY NextBooks
<1>3. QED BY <1>1, <1>2, Invariance, PTL DEF Spec

\* pending_total is the sum of the pending deposits for any amounts and any order
\* of shields, admissions, cancellations and refunds.
THEOREM PendingSumKept == Spec => []PendingAccounted
<1>1. Books => PendingAccounted
  BY DEF Books
<1>2. QED BY <1>1, BooksKept, PTL

\* queued_total is what the queued and stranded exits owe, through any number of
\* part payments, strandings and claims.
THEOREM ExitSumKept == Spec => []ExitsAccounted
<1>1. Books => ExitsAccounted
  BY DEF Books
<1>2. QED BY <1>1, BooksKept, PTL

\* Every party is owed exactly what the exits naming it promised and have not paid.
THEOREM PartiesPaidOnce == Spec => []PartiesOwed
<1>1. Books => PartiesOwed
  BY DEF Books
<1>2. QED BY <1>1, BooksKept, PTL

\* No entry point creates or loses value: the TVL is the pending deposits, the
\* exits still owed and the unspent notes.
THEOREM ValueKept == Spec => []ValueConserved
<1>1. IndInv /\ Books => ValueConserved
  <2> SUFFICES ASSUME IndInv, Books PROVE ValueConserved
    OBVIOUS
  <2>1. tvl \in Int /\ pending_total \in Int /\ queued_total \in Int
    BY BooksType DEF IndInv
  <2>2. /\ pending_total = PendingValue /\ queued_total = OwedValue
        /\ UnspentValue = tvl - pending_total - queued_total
    BY DEF Books, PendingAccounted, ExitsAccounted, NotesAccounted, Notes
  <2>3. tvl = pending_total + queued_total + (tvl - pending_total - queued_total)
    BY <2>1
  <2>4. QED BY <2>2, <2>3 DEF ValueConserved
<1>2. QED BY <1>1, Invariance, BooksKept, PTL

----------------------------------------------------------------------------
(***************************************************************************)
(* The vault implements the queue of deposits: each of its steps is a step *)
(* of that queue, or one that the queue does not see.                      *)
(***************************************************************************)

\* A pending deposit as the services see it.
View(d) == [eligible_at |-> d.created_at + d.delay,
            flag |-> d.flag, flagged_at |-> d.flagged_at]

LEMMA PendingViewIs ==
  /\ PendingView = [id \in DOMAIN pending |-> View(pending[id])]
  /\ PendingView' = [id \in DOMAIN pending' |-> View(pending'[id])]
BY DEF PendingView, View

LEMMA FlagView ==
  ASSUME NEW d, NEW g, NEW u
  PROVE  [View(d) EXCEPT !.flag = g, !.flagged_at = u]
           = [eligible_at |-> d.created_at + d.delay, flag |-> g, flagged_at |-> u]
<1> DEFINE e == d.created_at + d.delay
           R == [eligible_at : {e}, flag : {d.flag, g}, flagged_at : {d.flagged_at, u}]
           w == [View(d) EXCEPT !.flag = g, !.flagged_at = u]
<1>1. View(d) \in R
  BY DEF View
<1>2. w \in R /\ w.eligible_at = e /\ w.flag = g /\ w.flagged_at = u
  <2> HIDE DEF e
  <2> QED BY <1>1
<1> HIDE DEF w, e
<1>3. w = [eligible_at |-> e, flag |-> g, flagged_at |-> u]
  BY <1>2
<1>4. QED BY <1>3 DEF w, e

\* The queue counts the deposits of an admission as the vault does.
LEMMA SameCount ==
  ASSUME NEW S
  PROVE  Queue!Cardinality(S) = Cardinality(S)
BY Zenon DEF Queue!Cardinality, Cardinality

\* Pairs of leaves add up.
LEMMA Pairs ==
  ASSUME NEW n \in Nat, NEW k \in Nat
  PROVE  (n + 2 * k) \div 2 = (n \div 2) + k
OBVIOUS

\* Appending the leaves of k pairs inserts k pairs.
LEMMA Inserts ==
  ASSUME TypeOK, NEW values, values \in Seq(Nat), NEW k \in Nat, Len(values) = 2 * k,
         append(values)
  PROVE  (Len(leaves) \div 2)' = (Len(leaves) \div 2) + k
<1>1. Len(leaves') = Len(leaves) + Len(values)
  BY AppendType
<1>2. Len(leaves) \in Nat
  BY DEF TypeOK, TreeTypeOK
<1>3. (Len(leaves) + 2 * k) \div 2 = (Len(leaves) \div 2) + k
  BY <1>2, Pairs
<1>4. QED BY <1>1, <1>3

\* What a step leaves alone, the queue sees unchanged.
LEMMA QuietQueue ==
  ASSUME UNCHANGED <<now, next_deposit_id, attested_up_to, pending, leaves>>
  PROVE  UNCHANGED Queue!depositVars
BY PendingViewIs DEF Queue!depositVars

\* shield queues a deposit with one of the two delays.
LEMMA ShieldQueue ==
  ASSUME next_deposit_id =< MaxDeposits, NEW d, NEW amount, NEW output0, NEW output1,
         NEW deadline, shield(d, amount, output0, output1, deadline)
  PROVE  Queue!DepositsNext
<1> DEFINE deposit == [depositor |-> d, amount |-> amount,
                       output0 |-> output0, output1 |-> output1,
                       created_at |-> now, delay |-> delay(amount),
                       flag |-> 0, flagged_at |-> 0]
           n == next_deposit_id
<1>1. /\ pending' = Put(pending, n, deposit)
      /\ n' = n + 1
      /\ UNCHANGED <<now, attested_up_to, treeVars>>
  BY DEF shield
<1>2. delay(amount) \in {DelaySmall, DelayLarge}
  BY DEF delay
<1>3. View(deposit) = [eligible_at |-> now + delay(amount), flag |-> 0, flagged_at |-> 0]
  BY DEF View
<1> HIDE DEF deposit, n
<1>4. PendingView' = [i \in DOMAIN PendingView \cup {n} |->
                        IF i = n
                        THEN [eligible_at |-> now + delay(amount), flag |-> 0, flagged_at |-> 0]
                        ELSE PendingView[i]]
  <2>1. DOMAIN PendingView = DOMAIN pending
    BY PendingViewIs
  <2>2. pending' = [i \in DOMAIN pending \cup {n} |-> IF i = n THEN deposit ELSE pending[i]]
    BY <1>1 DEF Put
  <2>3. DOMAIN pending' = DOMAIN pending \cup {n}
    BY <2>2
  <2>4. \A i \in DOMAIN pending \cup {n} :
          View(pending'[i]) = IF i = n THEN View(deposit) ELSE PendingView[i]
    BY <2>2, PendingViewIs
  <2>5. QED BY <1>3, <2>1, <2>3, <2>4, PendingViewIs
<1>5. Queue!shield(delay(amount))
  BY <1>1, <1>4 DEF Queue!shield, treeVars, n
<1>6. QED BY <1>2, <1>5 DEF Queue!DepositsNext

\* flag and unflag change what the queue sees of a deposit, and nothing else.
LEMMA FlagQueue ==
  ASSUME NEW id, NEW reason \in Reasons, TypeOK, flag(id, reason)
  PROVE  Queue!DepositsNext
<1>1. /\ reason # 0
      /\ id \in DOMAIN pending
      /\ pending' = [pending EXCEPT ![id].flag = reason,
                       ![id].flagged_at = IF pending[id].flag = 0 THEN now ELSE @]
      /\ UNCHANGED <<now, next_deposit_id, attested_up_to, treeVars>>
  BY DEF flag
<1>2. pending \in [DOMAIN pending -> PendingDeposit]
  BY Zenon DEF TypeOK, EntryTypeOK
<1> DEFINE at == IF pending[id].flag = 0 THEN now ELSE pending[id].flagged_at
<1>3. /\ DOMAIN pending' = DOMAIN pending
      /\ pending'[id] = [pending[id] EXCEPT !.flag = reason, !.flagged_at = at]
      /\ \A i \in DOMAIN pending : i # id => pending'[i] = pending[i]
  BY <1>1
<1>4. pending[id] \in PendingDeposit
  BY <1>1, <1>2
<1>5. /\ pending'[id].created_at = pending[id].created_at
      /\ pending'[id].delay = pending[id].delay
      /\ pending'[id].flag = reason /\ pending'[id].flagged_at = at
  BY <1>3, <1>4 DEF PendingDeposit
<1> HIDE DEF at
<1>6. View(pending'[id]) = [View(pending[id]) EXCEPT !.flag = reason, !.flagged_at = at]
  <2>1. View(pending'[id]) = [eligible_at |-> pending[id].created_at + pending[id].delay,
                              flag |-> reason, flagged_at |-> at]
    BY <1>5 DEF View
  <2>2. QED BY <2>1, FlagView
<1>7. /\ DOMAIN PendingView = DOMAIN pending
      /\ \A i \in DOMAIN pending : PendingView[i] = View(pending[i])
      /\ PendingView[id].flag = pending[id].flag
      /\ PendingView[id].flagged_at = pending[id].flagged_at
  BY <1>1, PendingViewIs DEF View
<1>8. PendingView' = [PendingView EXCEPT ![id] = View(pending'[id])]
  BY <1>1, <1>3, <1>7, PendingViewIs
<1>9. PendingView' = [PendingView EXCEPT ![id].flag = reason,
                        ![id].flagged_at = IF PendingView[id].flag = 0 THEN now ELSE @]
  BY <1>1, <1>6, <1>7, <1>8 DEF at
<1>10. Queue!flag(id, reason)
  BY <1>1, <1>7, <1>9 DEF Queue!flag, treeVars
<1>11. QED BY <1>1, <1>7, <1>10 DEF Queue!DepositsNext

LEMMA UnflagQueue ==
  ASSUME NEW id, TypeOK, unflag(id)
  PROVE  Queue!DepositsNext
<1>1. /\ id \in DOMAIN pending
      /\ pending[id].flag # 0
      /\ pending' = [pending EXCEPT ![id].flag = 0, ![id].flagged_at = 0]
      /\ UNCHANGED <<now, next_deposit_id, attested_up_to, treeVars>>
  BY DEF unflag
<1>2. pending \in [DOMAIN pending -> PendingDeposit]
  BY Zenon DEF TypeOK, EntryTypeOK
<1>3. /\ DOMAIN pending' = DOMAIN pending
      /\ pending'[id] = [pending[id] EXCEPT !.flag = 0, !.flagged_at = 0]
      /\ \A i \in DOMAIN pending : i # id => pending'[i] = pending[i]
  BY <1>1
<1>4. pending[id] \in PendingDeposit
  BY <1>1, <1>2
<1>5. /\ pending'[id].created_at = pending[id].created_at
      /\ pending'[id].delay = pending[id].delay
      /\ pending'[id].flag = 0 /\ pending'[id].flagged_at = 0
  BY <1>3, <1>4 DEF PendingDeposit
<1>6. View(pending'[id]) = [View(pending[id]) EXCEPT !.flag = 0, !.flagged_at = 0]
  <2>1. View(pending'[id]) = [eligible_at |-> pending[id].created_at + pending[id].delay,
                              flag |-> 0, flagged_at |-> 0]
    BY <1>5 DEF View
  <2>2. QED BY <2>1, FlagView
<1>7. /\ DOMAIN PendingView = DOMAIN pending
      /\ \A i \in DOMAIN pending : PendingView[i] = View(pending[i])
      /\ PendingView[id].flag = pending[id].flag
  BY <1>1, PendingViewIs DEF View
<1>8. PendingView' = [PendingView EXCEPT ![id] = View(pending'[id])]
  BY <1>1, <1>3, <1>7, PendingViewIs
<1>9. PendingView' = [PendingView EXCEPT ![id].flag = 0, ![id].flagged_at = 0]
  BY <1>1, <1>6, <1>7, <1>8
<1>10. Queue!unflag(id)
  BY <1>1, <1>7, <1>9 DEF Queue!unflag, treeVars
<1>11. QED BY <1>1, <1>7, <1>10 DEF Queue!DepositsNext

\* Deposits that leave the vault's queue leave the queue the services see.
LEMMA DropView ==
  ASSUME NEW ids, pending' = Drop(pending, ids)
  PROVE  PendingView' = Queue!Without(PendingView, ids)
<1>1. pending' = [i \in DOMAIN pending \ ids |-> pending[i]]
  BY DEF Drop
<1>2. DOMAIN pending' = DOMAIN pending \ ids /\ DOMAIN PendingView = DOMAIN pending
  BY <1>1, PendingViewIs
<1>3. \A i \in DOMAIN pending \ ids : View(pending'[i]) = PendingView[i]
  BY <1>1, PendingViewIs
<1>4. QED BY <1>2, <1>3, PendingViewIs DEF Queue!Without

\* The longer of two delays is no shorter than the stored one, so what the vault
\* admits the queue allows.
LEMMA AdmitQueue ==
  ASSUME NEW ids, TypeOK, admit(ids)
  PROVE  Queue!DepositsNext
<1> DEFINE admitted == {id \in ids : Eligible(id)}
<1>1. /\ admitted # {}
      /\ append(OutputValues(admitted))
      /\ pending' = Drop(pending, admitted)
      /\ UNCHANGED <<now, next_deposit_id, attested_up_to>>
  BY DEF admit
<1>2. admitted \subseteq DOMAIN pending
  BY DEF Eligible
<1>3. DOMAIN PendingView = DOMAIN pending
  BY PendingViewIs
<1>4. ASSUME NEW id \in admitted
      PROVE  /\ PendingView[id].flag = 0 /\ id =< attested_up_to
             /\ now >= PendingView[id].eligible_at
  <2>1. /\ id \in DOMAIN pending /\ pending[id].flag = 0 /\ id =< attested_up_to
        /\ now >= pending[id].created_at + admission_delay(id)
    BY DEF Eligible
  <2>2. PendingView[id] = View(pending[id])
    BY <2>1, PendingViewIs
  <2>3. pending[id] \in PendingDeposit /\ now \in Nat
    BY <2>1 DEF TypeOK, EntryTypeOK
  <2>4. pending[id].created_at \in Nat /\ pending[id].delay \in Nat
    BY <2>3 DEF PendingDeposit
  <2>5. delay(pending[id].amount) \in Nat
    BY ConstantAssumptions DEF delay
  <2>6. admission_delay(id) \in Nat /\ admission_delay(id) >= pending[id].delay
    BY <2>4, <2>5 DEF admission_delay, Max2
  <2>7. now >= pending[id].created_at + pending[id].delay
    BY <2>1, <2>3, <2>4, <2>6
  <2>8. QED BY <2>1, <2>2, <2>7 DEF View
<1> HIDE DEF admitted
<1>5. admitted \subseteq Queue!Admissible
  BY <1>2, <1>3, <1>4 DEF Queue!Admissible
<1>6. (Len(leaves) \div 2)' = (Len(leaves) \div 2) + Cardinality(admitted)
  BY <1>1, <1>2, OutputValuesType, Inserts
<1>7. PendingView' = Queue!Without(PendingView, admitted)
  BY <1>1, DropView
<1>8. Queue!admit(admitted)
  BY <1>1, <1>5, <1>6, <1>7, SameCount DEF Queue!admit
<1>9. QED BY <1>2, <1>3, <1>8 DEF Queue!DepositsNext

\* A deposit goes back by cancel or by refund.
LEMMA ReturnQueue ==
  ASSUME NEW id, cancel(id) \/ refund(id)
  PROVE  Queue!DepositsNext
<1>1. /\ id \in DOMAIN pending
      /\ pending' = Drop(pending, {id})
      /\ UNCHANGED <<now, next_deposit_id, attested_up_to, treeVars>>
  BY DEF cancel, refund, return_deposit
<1>2. PendingView' = Queue!Without(PendingView, {id})
  BY <1>1, DropView
<1>3. id \in DOMAIN PendingView
  BY <1>1, PendingViewIs
<1>4. Queue!cancel(id)
  BY <1>1, <1>2, <1>3 DEF Queue!cancel, treeVars
<1>5. QED BY <1>3, <1>4 DEF Queue!DepositsNext

\* A transaction of the pool inserts one pair.
LEMMA TransactQueue ==
  ASSUME TypeOK, NEW in0, NEW in1, NEW output0 \in Nat, NEW output1 \in Nat,
         Spend(in0, in1, output0, output1),
         UNCHANGED <<now, next_deposit_id, attested_up_to, pending>>
  PROVE  Queue!DepositsNext
<1>1. append(<<output0, output1>>)
  BY DEF Spend
<1>2. <<output0, output1>> \in Seq(Nat) /\ Len(<<output0, output1>>) = 2 * 1
  OBVIOUS
<1>3. (Len(leaves) \div 2)' = (Len(leaves) \div 2) + 1
  BY <1>1, <1>2, Inserts
<1>4. PendingView' = PendingView
  BY PendingViewIs
<1>5. Queue!transact
  BY <1>3, <1>4 DEF Queue!transact
<1>6. QED BY <1>5 DEF Queue!DepositsNext

----------------------------------------------------------------------------
\* A new vault has an empty queue ...
LEMMA InitQueue == Init => Queue!DepositsInit
<1> SUFFICES ASSUME Init PROVE Queue!DepositsInit
  OBVIOUS
<1>1. /\ now = 0 /\ next_deposit_id = 1 /\ attested_up_to = 0
      /\ pending = [i \in {} |-> 0] /\ leaves = <<>>
  BY DEF Init
<1>2. Len(leaves) \div 2 = 0
  <2>1. Len(leaves) = 0
    BY <1>1
  <2>2. 0 \div 2 = 0
    OBVIOUS
  <2>3. QED BY <2>1, <2>2
<1>3. PendingView = [i \in {} |-> 0]
  <2>1. DOMAIN pending = {}
    BY <1>1
  <2>2. QED BY <2>1, PendingViewIs
<1>4. QED BY <1>1, <1>2, <1>3 DEF Queue!DepositsInit

\* ... and every step of the vault is one of the queue, or one it does not see.
LEMMA NextQueue == IndInv /\ [Next]_vars => [Queue!DepositsNext]_Queue!depositVars
<1> SUFFICES ASSUME IndInv, [Next]_vars
             PROVE  Queue!DepositsNext \/ UNCHANGED Queue!depositVars
  OBVIOUS
<1> USE DEF entryVars, treeVars
<1>1. TypeOK
  BY DEF IndInv
<1>2. CASE Entry
  <2>1. ASSUME next_deposit_id =< MaxDeposits, NEW d \in Depositors, NEW amount \in Amounts,
               NEW output0 \in Outputs, NEW deadline \in Deadlines,
               shield(d, amount, output0, amount - output0, deadline)
        PROVE  Queue!DepositsNext
    BY <2>1, ShieldQueue
  <2>2. ASSUME NEW id \in DepositIds, attest(id) PROVE Queue!DepositsNext
    <3>1. /\ id > attested_up_to /\ id < next_deposit_id /\ attested_up_to' = id
          /\ UNCHANGED <<now, next_deposit_id, pending, leaves>>
      BY <2>2 DEF attest
    <3>2. Queue!attest(id)
      BY <3>1, PendingViewIs DEF Queue!attest
    <3>3. id \in Queue!Ids
      BY DEF DepositIds, Queue!Ids
    <3>4. QED BY <3>2, <3>3 DEF Queue!DepositsNext
  <2>3. ASSUME NEW id \in DepositIds, NEW reason \in Reasons, flag(id, reason)
        PROVE  Queue!DepositsNext
    BY <1>1, <2>3, FlagQueue
  <2>4. ASSUME NEW id \in DepositIds, unflag(id) PROVE Queue!DepositsNext
    BY <1>1, <2>4, UnflagQueue
  <2>5. ASSUME NEW ids \in SUBSET DepositIds, admit(ids) PROVE Queue!DepositsNext
    BY <1>1, <2>5, AdmitQueue
  <2>6. ASSUME NEW id \in DepositIds, cancel(id) \/ refund(id) PROVE Queue!DepositsNext
    BY <2>6, ReturnQueue
  <2>7. QED BY <1>2, <2>1, <2>2, <2>3, <2>4, <2>5, <2>6 DEF Entry
<1>3. CASE Exits
  <2>1. ASSUME Transactions PROVE Queue!DepositsNext
    <3>1. PICK in \in Spendable, payout \in Payouts, fee \in Fees, output0 \in Outputs,
               recipient \in Accounts, relayer \in Relayers :
            LET output1 == InputValue(in[1]) + InputValue(in[2]) - payout - fee - output0
            IN /\ output1 >= 0
               /\ \/ transact_settled(in[1], in[2], output0, output1, payout, fee,
                                      recipient, relayer)
                  \/ transact_queued(in[1], in[2], output0, output1, payout, fee,
                                     recipient, relayer)
      BY <2>1 DEF Transactions
    <3> DEFINE output1 == InputValue(in[1]) + InputValue(in[2]) - payout - fee - output0
    <3>2. /\ output1 >= 0
          /\ Spend(in[1], in[2], output0, output1)
          /\ UNCHANGED <<now, next_deposit_id, attested_up_to, pending>>
      BY <3>1 DEF transact_settled, transact_queued
    <3>3. payout \in Nat /\ fee \in Nat /\ output0 \in Nat
      BY ConstantAssumptions
    <3>4. ASSUME NEW i \in Inputs PROVE InputValue(i) \in Nat
      <4>1. leaves \in Seq(Nat)
        BY <1>1, Zenon DEF TypeOK, TreeTypeOK
      <4>2. QED BY <4>1 DEF Inputs, InputValue
    <3>5. in[1] \in Inputs /\ in[2] \in Inputs
      BY DEF Spendable
    <3>6. InputValue(in[1]) \in Nat /\ InputValue(in[2]) \in Nat
      BY <3>4, <3>5
    <3>7. output1 \in Nat
      BY <3>2, <3>3, <3>6
    <3> HIDE DEF output1
    <3>8. QED BY <1>1, <3>2, <3>3, <3>7, TransactQueue
  <2>2. ASSUME NEW max \in ReleaseMax, release(max) PROVE UNCHANGED Queue!depositVars
    <3>1. UNCHANGED <<now, entryVars, treeVars>>
      BY <2>2, Zenon DEF release
    <3>2. QED BY <3>1, QuietQueue
  <2>3. ASSUME NEW id \in DOMAIN stranded, claim(id) PROVE UNCHANGED Queue!depositVars
    <3>1. UNCHANGED <<now, entryVars, treeVars>>
      BY <2>3, Zenon DEF claim
    <3>2. QED BY <3>1, QuietQueue
  <2>4. QED BY <1>3, <2>1, <2>2, <2>3 DEF Exits
<1>4. CASE Guardian
  <2>1. UNCHANGED <<now, entryVars, treeVars>>
    BY <1>4 DEF Guardian, set_pause, halt, resume, set_limits, apply_limits, cancel_limits,
                limitsUnchanged
  <2>2. QED BY <2>1, QuietQueue
<1>5. CASE Environment
  <2>1. CASE tick
    <3>1. now < MaxTime /\ now' = now + 1 /\ UNCHANGED <<entryVars, treeVars>>
      BY <2>1 DEF tick
    <3>2. Queue!passTime
      BY <3>1, PendingViewIs DEF Queue!passTime
    <3>3. QED BY <3>2 DEF Queue!DepositsNext
  <2>2. CASE ~tick
    <3>1. UNCHANGED <<now, entryVars, treeVars>>
      BY <1>5, <2>2 DEF Environment, set_account, set_reserve, authorize_vault, claw_back
    <3>2. QED BY <3>1, QuietQueue
  <2>3. QED BY <2>1, <2>2
<1>6. CASE UNCHANGED vars
  <2>1. UNCHANGED <<now, entryVars, treeVars>>
    BY <1>6 DEF vars
  <2>2. QED BY <2>1, QuietQueue
<1>7. QED BY <1>2, <1>3, <1>4, <1>5, <1>6 DEF Next

\* The services that follow the vault may rely on the queue of deposits alone: the
\* vault admits no deposit unattested, flagged or before the delay it was made with,
\* under any limits the guardian sets afterwards.
THEOREM VaultIsQueue == Spec => QueueImplemented
<1>1. Init => Queue!DepositsInit
  BY InitQueue
<1>2. IndInv /\ [Next]_vars => [Queue!DepositsNext]_Queue!depositVars
  BY NextQueue
<1>3. QED BY <1>1, <1>2, Invariance, PTL DEF Spec, QueueImplemented, Queue!DepositsSpec

============================================================================
