---------------------------- MODULE AlertProofs ----------------------------
(***************************************************************************)
(* Theorems about the alerter's queue, for every number of channels,       *)
(* alerts, copies kept in memory and faults: no copy leaves the outbox or   *)
(* the memory but as the queue means to, and a Critical that one channel    *)
(* refused reaches or waits for every other one.                            *)
(***************************************************************************)
EXTENDS Alert, SumsProofs

\* A finite set in sequence: its elements and no other.
LEMMA SetInSequence ==
  ASSUME NEW S, NEW cs \in SUBSET S, IsFiniteSet(cs)
  PROVE  SetToSeq(cs) \in Seq(S) /\ ToSet(SetToSeq(cs)) = cs
<1>1. Cardinality(cs) \in Nat
  BY FS_CardinalityType
<1>2. PICK n \in Nat : ExistsBijection(1 .. n, cs)
  BY FS_CardinalityType
<1>3. n = Cardinality(cs)
  BY <1>2, FS_CountingElements
<1>4. PICK f : f \in Bijection(1 .. Cardinality(cs), cs)
  BY <1>2, <1>3 DEF ExistsBijection
<1>5. f \in [1 .. Cardinality(cs) -> cs] /\ IsInjective(f)
  BY <1>4 DEF Bijection, Injection
<1>6. SetToSeq(cs) \in [1 .. Cardinality(cs) -> cs] /\ IsInjective(SetToSeq(cs))
  BY <1>5 DEF SetToSeq
<1> DEFINE q == SetToSeq(cs)
<1> HIDE DEF q
<1>7. q \in Injection(1 .. Cardinality(cs), cs)
  BY <1>6 DEF Injection, q
<1>8. Cardinality(1 .. Cardinality(cs)) = Cardinality(cs)
  BY <1>1, FS_Interval, SMT
<1>9. q \in Surjection(1 .. Cardinality(cs), cs)
  BY <1>7, <1>8, FS_Injection
<1>10. \A c \in cs : \E k \in 1 .. Cardinality(cs) : q[k] = c
  BY <1>9 DEF Surjection
<1>11. q \in [1 .. Cardinality(cs) -> cs]
  BY <1>6 DEF q
<1>12. q \in Seq(S)
  BY <1>11, <1>1
<1>13. ToSet(q) = cs
  BY <1>10, <1>11 DEF ToSet
<1> QED
  BY <1>12, <1>13 DEF q

\* The copies of s that a full queue drops before the one at position i.
Before(s, i) == {j \in DOMAIN s : s[j].rank > s[i].rank \/ (s[j].rank = s[i].rank /\ j < i)}

\* The severity of a copy is a number.
LEMMA RankOfCopy ==
  ASSUME NEW s \in Seq(Copies), NEW i \in DOMAIN s
  PROVE  s[i] \in Copies /\ s[i].rank \in 0 .. 2 /\ i \in Nat /\ i \in 1 .. Len(s)
<1>1. Len(s) \in Nat /\ DOMAIN s = 1 .. Len(s)
  OBVIOUS
<1>2. s[i] \in Copies
  OBVIOUS
<1>3. s[i].rank \in 0 .. 2
  BY <1>2 DEF Copies, Info
<1> QED
  BY <1>1, <1>2, <1>3

\* Of two copies one is dropped before the other, and what comes before the
\* former comes before the latter.
LEMMA DropOrder ==
  ASSUME NEW s \in Seq(Copies), NEW i \in DOMAIN s, NEW h \in DOMAIN s, i \in Before(s, h)
  PROVE  /\ Before(s, i) \in SUBSET Before(s, h)
         /\ i \notin Before(s, i)
         /\ Cardinality(Before(s, i)) < Cardinality(Before(s, h))
<1>1. Len(s) \in Nat /\ DOMAIN s = 1 .. Len(s)
  OBVIOUS
<1>2. \A j \in DOMAIN s : s[j].rank \in Int /\ j \in Int
  BY RankOfCopy
<1>3. s[i].rank > s[h].rank \/ (s[i].rank = s[h].rank /\ i < h)
  BY DEF Before
<1>4. ASSUME NEW j \in DOMAIN s, s[j].rank > s[i].rank \/ (s[j].rank = s[i].rank /\ j < i)
      PROVE  s[j].rank > s[h].rank \/ (s[j].rank = s[h].rank /\ j < h)
  <2>1. s[j].rank \in Int /\ j \in Int /\ s[i].rank \in Int /\ i \in Int /\ s[h].rank \in Int /\ h \in Int
    BY <1>2
  <2> QED
    BY <2>1, <1>3, <1>4
<1>5. Before(s, i) \in SUBSET Before(s, h)
  BY <1>4 DEF Before
<1>6. i \notin Before(s, i)
  BY <1>2 DEF Before
<1>7. Before(s, h) \in SUBSET (1 .. Len(s))
  BY <1>1 DEF Before
<1>8. IsFiniteSet(Before(s, h))
  BY <1>1, <1>7, PositionsFinite
<1> QED
  BY <1>5, <1>6, <1>8, FewerElements

\* A queue keeps MaxPending copies and no more.
LEMMA KeptFit ==
  ASSUME NEW s \in Seq(Copies)
  PROVE  Cardinality(DOMAIN s \ Doomed(s)) =< MaxPending
<1> DEFINE L == Len(s)
           K == DOMAIN s \ Doomed(s)
           T == L - MaxPending .. L - 1
           count == [i \in K |-> Cardinality(Before(s, i))]
<1>1. L \in Nat /\ DOMAIN s = 1 .. L /\ MaxPending \in Nat
  BY AlertAssumptions
<1> HIDE DEF L
<1>2. ASSUME NEW i \in DOMAIN s
      PROVE  /\ IsFiniteSet(Before(s, i)) /\ Cardinality(Before(s, i)) \in Nat
             /\ Cardinality(Before(s, i)) < L
             /\ i \in K => Cardinality(Before(s, i)) >= L - MaxPending
  <2>1. Before(s, i) \in SUBSET (1 .. L) /\ i \in 1 .. L
    BY <1>1 DEF Before
  <2>2. i \notin Before(s, i)
    BY RankOfCopy DEF Before
  <2>3. IsFiniteSet(1 .. L) /\ Cardinality(1 .. L) = L
    BY <1>1, FS_Interval, SMT
  <2>4. IsFiniteSet(Before(s, i)) /\ Cardinality(Before(s, i)) < L
    BY <2>1, <2>2, <2>3, FewerElements
  <2>5. Cardinality(Before(s, i)) \in Nat
    BY <2>4, FS_CardinalityType
  <2>6. i \in K => ~(Cardinality(Before(s, i)) < Len(s) - MaxPending)
    BY DEF Doomed, Before
  <2> QED
    BY <2>4, <2>5, <2>6, <1>1 DEF L
<1>3. K \in SUBSET (1 .. L)
  BY <1>1
<1>4. IsFiniteSet(K) /\ Cardinality(K) \in Nat /\ Cardinality(K) =< L
  <2> HIDE DEF K
  <2> QED
    BY <1>1, <1>3, PositionsFinite
<1>5. CASE L =< MaxPending
  <2> HIDE DEF K
  <2>1. Cardinality(K) =< MaxPending
    BY <1>1, <1>4, <1>5
  <2> QED
    BY <2>1 DEF K
<1>6. CASE L > MaxPending
  <2>1. count \in [K -> T]
    <3>1. \A i \in K : Cardinality(Before(s, i)) \in T
      BY <1>1, <1>2, <1>6
    <3> QED
      BY <3>1
  <2>2. ASSUME NEW i \in K, NEW h \in K, count[i] = count[h]
        PROVE  i = h
    <3>1. Cardinality(Before(s, i)) = Cardinality(Before(s, h))
      BY <2>2
    <3>2. i \in DOMAIN s /\ h \in DOMAIN s
      OBVIOUS
    <3>3. s[i].rank \in Int /\ s[h].rank \in Int /\ i \in Int /\ h \in Int
      BY <3>2, RankOfCopy
    <3>4. ASSUME i # h
          PROVE  i \in Before(s, h) \/ h \in Before(s, i)
      BY <3>2, <3>3, <3>4 DEF Before
    <3>5. Cardinality(Before(s, i)) \in Nat /\ Cardinality(Before(s, h)) \in Nat
      BY <3>2, <1>2
    <3> QED
      BY <3>1, <3>2, <3>4, <3>5, DropOrder
  <2>3. count \in Injection(K, T)
    BY <2>1, <2>2 DEF Injection, IsInjective
  <2>4. IsFiniteSet(T) /\ Cardinality(T) = MaxPending
    <3>1. PICK a \in Int, b \in Int : a = L - MaxPending /\ b = L - 1
      BY <1>1
    <3>2. IsFiniteSet(a .. b) /\ Cardinality(a .. b) = IF a > b THEN 0 ELSE b - a + 1
      BY FS_Interval, Zenon
    <3>3. (IF a > b THEN 0 ELSE b - a + 1) = MaxPending
      BY <3>1, <1>1
    <3> QED
      BY <3>1, <3>2, <3>3
  <2>5. Cardinality(K) =< Cardinality(T)
    <3> HIDE DEF K, T, count
    <3> QED
      BY <2>3, <2>4, FS_Injection
  <2> QED
    BY <2>4, <2>5
<1> QED
  BY <1>1, <1>5, <1>6

\* The copies that stay are at most as severe as the copies that are dropped
\* are low: no alert is dropped while a less severe one stays.
LEMMA KeptSevere ==
  ASSUME NEW s \in Seq(Copies), NEW i \in Doomed(s), NEW h \in DOMAIN s \ Doomed(s)
  PROVE  s[h].rank =< s[i].rank
<1>1. i \in DOMAIN s /\ h \in DOMAIN s
  BY DEF Doomed
<1>2. Len(s) \in Nat /\ DOMAIN s = 1 .. Len(s) /\ MaxPending \in Nat
  BY AlertAssumptions
<1>3. s[i].rank \in Int /\ s[h].rank \in Int
  BY <1>1, RankOfCopy
<1>4. Cardinality(Before(s, i)) < Len(s) - MaxPending
  BY DEF Doomed, Before
<1>5. ~(Cardinality(Before(s, h)) < Len(s) - MaxPending)
  BY DEF Doomed, Before
<1>6. ASSUME s[h].rank > s[i].rank
      PROVE  FALSE
  <2>1. h \in Before(s, i)
    BY <1>1, <1>6 DEF Before
  <2>2. Cardinality(Before(s, h)) < Cardinality(Before(s, i))
    BY <1>1, <2>1, DropOrder
  <2>3. Before(s, i) \in SUBSET (1 .. Len(s)) /\ Before(s, h) \in SUBSET (1 .. Len(s))
    BY <1>2 DEF Before
  <2>4. Cardinality(Before(s, h)) \in Nat /\ Cardinality(Before(s, i)) \in Nat
    BY <1>2, <2>3, PositionsFinite
  <2> QED
    BY <1>2, <1>4, <1>5, <2>2, <2>4
<1> QED
  BY <1>3, <1>6

\* putMemory: what was in memory and what is added stays or is dropped, at most
\* MaxPending copies stay, and none that stays is less severe than one dropped.
LEMMA MemoryBounded ==
  ASSUME NEW s \in Seq(Copies), NEW cs \in SUBSET Copies, IsFiniteSet(cs)
  PROVE  /\ putMemory(s, cs).kept \in Seq(Copies)
         /\ Len(putMemory(s, cs).kept) =< MaxPending
         /\ ToSet(putMemory(s, cs).kept) \cup putMemory(s, cs).dropped = ToSet(s) \cup cs
         /\ \A c \in ToSet(putMemory(s, cs).kept), e \in putMemory(s, cs).dropped : c.rank =< e.rank
<1> DEFINE q == SetToSeq(cs)
           all == s \o q
           K == DOMAIN all \ Doomed(all)
<1>1. q \in Seq(Copies) /\ ToSet(q) = cs
  BY SetInSequence
<1>2. putMemory(s, cs) = [kept |-> Only(all, K), dropped |-> {all[i] : i \in Doomed(all)}]
  BY DEF putMemory
<1> HIDE DEF q
<1>3. all \in Seq(Copies)
  BY <1>1
<1>4. ToSet(all) = ToSet(s) \cup ToSet(q)
  <2>1. Len(s) \in Nat /\ Len(q) \in Nat /\ DOMAIN s = 1 .. Len(s) /\ DOMAIN q = 1 .. Len(q)
    BY <1>1
  <2>2. Len(all) = Len(s) + Len(q) /\ DOMAIN all = 1 .. Len(s) + Len(q)
    BY <1>1, <2>1
  <2>3. \A i \in 1 .. Len(s) + Len(q) : all[i] = IF i =< Len(s) THEN s[i] ELSE q[i - Len(s)]
    BY <1>1, <2>1
  <2> HIDE DEF all
  <2>4. ASSUME NEW c \in ToSet(all)
        PROVE  c \in ToSet(s) \cup ToSet(q)
    <3>1. PICK i \in 1 .. Len(s) + Len(q) : c = all[i]
      BY <2>2 DEF ToSet
    <3>2. CASE i =< Len(s)
      <4>1. i \in 1 .. Len(s) /\ c = s[i]
        BY <3>1, <3>2, <2>1, <2>3
      <4> QED
        BY <4>1, <2>1 DEF ToSet
    <3>3. CASE ~(i =< Len(s))
      <4>1. i - Len(s) \in 1 .. Len(q) /\ c = q[i - Len(s)]
        BY <3>1, <3>3, <2>1, <2>3
      <4> QED
        BY <4>1, <2>1 DEF ToSet
    <3> QED
      BY <3>2, <3>3
  <2>5. ASSUME NEW c \in ToSet(s)
        PROVE  c \in ToSet(all)
    <3>1. PICK i \in 1 .. Len(s) : c = s[i]
      BY <2>1 DEF ToSet
    <3>2. i \in 1 .. Len(s) + Len(q) /\ all[i] = c
      BY <3>1, <2>1, <2>3
    <3> QED
      BY <3>2, <2>2 DEF ToSet
  <2>6. ASSUME NEW c \in ToSet(q)
        PROVE  c \in ToSet(all)
    <3>1. PICK i \in 1 .. Len(q) : c = q[i]
      BY <2>1 DEF ToSet
    <3>2. /\ i + Len(s) \in 1 .. Len(s) + Len(q) /\ ~(i + Len(s) =< Len(s))
          /\ i + Len(s) - Len(s) = i
      BY <3>1, <2>1
    <3>3. all[i + Len(s)] = c
      BY <3>1, <3>2, <2>3
    <3> QED
      BY <3>2, <3>3, <2>2 DEF ToSet
  <2> QED
    BY <2>4, <2>5, <2>6
<1> HIDE DEF all
<1>5. K \in SUBSET (DOMAIN all) /\ Doomed(all) \in SUBSET (DOMAIN all)
  BY DEF Doomed
<1>6. /\ Only(all, K) \in Seq(Copies) /\ Len(Only(all, K)) = Cardinality(K)
      /\ ToSet(Only(all, K)) = {all[i] : i \in K}
  BY <1>3, <1>5, OnlyProperties DEF ToSet
<1>7. Cardinality(K) =< MaxPending
  BY <1>3, KeptFit
<1>8. \A h \in K : \A i \in Doomed(all) : all[h].rank =< all[i].rank
  BY <1>3, KeptSevere
<1>9. {all[i] : i \in K} \cup {all[i] : i \in Doomed(all)} = ToSet(all)
  BY <1>5 DEF ToSet
<1> HIDE DEF K
<1>10. putMemory(s, cs).kept = Only(all, K) /\ putMemory(s, cs).dropped = {all[i] : i \in Doomed(all)}
  BY <1>2
<1>11. ToSet(putMemory(s, cs).kept) = {all[i] : i \in K}
  BY <1>6, <1>10
<1>12. ToSet(putMemory(s, cs).kept) \cup putMemory(s, cs).dropped = ToSet(s) \cup cs
  BY <1>1, <1>4, <1>9, <1>10, <1>11
<1>13. \A c \in ToSet(putMemory(s, cs).kept), e \in putMemory(s, cs).dropped : c.rank =< e.rank
  BY <1>8, <1>10, <1>11
<1>14. putMemory(s, cs).kept \in Seq(Copies) /\ Len(putMemory(s, cs).kept) =< MaxPending
  BY <1>6, <1>7, <1>10
<1> QED
  BY <1>12, <1>13, <1>14

\* Forget: the copies named leave the memory and no other.
LEMMA ForgetNamed ==
  ASSUME NEW s \in Seq(Copies), NEW cs, Len(s) =< MaxPending
  PROVE  /\ Forget(s, cs) \in Seq(Copies) /\ Len(Forget(s, cs)) =< MaxPending
         /\ ToSet(Forget(s, cs)) = ToSet(s) \ cs
<1> DEFINE K == {i \in DOMAIN s : s[i] \notin cs}
<1>1. K \in SUBSET (DOMAIN s) /\ DOMAIN s = 1 .. Len(s) /\ Len(s) \in Nat /\ MaxPending \in Nat
  BY AlertAssumptions
<1>2. {s[i] : i \in K} = ToSet(s) \ cs
  BY DEF ToSet
<1>3. Forget(s, cs) = Only(s, K)
  BY DEF Forget
<1> HIDE DEF K
<1>4. Cardinality(K) \in Nat /\ Cardinality(K) =< Len(s)
  BY <1>1, PositionsFinite
<1>5. /\ Only(s, K) \in Seq(Copies) /\ Len(Only(s, K)) = Cardinality(K)
      /\ ToSet(Only(s, K)) = {s[i] : i \in K}
  BY <1>1, OnlyProperties DEF ToSet
<1> QED
  BY <1>1, <1>2, <1>3, <1>4, <1>5

----------------------------------------------------------------------------
\* The inductive invariant: the types, and that refused Criticals are told.
Due == [copy : Copies, mem : BOOLEAN]

AlertInv ==
  /\ TypeOK
  /\ puts \in 0 .. MaxAlerts
  /\ pending \in Seq(Copies)
  /\ todo \in [Channels -> SUBSET Due]
  /\ RefusalTold

Same(c, d) == d.n = c.n /\ d.by = c.by /\ d.ch = c.ch

\* The copy c for channel o of what the record e says was refused.
Told(e, o, c) == c.n = e.n /\ c.by = e.ch /\ c.ch = o

RefusedCritical(e) == e.rank = 0 /\ e.by = None /\ e.how = "refused"

MeantEnds == {"taken", "refused", "old", "removed"}

\* What a step may do to the copies.
StoredKept == \A c \in stored : (~\E d \in stored' : Same(c, d)) => \E e \in ended' : Same(c, e) /\ e.how \in MeantEnds
MemoryKept == \A c \in ToSet(pending) : \E d \in ToSet(pending') \cup ended' : Same(c, d)
FullLeast == \A e \in ended' \ ended : e.how = "full" => \A c \in ToSet(pending') : c.rank =< e.rank
NewTold ==
  \A e \in ended' \ ended : RefusedCritical(e) =>
    \A o \in configured' \ {e.ch} : \E c \in stored' \cup ToSet(pending') \cup ended' : Told(e, o, c)

QueueEffect ==
  /\ ended \subseteq ended'
  /\ stored' \in SUBSET Copies
  /\ pending' \in Seq(Copies) /\ Len(pending') =< MaxPending
  /\ StoredKept /\ MemoryKept /\ FullLeast /\ NewTold

\* The elements of a sequence of copies are copies.
LEMMA MemoryTyped ==
  ASSUME NEW s \in Seq(Copies)
  PROVE  ToSet(s) \in SUBSET Copies
BY DEF ToSet

\* The record of an end: what is added is about the copies named.
LEMMA EndRecords ==
  ASSUME NEW cs, NEW how, NEW e
  PROVE  /\ ended \subseteq End(cs, how)
         /\ e \in End(cs, how) /\ e \notin ended =>
              \E c \in cs : Same(c, e) /\ e.rank = c.rank /\ e.how = how
         /\ \A c \in cs : \E d \in End(cs, how) : Same(c, d) /\ d.how = how
<1> DEFINE record(c) == [n |-> c.n, rank |-> c.rank, by |-> c.by, ch |-> c.ch, how |-> how]
<1>1. End(cs, how) = ended \cup {record(c) : c \in cs}
  BY DEF End
<1>2. ASSUME NEW c
      PROVE  Same(c, record(c)) /\ record(c).rank = c.rank /\ record(c).how = how
  BY DEF Same
<1> HIDE DEF record
<1>3. ASSUME e \in End(cs, how), e \notin ended
      PROVE  \E c \in cs : Same(c, e) /\ e.rank = c.rank /\ e.how = how
  <2>1. PICK c \in cs : e = record(c)
    BY <1>1, <1>3
  <2> QED
    BY <2>1, <1>2
<1>4. ASSUME NEW c \in cs
      PROVE  \E d \in End(cs, how) : Same(c, d) /\ d.how = how
  BY <1>1, <1>2
<1> QED
  BY <1>1, <1>3, <1>4

\* A step that has these effects keeps what was told of every refused Critical.
LEMMA EffectKeepsTold ==
  ASSUME RefusalTold, QueueEffect, configured' \subseteq configured
  PROVE  RefusalTold'
<1>1. ASSUME NEW e \in ended', RefusedCritical(e), NEW o \in configured' \ {e.ch}
      PROVE  \E c \in stored' \cup ToSet(pending') \cup ended' : Told(e, o, c)
  <2>1. CASE e \in ended
    <3>1. PICK c \in stored \cup ToSet(pending) \cup ended : Told(e, o, c)
      BY <1>1, <2>1 DEF RefusalTold, Waiting, Told, RefusedCritical
    <3>2. CASE c \in stored
      BY <3>1, <3>2 DEF QueueEffect, StoredKept, Same, Told
    <3>3. CASE c \in ToSet(pending)
      BY <3>1, <3>3 DEF QueueEffect, MemoryKept, Same, Told
    <3>4. CASE c \in ended
      BY <3>1, <3>4 DEF QueueEffect
    <3> QED
      BY <3>1, <3>2, <3>3, <3>4
  <2>2. CASE e \notin ended
    BY <1>1, <2>2 DEF QueueEffect, NewTold
  <2> QED
    BY <2>1, <2>2
<1> QED
  BY <1>1 DEF RefusalTold, Waiting, Told, RefusedCritical

\* A step that changes no copy has these effects.
LEMMA QuietEffect ==
  ASSUME AlertInv, UNCHANGED <<stored, pending, ended>>
  PROVE  QueueEffect
<1>1. pending \in Seq(Copies) /\ Len(pending) =< MaxPending /\ stored \in SUBSET Copies
  BY DEF AlertInv, TypeOK
<1> QED
  BY <1>1 DEF QueueEffect, StoredKept, MemoryKept, FullLeast, NewTold, Same

\* Putting copies: stored, or in memory while the store fails.
LEMMA PutEffect ==
  ASSUME AlertInv, NEW cs \in SUBSET Copies, IsFiniteSet(cs), putTo(cs)
  PROVE  QueueEffect
<1>0. pending \in Seq(Copies) /\ Len(pending) =< MaxPending /\ stored \in SUBSET Copies
  BY DEF AlertInv, TypeOK
<1>1. CASE storeAdd(cs) /\ UNCHANGED <<pending, faults, ended>>
  <2>1. stored' = stored \cup cs
    BY <1>1 DEF storeAdd
  <2> QED
    BY <1>0, <1>1, <2>1 DEF QueueEffect, StoredKept, MemoryKept, FullLeast, NewTold, Same
<1>2. CASE /\ storeAdd(cs) \/ UNCHANGED stored
           /\ pending' = putMemory(pending, cs).kept
           /\ ended' = End(putMemory(pending, cs).dropped, "full")
  <2> DEFINE kept == putMemory(pending, cs).kept
             dropped == putMemory(pending, cs).dropped
  <2>1. /\ kept \in Seq(Copies) /\ Len(kept) =< MaxPending
        /\ ToSet(kept) \cup dropped = ToSet(pending) \cup cs
        /\ \A c \in ToSet(kept), e \in dropped : c.rank =< e.rank
    BY <1>0, MemoryBounded
  <2> HIDE DEF kept, dropped
  <2>2. pending' = kept /\ ended' = End(dropped, "full")
    BY <1>2 DEF kept, dropped
  <2>3. ended \subseteq ended'
    BY <2>2, EndRecords
  <2>4. stored \subseteq stored' /\ stored' \in SUBSET Copies
    BY <1>0, <1>2 DEF storeAdd
  <2>5. StoredKept
    BY <2>4 DEF StoredKept, Same
  <2>6. MemoryKept
    <3> SUFFICES ASSUME NEW c \in ToSet(pending)
                 PROVE  \E d \in ToSet(pending') \cup ended' : Same(c, d)
      BY DEF MemoryKept
    <3>1. c \in ToSet(kept) \/ c \in dropped
      BY <2>1
    <3>2. CASE c \in ToSet(kept)
      BY <3>2, <2>2 DEF Same
    <3>3. CASE c \in dropped
      BY <3>3, <2>2, EndRecords
    <3> QED
      BY <3>1, <3>2, <3>3
  <2>7. ASSUME NEW e \in ended' \ ended
        PROVE  e.how = "full" /\ \E c \in dropped : e.rank = c.rank
    BY <2>2, EndRecords
  <2>8. FullLeast
    BY <2>1, <2>2, <2>7 DEF FullLeast
  <2>9. NewTold
    BY <2>7 DEF NewTold, RefusedCritical
  <2> QED
    BY <2>1, <2>2, <2>3, <2>4, <2>5, <2>6, <2>8, <2>9 DEF QueueEffect
<1> QED
  BY <1>1, <1>2 DEF putTo

\* Copies that are over are recorded as such before they leave.
LEMMA DoneEffect ==
  ASSUME AlertInv, NEW ds \in SUBSET Due, NEW extra, done(ds, extra),
         NEW how \in {"taken", "refused", "old"}, ended' = End({d.copy : d \in ds}, how),
         how = "refused" => ~\E d \in ds : d.copy.rank = 0 /\ d.copy.by = None
  PROVE  QueueEffect
<1> DEFINE cs == {d.copy : d \in ds}
<1>0. pending \in Seq(Copies) /\ Len(pending) =< MaxPending /\ stored \in SUBSET Copies
  BY DEF AlertInv, TypeOK
<1>1. InMemory(ds) \in SUBSET cs /\ InStore(ds) \in SUBSET cs
  BY DEF InMemory, InStore
<1>2. /\ pending' \in Seq(Copies) /\ Len(pending') =< MaxPending
      /\ ToSet(pending') = ToSet(pending) \ InMemory(ds)
  BY <1>0, ForgetNamed DEF done
<1>3. stored' = stored \ InStore(ds) \/ stored' = stored
  BY DEF done
<1>r. how = "refused" => ~\E c \in cs : c.rank = 0 /\ c.by = None
  OBVIOUS
<1>4. ended' = End(cs, how)
  OBVIOUS
<1> HIDE DEF cs
<1>5. ended \subseteq ended' /\ \A c \in cs : \E d \in ended' : Same(c, d) /\ d.how = how
  BY <1>4, EndRecords
<1>6. StoredKept
  <2> SUFFICES ASSUME NEW c \in stored, ~\E d \in stored' : Same(c, d)
               PROVE  \E e \in ended' : Same(c, e) /\ e.how \in MeantEnds
    BY DEF StoredKept
  <2>1. c \in cs
    BY <1>1, <1>3 DEF Same
  <2> QED
    BY <2>1, <1>5 DEF MeantEnds
<1>7. MemoryKept
  <2> SUFFICES ASSUME NEW c \in ToSet(pending)
               PROVE  \E d \in ToSet(pending') \cup ended' : Same(c, d)
    BY DEF MemoryKept
  <2>1. CASE c \in cs
    BY <2>1, <1>5
  <2>2. CASE c \notin cs
    BY <2>2, <1>1, <1>2 DEF Same
  <2> QED
    BY <2>1, <2>2
<1>8. ASSUME NEW e \in ended' \ ended
      PROVE  e.how = how /\ \E c \in cs : Same(c, e) /\ e.rank = c.rank
  BY <1>4, EndRecords
<1>9. FullLeast
  BY <1>8 DEF FullLeast
<1>10. NewTold
  BY <1>8, <1>r DEF NewTold, RefusedCritical, Same
<1> QED
  BY <1>0, <1>2, <1>3, <1>5, <1>6, <1>7, <1>9, <1>10 DEF QueueEffect

\* A finite set of channels has finitely many copies of one alert.
LEMMA CopiesFinite ==
  ASSUME NEW S \in SUBSET Channels, NEW n, NEW r, NEW by,
         NEW T, T = {Copy(n, r, by, ch) : ch \in S}
  PROVE  IsFiniteSet(T)
<1> DEFINE f == [ch \in S |-> Copy(n, r, by, ch)]
<1>1. IsFiniteSet(S)
  BY AlertAssumptions, FS_Subset
<1>2. f \in Surjection(S, T)
  BY DEF Surjection
<1> HIDE DEF f
<1> QED
  BY <1>1, <1>2, FS_Surjection

\* The copies that say who refused an alert.
LEMMA OthersTyped ==
  ASSUME AlertInv, NEW c \in Copies
  PROVE  /\ Others(c) \in SUBSET Copies /\ IsFiniteSet(Others(c))
         /\ \A o \in configured \ {c.ch} : \E x \in Others(c) : x.n = c.n /\ x.by = c.ch /\ x.ch = o
<1>1. configured \ {c.ch} \in SUBSET Channels
  BY DEF AlertInv, TypeOK
<1>2. IsFiniteSet(Others(c))
  <2>1. PICK S, n, r, by : S = configured \ {c.ch} /\ n = c.n /\ r = c.rank /\ by = c.ch
    BY <1>1
  <2>2. Others(c) = {Copy(n, r, by, o) : o \in S}
    BY <2>1 DEF Others
  <2> QED
    BY <1>1, <2>1, <2>2, CopiesFinite
<1>3. c.n \in 1 .. MaxAlerts /\ c.rank \in 0 .. Info /\ c.ch \in Channels
  BY DEF Copies
<1>4. \A o \in Channels : Copy(c.n, c.rank, c.ch, o) \in Copies
  BY <1>3 DEF Copy, Copies
<1>5. Others(c) \in SUBSET Copies
  BY <1>1, <1>4 DEF Others
<1>6. ASSUME NEW o \in configured \ {c.ch}
      PROVE  \E x \in Others(c) : x.n = c.n /\ x.by = c.ch /\ x.ch = o
  <2>1. Copy(c.n, c.rank, c.ch, o) \in Others(c)
    BY DEF Others
  <2> QED
    BY <2>1 DEF Copy
<1> QED
  BY <1>2, <1>5, <1>6

\* A refused Critical is with the others before its copy is dropped, also when
\* the store fails in between or answers no more.
LEMMA RerouteEffect ==
  ASSUME AlertInv, NEW d \in Due, reroute(d.copy, d), configured' = configured
  PROVE  QueueEffect
<1> DEFINE c == d.copy
           kept == putMemory(pending, Others(c)).kept
           dropped == putMemory(pending, Others(c)).dropped
<1>0. pending \in Seq(Copies) /\ Len(pending) =< MaxPending /\ stored \in SUBSET Copies
  BY DEF AlertInv, TypeOK
<1>c. c \in Copies
  BY DEF Due
<1>1. InMemory({d}) \in SUBSET {c} /\ InStore({d}) \in SUBSET {c}
  BY DEF InMemory, InStore
<1>2. /\ Others(c) \in SUBSET Copies /\ IsFiniteSet(Others(c))
      /\ \A o \in configured \ {c.ch} : \E x \in Others(c) : x.n = c.n /\ x.by = c.ch /\ x.ch = o
  BY <1>c, OthersTyped
<1>3. /\ kept \in Seq(Copies) /\ Len(kept) =< MaxPending
      /\ ToSet(kept) \cup dropped = ToSet(pending) \cup Others(c)
      /\ \A x \in ToSet(kept), y \in dropped : x.rank =< y.rank
  BY <1>0, <1>2, MemoryBounded
<1>4. \/ /\ stored' = (stored \ InStore({d})) \cup Others(c)
         /\ pending' = Forget(pending, InMemory({d}))
         /\ ended' = End({c}, "refused")
      \/ /\ \/ stored' = stored \ InStore({d})
            \/ stored' = (stored \ InStore({d})) \cup Others(c)
            \/ stored' = stored
         /\ pending' = Forget(kept, InMemory({d}))
         /\ ended' = End({c}, "refused") \cup End(dropped, "full")
  BY DEF reroute, storeReroute
<1> HIDE DEF kept, dropped
<1>5. /\ pending' \in Seq(Copies) /\ Len(pending') =< MaxPending
      /\ \/ ToSet(pending') = ToSet(pending) \ InMemory({d})
         \/ ToSet(pending') = ToSet(kept) \ InMemory({d})
  <2>1. CASE pending' = Forget(pending, InMemory({d}))
    BY <1>0, <2>1, ForgetNamed
  <2>2. CASE pending' = Forget(kept, InMemory({d}))
    BY <1>3, <2>2, ForgetNamed
  <2> QED
    BY <1>4, <2>1, <2>2
<1>6. stored' \in SUBSET Copies /\ stored \ {c} \subseteq stored'
  BY <1>0, <1>1, <1>2, <1>4
<1>7. ended \subseteq ended' /\ \E x \in ended' : Same(c, x) /\ x.how = "refused"
  <2>1. ended \subseteq End({c}, "refused") /\ \E x \in End({c}, "refused") : Same(c, x) /\ x.how = "refused"
    BY EndRecords
  <2>2. End({c}, "refused") \subseteq ended'
    BY <1>4
  <2> QED
    BY <2>1, <2>2
<1>8. StoredKept
  <2> SUFFICES ASSUME NEW x \in stored, ~\E y \in stored' : Same(x, y)
               PROVE  \E e \in ended' : Same(x, e) /\ e.how \in MeantEnds
    BY DEF StoredKept
  <2>1. x = c
    BY <1>6 DEF Same
  <2> QED
    BY <2>1, <1>7 DEF MeantEnds
<1>9. ASSUME NEW x \in ToSet(pending) \cup Others(c), x \in ToSet(pending) \/ x \notin stored'
      PROVE  \E y \in ToSet(pending') \cup ended' : Same(x, y)
  <2>1. CASE x = c
    BY <2>1, <1>7
  <2>2. CASE x # c /\ x \in ToSet(pending')
    BY <2>2 DEF Same
  <2>3. CASE x # c /\ x \notin ToSet(pending')
    <3>1. /\ pending' = Forget(kept, InMemory({d}))
          /\ ended' = End({c}, "refused") \cup End(dropped, "full")
      <4>1. ASSUME /\ stored' = (stored \ InStore({d})) \cup Others(c)
                   /\ pending' = Forget(pending, InMemory({d}))
            PROVE  FALSE
        <5>1. ToSet(pending') = ToSet(pending) \ InMemory({d})
          BY <4>1, <1>0, ForgetNamed
        <5> QED
          BY <4>1, <5>1, <1>1, <1>9, <2>3
      <4> QED
        BY <4>1, <1>4
    <3>2. ToSet(pending') = ToSet(kept) \ InMemory({d})
      BY <3>1, <1>3, ForgetNamed
    <3>3. x \in dropped
      BY <3>2, <2>3, <1>1, <1>3, <1>9
    <3>4. \E y \in End(dropped, "full") : Same(x, y)
      BY <3>3, EndRecords
    <3> QED
      BY <3>1, <3>4
  <2> QED
    BY <2>1, <2>2, <2>3
<1>10. MemoryKept
  BY <1>9 DEF MemoryKept
<1>11. ASSUME NEW e \in ended' \ ended
       PROVE  \/ Same(c, e) /\ e.how = "refused"
              \/ /\ e.how = "full" /\ \E y \in dropped : e.rank = y.rank
                 /\ ToSet(pending') \subseteq ToSet(kept)
  <2>1. CASE e \in End({c}, "refused")
    BY <2>1, EndRecords
  <2>2. CASE e \notin End({c}, "refused")
    <3>1. e \in End(dropped, "full") /\ pending' = Forget(kept, InMemory({d}))
      BY <2>2, <1>4
    <3>2. ToSet(pending') \subseteq ToSet(kept)
      BY <3>1, <1>3, ForgetNamed
    <3>3. e.how = "full" /\ \E y \in dropped : e.rank = y.rank
      BY <3>1, EndRecords
    <3> QED
      BY <3>2, <3>3
  <2> QED
    BY <2>1, <2>2
<1>12. FullLeast
  BY <1>3, <1>11 DEF FullLeast
<1>13. NewTold
  <2> SUFFICES ASSUME NEW e \in ended' \ ended, RefusedCritical(e), NEW o \in configured' \ {e.ch}
               PROVE  \E x \in stored' \cup ToSet(pending') \cup ended' : Told(e, o, x)
    BY DEF NewTold
  <2>1. Same(c, e)
    BY <1>11 DEF RefusedCritical
  <2>2. PICK x \in Others(c) : x.n = c.n /\ x.by = c.ch /\ x.ch = o
    BY <1>2, <2>1 DEF Same
  <2>3. Told(e, o, x)
    BY <2>1, <2>2 DEF Told, Same
  <2>4. CASE x \in stored'
    BY <2>3, <2>4
  <2>5. CASE x \notin stored'
    BY <1>9, <2>3, <2>5 DEF Told, Same
  <2> QED
    BY <2>4, <2>5
<1> QED
  BY <1>5, <1>6, <1>7, <1>8, <1>10, <1>12, <1>13 DEF QueueEffect

\* Only the waits of copies change: in memory as g says, in the store as the
\* copies of stored' do.
LEMMA WaitEffect ==
  ASSUME AlertInv, UNCHANGED ended,
         pending' \in Seq(Copies), Len(pending') = Len(pending),
         \A i \in 1 .. Len(pending) : Same(pending[i], pending'[i]),
         stored' \in SUBSET Copies,
         \A c \in stored : \E x \in stored' : Same(c, x)
  PROVE  QueueEffect
<1>0. pending \in Seq(Copies) /\ Len(pending) =< MaxPending /\ stored \in SUBSET Copies
  BY DEF AlertInv, TypeOK
<1>1. MemoryKept
  <2> SUFFICES ASSUME NEW c \in ToSet(pending)
               PROVE  \E x \in ToSet(pending') \cup ended' : Same(c, x)
    BY DEF MemoryKept
  <2>1. PICK i \in DOMAIN pending : c = pending[i]
    BY DEF ToSet
  <2>2. DOMAIN pending = 1 .. Len(pending) /\ DOMAIN pending' = 1 .. Len(pending)
    BY <1>0
  <2>3. pending'[i] \in ToSet(pending') /\ Same(c, pending'[i])
    BY <2>1, <2>2 DEF ToSet
  <2> QED
    BY <2>3
<1> QED
  BY <1>0, <1>1 DEF QueueEffect, StoredKept, FullLeast, NewTold

\* The due flags of the copies in memory, set to what g gives for each.
LEMMA WaitsInMemory ==
  ASSUME AlertInv, NEW g, pending' = [i \in DOMAIN pending |-> [pending[i] EXCEPT !.due = g[i]]],
         \A i \in DOMAIN pending : g[i] \in BOOLEAN
  PROVE  /\ pending' \in Seq(Copies) /\ Len(pending') = Len(pending)
         /\ \A i \in 1 .. Len(pending) : Same(pending[i], pending'[i])
<1>0. pending \in Seq(Copies) /\ DOMAIN pending = 1 .. Len(pending) /\ Len(pending) \in Nat
  BY DEF AlertInv
<1>1. ASSUME NEW i \in DOMAIN pending
      PROVE  pending'[i] \in Copies /\ Same(pending[i], pending'[i])
  <2>1. pending[i] \in Copies /\ g[i] \in BOOLEAN
    BY <1>0
  <2>2. pending'[i] = [pending[i] EXCEPT !.due = g[i]]
    OBVIOUS
  <2> QED
    BY <2>1, <2>2 DEF Copies, Same
<1>2. pending' \in [1 .. Len(pending) -> Copies]
  BY <1>0, <1>1
<1> QED
  BY <1>0, <1>1, <1>2

\* Copies put off stay where they are.
LEMMA RetryEffect ==
  ASSUME AlertInv, NEW ds \in SUBSET Due, NEW extra, retry(ds, extra), UNCHANGED ended
  PROVE  QueueEffect
<1>0. pending \in Seq(Copies) /\ stored \in SUBSET Copies
  BY DEF AlertInv, TypeOK
<1> DEFINE g == [i \in DOMAIN pending |-> pending[i].due /\ pending[i] \notin InMemory(ds)]
<1>1. \A i \in DOMAIN pending : g[i] \in BOOLEAN
  OBVIOUS
<1>2. pending' = [i \in DOMAIN pending |-> [pending[i] EXCEPT !.due = g[i]]]
  BY <1>0 DEF retry, Copies
<1> HIDE DEF g
<1>3. /\ pending' \in Seq(Copies) /\ Len(pending') = Len(pending)
      /\ \A i \in 1 .. Len(pending) : Same(pending[i], pending'[i])
  BY <1>1, <1>2, WaitsInMemory
<1>4. \A c \in stored : [c EXCEPT !.due = FALSE] \in Copies /\ Same(c, [c EXCEPT !.due = FALSE])
  BY <1>0 DEF Copies, Same
<1>5. \/ stored' = stored
      \/ stored' = (stored \ InStore(ds)) \cup {[c EXCEPT !.due = FALSE] : c \in InStore(ds) \cap stored}
  BY DEF retry
<1>6. stored' \in SUBSET Copies
  <2> SUFFICES ASSUME NEW x \in stored'
               PROVE  x \in Copies
    OBVIOUS
  <2>1. CASE x \in stored
    BY <1>0, <2>1
  <2>2. CASE x \notin stored
    <3>1. PICK c \in stored : x = [c EXCEPT !.due = FALSE]
      BY <1>5, <2>2
    <3> QED
      BY <3>1, <1>4
  <2> QED
    BY <2>1, <2>2
<1>7. ASSUME NEW c \in stored
      PROVE  \E x \in stored' : Same(c, x)
  <2>1. CASE c \in stored'
    BY <2>1 DEF Same
  <2>2. CASE c \notin stored'
    <3>1. [c EXCEPT !.due = FALSE] \in stored'
      BY <1>5, <2>2
    <3> QED
      BY <3>1, <1>4
  <2> QED
    BY <2>1, <2>2
<1> QED
  BY <1>3, <1>6, <1>7, WaitEffect

----------------------------------------------------------------------------
\* What the invariant says of everything but the copies.
Control ==
  /\ configured \subseteq Channels
  /\ last \subseteq open /\ open \subseteq Codes
  /\ puts \in 0 .. MaxAlerts
  /\ expired \subseteq 1 .. puts
  /\ todo \in [Channels -> SUBSET Due]
  /\ \A ch \in Channels : \A d \in todo[ch] : d.copy.ch = ch

\* A step's effect on the copies and on the rest.
StepOK == QueueEffect /\ Control' /\ configured' \subseteq configured

\* The invariant in these terms.
LEMMA InvControl ==
  ASSUME AlertInv
  PROVE  Control
BY DEF AlertInv, Control, TypeOK

\* A step with these effects keeps the invariant.
LEMMA StepKeepsInv ==
  ASSUME AlertInv, StepOK
  PROVE  AlertInv'
<1>1. RefusalTold'
  BY EffectKeepsTold DEF AlertInv, StepOK
<1>2. ToSet(pending') \in SUBSET Copies
  BY MemoryTyped DEF StepOK, QueueEffect
<1>3. \A ch \in Channels : \A d \in todo'[ch] : d.copy \in Copies
  BY DEF StepOK, Control, Due
<1> QED
  BY <1>1, <1>2, <1>3 DEF AlertInv, TypeOK, StepOK, QueueEffect, Control

\* The lane's list of copies loses some, or is emptied.
LEMMA PassTyped ==
  ASSUME Control, NEW ch \in Channels, NEW ds, Pass(ch, ds) \/ Rest(ch)
  PROVE  /\ todo' \in [Channels -> SUBSET Due]
         /\ \A o \in Channels : \A d \in todo'[o] : d.copy.ch = o
<1>1. todo \in [Channels -> SUBSET Due] /\ todo[ch] \in SUBSET Due
  BY DEF Control
<1>2. PICK left \in SUBSET todo[ch] : todo' = [todo EXCEPT ![ch] = left]
  BY <1>1 DEF Pass, Rest, Idle
<1>3. todo' \in [Channels -> SUBSET Due]
  BY <1>1, <1>2
<1>4. \A o \in Channels : todo'[o] \in SUBSET todo[o]
  BY <1>1, <1>2
<1> QED
  BY <1>3, <1>4 DEF Control

\* Putting an alert counts it and gives every channel a copy.
LEMMA PutOK ==
  ASSUME AlertInv, NEW r \in 0 .. Info, Put(r)
  PROVE  QueueEffect /\ puts' \in 0 .. MaxAlerts /\ expired \subseteq 1 .. puts'
<1>1. puts \in Nat /\ puts < MaxAlerts /\ puts' = puts + 1 /\ MaxAlerts \in Nat /\ expired \subseteq 1 .. puts
  BY AlertAssumptions DEF AlertInv, TypeOK, Put
<1>2. puts' \in 1 .. MaxAlerts
  BY <1>1
<1>3. expired \subseteq 1 .. puts'
  BY <1>1
<1>4. configured \in SUBSET Channels
  BY DEF AlertInv, TypeOK
<1>5. PICK n \in 1 .. MaxAlerts : n = puts'
  BY <1>2
<1>6. PICK cs : cs = {Copy(n, r, None, ch) : ch \in configured}
  OBVIOUS
<1>7. IsFiniteSet(cs)
  BY <1>4, <1>6, CopiesFinite
<1>8. \A ch \in Channels : Copy(n, r, None, ch) \in Copies
  BY DEF Copy, Copies
<1>9. cs \in SUBSET Copies
  BY <1>4, <1>6, <1>8
<1>10. putTo(cs)
  BY <1>5, <1>6 DEF Put
<1>11. QueueEffect
  BY <1>7, <1>9, <1>10, PutEffect
<1> QED
  BY <1>2, <1>3, <1>11

\* Raise.
LEMMA RaiseOK ==
  ASSUME AlertInv, NEW code \in Codes, Raise(code)
  PROVE  StepOK
<1>1. Control
  BY InvControl
<1>2. open' = open \cup {code} /\ UNCHANGED <<configured, lanes, todo, expired>>
  BY DEF Raise
<1>3. CASE code \in last
  <2>1. UNCHANGED <<last, puts, stored, pending, ended>>
    BY <1>3 DEF Raise
  <2>2. QueueEffect
    BY <2>1, QuietEffect
  <2> QED
    BY <1>1, <1>2, <2>1, <2>2 DEF StepOK, Control
<1>4. CASE code \notin last
  <2>1. last' = last \cup {code} /\ Put(rank(code))
    BY <1>4 DEF Raise
  <2>2. rank(code) \in 0 .. Info
    BY DEF rank, Info
  <2>3. QueueEffect /\ puts' \in 0 .. MaxAlerts /\ expired \subseteq 1 .. puts'
    BY <2>1, <2>2, PutOK
  <2> QED
    BY <1>1, <1>2, <2>1, <2>3 DEF StepOK, Control
<1> QED
  BY <1>3, <1>4

\* Clear.
LEMMA ClearOK ==
  ASSUME AlertInv, NEW code \in Codes, Clear(code)
  PROVE  StepOK
<1>1. Control
  BY InvControl
<1>2. open' = open \ {code} /\ last' = last \ {code} /\ UNCHANGED <<configured, lanes, todo, expired>>
  BY DEF Clear
<1>3. CASE code \notin open
  <2>1. UNCHANGED <<puts, stored, pending, ended>>
    BY <1>3 DEF Clear
  <2>2. QueueEffect
    BY <2>1, QuietEffect
  <2> QED
    BY <1>1, <1>2, <2>1, <2>2 DEF StepOK, Control
<1>4. CASE code \in open
  <2>1. Put(Info) /\ Info \in 0 .. Info
    BY <1>4 DEF Clear, Info
  <2>3. QueueEffect /\ puts' \in 0 .. MaxAlerts /\ expired \subseteq 1 .. puts'
    BY <2>1, PutOK
  <2> QED
    BY <1>1, <1>2, <2>3 DEF StepOK, Control
<1> QED
  BY <1>3, <1>4

\* A lane takes up what it finds due: its own copies.
LEMMA BeginOK ==
  ASSUME AlertInv, NEW ch \in Channels, begin(ch)
  PROVE  StepOK
<1>1. Control
  BY InvControl
<1>2. UNCHANGED <<configured, last, open, puts, stored, pending, lanes, expired, ended>>
  BY DEF begin, alerterVars
<1>3. QueueEffect
  BY <1>2, QuietEffect
<1>4. PICK answers \in BOOLEAN : todo' = [todo EXCEPT ![ch] = {d \in due(ch, answers) : Ready(ch, d)}]
  BY DEF begin
<1>5. stored \in SUBSET Copies /\ ToSet(pending) \in SUBSET Copies
  BY DEF AlertInv, TypeOK
<1>6. ASSUME NEW d \in due(ch, answers)
      PROVE  d \in Due /\ d.copy.ch = ch
  <2>1. \E c \in Copies, m \in BOOLEAN : d = [copy |-> c, mem |-> m] /\ c.ch = ch
    BY <1>5 DEF due, storeDue
  <2> QED
    BY <2>1 DEF Due
<1>7. PICK new \in SUBSET Due : todo' = [todo EXCEPT ![ch] = new] /\ \A d \in new : d.copy.ch = ch
  BY <1>4, <1>6
<1>8. /\ todo' \in [Channels -> SUBSET Due]
      /\ \A o \in Channels : \A d \in todo'[o] : d.copy.ch = o
  BY <1>1, <1>7 DEF Control
<1> QED
  BY <1>1, <1>2, <1>3, <1>8 DEF StepOK, Control

\* A copy that is too old.
LEMMA DropExpiredOK ==
  ASSUME AlertInv, NEW ch \in Channels, dropExpired(ch)
  PROVE  StepOK
<1>1. Control
  BY InvControl
<1>2. UNCHANGED <<configured, last, open, puts, lanes, expired>>
  BY DEF dropExpired, alerterVars
<1>3. PICK d \in todo[ch] : done({d}, 0) /\ ended' = End({d.copy}, "old") /\ Pass(ch, {d})
  BY DEF dropExpired
<1>4. {d} \in SUBSET Due /\ {e.copy : e \in {d}} = {d.copy}
  BY <1>1 DEF Control
<1>5. QueueEffect
  BY <1>3, <1>4, DoneEffect
<1>6. /\ todo' \in [Channels -> SUBSET Due]
      /\ \A o \in Channels : \A e \in todo'[o] : e.copy.ch = o
  BY <1>1, <1>3, PassTyped
<1> QED
  BY <1>1, <1>2, <1>5, <1>6 DEF StepOK, Control

\* A message has copies of the running pass.
LEMMA MessageDue ==
  ASSUME AlertInv, NEW ch \in Channels, NEW ds \in Message(ch)
  PROVE  ds \in SUBSET Due /\ ds \in SUBSET todo[ch]
<1>1. todo[ch] \in SUBSET Due
  BY DEF AlertInv
<1>2. ds \in SUBSET todo[ch]
  BY DEF Message
<1> QED
  BY <1>1, <1>2

\* A message sent, whatever the channel answers.
LEMMA AttemptOK ==
  ASSUME AlertInv, NEW ch \in Channels, attempt(ch)
  PROVE  StepOK
<1>1. Control
  BY InvControl
<1>2. UNCHANGED <<configured, last, open, puts, expired>>
  BY DEF attempt, alerterVars
<1>3. PICK ds \in Message(ch) : taken(ch, ds) \/ refused(ch, ds) \/ limited(ch) \/ failed(ch, ds)
  BY DEF attempt
<1>4. ds \in SUBSET Due
  BY MessageDue
<1>5. Pass(ch, ds) \/ Rest(ch)
  BY <1>3 DEF taken, refused, limited, failed
<1>6. /\ todo' \in [Channels -> SUBSET Due]
      /\ \A o \in Channels : \A e \in todo'[o] : e.copy.ch = o
  BY <1>1, <1>5, PassTyped
<1>7. CASE taken(ch, ds)
  <2>1. done(ds, 0) /\ ended' = End({d.copy : d \in ds}, "taken")
    BY <1>7 DEF taken
  <2> QED
    BY <2>1, <1>1, <1>2, <1>4, <1>6, DoneEffect DEF StepOK, Control
<1>8. CASE refused(ch, ds)
  <2>1. CASE \E d \in ds : d.copy.rank = 0 /\ d.copy.by = None
    <3>1. PICK d \in ds : reroute(d.copy, d)
      BY <1>8, <2>1 DEF refused
    <3>2. QueueEffect
      BY <3>1, <1>2, <1>4, RerouteEffect
    <3> QED
      BY <3>2, <1>1, <1>2, <1>6 DEF StepOK, Control
  <2>2. CASE ~\E d \in ds : d.copy.rank = 0 /\ d.copy.by = None
    <3>1. done(ds, 1) /\ ended' = End({d.copy : d \in ds}, "refused")
      BY <1>8, <2>2 DEF refused
    <3>2. QueueEffect
      BY <3>1, <2>2, <1>4, DoneEffect
    <3> QED
      BY <3>2, <1>1, <1>2, <1>6 DEF StepOK, Control
  <2> QED
    BY <2>1, <2>2
<1>9. CASE limited(ch)
  <2>1. QueueEffect
    BY <1>9, QuietEffect DEF limited
  <2> QED
    BY <2>1, <1>1, <1>2, <1>6 DEF StepOK, Control
<1>10. CASE failed(ch, ds)
  <2>1. retry(ds, 1) /\ UNCHANGED ended
    BY <1>10 DEF failed
  <2>2. QueueEffect
    BY <2>1, <1>4, RetryEffect
  <2> QED
    BY <2>2, <1>1, <1>2, <1>6 DEF StepOK, Control
<1> QED
  BY <1>3, <1>7, <1>8, <1>9, <1>10

\* Waits end: copies become due and stay where they are.
LEMMA BackoffEndsOK ==
  ASSUME AlertInv, NEW ch \in Channels, backoffEnds(ch)
  PROVE  StepOK
<1>0. pending \in Seq(Copies) /\ stored \in SUBSET Copies
  BY DEF AlertInv, TypeOK
<1>1. Control
  BY InvControl
<1>2. UNCHANGED <<configured, last, open, puts, lanes, todo, expired, faults, ended>>
  BY DEF backoffEnds, alerterVars
<1> DEFINE g == [i \in DOMAIN pending |-> pending[i].due \/ pending[i].ch = ch]
<1>3. \A i \in DOMAIN pending : g[i] \in BOOLEAN
  OBVIOUS
<1>4. pending' = [i \in DOMAIN pending |-> [pending[i] EXCEPT !.due = g[i]]]
  BY <1>0 DEF backoffEnds, Copies
<1> HIDE DEF g
<1>5. /\ pending' \in Seq(Copies) /\ Len(pending') = Len(pending)
      /\ \A i \in 1 .. Len(pending) : Same(pending[i], pending'[i])
  BY <1>3, <1>4, WaitsInMemory
<1> DEFINE awake(c) == [c EXCEPT !.due = @ \/ c.ch = ch]
<1>6. \A c \in stored : awake(c) \in Copies /\ Same(c, awake(c))
  BY <1>0 DEF Copies, Same
<1>7. stored' = {awake(c) : c \in stored}
  BY DEF backoffEnds
<1> HIDE DEF awake
<1>8. stored' \in SUBSET Copies /\ \A c \in stored : \E x \in stored' : Same(c, x)
  BY <1>6, <1>7
<1>9. QueueEffect
  BY <1>2, <1>5, <1>8, WaitEffect
<1> QED
  BY <1>1, <1>2, <1>9 DEF StepOK, Control

\* A restart loses the memory and says so, and prunes only removed channels.
LEMMA RestartOK ==
  ASSUME AlertInv, NEW conf \in SUBSET Channels, restart(conf)
  PROVE  StepOK
<1>0. pending \in Seq(Copies) /\ stored \in SUBSET Copies /\ MaxPending \in Nat
  BY AlertAssumptions DEF AlertInv, TypeOK
<1>1. Control
  BY InvControl
<1> DEFINE gone == {c \in stored \ stored' : c.ch \notin conf}
<1>2. /\ conf \subseteq configured /\ configured' = conf
      /\ stored' = {c \in stored : c.ch \in conf} \/ stored' = stored
      /\ pending' = <<>> /\ todo' = [ch \in Channels |-> {}]
      /\ last' = {} /\ open' = {} /\ UNCHANGED <<puts, expired>>
  BY DEF restart, prune, Idle
<1>3. ended' = End(ToSet(pending), "crash") \cup End(gone, "removed")
  BY DEF restart
<1> HIDE DEF gone
<1>4. Control'
  BY <1>1, <1>2 DEF Control
<1>5. /\ ended \subseteq ended'
      /\ \A c \in ToSet(pending) : \E x \in ended' : Same(c, x)
      /\ \A c \in gone : \E x \in ended' : Same(c, x) /\ x.how = "removed"
  <2>1. /\ ended \subseteq End(ToSet(pending), "crash")
        /\ \A c \in ToSet(pending) : \E x \in End(ToSet(pending), "crash") : Same(c, x)
    BY EndRecords
  <2>2. \A c \in gone : \E x \in End(gone, "removed") : Same(c, x) /\ x.how = "removed"
    BY EndRecords
  <2> QED
    BY <1>3, <2>1, <2>2
<1>6. StoredKept
  <2> SUFFICES ASSUME NEW c \in stored, ~\E d \in stored' : Same(c, d)
               PROVE  \E e \in ended' : Same(c, e) /\ e.how \in MeantEnds
    BY DEF StoredKept
  <2>1. c \notin stored'
    BY DEF Same
  <2>2. c \in gone
    BY <1>2, <2>1 DEF gone
  <2> QED
    BY <2>2, <1>5 DEF MeantEnds
<1>7. MemoryKept
  BY <1>5 DEF MemoryKept
<1>8. \A e \in ended' \ ended : e.how \in {"crash", "removed"}
  <2> SUFFICES ASSUME NEW e \in ended', e \notin ended
               PROVE  e.how \in {"crash", "removed"}
    OBVIOUS
  <2>1. CASE e \in End(ToSet(pending), "crash")
    BY <2>1, EndRecords
  <2>2. CASE e \in End(gone, "removed")
    BY <2>2, EndRecords
  <2> QED
    BY <1>3, <2>1, <2>2
<1>9. FullLeast /\ NewTold
  BY <1>8 DEF FullLeast, NewTold, RefusedCritical
<1>10. stored' \in SUBSET Copies /\ pending' \in Seq(Copies) /\ Len(pending') =< MaxPending
  BY <1>0, <1>2
<1> QED
  BY <1>2, <1>4, <1>5, <1>6, <1>7, <1>9, <1>10 DEF StepOK, QueueEffect

\* Every step has these effects.
LEMMA NextOK ==
  ASSUME AlertInv, [Next]_vars
  PROVE  StepOK
<1>1. Control
  BY InvControl
<1>2. \A ch \in configured : ch \in Channels
  BY <1>1 DEF Control
<1>3. ASSUME UNCHANGED <<configured, open, puts, stored, pending, todo, ended>>,
             last' \subseteq last, expired' \subseteq 1 .. puts
      PROVE  StepOK
  <2>1. QueueEffect
    BY <1>3, QuietEffect
  <2> QED
    BY <1>1, <1>3, <2>1 DEF StepOK, Control
<1>4. CASE UNCHANGED vars
  BY <1>1, <1>3, <1>4 DEF vars, Control
<1>5. ASSUME NEW code \in Codes, cooldownPasses(code)
      PROVE  StepOK
  BY <1>1, <1>3, <1>5 DEF cooldownPasses, Control
<1>6. ASSUME NEW ch \in configured, test(ch) \/ restEnds(ch) \/ testDue(ch)
      PROVE  StepOK
  <2>1. UNCHANGED <<configured, last, open, puts, stored, pending, todo, expired, ended>>
    BY <1>6 DEF test, restEnds, testDue, alerterVars
  <2> QED
    BY <1>1, <1>3, <2>1 DEF Control
<1>7. ASSUME NEW n \in 1 .. MaxAlerts, expire(n)
      PROVE  StepOK
  <2>1. UNCHANGED <<configured, last, open, puts, stored, pending, todo, ended>>
    BY <1>7 DEF expire, alerterVars
  <2>2. n =< puts /\ expired' = expired \cup {n} /\ puts \in Nat /\ n \in Nat /\ 1 =< n
    BY <1>1, <1>7, AlertAssumptions DEF expire, Control
  <2>3. expired' \subseteq 1 .. puts
    BY <1>1, <2>2 DEF Control
  <2> QED
    BY <1>3, <2>1, <2>3
<1> QED
  BY <1>2, <1>4, <1>5, <1>6, <1>7, RaiseOK, ClearOK, BeginOK, DropExpiredOK, AttemptOK,
     BackoffEndsOK, RestartOK DEF Next

\* The queue starts empty.
LEMMA InitInv ==
  ASSUME Init
  PROVE  AlertInv
<1>1. pending = <<>> /\ ToSet(pending) = {} /\ Len(pending) = 0 /\ pending \in Seq(Copies)
  BY DEF Init, ToSet
<1>2. todo \in [Channels -> SUBSET Due] /\ \A ch \in Channels : todo[ch] = {}
  BY DEF Init, Idle
<1>3. RefusalTold
  BY DEF Init, RefusalTold
<1> QED
  BY <1>1, <1>2, <1>3, AlertAssumptions DEF Init, AlertInv, TypeOK

\* The invariant holds in every state the queue reaches.
THEOREM AlertInvariant == Spec => []AlertInv
<1>1. Init => AlertInv
  BY InitInv
<1>2. AlertInv /\ [Next]_vars => AlertInv'
  BY NextOK, StepKeepsInv
<1> QED
  BY <1>1, <1>2, PTL DEF Spec

\* A Critical that a channel refused is told to every other one or waits for it,
\* through stores that fail with or without having stored, full memories, expiries
\* and restarts in any number (queue.go: reroute, putMemory, prune).
THEOREM RefusalsTold == Spec => []RefusalTold
<1>1. AlertInv => RefusalTold
  BY DEF AlertInv
<1> QED
  BY <1>1, AlertInvariant, PTL

\* No copy leaves the outbox but as it is meant to, the memory holds at most
\* maxPending copies, and a full one drops no alert while a less severe one stays
\* (queue.go: putMemory, done, reroute, prune).
THEOREM CopiesAlwaysSurvive == Spec => CopiesSurvive
<1>1. AlertInv => TypeOK
  BY DEF AlertInv
<1>2. AlertInv /\ [Next]_vars =>
        [\A c \in stored :
           (~\E d \in stored' : d.n = c.n /\ d.by = c.by /\ d.ch = c.ch)
             => \E e \in ended' : /\ e.n = c.n /\ e.by = c.by /\ e.ch = c.ch
                                  /\ e.how \in {"taken", "refused", "old", "removed"}]_vars
  BY NextOK DEF StepOK, QueueEffect, StoredKept, Same, MeantEnds
<1>3. AlertInv /\ [Next]_vars =>
        [\A e \in ended' \ ended : e.how = "full" => \A c \in ToSet(pending') : c.rank =< e.rank]_vars
  BY NextOK DEF StepOK, QueueEffect, FullLeast
<1> QED
  BY <1>1, <1>2, <1>3, AlertInvariant, PTL DEF Spec, CopiesSurvive, StoredSurvives, FullDropsLeast

============================================================================
