---------------------------- MODULE KeeperProofs ---------------------------
(***************************************************************************)
(* The keeper's TTL cycle for every value of its constants: no entry of    *)
(* the vault expires unseen.  What holds of a group of entries is stated   *)
(* of its record c, the ledger lg, the entries' lives lv, their rents rt,  *)
(* the times sn of their last renewals and the time bg at which the cycle  *)
(* began, so that it can be reasoned about without primes.                 *)
(***************************************************************************)
EXTENDS KeeperTTL, SumsProofs

Groups == {"own", "queued", "asset", "nullifiers"}

Members(g) ==
  CASE g = "own" -> Own [] g = "queued" -> Queued [] g = "asset" -> Asset [] OTHER -> Nullifiers

\* The entries that were dealt with before the group.
Before(g) ==
  CASE g = "own" -> {} [] g = "queued" -> Own [] g = "asset" -> Own \cup Queued
    [] g = "nullifiers" -> Own \cup Queued \cup Asset [] OTHER -> Entries

Fields == {"group", "phase", "latest", "lives", "start", "work", "restored", "refused",
           "stopped", "queue", "failures", "urgent"}

Jobs == [es : Seq(Entries), to : Int]

\* The entries of a sequence of jobs.
Entered(w) == UNION {ToSet(w[i].es) : i \in DOMAIN w}

\* Each entry is in one job, once.
Orderly(w) ==
  /\ w \in Seq(Jobs)
  /\ \A i \in DOMAIN w : Len(w[i].es) > 0 /\ IsInjective(w[i].es)
  /\ \A i, j \in DOMAIN w : i # j => ToSet(w[i].es) \cap ToSet(w[j].es) = {}

\* A reading of lives that is true still, at the least.
Reads(m, lv) ==
  /\ DOMAIN m \subseteq Entries /\ m \in [DOMAIN m -> Nat]
  /\ \A e \in DOMAIN m : lv[e] # -1 => m[e] =< lv[e]

\* What holds of an entry that a cycle has dealt with.
Sound(e, lv, sn, bg) == lv[e] # -1 => sn[e] >= bg \/ lv[e] >= bg + warnWithin

GroupTypes(c, lg, bg) ==
  /\ DOMAIN c = Fields /\ c.group \in Groups /\ c.phase \in {"restore", "extend"}
  /\ c.latest \in Nat /\ bg =< c.latest /\ c.latest =< lg
  /\ DOMAIN c.start \subseteq Members(c.group) /\ DOMAIN c.lives = DOMAIN c.start
  /\ c.refused \subseteq DOMAIN c.start /\ c.restored \subseteq DOMAIN c.start

WorkOK(c) ==
  /\ Orderly(c.work) /\ Entered(c.work) \subseteq DOMAIN c.start
  /\ c.refused \cap Entered(c.work) = {}

ReadsOK(c, lv) == Reads(c.lives, lv) /\ Reads(c.start, lv)

\* The entries of the queues were read along with the vault's own.
QueueOK(c, lg, lv) ==
  c.group = "own" =>
    /\ Reads(c.queue, lv) /\ DOMAIN c.queue \subseteq Queued
    /\ \A e \in Queued : lv[e] # -1 => e \in DOMAIN c.queue
    /\ \A e \in DOMAIN c.queue : c.queue[e] = 0 => lv[e] < lg

\* What was not read needed no renewal.
MembersOK(c, lv, sn, bg) ==
  \A e \in Members(c.group) : e \notin DOMAIN c.start => Sound(e, lv, sn, bg)

\* The jobs restore entries that are archived.
RestoreOK(c, lg, lv) ==
  c.phase = "restore" =>
    /\ c.lives = c.start
    /\ \A e \in Entered(c.work) : c.start[e] = 0 /\ lv[e] < lg
    /\ \A e \in c.refused \cup c.restored : c.start[e] = 0
    /\ c.restored \cap (Entered(c.work) \cup c.refused) = {}

\* The jobs make entries live longer than they were found to.
ExtendOK(c) ==
  c.phase = "extend" =>
    \A i \in DOMAIN c.work : \A e \in ToSet(c.work[i].es) :
      c.lives[e] < c.latest + c.work[i].to /\ c.start[e] =< c.lives[e]

\* What was left out refuses by itself.
RefusedOK(c, lg, lv, rt) ==
  \A e \in c.refused :
    lv[e] = -1 \/ lv[e] < lg \/ rt[e] * (minStep + lg - c.latest) > FeeCap

\* What was due is in a job still, or accounted for.
DueOK(c, lv, sn, bg) ==
  \A e \in DOMAIN c.start : c.start[e] < c.latest + renewAt(c.group) =>
    \/ e \in Entered(c.work) \/ e \in c.refused \/ lv[e] = -1
    \/ lv[e] > c.start[e] /\ sn[e] >= bg
    \/ c.stopped \/ c.failures
    \/ c.phase = "restore" /\ c.start[e] # 0

GroupOK(c, lg, lv, rt, sn, bg) ==
  /\ GroupTypes(c, lg, bg) /\ WorkOK(c) /\ ReadsOK(c, lv) /\ QueueOK(c, lg, lv)
  /\ MembersOK(c, lv, sn, bg) /\ RestoreOK(c, lg, lv) /\ ExtendOK(c)
  /\ RefusedOK(c, lg, lv, rt) /\ DueOK(c, lv, sn, bg)

WorldOK(lg, lv, rt, sn, bg) ==
  /\ lg \in Nat \ {0} /\ bg \in Nat /\ bg =< lg
  /\ lv \in [Entries -> Nat \cup {-1}] /\ rt \in [Entries -> Nat] /\ sn \in [Entries -> Nat]
  /\ \A e \in Entries : sn[e] =< lg
  /\ \A e \in Nullifiers : lv[e] # -1

ClockInv ==
  /\ took \in Nat /\ lastCycle \in Nat \cup {-1}
  /\ lastCycle # -1 => took =< lastCycle /\ lastCycle =< ledger
  /\ lastCycle = -1 => took = 0 /\ \A e \in Entries : since[e] = ledger

StaleInv == lastCycle # -1 /\ "ttl_cycle_stale" \notin paged => ledger =< lastCycle + StaleAfter + 1

\* What the last complete cycle left.
CleanInv == lastCycle # -1 => \A e \in Entries : Sound(e, live, since, lastCycle - took)

RecordedInv == live_until \in [Nullifiers -> Nat] /\ RecordedLifeLeast

CycleInv ==
  /\ cycle.group \in Groups \cup {"none", "judge"}
  /\ cycle.group = "none" <=> cycle = NoCycle
  /\ cycle.group \in Groups => GroupOK(cycle, ledger, live, rate, since, began)

\* While nothing has failed, the groups before are dealt with.
GroupsInv ==
  cycle.group # "none" /\ ~cycle.failures =>
    \A e \in Before(cycle.group) : Sound(e, live, since, began)

TTLInv ==
  /\ WorldOK(ledger, live, rate, since, began) /\ ClockInv /\ StaleInv /\ CleanInv
  /\ RecordedInv /\ CycleInv /\ GroupsInv

----------------------------------------------------------------------------
\* Sequences of jobs

\* The first job and the rest.
LEMMA FirstJob ==
  ASSUME NEW w, Orderly(w), w # <<>>
  PROVE  /\ Head(w) = w[1] /\ 1 \in DOMAIN w /\ Head(w) \in Jobs
         /\ Len(Head(w).es) > 0 /\ IsInjective(Head(w).es)
         /\ \A i \in DOMAIN Tail(w) : i + 1 \in DOMAIN w /\ i + 1 # 1 /\ Tail(w)[i] = w[i + 1]
         /\ Orderly(Tail(w))
         /\ Entered(w) = ToSet(Head(w).es) \cup Entered(Tail(w))
         /\ ToSet(Head(w).es) \cap Entered(Tail(w)) = {}
<1>1. w \in Seq(Jobs) /\ Len(w) \in Nat \ {0} /\ DOMAIN w = 1 .. Len(w)
  BY DEF Orderly
<1>2. PICK t : t = Tail(w)
  OBVIOUS
<1>3. /\ t \in Seq(Jobs) /\ Len(t) = Len(w) - 1 /\ DOMAIN t = 1 .. Len(w) - 1
      /\ \A i \in 1 .. Len(w) - 1 : t[i] = w[i + 1]
  BY <1>1, <1>2
<1>4. Head(w) = w[1] /\ 1 \in DOMAIN w /\ w[1] \in Jobs
  BY <1>1
<1>5. Len(w[1].es) > 0 /\ IsInjective(w[1].es)
  BY <1>4 DEF Orderly
<1>6. \A i \in DOMAIN t : i + 1 \in DOMAIN w /\ i + 1 # 1 /\ t[i] = w[i + 1]
  BY <1>1, <1>3
<1>7. Orderly(t)
  <2>1. \A i \in DOMAIN t : Len(t[i].es) > 0 /\ IsInjective(t[i].es)
    BY <1>6 DEF Orderly
  <2>2. ASSUME NEW i \in DOMAIN t, NEW j \in DOMAIN t, i # j
        PROVE  ToSet(t[i].es) \cap ToSet(t[j].es) = {}
    <3>1. i + 1 # j + 1
      BY <1>1, <1>3, <2>2
    <3> QED
      BY <1>6, <3>1, Zenon DEF Orderly
  <2> QED
    BY <1>3, <2>1, <2>2 DEF Orderly
<1>8. Entered(w) = ToSet(w[1].es) \cup Entered(t)
  <2>1. ASSUME NEW e \in Entered(w)
        PROVE  e \in ToSet(w[1].es) \cup Entered(t)
    <3>1. PICK i \in DOMAIN w : e \in ToSet(w[i].es)
      BY DEF Entered
    <3>2. CASE i = 1
      BY <3>1, <3>2
    <3>3. CASE i # 1
      <4>1. i - 1 \in DOMAIN t /\ t[i - 1] = w[i]
        BY <1>1, <1>3, <3>3
      <4> QED
        BY <3>1, <4>1 DEF Entered
    <3> QED
      BY <3>2, <3>3
  <2>2. ToSet(w[1].es) \subseteq Entered(w)
    BY <1>4 DEF Entered
  <2>3. Entered(t) \subseteq Entered(w)
    BY <1>6 DEF Entered
  <2> QED
    BY <2>1, <2>2, <2>3
<1>9. ToSet(w[1].es) \cap Entered(t) = {}
  <2>1. ASSUME NEW i \in DOMAIN t
        PROVE  ToSet(w[1].es) \cap ToSet(t[i].es) = {}
    BY <1>4, <1>6, Zenon DEF Orderly
  <2> QED
    BY <2>1 DEF Entered
<1> QED
  BY <1>2, <1>4, <1>5, <1>6, <1>7, <1>8, <1>9

\* A job in front of others.
LEMMA JobInFront ==
  ASSUME NEW t, Orderly(t), NEW j \in Jobs, Len(j.es) > 0, IsInjective(j.es),
         ToSet(j.es) \cap Entered(t) = {}
  PROVE  /\ Orderly(<<j>> \o t)
         /\ Entered(<<j>> \o t) = ToSet(j.es) \cup Entered(t)
         /\ \A i \in DOMAIN (<<j>> \o t) : (<<j>> \o t)[i] = j \/ \E k \in DOMAIN t : (<<j>> \o t)[i] = t[k]
<1>1. t \in Seq(Jobs) /\ Len(t) \in Nat /\ DOMAIN t = 1 .. Len(t)
  BY DEF Orderly
<1>2. PICK w : w = <<j>> \o t
  OBVIOUS
<1>3. /\ w \in Seq(Jobs) /\ DOMAIN w = 1 .. Len(t) + 1 /\ w[1] = j
      /\ \A i \in 2 .. Len(t) + 1 : w[i] = t[i - 1]
  BY <1>1, <1>2
<1>4. ASSUME NEW i \in DOMAIN w
      PROVE  (i = 1 /\ w[i] = j) \/ (i - 1 \in DOMAIN t /\ w[i] = t[i - 1])
  BY <1>1, <1>3
<1>5. \A i \in DOMAIN w : Len(w[i].es) > 0 /\ IsInjective(w[i].es)
  BY <1>4 DEF Orderly
<1>6. \A k \in DOMAIN t : ToSet(j.es) \cap ToSet(t[k].es) = {}
  BY DEF Entered
<1>7. ASSUME NEW i \in DOMAIN w, NEW k \in DOMAIN w, i # k
      PROVE  ToSet(w[i].es) \cap ToSet(w[k].es) = {}
  <2>1. CASE i = 1
    <3>1. w[i] = j /\ k - 1 \in DOMAIN t /\ w[k] = t[k - 1]
      BY <1>3, <1>4, <1>7, <2>1
    <3> QED
      BY <3>1, <1>6
  <2>2. CASE k = 1
    <3>1. w[k] = j /\ i - 1 \in DOMAIN t /\ w[i] = t[i - 1]
      BY <1>3, <1>4, <1>7, <2>2
    <3> QED
      BY <3>1, <1>6
  <2>3. CASE i # 1 /\ k # 1
    <3>1. i - 1 \in DOMAIN t /\ k - 1 \in DOMAIN t /\ w[i] = t[i - 1] /\ w[k] = t[k - 1]
      BY <1>4, <2>3
    <3>2. i - 1 # k - 1
      BY <1>3, <1>1, <1>7
    <3> QED
      BY <3>1, <3>2, Zenon DEF Orderly
  <2> QED
    BY <2>1, <2>2, <2>3
<1>8. Orderly(w)
  BY <1>3, <1>5, <1>7 DEF Orderly
<1>9. Entered(w) = ToSet(j.es) \cup Entered(t)
  <2>1. ASSUME NEW e \in Entered(w)
        PROVE  e \in ToSet(j.es) \cup Entered(t)
    <3>1. PICK i \in DOMAIN w : e \in ToSet(w[i].es)
      BY DEF Entered
    <3> QED
      BY <1>4, <3>1 DEF Entered
  <2>2. ToSet(j.es) \subseteq Entered(w)
    <3>1. 1 \in DOMAIN w
      BY <1>1, <1>3
    <3> QED
      BY <1>3, <3>1 DEF Entered
  <2>3. ASSUME NEW k \in DOMAIN t
        PROVE  ToSet(t[k].es) \subseteq Entered(w)
    <3>1. k + 1 \in DOMAIN w /\ w[k + 1] = t[k]
      BY <1>1, <1>3
    <3> QED
      BY <3>1 DEF Entered
  <2>4. Entered(t) \subseteq Entered(w)
    <3>1. SUFFICES ASSUME NEW e \in Entered(t)
                   PROVE  e \in Entered(w)
      OBVIOUS
    <3>2. PICK k \in DOMAIN t : e \in ToSet(t[k].es)
      BY Zenon DEF Entered
    <3> QED
      BY <2>3, <3>2
  <2> QED
    BY <2>1, <2>2, <2>4
<1> QED
  BY <1>2, <1>4, <1>8, <1>9

\* A stretch of a sequence.
LEMMA Stretch ==
  ASSUME NEW S, NEW s \in Seq(S), NEW m \in 1 .. Len(s), NEW n \in m .. Len(s)
  PROVE  /\ SubSeq(s, m, n) \in Seq(S) /\ Len(SubSeq(s, m, n)) = n - m + 1
         /\ DOMAIN SubSeq(s, m, n) = 1 .. n - m + 1
         /\ \A i \in 1 .. n - m + 1 : SubSeq(s, m, n)[i] = s[m + i - 1]
<1>1. SubSeq(s, m, n) \in Seq(S)
  OBVIOUS
<1>2. Len(SubSeq(s, m, n)) = n - m + 1
  OBVIOUS
<1>3. DOMAIN SubSeq(s, m, n) = 1 .. n - m + 1
  BY <1>1, <1>2
<1>4. \A i \in 1 .. n - m + 1 : SubSeq(s, m, n)[i] = s[m + i - 1]
  OBVIOUS
<1> QED
  BY <1>1, <1>2, <1>3, <1>4

\* Two stretches that make up a sequence.
LEMMA TwoParts ==
  ASSUME NEW s, IsInjective(s), NEW n \in Nat, DOMAIN s = 1 .. n, NEW h \in 1 .. n,
         NEW a, DOMAIN a = 1 .. h, \A i \in 1 .. h : a[i] = s[i],
         NEW b, DOMAIN b = 1 .. n - h, \A i \in 1 .. n - h : b[i] = s[h + i]
  PROVE  /\ IsInjective(a) /\ IsInjective(b)
         /\ ToSet(a) \cup ToSet(b) = ToSet(s) /\ ToSet(a) \cap ToSet(b) = {}
<1>1. \A i, j \in 1 .. n : s[i] = s[j] => i = j
  BY DEF IsInjective
<1>2. IsInjective(a)
  BY <1>1 DEF IsInjective
<1>3. IsInjective(b)
  BY <1>1 DEF IsInjective
<1>4. ASSUME NEW i \in 1 .. h, NEW j \in 1 .. n - h
      PROVE  a[i] # b[j]
  <2>1. i \in 1 .. n /\ h + j \in 1 .. n /\ i # h + j
    OBVIOUS
  <2> QED
    BY <1>1, <2>1
<1>5. ASSUME NEW i \in 1 .. n
      PROVE  s[i] \in ToSet(a) \cup ToSet(b)
  <2>1. CASE i =< h
    <3>1. i \in 1 .. h
      BY <2>1
    <3> QED
      BY <3>1 DEF ToSet
  <2>2. CASE ~(i =< h)
    <3>1. i - h \in 1 .. n - h /\ h + (i - h) = i
      BY <2>2
    <3>2. b[i - h] = s[i]
      BY <3>1
    <3> QED
      BY <3>1, <3>2 DEF ToSet
  <2> QED
    BY <2>1, <2>2
<1>6. ASSUME NEW i \in 1 .. h
      PROVE  a[i] \in ToSet(s)
  <2>1. i \in 1 .. n
    OBVIOUS
  <2> QED
    BY <2>1 DEF ToSet
<1>7. ASSUME NEW i \in 1 .. n - h
      PROVE  b[i] \in ToSet(s)
  <2>1. h + i \in 1 .. n
    OBVIOUS
  <2> QED
    BY <2>1 DEF ToSet
<1>8. ToSet(s) = {s[i] : i \in 1 .. n} /\ ToSet(a) = {a[i] : i \in 1 .. h} /\ ToSet(b) = {b[i] : i \in 1 .. n - h}
  BY DEF ToSet
<1>9. ToSet(a) \cup ToSet(b) = ToSet(s)
  <2>1. ToSet(s) \subseteq ToSet(a) \cup ToSet(b)
    BY <1>5, <1>8
  <2>2. ToSet(a) \subseteq ToSet(s)
    BY <1>6, <1>8
  <2>3. ToSet(b) \subseteq ToSet(s)
    BY <1>7, <1>8
  <2> QED
    BY <2>1, <2>2, <2>3
<1>10. ToSet(a) \cap ToSet(b) = {}
  BY <1>4, <1>8
<1> QED
  BY <1>2, <1>3, <1>9, <1>10

\* A batch split in two.
LEMMA Halves ==
  ASSUME NEW S, NEW s \in Seq(S), IsInjective(s), Len(s) > 1
  PROVE  LET a == SubSeq(s, 1, Len(s) \div 2)
             b == SubSeq(s, Len(s) \div 2 + 1, Len(s))
         IN /\ a \in Seq(S) /\ Len(a) > 0 /\ IsInjective(a)
            /\ b \in Seq(S) /\ Len(b) > 0 /\ IsInjective(b)
            /\ ToSet(a) \cup ToSet(b) = ToSet(s) /\ ToSet(a) \cap ToSet(b) = {}
<1>1. PICK n \in Nat : n = Len(s) /\ n > 1 /\ DOMAIN s = 1 .. n
  OBVIOUS
<1>2. PICK h \in 1 .. n : h = n \div 2 /\ h < n
  BY <1>1
<1>3. PICK a, b : a = SubSeq(s, 1, h) /\ b = SubSeq(s, h + 1, n)
  OBVIOUS
<1>4. h - 1 + 1 = h /\ n - (h + 1) + 1 = n - h /\ h + 1 \in 1 .. n /\ n \in h + 1 .. n /\ 1 \in 1 .. n /\ h \in 1 .. n
  BY <1>1, <1>2
<1>5. /\ a \in Seq(S) /\ Len(a) = h - 1 + 1 /\ DOMAIN a = 1 .. h - 1 + 1
      /\ \A i \in 1 .. h - 1 + 1 : a[i] = s[1 + i - 1]
  BY <1>1, <1>3, <1>4, Stretch
<1>6. /\ b \in Seq(S) /\ Len(b) = n - (h + 1) + 1 /\ DOMAIN b = 1 .. n - (h + 1) + 1
      /\ \A i \in 1 .. n - (h + 1) + 1 : b[i] = s[h + 1 + i - 1]
  BY <1>1, <1>3, <1>4, Stretch
<1>7. \A i \in 1 .. h : 1 + i - 1 = i
  OBVIOUS
<1>8. \A i \in 1 .. n - h : h + 1 + i - 1 = h + i
  OBVIOUS
<1>9. /\ DOMAIN a = 1 .. h /\ \A i \in 1 .. h : a[i] = s[i]
  BY <1>4, <1>5, <1>7, Zenon
<1>10. /\ DOMAIN b = 1 .. n - h /\ \A i \in 1 .. n - h : b[i] = s[h + i]
  BY <1>4, <1>6, <1>8, Zenon
<1>11. /\ IsInjective(a) /\ IsInjective(b)
       /\ ToSet(a) \cup ToSet(b) = ToSet(s) /\ ToSet(a) \cap ToSet(b) = {}
  BY <1>1, <1>9, <1>10, TwoParts
<1>12. Len(a) > 0 /\ Len(b) > 0
  BY <1>2, <1>4, <1>5, <1>6
<1> QED
  BY <1>1, <1>2, <1>3, <1>5, <1>6, <1>11, <1>12

\* A finite set in some order.
LEMMA SomeOrder ==
  ASSUME NEW S, IsFiniteSet(S)
  PROVE  /\ SetToSeq(S) \in Seq(S) /\ Len(SetToSeq(S)) = Cardinality(S)
         /\ IsInjective(SetToSeq(S)) /\ ToSet(SetToSeq(S)) = S
<1>1. PICK n \in Nat : n = Cardinality(S) /\ ExistsBijection(1 .. n, S)
  BY FS_CardinalityType
<1>2. PICK g \in Bijection(1 .. n, S) : TRUE
  BY <1>1 DEF ExistsBijection
<1>3. g \in [1 .. n -> S] /\ IsInjective(g)
  BY <1>2 DEF Bijection, Injection, IsInjective
<1>4. PICK s : s = SetToSeq(S)
  OBVIOUS
<1>5. s \in [1 .. n -> S] /\ IsInjective(s)
  <2>1. s = CHOOSE f \in [1 .. n -> S] : IsInjective(f)
    BY <1>1, <1>4, Zenon DEF SetToSeq
  <2> QED
    BY <1>3, <2>1, Zenon
<1>6. s \in Injection(1 .. n, S)
  BY <1>5 DEF Injection, IsInjective
<1>7. IsFiniteSet(1 .. n) /\ Cardinality(1 .. n) = n
  BY FS_Interval
<1>8. s \in Surjection(1 .. n, S)
  BY <1>1, <1>6, <1>7, FS_Injection, Zenon
<1>9. s \in Seq(S) /\ Len(s) = n /\ DOMAIN s = 1 .. n
  BY <1>5
<1>10. ToSet(s) = S
  BY <1>5, <1>8, <1>9 DEF Surjection, ToSet
<1> QED
  BY <1>1, <1>4, <1>5, <1>9, <1>10

\* Positions fall into batches of k.
LEMMA InBatch ==
  ASSUME NEW k \in Nat \ {0}, NEW p \in Nat
  PROVE  /\ p \div k \in Nat
         /\ (p \div k) * k =< p /\ p < (p \div k) * k + k
<1>1. p = k * (p \div k) + (p % k) /\ p % k \in 0 .. k - 1 /\ p \div k \in Nat
  OBVIOUS
<1>2. PICK q \in Nat, r \in 0 .. k - 1 : q = p \div k /\ p = k * q + r
  BY <1>1
<1>3. k * q = q * k /\ k * q \in Nat
  BY <1>2
<1> QED
  BY <1>2, <1>3

\* A multiple of k below another one is below it by k.
LEMMA Multiples ==
  ASSUME NEW k \in Nat \ {0}, NEW i \in Nat, NEW j \in Nat, i < j
  PROVE  i * k \in Nat /\ j * k \in Nat /\ i * k + k =< j * k
<1>1. PICK d \in Nat : j = i + 1 + d
  BY SMT
<1>2. j * k = i * k + k + d * k /\ d * k \in Nat /\ i * k \in Nat
  BY <1>1
<1> QED
  BY <1>2

\* Where the i-th batch begins and ends.
LEMMA BatchBounds ==
  ASSUME NEW k \in Nat \ {0}, NEW n \in Nat, NEW i \in 1 .. (n + k - 1) \div k
  PROVE  /\ (i - 1) * k \in Nat /\ i * k = (i - 1) * k + k /\ (i - 1) * k < n
<1>1. n + k - 1 \in Nat
  OBVIOUS
<1>2. PICK m \in Nat : m = (n + k - 1) \div k /\ m * k \in Nat /\ m * k =< n + k - 1
  BY <1>1, InBatch
<1>3. i - 1 \in Nat /\ i - 1 < m
  BY <1>2
<1>4. PICK j \in Nat : j = i - 1 /\ j < m /\ i = j + 1
  BY <1>3
<1>5. j * k \in Nat /\ j * k + k =< m * k
  BY <1>2, <1>4, Multiples
<1>6. (j + 1) * k = j * k + k
  OBVIOUS
<1> QED
  BY <1>2, <1>4, <1>5, <1>6

\* The batch that a position is in.
LEMMA BatchOf ==
  ASSUME NEW k \in Nat \ {0}, NEW n \in Nat, NEW p \in 1 .. n
  PROVE  \E i \in 1 .. (n + k - 1) \div k : (i - 1) * k < p /\ p =< i * k
<1>1. n + k - 1 \in Nat /\ p - 1 \in Nat
  OBVIOUS
<1>2. PICK m \in Nat : m = (n + k - 1) \div k /\ n + k - 1 < m * k + k
  BY <1>1, InBatch
<1>3. PICK j \in Nat : j * k =< p - 1 /\ p - 1 < j * k + k
  BY <1>1, InBatch
<1>4. (j + 1) * k = j * k + k /\ j * k \in Nat /\ m * k \in Nat
  OBVIOUS
<1>5. j < m
  <2>1. SUFFICES ASSUME m =< j PROVE FALSE
    OBVIOUS
  <2>2. m * k =< j * k
    <3>1. CASE m = j
      BY <3>1, <1>4
    <3>2. CASE m # j
      <4>1. m < j
        BY <2>1, <3>2
      <4> QED
        BY <4>1, <1>4, Multiples
    <3> QED
      BY <3>1, <3>2
  <2> QED
    BY <1>2, <1>3, <1>4, <2>2
<1>6. j + 1 \in 1 .. m /\ (j + 1) - 1 = j
  BY <1>5
<1>7. (j + 1 - 1) * k < p /\ p =< (j + 1) * k
  BY <1>3, <1>4, <1>6
<1> QED
  BY <1>2, <1>6, <1>7

\* Two batches have no position in common.
LEMMA BatchesApart ==
  ASSUME NEW k \in Nat \ {0}, NEW i \in Nat \ {0}, NEW j \in Nat \ {0}, i # j,
         NEW p \in Nat, (i - 1) * k < p, p =< i * k, (j - 1) * k < p, p =< j * k
  PROVE  FALSE
<1>1. ASSUME NEW x \in Nat \ {0}, NEW y \in Nat \ {0}, x < y
      PROVE  x * k \in Nat /\ (y - 1) * k \in Nat /\ x * k =< (y - 1) * k
  <2>1. x =< y - 1 /\ y - 1 \in Nat
    BY <1>1
  <2>2. x * k \in Nat /\ (y - 1) * k \in Nat
    BY <2>1
  <2>3. CASE x = y - 1
    BY <2>3, <2>2
  <2>4. CASE x # y - 1
    <3>1. x < y - 1
      BY <2>1, <2>4
    <3>2. x * k + k =< (y - 1) * k
      BY <2>1, <3>1, Multiples
    <3> QED
      BY <2>2, <3>2
  <2> QED
    BY <2>2, <2>3, <2>4
<1>2. CASE i < j
  BY <1>1, <1>2
<1>3. CASE j < i
  BY <1>1, <1>3
<1> QED
  BY <1>2, <1>3

\* inBatches: every entry is in one job of at most MaxExtensions, once.
LEMMA Batches ==
  ASSUME NEW S, IsFiniteSet(S), S \subseteq Entries, NEW to \in Int
  PROVE  /\ Orderly(inBatches(S, to)) /\ Entered(inBatches(S, to)) = S
         /\ \A i \in DOMAIN inBatches(S, to) : inBatches(S, to)[i].to = to
<1>1. PICK s : /\ s = SetToSeq(S) /\ s \in Seq(S) /\ IsInjective(s) /\ ToSet(s) = S
  BY SomeOrder
<1>2. PICK n \in Nat : n = Len(s) /\ DOMAIN s = 1 .. n
  BY <1>1
<1>3. PICK k \in Nat \ {0} : k = MaxExtensions
  BY TTLAssumptions
<1>4. PICK m : m = (n + k - 1) \div k
  OBVIOUS
<1>5. m \in Nat
  BY <1>3, <1>4, InBatch
<1> DEFINE lo(i) == (i - 1) * k
           hi(i) == IF i * k > n THEN n ELSE i * k
           w == [i \in 1 .. m |-> [es |-> SubSeq(s, lo(i) + 1, hi(i)), to |-> to]]
<1>6. inBatches(S, to) = w
  BY <1>1, <1>2, <1>3, <1>4, Zenon DEF inBatches
<1>7. ASSUME NEW i \in 1 .. m
      PROVE  /\ lo(i) \in Nat /\ hi(i) \in Nat /\ lo(i) < hi(i) /\ hi(i) =< n /\ hi(i) =< i * k
             /\ \A p \in 1 .. n : p =< i * k => p =< hi(i)
  <2>1. (i - 1) * k \in Nat /\ i * k = (i - 1) * k + k /\ (i - 1) * k < n
    BY <1>4, BatchBounds
  <2>2. PICK a \in Nat, b \in Nat : a = (i - 1) * k /\ b = i * k /\ b = a + k /\ a < n
    BY <2>1
  <2>3. lo(i) = a /\ hi(i) = IF b > n THEN n ELSE b
    BY <2>2
  <2> HIDE DEF lo, hi
  <2>4. PICK c \in Nat : c = hi(i) /\ c = IF b > n THEN n ELSE b
    BY <2>3
  <2>5. a < c /\ c =< n /\ c =< b /\ \A p \in 1 .. n : p =< b => p =< c
    BY <2>2, <2>4
  <2> QED
    BY <2>2, <2>3, <2>4, <2>5
<1>8. ASSUME NEW i \in 1 .. m
      PROVE  /\ w[i].es \in Seq(S) /\ Len(w[i].es) = hi(i) - lo(i)
             /\ DOMAIN w[i].es = 1 .. hi(i) - lo(i)
             /\ \A q \in 1 .. hi(i) - lo(i) : w[i].es[q] = s[lo(i) + q]
  <2>1. PICK a \in Nat, b \in Nat : a = lo(i) /\ b = hi(i) /\ a < b /\ b =< n
    BY <1>7
  <2>2. w[i].es = SubSeq(s, a + 1, b)
    BY <2>1
  <2> HIDE DEF w, lo, hi
  <2>3. a + 1 \in 1 .. Len(s) /\ b \in a + 1 .. Len(s) /\ b - (a + 1) + 1 = b - a
    BY <1>2, <2>1
  <2>4. \A q \in 1 .. b - a : a + 1 + q - 1 = a + q
    OBVIOUS
  <2>5. PICK x : x = SubSeq(s, a + 1, b)
    OBVIOUS
  <2>6. /\ x \in Seq(S) /\ Len(x) = b - (a + 1) + 1 /\ DOMAIN x = 1 .. b - (a + 1) + 1
        /\ \A q \in 1 .. b - (a + 1) + 1 : x[q] = s[a + 1 + q - 1]
    BY <1>1, <2>3, <2>5, Stretch
  <2>7. x \in Seq(S) /\ Len(x) = b - a /\ DOMAIN x = 1 .. b - a
    BY <2>3, <2>6, Zenon
  <2>8. \A q \in 1 .. b - a : x[q] = s[a + q]
    BY <2>3, <2>4, <2>6, Zenon
  <2> QED
    BY <2>1, <2>2, <2>5, <2>7, <2>8, Zenon
<1>9. DOMAIN w = 1 .. m /\ \A i \in 1 .. m : w[i].to = to
  OBVIOUS
<1>10. w \in Seq(Jobs)
  <2>1. ASSUME NEW i \in 1 .. m
        PROVE  w[i] \in Jobs
    <3>1. w[i].es \in Seq(Entries)
      BY <1>8
    <3>2. w[i] = [es |-> w[i].es, to |-> to]
      OBVIOUS
    <3> HIDE DEF w
    <3> QED
      BY <3>1, <3>2 DEF Jobs
  <2>2. w = [i \in 1 .. m |-> w[i]]
    OBVIOUS
  <2> HIDE DEF w
  <2>3. w \in [1 .. m -> Jobs]
    BY <2>1, <2>2
  <2> QED
    BY <1>5, <2>3
<1>11. ASSUME NEW i \in 1 .. m
       PROVE  /\ Len(w[i].es) > 0 /\ IsInjective(w[i].es)
              /\ ToSet(w[i].es) = {s[p] : p \in lo(i) + 1 .. hi(i)}
  <2>1. PICK a \in Nat, b \in Nat : a = lo(i) /\ b = hi(i) /\ a < b /\ b =< n
    BY <1>7
  <2>2. PICK x : x = w[i].es
    OBVIOUS
  <2> HIDE DEF w, lo, hi
  <2>3. Len(x) = b - a /\ DOMAIN x = 1 .. b - a /\ \A q \in 1 .. b - a : x[q] = s[a + q]
    BY <1>8, <2>1, <2>2, Zenon
  <2>4. Len(x) > 0
    BY <2>1, <2>3
  <2>5. \A p, q \in 1 .. n : s[p] = s[q] => p = q
    BY <1>1, <1>2 DEF IsInjective
  <2>6. IsInjective(x)
    BY <2>1, <2>3, <2>5 DEF IsInjective
  <2>7. ToSet(x) = {s[p] : p \in a + 1 .. b}
    <3>1. ASSUME NEW q \in 1 .. b - a
          PROVE  x[q] \in {s[p] : p \in a + 1 .. b}
      <4>1. a + q \in a + 1 .. b
        BY <2>1
      <4>2. x[q] = s[a + q]
        BY <2>3
      <4> QED
        BY <4>1, <4>2
    <3>2. ASSUME NEW p \in a + 1 .. b
          PROVE  s[p] \in ToSet(x)
      <4>1. p - a \in 1 .. b - a /\ a + (p - a) = p
        BY <2>1
      <4>2. x[p - a] = s[p]
        BY <2>3, <4>1
      <4> QED
        BY <2>3, <4>1, <4>2 DEF ToSet
    <3> QED
      BY <2>3, <3>1, <3>2 DEF ToSet
  <2> QED
    BY <2>1, <2>2, <2>4, <2>6, <2>7
<1> HIDE DEF w
<1>12. ASSUME NEW i \in 1 .. m, NEW j \in 1 .. m, i # j
       PROVE  ToSet(w[i].es) \cap ToSet(w[j].es) = {}
  <2>0. SUFFICES ASSUME NEW x \in ToSet(w[i].es), x \in ToSet(w[j].es)
                 PROVE  FALSE
    OBVIOUS
  <2>a. /\ ToSet(w[i].es) = {s[p] : p \in lo(i) + 1 .. hi(i)}
        /\ ToSet(w[j].es) = {s[p] : p \in lo(j) + 1 .. hi(j)}
    BY <1>11
  <2>p. PICK p \in lo(i) + 1 .. hi(i) : x = s[p]
    BY <2>a
  <2>q. PICK q \in lo(j) + 1 .. hi(j) : x = s[q]
    BY <2>0, <2>a
  <2>2. /\ lo(i) < p /\ p =< i * k /\ p \in 1 .. n
        /\ lo(j) < q /\ q =< j * k /\ q \in 1 .. n
    <3>1. lo(i) \in Nat /\ hi(i) \in Nat /\ hi(i) =< n /\ hi(i) =< i * k
      BY <1>7
    <3>2. lo(j) \in Nat /\ hi(j) \in Nat /\ hi(j) =< n /\ hi(j) =< j * k
      BY <1>7
    <3>3. i * k \in Nat /\ j * k \in Nat
      OBVIOUS
    <3> HIDE DEF lo, hi
    <3>4. lo(i) < p /\ p =< hi(i) /\ p \in Nat
      BY <3>1
    <3>5. lo(j) < q /\ q =< hi(j) /\ q \in Nat
      BY <3>2
    <3> QED
      BY <3>1, <3>2, <3>3, <3>4, <3>5
  <2>3. p = q
    BY <1>1, <1>2, <2>p, <2>q, <2>2 DEF IsInjective
  <2> QED
    BY <1>12, <2>2, <2>3, BatchesApart
<1>13. Entered(w) = S
  <2>1. Entered(w) \subseteq S
    <3>1. ASSUME NEW i \in 1 .. m
          PROVE  ToSet(w[i].es) \subseteq S
      <4>1. PICK x : x = w[i].es
        OBVIOUS
      <4>2. x \in Seq(S)
        BY <1>8, <4>1, Zenon
      <4>3. \A q \in DOMAIN x : x[q] \in S
        BY <4>2
      <4> QED
        BY <4>1, <4>3 DEF ToSet
    <3> QED
      BY <1>9, <3>1 DEF Entered
  <2>2. ASSUME NEW e \in S
        PROVE  e \in Entered(w)
    <3>1. PICK p \in 1 .. n : e = s[p]
      BY <1>1, <1>2 DEF ToSet
    <3>2. PICK i \in 1 .. m : lo(i) < p /\ p =< i * k
      BY <1>4, BatchOf
    <3>3. lo(i) \in Nat /\ hi(i) \in Nat /\ p =< hi(i)
      BY <1>7, <3>2
    <3> HIDE DEF lo, hi
    <3>4. p \in lo(i) + 1 .. hi(i)
      BY <3>2, <3>3
    <3>5. e \in ToSet(w[i].es)
      BY <1>11, <3>1, <3>4
    <3> QED
      BY <1>9, <3>5 DEF Entered
  <2> QED
    BY <2>1, <2>2
<1>14. Orderly(w)
  BY <1>9, <1>10, <1>11, <1>12 DEF Orderly
<1> QED
  BY <1>6, <1>9, <1>13, <1>14

----------------------------------------------------------------------------
\* What holds of a group as time passes and entries are renewed or deleted

\* The members of a group are entries of the vault.
LEMMA MembersAre ==
  ASSUME NEW g \in Groups
  PROVE  Members(g) \subseteq Entries
BY DEF Groups, Members, Entries

\* Lives grow until their entry is deleted, and renewals are the later ones.
Later(lv, sn, lv2, sn2) ==
  \A e \in Entries : /\ lv2[e] # -1 => lv[e] # -1 /\ lv[e] =< lv2[e]
                     /\ sn[e] =< sn2[e]

Lived(lv) == lv \in [Entries -> Nat \cup {-1}]
Renewed(sn) == sn \in [Entries -> Nat]

\* A reading stays true.
LEMMA ReadsLater ==
  ASSUME NEW m, NEW lv, NEW lv2, NEW sn, NEW sn2, Lived(lv), Lived(lv2),
         Reads(m, lv), Later(lv, sn, lv2, sn2)
  PROVE  Reads(m, lv2)
<1>1. ASSUME NEW e \in DOMAIN m, lv2[e] # -1
      PROVE  m[e] =< lv2[e]
  <2>1. e \in Entries /\ m[e] \in Nat
    BY DEF Reads
  <2>2. lv[e] # -1 /\ lv[e] =< lv2[e] /\ lv[e] \in Int /\ lv2[e] \in Int
    BY <1>1, <2>1 DEF Later, Lived
  <2>3. m[e] =< lv[e]
    BY <2>2 DEF Reads
  <2> QED
    BY <2>1, <2>2, <2>3
<1> QED
  BY <1>1 DEF Reads

\* What was dealt with stays so.
LEMMA SoundLater ==
  ASSUME NEW lv, NEW lv2, NEW sn, NEW sn2, NEW bg \in Int, Lived(lv), Lived(lv2),
         Renewed(sn), Renewed(sn2), Later(lv, sn, lv2, sn2), NEW e \in Entries, Sound(e, lv, sn, bg)
  PROVE  Sound(e, lv2, sn2, bg)
<1>1. SUFFICES ASSUME lv2[e] # -1
               PROVE  sn2[e] >= bg \/ lv2[e] >= bg + warnWithin
  BY DEF Sound
<1>2. /\ lv[e] # -1 /\ lv[e] =< lv2[e] /\ lv[e] \in Int /\ lv2[e] \in Int
      /\ sn[e] =< sn2[e] /\ sn[e] \in Int /\ sn2[e] \in Int
  BY <1>1 DEF Later, Lived, Renewed
<1>3. sn[e] >= bg \/ lv[e] >= bg + warnWithin
  BY <1>2 DEF Sound
<1>4. warnWithin \in Int
  BY TTLAssumptions
<1> QED
  BY <1>2, <1>3, <1>4

\* The same group, at a later step of its phase.
Frame(c, c2) ==
  /\ DOMAIN c2 = Fields /\ c2.group = c.group /\ c2.phase = c.phase /\ c2.latest = c.latest
  /\ c2.start = c.start /\ c2.queue = c.queue /\ c2.failures = c.failures

\* What was due and accounted for stays so.
LEMMA DueLater ==
  ASSUME NEW lv, NEW lv2, NEW sn, NEW sn2, NEW bg \in Int, Lived(lv), Lived(lv2),
         Renewed(sn), Renewed(sn2), Later(lv, sn, lv2, sn2), NEW e \in Entries, NEW st \in Int,
         lv[e] = -1 \/ (lv[e] > st /\ sn[e] >= bg)
  PROVE  lv2[e] = -1 \/ (lv2[e] > st /\ sn2[e] >= bg)
<1>1. SUFFICES ASSUME lv2[e] # -1
               PROVE  lv2[e] > st /\ sn2[e] >= bg
  OBVIOUS
<1>2. /\ lv[e] # -1 /\ lv[e] =< lv2[e] /\ lv[e] \in Int /\ lv2[e] \in Int
      /\ sn[e] =< sn2[e] /\ sn[e] \in Int /\ sn2[e] \in Int
  BY <1>1 DEF Later, Lived, Renewed
<1> QED
  BY <1>2

\* The parts of a group's invariant that a renewal can only help.
LEMMA ReadingsLater ==
  ASSUME NEW c, NEW c2, NEW lg, NEW lv, NEW lv2, NEW rt, NEW sn, NEW sn2, NEW bg \in Int,
         Lived(lv), Lived(lv2), Renewed(sn), Renewed(sn2), Later(lv, sn, lv2, sn2),
         GroupOK(c, lg, lv, rt, sn, bg), Frame(c, c2)
  PROVE  Reads(c2.start, lv2) /\ Reads(c.lives, lv2) /\ MembersOK(c2, lv2, sn2, bg)
<1>1. Reads(c.start, lv) /\ Reads(c.lives, lv) /\ MembersOK(c, lv, sn, bg)
  BY DEF GroupOK, ReadsOK
<1>2. Reads(c.start, lv2) /\ Reads(c.lives, lv2)
  BY <1>1, ReadsLater
<1>3. c2.start = c.start /\ c2.group = c.group /\ c.group \in Groups
  BY DEF Frame, GroupOK, GroupTypes
<1>4. \A e \in Members(c.group) : e \in Entries
  BY <1>3, MembersAre
<1>5. ASSUME NEW e \in Members(c.group), e \notin DOMAIN c.start
      PROVE  Sound(e, lv2, sn2, bg)
  <2>1. e \in Entries /\ Sound(e, lv, sn, bg)
    BY <1>1, <1>4, <1>5 DEF MembersOK
  <2> QED
    BY <2>1, SoundLater
<1>6. MembersOK(c2, lv2, sn2, bg)
  BY <1>3, <1>5 DEF MembersOK
<1> QED
  BY <1>2, <1>3, <1>6

\* The entries of the queues, while the vault's own are renewed.
LEMMA QueueLater ==
  ASSUME NEW c, NEW c2, NEW lg \in Int, NEW lv, NEW lv2, NEW sn, NEW sn2, Lived(lv), Lived(lv2),
         Later(lv, sn, lv2, sn2), Frame(c, c2), QueueOK(c, lg, lv),
         NEW lg2 \in Int, lg =< lg2,
         c.group = "own" => \A e \in Queued : lv2[e] = lv[e] \/ lv2[e] = -1
  PROVE  QueueOK(c2, lg2, lv2)
<1>1. SUFFICES ASSUME c.group = "own"
               PROVE  /\ Reads(c.queue, lv2) /\ DOMAIN c.queue \subseteq Queued
                      /\ \A e \in Queued : lv2[e] # -1 => e \in DOMAIN c.queue
                      /\ \A e \in DOMAIN c.queue : c.queue[e] = 0 => lv2[e] < lg2
  BY DEF QueueOK, Frame
<1>2. /\ Reads(c.queue, lv) /\ DOMAIN c.queue \subseteq Queued
      /\ \A e \in Queued : lv[e] # -1 => e \in DOMAIN c.queue
      /\ \A e \in DOMAIN c.queue : c.queue[e] = 0 => lv[e] < lg
  BY <1>1 DEF QueueOK
<1>3. Reads(c.queue, lv2)
  BY <1>2, ReadsLater
<1>4. Queued \subseteq Entries
  BY DEF Entries
<1>5. \A e \in Queued : lv2[e] # -1 => e \in DOMAIN c.queue
  BY <1>2, <1>4 DEF Later
<1>6. ASSUME NEW e \in DOMAIN c.queue, c.queue[e] = 0
      PROVE  lv2[e] < lg2
  <2>1. lv[e] < lg /\ e \in Queued /\ e \in Entries
    BY <1>2, <1>4, <1>6
  <2>2. lv2[e] = lv[e] \/ lv2[e] = -1
    BY <1>1, <2>1
  <2>3. lv[e] \in Nat \cup {-1}
    BY <2>1 DEF Lived
  <2> QED
    BY <2>1, <2>2, <2>3
<1> QED
  BY <1>2, <1>3, <1>5, <1>6

\* More time costs more.
LEMMA TimesMore ==
  ASSUME NEW r \in Nat, NEW a \in Int, NEW b \in Int, a =< b
  PROVE  r * a \in Int /\ r * b \in Int /\ r * a =< r * b
<1>1. PICK d \in Nat : b = a + d
  BY SMT
<1>2. r * b = r * a + r * d /\ r * d \in Nat /\ r * a \in Int
  BY <1>1
<1> QED
  BY <1>2

\* What was left out still refuses by itself.
LEMMA RefusalStays ==
  ASSUME NEW l \in Int, NEW r \in Nat, NEW lt \in Int, NEW lg \in Int, NEW lg2 \in Int, lg =< lg2,
         l < lg \/ r * (minStep + lg - lt) > FeeCap
  PROVE  l < lg2 \/ r * (minStep + lg2 - lt) > FeeCap
<1>1. CASE l < lg
  BY <1>1
<1>2. CASE r * (minStep + lg - lt) > FeeCap
  <2>1. minStep \in Int /\ FeeCap \in Int
    BY TTLAssumptions
  <2>2. PICK a \in Int, b \in Int : a = minStep + lg - lt /\ b = minStep + lg2 - lt /\ a =< b
    BY <2>1
  <2>3. r * a =< r * b /\ r * a \in Int /\ r * b \in Int
    BY <2>2, TimesMore
  <2> QED
    BY <1>2, <2>1, <2>2, <2>3
<1> QED
  BY <1>1, <1>2

\* Time passes, or entries are deleted.
LEMMA PassingKeeps ==
  ASSUME NEW c, NEW lg \in Int, NEW lg2 \in Int, lg =< lg2, NEW lv, NEW lv2, NEW rt, NEW sn, NEW bg \in Int,
         Lived(lv), Lived(lv2), Renewed(sn), rt \in [Entries -> Nat],
         \A e \in Entries : lv2[e] = lv[e] \/ lv2[e] = -1,
         GroupOK(c, lg, lv, rt, sn, bg)
  PROVE  GroupOK(c, lg2, lv2, rt, sn, bg)
<1>1. Later(lv, sn, lv2, sn)
  BY DEF Later, Lived, Renewed
<1>2. Frame(c, c)
  BY DEF GroupOK, GroupTypes, Frame
<1>3. Reads(c.start, lv2) /\ Reads(c.lives, lv2) /\ MembersOK(c, lv2, sn, bg)
  BY <1>1, <1>2, ReadingsLater
<1>4. /\ c.latest \in Nat /\ DOMAIN c.start \subseteq Entries
      /\ Entered(c.work) \subseteq Entries /\ c.refused \subseteq Entries
  <2>1. DOMAIN c.start \subseteq Entries /\ c.refused \subseteq DOMAIN c.start /\ c.latest \in Nat
    BY MembersAre DEF GroupOK, GroupTypes
  <2>2. Entered(c.work) \subseteq DOMAIN c.start
    BY DEF GroupOK, WorkOK
  <2> QED
    BY <2>1, <2>2
<1>5. GroupTypes(c, lg2, bg)
  BY <1>4 DEF GroupOK, GroupTypes
<1>6. QueueOK(c, lg2, lv2)
  <2>1. Queued \subseteq Entries
    BY DEF Entries
  <2>2. QueueOK(c, lg, lv)
    BY DEF GroupOK
  <2> QED
    BY <1>1, <1>2, <2>1, <2>2, QueueLater
<1>7. RestoreOK(c, lg2, lv2)
  <2>1. SUFFICES ASSUME c.phase = "restore"
                 PROVE  RestoreOK(c, lg2, lv2)
    BY DEF RestoreOK
  <2>2. /\ c.lives = c.start
        /\ \A e \in Entered(c.work) : c.start[e] = 0 /\ lv[e] < lg
        /\ \A e \in c.refused \cup c.restored : c.start[e] = 0
        /\ c.restored \cap (Entered(c.work) \cup c.refused) = {}
    BY <2>1 DEF GroupOK, RestoreOK
  <2>3. ASSUME NEW e \in Entered(c.work)
        PROVE  c.start[e] = 0 /\ lv2[e] < lg2
    <3>1. lv[e] \in Int /\ lv[e] >= -1 /\ lv[e] < lg /\ (lv2[e] = lv[e] \/ lv2[e] = -1) /\ c.start[e] = 0
      BY <1>4, <2>2 DEF Lived
    <3> QED
      BY <3>1
  <2> QED
    BY <2>2, <2>3 DEF RestoreOK
<1>8. RefusedOK(c, lg2, lv2, rt)
  <2>1. ASSUME NEW e \in c.refused
        PROVE  lv2[e] = -1 \/ lv2[e] < lg2 \/ rt[e] * (minStep + lg2 - c.latest) > FeeCap
    <3>1. SUFFICES ASSUME lv2[e] # -1
                   PROVE  lv2[e] < lg2 \/ rt[e] * (minStep + lg2 - c.latest) > FeeCap
      OBVIOUS
    <3>2. lv2[e] = lv[e] /\ lv[e] \in Int /\ rt[e] \in Nat
      BY <1>4, <3>1 DEF Lived
    <3>3. lv[e] < lg \/ rt[e] * (minStep + lg - c.latest) > FeeCap
      BY <3>1, <3>2 DEF GroupOK, RefusedOK
    <3>4. lv[e] < lg2 \/ rt[e] * (minStep + lg2 - c.latest) > FeeCap
      BY <1>4, <3>2, <3>3, RefusalStays
    <3> QED
      BY <3>2, <3>4
  <2> QED
    BY <2>1 DEF RefusedOK
<1>9. DueOK(c, lv2, sn, bg)
  <2>1. ASSUME NEW e \in DOMAIN c.start
        PROVE  lv2[e] = lv[e] \/ lv2[e] = -1
    BY <1>4
  <2>2. DueOK(c, lv, sn, bg)
    BY DEF GroupOK
  <2> QED
    BY <2>1, <2>2, Zenon DEF DueOK
<1> QED
  BY <1>3, <1>5, <1>6, <1>7, <1>8, <1>9 DEF GroupOK, ReadsOK

\* A group's first job, and what its entries are.
LEMMA JobFacts ==
  ASSUME NEW c, NEW lg, NEW lv, NEW rt, NEW sn, NEW bg, GroupOK(c, lg, lv, rt, sn, bg), c.work # <<>>
  PROVE  LET j == Head(c.work) IN
         /\ j \in Jobs /\ Len(j.es) > 0 /\ IsInjective(j.es) /\ j = c.work[1] /\ 1 \in DOMAIN c.work
         /\ Orderly(Tail(c.work)) /\ Entered(c.work) = ToSet(j.es) \cup Entered(Tail(c.work))
         /\ ToSet(j.es) \cap Entered(Tail(c.work)) = {}
         /\ \A i \in DOMAIN Tail(c.work) : \E k \in DOMAIN c.work : Tail(c.work)[i] = c.work[k]
         /\ ToSet(j.es) \subseteq DOMAIN c.start /\ ToSet(j.es) \cap c.refused = {}
         /\ Entered(Tail(c.work)) \subseteq DOMAIN c.start
         /\ DOMAIN c.start \subseteq Entries /\ c.refused \subseteq DOMAIN c.start
<1>1. /\ Orderly(c.work) /\ Entered(c.work) \subseteq DOMAIN c.start
      /\ c.refused \cap Entered(c.work) = {}
  BY DEF GroupOK, WorkOK
<1>2. DOMAIN c.start \subseteq Entries /\ c.refused \subseteq DOMAIN c.start
  BY MembersAre DEF GroupOK, GroupTypes
<1>3. PICK w : w = c.work /\ Orderly(w) /\ w # <<>>
  BY <1>1
<1>4. /\ Head(w) = w[1] /\ 1 \in DOMAIN w /\ Head(w) \in Jobs
      /\ Len(Head(w).es) > 0 /\ IsInjective(Head(w).es)
      /\ \A i \in DOMAIN Tail(w) : i + 1 \in DOMAIN w /\ i + 1 # 1 /\ Tail(w)[i] = w[i + 1]
      /\ Orderly(Tail(w))
      /\ Entered(w) = ToSet(Head(w).es) \cup Entered(Tail(w))
      /\ ToSet(Head(w).es) \cap Entered(Tail(w)) = {}
  BY <1>3, FirstJob
<1>5. \A i \in DOMAIN Tail(w) : \E k \in DOMAIN w : Tail(w)[i] = w[k]
  BY <1>4, Zenon
<1>6. /\ ToSet(Head(w).es) \subseteq DOMAIN c.start /\ ToSet(Head(w).es) \cap c.refused = {}
      /\ Entered(Tail(w)) \subseteq DOMAIN c.start
  <2>1. Entered(w) \subseteq DOMAIN c.start /\ c.refused \cap Entered(w) = {}
    BY <1>1, <1>3
  <2> QED
    BY <1>4, <2>1
<1> QED
  BY <1>2, <1>3, <1>4, <1>5, <1>6, Zenon

\* The group's first job is done, and its entries are renewed.
Renewal(c, c2, lv, lv2, sn2, bg) ==
  /\ c.work # <<>> /\ Frame(c, c2) /\ c2.work = Tail(c.work)
  /\ c2.refused = c.refused /\ c2.stopped = c.stopped
  /\ \A e \in Entries \ ToSet(Head(c.work).es) : lv2[e] = lv[e]
  /\ \A e \in ToSet(Head(c.work).es) : lv2[e] > c.start[e] /\ sn2[e] >= bg

\* What a renewal does to the group's other entries.
LEMMA OthersKept ==
  ASSUME NEW c, NEW c2, NEW lg \in Int, NEW lv, NEW lv2, NEW rt, NEW sn, NEW sn2, NEW bg \in Int,
         Lived(lv), Lived(lv2), Renewed(sn), Renewed(sn2), Later(lv, sn, lv2, sn2),
         GroupOK(c, lg, lv, rt, sn, bg), Renewal(c, c2, lv, lv2, sn2, bg)
  PROVE  /\ WorkOK(c2) /\ QueueOK(c2, lg, lv2) /\ MembersOK(c2, lv2, sn2, bg)
         /\ Reads(c2.start, lv2) /\ Reads(c.lives, lv2)
         /\ RefusedOK(c2, lg, lv2, rt) /\ DueOK(c2, lv2, sn2, bg)
<1>j. PICK J : J = ToSet(Head(c.work).es)
  OBVIOUS
<1>r. /\ c.work # <<>> /\ Frame(c, c2) /\ c2.work = Tail(c.work)
      /\ c2.refused = c.refused /\ c2.stopped = c.stopped
      /\ \A e \in Entries \ J : lv2[e] = lv[e]
      /\ \A e \in J : lv2[e] > c.start[e] /\ sn2[e] >= bg
  BY <1>j, Zenon DEF Renewal
<1> USE <1>r
<1>1. PICK T : /\ T = Entered(Tail(c.work)) /\ Entered(c.work) = J \cup T /\ J \cap T = {}
               /\ Orderly(Tail(c.work)) /\ J \subseteq DOMAIN c.start /\ J \cap c.refused = {}
               /\ T \subseteq DOMAIN c.start
               /\ DOMAIN c.start \subseteq Entries /\ c.refused \subseteq DOMAIN c.start
  BY <1>j, JobFacts
<1>2. WorkOK(c2)
  <2>1. c.refused \cap (J \cup T) = {} /\ c2.start = c.start
    BY <1>1 DEF GroupOK, WorkOK, Frame
  <2> QED
    BY <1>1, <2>1 DEF WorkOK
<1>3. Reads(c2.start, lv2) /\ Reads(c.lives, lv2) /\ MembersOK(c2, lv2, sn2, bg)
  BY ReadingsLater
<1>4. QueueOK(c2, lg, lv2)
  <2>1. ASSUME c.group = "own", NEW e \in Queued
        PROVE  lv2[e] = lv[e]
    <3>1. J \subseteq Own
      BY <1>1, <2>1 DEF GroupOK, GroupTypes, Members
    <3>2. e \in Entries /\ e \notin Own
      BY TTLAssumptions DEF Entries
    <3> QED
      BY <3>1, <3>2
  <2>2. QueueOK(c, lg, lv)
    BY DEF GroupOK
  <2> QED
    BY <2>1, <2>2, QueueLater
<1>5. RefusedOK(c2, lg, lv2, rt)
  <2>1. ASSUME NEW e \in c.refused
        PROVE  lv2[e] = lv[e]
    BY <1>1
  <2>2. c2.latest = c.latest
    BY DEF Frame
  <2>3. RefusedOK(c, lg, lv, rt)
    BY DEF GroupOK
  <2> QED
    BY <2>1, <2>2, <2>3, Zenon DEF RefusedOK
<1>6. DueOK(c2, lv2, sn2, bg)
  <2>1. /\ c2.start = c.start /\ c2.latest = c.latest /\ c2.group = c.group /\ c2.phase = c.phase
        /\ c2.failures = c.failures
    BY DEF Frame
  <2>2. SUFFICES ASSUME NEW e \in DOMAIN c.start, c.start[e] < c.latest + renewAt(c.group),
                        e \notin T, e \notin c.refused, ~(c.stopped \/ c.failures),
                        ~(c.phase = "restore" /\ c.start[e] # 0)
                 PROVE  lv2[e] = -1 \/ (lv2[e] > c.start[e] /\ sn2[e] >= bg)
    BY <1>1, <2>1, Zenon DEF DueOK
  <2>3. CASE e \in J
    BY <2>3
  <2>4. CASE e \notin J
    <3>1. lv[e] = -1 \/ (lv[e] > c.start[e] /\ sn[e] >= bg)
      <4>1. e \notin Entered(c.work)
        BY <1>1, <2>2, <2>4
      <4> QED
        BY <2>2, <4>1, Zenon DEF GroupOK, DueOK
    <3>2. e \in Entries /\ c.start[e] \in Int
      BY <1>1 DEF GroupOK, ReadsOK, Reads
    <3> QED
      BY <3>1, <3>2, DueLater
  <2> QED
    BY <2>3, <2>4
<1> QED
  BY <1>2, <1>3, <1>4, <1>5, <1>6

\* A batch is restored: what the lives lv and the times sn become.
RestoreDone(c, c2, lg, lv, lv2, sn, sn2) ==
  LET J == ToSet(Head(c.work).es) IN
  /\ c.phase = "restore" /\ c.work # <<>> /\ Frame(c, c2)
  /\ c2.work = Tail(c.work) /\ c2.lives = c.lives /\ c2.refused = c.refused
  /\ c2.stopped = c.stopped /\ c2.restored = c.restored \cup J
  /\ \A e \in J : lv[e] # -1
  /\ lv2 = [e \in Entries |-> IF e \in J THEN lg + RestoredLife ELSE lv[e]]
  /\ sn2 = [e \in Entries |-> IF e \in J THEN lg ELSE sn[e]]

\* What restoring the batch keeps.
LEMMA RestoreKeeps ==
  ASSUME NEW c, NEW c2, NEW lg \in Nat, NEW lv, NEW lv2, NEW rt, NEW sn, NEW sn2, NEW bg \in Nat,
         Lived(lv), Renewed(sn), bg =< lg, \A e \in Entries : sn[e] =< lg,
         GroupOK(c, lg, lv, rt, sn, bg), RestoreDone(c, c2, lg, lv, lv2, sn, sn2)
  PROVE  /\ Lived(lv2) /\ Renewed(sn2) /\ Later(lv, sn, lv2, sn2)
         /\ GroupOK(c2, lg, lv2, rt, sn2, bg)
<1>j. PICK J : J = ToSet(Head(c.work).es)
  OBVIOUS
<1>r. /\ c.phase = "restore" /\ c.work # <<>> /\ Frame(c, c2)
      /\ c2.work = Tail(c.work) /\ c2.lives = c.lives /\ c2.refused = c.refused
      /\ c2.stopped = c.stopped /\ c2.restored = c.restored \cup J
      /\ \A e \in J : lv[e] # -1
      /\ lv2 = [e \in Entries |-> IF e \in J THEN lg + RestoredLife ELSE lv[e]]
      /\ sn2 = [e \in Entries |-> IF e \in J THEN lg ELSE sn[e]]
  BY <1>j, Zenon DEF RestoreDone
<1> USE <1>j, <1>r
<1>1. PICK T : /\ T = Entered(Tail(c.work)) /\ Entered(c.work) = J \cup T /\ J \cap T = {}
               /\ J \subseteq DOMAIN c.start /\ J \cap c.refused = {}
               /\ DOMAIN c.start \subseteq Entries
  BY JobFacts
<1>2. /\ c.lives = c.start
      /\ \A e \in J \cup T : c.start[e] = 0 /\ lv[e] < lg
      /\ \A e \in c.refused \cup c.restored : c.start[e] = 0
      /\ c.restored \cap (J \cup T \cup c.refused) = {}
  <2>1. Entered(c.work) \cup c.refused = J \cup T \cup c.refused
    BY <1>1
  <2> QED
    BY <1>1, <2>1, Zenon DEF GroupOK, RestoreOK
<1>3. RestoredLife \in Nat
  BY TTLAssumptions
<1>4. Lived(lv2) /\ Renewed(sn2)
  BY <1>3 DEF Lived, Renewed
<1>5. ASSUME NEW e \in J
      PROVE  /\ e \in Entries /\ lv[e] \in Nat /\ lv2[e] = lg + RestoredLife /\ sn2[e] = lg
             /\ lv[e] < lg /\ c.start[e] = 0
  BY <1>1, <1>2 DEF Lived
<1>6. \A e \in Entries \ J : lv2[e] = lv[e] /\ sn2[e] = sn[e]
  OBVIOUS
<1>7. Later(lv, sn, lv2, sn2)
  <2>1. ASSUME NEW e \in Entries, lv2[e] # -1
        PROVE  lv[e] # -1 /\ lv[e] =< lv2[e]
    <3>1. CASE e \in J
      <4>1. lv[e] \in Nat /\ lv2[e] = lg + RestoredLife /\ lv[e] < lg
        BY <3>1, <1>5
      <4> QED
        BY <4>1, <1>3
    <3>2. CASE e \notin J
      BY <2>1, <3>2, <1>6 DEF Lived
    <3> QED
      BY <3>1, <3>2
  <2>2. ASSUME NEW e \in Entries
        PROVE  sn[e] =< sn2[e]
    BY DEF Renewed
  <2> QED
    BY <2>1, <2>2 DEF Later
<1>8. ASSUME NEW e \in J
      PROVE  lv2[e] > c.start[e] /\ sn2[e] >= bg
  <2>1. PICK l \in Nat : /\ lv2[e] = lg + RestoredLife /\ sn2[e] = lg /\ l < lg /\ c.start[e] = 0
    BY <1>5
  <2> QED
    BY <1>3, <2>1
<1>9. /\ WorkOK(c2) /\ QueueOK(c2, lg, lv2) /\ MembersOK(c2, lv2, sn2, bg)
      /\ Reads(c2.start, lv2) /\ Reads(c.lives, lv2)
      /\ RefusedOK(c2, lg, lv2, rt) /\ DueOK(c2, lv2, sn2, bg)
  <2>1. \A e \in Entries \ J : lv2[e] = lv[e]
    BY <1>6
  <2>2. Renewal(c, c2, lv, lv2, sn2, bg)
    BY <1>8, <2>1, Zenon DEF Renewal
  <2>3. lg \in Int /\ bg \in Int
    OBVIOUS
  <2> QED
    BY <1>4, <1>7, <2>2, <2>3, OthersKept, Zenon
<1>10. GroupTypes(c2, lg, bg)
  <2>1. GroupTypes(c, lg, bg)
    BY DEF GroupOK
  <2> QED
    BY <1>1, <2>1 DEF GroupTypes, Frame
<1>11. ReadsOK(c2, lv2)
  BY <1>9 DEF ReadsOK
<1>12. c2.start = c.start /\ c2.phase = "restore"
  BY DEF Frame
<1>13. RestoreOK(c2, lg, lv2)
  <2>1. ASSUME NEW e \in T
        PROVE  c.start[e] = 0 /\ lv2[e] < lg
    <3>1. e \in Entries \ J
      <4>1. T \subseteq DOMAIN c.start
        BY <1>1 DEF GroupOK, WorkOK
      <4> QED
        BY <1>1, <4>1
    <3> QED
      BY <1>2, <1>6, <3>1
  <2>2. \A e \in c2.refused \cup c2.restored : c.start[e] = 0
    BY <1>2
  <2>3. c2.restored \cap (T \cup c2.refused) = {}
    BY <1>1, <1>2
  <2> QED
    BY <1>1, <1>2, <1>12, <2>1, <2>2, <2>3 DEF RestoreOK
<1>14. ExtendOK(c2)
  BY <1>12 DEF ExtendOK
<1> QED
  BY <1>4, <1>7, <1>9, <1>10, <1>11, <1>13, <1>14 DEF GroupOK

\* A batch is extended.
ExtendDone(c, c2, lg, lv, lv2, sn, sn2) ==
  LET J  == ToSet(Head(c.work).es)
      to == Head(c.work).to
  IN
  /\ c.phase = "extend" /\ c.work # <<>> /\ Frame(c, c2) /\ c2.work = Tail(c.work)
  /\ c2.refused = c.refused /\ c2.stopped = c.stopped /\ c2.restored = c.restored
  /\ \A e \in J : lv[e] # -1
  /\ c2.lives \in [DOMAIN c.lives -> Int]
  /\ \A e \in DOMAIN c.lives \ J : c2.lives[e] = c.lives[e]
  /\ \A e \in J : c.lives[e] < c.latest + to => c2.lives[e] = c.latest + to
  /\ lv2 \in [Entries -> Int] /\ \A e \in Entries \ J : lv2[e] = lv[e]
  /\ \A e \in J : lv2[e] = IF lv[e] < lg + to THEN lg + to ELSE lv[e]
  /\ sn2 = [e \in Entries |-> IF e \in J THEN lg ELSE sn[e]]

\* What extending the batch keeps.
LEMMA ExtendKeeps ==
  ASSUME NEW c, NEW c2, NEW lg \in Nat, NEW lv, NEW lv2, NEW rt, NEW sn, NEW sn2, NEW bg \in Nat,
         Lived(lv), Renewed(sn), bg =< lg, \A e \in Entries : sn[e] =< lg,
         GroupOK(c, lg, lv, rt, sn, bg), ExtendDone(c, c2, lg, lv, lv2, sn, sn2)
  PROVE  /\ Lived(lv2) /\ Renewed(sn2) /\ Later(lv, sn, lv2, sn2)
         /\ GroupOK(c2, lg, lv2, rt, sn2, bg)
<1>j. PICK J, to : J = ToSet(Head(c.work).es) /\ to = Head(c.work).to
  OBVIOUS
<1>r. /\ c.phase = "extend" /\ c.work # <<>> /\ Frame(c, c2) /\ c2.work = Tail(c.work)
      /\ c2.refused = c.refused /\ c2.stopped = c.stopped /\ c2.restored = c.restored
      /\ \A e \in J : lv[e] # -1
      /\ c2.lives \in [DOMAIN c.lives -> Int]
      /\ \A e \in DOMAIN c.lives \ J : c2.lives[e] = c.lives[e]
      /\ \A e \in J : c.lives[e] < c.latest + to => c2.lives[e] = c.latest + to
      /\ lv2 \in [Entries -> Int] /\ \A e \in Entries \ J : lv2[e] = lv[e]
      /\ \A e \in J : lv2[e] = IF lv[e] < lg + to THEN lg + to ELSE lv[e]
      /\ sn2 = [e \in Entries |-> IF e \in J THEN lg ELSE sn[e]]
  BY <1>j, Zenon DEF ExtendDone
<1> USE <1>j, <1>r
<1>1. PICK T : /\ T = Entered(Tail(c.work)) /\ Entered(c.work) = J \cup T /\ J \cap T = {}
               /\ J \subseteq DOMAIN c.start /\ J \cap c.refused = {}
               /\ DOMAIN c.start \subseteq Entries /\ to \in Int
               /\ Head(c.work) = c.work[1] /\ 1 \in DOMAIN c.work
               /\ \A i \in DOMAIN Tail(c.work) : \E k \in DOMAIN c.work : Tail(c.work)[i] = c.work[k]
  BY JobFacts DEF Jobs
<1>2. /\ c.latest \in Nat /\ c.latest =< lg /\ bg =< c.latest /\ DOMAIN c.lives = DOMAIN c.start
  BY DEF GroupOK, GroupTypes
<1>3. ASSUME NEW e \in DOMAIN c.start
      PROVE  /\ e \in Entries /\ c.lives[e] \in Nat /\ c.start[e] \in Nat /\ lv[e] \in Int
             /\ lv[e] # -1 => c.lives[e] =< lv[e] /\ lv[e] \in Nat
  BY <1>1, <1>2 DEF GroupOK, ReadsOK, Reads, Lived
<1>4. \A i \in DOMAIN c.work : \A e \in ToSet(c.work[i].es) :
        c.lives[e] < c.latest + c.work[i].to /\ c.start[e] =< c.lives[e]
  BY DEF GroupOK, ExtendOK
<1>5. ASSUME NEW e \in J
      PROVE  c.lives[e] < c.latest + to /\ c.start[e] =< c.lives[e]
  BY <1>1, <1>4, Zenon
<1>6. ASSUME NEW e \in J
      PROVE  /\ lv2[e] \in Nat /\ lv2[e] >= lg + to /\ lv2[e] >= lv[e] /\ sn2[e] = lg
             /\ lv2[e] >= c.latest + to /\ lv2[e] > c.start[e]
  <2>1. e \in Entries /\ e \in DOMAIN c.start
    BY <1>1
  <2>2. PICK l \in Nat : l = lv[e] /\ lv2[e] = IF l < lg + to THEN lg + to ELSE l
    BY <1>3, <2>1
  <2>3. sn2[e] = lg
    BY <2>1
  <2>4. c.lives[e] \in Nat /\ c.start[e] \in Nat /\ c.lives[e] =< l
    BY <1>3, <2>1, <2>2
  <2>5. lv2[e] \in Nat /\ lv2[e] >= lg + to /\ lv2[e] >= l
    BY <1>1, <2>2
  <2>6. PICK a \in Nat, b \in Nat, f \in Nat, l2 \in Nat :
               /\ a = c.latest /\ b = c.lives[e] /\ f = c.start[e] /\ l2 = lv2[e]
    BY <1>2, <2>4, <2>5
  <2>7. b < a + to /\ f =< b /\ b =< l /\ l2 >= lg + to /\ l2 >= l /\ a =< lg
    BY <1>2, <1>5, <2>4, <2>5, <2>6
  <2>8. l2 >= a + to /\ l2 > f
    BY <1>1, <2>7
  <2> QED
    BY <2>2, <2>3, <2>5, <2>6, <2>8
<1>7. \A e \in Entries \ J : lv2[e] = lv[e] /\ sn2[e] = sn[e]
  OBVIOUS
<1>8. Lived(lv2)
  <2>1. ASSUME NEW e \in Entries
        PROVE  lv2[e] \in Nat \cup {-1}
    BY <1>6, <1>7 DEF Lived
  <2>2. lv2 = [e \in Entries |-> lv2[e]]
    OBVIOUS
  <2> QED
    BY <2>1, <2>2 DEF Lived
<1>9. Renewed(sn2)
  BY DEF Renewed
<1>10. Later(lv, sn, lv2, sn2)
  <2>1. ASSUME NEW e \in Entries, lv2[e] # -1
        PROVE  lv[e] # -1 /\ lv[e] =< lv2[e]
    <3>1. CASE e \in J
      <4>1. lv2[e] \in Nat /\ lv2[e] >= lv[e] /\ lv[e] # -1 /\ lv[e] \in Int
        BY <3>1, <1>6, <1>3, <1>1
      <4> QED
        BY <4>1
    <3>2. CASE e \notin J
      BY <2>1, <3>2, <1>7 DEF Lived
    <3> QED
      BY <3>1, <3>2
  <2>2. ASSUME NEW e \in Entries
        PROVE  sn[e] =< sn2[e]
    BY DEF Renewed
  <2> QED
    BY <2>1, <2>2 DEF Later
<1>11. \A e \in J : lv2[e] > c.start[e] /\ sn2[e] >= bg
  BY <1>6
<1>12. /\ WorkOK(c2) /\ QueueOK(c2, lg, lv2) /\ MembersOK(c2, lv2, sn2, bg)
       /\ Reads(c2.start, lv2) /\ Reads(c.lives, lv2)
       /\ RefusedOK(c2, lg, lv2, rt) /\ DueOK(c2, lv2, sn2, bg)
  <2>1. \A e \in Entries \ J : lv2[e] = lv[e]
    BY <1>7
  <2>2. Renewal(c, c2, lv, lv2, sn2, bg)
    BY <1>11, <2>1, Zenon DEF Renewal
  <2>3. lg \in Int /\ bg \in Int
    OBVIOUS
  <2> QED
    BY <1>8, <1>9, <1>10, <2>2, <2>3, OthersKept, Zenon
<1>13. DOMAIN c2.lives = DOMAIN c.lives /\ \A e \in DOMAIN c.lives \ J : c2.lives[e] = c.lives[e]
  OBVIOUS
<1>14. \A e \in J : c2.lives[e] = c.latest + to
  BY <1>1, <1>2, <1>5
<1>15. Reads(c2.lives, lv2)
  <2>1. ASSUME NEW e \in DOMAIN c2.lives
        PROVE  c2.lives[e] \in Nat /\ (lv2[e] # -1 => c2.lives[e] =< lv2[e])
    <3>1. CASE e \in J
      <4>1. c2.lives[e] = c.latest + to /\ c.lives[e] \in Nat /\ c.lives[e] < c.latest + to
        BY <1>1, <1>3, <1>5, <1>14, <3>1
      <4>2. lv2[e] \in Nat /\ lv2[e] >= c.latest + to
        BY <1>6, <3>1
      <4> QED
        BY <1>1, <1>2, <4>1, <4>2
    <3>2. CASE e \notin J
      BY <1>2, <1>3, <1>12, <1>13, <2>1, <3>2 DEF Reads
    <3> QED
      BY <3>1, <3>2
  <2>2. c2.lives = [e \in DOMAIN c2.lives |-> c2.lives[e]]
    OBVIOUS
  <2>3. DOMAIN c2.lives \subseteq Entries
    BY <1>1, <1>2, <1>13
  <2> QED
    BY <2>1, <2>2, <2>3 DEF Reads
<1>16. c2.start = c.start /\ c2.phase = "extend" /\ c2.latest = c.latest
  BY DEF Frame
<1>17. GroupTypes(c2, lg, bg)
  <2>1. GroupTypes(c, lg, bg)
    BY DEF GroupOK
  <2> QED
    BY <1>13, <2>1 DEF GroupTypes, Frame
<1>18. ExtendOK(c2)
  <2>1. ASSUME NEW i \in DOMAIN c2.work, NEW e \in ToSet(c2.work[i].es)
        PROVE  c2.lives[e] < c2.latest + c2.work[i].to /\ c2.start[e] =< c2.lives[e]
    <3>1. PICK k \in DOMAIN c.work : c2.work[i] = c.work[k]
      BY <1>1
    <3>2. e \in T
      BY <1>1 DEF Entered
    <3>3. e \notin J /\ e \in DOMAIN c.lives
      <4>1. T \subseteq DOMAIN c.start
        BY <1>1 DEF GroupOK, WorkOK
      <4> QED
        BY <1>1, <1>2, <3>2, <4>1
    <3>4. c2.lives[e] = c.lives[e]
      BY <1>13, <3>3
    <3>5. e \in ToSet(c.work[k].es)
      BY <2>1, <3>1
    <3>6. c.lives[e] < c.latest + c.work[k].to /\ c.start[e] =< c.lives[e]
      BY <1>4, <3>5
    <3> QED
      BY <1>16, <3>1, <3>4, <3>6
  <2> QED
    BY <2>1 DEF ExtendOK
<1>19. RestoreOK(c2, lg, lv2)
  BY <1>16 DEF RestoreOK
<1> QED
  BY <1>8, <1>9, <1>10, <1>12, <1>15, <1>17, <1>18, <1>19 DEF GroupOK, ReadsOK


\* The jobs are rearranged: the same entries, each extended beyond its life.
LEMMA WorkRearranged ==
  ASSUME NEW c, NEW c2, NEW lg, NEW lv, NEW rt, NEW sn, NEW bg,
         GroupOK(c, lg, lv, rt, sn, bg), Frame(c, c2), c2.lives = c.lives, c2.restored = c.restored,
         c2.refused = c.refused, c2.stopped = c.stopped,
         Orderly(c2.work), Entered(c2.work) = Entered(c.work),
         c.phase = "extend" =>
           \A i \in DOMAIN c2.work : \A e \in ToSet(c2.work[i].es) : c.lives[e] < c.latest + c2.work[i].to
  PROVE  GroupOK(c2, lg, lv, rt, sn, bg)
<1>1. /\ c2.group = c.group /\ c2.phase = c.phase /\ c2.latest = c.latest /\ DOMAIN c2 = Fields
      /\ c2.start = c.start /\ c2.queue = c.queue /\ c2.failures = c.failures
  BY DEF Frame
<1>2. GroupTypes(c2, lg, bg) /\ ReadsOK(c2, lv) /\ WorkOK(c2)
  <2>1. GroupTypes(c, lg, bg) /\ ReadsOK(c, lv) /\ WorkOK(c)
    BY DEF GroupOK
  <2> QED
    BY <1>1, <2>1, Zenon DEF GroupTypes, ReadsOK, WorkOK
<1>3. QueueOK(c2, lg, lv) /\ MembersOK(c2, lv, sn, bg) /\ RestoreOK(c2, lg, lv) /\ RefusedOK(c2, lg, lv, rt)
  <2>1. QueueOK(c, lg, lv) /\ MembersOK(c, lv, sn, bg) /\ RestoreOK(c, lg, lv) /\ RefusedOK(c, lg, lv, rt)
    BY DEF GroupOK
  <2> QED
    BY <1>1, <2>1, Zenon DEF QueueOK, MembersOK, RestoreOK, RefusedOK
<1>4. DueOK(c2, lv, sn, bg)
  <2>1. DueOK(c, lv, sn, bg)
    BY DEF GroupOK
  <2> QED
    BY <1>1, <2>1, Zenon DEF DueOK
<1>5. ExtendOK(c2)
  <2>1. SUFFICES ASSUME c.phase = "extend", NEW i \in DOMAIN c2.work, NEW e \in ToSet(c2.work[i].es)
                 PROVE  c.lives[e] < c.latest + c2.work[i].to /\ c.start[e] =< c.lives[e]
    BY <1>1, Zenon DEF ExtendOK
  <2>2. e \in Entered(c.work)
    BY DEF Entered
  <2>3. PICK k \in DOMAIN c.work : e \in ToSet(c.work[k].es)
    BY <2>2, Zenon DEF Entered
  <2>4. c.start[e] =< c.lives[e]
    BY <2>1, <2>3, Zenon DEF GroupOK, ExtendOK
  <2> QED
    BY <2>1, <2>4, Zenon
<1> QED
  BY <1>2, <1>3, <1>4, <1>5 DEF GroupOK

\* The entries of the first job, which refuse by themselves, are left out.
LEMMA LeftOutKeeps ==
  ASSUME NEW c, NEW c2, NEW lg, NEW lv, NEW rt, NEW sn, NEW bg,
         GroupOK(c, lg, lv, rt, sn, bg), c.work # <<>>, Frame(c, c2), c2.lives = c.lives,
         c2.restored = c.restored, c2.stopped = c.stopped, c2.work = Tail(c.work),
         NEW J, J = ToSet(Head(c.work).es), c2.refused = c.refused \cup J,
         \A e \in J : lv[e] = -1 \/ lv[e] < lg \/ rt[e] * (minStep + lg - c.latest) > FeeCap
  PROVE  GroupOK(c2, lg, lv, rt, sn, bg)
<1>1. /\ c2.group = c.group /\ c2.phase = c.phase /\ c2.latest = c.latest /\ DOMAIN c2 = Fields
      /\ c2.start = c.start /\ c2.queue = c.queue /\ c2.failures = c.failures
  BY DEF Frame
<1>2. PICK T : /\ T = Entered(c2.work) /\ Entered(c.work) = J \cup T /\ J \cap T = {}
               /\ Orderly(c2.work) /\ J \subseteq DOMAIN c.start /\ J \cap c.refused = {}
               /\ T \subseteq DOMAIN c.start /\ c.refused \subseteq DOMAIN c.start
               /\ \A i \in DOMAIN c2.work : \E k \in DOMAIN c.work : c2.work[i] = c.work[k]
  <2>1. /\ Entered(c.work) = J \cup Entered(Tail(c.work)) /\ J \cap Entered(Tail(c.work)) = {}
        /\ Orderly(Tail(c.work)) /\ Entered(Tail(c.work)) \subseteq DOMAIN c.start
    BY JobFacts
  <2>2. J \subseteq DOMAIN c.start /\ J \cap c.refused = {} /\ c.refused \subseteq DOMAIN c.start
    BY JobFacts
  <2>3. \A i \in DOMAIN Tail(c.work) : \E k \in DOMAIN c.work : Tail(c.work)[i] = c.work[k]
    BY JobFacts
  <2> QED
    BY <2>1, <2>2, <2>3, Zenon
<1>3. GroupTypes(c2, lg, bg) /\ ReadsOK(c2, lv)
  <2>1. GroupTypes(c, lg, bg) /\ ReadsOK(c, lv)
    BY DEF GroupOK
  <2>2. c2.refused \subseteq DOMAIN c2.start
    BY <1>1, <1>2
  <2> QED
    BY <1>1, <2>1, <2>2, Zenon DEF GroupTypes, ReadsOK
<1>4. WorkOK(c2)
  <2>1. c.refused \cap (J \cup T) = {}
    BY <1>2 DEF GroupOK, WorkOK
  <2>2. c2.refused \cap T = {}
    BY <1>2, <2>1
  <2> QED
    BY <1>1, <1>2, <2>2, Zenon DEF WorkOK
<1>5. QueueOK(c2, lg, lv) /\ MembersOK(c2, lv, sn, bg)
  <2>1. QueueOK(c, lg, lv) /\ MembersOK(c, lv, sn, bg)
    BY DEF GroupOK
  <2> QED
    BY <1>1, <2>1, Zenon DEF QueueOK, MembersOK
<1>6. RestoreOK(c2, lg, lv)
  <2>1. SUFFICES ASSUME c.phase = "restore"
                 PROVE  /\ c.lives = c.start
                        /\ \A e \in T : c.start[e] = 0 /\ lv[e] < lg
                        /\ \A e \in c2.refused \cup c.restored : c.start[e] = 0
                        /\ c.restored \cap (T \cup c2.refused) = {}
    BY <1>1, <1>2, Zenon DEF RestoreOK
  <2>2. /\ c.lives = c.start
        /\ \A e \in J \cup T : c.start[e] = 0 /\ lv[e] < lg
        /\ \A e \in c.refused \cup c.restored : c.start[e] = 0
        /\ c.restored \cap (J \cup T \cup c.refused) = {}
    BY <1>2, <2>1 DEF GroupOK, RestoreOK
  <2>3. c.restored \cap (T \cup c2.refused) = {}
    BY <2>2
  <2> QED
    BY <2>2, <2>3
<1>7. RefusedOK(c2, lg, lv, rt)
  <2>1. RefusedOK(c, lg, lv, rt)
    BY DEF GroupOK
  <2> QED
    BY <1>1, <2>1, Zenon DEF RefusedOK
<1>8. DueOK(c2, lv, sn, bg)
  <2>1. DueOK(c, lv, sn, bg)
    BY DEF GroupOK
  <2>2. ASSUME NEW e, e \in Entered(c.work)
        PROVE  e \in Entered(c2.work) \/ e \in c2.refused
    BY <1>2, <2>2
  <2>3. \A e \in c.refused : e \in c2.refused
    OBVIOUS
  <2> QED
    BY <1>1, <2>1, <2>2, <2>3, Zenon DEF DueOK
<1>9. ExtendOK(c2)
  <2>1. ExtendOK(c)
    BY DEF GroupOK
  <2> QED
    BY <1>1, <1>2, <2>1, Zenon DEF ExtendOK
<1> QED
  BY <1>3, <1>4, <1>5, <1>6, <1>7, <1>8, <1>9 DEF GroupOK

\* There are no jobs.
LEMMA NoJobs ==
  /\ Orderly(<<>>) /\ Entered(<<>>) = {} /\ DOMAIN <<>> = {}
<1>1. DOMAIN <<>> = {} /\ <<>> \in Seq(Jobs)
  OBVIOUS
<1> QED
  BY <1>1 DEF Orderly, Entered

\* The group's run is stopped.
LEMMA StopKeeps ==
  ASSUME NEW c, NEW c2, NEW lg, NEW lv, NEW rt, NEW sn, NEW bg,
         GroupOK(c, lg, lv, rt, sn, bg), Frame(c, c2), c2.lives = c.lives,
         c2.restored = c.restored, c2.refused = c.refused, c2.stopped = TRUE, c2.work = <<>>
  PROVE  GroupOK(c2, lg, lv, rt, sn, bg)
<1>1. /\ c2.group = c.group /\ c2.phase = c.phase /\ c2.latest = c.latest /\ DOMAIN c2 = Fields
      /\ c2.start = c.start /\ c2.queue = c.queue /\ c2.failures = c.failures
  BY DEF Frame
<1>2. Orderly(c2.work) /\ Entered(c2.work) = {} /\ DOMAIN c2.work = {}
  BY NoJobs
<1>3. GroupTypes(c2, lg, bg) /\ ReadsOK(c2, lv)
  <2>1. GroupTypes(c, lg, bg) /\ ReadsOK(c, lv)
    BY DEF GroupOK
  <2> QED
    BY <1>1, <2>1, Zenon DEF GroupTypes, ReadsOK
<1>4. WorkOK(c2)
  BY <1>2 DEF WorkOK
<1>5. QueueOK(c2, lg, lv) /\ MembersOK(c2, lv, sn, bg) /\ RefusedOK(c2, lg, lv, rt)
  <2>1. QueueOK(c, lg, lv) /\ MembersOK(c, lv, sn, bg) /\ RefusedOK(c, lg, lv, rt)
    BY DEF GroupOK
  <2> QED
    BY <1>1, <2>1, Zenon DEF QueueOK, MembersOK, RefusedOK
<1>6. RestoreOK(c2, lg, lv)
  <2>1. RestoreOK(c, lg, lv)
    BY DEF GroupOK
  <2>2. c.restored \cap c.refused = {} => c.restored \cap ({} \cup c.refused) = {}
    OBVIOUS
  <2>3. c.restored \cap (Entered(c.work) \cup c.refused) = {} => c.restored \cap c.refused = {}
    OBVIOUS
  <2> QED
    BY <1>1, <1>2, <2>1, <2>2, <2>3 DEF RestoreOK
<1>7. ExtendOK(c2) /\ DueOK(c2, lv, sn, bg)
  BY <1>2 DEF ExtendOK, DueOK
<1> QED
  BY <1>3, <1>4, <1>5, <1>6, <1>7 DEF GroupOK

\* An extension reaches beyond what makes it due, and a warning comes later.
LEMMA Reaches ==
  ASSUME NEW g \in Groups
  PROVE  /\ renewAt(g) \in Nat /\ extendTo(g) \in Int /\ renewAt(g) =< extendTo(g)
         /\ warnWithin =< renewAt(g) /\ warnWithin \in Nat
<1>1. /\ holdWithin \in Nat /\ renewWithin \in Nat /\ warnWithin \in Nat /\ renewStep \in Nat /\ maxTTL \in Nat
      /\ warnWithin =< renewWithin /\ warnWithin =< holdWithin /\ renewWithin < maxTTL
  BY TTLAssumptions
<1>2. CASE g = "own"
  BY <1>1, <1>2 DEF renewAt, extendTo
<1>3. CASE g = "queued"
  BY <1>1, <1>3 DEF renewAt, extendTo
<1>4. CASE g \in {"asset", "nullifiers"}
  BY <1>1, <1>4 DEF renewAt, extendTo
<1> QED
  BY <1>2, <1>3, <1>4 DEF Groups

\* The restorations are over: what they gave is read, and what is due is extended.
LEMMA ExtendPhase ==
  ASSUME NEW c, NEW c2, NEW lg \in Nat, NEW lv, NEW rt, NEW sn, NEW bg, Lived(lv),
         GroupOK(c, lg, lv, rt, sn, bg), c.phase = "restore", c.work = <<>>,
         DOMAIN c2 = Fields, c2.group = c.group, c2.phase = "extend", c2.latest = c.latest,
         c2.start = c.start, c2.queue = c.queue, c2.restored = c.restored, c2.refused = c.refused,
         c2.stopped = FALSE, c.failures \/ c.stopped => c2.failures,
         c2.lives \in [DOMAIN c.lives -> Nat],
         \A e \in DOMAIN c.lives : c2.lives[e] = c.lives[e] \/
                                   (e \in c.restored /\ (lv[e] # -1 => c2.lives[e] =< lv[e])),
         NEW due, due = {e \in DOMAIN c2.lives : c2.lives[e] # 0 /\ c2.lives[e] < c.latest + renewAt(c.group)},
         c2.work = inBatches(due, extendTo(c.group))
  PROVE  GroupOK(c2, lg, lv, rt, sn, bg)
<1>1. /\ c.group \in Groups /\ c.latest \in Nat /\ DOMAIN c.lives = DOMAIN c.start /\ DOMAIN c.start \subseteq Entries
      /\ GroupTypes(c, lg, bg) /\ Reads(c.start, lv)
  BY MembersAre DEF GroupOK, GroupTypes, ReadsOK
<1>2. /\ c.lives = c.start /\ \A e \in c.refused \cup c.restored : c.start[e] = 0
      /\ c.restored \cap c.refused = {} /\ Entered(c.work) = {}
  BY NoJobs DEF GroupOK, RestoreOK
<1>3. DOMAIN c2.lives = DOMAIN c.start /\ \A e \in DOMAIN c.start : c2.lives[e] \in Nat /\ c.start[e] \in Nat
  BY <1>1 DEF Reads
<1>4. PICK d \in Nat, x \in Int : d = renewAt(c.group) /\ x = extendTo(c.group) /\ d =< x
  BY <1>1, Reaches
<1>5. Orderly(c2.work) /\ Entered(c2.work) = due /\ \A i \in DOMAIN c2.work : c2.work[i].to = x
  <2>1. due \subseteq Entries
    BY <1>1, <1>3
  <2>2. IsFiniteSet(due)
    BY <2>1, TTLAssumptions, FS_Subset
  <2>3. /\ Orderly(inBatches(due, x)) /\ Entered(inBatches(due, x)) = due
        /\ \A i \in DOMAIN inBatches(due, x) : inBatches(due, x)[i].to = x
    BY <2>1, <2>2, Batches, Zenon
  <2>4. c2.work = inBatches(due, x)
    BY <1>4
  <2> QED
    BY <2>3, <2>4, Zenon
<1>6. GroupTypes(c2, lg, bg)
  BY <1>1, <1>3 DEF GroupTypes
<1>7. ASSUME NEW e \in DOMAIN c.start
      PROVE  /\ e \notin c.restored => c2.lives[e] = c.start[e]
             /\ c.start[e] =< c2.lives[e]
             /\ lv[e] # -1 => c2.lives[e] =< lv[e]
  <2>1. c2.lives[e] = c.start[e] \/ (e \in c.restored /\ (lv[e] # -1 => c2.lives[e] =< lv[e]))
    BY <1>2
  <2>2. e \in c.restored => c.start[e] = 0
    BY <1>2
  <2>3. lv[e] # -1 => c.start[e] =< lv[e]
    BY <1>1 DEF Reads
  <2> QED
    BY <1>3, <2>1, <2>2, <2>3
<1>8. WorkOK(c2)
  <2>1. ASSUME NEW e \in c.refused
        PROVE  e \notin due
    <3>1. e \in DOMAIN c.start /\ e \notin c.restored /\ c.start[e] = 0
      BY <1>1, <1>2 DEF GroupTypes
    <3>2. c2.lives[e] = 0
      BY <1>7, <3>1
    <3> QED
      BY <3>2
  <2>2. due \subseteq DOMAIN c.start /\ c.refused \cap due = {}
    BY <1>3, <2>1
  <2> QED
    BY <1>5, <2>2, Zenon DEF WorkOK
<1>9. ReadsOK(c2, lv)
  <2>1. Reads(c2.lives, lv)
    <3>1. DOMAIN c2.lives \subseteq Entries /\ c2.lives \in [DOMAIN c2.lives -> Nat]
      BY <1>1, <1>3
    <3>2. \A e \in DOMAIN c2.lives : lv[e] # -1 => c2.lives[e] =< lv[e]
      BY <1>3, <1>7
    <3> QED
      BY <3>1, <3>2, Zenon DEF Reads
  <2> QED
    BY <1>1, <2>1 DEF ReadsOK
<1>10. QueueOK(c2, lg, lv) /\ MembersOK(c2, lv, sn, bg) /\ RefusedOK(c2, lg, lv, rt)
  <2>1. QueueOK(c, lg, lv) /\ MembersOK(c, lv, sn, bg) /\ RefusedOK(c, lg, lv, rt)
    BY DEF GroupOK
  <2> QED
    BY <2>1, Zenon DEF QueueOK, MembersOK, RefusedOK
<1>11. RestoreOK(c2, lg, lv)
  BY DEF RestoreOK
<1>12. ExtendOK(c2)
  <2>1. ASSUME NEW i \in DOMAIN c2.work, NEW e \in ToSet(c2.work[i].es)
        PROVE  c2.lives[e] < c.latest + c2.work[i].to /\ c.start[e] =< c2.lives[e]
    <3>1. e \in due /\ c2.work[i].to = x
      BY <1>5, Zenon DEF Entered
    <3>2. e \in DOMAIN c.start /\ c2.lives[e] < c.latest + d
      BY <1>3, <1>4, <3>1
    <3>3. c2.lives[e] < c.latest + x
      BY <1>1, <1>3, <1>4, <3>2
    <3> QED
      BY <1>7, <3>1, <3>2, <3>3
  <2> QED
    BY <2>1, Zenon DEF ExtendOK
<1>13. DueOK(c2, lv, sn, bg)
  <2>1. SUFFICES ASSUME NEW e \in DOMAIN c.start, c.start[e] < c.latest + renewAt(c.group),
                        e \notin due, e \notin c.refused, ~c2.failures
                 PROVE  lv[e] = -1 \/ (lv[e] > c.start[e] /\ sn[e] >= bg)
    BY <1>5, Zenon DEF DueOK
  <2>2. c.start[e] = 0
    <3>1. SUFFICES ASSUME c.start[e] # 0
                   PROVE  FALSE
      OBVIOUS
    <3>2. e \notin c.restored
      BY <1>2, <3>1
    <3>3. c2.lives[e] = c.start[e]
      BY <1>7, <3>2
    <3> QED
      BY <1>3, <2>1, <3>1, <3>3
  <2>3. ~c.stopped /\ ~c.failures /\ e \notin Entered(c.work)
    BY <1>2, <2>1
  <2> QED
    BY <2>1, <2>2, <2>3, Zenon DEF GroupOK, DueOK
<1> QED
  BY <1>6, <1>8, <1>9, <1>10, <1>11, <1>12, <1>13 DEF GroupOK

\* What is read of the entries of a group, and with its own of the queues.
ReadOf(g, m, q, lg, lv, sn, bg) ==
  /\ Reads(m, lv) /\ DOMAIN m \subseteq Members(g) /\ \A e \in DOMAIN m : m[e] = 0 => lv[e] < lg
  /\ \A e \in Members(g) : e \notin DOMAIN m => Sound(e, lv, sn, bg)
  /\ g = "own" => /\ Reads(q, lv) /\ DOMAIN q \subseteq Queued
                  /\ \A e \in Queued : lv[e] # -1 => e \in DOMAIN q
                  /\ \A e \in DOMAIN q : q[e] = 0 => lv[e] < lg

\* A group begins.
LEMMA FreshGroup ==
  ASSUME NEW g \in Groups, NEW m, NEW lt \in Nat, NEW q, NEW f, NEW u,
         NEW lg \in Nat, NEW lv, NEW rt, NEW sn, NEW bg \in Nat, bg =< lt, lt =< lg,
         ReadOf(g, m, q, lg, lv, sn, bg)
  PROVE  /\ GroupOK(Group(g, m, lt, q, f, u), lg, lv, rt, sn, bg)
         /\ Group(g, m, lt, q, f, u).group = g /\ Group(g, m, lt, q, f, u).failures = f
<1>r. /\ Reads(m, lv) /\ DOMAIN m \subseteq Members(g) /\ \A e \in DOMAIN m : m[e] = 0 => lv[e] < lg
      /\ \A e \in Members(g) : e \notin DOMAIN m => Sound(e, lv, sn, bg)
      /\ g = "own" => /\ Reads(q, lv) /\ DOMAIN q \subseteq Queued
                      /\ \A e \in Queued : lv[e] # -1 => e \in DOMAIN q
                      /\ \A e \in DOMAIN q : q[e] = 0 => lv[e] < lg
  BY DEF ReadOf
<1> USE <1>r
<1>1. PICK z : z = {e \in DOMAIN m : m[e] = 0}
  OBVIOUS
<1>2. PICK c : c = Group(g, m, lt, q, f, u)
  OBVIOUS
<1>3. PICK w : w = inBatches(z, 0)
  OBVIOUS
<1>4. /\ DOMAIN c = Fields /\ c.group = g /\ c.phase = "restore" /\ c.latest = lt /\ c.lives = m /\ c.start = m
      /\ c.work = w /\ c.restored = {} /\ c.refused = {} /\ c.stopped = FALSE /\ c.queue = q
      /\ c.failures = f
  BY <1>1, <1>2, <1>3 DEF Group, Fields
<1>5. DOMAIN m \subseteq Entries
  BY MembersAre
<1>6. Orderly(w) /\ Entered(w) = z
  <2>1. z \subseteq Entries
    BY <1>1, <1>5
  <2>2. IsFiniteSet(z)
    BY <2>1, TTLAssumptions, FS_Subset
  <2> QED
    BY <1>3, <2>1, <2>2, Batches
<1>7. GroupTypes(c, lg, bg)
  BY <1>4 DEF GroupTypes
<1>8. WorkOK(c)
  <2>1. z \subseteq DOMAIN m
    BY <1>1
  <2> QED
    BY <1>4, <1>6, <2>1 DEF WorkOK
<1>9. ReadsOK(c, lv) /\ QueueOK(c, lg, lv) /\ MembersOK(c, lv, sn, bg)
  BY <1>4, Zenon DEF ReadsOK, QueueOK, MembersOK
<1>10. RestoreOK(c, lg, lv)
  <2>1. \A e \in z : m[e] = 0 /\ lv[e] < lg
    BY <1>1
  <2> QED
    BY <1>4, <1>6, <2>1 DEF RestoreOK
<1>11. ExtendOK(c) /\ RefusedOK(c, lg, lv, rt)
  BY <1>4 DEF ExtendOK, RefusedOK
<1>12. DueOK(c, lv, sn, bg)
  <2>1. \A e \in DOMAIN m : e \in z \/ m[e] # 0
    BY <1>1
  <2> QED
    BY <1>4, <1>6, <2>1, Zenon DEF DueOK
<1>13. GroupOK(c, lg, lv, rt, sn, bg)
  BY <1>7, <1>8, <1>9, <1>10, <1>11, <1>12 DEF GroupOK
<1> QED
  BY <1>2, <1>4, <1>13

\* A group that ended without a failure has dealt with all its entries.
LEMMA Completed ==
  ASSUME NEW c, NEW lg, NEW lv, NEW rt, NEW sn, NEW bg \in Nat, Lived(lv), Renewed(sn),
         GroupOK(c, lg, lv, rt, sn, bg), c.phase = "extend", c.work = <<>>,
         ~c.stopped, ~c.failures, c.refused = {}
  PROVE  \A e \in Members(c.group) : Sound(e, lv, sn, bg)
<1>1. SUFFICES ASSUME NEW e \in Members(c.group), e \in DOMAIN c.start, lv[e] # -1
               PROVE  sn[e] >= bg \/ lv[e] >= bg + warnWithin
  BY Zenon DEF GroupOK, MembersOK, Sound
<1>2. /\ c.group \in Groups /\ c.latest \in Nat /\ bg =< c.latest
      /\ c.start[e] \in Nat /\ c.start[e] =< lv[e] /\ e \in Entries
  BY <1>1, MembersAre DEF GroupOK, GroupTypes, ReadsOK, Reads
<1>3. PICK d \in Nat : d = renewAt(c.group) /\ warnWithin =< d /\ warnWithin \in Nat
  BY <1>2, Reaches
<1>4. lv[e] \in Int
  BY <1>2 DEF Lived
<1>5. CASE c.start[e] < c.latest + d
  <2>1. e \notin Entered(c.work) /\ e \notin c.refused
    BY NoJobs
  <2>2. ~(c.phase = "restore")
    OBVIOUS
  <2>3. sn[e] >= bg
    BY <1>1, <1>3, <1>5, <2>1, <2>2, Zenon DEF GroupOK, DueOK
  <2> QED
    BY <2>3
<1>6. CASE ~(c.start[e] < c.latest + d)
  BY <1>2, <1>3, <1>4, <1>6
<1> QED
  BY <1>5, <1>6

----------------------------------------------------------------------------
\* The steps of the cycle

\* What is read of the entries.
LEMMA ReadFacts ==
  ASSUME TTLInv, NEW S, S \subseteq Entries
  PROVE  /\ Reads(read(S), live) /\ DOMAIN read(S) \subseteq S
         /\ \A e \in S : live[e] # -1 => e \in DOMAIN read(S)
         /\ \A e \in DOMAIN read(S) : read(S)[e] = 0 => live[e] < ledger
<1>1. ledger \in Nat \ {0} /\ live \in [Entries -> Nat \cup {-1}]
  BY DEF TTLInv, WorldOK
<1>2. PICK D : D = {x \in S : exists(x)} /\ D \subseteq S /\ D \subseteq Entries
  OBVIOUS
<1>3. \A e \in S : live[e] # -1 => e \in D
  BY <1>2 DEF exists
<1>4. PICK m : m = read(S) /\ m = [e \in D |-> ReadLife(e)]
  BY <1>2 DEF read
<1>5. ASSUME NEW e \in D
      PROVE  /\ ReadLife(e) \in Nat
             /\ live[e] # -1 => ReadLife(e) =< live[e]
             /\ ReadLife(e) = 0 => live[e] < ledger
  <2>1. PICK l \in Nat \cup {-1} : l = live[e]
    BY <1>1, <1>2
  <2> QED
    BY <1>1, <2>1 DEF ReadLife
<1>6. DOMAIN m = D /\ \A e \in D : m[e] = ReadLife(e)
  BY <1>4
<1>7. m \in [D -> Nat]
  BY <1>4, <1>5
<1>8. Reads(m, live)
  BY <1>2, <1>5, <1>6, <1>7 DEF Reads
<1> QED
  BY <1>2, <1>3, <1>4, <1>5, <1>6, <1>8

\* A cycle that is running a group.
LEMMA Running ==
  ASSUME TTLInv, cycle # NoCycle, cycle.group # "judge"
  PROVE  /\ cycle.group \in Groups /\ GroupOK(cycle, ledger, live, rate, since, began)
         /\ DOMAIN cycle = Fields
BY DEF TTLInv, CycleInv, GroupOK, GroupTypes

\* The world as the lemmas take it.
LEMMA World ==
  ASSUME TTLInv
  PROVE  /\ ledger \in Nat \ {0} /\ began \in Nat /\ began =< ledger
         /\ Lived(live) /\ Renewed(since) /\ rate \in [Entries -> Nat]
         /\ \A e \in Entries : since[e] =< ledger
         /\ \A e \in Nullifiers : live[e] # -1
BY DEF TTLInv, WorldOK, Lived, Renewed

\* The names of the groups are none of the others.
LEMMA GroupNames ==
  "none" \notin Groups /\ "judge" \notin Groups
BY DEF Groups

\* A step of the cycle alone.
LEMMA CycleStep ==
  ASSUME TTLInv, UNCHANGED <<callRest, live>>, CycleInv', GroupsInv'
  PROVE  TTLInv'
<1>1. /\ ledger' = ledger /\ rate' = rate /\ live_until' = live_until /\ lastCycle' = lastCycle
      /\ paged' = paged /\ since' = since /\ began' = began /\ took' = took /\ live' = live
  BY DEF callRest
<1>2. WorldOK(ledger, live, rate, since, began)' /\ ClockInv'
  BY <1>1 DEF TTLInv, WorldOK, ClockInv
<1>3. StaleInv' /\ CleanInv'
  BY <1>1 DEF TTLInv, StaleInv, CleanInv, Sound
<1>4. RecordedInv'
  BY <1>1 DEF TTLInv, RecordedInv, RecordedLifeLeast
<1> QED
  BY <1>2, <1>3, <1>4 DEF TTLInv

\* A group in place of the one before, or of the same one.
LEMMA GroupStep ==
  ASSUME TTLInv, UNCHANGED <<callRest, live>>, GroupOK(cycle', ledger, live, rate, since, began),
         ~cycle'.failures => \A e \in Before(cycle'.group) : Sound(e, live, since, began)
  PROVE  TTLInv'
<1>1. /\ ledger' = ledger /\ rate' = rate /\ since' = since /\ began' = began /\ live' = live
  BY DEF callRest
<1>2. cycle'.group \in Groups
  BY DEF GroupOK, GroupTypes
<1>3. CycleInv'
  <2>1. cycle' # NoCycle
    BY <1>2, GroupNames DEF NoCycle
  <2>2. cycle'.group # "none"
    BY <1>2, GroupNames
  <2> QED
    BY <1>1, <1>2, <2>1, <2>2 DEF CycleInv
<1>4. GroupsInv'
  BY <1>1 DEF GroupsInv
<1> QED
  BY <1>3, <1>4, CycleStep

\* A step within a group.
LEMMA FrameStep ==
  ASSUME TTLInv, UNCHANGED <<callRest, live>>, cycle.group \in Groups, Frame(cycle, cycle'),
         GroupOK(cycle', ledger, live, rate, since, began)
  PROVE  TTLInv'
<1>1. cycle'.group = cycle.group /\ cycle'.failures = cycle.failures
  BY DEF Frame
<1>2. cycle.group # "none"
  BY GroupNames
<1>3. ~cycle'.failures => \A e \in Before(cycle'.group) : Sound(e, live, since, began)
  BY <1>1, <1>2, Zenon DEF TTLInv, GroupsInv
<1> QED
  BY <1>3, GroupStep

\* Entries are renewed.
LEMMA RenewalStep ==
  ASSUME TTLInv, UNCHANGED <<ledger, rate, live_until, lastCycle, paged, began, took>>,
         cycle.group \in Groups, Frame(cycle, cycle'), Lived(live'), Renewed(since'),
         Later(live, since, live', since'), \A e \in Entries : since'[e] = since[e] \/ since'[e] = ledger,
         \A e \in Nullifiers : live'[e] # -1,
         GroupOK(cycle', ledger, live', rate, since', began)
  PROVE  TTLInv'
<1>1. /\ cycle'.group = cycle.group /\ cycle'.failures = cycle.failures
      /\ cycle'.group # "none" /\ cycle' # NoCycle
  BY GroupNames DEF Frame, NoCycle
<1>2. /\ ledger \in Nat \ {0} /\ began \in Nat /\ began =< ledger
      /\ Lived(live) /\ Renewed(since) /\ rate \in [Entries -> Nat]
      /\ \A e \in Entries : since[e] =< ledger
      /\ \A e \in Nullifiers : live[e] # -1
  BY World
<1>3. WorldOK(ledger, live, rate, since, began)'
  <2>1. \A e \in Entries : since'[e] =< ledger
    BY <1>2 DEF Renewed
  <2> QED
    BY <1>2, <2>1 DEF WorldOK, Lived, Renewed
<1>4. ClockInv'
  <2>1. ClockInv
    BY DEF TTLInv
  <2> QED
    BY <2>1, Zenon DEF ClockInv
<1>5. StaleInv'
  BY DEF TTLInv, StaleInv
<1>6. CleanInv'
  <2>1. SUFFICES ASSUME lastCycle # -1, NEW e \in Entries
                 PROVE  Sound(e, live', since', lastCycle - took)
    BY DEF CleanInv, Sound
  <2>2. lastCycle - took \in Int /\ Sound(e, live, since, lastCycle - took)
    BY <2>1 DEF TTLInv, ClockInv, CleanInv
  <2> QED
    BY <1>2, <2>2, SoundLater
<1>7. RecordedInv'
  <2>1. live_until \in [Nullifiers -> Nat] /\ \A e \in Nullifiers : live_until[e] =< live[e]
    BY DEF TTLInv, RecordedInv, RecordedLifeLeast
  <2>2. ASSUME NEW e \in Nullifiers
        PROVE  live_until[e] =< live'[e]
    <3>1. e \in Entries
      BY DEF Entries
    <3>2. live[e] =< live'[e] /\ live[e] \in Int /\ live'[e] \in Int
      BY <1>2, <3>1 DEF Later, Lived
    <3> QED
      BY <2>1, <3>2
  <2> QED
    BY <2>1, <2>2 DEF RecordedInv, RecordedLifeLeast
<1>8. CycleInv'
  BY <1>1 DEF CycleInv
<1>9. GroupsInv'
  <2>1. SUFFICES ASSUME ~cycle.failures, NEW e \in Before(cycle.group)
                 PROVE  Sound(e, live', since', began)
    BY <1>1 DEF GroupsInv, Sound
  <2>2. Sound(e, live, since, began)
    BY <1>1, <2>1, Zenon DEF TTLInv, GroupsInv
  <2>3. e \in Entries
    BY DEF Before, Entries, Groups
  <2>4. began \in Int
    BY <1>2
  <2> QED
    BY <1>2, <2>2, <2>3, <2>4, SoundLater
<1> QED
  BY <1>3, <1>4, <1>5, <1>6, <1>7, <1>8, <1>9 DEF TTLInv

\* What a transaction that goes through leaves alone.
LEMMA CallFacts ==
  ASSUME NEW ph, TTLInv, ttlCall(ph)
  PROVE  /\ cycle # NoCycle /\ cycle.group # "judge" /\ cycle.work # <<>> /\ cycle.phase = ph
         /\ UNCHANGED <<ledger, rate, live_until, lastCycle, paged, began, took>>
         /\ since' = [e \in Entries |-> IF e \in ToSet(Head(cycle.work).es) THEN ledger ELSE since[e]]
         /\ \A e \in ToSet(Head(cycle.work).es) : live[e] # -1
         /\ \A e \in Entries : since'[e] = since[e] \/ since'[e] = ledger
<1>1. /\ cycle # NoCycle /\ cycle.group # "judge" /\ cycle.work # <<>> /\ cycle.phase = ph
      /\ UNCHANGED <<ledger, rate, live_until, lastCycle, paged, began, took>>
      /\ since' = [e \in Entries |-> IF e \in ToSet(Head(cycle.work).es) THEN ledger ELSE since[e]]
      /\ Simulates
  BY DEF ttlCall, Working, Job
<1>2. \A e \in ToSet(Head(cycle.work).es) : live[e] # -1
  BY <1>1 DEF Simulates, Job, ToSet, exists
<1> QED
  BY <1>1, <1>2

\* restore: a batch of archived entries is restored.
LEMMA RestoreStep ==
  ASSUME TTLInv, restore
  PROVE  TTLInv'
<1>1. ttlCall("restore")
  BY DEF restore
<1>2. /\ cycle # NoCycle /\ cycle.group # "judge" /\ cycle.work # <<>> /\ cycle.phase = "restore"
      /\ UNCHANGED <<ledger, rate, live_until, lastCycle, paged, began, took>>
      /\ since' = [e \in Entries |-> IF e \in ToSet(Head(cycle.work).es) THEN ledger ELSE since[e]]
      /\ \A e \in ToSet(Head(cycle.work).es) : live[e] # -1
      /\ \A e \in Entries : since'[e] = since[e] \/ since'[e] = ledger
  BY <1>1, CallFacts
<1>3. /\ cycle.group \in Groups /\ GroupOK(cycle, ledger, live, rate, since, began)
      /\ DOMAIN cycle = Fields
  BY <1>2, Running
<1>4. PICK J : J = ToSet(Head(cycle.work).es)
  OBVIOUS
<1>5. /\ live' = [e \in Entries |-> IF e \in J THEN ledger + RestoredLife ELSE live[e]]
      /\ since' = [e \in Entries |-> IF e \in J THEN ledger ELSE since[e]]
      /\ cycle' = [cycle EXCEPT !.work = Tail(cycle.work), !.restored = cycle.restored \cup J]
  BY <1>2, <1>4 DEF restore, Job
<1>6. /\ Frame(cycle, cycle') /\ cycle'.work = Tail(cycle.work) /\ cycle'.lives = cycle.lives
      /\ cycle'.restored = cycle.restored \cup J /\ cycle'.refused = cycle.refused
      /\ cycle'.stopped = cycle.stopped
  <2>1. PICK w, r : /\ w = Tail(cycle.work) /\ r = cycle.restored \cup J
                    /\ cycle' = [cycle EXCEPT !.work = w, !.restored = r]
    BY <1>5
  <2>2. /\ Frame(cycle, cycle') /\ cycle'.work = w /\ cycle'.lives = cycle.lives
        /\ cycle'.restored = r /\ cycle'.refused = cycle.refused /\ cycle'.stopped = cycle.stopped
    BY <1>3, <2>1 DEF Fields, Frame
  <2> QED
    BY <2>1, <2>2
<1>7. /\ ledger \in Nat \ {0} /\ began \in Nat /\ began =< ledger
      /\ Lived(live) /\ Renewed(since) /\ rate \in [Entries -> Nat]
      /\ \A e \in Entries : since[e] =< ledger
      /\ \A e \in Nullifiers : live[e] # -1
  BY World
<1>8. /\ Lived(live') /\ Renewed(since') /\ Later(live, since, live', since')
      /\ GroupOK(cycle', ledger, live', rate, since', began)
  <2>1. ledger \in Nat /\ \A e \in J : live[e] # -1
    BY <1>2, <1>4, <1>7
  <2>2. RestoreDone(cycle, cycle', ledger, live, live', since, since')
    BY <1>2, <1>4, <1>5, <1>6, <2>1, Zenon DEF RestoreDone
  <2> QED
    BY <1>3, <1>7, <2>1, <2>2, RestoreKeeps
<1>9. ASSUME NEW e \in Nullifiers
      PROVE  live'[e] # -1
  <2>1. e \in Entries
    BY DEF Entries
  <2>2. RestoredLife \in Nat
    BY TTLAssumptions
  <2>3. live[e] # -1
    BY <1>7
  <2>4. live'[e] = IF e \in J THEN ledger + RestoredLife ELSE live[e]
    BY <1>5, <2>1
  <2> QED
    BY <1>7, <2>2, <2>3, <2>4
<1> QED
  BY <1>2, <1>3, <1>6, <1>8, <1>9, RenewalStep

\* extendBatch: a batch of entries is extended.
LEMMA ExtendStep ==
  ASSUME TTLInv, extendBatch
  PROVE  TTLInv'
<1>1. ttlCall("extend")
  BY DEF extendBatch
<1>2. /\ cycle # NoCycle /\ cycle.group # "judge" /\ cycle.work # <<>> /\ cycle.phase = "extend"
      /\ UNCHANGED <<ledger, rate, live_until, lastCycle, paged, began, took>>
      /\ since' = [e \in Entries |-> IF e \in ToSet(Head(cycle.work).es) THEN ledger ELSE since[e]]
      /\ \A e \in ToSet(Head(cycle.work).es) : live[e] # -1
      /\ \A e \in Entries : since'[e] = since[e] \/ since'[e] = ledger
  BY <1>1, CallFacts
<1>3. /\ cycle.group \in Groups /\ GroupOK(cycle, ledger, live, rate, since, began)
      /\ DOMAIN cycle = Fields
  BY <1>2, Running
<1>4. PICK J, to, m : /\ J = ToSet(Head(cycle.work).es) /\ to = Head(cycle.work).to
                      /\ m = [e \in DOMAIN cycle.lives |->
                                IF e \in J THEN Extended(cycle.lives[e], to) ELSE cycle.lives[e]]
  OBVIOUS
<1>5. /\ live' = [e \in Entries |-> IF e \in J /\ live[e] < ledger + to THEN ledger + to ELSE live[e]]
      /\ since' = [e \in Entries |-> IF e \in J THEN ledger ELSE since[e]]
  BY <1>2, <1>4 DEF extendBatch, Job
<1>6. cycle' = [cycle EXCEPT !.work = Tail(cycle.work), !.lives = m]
  BY <1>4 DEF extendBatch, Job
<1>7. /\ Frame(cycle, cycle') /\ cycle'.work = Tail(cycle.work) /\ cycle'.lives = m
      /\ cycle'.restored = cycle.restored /\ cycle'.refused = cycle.refused
      /\ cycle'.stopped = cycle.stopped
  <2>1. PICK w : w = Tail(cycle.work) /\ cycle' = [cycle EXCEPT !.work = w, !.lives = m]
    BY <1>6
  <2>2. /\ Frame(cycle, cycle') /\ cycle'.work = w /\ cycle'.lives = m
        /\ cycle'.restored = cycle.restored /\ cycle'.refused = cycle.refused
        /\ cycle'.stopped = cycle.stopped
    BY <1>3, <2>1 DEF Fields, Frame
  <2> QED
    BY <2>1, <2>2
<1>8. /\ ledger \in Nat \ {0} /\ began \in Nat /\ began =< ledger
      /\ Lived(live) /\ Renewed(since) /\ rate \in [Entries -> Nat]
      /\ \A e \in Entries : since[e] =< ledger
      /\ \A e \in Nullifiers : live[e] # -1
  BY World
<1>9. /\ to \in Int /\ cycle.latest \in Nat /\ J \subseteq DOMAIN cycle.lives
      /\ J \subseteq Entries /\ cycle.lives \in [DOMAIN cycle.lives -> Nat]
  <2>1. Head(cycle.work) \in Jobs /\ J \subseteq DOMAIN cycle.start /\ DOMAIN cycle.start \subseteq Entries
    BY <1>2, <1>3, <1>4, JobFacts
  <2>2. /\ cycle.latest \in Nat /\ DOMAIN cycle.lives = DOMAIN cycle.start
        /\ cycle.lives \in [DOMAIN cycle.lives -> Nat]
    BY <1>3 DEF GroupOK, GroupTypes, ReadsOK, Reads
  <2> QED
    BY <1>4, <2>1, <2>2 DEF Jobs
<1>10. /\ m \in [DOMAIN cycle.lives -> Int]
       /\ \A e \in DOMAIN cycle.lives \ J : m[e] = cycle.lives[e]
       /\ \A e \in J : cycle.lives[e] < cycle.latest + to => m[e] = cycle.latest + to
  BY <1>4, <1>9 DEF Extended
<1>11. /\ live' \in [Entries -> Int] /\ \A e \in Entries \ J : live'[e] = live[e]
       /\ \A e \in J : live'[e] = IF live[e] < ledger + to THEN ledger + to ELSE live[e]
  BY <1>5, <1>8, <1>9 DEF Lived
<1>12. /\ Lived(live') /\ Renewed(since') /\ Later(live, since, live', since')
       /\ GroupOK(cycle', ledger, live', rate, since', began)
  <2>1. ledger \in Nat /\ \A e \in J : live[e] # -1
    BY <1>2, <1>4, <1>8
  <2>2. ExtendDone(cycle, cycle', ledger, live, live', since, since')
    BY <1>2, <1>4, <1>5, <1>7, <1>10, <1>11, <2>1, ZenonT(60) DEF ExtendDone
  <2> QED
    BY <1>3, <1>8, <2>1, <2>2, ExtendKeeps
<1>13. ASSUME NEW e \in Nullifiers
       PROVE  live'[e] # -1
  <2>1. e \in Entries /\ live[e] # -1
    BY <1>8 DEF Entries
  <2>2. CASE e \notin J
    BY <1>11, <2>1, <2>2
  <2>3. CASE e \in J
    <3>1. PICK l \in Nat : l = live[e]
      BY <1>8, <2>1 DEF Lived
    <3>2. live'[e] = IF l < ledger + to THEN ledger + to ELSE l
      BY <1>11, <2>3, <3>1
    <3> QED
      BY <1>8, <1>9, <3>1, <3>2
  <2> QED
    BY <2>2, <2>3
<1> QED
  BY <1>2, <1>3, <1>7, <1>12, <1>13, RenewalStep

\* A job with other entries.
LEMMA OtherEntries ==
  ASSUME NEW j \in Jobs, NEW x
  PROVE  [j EXCEPT !.es = x] = [es |-> x, to |-> j.to]
BY DEF Jobs

\* Two elements put in front at once or one by one.
LEMMA OneByOne ==
  ASSUME NEW S, NEW a \in S, NEW b \in S, NEW t \in Seq(S)
  PROVE  <<a, b>> \o t = <<a>> \o (<<b>> \o t)
<1>1. PICK u : u = <<b>> \o t
  OBVIOUS
<1>2. /\ u \in Seq(S) /\ Len(u) = Len(t) + 1 /\ u[1] = b
      /\ \A i \in 2 .. Len(t) + 1 : u[i] = t[i - 1]
  BY <1>1
<1>3. PICK v : v = <<a>> \o u
  OBVIOUS
<1>4. /\ v \in Seq(S) /\ Len(v) = Len(u) + 1 /\ v[1] = a
      /\ \A i \in 2 .. Len(u) + 1 : v[i] = u[i - 1]
  BY <1>2, <1>3
<1>5. PICK w : w = <<a, b>> \o t
  OBVIOUS
<1>6. /\ w \in Seq(S) /\ Len(w) = Len(t) + 2 /\ w[1] = a /\ w[2] = b
      /\ \A i \in 3 .. Len(t) + 2 : w[i] = t[i - 2]
  BY <1>5
<1>7. Len(t) \in Nat
  OBVIOUS
<1>8. ASSUME NEW i \in 1 .. Len(t) + 2
      PROVE  v[i] = w[i]
  <2>1. CASE i = 1
    BY <1>4, <1>6, <2>1
  <2>2. CASE i = 2
    BY <1>2, <1>4, <1>6, <1>7, <2>2
  <2>3. CASE i \notin {1, 2}
    <3>1. i \in 3 .. Len(t) + 2 /\ i \in 2 .. Len(u) + 1 /\ i - 1 \in 2 .. Len(t) + 1 /\ (i - 1) - 1 = i - 2
      BY <1>2, <1>7, <2>3
    <3>2. v[i] = u[i - 1] /\ u[i - 1] = t[(i - 1) - 1] /\ w[i] = t[i - 2]
      BY <1>2, <1>4, <1>6, <3>1
    <3> QED
      BY <3>1, <3>2
  <2> QED
    BY <2>1, <2>2, <2>3
<1>9. Len(v) = Len(t) + 2 /\ Len(w) = Len(t) + 2
  BY <1>2, <1>4, <1>6, <1>7
<1>10. v = w
  BY <1>4, <1>6, <1>8, <1>9
<1> QED
  BY <1>1, <1>3, <1>5, <1>10

\* Two jobs in front of others, the halves of one.
Halved(j, t) ==
  <<[j EXCEPT !.es = SubSeq(@, 1, Len(j.es) \div 2)],
    [j EXCEPT !.es = SubSeq(@, Len(j.es) \div 2 + 1, Len(j.es))]>> \o t

\* The halves hold the entries of the job, each once.
LEMMA TwoInFront ==
  ASSUME NEW t, Orderly(t), NEW j \in Jobs, Len(j.es) > 1, IsInjective(j.es), ToSet(j.es) \cap Entered(t) = {}
  PROVE  /\ Orderly(Halved(j, t)) /\ Entered(Halved(j, t)) = ToSet(j.es) \cup Entered(t)
         /\ \A i \in DOMAIN Halved(j, t) :
              \/ Halved(j, t)[i].to = j.to /\ ToSet(Halved(j, t)[i].es) \subseteq ToSet(j.es)
              \/ \E k \in DOMAIN t : Halved(j, t)[i] = t[k]
<1>1. j.es \in Seq(Entries) /\ j.to \in Int /\ j = [es |-> j.es, to |-> j.to]
  BY DEF Jobs
<1>2. PICK p, q : p = SubSeq(j.es, 1, Len(j.es) \div 2) /\ q = SubSeq(j.es, Len(j.es) \div 2 + 1, Len(j.es))
  OBVIOUS
<1>3. /\ p \in Seq(Entries) /\ Len(p) > 0 /\ IsInjective(p)
      /\ q \in Seq(Entries) /\ Len(q) > 0 /\ IsInjective(q)
      /\ ToSet(p) \cup ToSet(q) = ToSet(j.es) /\ ToSet(p) \cap ToSet(q) = {}
  BY <1>1, <1>2, Halves
<1>4. PICK a, b : /\ a = [es |-> p, to |-> j.to] /\ b = [es |-> q, to |-> j.to]
                  /\ a = [j EXCEPT !.es = SubSeq(@, 1, Len(j.es) \div 2)]
                  /\ b = [j EXCEPT !.es = SubSeq(@, Len(j.es) \div 2 + 1, Len(j.es))]
  <2>1. [j EXCEPT !.es = p] = [es |-> p, to |-> j.to] /\ [j EXCEPT !.es = q] = [es |-> q, to |-> j.to]
    BY OtherEntries
  <2> QED
    BY <1>2, <2>1, Zenon
<1>5. a \in Jobs /\ b \in Jobs /\ a.es = p /\ b.es = q /\ a.to = j.to /\ b.to = j.to
  BY <1>1, <1>3, <1>4 DEF Jobs
<1>6. PICK u : u = <<b>> \o t
  OBVIOUS
<1>7. /\ Orderly(u) /\ Entered(u) = ToSet(q) \cup Entered(t)
      /\ \A i \in DOMAIN u : u[i] = b \/ \E k \in DOMAIN t : u[i] = t[k]
  <2>1. ToSet(b.es) \cap Entered(t) = {}
    BY <1>3, <1>5
  <2> QED
    <3>1. Len(b.es) > 0 /\ IsInjective(b.es) /\ b \in Jobs /\ ToSet(b.es) = ToSet(q)
      BY <1>3, <1>5
    <3>2. /\ Orderly(<<b>> \o t) /\ Entered(<<b>> \o t) = ToSet(b.es) \cup Entered(t)
          /\ \A i \in DOMAIN (<<b>> \o t) : (<<b>> \o t)[i] = b \/ \E k \in DOMAIN t : (<<b>> \o t)[i] = t[k]
      BY <2>1, <3>1, JobInFront, Zenon
    <3> QED
      BY <1>6, <3>1, <3>2, Zenon
<1>8. PICK w : w = <<a>> \o u
  OBVIOUS
<1>9. /\ Orderly(w) /\ Entered(w) = ToSet(p) \cup Entered(u)
      /\ \A i \in DOMAIN w : w[i] = a \/ \E k \in DOMAIN u : w[i] = u[k]
  <2>1. ToSet(a.es) \cap Entered(u) = {}
    BY <1>3, <1>5, <1>7
  <2> QED
    <3>1. Len(a.es) > 0 /\ IsInjective(a.es) /\ a \in Jobs /\ ToSet(a.es) = ToSet(p) /\ Orderly(u)
      BY <1>3, <1>5, <1>7
    <3>2. /\ Orderly(<<a>> \o u) /\ Entered(<<a>> \o u) = ToSet(a.es) \cup Entered(u)
          /\ \A i \in DOMAIN (<<a>> \o u) : (<<a>> \o u)[i] = a \/ \E k \in DOMAIN u : (<<a>> \o u)[i] = u[k]
      BY <2>1, <3>1, JobInFront, Zenon
    <3> QED
      BY <1>8, <3>1, <3>2, Zenon
<1>10. w = <<a, b>> \o t
  <2>1. t \in Seq(Jobs)
    BY DEF Orderly
  <2>2. <<a, b>> \o t = <<a>> \o (<<b>> \o t)
    BY <1>5, <2>1, OneByOne
  <2> QED
    BY <1>6, <1>8, <2>2, Zenon
<1>11. Entered(w) = ToSet(j.es) \cup Entered(t)
  BY <1>3, <1>7, <1>9
<1>12. ToSet(a.es) \subseteq ToSet(j.es) /\ ToSet(b.es) \subseteq ToSet(j.es)
  BY <1>3, <1>5
<1>13. ASSUME NEW i \in DOMAIN w
       PROVE  \/ w[i].to = j.to /\ ToSet(w[i].es) \subseteq ToSet(j.es)
              \/ \E k \in DOMAIN t : w[i] = t[k]
  <2>1. w[i] = a \/ w[i] = b \/ \E k \in DOMAIN t : w[i] = t[k]
    BY <1>7, <1>9, Zenon
  <2> QED
    BY <1>5, <1>12, <2>1, Zenon
<1>14. w = Halved(j, t)
  BY <1>4, <1>10, Zenon DEF Halved
<1> QED
  BY <1>9, <1>11, <1>13, <1>14, Zenon

\* What a lone entry costs that is extended by the shortest step, at the most.
LEMMA LoneFee ==
  ASSUME NEW r \in Nat, NEW to \in Int, NEW l \in Nat, NEW lg \in Nat, NEW lt \in Nat, NEW m \in Nat,
         lt =< lg, m =< l, to =< m - lt + minStep,
         NEW h, h = IF lg + to > l THEN lg + to - l ELSE 0, r * h > FeeCap
  PROVE  r * (minStep + lg - lt) > FeeCap
<1>1. minStep \in Nat /\ FeeCap \in Nat
  BY TTLAssumptions
<1>2. PICK b \in Nat : b = minStep + lg - lt
  BY <1>1
<1>3. h \in Nat /\ h =< b
  BY <1>1, <1>2
<1>4. r * h \in Int /\ r * b \in Int /\ r * h =< r * b
  BY <1>3, TimesMore
<1> QED
  BY <1>1, <1>2, <1>4

\* The fee of a batch of one entry.
LEMMA OneFee ==
  ASSUME Len(Job.es) = 1, DOMAIN Job.es = {1}, cycle.phase = "extend", NEW e, e = Job.es[1],
         rate[e] \in Nat, live[e] \in Int, Job.to \in Int, ledger \in Int
  PROVE  Fee = rate[e] * (IF ledger + Job.to > live[e] THEN ledger + Job.to - live[e] ELSE 0)
<1> DEFINE hours(x) == IF cycle.phase = "restore" THEN RestoredLife
                       ELSE IF ledger + Job.to > live[x] THEN ledger + Job.to - live[x] ELSE 0
           f == [i \in DOMAIN Job.es |-> rate[Job.es[i]] * hours(Job.es[i])]
<1>1. Fee = SumTo(f, 1)
  BY Zenon DEF Fee
<1>2. f[1] = rate[e] * hours(e)
  OBVIOUS
<1>3. hours(e) = IF ledger + Job.to > live[e] THEN ledger + Job.to - live[e] ELSE 0
  OBVIOUS
<1>4. hours(e) \in Int
  BY <1>3
<1> HIDE DEF f, hours
<1>5. f[1] \in Int
  BY <1>2, <1>4
<1>6. SumTo(f, 0) = 0 /\ SumTo(f, 0 + 1) = SumTo(f, 0) + f[0 + 1]
  BY SumToDef
<1>7. SumTo(f, 1) = f[1]
  BY <1>5, <1>6
<1> QED
  BY <1>1, <1>2, <1>3, <1>7

\* refuse: a batch is split, a lone entry is extended less far, or left out.
LEMMA RefuseStep ==
  ASSUME TTLInv, refuse
  PROVE  TTLInv'
<1>1. /\ cycle # NoCycle /\ cycle.group # "judge" /\ cycle.work # <<>>
      /\ (Simulates => Fee > FeeCap) /\ UNCHANGED <<callRest, live>>
      /\ cycle' = split(cycle.lives[Job.es[1]] - cycle.latest)
  BY DEF refuse, Working
<1>2. /\ cycle.group \in Groups /\ GroupOK(cycle, ledger, live, rate, since, began)
      /\ DOMAIN cycle = Fields
  BY <1>1, Running
<1>3. PICK j, t, J : j = Job /\ t = Tail(cycle.work) /\ J = ToSet(j.es)
  OBVIOUS
<1>4. /\ j \in Jobs /\ Len(j.es) > 0 /\ IsInjective(j.es) /\ j = cycle.work[1] /\ 1 \in DOMAIN cycle.work
      /\ Orderly(t) /\ Entered(cycle.work) = J \cup Entered(t) /\ J \cap Entered(t) = {}
      /\ J \subseteq DOMAIN cycle.start /\ DOMAIN cycle.start \subseteq Entries
  BY <1>1, <1>2, <1>3, JobFacts DEF Job
<1>5. \A i \in DOMAIN t : \E k \in DOMAIN cycle.work : t[i] = cycle.work[k]
  BY <1>1, <1>2, <1>3, JobFacts
<1>6. PICK n \in Nat \ {0} : n = Len(j.es) /\ DOMAIN j.es = 1 .. n /\ j.es \in Seq(Entries) /\ j.to \in Int
  BY <1>4 DEF Jobs
<1>7. PICK e : e = j.es[1] /\ e \in J /\ e \in Entries
  BY <1>3, <1>4, <1>6 DEF ToSet
<1>8. PICK left : left = cycle.lives[e] - cycle.latest /\ cycle' = split(left)
  BY <1>1, <1>3, <1>7
<1>9. /\ cycle.latest \in Nat /\ cycle.latest =< ledger
      /\ \A x \in J : cycle.lives[x] \in Nat /\ live[x] \in Nat \cup {-1} /\ (live[x] # -1 => cycle.lives[x] =< live[x])
  <2>1. /\ cycle.latest \in Nat /\ cycle.latest =< ledger /\ DOMAIN cycle.lives = DOMAIN cycle.start
        /\ Reads(cycle.lives, live)
    BY <1>2 DEF GroupOK, GroupTypes, ReadsOK
  <2> QED
    BY <1>4, <2>1, World DEF Reads, Lived
<1>10. ASSUME cycle.phase = "extend"
       PROVE  /\ \A x \in J : cycle.lives[x] < cycle.latest + j.to
              /\ \A i \in DOMAIN t : \A x \in ToSet(t[i].es) : cycle.lives[x] < cycle.latest + t[i].to
  <2>1. \A i \in DOMAIN cycle.work : \A x \in ToSet(cycle.work[i].es) :
           cycle.lives[x] < cycle.latest + cycle.work[i].to
    BY <1>2, <1>10, Zenon DEF GroupOK, ExtendOK
  <2> QED
    BY <1>3, <1>4, <1>5, <2>1, Zenon
<1>11. CASE n > 1
  <2>1. PICK w : w = Halved(j, t)
    OBVIOUS
  <2>2. cycle' = [cycle EXCEPT !.work = w]
    BY <1>3, <1>6, <1>8, <1>11, <2>1, Zenon DEF split, Halved
  <2>3. /\ Frame(cycle, cycle') /\ cycle'.work = w /\ cycle'.lives = cycle.lives
        /\ cycle'.restored = cycle.restored /\ cycle'.refused = cycle.refused
        /\ cycle'.stopped = cycle.stopped
    BY <1>2, <2>2 DEF Fields, Frame
  <2>4. /\ Orderly(w) /\ Entered(w) = J \cup Entered(t)
        /\ \A i \in DOMAIN w : \/ w[i].to = j.to /\ ToSet(w[i].es) \subseteq J
                               \/ \E k \in DOMAIN t : w[i] = t[k]
    <3>1. Len(j.es) > 1 /\ ToSet(j.es) \cap Entered(t) = {}
      BY <1>3, <1>4, <1>6, <1>11
    <3>2. j \in Jobs /\ IsInjective(j.es) /\ Orderly(t)
      BY <1>4
    <3>3. /\ Orderly(Halved(j, t)) /\ Entered(Halved(j, t)) = ToSet(j.es) \cup Entered(t)
          /\ \A i \in DOMAIN Halved(j, t) :
               \/ Halved(j, t)[i].to = j.to /\ ToSet(Halved(j, t)[i].es) \subseteq ToSet(j.es)
               \/ \E k \in DOMAIN t : Halved(j, t)[i] = t[k]
      BY <3>1, <3>2, TwoInFront, Zenon
    <3> QED
      BY <1>3, <2>1, <3>3, Zenon
  <2>5. ASSUME cycle.phase = "extend", NEW i \in DOMAIN w, NEW x \in ToSet(w[i].es)
        PROVE  cycle.lives[x] < cycle.latest + w[i].to
    <3>1. CASE w[i].to = j.to /\ ToSet(w[i].es) \subseteq J
      BY <1>10, <2>5, <3>1
    <3>2. CASE \E k \in DOMAIN t : w[i] = t[k]
      BY <1>10, <2>5, <3>2, Zenon
    <3> QED
      BY <2>4, <3>1, <3>2
  <2>6. Orderly(cycle'.work) /\ Entered(cycle'.work) = Entered(cycle.work)
    BY <1>4, <2>3, <2>4
  <2>7. cycle.phase = "extend" =>
           \A i \in DOMAIN cycle'.work : \A x \in ToSet(cycle'.work[i].es) :
             cycle.lives[x] < cycle.latest + cycle'.work[i].to
    BY <2>3, <2>5, Zenon
  <2>8. GroupOK(cycle', ledger, live, rate, since, began)
    BY <1>2, <2>3, <2>6, <2>7, WorkRearranged
  <2> QED
    BY <1>1, <1>2, <2>3, <2>8, FrameStep
<1>12. CASE ~(n > 1) /\ cycle.phase = "extend" /\ Simulates /\ j.to > left + minStep
  <2>1. PICK s : s = left + (IF (j.to - left) \div 2 > minStep THEN (j.to - left) \div 2 ELSE minStep)
    OBVIOUS
  <2>2. PICK d : d = [j EXCEPT !.to = s]
    OBVIOUS
  <2>3. PICK w : w = <<d>> \o t
    OBVIOUS
  <2>4. cycle' = [cycle EXCEPT !.work = w]
    BY <1>3, <1>6, <1>8, <1>12, <2>1, <2>2, <2>3 DEF split
  <2>5. /\ Frame(cycle, cycle') /\ cycle'.work = w /\ cycle'.lives = cycle.lives
        /\ cycle'.restored = cycle.restored /\ cycle'.refused = cycle.refused
        /\ cycle'.stopped = cycle.stopped
    BY <1>2, <2>4 DEF Fields, Frame
  <2>6. s \in Int /\ s >= left + minStep /\ left \in Int /\ minStep \in Nat \ {0}
    <3>1. left \in Int /\ minStep \in Nat \ {0}
      BY <1>7, <1>8, <1>9, TTLAssumptions
    <3>2. PICK z \in Int : z = (j.to - left) \div 2
      BY <1>6, <3>1
    <3> QED
      BY <2>1, <3>1, <3>2
  <2>7. d \in Jobs /\ d.es = j.es /\ d.to = s
    <3>1. j = [es |-> j.es, to |-> j.to]
      BY <1>4 DEF Jobs
    <3>2. d = [es |-> j.es, to |-> s]
      BY <2>2, <3>1
    <3> QED
      BY <1>6, <2>6, <3>2 DEF Jobs
  <2>8. /\ Orderly(w) /\ Entered(w) = J \cup Entered(t)
        /\ \A i \in DOMAIN w : w[i] = d \/ \E k \in DOMAIN t : w[i] = t[k]
    BY <1>3, <1>4, <2>3, <2>7, JobInFront
  <2>9. J = {e}
    <3>1. n = 1
      BY <1>12
    <3> QED
      BY <1>3, <1>6, <1>7, <3>1 DEF ToSet
  <2>10. ASSUME NEW i \in DOMAIN w, NEW x \in ToSet(w[i].es)
        PROVE  cycle.lives[x] < cycle.latest + w[i].to
    <3>1. CASE w[i] = d
      <4>1. x = e /\ w[i].to = s
        BY <1>3, <2>7, <2>9, <2>10, <3>1
      <4>2. cycle.lives[e] \in Nat
        BY <1>7, <1>9
      <4>3. cycle.lives[e] < cycle.latest + s
        BY <1>8, <1>9, <2>6, <4>2
      <4> QED
        BY <4>1, <4>3
    <3>2. CASE \E k \in DOMAIN t : w[i] = t[k]
      BY <1>10, <1>12, <2>10, <3>2, Zenon
    <3> QED
      BY <2>8, <3>1, <3>2
  <2>11. Orderly(cycle'.work) /\ Entered(cycle'.work) = Entered(cycle.work)
    BY <1>4, <2>5, <2>8
  <2>12. \A i \in DOMAIN cycle'.work : \A x \in ToSet(cycle'.work[i].es) :
             cycle.lives[x] < cycle.latest + cycle'.work[i].to
    BY <2>5, <2>10, Zenon
  <2>13. GroupOK(cycle', ledger, live, rate, since, began)
    BY <1>2, <2>5, <2>11, <2>12, WorkRearranged
  <2> QED
    BY <1>1, <1>2, <2>5, <2>13, FrameStep
<1>13. CASE ~(n > 1) /\ ~(cycle.phase = "extend" /\ Simulates /\ j.to > left + minStep)
  <2>1. PICK x : x = cycle.refused \cup J
    OBVIOUS
  <2>2. cycle' = [cycle EXCEPT !.work = t, !.refused = x]
    BY <1>3, <1>6, <1>8, <1>13, <2>1 DEF split
  <2>3. /\ Frame(cycle, cycle') /\ cycle'.work = t /\ cycle'.lives = cycle.lives
        /\ cycle'.restored = cycle.restored /\ cycle'.refused = x
        /\ cycle'.stopped = cycle.stopped
    BY <1>2, <2>2 DEF Fields, Frame
  <2>4. J = {e} /\ DOMAIN j.es = {1} /\ Len(j.es) = 1
    <3>1. n = 1
      BY <1>13
    <3> QED
      BY <1>3, <1>6, <1>7, <3>1 DEF ToSet
  <2>5. live[e] = -1 \/ live[e] < ledger \/ rate[e] * (minStep + ledger - cycle.latest) > FeeCap
    <3>1. CASE cycle.phase = "restore"
      <4>1. e \in Entered(cycle.work)
        BY <1>4, <1>7
      <4> QED
        BY <1>2, <3>1, <4>1, Zenon DEF GroupOK, RestoreOK
    <3>2. CASE cycle.phase = "extend" /\ ~Simulates
      <4>1. ~(live[e] # -1 /\ live[e] >= ledger)
        BY <1>3, <1>7, <2>4, <3>2, Zenon DEF Simulates, exists
      <4>2. live[e] \in Int /\ ledger \in Int
        BY <1>7, <1>9, World
      <4> QED
        BY <4>1, <4>2
    <3>3. CASE cycle.phase = "extend" /\ Simulates /\ live[e] # -1
      <4>1. PICK m \in Nat, l \in Nat, lt \in Nat, lg \in Nat, r \in Nat :
               /\ m = cycle.lives[e] /\ l = live[e] /\ lt = cycle.latest /\ lg = ledger /\ r = rate[e]
               /\ m =< l /\ lt =< lg
        <5>1. ledger \in Nat /\ rate \in [Entries -> Nat]
          BY World
        <5>2. /\ cycle.lives[e] \in Nat /\ live[e] \in Nat /\ cycle.lives[e] =< live[e]
              /\ cycle.latest \in Nat /\ cycle.latest =< ledger
          BY <1>7, <1>9, <3>3
        <5>3. rate[e] \in Nat
          BY <1>7, <5>1
        <5> QED
          BY <5>1, <5>2, <5>3, Zenon
      <4>2. minStep \in Nat
        BY TTLAssumptions
      <4>3. j.to =< m - lt + minStep
        BY <1>6, <1>8, <1>13, <3>3, <4>1, <4>2
      <4>4. PICK h : h = IF lg + j.to > l THEN lg + j.to - l ELSE 0
        OBVIOUS
      <4>5. Fee = r * h
        <5>1. rate[e] \in Nat /\ live[e] \in Int /\ Job.to \in Int /\ ledger \in Int
          BY <1>3, <1>6, <4>1
        <5>2. Fee = rate[e] * (IF ledger + Job.to > live[e] THEN ledger + Job.to - live[e] ELSE 0)
          BY <1>3, <1>7, <2>4, <3>3, <5>1, OneFee
        <5> QED
          BY <1>3, <4>1, <4>4, <5>2
      <4>6. r * h > FeeCap
        BY <1>1, <3>3, <4>5
      <4>7. r * (minStep + lg - lt) > FeeCap
        BY <1>6, <4>1, <4>3, <4>4, <4>6, LoneFee
      <4> QED
        BY <4>1, <4>7
    <3>4. cycle.phase \in {"restore", "extend"}
      BY <1>2 DEF GroupOK, GroupTypes
    <3> QED
      BY <3>1, <3>2, <3>3, <3>4
  <2>6. GroupOK(cycle', ledger, live, rate, since, began)
    <3>1. \A y \in J : live[y] = -1 \/ live[y] < ledger \/ rate[y] * (minStep + ledger - cycle.latest) > FeeCap
      BY <2>4, <2>5
    <3>2. cycle'.work = Tail(cycle.work) /\ cycle'.refused = cycle.refused \cup J /\ J = ToSet(Head(cycle.work).es)
      BY <1>3, <2>1, <2>3 DEF Job
    <3> QED
      BY <1>1, <1>2, <2>3, <3>1, <3>2, LeftOutKeeps
  <2> QED
    BY <1>1, <1>2, <2>3, <2>6, FrameStep
<1> QED
  BY <1>11, <1>12, <1>13

\* stop: the cycle has spent enough, or a transaction failed.
LEMMA StopStep ==
  ASSUME TTLInv, stop
  PROVE  TTLInv'
<1>1. /\ cycle # NoCycle /\ cycle.group # "judge" /\ UNCHANGED <<callRest, live>>
      /\ cycle' = [cycle EXCEPT !.work = <<>>, !.stopped = TRUE]
  BY DEF stop, Working
<1>2. /\ cycle.group \in Groups /\ GroupOK(cycle, ledger, live, rate, since, began)
      /\ DOMAIN cycle = Fields
  BY <1>1, Running
<1>3. /\ Frame(cycle, cycle') /\ cycle'.work = <<>> /\ cycle'.lives = cycle.lives
      /\ cycle'.restored = cycle.restored /\ cycle'.refused = cycle.refused /\ cycle'.stopped = TRUE
  BY <1>1, <1>2 DEF Fields, Frame
<1>4. GroupOK(cycle', ledger, live, rate, since, began)
  BY <1>2, <1>3, StopKeeps
<1> QED
  BY <1>1, <1>2, <1>3, <1>4, FrameStep

\* extend: the restorations are over.
LEMMA PhaseStep ==
  ASSUME TTLInv, extend
  PROVE  TTLInv'
<1>1. /\ cycle # NoCycle /\ cycle.group # "judge" /\ UNCHANGED <<callRest, live>>
      /\ cycle.phase = "restore" /\ cycle.work = <<>>
  BY DEF extend
<1>2. /\ cycle.group \in Groups /\ GroupOK(cycle, ledger, live, rate, since, began)
      /\ DOMAIN cycle = Fields
  BY <1>1, Running
<1>a. PICK found \in BOOLEAN :
        LET lives == [e \in DOMAIN cycle.lives |->
                        IF found /\ e \in cycle.restored THEN ReadLife(e) ELSE cycle.lives[e]]
            due   == {e \in DOMAIN lives : lives[e] # 0 /\ lives[e] < cycle.latest + renewAt(cycle.group)}
        IN cycle' = [cycle EXCEPT !.phase = "extend", !.lives = lives,
                       !.failures = @ \/ cycle.stopped \/ ~found, !.stopped = FALSE,
                       !.work = inBatches(due, extendTo(cycle.group))]
  <2>1. PICK found \in {TRUE} \cup (IF cycle.restored = {} THEN {} ELSE {FALSE}) :
        LET lives == [e \in DOMAIN cycle.lives |->
                        IF found /\ e \in cycle.restored THEN ReadLife(e) ELSE cycle.lives[e]]
            due   == {e \in DOMAIN lives : lives[e] # 0 /\ lives[e] < cycle.latest + renewAt(cycle.group)}
        IN cycle' = [cycle EXCEPT !.phase = "extend", !.lives = lives,
                       !.failures = @ \/ cycle.stopped \/ ~found, !.stopped = FALSE,
                       !.work = inBatches(due, extendTo(cycle.group))]
    BY Zenon DEF extend
  <2>2. found \in BOOLEAN
    OBVIOUS
  <2> QED
    BY <2>1, <2>2, Zenon
<1>b. PICK m : m = [e \in DOMAIN cycle.lives |->
                      IF found /\ e \in cycle.restored THEN ReadLife(e) ELSE cycle.lives[e]]
  OBVIOUS
<1>c. PICK due : due = {e \in DOMAIN m : m[e] # 0 /\ m[e] < cycle.latest + renewAt(cycle.group)}
  OBVIOUS
<1>d. PICK f : f = (cycle.failures \/ cycle.stopped \/ ~found)
  OBVIOUS
<1>e. PICK w : w = inBatches(due, extendTo(cycle.group))
  OBVIOUS
<1>f. cycle' = [cycle EXCEPT !.phase = "extend", !.lives = m,
                  !.failures = (cycle.failures \/ cycle.stopped \/ ~found), !.stopped = FALSE, !.work = w]
  BY <1>a, <1>b, <1>c, <1>e, Zenon
<1>g. cycle' = [cycle EXCEPT !.phase = "extend", !.lives = m, !.failures = f,
                  !.stopped = FALSE, !.work = w]
  BY <1>d, <1>f, Zenon
<1>3. /\ m = [e \in DOMAIN cycle.lives |->
                IF found /\ e \in cycle.restored THEN ReadLife(e) ELSE cycle.lives[e]]
      /\ due = {e \in DOMAIN m : m[e] # 0 /\ m[e] < cycle.latest + renewAt(cycle.group)}
      /\ f = (cycle.failures \/ cycle.stopped \/ ~found)
      /\ w = inBatches(due, extendTo(cycle.group))
      /\ cycle' = [cycle EXCEPT !.phase = "extend", !.lives = m, !.failures = f,
                     !.stopped = FALSE, !.work = w]
  BY <1>b, <1>c, <1>d, <1>e, <1>g, Zenon
<1>4. /\ DOMAIN cycle' = Fields /\ cycle'.group = cycle.group /\ cycle'.phase = "extend"
      /\ cycle'.latest = cycle.latest /\ cycle'.start = cycle.start /\ cycle'.queue = cycle.queue
      /\ cycle'.restored = cycle.restored /\ cycle'.refused = cycle.refused /\ cycle'.stopped = FALSE
      /\ cycle'.failures = f /\ cycle'.lives = m /\ cycle'.work = w
  <2>1. cycle' = [cycle EXCEPT !.phase = "extend", !.lives = m, !.failures = f,
                    !.stopped = FALSE, !.work = w]
    BY <1>3
  <2> QED
    BY <1>2, <2>1 DEF Fields
<1>5. ledger \in Nat \ {0} /\ Lived(live)
  BY World
<1>6. /\ m \in [DOMAIN cycle.lives -> Nat]
      /\ \A e \in DOMAIN cycle.lives : m[e] = cycle.lives[e] \/
                                       (e \in cycle.restored /\ (live[e] # -1 => m[e] =< live[e]))
  <2>1. cycle.lives \in [DOMAIN cycle.lives -> Nat] /\ DOMAIN cycle.lives \subseteq Entries
    BY <1>2 DEF GroupOK, ReadsOK, Reads
  <2>2. ASSUME NEW e \in DOMAIN cycle.lives
        PROVE  /\ m[e] \in Nat
               /\ m[e] = cycle.lives[e] \/ (e \in cycle.restored /\ (live[e] # -1 => m[e] =< live[e]))
    <3>1. CASE found /\ e \in cycle.restored
      <4>1. m[e] = ReadLife(e)
        BY <1>3, <3>1
      <4>2. PICK l \in Nat \cup {-1} : l = live[e]
        BY <1>5, <2>1 DEF Lived
      <4>3. ReadLife(e) \in Nat /\ (l # -1 => ReadLife(e) =< l)
        BY <1>5, <4>2 DEF ReadLife
      <4> QED
        BY <3>1, <4>1, <4>2, <4>3
    <3>2. CASE ~(found /\ e \in cycle.restored)
      <4>1. m[e] = cycle.lives[e]
        BY <1>3, <3>2
      <4> QED
        BY <2>1, <4>1
    <3> QED
      BY <3>1, <3>2
  <2>3. m = [e \in DOMAIN cycle.lives |-> m[e]]
    BY <1>3
  <2>4. m \in [DOMAIN cycle.lives -> Nat]
    BY <2>2, <2>3
  <2> QED
    BY <2>2, <2>4
<1>7. GroupOK(cycle', ledger, live, rate, since, began)
  <2>1. cycle.failures \/ cycle.stopped => cycle'.failures
    BY <1>3, <1>4
  <2>2. ledger \in Nat
    BY <1>5
  <2>3. /\ cycle'.lives \in [DOMAIN cycle.lives -> Nat]
        /\ \A e \in DOMAIN cycle.lives : cycle'.lives[e] = cycle.lives[e] \/
             (e \in cycle.restored /\ (live[e] # -1 => cycle'.lives[e] =< live[e]))
    BY <1>4, <1>6, Zenon
  <2>4. /\ due = {e \in DOMAIN cycle'.lives : cycle'.lives[e] # 0 /\ cycle'.lives[e] < cycle.latest + renewAt(cycle.group)}
        /\ cycle'.work = inBatches(due, extendTo(cycle.group))
    BY <1>3, <1>4, Zenon
  <2> QED
    BY <1>1, <1>2, <1>4, <1>5, <2>1, <2>2, <2>3, <2>4, ExtendPhase
<1>8. ~cycle'.failures => \A e \in Before(cycle'.group) : Sound(e, live, since, began)
  <2>1. ~cycle'.failures => ~cycle.failures
    BY <1>3, <1>4
  <2>2. cycle.group # "none"
    BY <1>2, GroupNames
  <2> QED
    BY <1>4, <2>1, <2>2, Zenon DEF TTLInv, GroupsInv
<1> QED
  BY <1>1, <1>7, <1>8, GroupStep

\* BeginCycle: the entries the vault writes and those of its queues are read.
LEMMA BeginStep ==
  ASSUME TTLInv, BeginCycle
  PROVE  TTLInv'
<1>1. /\ cycle = NoCycle /\ began' = ledger
      /\ UNCHANGED <<ledger, live, rate, live_until, lastCycle, paged, since, took>>
      /\ \/ cycle' = Group("own", read(Own), ledger, read(Queued), FALSE, FALSE)
         \/ cycle' = NoCycle
  BY DEF BeginCycle
<1>2. /\ ledger \in Nat \ {0} /\ Lived(live) /\ Renewed(since) /\ rate \in [Entries -> Nat]
      /\ \A e \in Entries : since[e] =< ledger
      /\ \A e \in Nullifiers : live[e] # -1
  BY World
<1>3. WorldOK(ledger, live, rate, since, began)'
  BY <1>1, <1>2 DEF WorldOK, Lived, Renewed
<1>4. ClockInv' /\ StaleInv'
  BY <1>1 DEF TTLInv, ClockInv, StaleInv
<1>5. CleanInv' /\ RecordedInv'
  BY <1>1 DEF TTLInv, CleanInv, Sound, RecordedInv, RecordedLifeLeast
<1>6. CycleInv' /\ GroupsInv'
  <2>1. CASE cycle' = NoCycle
    BY <2>1, GroupNames DEF CycleInv, GroupsInv, NoCycle
  <2>2. CASE cycle' = Group("own", read(Own), ledger, read(Queued), FALSE, FALSE)
    <3>1. Own \subseteq Entries /\ Queued \subseteq Entries /\ "own" \in Groups /\ Members("own") = Own
      BY DEF Entries, Groups, Members
    <3>2. /\ Reads(read(Own), live) /\ DOMAIN read(Own) \subseteq Own
          /\ \A e \in Own : live[e] # -1 => e \in DOMAIN read(Own)
          /\ \A e \in DOMAIN read(Own) : read(Own)[e] = 0 => live[e] < ledger
      BY <3>1, ReadFacts
    <3>3. /\ Reads(read(Queued), live) /\ DOMAIN read(Queued) \subseteq Queued
          /\ \A e \in Queued : live[e] # -1 => e \in DOMAIN read(Queued)
          /\ \A e \in DOMAIN read(Queued) : read(Queued)[e] = 0 => live[e] < ledger
      BY <3>1, ReadFacts
    <3>4. \A e \in Members("own") : e \notin DOMAIN read(Own) => Sound(e, live, since, ledger)
      BY <3>1, <3>2 DEF Sound
    <3>5. ledger \in Nat /\ ledger =< ledger
      BY <1>2
    <3>6. /\ GroupOK(cycle', ledger, live, rate, since, ledger) /\ cycle'.group = "own"
      <4>1. ReadOf("own", read(Own), read(Queued), ledger, live, since, ledger)
        BY <3>1, <3>2, <3>3, <3>4, Zenon DEF ReadOf
      <4>2. PICK f, m, q : f = FALSE /\ m = read(Own) /\ q = read(Queued)
        OBVIOUS
      <4>3. cycle' = Group("own", m, ledger, q, f, f) /\ ReadOf("own", m, q, ledger, live, since, ledger)
        BY <2>2, <4>1, <4>2
      <4>4. /\ GroupOK(Group("own", m, ledger, q, f, f), ledger, live, rate, since, ledger)
            /\ Group("own", m, ledger, q, f, f).group = "own"
        BY <3>1, <3>5, <4>3, FreshGroup
      <4> QED
        BY <4>3, <4>4
    <3>7. cycle' # NoCycle /\ "own" # "none"
      BY <3>6 DEF NoCycle
    <3>8. CycleInv'
      BY <1>1, <3>1, <3>6, <3>7 DEF CycleInv
    <3>9. GroupsInv'
      BY <3>6 DEF GroupsInv, Before
    <3> QED
      BY <3>8, <3>9
  <2> QED
    BY <1>1, <2>1, <2>2
<1> QED
  BY <1>3, <1>4, <1>5, <1>6 DEF TTLInv

\* A group that is done: unless something failed, its entries are dealt with too.
LEMMA DoneFacts ==
  ASSUME TTLInv, NEW g \in Groups, Done(g)
  PROVE  /\ cycle.group = g /\ GroupOK(cycle, ledger, live, rate, since, began)
         /\ ~(cycle.failures \/ Failed) =>
              \A e \in Before(g) \cup Members(g) : Sound(e, live, since, began)
<1>1. cycle # NoCycle /\ cycle.group = g /\ cycle.phase = "extend" /\ cycle.work = <<>>
  BY DEF Done
<1>2. g # "judge" /\ g # "none"
  BY GroupNames
<1>3. GroupOK(cycle, ledger, live, rate, since, began)
  BY <1>1, <1>2, Running
<1>4. ASSUME ~(cycle.failures \/ Failed)
      PROVE  \A e \in Before(g) \cup Members(g) : Sound(e, live, since, began)
  <2>1. ~cycle.failures /\ ~cycle.stopped /\ cycle.refused = {}
    BY <1>4 DEF Failed
  <2>2. \A e \in Before(g) : Sound(e, live, since, began)
    BY <1>1, <1>2, <2>1, Zenon DEF TTLInv, GroupsInv
  <2>3. began \in Nat /\ Lived(live) /\ Renewed(since)
    BY World
  <2>4. \A e \in Members(g) : Sound(e, live, since, began)
    BY <1>1, <1>3, <2>1, <2>3, Completed
  <2> QED
    BY <2>2, <2>4
<1> QED
  BY <1>1, <1>3, <1>4

\* The next group begins.
LEMMA AfterStep ==
  ASSUME TTLInv, NEW g \in Groups, Done(g), NEW g2 \in Groups, NEW m, NEW lt \in Nat, began =< lt, lt =< ledger,
         cycle' = AfterGroup(g2, m, lt), ReadOf(g2, m, <<>>, ledger, live, since, began),
         Before(g2) \subseteq Before(g) \cup Members(g), UNCHANGED <<callRest, live>>
  PROVE  TTLInv'
<1>1. PICK f, u : f = (cycle.failures \/ Failed) /\ u = (cycle.urgent \/ urgent)
  OBVIOUS
<1>2. cycle' = Group(g2, m, lt, <<>>, f, u)
  BY <1>1, Zenon DEF AfterGroup
<1>3. ledger \in Nat /\ began \in Nat
  BY World
<1>4. /\ GroupOK(Group(g2, m, lt, <<>>, f, u), ledger, live, rate, since, began)
      /\ Group(g2, m, lt, <<>>, f, u).group = g2 /\ Group(g2, m, lt, <<>>, f, u).failures = f
  BY <1>3, FreshGroup
<1>5. GroupOK(cycle', ledger, live, rate, since, began) /\ cycle'.group = g2 /\ cycle'.failures = f
  BY <1>2, <1>4
<1>6. ~f => \A e \in Before(g2) : Sound(e, live, since, began)
  <2>1. ~(cycle.failures \/ Failed) => \A e \in Before(g) \cup Members(g) : Sound(e, live, since, began)
    BY DoneFacts
  <2>2. \A e \in Before(g2) : e \in Before(g) \cup Members(g)
    OBVIOUS
  <2>3. ~f => ~(cycle.failures \/ Failed)
    BY <1>1
  <2> QED
    BY <2>1, <2>2, <2>3, Zenon
<1> QED
  BY <1>5, <1>6, GroupStep

\* The entries before a group and its own are those before the next.
LEMMA InTurn ==
  /\ Before("queued") \subseteq Before("own") \cup Members("own")
  /\ Before("asset") \subseteq Before("queued") \cup Members("queued")
  /\ Before("nullifiers") \subseteq Before("asset") \cup Members("asset")
  /\ Entries \subseteq Before("nullifiers") \cup Members("nullifiers")
  /\ Members("queued") = Queued /\ Members("asset") = Asset /\ Members("nullifiers") = Nullifiers
  /\ {"own", "queued", "asset", "nullifiers"} \subseteq Groups
  /\ Queued \subseteq Entries /\ Asset \subseteq Entries /\ Nullifiers \subseteq Entries
BY DEF Before, Members, Groups, Entries

\* The cycle ends without its groups.
LEMMA OtherStep ==
  ASSUME TTLInv, UNCHANGED <<callRest, live>>,
         cycle' = NoCycle \/ (cycle'.group = "judge" /\ cycle'.failures = TRUE)
  PROVE  TTLInv'
<1>1. CASE cycle' = NoCycle
  <2>1. cycle'.group = "none"
    BY <1>1 DEF NoCycle
  <2> QED
    BY <1>1, <2>1, GroupNames, CycleStep DEF CycleInv, GroupsInv
<1>2. CASE cycle'.group = "judge" /\ cycle'.failures = TRUE
  <2>1. cycle' # NoCycle
    BY <1>2 DEF NoCycle
  <2> QED
    BY <1>2, <2>1, GroupNames, CycleStep DEF CycleInv, GroupsInv
<1> QED
  BY <1>1, <1>2

\* nextGroup: the next entries are read, or reading them fails.
LEMMA NextGroupStep ==
  ASSUME TTLInv, nextGroup
  PROVE  TTLInv'
<1>1. UNCHANGED <<callRest, live>>
  BY DEF nextGroup
<1>2. ledger \in Nat \ {0} /\ began \in Nat /\ began =< ledger
  BY World
<1>3. ASSUME NEW g \in Groups, Done(g)
      PROVE  cycle.latest \in Nat /\ began =< cycle.latest /\ cycle.latest =< ledger
  BY <1>3, DoneFacts DEF GroupOK, GroupTypes
<1>4. CASE Done("own") /\ cycle' = AfterGroup("queued", cycle.queue, cycle.latest)
  <2>1. QueueOK(cycle, ledger, live) /\ cycle.group = "own"
    BY <1>4, InTurn, DoneFacts DEF GroupOK
  <2>2. /\ Reads(cycle.queue, live) /\ DOMAIN cycle.queue \subseteq Queued
        /\ \A e \in Queued : live[e] # -1 => e \in DOMAIN cycle.queue
        /\ \A e \in DOMAIN cycle.queue : cycle.queue[e] = 0 => live[e] < ledger
    BY <2>1, Zenon DEF QueueOK
  <2>3. \A e \in Members("queued") : e \notin DOMAIN cycle.queue => Sound(e, live, since, began)
    BY <2>2, InTurn, Zenon DEF Sound
  <2>4. ReadOf("queued", cycle.queue, <<>>, ledger, live, since, began)
    <3>1. "queued" # "own" /\ Members("queued") = Queued
      BY InTurn
    <3> QED
      BY <2>2, <2>3, <3>1, Zenon DEF ReadOf
  <2>5. cycle.latest \in Nat /\ began =< cycle.latest /\ cycle.latest =< ledger
    BY <1>3, <1>4, InTurn
  <2> QED
    BY <1>1, <1>4, <2>4, <2>5, InTurn, AfterStep
<1>5. CASE Done("queued") /\ cycle' = AfterGroup("asset", read(Asset), cycle.latest)
  <2>1. PICK m : m = read(Asset)
    OBVIOUS
  <2>2. /\ Reads(m, live) /\ DOMAIN m \subseteq Asset
        /\ \A e \in Asset : live[e] # -1 => e \in DOMAIN m
        /\ \A e \in DOMAIN m : m[e] = 0 => live[e] < ledger
    BY <2>1, InTurn, ReadFacts
  <2>3. \A e \in Members("asset") : e \notin DOMAIN m => Sound(e, live, since, began)
    BY <2>2, InTurn, Zenon DEF Sound
  <2>4. ReadOf("asset", m, <<>>, ledger, live, since, began)
    <3>1. "asset" # "own" /\ Members("asset") = Asset
      BY InTurn
    <3> QED
      BY <2>2, <2>3, <3>1, Zenon DEF ReadOf
  <2>5. cycle.latest \in Nat /\ began =< cycle.latest /\ cycle.latest =< ledger
    BY <1>3, <1>5, InTurn
  <2> QED
    BY <1>1, <1>5, <2>1, <2>4, <2>5, InTurn, AfterStep
<1>6. CASE Done("asset") /\ cycle' = AfterGroup("nullifiers", read(selected), ledger)
  <2>1. PICK m : m = read(selected)
    OBVIOUS
  <2>2. selected \subseteq Nullifiers /\ selected \subseteq Entries
    BY InTurn DEF selected
  <2>3. /\ Reads(m, live) /\ DOMAIN m \subseteq Nullifiers
        /\ \A e \in selected : live[e] # -1 => e \in DOMAIN m
        /\ \A e \in DOMAIN m : m[e] = 0 => live[e] < ledger
    BY <2>1, <2>2, ReadFacts
  <2>4. ASSUME NEW e \in Nullifiers, e \notin DOMAIN m
        PROVE  Sound(e, live, since, began)
    <3>1. live[e] # -1 /\ e \in Entries /\ live[e] \in Int
      BY World, InTurn DEF Lived
    <3>2. e \notin selected
      BY <2>3, <2>4, <3>1
    <3>3. live_until[e] \in Nat /\ live_until[e] =< live[e]
      BY DEF TTLInv, RecordedInv, RecordedLifeLeast
    <3>4. renewWithin \in Nat /\ renewStep \in Nat /\ warnWithin \in Nat /\ warnWithin =< renewWithin
      BY TTLAssumptions
    <3>5. ~(live_until[e] < ledger + renewWithin + renewStep)
      BY <3>2 DEF selected
    <3>6. live[e] >= began + warnWithin
      BY <1>2, <3>1, <3>3, <3>4, <3>5
    <3> QED
      BY <3>6 DEF Sound
  <2>5. ReadOf("nullifiers", m, <<>>, ledger, live, since, began)
    <3>1. "nullifiers" # "own" /\ Members("nullifiers") = Nullifiers
      BY InTurn
    <3> QED
      BY <2>3, <2>4, <3>1, Zenon DEF ReadOf
  <2>6. ledger \in Nat /\ ledger =< ledger
    BY <1>2
  <2> QED
    BY <1>1, <1>2, <1>6, <2>1, <2>5, <2>6, InTurn, AfterStep
<1>7. CASE cycle' = NoCycle
  BY <1>1, <1>7, OtherStep
<1>8. CASE cycle' = [group |-> "judge", failures |-> TRUE, urgent |-> cycle.urgent \/ urgent]
  <2>1. cycle'.group = "judge" /\ cycle'.failures = TRUE
    BY <1>8
  <2> QED
    BY <1>1, <2>1, OtherStep
<1> QED
  BY <1>4, <1>5, <1>6, <1>7, <1>8, Zenon DEF nextGroup

\* nullifierRun: the lives of the nullifiers are recorded, all of them or some.
LEMMA NullifierStep ==
  ASSUME TTLInv, nullifierRun
  PROVE  TTLInv'
<1>1. /\ Done("nullifiers")
      /\ UNCHANGED <<ledger, live, rate, charged, lastCycle, ran, paged, since, began, took>>
  BY DEF nullifierRun
<1>2. PICK written \in SUBSET DOMAIN cycle.lives :
        /\ live_until' = [e \in Nullifiers |-> IF e \in written /\ cycle.lives[e] # 0
                                               THEN cycle.lives[e] ELSE live_until[e]]
        /\ cycle' = [group |-> "judge",
                     failures |-> cycle.failures \/ Failed \/ written # DOMAIN cycle.lives,
                     urgent |-> cycle.urgent \/ (Failed /\ urgent)]
  BY Zenon DEF nullifierRun
<1>3. /\ cycle.group = "nullifiers" /\ GroupOK(cycle, ledger, live, rate, since, began)
      /\ ~(cycle.failures \/ Failed) =>
           \A e \in Before("nullifiers") \cup Members("nullifiers") : Sound(e, live, since, began)
  BY <1>1, InTurn, DoneFacts
<1>4. /\ cycle'.group = "judge"
      /\ cycle'.failures = (cycle.failures \/ Failed \/ written # DOMAIN cycle.lives)
  BY <1>2
<1>5. WorldOK(ledger, live, rate, since, began)' /\ ClockInv'
  BY <1>1 DEF TTLInv, WorldOK, ClockInv
<1>6. StaleInv' /\ CleanInv'
  BY <1>1 DEF TTLInv, StaleInv, CleanInv, Sound
<1>7. RecordedInv'
  <2>1. live_until \in [Nullifiers -> Nat] /\ \A e \in Nullifiers : live_until[e] =< live[e]
    BY DEF TTLInv, RecordedInv, RecordedLifeLeast
  <2>2. Reads(cycle.lives, live)
    BY <1>3 DEF GroupOK, ReadsOK
  <2>3. ASSUME NEW e \in Nullifiers
        PROVE  live_until'[e] \in Nat /\ live_until'[e] =< live[e]
    <3>1. CASE e \in written /\ cycle.lives[e] # 0
      <4>1. live_until'[e] = cycle.lives[e] /\ e \in DOMAIN cycle.lives
        BY <1>2, <3>1
      <4>2. live[e] # -1
        BY World
      <4> QED
        BY <2>2, <4>1, <4>2 DEF Reads
    <3>2. CASE ~(e \in written /\ cycle.lives[e] # 0)
      <4>1. live_until'[e] = live_until[e]
        BY <1>2, <3>2
      <4> QED
        BY <2>1, <4>1
    <3> QED
      BY <3>1, <3>2
  <2>4. live_until' = [e \in Nullifiers |-> live_until'[e]]
    BY <1>2
  <2>5. live_until' \in [Nullifiers -> Nat]
    BY <2>3, <2>4
  <2> QED
    BY <1>1, <2>3, <2>5 DEF RecordedInv, RecordedLifeLeast
<1>8. CycleInv'
  <2>1. cycle' # NoCycle
    BY <1>4 DEF NoCycle
  <2> QED
    BY <1>4, <2>1, GroupNames DEF CycleInv
<1>9. GroupsInv'
  <2>1. SUFFICES ASSUME ~cycle'.failures, NEW e \in Before("judge")
                 PROVE  Sound(e, live, since, began)
    BY <1>1, <1>4 DEF GroupsInv, Sound
  <2>2. ~(cycle.failures \/ Failed)
    BY <1>4, <2>1
  <2>3. e \in Entries
    BY DEF Before
  <2>4. e \in Before("nullifiers") \cup Members("nullifiers")
    BY <2>3, InTurn
  <2> QED
    BY <1>3, <2>2, <2>4
<1> QED
  BY <1>5, <1>6, <1>7, <1>8, <1>9 DEF TTLInv

\* judge: the cycle was complete, or it pages for what is urgent.
LEMMA JudgeStep ==
  ASSUME TTLInv, judge
  PROVE  TTLInv'
<1>1. /\ cycle # NoCycle /\ cycle.group = "judge" /\ cycle' = NoCycle
      /\ lastCycle' = (IF complete THEN ledger ELSE lastCycle)
      /\ took' = (IF complete THEN ledger - began ELSE took)
      /\ paged' = (IF complete THEN {} ELSE IF cycle.urgent THEN paged \cup {"entry_expiring"} ELSE paged)
      /\ UNCHANGED <<ledger, live, rate, live_until, since, began>>
  BY DEF judge
<1>2. ledger \in Nat \ {0} /\ began \in Nat /\ began =< ledger /\ StaleAfter \in Nat
  BY World, TTLAssumptions
<1>3. WorldOK(ledger, live, rate, since, began)' /\ RecordedInv'
  BY <1>1 DEF TTLInv, WorldOK, RecordedInv, RecordedLifeLeast
<1>4. cycle'.group = "none"
  BY <1>1 DEF NoCycle
<1>5. CycleInv' /\ GroupsInv'
  BY <1>1, <1>4, GroupNames DEF CycleInv, GroupsInv
<1>6. CASE complete
  <2>1. lastCycle' = ledger /\ took' = ledger - began /\ paged' = {}
    BY <1>1, <1>6
  <2>2. ClockInv'
    BY <1>1, <1>2, <2>1 DEF ClockInv
  <2>3. StaleInv'
    BY <1>1, <1>2, <2>1 DEF StaleInv
  <2>4. \A e \in Entries : Sound(e, live, since, began)
    <3>1. Before("judge") = Entries
      BY DEF Before
    <3>2. ~cycle.failures
      BY <1>6 DEF complete
    <3> QED
      BY <1>1, <3>1, <3>2 DEF TTLInv, GroupsInv
  <2>5. CleanInv'
    <3>1. lastCycle' - took' = began
      BY <1>2, <2>1
    <3> QED
      BY <1>1, <2>4, <3>1, Zenon DEF CleanInv, Sound
  <2> QED
    BY <1>3, <1>5, <2>2, <2>3, <2>5 DEF TTLInv
<1>7. CASE ~complete
  <2>1. lastCycle' = lastCycle /\ took' = took
    BY <1>1, <1>7
  <2>2. \A x : x \in paged => x \in paged'
    BY <1>1, <1>7
  <2>3. ClockInv'
    BY <1>1, <2>1 DEF TTLInv, ClockInv
  <2>4. StaleInv'
    BY <1>1, <2>1, <2>2 DEF TTLInv, StaleInv
  <2>5. CleanInv'
    BY <1>1, <2>1 DEF TTLInv, CleanInv, Sound
  <2> QED
    BY <1>3, <1>5, <2>3, <2>4, <2>5 DEF TTLInv
<1> QED
  BY <1>6, <1>7

\* A step of the watch or of the alerts, which the cycle does not see.
LEMMA WatchStep ==
  ASSUME TTLInv, Watch
  PROVE  TTLInv'
<1>1. /\ UNCHANGED <<ledger, live, rate, live_until, cycle, since, began, took>>
      /\ IF lastCycle = -1 THEN lastCycle' = ledger /\ UNCHANGED paged
         ELSE paged' = paged \cup {"ttl_cycle_stale"} /\ UNCHANGED lastCycle
  BY DEF Watch
<1>2. ledger \in Nat \ {0} /\ StaleAfter \in Nat
  BY World, TTLAssumptions
<1>3. WorldOK(ledger, live, rate, since, began)' /\ RecordedInv'
  BY <1>1 DEF TTLInv, WorldOK, RecordedInv, RecordedLifeLeast
<1>4. CycleInv'
  BY <1>1 DEF TTLInv, CycleInv
<1>5. GroupsInv'
  BY <1>1 DEF TTLInv, GroupsInv, Sound
<1>6. CASE lastCycle = -1
  <2>1. /\ lastCycle' = ledger /\ paged' = paged /\ took = 0 /\ \A e \in Entries : since[e] = ledger
    BY <1>1, <1>6 DEF TTLInv, ClockInv
  <2>2. ClockInv'
    BY <1>1, <1>2, <2>1 DEF ClockInv
  <2>3. StaleInv'
    BY <1>1, <1>2, <2>1 DEF StaleInv
  <2>4. CleanInv'
    <3>1. lastCycle' - took' = ledger
      BY <1>1, <1>2, <2>1
    <3>2. ledger >= ledger
      BY <1>2
    <3>3. \A e \in Entries : Sound(e, live', since', ledger)
      BY <1>1, <2>1, <3>2 DEF Sound
    <3> QED
      BY <3>1, <3>3, Zenon DEF CleanInv, Sound
  <2> QED
    BY <1>3, <1>4, <1>5, <2>2, <2>3, <2>4 DEF TTLInv
<1>7. CASE lastCycle # -1
  <2>1. lastCycle' = lastCycle /\ "ttl_cycle_stale" \in paged'
    BY <1>1, <1>7
  <2>2. ClockInv' /\ StaleInv' /\ CleanInv'
    BY <1>1, <2>1 DEF TTLInv, ClockInv, StaleInv, CleanInv, Sound
  <2> QED
    BY <1>3, <1>4, <1>5, <2>2 DEF TTLInv
<1> QED
  BY <1>6, <1>7

\* A step of the network, in which entries live on or are deleted.
LEMMA WorldStep ==
  ASSUME TTLInv, UNCHANGED <<live_until, cycle, lastCycle, paged, since, began, took>>,
         ledger' \in Nat, ledger =< ledger', Lived(live'), rate' \in [Entries -> Nat],
         \A e \in Entries : live'[e] = live[e] \/ live'[e] = -1,
         \A e \in Nullifiers : live'[e] = live[e],
         cycle = NoCycle \/ rate' = rate,
         lastCycle = -1 => ledger' = ledger, StaleInv'
  PROVE  TTLInv'
<1>1. /\ ledger \in Nat \ {0} /\ began \in Nat /\ began =< ledger
      /\ Lived(live) /\ Renewed(since) /\ rate \in [Entries -> Nat]
      /\ \A e \in Entries : since[e] =< ledger
      /\ \A e \in Nullifiers : live[e] # -1
  BY World
<1>2. WorldOK(ledger, live, rate, since, began)'
  <2>1. \A e \in Entries : since[e] =< ledger'
    BY <1>1 DEF Renewed
  <2>2. ledger' \in Nat \ {0} /\ began =< ledger'
    BY <1>1
  <2> QED
    BY <1>1, <2>1, <2>2 DEF WorldOK, Lived, Renewed
<1>3. ClockInv'
  <2>1. ClockInv
    BY DEF TTLInv
  <2>2. CASE lastCycle = -1
    BY <2>1, <2>2 DEF ClockInv
  <2>3. CASE lastCycle # -1
    BY <1>1, <2>1, <2>3 DEF ClockInv
  <2> QED
    BY <2>2, <2>3
<1>4. Later(live, since, live', since)
  BY <1>1 DEF Later, Lived, Renewed
<1>5. CleanInv'
  <2>1. SUFFICES ASSUME lastCycle # -1, NEW e \in Entries
                 PROVE  Sound(e, live', since, lastCycle - took)
    BY DEF CleanInv, Sound
  <2>2. lastCycle - took \in Int /\ Sound(e, live, since, lastCycle - took)
    BY <2>1 DEF TTLInv, ClockInv, CleanInv
  <2> QED
    BY <1>1, <1>4, <2>2, SoundLater
<1>6. RecordedInv'
  BY DEF TTLInv, RecordedInv, RecordedLifeLeast
<1>7. CycleInv'
  <2>1. CASE cycle = NoCycle
    BY <2>1, GroupNames DEF CycleInv, NoCycle
  <2>2. CASE cycle # NoCycle
    <3>1. rate' = rate
      BY <2>2
    <3>2. ASSUME cycle.group \in Groups
          PROVE  GroupOK(cycle, ledger', live', rate, since, began)
      <4>1. GroupOK(cycle, ledger, live, rate, since, began)
        BY <3>2 DEF TTLInv, CycleInv
      <4>2. ledger \in Int /\ ledger' \in Int /\ began \in Int
        BY <1>1
      <4> QED
        BY <1>1, <4>1, <4>2, PassingKeeps
    <3> QED
      BY <2>2, <3>1, <3>2 DEF TTLInv, CycleInv
  <2> QED
    BY <2>1, <2>2
<1>8. GroupsInv'
  <2>1. SUFFICES ASSUME cycle.group # "none", ~cycle.failures, NEW e \in Before(cycle.group)
                 PROVE  Sound(e, live', since, began)
    BY DEF GroupsInv, Sound
  <2>2. Sound(e, live, since, began)
    BY <2>1, Zenon DEF TTLInv, GroupsInv
  <2>3. e \in Entries
    BY DEF Before, Entries
  <2>4. began \in Int
    BY <1>1
  <2> QED
    BY <1>1, <1>4, <2>2, <2>3, <2>4, SoundLater
<1> QED
  BY <1>2, <1>3, <1>5, <1>6, <1>7, <1>8 DEF TTLInv

\* Hour: time passes, in a cycle or between two.
LEMMA HourStep ==
  ASSUME TTLInv, Hour
  PROVE  TTLInv'
<1>1. /\ lastCycle # -1 /\ ~Stale /\ ledger' = ledger + 1
      /\ UNCHANGED <<live, rate, live_until, cycle, lastCycle, paged, since, began, took>>
  BY DEF Hour
<1>2. ledger \in Nat \ {0} /\ Lived(live) /\ rate \in [Entries -> Nat] /\ StaleAfter \in Nat
  BY World, TTLAssumptions
<1>3. StaleInv'
  <2>1. lastCycle \in Nat
    BY <1>1 DEF TTLInv, ClockInv
  <2>2. "ttl_cycle_stale" \notin paged => ~(ledger - lastCycle > StaleAfter)
    BY <1>1 DEF Stale
  <2> QED
    BY <1>1, <1>2, <2>1, <2>2 DEF StaleInv
<1>4. ledger' \in Nat /\ ledger =< ledger'
  BY <1>1, <1>2
<1> QED
  BY <1>1, <1>2, <1>3, <1>4, WorldStep

\* Network: an entry is deleted, or a rent changes.
LEMMA NetworkStep ==
  ASSUME TTLInv, Network
  PROVE  TTLInv'
<1>1. /\ UNCHANGED <<ledger, live_until, cycle, lastCycle, paged, since, began, took>>
      /\ \/ \E e \in Queued : live' = [live EXCEPT ![e] = -1] /\ UNCHANGED rate
         \/ cycle = NoCycle /\ UNCHANGED live /\ \E e \in Entries, r \in Rates : rate' = [rate EXCEPT ![e] = r]
  BY Zenon DEF Network
<1>2. ledger \in Nat /\ Lived(live) /\ rate \in [Entries -> Nat]
  BY World
<1>3. StaleInv' /\ ledger' \in Nat /\ ledger =< ledger'
  BY <1>1, <1>2 DEF TTLInv, StaleInv
<1>4. ASSUME NEW e \in Queued, live' = [live EXCEPT ![e] = -1], rate' = rate
      PROVE  TTLInv'
  <2>1. e \in Entries /\ e \notin Nullifiers
    BY TTLAssumptions DEF Entries
  <2>2. Lived(live') /\ \A x \in Entries : live'[x] = live[x] \/ live'[x] = -1
    BY <1>2, <1>4, <2>1 DEF Lived
  <2>3. \A x \in Nullifiers : live'[x] = live[x]
    BY <1>2, <1>4, <2>1, InTurn DEF Lived
  <2> QED
    BY <1>1, <1>2, <1>3, <1>4, <2>2, <2>3, WorldStep
<1>5. ASSUME cycle = NoCycle, live' = live, NEW e \in Entries, NEW r \in Rates, rate' = [rate EXCEPT ![e] = r]
      PROVE  TTLInv'
  <2>1. rate' \in [Entries -> Nat]
    BY <1>2, <1>5, TTLAssumptions
  <2> QED
    BY <1>1, <1>2, <1>3, <1>5, <2>1, WorldStep
<1> QED
  BY <1>1, <1>4, <1>5

\* Restart: the keeper forgets its cycle and its clock.
LEMMA RestartStep ==
  ASSUME TTLInv, Restart
  PROVE  TTLInv'
<1>1. /\ cycle' = NoCycle /\ lastCycle' = -1 /\ paged' = {} /\ since' = [e \in Entries |-> ledger]
      /\ began' = ledger /\ took' = 0 /\ UNCHANGED <<ledger, live, rate, live_until>>
  BY DEF Restart
<1>2. ledger \in Nat \ {0}
  BY World
<1>3. WorldOK(ledger, live, rate, since, began)'
  BY <1>1, <1>2 DEF TTLInv, WorldOK
<1>4. ClockInv' /\ StaleInv' /\ CleanInv'
  BY <1>1 DEF ClockInv, StaleInv, CleanInv
<1>5. RecordedInv'
  BY <1>1 DEF TTLInv, RecordedInv, RecordedLifeLeast
<1>6. CycleInv' /\ GroupsInv'
  BY <1>1, GroupNames DEF CycleInv, GroupsInv, NoCycle
<1> QED
  BY <1>3, <1>4, <1>5, <1>6 DEF TTLInv

----------------------------------------------------------------------------
\* The theorems

\* The invariant of the keeper's TTL cycle, for every set of entries, every rent and
\* every bound on lives, fees and batches: jobs in hand hold each entry once, readings
\* of lives are true at the least, what was left out refuses by itself, and what a
\* complete cycle leaves is renewed or far from its end.
THEOREM TTLInvariant == TTLSpec => []TTLInv
<1>1. TTLInit => TTLInv
  <2>1. SUFFICES ASSUME TTLInit
                 PROVE  TTLInv
    OBVIOUS
  <2>2. /\ ledger = 1 /\ live \in [Entries -> Lives] /\ rate \in [Entries -> Rates]
        /\ live_until = [e \in Nullifiers |-> 0] /\ cycle = NoCycle /\ lastCycle = -1
        /\ paged = {} /\ since = [e \in Entries |-> 1] /\ began = 1 /\ took = 0
    BY <2>1 DEF TTLInit
  <2>3. Lives \subseteq Nat /\ Rates \subseteq Nat /\ Nullifiers \subseteq Entries
    BY TTLAssumptions, InTurn
  <2>4. live \in [Entries -> Nat] /\ rate \in [Entries -> Nat]
    BY <2>2, <2>3
  <2>5. WorldOK(ledger, live, rate, since, began)
    BY <2>2, <2>3, <2>4 DEF WorldOK
  <2>6. ClockInv /\ StaleInv /\ CleanInv
    BY <2>2 DEF ClockInv, StaleInv, CleanInv
  <2>7. RecordedInv
    BY <2>2, <2>3, <2>4 DEF RecordedInv, RecordedLifeLeast
  <2>8. CycleInv /\ GroupsInv
    BY <2>2, GroupNames DEF CycleInv, GroupsInv, NoCycle
  <2> QED
    BY <2>5, <2>6, <2>7, <2>8 DEF TTLInv
<1>2. TTLInv /\ [TTLNext]_ttlVars => TTLInv'
  <2>1. SUFFICES ASSUME TTLInv, [TTLNext]_ttlVars
                 PROVE  TTLInv'
    OBVIOUS
  <2>2. CASE UNCHANGED ttlVars
    <3>1. UNCHANGED <<callRest, live, cycle>>
      BY <2>2 DEF ttlVars, callRest
    <3>2. CycleInv' /\ GroupsInv'
      BY <2>1, <3>1 DEF TTLInv, CycleInv, GroupsInv, Sound, callRest
    <3> QED
      BY <2>1, <3>1, <3>2, CycleStep
  <2>3. CASE TTLNext
    BY <2>1, <2>3, BeginStep, RestoreStep, ExtendStep, RefuseStep, StopStep, PhaseStep, NextGroupStep,
       NullifierStep, JudgeStep, WatchStep, HourStep, NetworkStep, RestartStep DEF TTLNext
  <2> QED
    BY <2>1, <2>2, <2>3
<1> QED
  BY <1>1, <1>2, PTL DEF TTLSpec

\* EntriesRenewed follows.
LEMMA RenewedFollows ==
  ASSUME TTLInv
  PROVE  EntriesRenewed
<1>1. RecordedLifeLeast
  BY DEF TTLInv, RecordedInv
<1>2. RefusedAlone
  <2>1. SUFFICES ASSUME cycle # NoCycle, cycle.group # "judge"
                 PROVE  RefusedAlone
    BY DEF RefusedAlone
  <2>2. GroupOK(cycle, ledger, live, rate, since, began)
    BY <2>1, Running
  <2>3. \A e \in cycle.refused :
          \/ ~exists(e) \/ live[e] < ledger
          \/ rate[e] * (minStep + ledger - cycle.latest) > FeeCap
    BY <2>2, Zenon DEF GroupOK, RefusedOK, exists
  <2>4. ASSUME cycle.phase = "extend", cycle.work = <<>>, ~cycle.stopped, ~cycle.failures,
               NEW e \in DOMAIN cycle.start, cycle.start[e] < cycle.latest + renewAt(cycle.group)
        PROVE  e \in cycle.refused \/ ~exists(e) \/ live[e] > cycle.start[e]
    <3>1. e \notin Entered(cycle.work) /\ "extend" # "restore"
      BY <2>4, NoJobs
    <3> QED
      BY <2>2, <2>4, <3>1, Zenon DEF GroupOK, DueOK, exists
  <2> QED
    BY <2>3, <2>4, Zenon DEF RefusedAlone
<1>3. ExpiryPaged
  <2>1. SUFFICES ASSUME NEW e \in Entries, live[e] # -1,
                        live[e] < ledger + warnWithin - (StaleAfter + 1 + took),
                        ledger - since[e] > StaleAfter + 1 + took, paged = {}
                 PROVE  FALSE
    BY Zenon DEF ExpiryPaged, exists
  <2>2. /\ ledger \in Nat /\ live[e] \in Int /\ since[e] \in Int /\ StaleAfter \in Nat /\ warnWithin \in Nat
    BY World, TTLAssumptions DEF Lived, Renewed
  <2>3. took \in Nat /\ lastCycle \in Nat \cup {-1} /\ (lastCycle = -1 => since[e] = ledger)
    BY DEF TTLInv, ClockInv
  <2>4. CASE lastCycle = -1
    BY <2>1, <2>2, <2>3, <2>4
  <2>5. CASE lastCycle # -1
    <3>1. ledger =< lastCycle + StaleAfter + 1
      BY <2>1, <2>5 DEF TTLInv, StaleInv
    <3>2. since[e] >= lastCycle - took \/ live[e] >= lastCycle - took + warnWithin
      BY <2>1, <2>5 DEF TTLInv, CleanInv, Sound
    <3> QED
      BY <2>1, <2>2, <2>3, <2>5, <3>1, <3>2
  <2> QED
    BY <2>4, <2>5
<1> QED
  BY <1>1, <1>2, <1>3 DEF EntriesRenewed

\* No entry of the vault expires unseen: the life recorded of a nullifier is never
\* longer than its own, an entry that refuses to be renewed holds back no other, and
\* one close to its end is paged for, or the age of the last complete cycle is.
THEOREM EntriesAlwaysRenewed == TTLSpec => []EntriesRenewed
<1>1. TTLInv => EntriesRenewed
  BY RenewedFollows
<1> QED
  BY <1>1, TTLInvariant, PTL
============================================================================
