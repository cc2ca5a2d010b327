--------------------------- MODULE WatcherProofs ---------------------------
(***************************************************************************)
(* Theorems about the watcher, for every number of ledgers, windows,       *)
(* deposits' delays, operations, governance accounts, nullifiers and       *)
(* failures, and for every mix of what the run checks in six behaviours.   *)
(***************************************************************************)
EXTENDS MCWatcher, SumsProofs

----------------------------------------------------------------------------
\* The checks that remember what they saw.

\* The largest of an interval of numbers.
LEMMA MaxOfInterval ==
  ASSUME NEW a \in Int, NEW b \in Int, a =< b
  PROVE  Max(a .. b) = b
BY DEF Max

\* Operations: the page read is the one that follows the cursor, and everything
\* up to the cursor was judged.
OpsInv ==
  /\ ops \in Seq(BOOLEAN) /\ Len(ops) >= 1
  /\ opCursor \in 0 .. Len(ops)
  /\ opFirst \in 0 .. opCursor /\ (opFirst = 0 <=> opCursor = 0)
  /\ \/ opPage = {}
     \/ opCursor = 0 /\ \E l \in 1 .. Len(ops) : opPage = l .. l
     \/ opCursor # 0 /\ \E l \in opCursor + 1 .. Len(ops) : opPage = opCursor + 1 .. l
  /\ \A n \in opFirst + 1 .. opCursor : opFirst # 0 /\ ~ ops[n] => n \in opPaged

\* Fingerprints: a stored one that is not the first was paged.
PrintsInv ==
  /\ print \in [Roles -> Nat \ {0}]
  /\ printed \in [Roles -> Nat] /\ printFirst \in [Roles -> Nat]
  /\ \A r \in Roles : printFirst[r] = 0 <=> printed[r] = 0
  /\ printRead # NoPrint => printRead \in [role : Roles, print : Nat \ {0}]
  /\ \A r \in Roles : printed[r] # printFirst[r] => [role |-> r, print |-> printed[r]] \in printPaged

\* Ends of life: what is recorded is never later than the entry's, and a check
\* that found nothing has left none near its end behind.
TTLInv ==
  /\ ttlNow \in Nat \ {0}
  /\ life \in [Nullifiers -> Nat] /\ liveUntil \in [Nullifiers -> Nat]
  /\ \A n \in Nullifiers : liveUntil[n] =< life[n]
  /\ known \subseteq Nullifiers
  /\ ttlCheck \in [at : Nat, left : SUBSET Nullifiers, expiring : Nat, expected : SUBSET Nullifiers]
  /\ ttlCheck.at =< ttlNow
  /\ ttlCheck.expiring = 0 =>
       \A n \in ttlCheck.expected \ ttlCheck.left : life[n] >= ttlCheck.at + expiryWarning
  /\ ~ ttlBlind

ChecksInv == OpsInv /\ PrintsInv /\ TTLInv

\* A page stored: its operations were judged before the cursor passed them.
LEMMA PageStored ==
  ASSUME OpsInv, opPage # {}, opPage' = {}, opPaged' = opPaged \cup opAlerts,
         opCursor' = Max(opPage), opFirst' = (IF opFirst = 0 THEN opCursor' ELSE opFirst),
         UNCHANGED ops
  PROVE  OpsInv'
<1>1. Len(ops) \in Nat /\ opCursor \in Nat /\ opFirst \in Nat
  BY DEF OpsInv
<1>2. CASE opCursor = 0
  <2>1. PICK l \in 1 .. Len(ops) : opPage = l .. l
    BY <1>2 DEF OpsInv
  <2>2. l \in Int /\ l =< l /\ l # 0
    OBVIOUS
  <2>a. opCursor' = l
    BY <2>1, <2>2, MaxOfInterval
  <2>3. opFirst = 0 /\ opFirst' = l
    BY <1>2, <2>a DEF OpsInv
  <2>4. opCursor' \in 0 .. Len(ops) /\ opFirst' \in 0 .. opCursor' /\ opCursor' # 0 /\ opFirst' # 0
    BY <1>1, <2>2, <2>a, <2>3
  <2>5. opFirst' + 1 .. opCursor' = {}
    BY <2>2, <2>a, <2>3
  <2> QED
    BY <2>4, <2>5 DEF OpsInv
<1>3. CASE opCursor # 0
  <2>1. PICK l \in opCursor + 1 .. Len(ops) : opPage = opCursor + 1 .. l
    BY <1>3 DEF OpsInv
  <2>2. l \in Int /\ opCursor + 1 \in Int /\ opCursor + 1 =< l
    BY <1>1, <2>1
  <2>3. opCursor' = l
    BY <2>1, <2>2, MaxOfInterval
  <2>4. opFirst # 0 /\ opFirst' = opFirst
    BY <1>3 DEF OpsInv
  <2>5. opPaged' = opPaged \cup {n \in opPage : ~ ops[n]}
    BY <1>3 DEF opAlerts, judgeOperations
  <2>6. ASSUME NEW n \in opFirst + 1 .. l, ~ ops[n]
        PROVE  n \in opPaged'
    <3>1. CASE n =< opCursor
      <4>1. n \in opFirst + 1 .. opCursor
        BY <3>1, <1>1, <2>2
      <4> QED
        BY <4>1, <2>4, <2>5, <2>6 DEF OpsInv
    <3>2. CASE n > opCursor
      <4>1. n \in opPage
        BY <3>2, <1>1, <2>1, <2>2
      <4> QED
        BY <4>1, <2>5, <2>6
    <3> QED
      BY <3>1, <3>2, <1>1, <2>2
  <2>7. opCursor' \in 0 .. Len(ops) /\ opFirst' \in 0 .. opCursor' /\ opCursor' # 0
    BY <1>1, <2>1, <2>2, <2>3, <2>4 DEF OpsInv
  <2> QED
    BY <2>3, <2>4, <2>6, <2>7 DEF OpsInv
<1> QED
  BY <1>2, <1>3

\* A page whose write failed: the cursor has moved with everything judged, or not
\* at all.
LEMMA PageNotStored ==
  ASSUME OpsInv, opPage' = {}, opPaged \subseteq opPaged', UNCHANGED <<opCursor, opFirst, ops>>
  PROVE  OpsInv'
BY DEF OpsInv

\* Every step of the checks keeps what holds of the operations.
LEMMA OpsKept ==
  ASSUME OpsInv, [ChecksNext]_checkVars
  PROVE  OpsInv'
<1>0. Len(ops) \in Nat /\ opCursor \in Nat /\ opFirst \in Nat /\ DOMAIN ops = 1 .. Len(ops)
  BY DEF OpsInv
<1>1. CASE UNCHANGED opVars
  BY <1>1 DEF OpsInv, opVars
<1>2. ASSUME NEW own \in BOOLEAN, Operate(own)
      PROVE  OpsInv'
  <2>1. ops' = Append(ops, own) /\ UNCHANGED <<opCursor, opPage, opPaged, opFirst>>
    BY <1>2 DEF Operate
  <2>2. ops' \in Seq(BOOLEAN) /\ Len(ops') = Len(ops) + 1 /\ \A n \in 1 .. Len(ops) : ops'[n] = ops[n]
    BY <2>1 DEF OpsInv
  <2>3. \A l : (l \in 1 .. Len(ops) => l \in 1 .. Len(ops'))
               /\ (l \in opCursor + 1 .. Len(ops) => l \in opCursor + 1 .. Len(ops'))
    BY <1>0, <2>2
  <2>4. \/ opPage = {}
        \/ opCursor = 0 /\ \E l \in 1 .. Len(ops') : opPage = l .. l
        \/ opCursor # 0 /\ \E l \in opCursor + 1 .. Len(ops') : opPage = opCursor + 1 .. l
    BY <2>3 DEF OpsInv
  <2>5. \A n \in opFirst + 1 .. opCursor : n \in 1 .. Len(ops)
    BY <1>0 DEF OpsInv
  <2>6. \A n \in opFirst + 1 .. opCursor : opFirst # 0 /\ ~ ops'[n] => n \in opPaged
    BY <2>2, <2>5 DEF OpsInv
  <2>7. opCursor \in 0 .. Len(ops') /\ Len(ops') >= 1
    BY <1>0, <2>2 DEF OpsInv
  <2> QED
    BY <2>1, <2>2, <2>4, <2>6, <2>7 DEF OpsInv
<1>3. CASE operations
  <2>1. opPage' = Operations(opCursor) /\ Operations(opCursor) # {} /\ UNCHANGED <<ops, opCursor, opPaged, opFirst>>
    BY <1>3 DEF operations
  <2>2. CASE opCursor = 0
    <3>1. opPage' = Len(ops) .. Len(ops) /\ Len(ops) \in 1 .. Len(ops)
      BY <1>0, <2>1, <2>2 DEF Operations, OpsInv
    <3> QED
      BY <2>1, <2>2, <3>1 DEF OpsInv
  <2>3. CASE opCursor # 0
    <3>0. pageSize \in Nat
      BY ChecksAssumptions
    <3>1. Operations(opCursor) = {n \in 1 .. Len(ops) : n > opCursor /\ n =< opCursor + pageSize}
      BY <1>0, <2>3 DEF Operations
    <3>2. \E l \in opCursor + 1 .. Len(ops) : opPage' = opCursor + 1 .. l
      <4>1. CASE opCursor + pageSize =< Len(ops)
        <5>1. Operations(opCursor) = opCursor + 1 .. opCursor + pageSize
          BY <1>0, <3>0, <3>1, <4>1
        <5>2. opCursor + pageSize \in opCursor + 1 .. Len(ops)
          BY <1>0, <2>1, <3>0, <4>1, <5>1
        <5> QED
          BY <2>1, <5>1, <5>2
      <4>2. CASE ~(opCursor + pageSize =< Len(ops))
        <5>1. Operations(opCursor) = opCursor + 1 .. Len(ops)
          BY <1>0, <3>0, <3>1, <4>2
        <5>2. Len(ops) \in opCursor + 1 .. Len(ops)
          BY <1>0, <2>1, <5>1
        <5> QED
          BY <2>1, <5>1, <5>2
      <4> QED
        BY <4>1, <4>2
    <3> QED
      BY <2>1, <2>3, <3>2 DEF OpsInv
  <2> QED
    BY <2>2, <2>3
<1>4. CASE opStore
  BY <1>4, PageStored DEF opStore
<1>5. CASE opStoreFails
  <2>1. CASE opCursor' = Max(opPage)
    BY <1>5, <2>1, PageStored DEF opStoreFails
  <2>2. CASE opCursor' = opCursor
    <3>1. opFirst' = opFirst
      BY <1>5, <2>2 DEF opStoreFails, OpsInv
    <3> QED
      BY <1>5, <2>2, <3>1, PageNotStored DEF opStoreFails
  <2> QED
    BY <1>5, <2>1, <2>2 DEF opStoreFails
<1>6. ASSUME GovernanceNext \/ TTLNext
      PROVE  UNCHANGED opVars
  BY <1>6 DEF GovernanceNext, ChangePrint, fingerprint, CheckGovernanceAccounts, StorePrintFails,
     TTLNext, TTLClock, Extend, Replay, CheckTTL, expiringNullifiers, CheckTTLFails, CheckTTLEnds, opVars
<1> QED
  BY <1>1, <1>2, <1>3, <1>4, <1>5, <1>6 DEF ChecksNext, OperationsNext, checkVars

\* A fingerprint stored after it was paged, or as the first of its account.
LEMMA PrintStored ==
  ASSUME PrintsInv, printRead # NoPrint, printRead' = NoPrint,
         printPaged' = printPaged \cup printAlerts, UNCHANGED print,
         Stores(printRead.role, printRead.print)
  PROVE  PrintsInv'
<1>1. PICK r \in Roles, p \in Nat \ {0} : printRead = [role |-> r, print |-> p]
  BY DEF PrintsInv
<1>2. /\ printed' = [printed EXCEPT ![r] = p]
      /\ printFirst' = [printFirst EXCEPT ![r] = IF printFirst[r] = 0 THEN p ELSE printFirst[r]]
  BY <1>1 DEF Stores
<1>3. printed' \in [Roles -> Nat] /\ printFirst' \in [Roles -> Nat]
  BY <1>2 DEF PrintsInv
<1>4. \A q \in Roles : q # r => printed'[q] = printed[q] /\ printFirst'[q] = printFirst[q]
  BY <1>2 DEF PrintsInv
<1>5. printed'[r] = p /\ printFirst'[r] = IF printFirst[r] = 0 THEN p ELSE printFirst[r]
  BY <1>2 DEF PrintsInv
<1>6. printed'[r] # printFirst'[r] => [role |-> r, print |-> p] \in printPaged'
  <2>1. CASE printed[r] = 0
    BY <1>5, <2>1 DEF PrintsInv
  <2>2. CASE printed[r] = p
    BY <1>1, <1>5, <2>2 DEF PrintsInv
  <2>3. CASE printed[r] # 0 /\ printed[r] # p
    <3>1. printAlerts = {printRead}
      BY <1>1, <2>3 DEF printAlerts
    <3> QED
      BY <1>1, <3>1
  <2> QED
    BY <2>1, <2>2, <2>3
<1>7. \A q \in Roles : printed'[q] # printFirst'[q] => [role |-> q, print |-> printed'[q]] \in printPaged'
  BY <1>4, <1>5, <1>6 DEF PrintsInv
<1>8. \A q \in Roles : printFirst'[q] = 0 <=> printed'[q] = 0
  BY <1>4, <1>5 DEF PrintsInv
<1> QED
  BY <1>3, <1>7, <1>8 DEF PrintsInv, NoPrint

\* Every step of the checks keeps what holds of the fingerprints.
LEMMA PrintsKept ==
  ASSUME PrintsInv, [ChecksNext]_checkVars
  PROVE  PrintsInv'
<1>1. CASE UNCHANGED printVars
  BY <1>1 DEF PrintsInv, printVars, NoPrint
<1>2. ASSUME NEW r \in Roles, ChangePrint(r)
      PROVE  PrintsInv'
  <2>1. PICK p \in 1 .. MaxPrints : print' = [print EXCEPT ![r] = p]
    BY <1>2 DEF ChangePrint
  <2>2. p \in Nat \ {0}
    BY ChecksAssumptions
  <2> QED
    BY <1>2, <2>1, <2>2 DEF PrintsInv, ChangePrint, NoPrint
<1>3. ASSUME NEW r \in Roles, fingerprint(r)
      PROVE  PrintsInv'
  <2>1. printRead' = [role |-> r, print |-> print[r]] /\ print[r] \in Nat \ {0}
    BY <1>3 DEF fingerprint, PrintsInv
  <2>2. UNCHANGED <<print, printed, printPaged, printFirst>>
    BY <1>3 DEF fingerprint
  <2> QED
    BY <2>1, <2>2 DEF PrintsInv
<1>4. CASE CheckGovernanceAccounts
  BY <1>4, PrintStored DEF CheckGovernanceAccounts
<1>5. CASE StorePrintFails
  <2>1. printRead # NoPrint /\ printRead' = NoPrint /\ printPaged' = printPaged \cup printAlerts /\ UNCHANGED print
    BY <1>5 DEF StorePrintFails, PagedBeforeStore
  <2>2. CASE Stores(printRead.role, printRead.print)
    BY <2>1, <2>2, PrintStored
  <2>3. CASE UNCHANGED <<printed, printFirst>>
    BY <2>1, <2>3 DEF PrintsInv, NoPrint
  <2> QED
    BY <1>5, <2>2, <2>3 DEF StorePrintFails
<1>6. ASSUME OperationsNext \/ TTLNext
      PROVE  UNCHANGED printVars
  BY <1>6 DEF OperationsNext, Operate, operations, opStore, opStoreFails,
     TTLNext, TTLClock, Extend, Replay, CheckTTL, expiringNullifiers, CheckTTLFails, CheckTTLEnds, printVars
<1> QED
  BY <1>1, <1>2, <1>3, <1>4, <1>5, <1>6 DEF ChecksNext, GovernanceNext, checkVars

\* Every step of the checks keeps what holds of the ends of life.
LEMMA TTLKept ==
  ASSUME TTLInv, [ChecksNext]_checkVars
  PROVE  TTLInv'
<1>0. expiryWarning \in Nat /\ dayMargin \in Nat /\ MaxLife \in Nat
  BY ChecksAssumptions
<1>t. ttlNow \in Nat /\ ttlCheck.at \in Nat /\ ttlCheck.expiring \in Nat
  BY DEF TTLInv
<1>1. CASE UNCHANGED ttlVars
  BY <1>1 DEF TTLInv, ttlVars
<1>2. CASE TTLClock
  BY <1>2, <1>t DEF TTLInv, TTLClock
<1>3. ASSUME NEW n \in Nullifiers, Extend(n)
      PROVE  TTLInv'
  <2>1. /\ life[n] < ttlNow + MaxLife /\ life' = [life EXCEPT ![n] = ttlNow + MaxLife]
        /\ UNCHANGED <<ttlNow, known, liveUntil, ttlCheck, ttlPaged, ttlBlind>>
    BY <1>3 DEF Extend
  <2>2. life' \in [Nullifiers -> Nat] /\ \A m \in Nullifiers : life[m] =< life'[m]
    BY <1>0, <1>t, <2>1 DEF TTLInv
  <2>3. \A m \in Nullifiers : liveUntil[m] =< life'[m]
    BY <2>2 DEF TTLInv
  <2>4. ttlCheck.expiring = 0 =>
          \A m \in ttlCheck.expected \ ttlCheck.left : life'[m] >= ttlCheck.at + expiryWarning
    <3>1. \A m \in ttlCheck.expected : m \in Nullifiers /\ life[m] \in Nat /\ life'[m] \in Nat /\ life[m] =< life'[m]
      BY <2>2 DEF TTLInv
    <3> QED
      BY <3>1, <1>0, <1>t DEF TTLInv
  <2> QED
    BY <2>1, <2>2, <2>3, <2>4 DEF TTLInv
<1>4. ASSUME NEW n \in Nullifiers, Replay(n)
      PROVE  TTLInv'
  BY <1>4 DEF TTLInv, Replay
<1>5. CASE CheckTTL
  <2>1. /\ ttlCheck' = [at |-> ttlNow, left |-> {n \in known : MayExpire(n, ttlNow)}, expiring |-> 0, expected |-> known]
        /\ UNCHANGED <<ttlNow, life, known, liveUntil, ttlBlind>>
    BY <1>5 DEF CheckTTL
  <2>2. ASSUME NEW n \in known, ~ MayExpire(n, ttlNow)
        PROVE  life[n] >= ttlNow + expiryWarning
    <3>1. n \in Nullifiers /\ liveUntil[n] \in Nat /\ life[n] \in Nat /\ liveUntil[n] =< life[n]
      BY DEF TTLInv
    <3> QED
      BY <2>2, <3>1, <1>0, <1>t DEF MayExpire
  <2>3. /\ ttlCheck' \in [at : Nat, left : SUBSET Nullifiers, expiring : Nat, expected : SUBSET Nullifiers]
        /\ ttlCheck'.at = ttlNow
    BY <1>t, <2>1 DEF TTLInv
  <2>4. \A n \in ttlCheck'.expected \ ttlCheck'.left : life[n] >= ttlCheck'.at + expiryWarning
    BY <2>1, <2>2
  <2> QED
    BY <1>t, <2>1, <2>3, <2>4 DEF TTLInv
<1>6. CASE expiringNullifiers
  <2>1. PICK n \in ttlCheck.left :
          /\ ttlCheck' = [ttlCheck EXCEPT !.left = @ \ {n},
                                          !.expiring = @ + (IF life[n] < ttlNow + expiryWarning THEN 1 ELSE 0)]
          /\ liveUntil' = IF life[n] < ttlNow + expiryWarning THEN liveUntil ELSE [liveUntil EXCEPT ![n] = life[n]]
    BY <1>6 DEF expiringNullifiers
  <2>2. UNCHANGED <<ttlNow, life, known, ttlPaged, ttlBlind>>
    BY <1>6 DEF expiringNullifiers
  <2>3. n \in Nullifiers /\ life[n] \in Nat
    BY DEF TTLInv
  <2>a. ttlCheck \in [at : Nat, left : SUBSET Nullifiers, expiring : Nat, expected : SUBSET Nullifiers]
    BY DEF TTLInv
  <2>n. CASE life[n] < ttlNow + expiryWarning
    <3>1. ttlCheck' = [ttlCheck EXCEPT !.left = ttlCheck.left \ {n}, !.expiring = ttlCheck.expiring + 1]
      BY <2>1, <2>n
    <3>0. /\ ttlCheck.left \ {n} \in SUBSET Nullifiers
          /\ ttlCheck.expiring + 1 \in Nat
      BY <2>a
    <3>2. /\ ttlCheck'.at = ttlCheck.at /\ ttlCheck'.expected = ttlCheck.expected
          /\ ttlCheck'.expiring = ttlCheck.expiring + 1
          /\ ttlCheck' \in [at : Nat, left : SUBSET Nullifiers, expiring : Nat, expected : SUBSET Nullifiers]
      BY <3>0, <3>1, <2>a
    <3>3. ttlCheck'.expiring # 0
      <4>1. ttlCheck.expiring \in Nat
        BY <2>a
      <4> QED
        BY <3>2, <4>1
    <3>4. liveUntil' = liveUntil
      BY <2>1, <2>n
    <3> QED
      BY <2>2, <3>2, <3>3, <3>4 DEF TTLInv
  <2>f. CASE ~(life[n] < ttlNow + expiryWarning)
    <3>1. ttlCheck' = [ttlCheck EXCEPT !.left = ttlCheck.left \ {n}, !.expiring = ttlCheck.expiring]
      <4>1. ttlCheck.expiring + 0 = ttlCheck.expiring
        BY <2>a
      <4>2. ttlCheck' = [ttlCheck EXCEPT !.left = ttlCheck.left \ {n}, !.expiring = ttlCheck.expiring + 0]
        BY <2>1, <2>f
      <4> QED
        BY <4>1, <4>2
    <3>2. /\ ttlCheck'.at = ttlCheck.at /\ ttlCheck'.expected = ttlCheck.expected
          /\ ttlCheck'.left = ttlCheck.left \ {n}
          /\ ttlCheck'.expiring = ttlCheck.expiring
          /\ ttlCheck' \in [at : Nat, left : SUBSET Nullifiers, expiring : Nat, expected : SUBSET Nullifiers]
      BY <3>1, <2>a
    <3>3. liveUntil' = [liveUntil EXCEPT ![n] = life[n]]
      BY <2>1, <2>f
    <3>4. liveUntil' \in [Nullifiers -> Nat] /\ \A m \in Nullifiers : liveUntil'[m] =< life[m]
      BY <3>3, <2>3 DEF TTLInv
    <3>5. ASSUME ttlCheck.expiring = 0, NEW m \in ttlCheck.expected \ ttlCheck'.left
          PROVE  life[m] >= ttlCheck.at + expiryWarning
      <4>2. CASE m = n
        BY <4>2, <2>f, <2>3, <1>0, <1>t DEF TTLInv
      <4>3. CASE m # n
        <5>1. m \in ttlCheck.expected \ ttlCheck.left
          BY <4>3, <3>2
        <5> QED
          BY <5>1, <3>5 DEF TTLInv
      <4> QED
        BY <4>2, <4>3
    <3> QED
      BY <2>2, <3>2, <3>4, <3>5 DEF TTLInv
  <2> QED
    BY <2>n, <2>f
<1>7. CASE CheckTTLFails
  BY <1>7, <1>t DEF TTLInv, CheckTTLFails, Idle
<1>8. CASE CheckTTLEnds
  <2>1. ttlCheck.left = {} /\ ttlCheck' = Idle /\ UNCHANGED <<ttlNow, life, known, liveUntil>>
    BY <1>8 DEF CheckTTLEnds
  <2>p. ~ ttlPaged' => ~(ttlCheck.expiring > 0)
    BY <1>8, Zenon DEF CheckTTLEnds
  <2>b. ttlBlind' => ttlBlind \/ (~ ttlPaged' /\ \E n \in ttlCheck.expected : life[n] < ttlCheck.at + expiryWarning)
    BY <1>8, Zenon DEF CheckTTLEnds
  <2>2. ASSUME ~ ttlPaged', NEW n \in ttlCheck.expected, life[n] < ttlCheck.at + expiryWarning
        PROVE  FALSE
    <3>1. ttlCheck.expiring = 0
      BY <1>t, <2>p, <2>2
    <3>2. life[n] >= ttlCheck.at + expiryWarning /\ life[n] \in Nat
      BY <2>1, <3>1 DEF TTLInv
    <3> QED
      BY <3>2, <2>2, <1>0, <1>t
  <2>3. ~ ttlBlind'
    BY <2>b, <2>2 DEF TTLInv
  <2> QED
    BY <2>1, <2>3, <1>t DEF TTLInv, Idle
<1>9. ASSUME OperationsNext \/ GovernanceNext
      PROVE  UNCHANGED ttlVars
  BY <1>9 DEF OperationsNext, Operate, operations, opStore, opStoreFails,
     GovernanceNext, ChangePrint, fingerprint, CheckGovernanceAccounts, StorePrintFails, ttlVars
<1> QED
  BY <1>1, <1>2, <1>3, <1>4, <1>5, <1>6, <1>7, <1>8, <1>9 DEF ChecksNext, TTLNext, checkVars

\* No check has seen anything at first.
LEMMA ChecksStart ==
  ASSUME ChecksInit
  PROVE  ChecksInv
<1>1. OpsInv
  BY DEF ChecksInit, OpsInv
<1>2. PrintsInv
  BY DEF ChecksInit, PrintsInv
<1>3. TTLInv
  BY DEF ChecksInit, TTLInv, Idle
<1> QED
  BY <1>1, <1>2, <1>3 DEF ChecksInv

\* What a check stores as seen was judged, and no check closes the alert over a
\* nullifier near its end: through failed and unheard writes and restarts in any
\* number (hot.go: operations, checks.go: CheckGovernanceAccounts, ttl.go).
THEOREM ChecksAlwaysPaged == ChecksSpec => []ChecksPaged
<1>1. ChecksInit => ChecksInv
  BY ChecksStart
<1>2. ChecksInv /\ [ChecksNext]_checkVars => ChecksInv'
  BY OpsKept, PrintsKept, TTLKept DEF ChecksInv
<1>3. ChecksInv => ChecksPaged
  BY DEF ChecksInv, OpsInv, PrintsInv, TTLInv, ChecksPaged, JudgedPaged, NullifiersWarned
<1> QED
  BY <1>1, <1>2, <1>3, PTL DEF ChecksSpec

----------------------------------------------------------------------------
\* What the watcher's operators return.

\* The larger of two numbers.
LEMMA MaxOfTwo ==
  ASSUME NEW a \in Int, NEW b \in Int
  PROVE  Max({a, b}) \in {a, b} /\ Max({a, b}) >= a /\ Max({a, b}) >= b
<1>1. \E x \in {a, b} : \A y \in {a, b} : x >= y
  <2>1. CASE a >= b
    BY <2>1
  <2>2. CASE b >= a
    BY <2>2
  <2> QED
    BY <2>1, <2>2
<1> QED
  BY <1>1 DEF Max

\* The largest of a finite set of numbers: the one in the last place.
LEMMA MaxOfFinite ==
  ASSUME NEW S \in SUBSET Int, IsFiniteSet(S), S # {}
  PROVE  Max(S) \in S /\ \A x \in S : x =< Max(S)
<1>1. Cardinality(S) \in Nat /\ Cardinality(S) # 0
  BY FS_CardinalityType, FS_EmptySet
<1>2. PICK i \in S : Place(S, i) = Cardinality(S)
  BY <1>1, PlaceOfEach
<1>3. \A x \in S : x =< i
  <2> SUFFICES ASSUME NEW x \in S, ~(x =< i)
               PROVE  FALSE
    OBVIOUS
  <2>1. {j \in S : j =< i} \in SUBSET S /\ x \notin {j \in S : j =< i}
    OBVIOUS
  <2>2. Cardinality({j \in S : j =< i}) < Cardinality(S)
    BY <2>1, FewerElements
  <2> QED
    BY <2>2, <1>2, <1>1 DEF Place
<1>4. \E x \in S : \A y \in S : x >= y
  BY <1>3
<1>5. Max(S) \in S /\ \A y \in S : Max(S) >= y
  BY <1>4 DEF Max
<1> QED
  BY <1>5

\* A list of elements of A that are all in B.
LEMMA ListOf ==
  ASSUME NEW A, NEW B, NEW s \in Seq(A), \A i \in 1 .. Len(s) : s[i] \in B
  PROVE  s \in Seq(B)
OBVIOUS

\* The last n elements of a list: at most n, the newest among them.
LEMMA LastNProperties ==
  ASSUME NEW S, NEW s \in Seq(S), NEW n \in Nat
  PROVE  /\ LastN(s, n) \in Seq(S) /\ Len(LastN(s, n)) =< n
         /\ Len(LastN(s, n)) =< Len(s)
         /\ \A i \in 1 .. Len(LastN(s, n)) : \E j \in 1 .. Len(s) : LastN(s, n)[i] = s[j]
         /\ s # <<>> /\ n # 0 => /\ Len(LastN(s, n)) >= 1
                                 /\ LastN(s, n)[Len(LastN(s, n))] = s[Len(s)]
<1>1. CASE Len(s) > n
  <2> DEFINE t == SubSeq(s, Len(s) - n + 1, Len(s))
  <2>1. LastN(s, n) = t
    BY <1>1 DEF LastN
  <2>2. t \in Seq(S) /\ Len(t) = n /\ \A i \in 1 .. n : t[i] = s[Len(s) - n + i]
    BY <1>1
  <2>3. \A i \in 1 .. n : Len(s) - n + i \in 1 .. Len(s)
    BY <1>1
  <2>4. n # 0 => n \in 1 .. n /\ Len(s) - n + n = Len(s)
    OBVIOUS
  <2> HIDE DEF t
  <2>5. n # 0 => t[n] = s[Len(s)]
    BY <2>2, <2>4
  <2> QED
    BY <2>1, <2>2, <2>3, <2>5, <1>1
<1>2. CASE ~(Len(s) > n)
  <2>1. LastN(s, n) = s
    BY <1>2 DEF LastN
  <2> QED
    BY <2>1, <1>2
<1> QED
  BY <1>1, <1>2

\* The ledgers that carry some kinds of events: finitely many, and more of them
\* in a longer history.
LEMMA OfProperties ==
  ASSUME NEW h, NEW kinds, NEW l \in Nat, NEW m \in Nat, l =< m
  PROVE  /\ Of(h, kinds, l) \in SUBSET (1 .. l) /\ IsFiniteSet(Of(h, kinds, l))
         /\ Of(h, kinds, l) \in SUBSET Of(h, kinds, m)
         /\ Cardinality(Of(h, kinds, l)) \in Nat
         /\ Cardinality(Of(h, kinds, l)) =< Cardinality(Of(h, kinds, m))
<1>1. Of(h, kinds, l) \in SUBSET (1 .. l) /\ Of(h, kinds, m) \in SUBSET (1 .. m)
  BY DEF Of
<1>2. Of(h, kinds, l) \in SUBSET Of(h, kinds, m)
  BY DEF Of
<1>3. IsFiniteSet(Of(h, kinds, l)) /\ Cardinality(Of(h, kinds, l)) \in Nat
  BY <1>1, PositionsFinite
<1>4. IsFiniteSet(Of(h, kinds, m))
  BY <1>1, PositionsFinite
<1>5. Cardinality(Of(h, kinds, l)) =< Cardinality(Of(h, kinds, m))
  BY <1>2, <1>4, FS_Subset
<1> QED
  BY <1>1, <1>2, <1>3, <1>5

\* Histories that agree up to a ledger say the same of it.
LEMMA OfSame ==
  ASSUME NEW g, NEW h, NEW kinds, NEW l \in Nat, \A k \in 1 .. l : g[k] = h[k]
  PROVE  Of(g, kinds, l) = Of(h, kinds, l)
BY DEF Of

\* The last-modified ledger is the newest of them, or 0.
LEMMA LastModifiedBounds ==
  ASSUME NEW n \in Nat, NEW S \in SUBSET (1 .. n)
  PROVE  LastModified(S) \in 0 .. n /\ \A k \in S : k =< LastModified(S)
<1>1. IsFiniteSet(S)
  BY PositionsFinite
<1>2. IsFiniteSet(S \cup {0}) /\ S \cup {0} \in SUBSET Int /\ S \cup {0} # {}
  BY <1>1, FS_AddElement
<1>3. Max(S \cup {0}) \in S \cup {0} /\ \A x \in S \cup {0} : x =< Max(S \cup {0})
  BY <1>2, MaxOfFinite
<1>4. \A x \in S \cup {0} : x \in 0 .. n
  OBVIOUS
<1> QED
  BY <1>3, <1>4 DEF LastModified

\* Nothing changed between the last-modified ledger and the read.
LEMMA SettledSince ==
  ASSUME NEW h, NEW kinds, NEW to \in Nat, NEW l \in Nat, l =< to,
         LastModified(Of(h, kinds, to)) =< l
  PROVE  Of(h, kinds, l) = Of(h, kinds, to)
<1>1. Of(h, kinds, to) \in SUBSET (1 .. to)
  BY DEF Of
<1>2. \A k \in Of(h, kinds, to) : k =< LastModified(Of(h, kinds, to)) /\ LastModified(Of(h, kinds, to)) \in Int
  BY <1>1, LastModifiedBounds
<1>3. \A k \in Of(h, kinds, to) : k =< l
  BY <1>1, <1>2
<1> QED
  BY <1>3 DEF Of

\* Entries of one history that differ have other last-modified ledgers.
LEMMA ModifiedApart ==
  ASSUME NEW h, NEW kinds, NEW x \in Nat, NEW y \in Nat,
         Of(h, kinds, x) # Of(h, kinds, y)
  PROVE  x # y /\ LastModified(Of(h, kinds, x)) # LastModified(Of(h, kinds, y))
<1>1. ASSUME NEW a \in Nat, NEW b \in Nat, a =< b,
             LastModified(Of(h, kinds, a)) = LastModified(Of(h, kinds, b))
      PROVE  Of(h, kinds, a) = Of(h, kinds, b)
  <2>1. Of(h, kinds, a) \in SUBSET (1 .. a)
    BY DEF Of
  <2>2. LastModified(Of(h, kinds, a)) =< a
    BY <2>1, LastModifiedBounds
  <2> QED
    BY <2>2, <1>1, SettledSince
<1>2. CASE x =< y
  BY <1>1, <1>2
<1>3. CASE y =< x
  BY <1>1, <1>3
<1> QED
  BY <1>2, <1>3

\* A tree with no more leaves than the one replayed is its first leaves.
LEMMA FirstLeavesExact ==
  ASSUME NEW h, NEW kinds, NEW to \in Nat, NEW c \in Nat,
         Cardinality(Of(h, kinds, to)) =< Cardinality(Of(h, kinds, c))
  PROVE  {l \in Of(h, kinds, c) : Cardinality(Of(h, kinds, l)) =< Cardinality(Of(h, kinds, to))}
           = Of(h, kinds, to)
<1> DEFINE L(l) == Of(h, kinds, l)
<1>0. \A l \in Nat : L(l) \in SUBSET (1 .. l) /\ IsFiniteSet(L(l)) /\ Cardinality(L(l)) \in Nat
  BY OfProperties
<1>1. \A l, m \in Nat : l =< m => L(l) \in SUBSET L(m) /\ Cardinality(L(l)) =< Cardinality(L(m))
  BY OfProperties
<1>2. ASSUME NEW l \in L(c), NEW m \in Nat, m < l
      PROVE  Cardinality(L(m)) < Cardinality(L(l))
  <2>1. l \in Nat /\ l \in L(l)
    BY <1>2 DEF Of
  <2>2. L(m) \in SUBSET L(l) /\ l \notin L(m)
    BY <2>1, <1>0, <1>1, <1>2
  <2> HIDE DEF L
  <2> QED
    BY <2>1, <2>2, <1>0, FewerElements
<1>3. \A l \in L(c) : l \in Nat
  BY <1>0
<1>4. CASE to =< c
  <2>1. L(to) \in SUBSET L(c)
    BY <1>1, <1>4
  <2>2. ASSUME NEW l \in L(to)
        PROVE  Cardinality(L(l)) =< Cardinality(L(to))
    <3>1. l \in Nat /\ l =< to
      BY <1>0
    <3> QED
      BY <3>1, <1>1
  <2>3. ASSUME NEW l \in L(c), Cardinality(L(l)) =< Cardinality(L(to))
        PROVE  l \in L(to)
    <3>1. l =< to
      <4> SUFFICES ASSUME to < l PROVE FALSE
        BY <1>3
      <4>1. Cardinality(L(to)) < Cardinality(L(l))
        BY <1>2
      <4> HIDE DEF L
      <4> QED
        BY <4>1, <2>3, <1>0, <1>3
    <3> QED
      BY <3>1, <2>3 DEF Of
  <2> QED
    BY <2>1, <2>2, <2>3
<1>5. CASE c < to
  <2>1. L(c) \in SUBSET L(to)
    BY <1>1, <1>5
  <2>2. L(c) = L(to)
    <3> SUFFICES ASSUME NEW x \in L(to), x \notin L(c) PROVE FALSE
      BY <2>1
    <3> HIDE DEF L
    <3>1. Cardinality(L(c)) < Cardinality(L(to))
      BY <2>1, <1>0, FewerElements
    <3>2. Cardinality(L(to)) =< Cardinality(L(c))
      BY DEF L
    <3> QED
      BY <3>1, <3>2, <1>0
  <2>3. ASSUME NEW l \in L(c)
        PROVE  Cardinality(L(l)) =< Cardinality(L(to))
    <3>1. l \in Nat /\ l =< to
      BY <1>0, <1>5
    <3> QED
      BY <3>1, <1>1
  <2> QED
    BY <2>2, <2>3
<1> QED
  BY <1>4, <1>5

----------------------------------------------------------------------------
\* The inductive invariant.

Read == [from : Nat, to : Nat, status : SUBSET Nat]

\* The network: what the primary reports differs from what the ledgers carry
\* only in plain events, and only once it lied.
NetInv ==
  /\ chain \in Seq(Kinds) /\ told \in Seq(Kinds) /\ Len(told) = Len(chain)
  /\ Len(chain) =< MaxLedger
  /\ primary \in 0 .. Len(chain) /\ second \in 0 .. Len(chain)
  /\ forged \in BOOLEAN /\ lied \in BOOLEAN
  /\ \A l \in 1 .. Len(chain) :
       /\ chain[l] # "broken"
       /\ told[l] # chain[l] => lied /\ told[l] \in Plain /\ chain[l] \in Plain

\* The copy: never ahead of the primary, and true unless the primary lied.
CopyInv ==
  /\ copy \in Seq(Kinds) /\ cursor \in 0 .. Len(copy) /\ Len(copy) =< primary
  /\ faulted \in BOOLEAN /\ watchFaults \in Nat
  /\ ~ lied => \A l \in 1 .. Len(copy) : copy[l] = chain[l]

\* The roots kept are of trees no larger than the one replayed.
RootsInv ==
  /\ roots \in Seq(Nat) /\ Len(roots) =< rootHistory
  /\ \A i \in 1 .. Len(roots) : roots[i] =< Cardinality(Leaves(copy, cursor))

\* The newest status kept is the cursor's.
SnapshotsInv ==
  /\ snapshots \in Seq(Nat) /\ Len(snapshots) \in 1 .. snapshotHistory
  /\ snapshots[Len(snapshots)] = cursor
  /\ \A i \in 1 .. Len(snapshots) : snapshots[i] =< cursor

\* No window waits to be compared that is not stored.
StoredWindows == {w \in [from : Nat, to : Nat] : w.from >= 1 /\ w.to =< Len(copy)}
WindowsInv == pendingCross \in Seq(StoredWindows) /\ ready \in Seq(StoredWindows)

\* A read of the status that the chain bears out.
TrueRead(r) ==
  r.to =< Len(chain) /\ r.status = Status(chain, r.to) /\ r.from = LastModified(r.status)

\* The reconciliation: what it read is true unless the primary lied, and the
\* newest ledger seen is no older than it.
GotInv ==
  /\ got \in [from : Nat, to : Nat, status : SUBSET Nat, leaves : SUBSET Nat, delay : Nat]
  /\ phase = "read" => got.from =< got.to
  /\ latest \in Nat /\ (phase \in {"cross", "beat"} => got.to =< latest)
  /\ ~ lied /\ phase = "read" => TrueRead(got) /\ got.leaves = Leaves(chain, got.to)

\* The reads that wait for the ledger they are compared with.
ReadsInv ==
  /\ reads \in Seq(Read) /\ Len(reads) =< maxReads
  /\ ~ lied => \A i \in 1 .. Len(reads) : TrueRead(reads[i])

----------------------------------------------------------------------------
\* The network.

\* The steps that are not the network's.
WatcherStep ==
  \/ \E to \in To : Fault(to) \/ Apply(to) \/ ApplyFails(to) \/ ApplyUnanswered(to) \/ ApplyCrash(to)
  \/ Restart
  \/ judgeAttestation
  \/ judgeDeferred
  \/ RetryAttestations
  \/ CheckAdmissions
  \/ ReadVault
  \/ \E entries, health \in BOOLEAN : Reconcile(entries, health)
  \/ crossCheck
  \/ crossCheckFails
  \/ Beat

\* The steps of the network.
NetworkStep ==
  \/ \E k \in Kinds \ {"broken"} :
       \E r \in Reportable(k), p \in primary .. Next1, s \in second .. Next1 : Close(k, r, p, s)
  \/ CatchUp
  \/ Correct

\* Everything else leaves the network alone.
LEMMA WatcherLeavesNetwork ==
  ASSUME WatcherStep
  PROVE  UNCHANGED chainVars
<1>1. ASSUME NEW to \in To, Fault(to) \/ Apply(to) \/ ApplyFails(to) \/ ApplyUnanswered(to) \/ ApplyCrash(to)
      PROVE  UNCHANGED chainVars
  <2>1. CASE Fault(to)
    BY <2>1 DEF Fault
  <2>2. CASE Apply(to)
    BY <2>2 DEF Apply
  <2>3. CASE ApplyFails(to)
    BY <2>3 DEF ApplyFails
  <2>4. CASE ApplyUnanswered(to)
    BY <2>4 DEF ApplyUnanswered
  <2>5. CASE ApplyCrash(to)
    BY <2>5 DEF ApplyCrash
  <2> QED
    BY <1>1, <2>1, <2>2, <2>3, <2>4, <2>5
<1>2. CASE Restart
  BY <1>2 DEF Restart
<1>3. CASE judgeAttestation
  BY <1>3 DEF judgeAttestation
<1>4. CASE judgeDeferred
  BY <1>4 DEF judgeDeferred
<1>5. CASE RetryAttestations
  BY <1>5 DEF RetryAttestations
<1>6. CASE CheckAdmissions
  BY <1>6 DEF CheckAdmissions
<1>7. CASE ReadVault
  BY <1>7 DEF ReadVault
<1>8. ASSUME NEW entries \in BOOLEAN, NEW health \in BOOLEAN, Reconcile(entries, health)
      PROVE  UNCHANGED chainVars
  BY <1>8 DEF Reconcile
<1>9. CASE crossCheck
  BY <1>9 DEF crossCheck
<1>10. CASE crossCheckFails
  BY <1>10 DEF crossCheckFails
<1>11. CASE Beat
  BY <1>11 DEF Beat
<1> QED
  BY <1>1, <1>2, <1>3, <1>4, <1>5, <1>6, <1>7, <1>8, <1>9, <1>10, <1>11 DEF WatcherStep

\* A step of the network extends the chain or moves the RPCs forward, and leaves
\* the watcher alone.
LEMMA NetworkKept ==
  ASSUME NetInv, NetworkStep
  PROVE  /\ NetInv'
         /\ Len(chain) =< Len(chain') /\ primary =< primary'
         /\ \A l \in 1 .. Len(chain) : chain'[l] = chain[l]
         /\ lied => lied'
         /\ UNCHANGED <<storedVars, memoryVars, reconcileVars, judging, paged, historyVars, watchFaults>>
<1>t. Len(chain) \in Nat /\ Len(told) = Len(chain) /\ primary \in Nat /\ second \in Nat /\ MaxLedger \in Nat
  BY WatcherAssumptions DEF NetInv
<1>1. ASSUME NEW k \in Kinds \ {"broken"}, NEW r \in Reportable(k),
             NEW p \in primary .. Next1, NEW s \in second .. Next1, Close(k, r, p, s)
      PROVE  /\ NetInv'
             /\ Len(chain) =< Len(chain') /\ primary =< primary'
             /\ \A l \in 1 .. Len(chain) : chain'[l] = chain[l]
             /\ lied => lied'
             /\ UNCHANGED <<storedVars, memoryVars, reconcileVars, judging, paged, historyVars, watchFaults>>
  <2>1. /\ Len(chain) < MaxLedger /\ chain' = Append(chain, k) /\ told' = Append(told, r)
        /\ primary' = p /\ second' = s
        /\ UNCHANGED <<storedVars, memoryVars, reconcileVars, judging, paged, historyVars, watchFaults>>
    BY <1>1 DEF Close
  <2>2. r # k => r \in Plain /\ k \in Plain
    BY DEF Reportable
  <2>3. r \in Kinds
    BY DEF Reportable, Plain, Kinds, StatusKinds, LeafKinds
  <2>4. /\ chain' \in Seq(Kinds) /\ told' \in Seq(Kinds) /\ Len(chain') = Len(chain) + 1
        /\ Len(told') = Len(chain) + 1
        /\ \A l \in 1 .. Len(chain) : chain'[l] = chain[l] /\ told'[l] = told[l]
        /\ chain'[Len(chain) + 1] = k /\ told'[Len(chain) + 1] = r
    BY <1>t, <2>1, <2>3 DEF NetInv
  <2>5. /\ r = k => lied' = lied /\ forged' = forged
        /\ r # k => lied' = TRUE /\ forged' \in BOOLEAN
    BY <1>1 DEF Close
  <2>6. (lied => lied') /\ lied' \in BOOLEAN /\ forged' \in BOOLEAN /\ (r # k => lied')
    <3>1. lied \in BOOLEAN /\ forged \in BOOLEAN
      BY DEF NetInv
    <3> QED
      BY <2>5, <3>1, Zenon
  <2>7. p \in primary .. Len(chain) + 1 /\ s \in second .. Len(chain) + 1
    BY DEF Next1
  <2>8. ASSUME NEW l \in 1 .. Len(chain')
        PROVE  /\ chain'[l] # "broken"
               /\ told'[l] # chain'[l] => lied' /\ told'[l] \in Plain /\ chain'[l] \in Plain
    <3>1. CASE l = Len(chain) + 1
      BY <3>1, <2>2, <2>4, <2>6
    <3>2. CASE l \in 1 .. Len(chain)
      BY <3>2, <2>4, <2>6 DEF NetInv
    <3> QED
      BY <3>1, <3>2, <1>t, <2>4
  <2>9. Len(chain') =< MaxLedger /\ primary' \in 0 .. Len(chain') /\ second' \in 0 .. Len(chain') /\ primary =< primary'
    BY <1>t, <2>1, <2>4, <2>7
  <2>10. NetInv'
    BY <2>4, <2>6, <2>8, <2>9 DEF NetInv
  <2> QED
    BY <1>t, <2>1, <2>4, <2>6, <2>9, <2>10
<1>2. CASE CatchUp
  <2>1. /\ primary' = Len(chain) /\ second' = Len(chain) /\ UNCHANGED <<chain, told, forged, lied>>
        /\ UNCHANGED <<storedVars, memoryVars, reconcileVars, judging, paged, historyVars, watchFaults>>
    BY <1>2 DEF CatchUp
  <2>2. primary' \in 0 .. Len(chain') /\ second' \in 0 .. Len(chain') /\ primary =< primary'
    BY <1>t, <2>1 DEF NetInv
  <2> QED
    BY <1>t, <2>1, <2>2 DEF NetInv
<1>3. CASE Correct
  <2>1. PICK l \in DOMAIN told : told[l] = "broken" /\ told' = [told EXCEPT ![l] = chain[l]]
    BY <1>3 DEF Correct
  <2>2. /\ UNCHANGED <<chain, primary, second, forged, lied>>
        /\ UNCHANGED <<storedVars, memoryVars, reconcileVars, judging, paged, historyVars, watchFaults>>
    BY <1>3 DEF Correct
  <2>3. l \in 1 .. Len(chain) /\ chain[l] \in Kinds
    BY <1>t DEF NetInv
  <2>4. told' \in Seq(Kinds) /\ Len(told') = Len(told)
    BY <2>1, <2>3 DEF NetInv
  <2>5. \A m \in 1 .. Len(chain) : told'[m] = IF m = l THEN chain[m] ELSE told[m]
    BY <1>t, <2>1, <2>3 DEF NetInv
  <2>6. NetInv'
    BY <2>2, <2>4, <2>5 DEF NetInv
  <2> QED
    BY <1>t, <2>2, <2>6
<1> QED
  BY <1>1, <1>2, <1>3 DEF NetworkStep

\* The network's part of the invariant is kept, and the network only grows.
LEMMA NetKept ==
  ASSUME NetInv, [WatchNext]_watchVars
  PROVE  /\ NetInv'
         /\ Len(chain) =< Len(chain') /\ primary =< primary'
         /\ \A l \in 1 .. Len(chain) : chain'[l] = chain[l]
         /\ lied => lied'
<1>t. Len(chain) \in Nat /\ primary \in Nat
  BY DEF NetInv
<1>1. CASE NetworkStep
  BY <1>1, NetworkKept
<1>2. CASE UNCHANGED chainVars
  <2>1. UNCHANGED <<chain, told, primary, second, forged, lied>>
    BY <1>2 DEF chainVars
  <2> QED
    BY <2>1, <1>t DEF NetInv
<1>3. CASE WatcherStep
  BY <1>3, <1>2, WatcherLeavesNetwork
<1>4. NetworkStep \/ WatcherStep \/ UNCHANGED chainVars
  BY DEF WatchNext, NetworkStep, WatcherStep, watchVars
<1> QED
  BY <1>1, <1>2, <1>3, <1>4

----------------------------------------------------------------------------
\* The copy.

\* What a commit appends: the primary's reports of the window.
LEMMA CommitAppends ==
  ASSUME NetInv, CopyInv, NEW to \in To, Commit(Batch(to))
  PROVE  /\ Len(copy) = cursor /\ copy' \in Seq(Kinds) /\ Len(copy') = to
         /\ \A l \in 1 .. Len(copy) : copy'[l] = copy[l]
         /\ \A l \in cursor + 1 .. to : l \in 1 .. Len(chain) /\ copy'[l] = told[l]
         /\ to \in Nat /\ cursor < to /\ to =< primary
<1>1. /\ cursor \in Nat /\ Len(copy) \in Nat /\ primary \in Nat /\ Len(told) \in Nat
      /\ primary =< Len(told) /\ Len(told) = Len(chain) /\ told \in Seq(Kinds) /\ copy \in Seq(Kinds)
  BY DEF NetInv, CopyInv
<1>2. to \in Nat /\ cursor < to /\ to =< primary
  BY <1>1 DEF To
<1>3. Len(copy) = cursor /\ copy' = copy \o SubSeq(told, cursor + 1, to)
  BY DEF Commit, Batch
<1>4. /\ SubSeq(told, cursor + 1, to) \in Seq(Kinds) /\ Len(SubSeq(told, cursor + 1, to)) = to - cursor
      /\ \A i \in 1 .. to - cursor : SubSeq(told, cursor + 1, to)[i] = told[cursor + i]
  BY <1>1, <1>2
<1> DEFINE w == SubSeq(told, cursor + 1, to)
<1> HIDE DEF w
<1>5. w \in Seq(Kinds) /\ Len(w) = to - cursor /\ \A i \in 1 .. to - cursor : w[i] = told[cursor + i]
  BY <1>4 DEF w
<1>6. copy' = copy \o w
  BY <1>3 DEF w
<1>l. Len(copy) = cursor
  BY <1>3
<1>7. /\ copy' \in Seq(Kinds) /\ Len(copy') = Len(copy) + Len(w)
      /\ \A l \in 1 .. Len(copy) : copy'[l] = copy[l]
      /\ \A l \in Len(copy) + 1 .. Len(copy) + Len(w) : copy'[l] = w[l - Len(copy)]
  BY <1>1, <1>5, <1>6
<1>9. Len(copy') = to
  BY <1>1, <1>2, <1>l, <1>5, <1>7
<1>8. ASSUME NEW l \in cursor + 1 .. to
      PROVE  l \in 1 .. Len(chain) /\ copy'[l] = told[l]
  <2>1. l - cursor \in 1 .. to - cursor /\ cursor + (l - cursor) = l /\ l \in 1 .. Len(chain)
    BY <1>1, <1>2
  <2>2. l \in Len(copy) + 1 .. Len(copy) + Len(w)
    BY <1>1, <1>2, <1>l, <1>5
  <2>3. copy'[l] = w[l - cursor]
    BY <2>2, <1>l, <1>7
  <2> QED
    BY <2>1, <2>3, <1>5
<1> QED
  BY <1>2, <1>l, <1>7, <1>8, <1>9

\* The faults counted are never fewer.
LEMMA FailsCounts ==
  ASSUME watchFaults \in Nat, Fails(1)
  PROVE  watchFaults' \in Nat /\ watchFaults' # 0 /\ watchFaults' # watchFaults
BY DEF Fails

\* The steps that store a window, and those that leave the stored one.
LEMMA CopyKept ==
  ASSUME NetInv, CopyInv, [WatchNext]_watchVars
  PROVE  /\ CopyInv'
         /\ Len(copy) =< Len(copy') /\ \A l \in 1 .. Len(copy) : copy'[l] = copy[l]
<1> DEFINE Goal == /\ CopyInv'
                   /\ Len(copy) =< Len(copy') /\ \A l \in 1 .. Len(copy) : copy'[l] = copy[l]
<1>n. /\ NetInv' /\ Len(chain) =< Len(chain') /\ primary =< primary'
      /\ \A l \in 1 .. Len(chain) : chain'[l] = chain[l]
      /\ lied => lied'
  BY NetKept
<1>t. /\ cursor \in Nat /\ Len(copy) \in Nat /\ primary \in Nat /\ primary' \in Nat /\ cursor =< Len(copy)
      /\ Len(copy) =< primary /\ primary =< Len(chain) /\ Len(chain) \in Nat
  BY <1>n DEF NetInv, CopyInv
<1>c. \A l \in 1 .. Len(copy) : l \in 1 .. Len(chain) /\ chain'[l] = chain[l]
  BY <1>n, <1>t
<1>1. ASSUME UNCHANGED copy, cursor' \in 0 .. Len(copy), faulted' \in BOOLEAN, watchFaults' \in Nat
      PROVE  Goal
  <2>1. Len(copy) =< primary'
    BY <1>n, <1>t
  <2>2. ~ lied' => \A l \in 1 .. Len(copy) : copy[l] = chain'[l]
    BY <1>n, <1>c DEF CopyInv
  <2> QED
    BY <1>1, <1>t, <2>1, <2>2 DEF CopyInv
<1>2. ASSUME NEW to \in To, Commit(Batch(to)), cursor' \in {cursor, to}, faulted' \in BOOLEAN, watchFaults' \in Nat
      PROVE  Goal
  <2>1. /\ Len(copy) = cursor /\ copy' \in Seq(Kinds) /\ Len(copy') = to
        /\ \A l \in 1 .. Len(copy) : copy'[l] = copy[l]
        /\ \A l \in cursor + 1 .. to : l \in 1 .. Len(chain) /\ copy'[l] = told[l]
        /\ to \in Nat /\ cursor < to /\ to =< primary
    BY <1>2, CommitAppends
  <2>2. cursor' \in 0 .. Len(copy') /\ Len(copy') =< primary' /\ Len(copy) =< Len(copy')
    BY <1>2, <1>n, <1>t, <2>1
  <2>3. ASSUME ~ lied', NEW l \in 1 .. Len(copy')
        PROVE  copy'[l] = chain'[l]
    <3>1. CASE l \in 1 .. Len(copy)
      BY <3>1, <2>1, <2>3, <1>n, <1>c DEF CopyInv
    <3>2. CASE l \in cursor + 1 .. to
      BY <3>2, <2>1, <2>3, <1>n DEF NetInv
    <3> QED
      BY <3>1, <3>2, <2>1, <1>t
  <2> QED
    BY <1>2, <2>1, <2>2, <2>3 DEF CopyInv
<1>3. faulted \in BOOLEAN /\ watchFaults \in Nat /\ cursor \in 0 .. Len(copy)
  BY DEF CopyInv
<1>4. CASE NetworkStep
  <2>1. UNCHANGED <<copy, cursor, faulted, watchFaults>>
    BY <1>4, NetworkKept DEF storedVars, memoryVars
  <2> QED
    BY <1>1, <1>3, <2>1
<1>5. ASSUME NEW to \in To, Fault(to) \/ Apply(to) \/ ApplyFails(to) \/ ApplyUnanswered(to) \/ ApplyCrash(to)
      PROVE  Goal
  <2>b. Batch(to).to = to
    BY DEF Batch
  <2>1. CASE Fault(to)
    <3>1. UNCHANGED <<copy, cursor, watchFaults>> /\ faulted' = TRUE
      BY <2>1 DEF Fault, storedVars
    <3> QED
      BY <1>1, <1>3, <3>1
  <2>2. CASE Apply(to)
    <3>1. Commit(Batch(to)) /\ cursor' = to /\ faulted' = FALSE /\ watchFaults' = watchFaults
      BY <2>2, <2>b DEF Apply, Keep
    <3> QED
      BY <1>2, <1>3, <3>1
  <2>3. CASE ApplyFails(to)
    <3>1. UNCHANGED <<copy, cursor, faulted>> /\ (watchFaults' = watchFaults \/ Fails(1))
      BY <2>3 DEF ApplyFails, storedVars
    <3> QED
      BY <1>1, <1>3, <3>1, FailsCounts
  <2>4. CASE ApplyUnanswered(to)
    <3>1. Commit(Batch(to)) /\ UNCHANGED <<cursor, faulted>> /\ Fails(1)
      BY <2>4 DEF ApplyUnanswered
    <3> QED
      BY <1>2, <1>3, <3>1, FailsCounts
  <2>5. CASE ApplyCrash(to)
    <3>1. Commit(Batch(to)) /\ Fails(1) /\ cursor' = Len(copy') /\ faulted' = FALSE
      BY <2>5 DEF ApplyCrash, New
    <3>2. Len(copy') = to
      BY <3>1, CommitAppends
    <3> QED
      BY <1>2, <1>3, <3>1, <3>2, FailsCounts
  <2> QED
    BY <1>5, <2>1, <2>2, <2>3, <2>4, <2>5
<1>6. CASE Restart
  <2>1. copy' = copy /\ Fails(1) /\ cursor' = Len(copy) /\ faulted' = FALSE
    BY <1>6 DEF Restart, New, storedVars
  <2>2. cursor' \in 0 .. Len(copy)
    BY <1>t, <2>1
  <2>3. watchFaults' \in Nat /\ faulted' \in BOOLEAN
    BY <1>3, <2>1, FailsCounts
  <2> QED
    BY <1>1, <2>1, <2>2, <2>3
<1>7. CASE judgeAttestation
  BY <1>7, <1>1, <1>3 DEF judgeAttestation, memoryVars
<1>8. CASE judgeDeferred
  <2>1. UNCHANGED <<copy, cursor, faulted>> /\ (watchFaults' = watchFaults \/ Fails(1))
    BY <1>8 DEF judgeDeferred, memoryVars
  <2> QED
    BY <1>1, <1>3, <2>1, FailsCounts
<1>9. CASE RetryAttestations
  BY <1>9, <1>1, <1>3 DEF RetryAttestations, storedVars, memoryVars
<1>10. CASE CheckAdmissions
  BY <1>10, <1>1, <1>3 DEF CheckAdmissions, memoryVars
<1>11. CASE ReadVault
  BY <1>11, <1>1, <1>3 DEF ReadVault, storedVars, memoryVars
<1>12. ASSUME NEW entries \in BOOLEAN, NEW health \in BOOLEAN, Reconcile(entries, health)
      PROVE  Goal
  <2>1. UNCHANGED <<copy, cursor, faulted>> /\ (watchFaults' = watchFaults \/ Fails(1))
    BY <1>12 DEF Reconcile, storedVars
  <2> QED
    BY <1>1, <1>3, <2>1, FailsCounts
<1>13. CASE crossCheck
  BY <1>13, <1>1, <1>3 DEF crossCheck, storedVars, memoryVars
<1>14. CASE crossCheckFails
  <2>1. UNCHANGED <<copy, cursor, faulted>> /\ Fails(1)
    BY <1>14 DEF crossCheckFails, storedVars
  <2> QED
    BY <1>1, <1>3, <2>1, FailsCounts
<1>15. CASE Beat
  BY <1>15, <1>1, <1>3 DEF Beat, storedVars, memoryVars
<1>16. CASE UNCHANGED watchVars
  BY <1>16, <1>1, <1>3 DEF watchVars, storedVars, memoryVars
<1>17. NetworkStep \/ WatcherStep \/ UNCHANGED watchVars
  BY DEF WatchNext, NetworkStep, WatcherStep
<1> QED
  BY <1>4, <1>5, <1>6, <1>7, <1>8, <1>9, <1>10, <1>11, <1>12, <1>13, <1>14, <1>15, <1>16, <1>17 DEF WatcherStep

----------------------------------------------------------------------------
\* What is kept in memory.

\* The leaf counts that a window adds to the history of roots.
LEMMA KeepRootProperties ==
  ASSUME NEW h, NEW to \in Nat, NEW b, b.to = to, roots \in Seq(Nat), b.from \in Nat,
         \A i \in 1 .. Len(roots) : roots[i] =< Cardinality(Leaves(h, to))
  PROVE  /\ keepRoot(h, b) \in Seq(Nat) /\ Len(keepRoot(h, b)) =< rootHistory
         /\ \A i \in 1 .. Len(keepRoot(h, b)) : keepRoot(h, b)[i] =< Cardinality(Leaves(h, to))
<1>h. rootHistory \in Nat
  BY WatcherAssumptions
<1> DEFINE N == Cardinality(Leaves(h, to))
           counts == {Cardinality(Leaves(h, l)) : l \in Ledgers(b)} \ ToSet(roots)
           all == roots \o Ascending(counts)
<1>1. N \in Nat /\ \A l \in Ledgers(b) : Cardinality(Leaves(h, l)) \in 0 .. N
  <2>1. N \in Nat
    BY OfProperties DEF Leaves
  <2>2. ASSUME NEW l \in Ledgers(b)
        PROVE  Cardinality(Leaves(h, l)) \in 0 .. N
    <3>1. l \in Nat /\ l =< to
      BY DEF Ledgers
    <3>2. Cardinality(Leaves(h, l)) \in Nat /\ Cardinality(Leaves(h, l)) =< N
      BY <3>1, OfProperties DEF Leaves
    <3> QED
      BY <2>1, <3>2
  <2> QED
    BY <2>1, <2>2
<1> HIDE DEF N
<1>2. counts \in SUBSET (0 .. N)
  BY <1>1
<1> HIDE DEF counts
<1>3. IsFiniteSet(counts) /\ counts \in SUBSET Int
  <2>1. IsFiniteSet(0 .. N)
    BY <1>1, FS_Interval
  <2>2. IsFiniteSet(counts)
    BY <1>2, <2>1, FS_Subset
  <2>3. counts \in SUBSET Int
    BY <1>2, <1>1
  <2> QED
    BY <2>2, <2>3
<1>4. Cardinality(counts) \in Nat /\ Ascending(counts) \in [1 .. Cardinality(counts) -> counts]
  BY <1>3, AscendingProperties, FS_CardinalityType
<1>5. Ascending(counts) \in Seq(0 .. N)
  <2>1. Ascending(counts) \in Seq(counts)
    BY <1>4
  <2>2. \A i \in 1 .. Len(Ascending(counts)) : Ascending(counts)[i] \in 0 .. N
    <3> SUFFICES ASSUME NEW i \in 1 .. Len(Ascending(counts))
                 PROVE  Ascending(counts)[i] \in counts
      BY <1>2
    <3> QED
      BY <2>1
  <2> QED
    BY <2>1, <2>2, ListOf
<1>6. roots \in Seq(0 .. N)
  <2>1. \A i \in 1 .. Len(roots) : roots[i] \in 0 .. N
    BY <1>1 DEF N
  <2> QED
    BY <2>1, ListOf
<1>7. all \in Seq(0 .. N)
  BY <1>5, <1>6
<1> HIDE DEF all
<1>8. LastN(all, rootHistory) \in Seq(0 .. N) /\ Len(LastN(all, rootHistory)) =< rootHistory
  BY <1>h, <1>7, LastNProperties
<1>9. keepRoot(h, b) = LastN(all, rootHistory)
  BY DEF keepRoot, all, counts
<1>10. keepRoot(h, b) \in Seq(0 .. N) /\ Len(keepRoot(h, b)) =< rootHistory
  BY <1>8, <1>9
<1>11. \A i \in 1 .. Len(keepRoot(h, b)) : keepRoot(h, b)[i] \in 0 .. N
  <2> DEFINE T == 0 .. N
  <2> HIDE DEF T
  <2>1. keepRoot(h, b) \in Seq(T)
    BY <1>10 DEF T
  <2>2. \A i \in 1 .. Len(keepRoot(h, b)) : keepRoot(h, b)[i] \in T
    BY <2>1
  <2> QED
    BY <2>2 DEF T
<1>12. keepRoot(h, b) \in Seq(Nat)
  <2>1. \A i \in 1 .. Len(keepRoot(h, b)) : keepRoot(h, b)[i] \in Nat
    BY <1>11, <1>1
  <2> QED
    BY <1>10, <2>1, ListOf
<1> QED
  BY <1>10, <1>11, <1>12, <1>1 DEF N

\* What the steps that keep nothing new in memory leave alone.
MemoryFrame == UNCHANGED <<cursor, latest, roots, snapshots, pendingCross, reads, ready, owed>>

\* The steps that change the memory: a window is applied, a restart, and the
\* steps of a reconciliation.
LEMMA MemoryCases ==
  ASSUME [WatchNext]_watchVars
  PROVE  \/ \E to \in To : Apply(to)
         \/ New(copy')
         \/ \E entries, health \in BOOLEAN : Reconcile(entries, health)
         \/ crossCheck
         \/ crossCheckFails
         \/ MemoryFrame
<1>1. ASSUME NEW to \in To, Fault(to)
      PROVE  MemoryFrame
  BY <1>1 DEF Fault, MemoryFrame, reconcileVars, historyVars
<1>2. ASSUME NEW to \in To, ApplyFails(to)
      PROVE  MemoryFrame
  BY <1>2 DEF ApplyFails, MemoryFrame, reconcileVars, historyVars
<1>3. ASSUME NEW to \in To, ApplyUnanswered(to)
      PROVE  MemoryFrame
  BY <1>3 DEF ApplyUnanswered, MemoryFrame, reconcileVars
<1>4. ASSUME NEW to \in To, ApplyCrash(to)
      PROVE  New(copy')
  BY <1>4 DEF ApplyCrash
<1>5. CASE Restart
  BY <1>5 DEF Restart, New, storedVars
<1>6. CASE judgeAttestation
  BY <1>6 DEF judgeAttestation, MemoryFrame, memoryVars, reconcileVars, historyVars
<1>7. CASE judgeDeferred
  BY <1>7 DEF judgeDeferred, MemoryFrame, memoryVars, reconcileVars, historyVars
<1>8. CASE RetryAttestations
  BY <1>8 DEF RetryAttestations, MemoryFrame, memoryVars, reconcileVars, historyVars
<1>9. CASE CheckAdmissions
  BY <1>9 DEF CheckAdmissions, MemoryFrame, memoryVars, reconcileVars, historyVars
<1>10. CASE ReadVault
  BY <1>10 DEF ReadVault, MemoryFrame, memoryVars, historyVars
<1>11. CASE Beat
  BY <1>11 DEF Beat, MemoryFrame, memoryVars
<1>12. ASSUME NEW k \in Kinds \ {"broken"}, NEW r \in Reportable(k),
              NEW p \in primary .. Next1, NEW s \in second .. Next1, Close(k, r, p, s)
       PROVE  MemoryFrame
  BY <1>12 DEF Close, MemoryFrame, memoryVars, reconcileVars, historyVars
<1>13. CASE CatchUp
  BY <1>13 DEF CatchUp, MemoryFrame, memoryVars, reconcileVars, historyVars
<1>14. CASE Correct
  BY <1>14 DEF Correct, MemoryFrame, memoryVars, reconcileVars, historyVars
<1>15. CASE UNCHANGED watchVars
  BY <1>15 DEF watchVars, MemoryFrame, memoryVars, reconcileVars, historyVars
<1> QED
  BY <1>1, <1>2, <1>3, <1>4, <1>5, <1>6, <1>7, <1>8, <1>9, <1>10, <1>11, <1>12, <1>13, <1>14, <1>15 DEF WatchNext

\* Where the cursor stays, the tree replayed up to it stays.
LEMMA LeavesKept ==
  ASSUME NEW c \in Nat, c =< Len(copy), Len(copy) \in Nat,
         \A l \in 1 .. Len(copy) : copy'[l] = copy[l]
  PROVE  Leaves(copy', c) = Leaves(copy, c)
<1>1. \A k \in 1 .. c : copy'[k] = copy[k]
  OBVIOUS
<1> QED
  BY <1>1, OfSame DEF Leaves

\* The history of roots.
LEMMA RootsKept ==
  ASSUME NetInv, CopyInv, RootsInv, [WatchNext]_watchVars
  PROVE  RootsInv'
<1>c. CopyInv' /\ \A l \in 1 .. Len(copy) : copy'[l] = copy[l]
  BY CopyKept
<1>t. cursor \in Nat /\ Len(copy) \in Nat /\ cursor =< Len(copy) /\ cursor' \in Nat /\ Len(copy') \in Nat
  BY <1>c DEF CopyInv
<1>l. Leaves(copy', cursor) = Leaves(copy, cursor)
  BY <1>c, <1>t, LeavesKept
<1>1. ASSUME NEW to \in To, Apply(to)
      PROVE  RootsInv'
  <2>b. Batch(to).to = to /\ Batch(to).from \in Nat
    BY <1>t DEF Batch
  <2>1. cursor' = to /\ roots' = keepRoot(copy', Batch(to))
    BY <1>1, <2>b DEF Apply, Keep
  <2>2. to \in Nat /\ cursor =< to
    BY <2>1, <1>t, <1>c DEF To, CopyInv
  <2>3. Cardinality(Leaves(copy', cursor)) =< Cardinality(Leaves(copy', to))
        /\ Cardinality(Leaves(copy', cursor)) \in Nat /\ Cardinality(Leaves(copy', to)) \in Nat
    BY <2>2, <1>t, OfProperties DEF Leaves
  <2>4. \A i \in 1 .. Len(roots) : roots[i] =< Cardinality(Leaves(copy', to))
    <3>1. \A i \in 1 .. Len(roots) : roots[i] \in Nat /\ roots[i] =< Cardinality(Leaves(copy', cursor))
      BY <1>l DEF RootsInv
    <3> QED
      BY <3>1, <2>3
  <2>5. roots \in Seq(Nat)
    BY DEF RootsInv
  <2>6. /\ keepRoot(copy', Batch(to)) \in Seq(Nat) /\ Len(keepRoot(copy', Batch(to))) =< rootHistory
        /\ \A i \in 1 .. Len(keepRoot(copy', Batch(to))) : keepRoot(copy', Batch(to))[i] =< Cardinality(Leaves(copy', to))
    BY <2>b, <2>2, <2>4, <2>5, KeepRootProperties
  <2> QED
    BY <2>1, <2>6 DEF RootsInv
<1>2. CASE New(copy')
  <2>1. cursor' = Len(copy') /\ roots' = <<Cardinality(Leaves(copy', Len(copy')))>>
    BY <1>2 DEF New
  <2>2. Cardinality(Leaves(copy', Len(copy'))) \in Nat
    BY <1>t, OfProperties DEF Leaves
  <2>3. rootHistory \in Nat /\ rootHistory >= 1
    BY WatcherAssumptions
  <2> DEFINE N == Cardinality(Leaves(copy', Len(copy')))
  <2> HIDE DEF N
  <2>4. roots' = <<N>> /\ N \in Nat
    BY <2>1, <2>2 DEF N
  <2>5. roots' \in Seq(Nat) /\ Len(roots') = 1 /\ roots'[1] = N
    BY <2>4
  <2>6. N = Cardinality(Leaves(copy', cursor'))
    BY <2>1 DEF N
  <2>7. \A i \in 1 .. Len(roots') : roots'[i] =< N
    BY <2>4, <2>5
  <2> QED
    BY <2>3, <2>5, <2>6, <2>7 DEF RootsInv
<1>3. ASSUME UNCHANGED <<roots, cursor>>
      PROVE  RootsInv'
  BY <1>3, <1>l DEF RootsInv
<1>4. ASSUME NEW entries \in BOOLEAN, NEW health \in BOOLEAN, Reconcile(entries, health)
      PROVE  RootsInv'
  BY <1>3, <1>4 DEF Reconcile
<1>5. CASE crossCheck
  BY <1>3, <1>5 DEF crossCheck, memoryVars
<1>6. CASE crossCheckFails
  BY <1>3, <1>6 DEF crossCheckFails
<1>7. CASE MemoryFrame
  BY <1>3, <1>7 DEF MemoryFrame
<1> QED
  BY <1>1, <1>2, <1>4, <1>5, <1>6, <1>7, MemoryCases

\* The ledgers whose status is kept.
LEMMA SnapshotsKept ==
  ASSUME NetInv, CopyInv, SnapshotsInv, [WatchNext]_watchVars
  PROVE  SnapshotsInv'
<1>c. CopyInv'
  BY CopyKept
<1>t. cursor \in Nat /\ cursor' \in Nat /\ Len(copy') \in Nat
  BY <1>c DEF CopyInv
<1>h. snapshotHistory \in Nat /\ snapshotHistory # 0
  BY WatcherAssumptions
<1>1. ASSUME NEW to \in To, Apply(to)
      PROVE  SnapshotsInv'
  <2>b. Batch(to).to = to
    BY DEF Batch
  <2>1. cursor' = to /\ snapshots' = LastN(Append(snapshots, to), snapshotHistory)
    BY <1>1, <2>b DEF Apply, Keep
  <2>2. to \in Nat /\ cursor =< to
    BY <2>1, <1>t, <1>c DEF To, CopyInv
  <2> DEFINE s == Append(snapshots, to)
  <2>3. /\ s \in Seq(Nat) /\ s # <<>> /\ s[Len(s)] = to
        /\ \A i \in 1 .. Len(s) : s[i] =< to
    BY <2>2, <1>t DEF SnapshotsInv
  <2> HIDE DEF s
  <2>4. snapshots' = LastN(s, snapshotHistory)
    BY <2>1 DEF s
  <2>5. /\ LastN(s, snapshotHistory) \in Seq(Nat) /\ Len(LastN(s, snapshotHistory)) =< snapshotHistory
        /\ \A i \in 1 .. Len(LastN(s, snapshotHistory)) : \E j \in 1 .. Len(s) : LastN(s, snapshotHistory)[i] = s[j]
        /\ Len(LastN(s, snapshotHistory)) >= 1
        /\ LastN(s, snapshotHistory)[Len(LastN(s, snapshotHistory))] = s[Len(s)]
    BY <1>h, <2>3, LastNProperties
  <2>6. /\ snapshots' \in Seq(Nat) /\ Len(snapshots') \in 1 .. snapshotHistory
        /\ snapshots'[Len(snapshots')] = to
    BY <2>3, <2>4, <2>5, <1>h
  <2>7. \A i \in 1 .. Len(snapshots') : snapshots'[i] =< to
    BY <2>3, <2>4, <2>5
  <2> QED
    BY <2>1, <2>6, <2>7 DEF SnapshotsInv
<1>2. CASE New(copy')
  <2>1. cursor' = Len(copy') /\ snapshots' = <<Len(copy')>>
    BY <1>2 DEF New
  <2>2. cursor' \in Nat /\ snapshots' = <<cursor'>>
    BY <2>1, <1>t
  <2>3. snapshots' \in Seq(Nat) /\ Len(snapshots') = 1 /\ snapshots'[1] = cursor'
    BY <2>2
  <2> QED
    BY <2>3, <1>t, <1>h DEF SnapshotsInv
<1>3. ASSUME UNCHANGED <<snapshots, cursor>>
      PROVE  SnapshotsInv'
  BY <1>3 DEF SnapshotsInv
<1>4. ASSUME NEW entries \in BOOLEAN, NEW health \in BOOLEAN, Reconcile(entries, health)
      PROVE  SnapshotsInv'
  BY <1>3, <1>4 DEF Reconcile
<1>5. CASE crossCheck
  BY <1>3, <1>5 DEF crossCheck, memoryVars
<1>6. CASE crossCheckFails
  BY <1>3, <1>6 DEF crossCheckFails
<1>7. CASE MemoryFrame
  BY <1>3, <1>7 DEF MemoryFrame
<1> QED
  BY <1>1, <1>2, <1>4, <1>5, <1>6, <1>7, MemoryCases

\* A selection's elements are those at the positions selected.
LEMMA OnlySet ==
  ASSUME NEW S, NEW s \in Seq(S), NEW K \in SUBSET (DOMAIN s)
  PROVE  Only(s, K) \in Seq(S) /\ ToSet(Only(s, K)) = {s[i] : i \in K}
BY OnlyProperties DEF ToSet

\* The reconciliation's phase says whether windows are being compared.
PhaseInv ==
  /\ phase \in {"idle", "read", "cross", "beat"}
  /\ phase = "cross" <=> ready # <<>>

\* What a reconciliation does to the windows: with the second RPC's health known,
\* those that it has reached are taken out.
LEMMA ReconcileWindows ==
  ASSUME NEW S, pendingCross \in Seq(S), NEW entries \in BOOLEAN, NEW health \in BOOLEAN,
         Reconcile(entries, health)
  PROVE  /\ pendingCross' \in Seq(S) /\ ready' \in Seq(S)
         /\ ToSet(pendingCross') \cup ToSet(ready') = ToSet(pendingCross)
         /\ phase' = IF ready' = <<>> THEN "beat" ELSE "cross"
         /\ phase = "read"
<1>1. /\ ready' = IF health THEN Only(pendingCross, {i \in DOMAIN pendingCross : Reached(pendingCross[i])}) ELSE <<>>
      /\ pendingCross' = IF health THEN Waiting(pendingCross) ELSE pendingCross
      /\ phase' = IF ready' = <<>> THEN "beat" ELSE "cross"
      /\ phase = "read"
  BY DEF Reconcile
<1>2. CASE health
  <2> DEFINE R == {i \in DOMAIN pendingCross : Reached(pendingCross[i])}
             W == {i \in DOMAIN pendingCross : ~ Reached(pendingCross[i])}
  <2>1. ready' = Only(pendingCross, R) /\ pendingCross' = Only(pendingCross, W)
    BY <1>1, <1>2 DEF Waiting
  <2>2. R \in SUBSET (DOMAIN pendingCross) /\ W \in SUBSET (DOMAIN pendingCross) /\ R \cup W = DOMAIN pendingCross
    OBVIOUS
  <2> HIDE DEF R, W
  <2>3. /\ ready' \in Seq(S) /\ ToSet(ready') = {pendingCross[i] : i \in R}
        /\ pendingCross' \in Seq(S) /\ ToSet(pendingCross') = {pendingCross[i] : i \in W}
    BY <2>1, <2>2, OnlySet
  <2>4. ToSet(pendingCross) = {pendingCross[i] : i \in R \cup W}
    BY <2>2 DEF ToSet
  <2>5. ToSet(pendingCross') \cup ToSet(ready') = ToSet(pendingCross)
    BY <2>3, <2>4
  <2> QED
    BY <1>1, <2>3, <2>5
<1>3. CASE ~ health
  <2>1. ready' = <<>> /\ pendingCross' = pendingCross
    BY <1>1, <1>3
  <2>2. ToSet(ready') = {} /\ ready' \in Seq(S)
    BY <2>1 DEF ToSet
  <2> QED
    BY <1>1, <2>1, <2>2
<1> QED
  BY <1>2, <1>3

\* What the end of a window does to those that wait.
LEMMA KeepWindows ==
  ASSUME NEW S, pendingCross \in Seq(S), NEW b \in S, Keep(b)
  PROVE  /\ pendingCross' \in Seq(S)
         /\ \E all \in SUBSET S :
              /\ ToSet(pendingCross) \in SUBSET all /\ (recent(b) => b \in all)
              /\ owed' = (owed \cup When(recent(b), Ledgers(b)))
                           \ UNION {Ledgers(c) : c \in all \ ToSet(pendingCross')}
<1>m. maxCross \in Nat
  BY WatcherAssumptions
<1> DEFINE all == IF recent(b) THEN Append(pendingCross, b) ELSE pendingCross
<1>1. /\ pendingCross' = LastN(all, maxCross)
      /\ owed' = (owed \cup When(recent(b), Ledgers(b)))
                    \ UNION {Ledgers(c) : c \in ToSet(all) \ ToSet(LastN(all, maxCross))}
  BY DEF Keep
<1>2. all \in Seq(S)
  OBVIOUS
<1>3. ToSet(pendingCross) \in SUBSET ToSet(all) /\ (recent(b) => b \in ToSet(all))
  <2>1. CASE recent(b)
    <3>1. all = Append(pendingCross, b)
      BY <2>1
    <3>2. /\ Len(all) = Len(pendingCross) + 1 /\ all[Len(pendingCross) + 1] = b
          /\ \A i \in 1 .. Len(pendingCross) : all[i] = pendingCross[i]
      BY <3>1
    <3>3. Len(pendingCross) \in Nat /\ DOMAIN all = 1 .. Len(pendingCross) + 1 /\ DOMAIN pendingCross = 1 .. Len(pendingCross)
      BY <3>2, <1>2
    <3> HIDE DEF all
    <3> QED
      BY <3>2, <3>3 DEF ToSet
  <2>2. CASE ~ recent(b)
    BY <2>2
  <2> QED
    BY <2>1, <2>2
<1>4. ToSet(all) \in SUBSET S
  BY <1>2 DEF ToSet
<1> HIDE DEF all
<1>5. pendingCross' \in Seq(S)
  BY <1>m, <1>1, <1>2, LastNProperties
<1>6. owed' = (owed \cup When(recent(b), Ledgers(b)))
                 \ UNION {Ledgers(c) : c \in ToSet(all) \ ToSet(pendingCross')}
  BY <1>1
<1> QED
  BY <1>3, <1>4, <1>5, <1>6

\* A list's head and tail hold its elements.
LEMMA HeadAndTail ==
  ASSUME NEW S, NEW s \in Seq(S), s # <<>>
  PROVE  Head(s) \in S /\ Tail(s) \in Seq(S) /\ ToSet(s) = {Head(s)} \cup ToSet(Tail(s))
<1>1. Head(s) = s[1] /\ Tail(s) \in Seq(S) /\ Len(s) \in Nat /\ Len(s) >= 1 /\ s[1] \in S
  OBVIOUS
<1>2. Len(Tail(s)) = Len(s) - 1 /\ \A i \in 1 .. Len(s) - 1 : Tail(s)[i] = s[i + 1]
  OBVIOUS
<1>3. DOMAIN s = 1 .. Len(s) /\ DOMAIN Tail(s) = 1 .. Len(s) - 1
  BY <1>1, <1>2
<1>4. ASSUME NEW x
      PROVE  x \in ToSet(s) <=> x = s[1] \/ x \in ToSet(Tail(s))
  <2>1. ASSUME NEW i \in DOMAIN s, x = s[i], i # 1
        PROVE  x \in ToSet(Tail(s))
    <3>1. i - 1 \in 1 .. Len(s) - 1 /\ (i - 1) + 1 = i
      BY <1>1, <1>3, <2>1
    <3>2. Tail(s)[i - 1] = x
      BY <3>1, <1>2, <2>1
    <3> QED
      BY <3>1, <3>2, <1>3 DEF ToSet
  <2>2. ASSUME NEW i \in DOMAIN Tail(s), x = Tail(s)[i]
        PROVE  x \in ToSet(s)
    <3>1. i + 1 \in DOMAIN s /\ x = s[i + 1]
      BY <1>1, <1>2, <1>3, <2>2
    <3> QED
      BY <3>1 DEF ToSet
  <2>3. s[1] \in ToSet(s)
    BY <1>1, <1>3 DEF ToSet
  <2> QED
    BY <2>1, <2>2, <2>3 DEF ToSet
<1> QED
  BY <1>1, <1>4

\* The window put back stands before those that wait.
LEMMA PutBack ==
  ASSUME NEW S, NEW s \in Seq(S), NEW x \in S
  PROVE  <<x>> \o s \in Seq(S)
OBVIOUS

\* The phase, and the windows that wait or are compared.
LEMMA WindowsKept ==
  ASSUME NetInv, CopyInv, PhaseInv, WindowsInv, [WatchNext]_watchVars
  PROVE  WindowsInv'
<1> DEFINE S == StoredWindows
           T == StoredWindows'
<1>c. CopyInv' /\ Len(copy) =< Len(copy')
  BY CopyKept
<1>t. cursor \in Nat /\ Len(copy) \in Nat /\ Len(copy') \in Nat
  BY <1>c DEF CopyInv
<1>s. S \in SUBSET T
  BY <1>c, <1>t DEF StoredWindows
<1>w. pendingCross \in Seq(S) /\ ready \in Seq(S)
  BY DEF WindowsInv
<1>g. T = StoredWindows'
  OBVIOUS
<1> HIDE DEF S, T
<1>0. pendingCross \in Seq(T) /\ ready \in Seq(T)
  BY <1>s, <1>w
<1>q. ASSUME pendingCross' \in Seq(T), ready' \in Seq(T)
      PROVE  WindowsInv'
  BY <1>q, <1>g DEF WindowsInv
<1>1. ASSUME NEW to \in To, Apply(to)
      PROVE  WindowsInv'
  <2>1. Commit(Batch(to)) /\ Keep(Batch(to)) /\ ready' = ready
    BY <1>1 DEF Apply, reconcileVars
  <2>2. Len(copy') = to /\ to \in Nat
    BY <2>1, CommitAppends
  <2>3. Batch(to) \in T
    BY <2>2, <1>t DEF Batch, T, StoredWindows
  <2>4. pendingCross' \in Seq(T)
    BY <1>0, <2>1, <2>3, KeepWindows
  <2> QED
    BY <2>1, <2>4, <1>0, <1>q
<1>2. CASE New(copy')
  <2>1. pendingCross' = <<>> /\ ready' = <<>>
    BY <1>2 DEF New
  <2> QED
    BY <2>1, <1>q
<1>3. ASSUME NEW entries \in BOOLEAN, NEW health \in BOOLEAN, Reconcile(entries, health)
      PROVE  WindowsInv'
  <2>1. pendingCross' \in Seq(T) /\ ready' \in Seq(T)
    BY <1>0, <1>3, ReconcileWindows
  <2> QED
    BY <2>1, <1>q
<1>4. CASE crossCheck
  <2>1. ready # <<>> /\ ready' = Tail(ready) /\ pendingCross' = pendingCross
    BY <1>4 DEF crossCheck, memoryVars, PhaseInv
  <2>2. Tail(ready) \in Seq(T)
    BY <2>1, <1>0, HeadAndTail
  <2> QED
    BY <2>1, <2>2, <1>0, <1>q
<1>5. CASE crossCheckFails
  <2>1. ready # <<>> /\ ready' = <<>> /\ pendingCross' = <<Head(ready)>> \o pendingCross
    BY <1>5 DEF crossCheckFails, PhaseInv
  <2>2. Head(ready) \in T
    BY <2>1, <1>0, HeadAndTail
  <2>3. <<Head(ready)>> \o pendingCross \in Seq(T)
    BY <2>2, <1>0, PutBack
  <2>4. ready' \in Seq(T)
    BY <2>1
  <2> QED
    BY <2>1, <2>3, <2>4, <1>q
<1>6. CASE MemoryFrame
  BY <1>6, <1>0, <1>q DEF MemoryFrame
<1> QED
  BY <1>1, <1>2, <1>3, <1>4, <1>5, <1>6, MemoryCases

\* The steps that leave the reconciliation's phase and reading alone.
PhaseFrame == UNCHANGED <<phase, got>>

\* The steps of a reconciliation, and a restart, which ends it.
LEMMA PhaseCases ==
  ASSUME [WatchNext]_watchVars
  PROVE  \/ New(copy')
         \/ ReadVault
         \/ \E entries, health \in BOOLEAN : Reconcile(entries, health)
         \/ crossCheck
         \/ crossCheckFails
         \/ Beat
         \/ PhaseFrame /\ (MemoryFrame \/ \E to \in To : Apply(to))
<1>1. ASSUME NEW to \in To, Fault(to)
      PROVE  PhaseFrame
  BY <1>1 DEF Fault, PhaseFrame, reconcileVars
<1>2. ASSUME NEW to \in To, ApplyFails(to)
      PROVE  PhaseFrame
  BY <1>2 DEF ApplyFails, PhaseFrame, reconcileVars
<1>3. ASSUME NEW to \in To, ApplyUnanswered(to)
      PROVE  PhaseFrame
  BY <1>3 DEF ApplyUnanswered, PhaseFrame, reconcileVars
<1>4. ASSUME NEW to \in To, Apply(to)
      PROVE  PhaseFrame
  BY <1>4 DEF Apply, PhaseFrame, reconcileVars
<1>5. ASSUME (\E to \in To : ApplyCrash(to)) \/ Restart
      PROVE  New(copy')
  <2>1. ASSUME NEW to \in To, ApplyCrash(to)
        PROVE  New(copy')
    BY <2>1 DEF ApplyCrash
  <2>2. CASE Restart
    BY <2>2 DEF Restart, New, storedVars
  <2> QED
    BY <1>5, <2>1, <2>2
<1>6. ASSUME judgeAttestation
      PROVE  PhaseFrame
  BY <1>6 DEF judgeAttestation, PhaseFrame, reconcileVars
<1>7. ASSUME judgeDeferred
      PROVE  PhaseFrame
  BY <1>7 DEF judgeDeferred, PhaseFrame, reconcileVars
<1>8. ASSUME RetryAttestations
      PROVE  PhaseFrame
  BY <1>8 DEF RetryAttestations, PhaseFrame, reconcileVars
<1>9. ASSUME CheckAdmissions
      PROVE  PhaseFrame
  BY <1>9 DEF CheckAdmissions, PhaseFrame, reconcileVars
<1>12. ASSUME NEW k \in Kinds \ {"broken"}, NEW r \in Reportable(k),
              NEW p \in primary .. Next1, NEW s \in second .. Next1, Close(k, r, p, s)
       PROVE  PhaseFrame
  BY <1>12 DEF Close, PhaseFrame, reconcileVars
<1>13. ASSUME CatchUp
      PROVE  PhaseFrame
  BY <1>13 DEF CatchUp, PhaseFrame, reconcileVars
<1>14. ASSUME Correct
      PROVE  PhaseFrame
  BY <1>14 DEF Correct, PhaseFrame, reconcileVars
<1>15. ASSUME UNCHANGED watchVars
      PROVE  PhaseFrame
  BY <1>15 DEF watchVars, PhaseFrame, reconcileVars
<1>16. \/ New(copy')
       \/ ReadVault
       \/ \E entries, health \in BOOLEAN : Reconcile(entries, health)
       \/ crossCheck
       \/ crossCheckFails
       \/ Beat
       \/ PhaseFrame
  BY <1>1, <1>2, <1>3, <1>4, <1>5, <1>6, <1>7, <1>8, <1>9, <1>12, <1>13, <1>14, <1>15 DEF WatchNext
<1> QED
  BY <1>16, MemoryCases

\* The reconciliation's phase.
LEMMA PhaseKept ==
  ASSUME PhaseInv, [WatchNext]_watchVars
  PROVE  PhaseInv'
<1>1. CASE New(copy')
  BY <1>1 DEF New, PhaseInv
<1>2. CASE ReadVault
  BY <1>2 DEF ReadVault, PhaseInv
<1>3. ASSUME NEW entries \in BOOLEAN, NEW health \in BOOLEAN, Reconcile(entries, health)
      PROVE  PhaseInv'
  <2>1. phase' = IF ready' = <<>> THEN "beat" ELSE "cross"
    BY <1>3 DEF Reconcile
  <2> QED
    BY <2>1 DEF PhaseInv
<1>4. CASE crossCheck
  <2>1. phase' = IF ready' = <<>> THEN "beat" ELSE "cross"
    BY <1>4 DEF crossCheck
  <2> QED
    BY <2>1 DEF PhaseInv
<1>5. CASE crossCheckFails
  BY <1>5 DEF crossCheckFails, PhaseInv
<1>6. CASE Beat
  BY <1>6 DEF Beat, PhaseInv
<1>7. ASSUME PhaseFrame, MemoryFrame
      PROVE  PhaseInv'
  BY <1>7 DEF PhaseFrame, MemoryFrame, PhaseInv
<1>8. ASSUME PhaseFrame, NEW to \in To, Apply(to)
      PROVE  PhaseInv'
  BY <1>8 DEF PhaseFrame, Apply, reconcileVars, PhaseInv
<1> QED
  BY <1>1, <1>2, <1>3, <1>4, <1>5, <1>6, <1>7, <1>8, PhaseCases

\* Failures are only added.
LEMMA FaultsAdded ==
  ASSUME watchFaults \in Nat, [WatchNext]_watchVars
  PROVE  watchFaults' = watchFaults \/ (watchFaults' \in Nat /\ watchFaults' # 0)
<1>0. Fails(1) => watchFaults' \in Nat /\ watchFaults' # 0
  BY FailsCounts
<1>1. ASSUME NEW to \in To, Fault(to) \/ Apply(to) \/ ApplyFails(to) \/ ApplyUnanswered(to) \/ ApplyCrash(to)
      PROVE  watchFaults' = watchFaults \/ Fails(1)
  BY <1>1 DEF Fault, Apply, ApplyFails, ApplyUnanswered, ApplyCrash
<1>2. CASE Restart
  BY <1>0, <1>2 DEF Restart
<1>3. CASE judgeAttestation
  BY <1>3 DEF judgeAttestation
<1>4. CASE judgeDeferred
  BY <1>0, <1>4 DEF judgeDeferred
<1>5. CASE RetryAttestations
  BY <1>5 DEF RetryAttestations
<1>6. CASE CheckAdmissions
  BY <1>6 DEF CheckAdmissions
<1>7. CASE ReadVault
  BY <1>7 DEF ReadVault
<1>8. ASSUME NEW entries \in BOOLEAN, NEW health \in BOOLEAN, Reconcile(entries, health)
      PROVE  watchFaults' = watchFaults \/ Fails(1)
  BY <1>8 DEF Reconcile
<1>9. CASE crossCheck
  BY <1>9 DEF crossCheck
<1>10. CASE crossCheckFails
  BY <1>0, <1>10 DEF crossCheckFails
<1>11. CASE Beat
  BY <1>11 DEF Beat
<1>12. CASE UNCHANGED watchVars
  BY <1>12 DEF watchVars
<1>13. ASSUME NEW k \in Kinds \ {"broken"}, NEW r \in Reportable(k),
              NEW p \in primary .. Next1, NEW s \in second .. Next1, Close(k, r, p, s)
       PROVE  watchFaults' = watchFaults
  BY <1>13 DEF Close
<1>14. CASE CatchUp
  BY <1>14 DEF CatchUp
<1>15. CASE Correct
  BY <1>15 DEF Correct
<1> QED
  BY <1>0, <1>1, <1>2, <1>3, <1>4, <1>5, <1>6, <1>7, <1>8, <1>9, <1>10, <1>11, <1>12, <1>13, <1>14, <1>15 DEF WatchNext

\* Windows owed a comparison wait for it, as long as no read failed.
LEMMA CrossKept ==
  ASSUME NetInv, CopyInv, PhaseInv, WindowsInv, CrossChecked, [WatchNext]_watchVars
  PROVE  CrossChecked'
<1>f. watchFaults \in Nat
  BY DEF CopyInv
<1>0. SUFFICES ASSUME watchFaults' = 0
               PROVE  owed' \subseteq UNION {Ledgers(b) : b \in ToSet(pendingCross') \cup ToSet(ready')}
  BY DEF CrossChecked
<1>w. watchFaults = 0
  BY <1>0, <1>f, FaultsAdded
<1>o. \A l \in owed : \E b \in ToSet(pendingCross) \cup ToSet(ready) : l \in Ledgers(b)
  BY <1>w DEF CrossChecked
<1>q. ASSUME \A l \in owed' : \E b \in ToSet(pendingCross') \cup ToSet(ready') : l \in Ledgers(b)
      PROVE  owed' \subseteq UNION {Ledgers(b) : b \in ToSet(pendingCross') \cup ToSet(ready')}
  BY <1>q
<1> DEFINE S == [from : Nat, to : Nat]
<1>s. pendingCross \in Seq(S) /\ ready \in Seq(S)
  <2>1. StoredWindows \in SUBSET S
    BY DEF StoredWindows
  <2> HIDE DEF S
  <2> QED
    BY <2>1 DEF WindowsInv
<1>1. ASSUME NEW to \in To, Apply(to)
      PROVE  \A l \in owed' : \E b \in ToSet(pendingCross') \cup ToSet(ready') : l \in Ledgers(b)
  <2>1. Keep(Batch(to)) /\ ready' = ready
    BY <1>1 DEF Apply, reconcileVars
  <2>2. Batch(to) \in S
    <3>1. cursor \in Nat /\ to \in Nat
      BY DEF CopyInv, NetInv, To
    <3> QED
      BY <3>1 DEF Batch
  <2> HIDE DEF S
  <2>3. PICK all \in SUBSET S :
          /\ ToSet(pendingCross) \in SUBSET all /\ (recent(Batch(to)) => Batch(to) \in all)
          /\ owed' = (owed \cup When(recent(Batch(to)), Ledgers(Batch(to))))
                       \ UNION {Ledgers(c) : c \in all \ ToSet(pendingCross')}
    BY <1>s, <2>1, <2>2, KeepWindows
  <2>4. ASSUME NEW l \in owed'
        PROVE  \E b \in ToSet(pendingCross') \cup ToSet(ready') : l \in Ledgers(b)
    <3>1. \A c \in all : l \in Ledgers(c) => c \in ToSet(pendingCross')
      BY <2>3
    <3>2. CASE l \in owed
      <4>1. PICK b \in ToSet(pendingCross) \cup ToSet(ready) : l \in Ledgers(b)
        BY <3>2, <1>o
      <4> QED
        BY <4>1, <3>1, <2>1, <2>3
    <3>3. CASE recent(Batch(to)) /\ l \in Ledgers(Batch(to))
      BY <3>1, <3>3, <2>3
    <3> QED
      BY <3>2, <3>3, <2>3 DEF When
  <2> QED
    BY <2>4
<1>2. CASE New(copy')
  <2>1. owed' = {}
    BY <1>2 DEF New
  <2> QED
    BY <2>1
<1>3. ASSUME NEW entries \in BOOLEAN, NEW health \in BOOLEAN, Reconcile(entries, health)
      PROVE  \A l \in owed' : \E b \in ToSet(pendingCross') \cup ToSet(ready') : l \in Ledgers(b)
  <2>1. owed' = owed
    BY <1>3 DEF Reconcile, historyVars
  <2> HIDE DEF S
  <2>2. ToSet(pendingCross') \cup ToSet(ready') = ToSet(pendingCross) /\ phase = "read"
    BY <1>3, <1>s, ReconcileWindows
  <2>3. ready = <<>>
    BY <2>2 DEF PhaseInv
  <2>4. ToSet(ready) = {}
    BY <2>3 DEF ToSet
  <2> QED
    BY <2>1, <2>2, <2>4, <1>o
<1>4. CASE crossCheck
  <2>1. ready # <<>> /\ ready' = Tail(ready) /\ pendingCross' = pendingCross /\ owed' = owed \ Ledgers(Head(ready))
    BY <1>4 DEF crossCheck, memoryVars, PhaseInv
  <2> HIDE DEF S
  <2>2. ToSet(ready) = {Head(ready)} \cup ToSet(Tail(ready))
    BY <2>1, <1>s, HeadAndTail
  <2>3. \A l \in owed' : \E b \in ToSet(pendingCross') \cup ToSet(ready') : l \in Ledgers(b)
    BY <2>1, <2>2, <1>o
  <2> QED
    BY <2>3
<1>5. CASE crossCheckFails
  <2>1. FALSE
    BY <1>5, <1>0, <1>f, FailsCounts DEF crossCheckFails
  <2> QED
    BY <2>1
<1>6. CASE MemoryFrame
  <2>1. UNCHANGED <<owed, pendingCross, ready>>
    BY <1>6 DEF MemoryFrame
  <2> QED
    BY <2>1, <1>o
<1> QED
  BY <1>q, <1>1, <1>2, <1>3, <1>4, <1>5, <1>6, MemoryCases

----------------------------------------------------------------------------
\* The reconciliation.

\* What a read bears out, a longer chain bears out.
LEMMA TrueReadKept ==
  ASSUME NetInv, [WatchNext]_watchVars, NEW r, r.to \in Nat, r.to =< Len(chain)
  PROVE  /\ \A kinds : Of(chain', kinds, r.to) = Of(chain, kinds, r.to)
         /\ TrueRead(r) => r.to =< Len(chain') /\ r.status = Status(chain', r.to) /\ r.from = LastModified(r.status)
<1>1. NetInv' /\ Len(chain) =< Len(chain') /\ \A l \in 1 .. Len(chain) : chain'[l] = chain[l]
  BY NetKept
<1>2. Len(chain) \in Nat /\ Len(chain') \in Nat
  BY <1>1 DEF NetInv
<1>3. \A l \in 1 .. r.to : chain'[l] = chain[l]
  BY <1>1, <1>2
<1>4. \A kinds : Of(chain', kinds, r.to) = Of(chain, kinds, r.to)
  BY <1>3, OfSame
<1>5. r.to =< Len(chain')
  BY <1>1, <1>2
<1> QED
  BY <1>4, <1>5 DEF TrueRead, Status

\* The entries the primary answers are the chain's, unless it lied.
LEMMA EntriesTrue ==
  ASSUME NetInv, NEW l \in Nat, l =< Len(chain)
  PROVE  /\ ~ lied => \A kinds : Of(Entries, kinds, l) = Of(chain, kinds, l)
         /\ \A kinds : kinds \cap Plain = {} => Of(Entries, kinds, l) = Of(chain, kinds, l)
<1>t. Len(chain) \in Nat
  BY DEF NetInv
<1>1. CASE forged
  <2>1. Entries = told
    BY <1>1 DEF Entries
  <2>2. ASSUME ~ lied, NEW kinds
        PROVE  Of(told, kinds, l) = Of(chain, kinds, l)
    <3>1. \A k \in 1 .. l : told[k] = chain[k]
      BY <2>2, <1>t DEF NetInv
    <3> QED
      BY <3>1, OfSame
  <2>3. ASSUME NEW kinds, kinds \cap Plain = {}
        PROVE  Of(told, kinds, l) = Of(chain, kinds, l)
    <3>1. \A k \in 1 .. l : told[k] \in kinds <=> chain[k] \in kinds
      <4> SUFFICES ASSUME NEW k \in 1 .. l
                   PROVE  told[k] \in kinds <=> chain[k] \in kinds
        OBVIOUS
      <4>1. told[k] = chain[k] \/ (told[k] \in Plain /\ chain[k] \in Plain)
        BY <1>t DEF NetInv
      <4> QED
        BY <4>1, <2>3
    <3> QED
      BY <3>1 DEF Of
  <2> QED
    BY <2>1, <2>2, <2>3
<1>2. CASE ~ forged
  BY <1>2 DEF Entries
<1> QED
  BY <1>1, <1>2

\* What a reconciliation read, and the newest ledger seen.
LEMMA GotKept ==
  ASSUME NetInv, CopyInv, PhaseInv, GotInv, [WatchNext]_watchVars
  PROVE  GotInv'
<1>n. NetInv' /\ (lied => lied')
  BY NetKept
<1>t. /\ primary \in Nat /\ primary =< Len(chain) /\ Len(chain) \in Nat /\ latest \in Nat /\ got.to \in Nat
      /\ got \in [from : Nat, to : Nat, status : SUBSET Nat, leaves : SUBSET Nat, delay : Nat]
  BY DEF NetInv, GotInv
<1>i. latest \in Int /\ got.to \in Int /\ primary \in Int
  BY <1>t
<1>1. CASE New(copy')
  <2>1. phase' = "idle" /\ got' = Nothing /\ latest' = 0
    BY <1>1 DEF New
  <2> QED
    BY <2>1 DEF GotInv, Nothing
<1>2. CASE ReadVault
  <2> DEFINE st == Status(Entries, primary)
             lv == Leaves(Entries, primary)
  <2>1. /\ phase' = "read" /\ UNCHANGED <<latest, chain, lied>>
        /\ got' = [from |-> LastModified(st), to |-> primary, status |-> st, leaves |-> lv, delay |-> Instance]
    BY <1>2 DEF ReadVault, memoryVars, chainVars
  <2>2. st \in SUBSET (1 .. primary) /\ lv \in SUBSET (1 .. primary)
    BY DEF Status, Leaves, Of
  <2>3. LastModified(st) \in 0 .. primary
    BY <2>2, <1>t, LastModifiedBounds
  <2>4. Instance \in Nat
    BY WatcherAssumptions DEF Instance, DelayFor
  <2>5. ~ lied => st = Status(chain, primary) /\ lv = Leaves(chain, primary)
    BY <1>t, EntriesTrue DEF Status, Leaves
  <2> HIDE DEF st, lv
  <2>6. /\ got'.from = LastModified(st) /\ got'.to = primary /\ got'.status = st /\ got'.leaves = lv
        /\ got' \in [from : Nat, to : Nat, status : SUBSET Nat, leaves : SUBSET Nat, delay : Nat]
    <3>1. LastModified(st) \in Nat /\ st \in SUBSET Nat /\ lv \in SUBSET Nat
      BY <2>2, <2>3, <1>t
    <3> QED
      BY <2>1, <2>4, <3>1, <1>t
  <2>7. got'.from =< got'.to
    BY <2>3, <2>6, <1>t
  <2>8. ~ lied' => /\ got'.to =< Len(chain') /\ got'.status = Status(chain', got'.to) /\ got'.from = LastModified(got'.status)
                   /\ got'.leaves = Leaves(chain', got'.to)
    BY <2>1, <2>5, <2>6, <1>t
  <2> QED
    BY <2>1, <2>6, <2>7, <2>8, <1>t DEF GotInv, TrueRead
<1>3. ASSUME NEW entries \in BOOLEAN, NEW health \in BOOLEAN, Reconcile(entries, health)
      PROVE  GotInv'
  <2>1. latest' = Max({latest, got.to}) /\ got' = got /\ phase' \in {"cross", "beat"}
    BY <1>3 DEF Reconcile
  <2>2. latest' \in Nat /\ got.to =< latest'
    <3>1. Max({latest, got.to}) \in {latest, got.to} /\ Max({latest, got.to}) >= got.to
      BY <1>i, MaxOfTwo
    <3> QED
      BY <3>1, <2>1, <1>t
  <2> QED
    BY <2>1, <2>2, <1>t DEF GotInv
<1>4. CASE crossCheck
  <2>1. phase = "cross" /\ phase' \in {"cross", "beat"} /\ UNCHANGED <<latest, got>>
    BY <1>4 DEF crossCheck, memoryVars
  <2> QED
    BY <2>1, <1>t DEF GotInv
<1>5. CASE crossCheckFails
  <2>1. phase = "cross" /\ phase' = "beat" /\ UNCHANGED <<latest, got>>
    BY <1>5 DEF crossCheckFails
  <2> QED
    BY <2>1, <1>t DEF GotInv
<1>6. CASE Beat
  <2>1. phase' = "idle" /\ got' = Nothing /\ latest' = latest
    BY <1>6 DEF Beat, memoryVars
  <2> QED
    BY <2>1, <1>t DEF GotInv, Nothing
<1>7. ASSUME UNCHANGED <<phase, got>>, latest' \in Nat, latest =< latest'
      PROVE  GotInv'
  <2>1. ASSUME ~ lied', phase = "read"
        PROVE  /\ got.to =< Len(chain') /\ got.status = Status(chain', got.to) /\ got.from = LastModified(got.status)
               /\ got.leaves = Leaves(chain', got.to)
    <3>1. TrueRead(got) /\ got.leaves = Leaves(chain, got.to) /\ got.to =< Len(chain)
      BY <2>1, <1>n DEF GotInv, TrueRead
    <3> QED
      BY <3>1, <1>t, TrueReadKept DEF Leaves
  <2>2. phase \in {"cross", "beat"} => got.to =< latest'
    BY <1>7, <1>t DEF GotInv
  <2> QED
    BY <2>1, <2>2, <1>7, <1>t DEF GotInv, TrueRead
<1>8. ASSUME PhaseFrame, MemoryFrame
      PROVE  GotInv'
  BY <1>7, <1>8, <1>t DEF PhaseFrame, MemoryFrame
<1>9. ASSUME PhaseFrame, NEW to \in To, Apply(to)
      PROVE  GotInv'
  <2>1. UNCHANGED <<phase, got>> /\ latest' = Max({latest, primary})
    BY <1>9 DEF PhaseFrame, Apply, Keep
  <2>2. Max({latest, primary}) \in {latest, primary} /\ Max({latest, primary}) >= latest
    BY <1>i, MaxOfTwo
  <2> QED
    BY <1>7, <1>t, <2>1, <2>2
<1> QED
  BY <1>1, <1>2, <1>3, <1>4, <1>5, <1>6, <1>8, <1>9, PhaseCases

\* No heartbeat was sent by a watcher that is blind.
BeatInv == blindBeat = FALSE

\* The watcher that beats is not far behind what it read, and what it read is
\* not far behind the network.
LEMMA BeatKept ==
  ASSUME NetInv, CopyInv, GotInv, BeatInv, [WatchNext]_watchVars
  PROVE  BeatInv'
<1>t. /\ lagLedgers \in Nat /\ staleLedgers \in Nat /\ cursor \in Nat /\ latest \in Nat /\ got.to \in Nat /\ Len(chain) \in Nat
  BY WatcherAssumptions DEF NetInv, CopyInv, GotInv
<1>1. CASE Beat
  <2>1. phase = "beat"
    BY <1>1 DEF Beat
  <2>2. blindBeat' => blindBeat \/ (~ stale /\ healthy /\ (faulted \/ Now - cursor > lagLedgers + staleLedgers))
    BY <1>1, Zenon DEF Beat
  <2>3. ASSUME ~ stale, healthy
        PROVE  ~ faulted /\ ~(Now - cursor > lagLedgers + staleLedgers)
    BY <2>1, <2>3, <1>t DEF stale, healthy, Now, GotInv
  <2>4. blindBeat' \in BOOLEAN
    BY <1>1, Zenon DEF Beat
  <2>5. ~ blindBeat'
    BY <2>2, <2>3 DEF BeatInv
  <2> QED
    BY <2>4, <2>5 DEF BeatInv
<1>2. ASSUME blindBeat' = blindBeat
      PROVE  BeatInv'
  BY <1>2 DEF BeatInv
<1>3. CASE NetworkStep
  BY <1>2, <1>3, NetworkKept DEF historyVars
<1>4. ASSUME NEW to \in To, Fault(to) \/ Apply(to) \/ ApplyFails(to) \/ ApplyUnanswered(to) \/ ApplyCrash(to)
      PROVE  BeatInv'
  BY <1>2, <1>4 DEF Fault, Apply, ApplyFails, ApplyUnanswered, ApplyCrash, historyVars
<1>5. CASE Restart
  BY <1>2, <1>5 DEF Restart
<1>6. CASE judgeAttestation \/ judgeDeferred \/ RetryAttestations \/ CheckAdmissions
  BY <1>2, <1>6 DEF judgeAttestation, judgeDeferred, RetryAttestations, CheckAdmissions, historyVars
<1>7. CASE ReadVault
  BY <1>2, <1>7 DEF ReadVault, historyVars
<1>8. ASSUME NEW entries \in BOOLEAN, NEW health \in BOOLEAN, Reconcile(entries, health)
      PROVE  BeatInv'
  BY <1>2, <1>8 DEF Reconcile, historyVars
<1>9. CASE crossCheck \/ crossCheckFails
  BY <1>2, <1>9 DEF crossCheck, crossCheckFails, historyVars
<1>10. CASE UNCHANGED watchVars
  BY <1>2, <1>10 DEF watchVars, historyVars
<1>11. NetworkStep \/ WatcherStep \/ UNCHANGED watchVars
  BY DEF WatchNext, NetworkStep, WatcherStep
<1> QED
  BY <1>1, <1>3, <1>4, <1>5, <1>6, <1>7, <1>8, <1>9, <1>10, <1>11 DEF WatcherStep

\* The reads that wait.
LEMMA ReadsKept ==
  ASSUME NetInv, CopyInv, PhaseInv, GotInv, ReadsInv, [WatchNext]_watchVars
  PROVE  ReadsInv'
<1>n. NetInv' /\ (lied => lied')
  BY NetKept
<1>m. maxReads \in Nat
  BY WatcherAssumptions
<1>1. ASSUME reads' \in Seq(Read), Len(reads') =< maxReads,
             ~ lied => \A i \in 1 .. Len(reads') : TrueRead(reads'[i])
      PROVE  ReadsInv'
  <2>1. ASSUME ~ lied', NEW i \in 1 .. Len(reads')
        PROVE  reads'[i].to =< Len(chain') /\ reads'[i].status = Status(chain', reads'[i].to)
               /\ reads'[i].from = LastModified(reads'[i].status)
    <3>1. TrueRead(reads'[i])
      BY <2>1, <1>1, <1>n
    <3>r. reads'[i] \in Read
      BY <1>1, <2>1
    <3>2. reads'[i].to \in Nat /\ reads'[i].to =< Len(chain)
      BY <3>1, <3>r DEF TrueRead, Read
    <3> QED
      BY <3>1, <3>2, TrueReadKept
  <2> QED
    BY <2>1, <1>1 DEF ReadsInv, TrueRead
<1>2. ASSUME reads' = reads
      PROVE  ReadsInv'
  BY <1>1, <1>2 DEF ReadsInv
<1>3. CASE New(copy')
  <2>1. reads' = <<>>
    BY <1>3 DEF New
  <2>2. reads' \in Seq(Read) /\ Len(reads') = 0
    BY <2>1
  <2> QED
    BY <1>1, <2>2, <1>m
<1>4. ASSUME NEW entries \in BOOLEAN, NEW health \in BOOLEAN, Reconcile(entries, health)
      PROVE  ReadsInv'
  <2> DEFINE r == [from |-> got.from, to |-> got.to, status |-> got.status]
             all == Append(reads, r)
             rs == LastN(all, maxReads)
             K == {i \in DOMAIN rs : Matches(rs[i]) = {} /\ rs[i].to > cursor}
  <2>1. reads' = Only(rs, K) /\ phase = "read"
    BY <1>4 DEF Reconcile, compareReads
  <2>2. r \in Read /\ (~ lied => TrueRead(r))
    BY <2>1 DEF GotInv, Read, TrueRead
  <2> HIDE DEF r
  <2>3. all \in Seq(Read) /\ (~ lied => \A i \in 1 .. Len(all) : TrueRead(all[i]))
    BY <2>2 DEF ReadsInv
  <2> HIDE DEF all
  <2>4. /\ rs \in Seq(Read) /\ Len(rs) =< maxReads
        /\ \A i \in 1 .. Len(rs) : \E j \in 1 .. Len(all) : rs[i] = all[j]
    BY <2>3, <1>m, LastNProperties
  <2>5. ~ lied => \A i \in 1 .. Len(rs) : TrueRead(rs[i])
    BY <2>3, <2>4
  <2>k. K \in SUBSET (DOMAIN rs)
    OBVIOUS
  <2>s. rs \in Seq(Read)
    BY <2>4
  <2> HIDE DEF rs, K
  <2>6. /\ reads' \in Seq(Read) /\ Len(reads') = Cardinality(K)
        /\ {reads'[k] : k \in DOMAIN reads'} = {rs[i] : i \in K}
    <3>1. /\ Only(rs, K) \in Seq(Read) /\ Len(Only(rs, K)) = Cardinality(K)
          /\ {Only(rs, K)[k] : k \in DOMAIN Only(rs, K)} = {rs[i] : i \in K}
      BY <2>s, <2>k, OnlyProperties, Zenon
    <3> QED
      BY <2>1, <3>1
  <2>7. Cardinality(K) \in Nat /\ Cardinality(K) =< Len(rs)
    <3>1. Len(rs) \in Nat /\ DOMAIN rs = 1 .. Len(rs)
      BY <2>4
    <3>2. K \in SUBSET (1 .. Len(rs))
      BY <3>1, <2>k
    <3> QED
      BY <3>1, <3>2, PositionsFinite
  <2>8. Len(reads') =< maxReads
    BY <2>4, <2>6, <2>7, <1>m
  <2>9. ASSUME ~ lied, NEW i \in 1 .. Len(reads')
        PROVE  TrueRead(reads'[i])
    <3>1. i \in DOMAIN reads'
      BY <2>6
    <3>2. PICK j \in K : reads'[i] = rs[j]
      BY <3>1, <2>6
    <3>3. j \in 1 .. Len(rs)
      BY <2>4, <2>k
    <3> QED
      BY <3>2, <3>3, <2>5, <2>9
  <2> QED
    BY <1>1, <2>6, <2>8, <2>9
<1>5. ASSUME NEW to \in To, Apply(to)
      PROVE  ReadsInv'
  BY <1>2, <1>5 DEF Apply, reconcileVars
<1>6. CASE crossCheck
  BY <1>2, <1>6 DEF crossCheck
<1>7. CASE crossCheckFails
  BY <1>2, <1>7 DEF crossCheckFails
<1>8. CASE MemoryFrame
  BY <1>2, <1>8 DEF MemoryFrame
<1> QED
  BY <1>3, <1>4, <1>5, <1>6, <1>7, <1>8, MemoryCases

----------------------------------------------------------------------------
\* The transfers.

\* What may be cleared of the alerts raised.
Cleared == {"state_mismatch", "admission_late", "attestation_late"}

\* A window is stored with the alerts about it; the other steps store none.
LEMMA CommitCases ==
  ASSUME [WatchNext]_watchVars
  PROVE  /\ paged \ Cleared \subseteq paged'
         /\ \/ UNCHANGED <<copy, skipped, old>>
            \/ \E to \in To : /\ Commit(Batch(to)) /\ Readable(to) /\ delays' = delays /\ UNCHANGED chainVars
                              /\ paged' = paged \cup BeforeCommit(Batch(to))
<1> DEFINE Goal == /\ paged \ Cleared \subseteq paged'
                   /\ \/ UNCHANGED <<copy, skipped, old>>
                      \/ \E to \in To : /\ Commit(Batch(to)) /\ Readable(to) /\ delays' = delays /\ UNCHANGED chainVars
                                        /\ paged' = paged \cup BeforeCommit(Batch(to))
<1>1. ASSUME NEW to \in To, Fault(to)
      PROVE  Goal
  BY <1>1 DEF Fault, storedVars, historyVars
<1>2. ASSUME NEW to \in To, Apply(to)
      PROVE  Goal
  BY <1>2 DEF Apply
<1>3. ASSUME NEW to \in To, ApplyFails(to)
      PROVE  Goal
  BY <1>3 DEF ApplyFails, storedVars, historyVars
<1>4. ASSUME NEW to \in To, ApplyUnanswered(to)
      PROVE  Goal
  BY <1>4 DEF ApplyUnanswered
<1>5. ASSUME NEW to \in To, ApplyCrash(to)
      PROVE  Goal
  <2>1. /\ Commit(Batch(to)) /\ Readable(to) /\ delays' = delays /\ UNCHANGED chainVars
        /\ paged' = paged \cup BeforeCommit(Batch(to))
    BY <1>5 DEF ApplyCrash
  <2> QED
    BY <2>1
<1>6. CASE Restart
  BY <1>6 DEF Restart, storedVars
<1>7. CASE judgeAttestation
  BY <1>7 DEF judgeAttestation, Judge, historyVars
<1>8. CASE judgeDeferred
  BY <1>8 DEF judgeDeferred, Judge, historyVars
<1>9. CASE RetryAttestations
  BY <1>9 DEF RetryAttestations, storedVars, historyVars
<1>10. CASE CheckAdmissions
  BY <1>10 DEF CheckAdmissions, historyVars, Cleared
<1>11. CASE ReadVault
  BY <1>11 DEF ReadVault, storedVars, historyVars
<1>12. ASSUME NEW entries \in BOOLEAN, NEW health \in BOOLEAN, Reconcile(entries, health)
      PROVE  Goal
  <2>1. UNCHANGED <<copy, skipped, old>>
    BY <1>12 DEF Reconcile, storedVars, historyVars
  <2>2. paged \ {"state_mismatch"} \subseteq paged'
    BY <1>12 DEF Reconcile, When
  <2> QED
    BY <2>1, <2>2 DEF Cleared
<1>13. CASE crossCheck
  BY <1>13 DEF crossCheck, storedVars
<1>14. CASE crossCheckFails
  BY <1>14 DEF crossCheckFails, storedVars, historyVars
<1>15. CASE Beat
  BY <1>15 DEF Beat, storedVars
<1>16. CASE UNCHANGED watchVars
  BY <1>16 DEF watchVars, storedVars, historyVars
<1>17. CASE NetworkStep
  <2>1. ASSUME NEW k \in Kinds \ {"broken"}, NEW r \in Reportable(k),
              NEW p \in primary .. Next1, NEW s \in second .. Next1, Close(k, r, p, s)
        PROVE  Goal
    BY <2>1 DEF Close, storedVars, historyVars
  <2>2. CASE CatchUp
    BY <2>2 DEF CatchUp, storedVars, historyVars
  <2>3. CASE Correct
    BY <2>3 DEF Correct, storedVars, historyVars
  <2> QED
    BY <1>17, <2>1, <2>2, <2>3 DEF NetworkStep
<1>18. NetworkStep \/ WatcherStep \/ UNCHANGED watchVars
  BY DEF WatchNext, NetworkStep, WatcherStep
<1> QED
  BY <1>1, <1>2, <1>3, <1>4, <1>5, <1>6, <1>7, <1>8, <1>9, <1>10, <1>11, <1>12, <1>13, <1>14, <1>15, <1>16, <1>17, <1>18 DEF WatcherStep

\* Every transfer that the stored events hide, invent or should not hold is paged.
LEMMA TransfersKept ==
  ASSUME NetInv, CopyInv, TransfersPaged, [WatchNext]_watchVars
  PROVE  TransfersPaged'
<1>n. Len(chain) =< Len(chain') /\ \A l \in 1 .. Len(chain) : chain'[l] = chain[l]
  BY NetKept
<1>c. CopyInv' /\ Len(copy) =< Len(copy') /\ \A l \in 1 .. Len(copy) : copy'[l] = copy[l]
  BY CopyKept
<1>t. /\ Len(copy) \in Nat /\ Len(copy') \in Nat /\ DOMAIN copy = 1 .. Len(copy) /\ DOMAIN copy' = 1 .. Len(copy')
      /\ primary \in Nat /\ Len(copy) =< primary /\ primary =< Len(chain) /\ Len(chain) \in Nat
  BY <1>c DEF CopyInv, NetInv
<1>p. paged \ Cleared \subseteq paged'
  BY CommitCases
<1>d. \A l \in DOMAIN copy : l \in 1 .. Len(chain) /\ chain'[l] = chain[l] /\ copy'[l] = copy[l]
  BY <1>n, <1>c, <1>t
<1>a. "hot_account_transfer" \notin Cleared /\ "outflow_mismatch" \notin Cleared
  BY DEF Cleared
<1>1. ASSUME NEW l \in DOMAIN copy \ skipped
      PROVE  /\ chain'[l] = "drain" => "hot_account_transfer" \in paged'
             /\ (chain'[l] = "pay") # (copy'[l] = "pay") => "outflow_mismatch" \in paged'
  <2>1. chain'[l] = chain[l] /\ copy'[l] = copy[l]
    BY <1>1, <1>d
  <2>2. /\ chain[l] = "drain" => "hot_account_transfer" \in paged
        /\ (chain[l] = "pay") # (copy[l] = "pay") => "outflow_mismatch" \in paged
    BY <1>1 DEF TransfersPaged
  <2> QED
    BY <2>1, <2>2, <1>p, <1>a
<1>2. CASE UNCHANGED <<copy, skipped, old>>
  BY <1>1, <1>2 DEF TransfersPaged
<1>3. ASSUME NEW to \in To, Commit(Batch(to)), UNCHANGED chainVars, paged' = paged \cup BeforeCommit(Batch(to))
      PROVE  TransfersPaged'
  <2>1. /\ Len(copy) = cursor /\ Len(copy') = to /\ to \in Nat /\ cursor < to
        /\ \A l \in cursor + 1 .. to : l \in 1 .. Len(chain) /\ copy'[l] = told[l]
    BY <1>3, CommitAppends
  <2>2. skipped' = skipped \cup When(~ Held(Batch(to), primary), Ledgers(Batch(to)))
    BY <1>3 DEF Commit
  <2>3. Ledgers(Batch(to)) = cursor + 1 .. to
    BY DEF Ledgers, Batch
  <2>4. chain' = chain
    BY <1>3 DEF chainVars
  <2>5. ASSUME NEW l \in DOMAIN copy' \ skipped'
        PROVE  /\ chain'[l] = "drain" => "hot_account_transfer" \in paged'
               /\ (chain'[l] = "pay") # (copy'[l] = "pay") => "outflow_mismatch" \in paged'
    <3>1. CASE l \in DOMAIN copy
      BY <3>1, <2>2, <1>1
    <3>2. CASE l \in cursor + 1 .. to
      <4>1. Held(Batch(to), primary) /\ l \in Ledgers(Batch(to)) /\ copy'[l] = told[l]
        BY <3>2, <2>1, <2>2, <2>3, <2>5 DEF When
      <4>2. chain[l] = "drain" => "hot_account_transfer" \in checkHotTransfers(Batch(to))
        BY <4>1 DEF checkHotTransfers, When
      <4>3. (told[l] = "pay") # (chain[l] = "pay") => "outflow_mismatch" \in checkTransfers(Batch(to))
        BY <4>1 DEF checkTransfers, When
      <4> QED
        BY <4>1, <4>2, <4>3, <2>4, <1>3 DEF BeforeCommit
    <3> QED
      BY <3>1, <3>2, <2>1, <1>t
  <2> QED
    BY <2>5 DEF TransfersPaged
<1> QED
  BY <1>2, <1>3, CommitCases

----------------------------------------------------------------------------
\* The attestations.

\* A delay of the limits as far as it is known: other limits than those the
\* deposits were made under are the chain's.
DelayTrue(d) ==
  /\ d \in {NotRead, DelaySmall, DelayLarge}
  /\ d \in {NotRead, DelayLarge} \/ DelayFor(chain, Len(chain)) # DelayLarge

AttestTypes ==
  /\ checks \in [1 .. MaxLedger -> SUBSET Deposits] /\ delays \in SUBSET Deposits
  /\ judging \in SUBSET [ledger : 1 .. MaxLedger, covered : SUBSET Deposits]
  /\ DelayTrue(inst) /\ DelayTrue(got.delay)

\* Where a ledger's checks are made or settled.
LEMMA AttestCases ==
  ASSUME [WatchNext]_watchVars
  PROVE  /\ inst' \in {inst, loadInstance, NotRead, got.delay}
         /\ got'.delay \in {got.delay, Instance, NotRead}
         /\ delays' \subseteq delays \cup delayOf
         /\ \/ \E to \in To : /\ Commit(Batch(to)) /\ UNCHANGED chainVars
                              /\ judging' \subseteq judging \cup CheckedNews(copy', Batch(to))
            \/ judgeAttestation
            \/ UNCHANGED <<copy, old, checks>> /\ judging' \subseteq judging \cup Stored
<1> DEFINE Settled == UNCHANGED <<copy, old, checks>> /\ judging' \subseteq judging \cup Stored
           Committed == \E to \in To : /\ Commit(Batch(to)) /\ UNCHANGED chainVars
                                       /\ judging' \subseteq judging \cup CheckedNews(copy', Batch(to))
           Goal == /\ inst' \in {inst, loadInstance, NotRead, got.delay}
                   /\ got'.delay \in {got.delay, Instance, NotRead}
                   /\ delays' \subseteq delays \cup delayOf
                   /\ Committed \/ judgeAttestation \/ Settled
<1>1. ASSUME NEW to \in To, Fault(to)
      PROVE  Goal
  BY <1>1 DEF Fault, storedVars, historyVars, reconcileVars
<1>2. ASSUME NEW to \in To, Apply(to)
      PROVE  Goal
  <2>1. /\ Commit(Batch(to)) /\ UNCHANGED chainVars /\ judging' = judging \cup CheckedNews(copy', Batch(to))
    BY <1>2 DEF Apply, Keep
  <2>2. Committed
    BY <2>1
  <2> QED
    BY <1>2, <2>2 DEF Apply, reconcileVars
<1>3. ASSUME NEW to \in To, ApplyFails(to)
      PROVE  Goal
  BY <1>3 DEF ApplyFails, storedVars, historyVars, reconcileVars
<1>4. ASSUME NEW to \in To, ApplyUnanswered(to)
      PROVE  Goal
  <2>1. Committed
    BY <1>4 DEF ApplyUnanswered
  <2> QED
    BY <1>4, <2>1 DEF ApplyUnanswered, reconcileVars
<1>5. ASSUME NEW to \in To, ApplyCrash(to)
      PROVE  Goal
  <2>1. /\ Commit(Batch(to)) /\ UNCHANGED chainVars /\ judging' = {} /\ got' = Nothing /\ inst' = NotRead /\ delays' = delays
    BY <1>5 DEF ApplyCrash, New
  <2>2. Committed
    BY <2>1
  <2> QED
    BY <2>1, <2>2 DEF Nothing, NotRead
<1>6. CASE Restart
  <2>1. UNCHANGED <<copy, old, checks, delays>> /\ judging' = {} /\ got' = Nothing /\ inst' = NotRead
    BY <1>6 DEF Restart, New, storedVars
  <2> QED
    BY <2>1 DEF Nothing, NotRead
<1>7. CASE judgeAttestation
  BY <1>7 DEF judgeAttestation, Judge, memoryVars, reconcileVars
<1>8. CASE judgeDeferred
  <2>1. UNCHANGED <<copy, old, checks, inst, got>>
    BY <1>8 DEF judgeDeferred, memoryVars, reconcileVars, historyVars
  <2>2. judging' \subseteq judging /\ delays' \subseteq delays \cup delayOf
    BY <1>8 DEF judgeDeferred, Judge
  <2> QED
    BY <2>1, <2>2
<1>9. CASE RetryAttestations
  BY <1>9 DEF RetryAttestations, storedVars, memoryVars, reconcileVars, historyVars
<1>10. CASE CheckAdmissions
  BY <1>10 DEF CheckAdmissions, memoryVars, reconcileVars, historyVars
<1>11. CASE ReadVault
  <2>1. got'.delay = Instance
    BY <1>11 DEF ReadVault
  <2> QED
    BY <1>11, <2>1 DEF ReadVault, storedVars, memoryVars, historyVars
<1>12. ASSUME NEW entries \in BOOLEAN, NEW health \in BOOLEAN, Reconcile(entries, health)
      PROVE  Goal
  BY <1>12 DEF Reconcile, storedVars, historyVars
<1>13. CASE crossCheck
  BY <1>13 DEF crossCheck, storedVars, memoryVars
<1>14. CASE crossCheckFails
  BY <1>14 DEF crossCheckFails, storedVars, historyVars
<1>15. CASE Beat
  BY <1>15 DEF Beat, storedVars, memoryVars, Nothing, NotRead
<1>16. CASE UNCHANGED watchVars
  BY <1>16 DEF watchVars, storedVars, memoryVars, reconcileVars, historyVars
<1>17. CASE NetworkStep
  <2>1. ASSUME NEW k \in Kinds \ {"broken"}, NEW r \in Reportable(k),
              NEW p \in primary .. Next1, NEW s \in second .. Next1, Close(k, r, p, s)
        PROVE  Goal
    BY <2>1 DEF Close, storedVars, memoryVars, reconcileVars, historyVars
  <2>2. CASE CatchUp
    BY <2>2 DEF CatchUp, storedVars, memoryVars, reconcileVars, historyVars
  <2>3. CASE Correct
    BY <2>3 DEF Correct, storedVars, memoryVars, reconcileVars, historyVars
  <2> QED
    BY <1>17, <2>1, <2>2, <2>3 DEF NetworkStep
<1>18. NetworkStep \/ WatcherStep \/ UNCHANGED watchVars
  BY DEF WatchNext, NetworkStep, WatcherStep
<1> QED
  BY <1>1, <1>2, <1>3, <1>4, <1>5, <1>6, <1>7, <1>8, <1>9, <1>10, <1>11, <1>12, <1>13, <1>14, <1>15, <1>16, <1>17, <1>18 DEF WatcherStep

\* New limits are reported as they are and stay; an admission too.
LEMMA LimitsAndAdmissions ==
  ASSUME NetInv, [WatchNext]_watchVars
  PROVE  /\ DelayFor(chain, Len(chain)) # DelayLarge => DelayFor(chain', Len(chain')) # DelayLarge
         /\ Instance # DelayLarge => DelayFor(chain, Len(chain)) # DelayLarge
         /\ Pending(Entries, primary)' \subseteq Pending(Entries, primary)
<1>n. /\ NetInv' /\ Len(chain) =< Len(chain') /\ primary =< primary'
      /\ \A l \in 1 .. Len(chain) : chain'[l] = chain[l]
  BY NetKept
<1>t. /\ Len(chain) \in Nat /\ Len(chain') \in Nat /\ primary \in Nat /\ primary' \in Nat
      /\ primary =< Len(chain) /\ primary' =< Len(chain')
  BY <1>n DEF NetInv
<1>1. \A kinds : Of(chain', kinds, Len(chain)) = Of(chain, kinds, Len(chain))
                  /\ Of(chain', kinds, primary) = Of(chain, kinds, primary)
  <2>1. \A l \in 1 .. primary : chain'[l] = chain[l]
    BY <1>n, <1>t
  <2> QED
    BY <1>n, <1>t, <2>1, OfSame
<1>2. \A kinds : Of(chain', kinds, Len(chain)) \subseteq Of(chain', kinds, Len(chain'))
                  /\ Of(chain', kinds, primary) \subseteq Of(chain', kinds, primary')
                  /\ Of(chain, kinds, primary) \subseteq Of(chain, kinds, Len(chain))
  BY <1>n, <1>t DEF Of
<1>3. DelayFor(chain, Len(chain)) # DelayLarge => DelayFor(chain', Len(chain')) # DelayLarge
  BY <1>1, <1>2 DEF DelayFor
<1>4. {"limits"} \cap Plain = {} /\ {"admit"} \cap Plain = {}
  BY DEF Plain
<1>5. Of(Entries, {"limits"}, primary) = Of(chain, {"limits"}, primary)
      /\ Of(Entries, {"admit"}, primary) = Of(chain, {"admit"}, primary)
  BY <1>4, <1>t, EntriesTrue
<1>6. Instance # DelayLarge => DelayFor(chain, Len(chain)) # DelayLarge
  BY <1>2, <1>5 DEF Instance, DelayFor
<1>7. Of(Entries', {"admit"}, primary') = Of(chain', {"admit"}, primary')
  <2>1. ASSUME forged'
        PROVE  Of(told', {"admit"}, primary') = Of(chain', {"admit"}, primary')
    <3>1. \A k \in 1 .. primary' : told'[k] \in {"admit"} <=> chain'[k] \in {"admit"}
      <4> SUFFICES ASSUME NEW k \in 1 .. primary'
                   PROVE  told'[k] \in {"admit"} <=> chain'[k] \in {"admit"}
        OBVIOUS
      <4>1. told'[k] = chain'[k] \/ (told'[k] \in Plain /\ chain'[k] \in Plain)
        BY <1>n, <1>t DEF NetInv
      <4> QED
        BY <4>1, <1>4
    <3> QED
      BY <3>1 DEF Of
  <2>2. Entries' = IF forged' THEN told' ELSE chain'
    BY DEF Entries
  <2> QED
    BY <2>1, <2>2
<1>8. Of(chain, {"admit"}, primary) \subseteq Of(Entries', {"admit"}, primary')
  BY <1>1, <1>2, <1>7
<1>9. /\ Pending(Entries, primary) = IF Of(chain, {"admit"}, primary) = {} THEN Deposits ELSE {2}
      /\ Pending(Entries, primary)' = IF Of(Entries', {"admit"}, primary') = {} THEN Deposits ELSE {2}
  BY <1>5 DEF Pending
<1>10. Pending(Entries, primary)' \subseteq Pending(Entries, primary)
  BY <1>8, <1>9 DEF Deposits
<1> QED
  BY <1>3, <1>6, <1>10

\* The checks of a ledger are those of its own and the earlier events.
LEMMA JudgedSame ==
  ASSUME NEW g, NEW h, NEW l \in Nat, l >= 1, \A k \in 1 .. l : g[k] = h[k]
  PROVE  judged(g, l) = judged(h, l)
<1>1. g[l] = h[l]
  OBVIOUS
<1>2. \A kinds : Of(g, kinds, l - 1) = Of(h, kinds, l - 1)
  BY DEF Of
<1> QED
  BY <1>1, <1>2 DEF judged, Attested, Unflagged

\* A check is of its ledger, and of the two deposits.
LEMMA JudgedTypes ==
  ASSUME NEW h, NEW l \in Nat, NEW c \in judged(h, l)
  PROVE  c.ledger = l /\ c \in [ledger : {l}, covered : SUBSET Deposits]
BY DEF judged, When, Deposits

\* What is known of a deposit's delay is never forgotten, and what cannot be
\* known any more stays unknown.
LEMMA UnknownStays ==
  ASSUME NetInv, [WatchNext]_watchVars, NEW id, id \notin delayOf, delays' \subseteq delays \cup delayOf
  PROVE  id \notin delayOf'
<1>1. Pending(Entries, primary)' \subseteq Pending(Entries, primary)
  BY LimitsAndAdmissions
<1>2. delayOf' = delays' \cup Pending(Entries, primary)'
  BY DEF delayOf
<1> QED
  BY <1>1, <1>2 DEF delayOf

\* The checks that a window adds.
LEMMA CheckedNewsTypes ==
  ASSUME NetInv, CopyInv, NEW to \in To, NEW c \in CheckedNews(copy', Batch(to))
  PROVE  c \in [ledger : 1 .. MaxLedger, covered : SUBSET Deposits]
<1>a. /\ cursor \in Nat /\ primary \in Nat /\ Len(chain) \in Nat /\ MaxLedger \in Nat
      /\ primary =< Len(chain) /\ Len(chain) =< MaxLedger /\ to \in cursor + 1 .. primary
  BY WatcherAssumptions DEF NetInv, CopyInv, To
<1>t. cursor \in Nat /\ to \in Nat /\ to =< MaxLedger /\ MaxLedger \in Nat
  BY <1>a
<1>1. PICK l \in News(Batch(to)) : c \in judged(copy', l)
  BY DEF CheckedNews
<1>2. l \in 1 .. MaxLedger /\ l \in Nat
  <2>1. l \in cursor + 1 .. to
    BY DEF News, Ledgers, Batch
  <2> QED
    BY <1>t, <2>1
<1>3. c \in [ledger : {l}, covered : SUBSET Deposits]
  BY <1>1, <1>2, JudgedTypes
<1>4. {l} \in SUBSET (1 .. MaxLedger)
  BY <1>2
<1> DEFINE L == 1 .. MaxLedger
           D == SUBSET Deposits
<1> HIDE DEF L, D
<1>5. c \in [ledger : {l}, covered : D] /\ {l} \in SUBSET L
  BY <1>3, <1>4 DEF L, D
<1>6. c \in [ledger : L, covered : D]
  BY <1>5
<1> QED
  BY <1>6 DEF L, D

\* Checks are added to those that are stored.
LEMMA ChecksAdded ==
  ASSUME checks \in [1 .. MaxLedger -> SUBSET Deposits], NEW cs,
         \A c \in cs : c \in [ledger : 1 .. MaxLedger, covered : SUBSET Deposits]
  PROVE  /\ addAttestCheck(cs) \in [1 .. MaxLedger -> SUBSET Deposits]
         /\ \A l \in 1 .. MaxLedger : checks[l] \subseteq addAttestCheck(cs)[l]
         /\ \A c \in cs : c.covered \subseteq addAttestCheck(cs)[c.ledger]
<1>1. DOMAIN checks = 1 .. MaxLedger
  OBVIOUS
<1>2. addAttestCheck(cs) = [l \in 1 .. MaxLedger |-> checks[l] \cup UNION {c.covered : c \in {d \in cs : d.ledger = l}}]
  BY <1>1 DEF addAttestCheck
<1>3. ASSUME NEW l \in 1 .. MaxLedger
      PROVE  addAttestCheck(cs)[l] = checks[l] \cup UNION {c.covered : c \in {d \in cs : d.ledger = l}}
  BY <1>2
<1>4. ASSUME NEW l \in 1 .. MaxLedger
      PROVE  addAttestCheck(cs)[l] \in SUBSET Deposits /\ checks[l] \subseteq addAttestCheck(cs)[l]
  <2>1. \A c \in {d \in cs : d.ledger = l} : c.covered \in SUBSET Deposits
    OBVIOUS
  <2>2. UNION {c.covered : c \in {d \in cs : d.ledger = l}} \in SUBSET Deposits
    BY <2>1
  <2>3. checks[l] \in SUBSET Deposits
    OBVIOUS
  <2> QED
    BY <1>3, <2>2, <2>3
<1>5. ASSUME NEW c \in cs
      PROVE  c.covered \subseteq addAttestCheck(cs)[c.ledger]
  <2>1. c.ledger \in 1 .. MaxLedger
    OBVIOUS
  <2> QED
    BY <2>1, <1>3
<1> QED
  BY <1>2, <1>4, <1>5

\* The types of the checks, and the limits they are judged by.
LEMMA AttestTypesKept ==
  ASSUME NetInv, CopyInv, AttestTypes, [WatchNext]_watchVars
  PROVE  AttestTypes'
<1>t. /\ checks \in [1 .. MaxLedger -> SUBSET Deposits] /\ delays \in SUBSET Deposits
      /\ judging \in SUBSET [ledger : 1 .. MaxLedger, covered : SUBSET Deposits]
      /\ DelayTrue(inst) /\ DelayTrue(got.delay)
  BY DEF AttestTypes
<1>k. /\ inst' \in {inst, loadInstance, NotRead, got.delay}
      /\ got'.delay \in {got.delay, Instance, NotRead}
      /\ delays' \subseteq delays \cup delayOf
  BY AttestCases
<1>1. DelayTrue(Instance) /\ DelayTrue(NotRead) /\ DelayTrue(loadInstance)
  <2>1. DelayTrue(Instance)
    BY LimitsAndAdmissions DEF DelayTrue, Instance, DelayFor
  <2> QED
    BY <1>t, <2>1 DEF DelayTrue, loadInstance
<1>2. ASSUME NEW d, DelayTrue(d)
      PROVE  /\ d \in {NotRead, DelaySmall, DelayLarge}
             /\ d \in {NotRead, DelayLarge} \/ DelayFor(chain', Len(chain')) # DelayLarge
  BY <1>2, LimitsAndAdmissions DEF DelayTrue
<1>3. DelayTrue(inst) /\ DelayTrue(got.delay) => DelayTrue(inst)' /\ DelayTrue(got.delay)'
  <2>1. DelayTrue(inst') /\ DelayTrue(got'.delay)
    BY <1>t, <1>k, <1>1
  <2>2. DelayTrue(inst)' /\ DelayTrue(got.delay)'
    BY <2>1, <1>2 DEF DelayTrue
  <2> QED
    BY <2>2
<1>4. delays' \in SUBSET Deposits
  <2>1. Pending(Entries, primary) \in SUBSET Deposits
    BY DEF Pending, Deposits
  <2> QED
    BY <1>t, <1>k, <2>1 DEF delayOf
<1>5. ASSUME NEW to \in To, Commit(Batch(to)), judging' \subseteq judging \cup CheckedNews(copy', Batch(to))
      PROVE  /\ checks' \in [1 .. MaxLedger -> SUBSET Deposits]
             /\ judging' \in SUBSET [ledger : 1 .. MaxLedger, covered : SUBSET Deposits]
  <2>1. checks' = addAttestCheck(CheckedNews(copy', Batch(to)))
    BY <1>5 DEF Commit
  <2>2. \A c \in CheckedNews(copy', Batch(to)) : c \in [ledger : 1 .. MaxLedger, covered : SUBSET Deposits]
    BY CheckedNewsTypes
  <2>3. addAttestCheck(CheckedNews(copy', Batch(to))) \in [1 .. MaxLedger -> SUBSET Deposits]
    BY <1>t, <2>2, ChecksAdded
  <2> QED
    BY <1>t, <1>5, <2>1, <2>2, <2>3
<1>6. ASSUME judgeAttestation
      PROVE  /\ checks' \in [1 .. MaxLedger -> SUBSET Deposits]
             /\ judging' \in SUBSET [ledger : 1 .. MaxLedger, covered : SUBSET Deposits]
  <2>1. PICK c \in judging : checks' = [checks EXCEPT ![c.ledger] = @ \ c.covered] /\ judging' = judging \ {c}
    BY <1>6 DEF judgeAttestation, Judge, dropAttestCheck
  <2>2. c.ledger \in 1 .. MaxLedger
    BY <1>t
  <2>3. checks[c.ledger] \ c.covered \in SUBSET Deposits
    BY <1>t, <2>2
  <2> QED
    BY <1>t, <2>1, <2>2, <2>3
<1>7. ASSUME UNCHANGED <<copy, old, checks>>, judging' \subseteq judging \cup Stored
      PROVE  /\ checks' \in [1 .. MaxLedger -> SUBSET Deposits]
             /\ judging' \in SUBSET [ledger : 1 .. MaxLedger, covered : SUBSET Deposits]
  <2>1. Stored \in SUBSET [ledger : 1 .. MaxLedger, covered : SUBSET Deposits]
    BY <1>t DEF Stored
  <2> QED
    BY <1>t, <1>7, <2>1
<1>8. /\ checks' \in [1 .. MaxLedger -> SUBSET Deposits]
      /\ judging' \in SUBSET [ledger : 1 .. MaxLedger, covered : SUBSET Deposits]
  BY <1>5, <1>6, <1>7, AttestCases
<1> QED
  BY <1>t, <1>3, <1>4, <1>8 DEF AttestTypes

\* When a deposit is known, or the limits are still those it was made under, it
\* is judged by the delay it was made under.
LEMMA EligibleAtLeast ==
  ASSUME NEW id, AttestTypes, inst # NotRead
  PROVE  /\ EligibleAt(id) \in Nat
         /\ id \in delayOf => EligibleAt(id) >= MadeDelay
         /\ DelayFor(chain, Len(chain)) = MadeDelay => EligibleAt(id) >= MadeDelay
<1>1. inst \in Int /\ inst \in Nat /\ MadeDelay \in Int /\ MadeDelay \in Nat
      /\ (inst = MadeDelay \/ DelayFor(chain, Len(chain)) # MadeDelay)
  BY WatcherAssumptions DEF AttestTypes, DelayTrue, MadeDelay, NotRead
<1>2. CASE id \in delayOf
  <2>1. EligibleAt(id) = Max({inst, MadeDelay})
    <3>1. {inst} \cup When(id \in delayOf, {MadeDelay}) = {inst, MadeDelay}
      BY <1>2 DEF When
    <3> QED
      BY <3>1 DEF EligibleAt
  <2>2. Max({inst, MadeDelay}) \in {inst, MadeDelay} /\ Max({inst, MadeDelay}) >= MadeDelay
    BY <1>1, MaxOfTwo
  <2> QED
    BY <1>1, <2>1, <2>2
<1>3. CASE id \notin delayOf
  <2>1. EligibleAt(id) = Max({inst, inst})
    <3>1. {inst} \cup When(id \in delayOf, {MadeDelay}) = {inst, inst}
      BY <1>3 DEF When
    <3> QED
      BY <3>1 DEF EligibleAt
  <2>2. Max({inst, inst}) \in {inst, inst}
    BY <1>1, MaxOfTwo
  <2> QED
    BY <1>1, <1>3, <2>1, <2>2
<1> QED
  BY <1>2, <1>3

\* An early attestation is judged, or its check is still stored.
LEMMA AttestKept ==
  ASSUME NetInv, CopyInv, AttestTypes, AttestationJudged, [WatchNext]_watchVars
  PROVE  AttestationJudged'
<1> DEFINE Lost(id) == id \notin delayOf /\ DelayFor(chain, Len(chain)) # MadeDelay
           Answered(l, id) == id \in checks'[l] \/ earlyCode[id] \in paged' \/ Lost(id)'
<1>c. CopyInv' /\ Len(copy) =< Len(copy') /\ \A l \in 1 .. Len(copy) : copy'[l] = copy[l]
  BY CopyKept
<1>t. /\ Len(copy) \in Nat /\ Len(copy') \in Nat /\ DOMAIN copy = 1 .. Len(copy) /\ DOMAIN copy' = 1 .. Len(copy')
      /\ MaxLedger \in Nat /\ Len(copy) =< MaxLedger /\ cursor \in Nat
      /\ finalCheck \in Nat /\ MadeDelay \in Nat /\ checks \in [1 .. MaxLedger -> SUBSET Deposits]
  <2>1. /\ Len(copy) \in Nat /\ Len(copy') \in Nat /\ DOMAIN copy = 1 .. Len(copy) /\ DOMAIN copy' = 1 .. Len(copy')
        /\ cursor \in Nat /\ Len(copy) =< primary
    BY <1>c DEF CopyInv
  <2>2. primary \in Nat /\ Len(chain) \in Nat /\ primary =< Len(chain) /\ Len(chain) =< MaxLedger
    BY DEF NetInv
  <2>3. finalCheck \in Nat /\ MadeDelay \in Nat /\ MaxLedger \in Nat
    BY WatcherAssumptions DEF MadeDelay
  <2>4. checks \in [1 .. MaxLedger -> SUBSET Deposits]
    BY DEF AttestTypes
  <2> QED
    BY <2>1, <2>2, <2>3, <2>4
<1>k. delays' \subseteq delays \cup delayOf
  BY AttestCases
<1>p. paged \ Cleared \subseteq paged'
  BY CommitCases
<1>e. \A id \in Deposits : earlyCode[id] \notin Cleared
  BY DEF Deposits, earlyCode, Cleared
<1>l. ASSUME NEW id, Lost(id)
      PROVE  Lost(id)'
  <2>1. id \notin delayOf'
    BY <1>l, <1>k, UnknownStays
  <2>2. DelayFor(chain', Len(chain')) # MadeDelay
    BY <1>l, LimitsAndAdmissions DEF MadeDelay
  <2> QED
    BY <2>1, <2>2
<1> HIDE DEF Lost
<1>j. ASSUME NEW l \in DOMAIN copy
      PROVE  judged(copy', l) = judged(copy, l)
  <2>1. l \in Nat /\ l >= 1 /\ \A k \in 1 .. l : copy'[k] = copy[k]
    BY <1>c, <1>t
  <2> QED
    BY <2>1, JudgedSame
<1>0. ASSUME NEW l \in DOMAIN copy \ old, NEW c \in judged(copy, l), NEW id \in c.covered,
             l + finalCheck < MadeDelay, checks[l] \subseteq checks'[l]
      PROVE  Answered(l, id)
  <2>1. id \in checks[l] \/ earlyCode[id] \in paged \/ Lost(id)
    BY <1>0 DEF AttestationJudged, Lost
  <2>2. id \in Deposits
    <3>1. l \in Nat
      BY <1>t
    <3>2. c \in [ledger : {l}, covered : SUBSET Deposits]
      BY <3>1, JudgedTypes
    <3> QED
      BY <3>2
  <2>3. earlyCode[id] \in paged => earlyCode[id] \in paged'
    BY <2>2, <1>p, <1>e
  <2> QED
    BY <2>1, <2>3, <1>0, <1>l
<1>q. ASSUME \A l \in DOMAIN copy' \ old' : \A c \in judged(copy', l) : \A id \in c.covered :
               l + finalCheck < MadeDelay => Answered(l, id)
      PROVE  AttestationJudged'
  BY <1>q DEF AttestationJudged, Lost
<1>1. ASSUME NEW to \in To, Commit(Batch(to)), UNCHANGED chainVars
      PROVE  AttestationJudged'
  <2> DEFINE b == Batch(to)
             cs == CheckedNews(copy', b)
  <2>1. /\ Len(copy) = cursor /\ Len(copy') = to /\ to \in Nat /\ cursor < to
    BY <1>1, CommitAppends
  <2>2. old' = old \cup (Ledgers(b) \ News(b)) /\ checks' = addAttestCheck(cs)
    BY <1>1 DEF Commit
  <2>3. Ledgers(b) = cursor + 1 .. to
    BY DEF Ledgers, Batch
  <2>4. \A c \in cs : c \in [ledger : 1 .. MaxLedger, covered : SUBSET Deposits]
    BY CheckedNewsTypes
  <2> HIDE DEF cs
  <2>5. /\ \A l \in 1 .. MaxLedger : checks[l] \subseteq addAttestCheck(cs)[l]
        /\ \A c \in cs : c.covered \subseteq addAttestCheck(cs)[c.ledger]
    BY <1>t, <2>4, ChecksAdded
  <2>6. ASSUME NEW l \in DOMAIN copy' \ old', NEW c \in judged(copy', l), NEW id \in c.covered,
               l + finalCheck < MadeDelay
        PROVE  Answered(l, id)
    <3>1. CASE l \in DOMAIN copy
      <4>1. l \in DOMAIN copy \ old /\ c \in judged(copy, l)
        BY <3>1, <2>2, <1>j
      <4>2. checks[l] \subseteq checks'[l]
        BY <3>1, <2>2, <2>5, <1>t
      <4> QED
        BY <4>1, <4>2, <2>6, <1>0
    <3>2. CASE l \in cursor + 1 .. to
      <4>1. l \in News(b)
        BY <3>2, <2>2, <2>3, <2>6
      <4>2. c \in cs
        BY <4>1 DEF cs, CheckedNews
      <4>3. c.ledger = l
        <5>1. l \in Nat
          BY <3>2, <2>1, <1>t
        <5> QED
          BY <5>1, JudgedTypes
      <4>4. id \in checks'[l]
        BY <4>2, <4>3, <2>2, <2>5
      <4> QED
        BY <4>4
    <3> QED
      BY <3>1, <3>2, <2>1, <1>t
  <2> QED
    BY <2>6, <1>q
<1>2. CASE judgeAttestation
  <2>1. PICK d \in judging : Judge(d, d.covered) /\ checks' = [checks EXCEPT ![d.ledger] = @ \ d.covered]
    BY <1>2 DEF judgeAttestation, dropAttestCheck
  <2>2. UNCHANGED <<copy, old>>
    BY <1>2 DEF judgeAttestation, historyVars
  <2>3. /\ inst # NotRead
        /\ paged' = paged \cup {earlyCode[id] : id \in {e \in d.covered : Early(d, e)}}
    BY <2>1 DEF Judge
  <2>4. d.ledger \in 1 .. MaxLedger
    BY DEF AttestTypes
  <2>5. ASSUME NEW l \in DOMAIN copy \ old, NEW c \in judged(copy, l), NEW id \in c.covered,
               l + finalCheck < MadeDelay
        PROVE  Answered(l, id)
    <3>l. l \in 1 .. MaxLedger /\ l \in Nat
      BY <1>t
    <3>1. CASE l # d.ledger
      <4>1. checks'[l] = checks[l]
        BY <3>1, <3>l, <2>1, <1>t
      <4> QED
        BY <4>1, <2>5, <1>0
    <3>2. CASE l = d.ledger /\ id \notin d.covered
      <4>1. checks'[l] = checks[l] \ d.covered
        BY <3>2, <3>l, <2>1, <1>t
      <4>2. id \in checks[l] \/ earlyCode[id] \in paged \/ Lost(id)
        BY <2>5 DEF AttestationJudged, Lost
      <4> QED
        BY <4>1, <4>2, <3>2, <2>3, <1>l
    <3>3. CASE l = d.ledger /\ id \in d.covered
      <4>1. CASE id \in delayOf \/ DelayFor(chain, Len(chain)) = MadeDelay
        <5>1. EligibleAt(id) \in Nat /\ EligibleAt(id) >= MadeDelay
          BY <4>1, <2>3, EligibleAtLeast
        <5>2. Early(d, id)
          BY <5>1, <3>3, <3>l, <2>5, <1>t DEF Early
        <5>3. earlyCode[id] \in paged'
          BY <5>2, <3>3, <2>3
        <5> QED
          BY <5>3
      <4>2. CASE id \notin delayOf /\ DelayFor(chain, Len(chain)) # MadeDelay
        <5>1. Lost(id)
          BY <4>2 DEF Lost
        <5> QED
          BY <5>1, <1>l
      <4> QED
        BY <4>1, <4>2
    <3> QED
      BY <3>1, <3>2, <3>3
  <2> QED
    BY <2>2, <2>5, <1>q
<1>3. CASE UNCHANGED <<copy, old, checks>>
  BY <1>3, <1>0, <1>q
<1> QED
  BY <1>1, <1>2, <1>3, AttestCases

----------------------------------------------------------------------------
\* No false alarm.

\* What the primary reports truly breaks no rule and hides no transfer.
LEMMA TrueWindow ==
  ASSUME NetInv, CopyInv, ~ lied, NEW to \in To
  PROVE  ~ Broken(Batch(to)) /\ checkTransfers(Batch(to)) = {}
<1>t. cursor \in Nat /\ primary \in Nat /\ primary =< Len(chain) /\ Len(chain) \in Nat /\ to \in cursor + 1 .. primary
  BY DEF NetInv, CopyInv, To
<1>1. ASSUME NEW l \in Ledgers(Batch(to))
      PROVE  l \in 1 .. Len(chain) /\ told[l] = chain[l] /\ chain[l] # "broken"
  <2>1. l \in cursor + 1 .. to
    BY DEF Ledgers, Batch
  <2>2. l \in 1 .. Len(chain)
    BY <2>1, <1>t
  <2> QED
    BY <2>2 DEF NetInv
<1>2. ASSUME NEW l \in Ledgers(Batch(to))
      PROVE  Leaves(told, l - 1) = Leaves(chain, l - 1)
  <2>1. l \in 1 .. Len(chain)
    BY <1>1
  <2>2. l - 1 \in Nat /\ \A k \in 1 .. l - 1 : k \in 1 .. Len(chain)
    BY <2>1, <1>t
  <2>3. \A k \in 1 .. l - 1 : told[k] = chain[k]
    BY <2>2 DEF NetInv
  <2> QED
    BY <2>2, <2>3, OfSame DEF Leaves
<1>3. \A l \in Ledgers(Batch(to)) : ~ Breaks(l)
  BY <1>1, <1>2 DEF Breaks
<1>4. checkTransfers(Batch(to)) = {}
  BY <1>1 DEF checkTransfers, When
<1> QED
  BY <1>3, <1>4 DEF Broken

\* A true read is the replayed status at every ledger it is valid for.
LEMMA TrueReadMatches ==
  ASSUME NetInv, CopyInv, SnapshotsInv, ~ lied, NEW r \in Read, TrueRead(r), Matches(r) # {}
  PROVE  Status(copy, Max(Matches(r))) = r.status
<1>t. /\ cursor \in Nat /\ Len(copy) \in Nat /\ cursor =< Len(copy) /\ Len(snapshots) \in Nat
      /\ DOMAIN snapshots = 1 .. Len(snapshots) /\ snapshots \in Seq(Nat)
  BY DEF CopyInv, SnapshotsInv
<1>r. r.to \in Nat /\ r.from \in Nat /\ r.status = Status(chain, r.to) /\ r.from = LastModified(r.status)
  BY DEF Read, TrueRead
<1>1. \A m \in Matches(r) : m \in Nat /\ m =< cursor /\ m >= r.from /\ m =< r.to
  <2>1. \A i \in DOMAIN snapshots : snapshots[i] \in Nat /\ snapshots[i] =< cursor
    BY <1>t DEF SnapshotsInv
  <2> QED
    BY <2>1 DEF Matches, ToSet
<1>2. Matches(r) \in SUBSET (0 .. cursor)
  BY <1>1, <1>t
<1>3. IsFiniteSet(Matches(r)) /\ Matches(r) \in SUBSET Int
  <2>1. IsFiniteSet(0 .. cursor)
    BY <1>t, FS_Interval
  <2>2. IsFiniteSet(Matches(r))
    BY <1>2, <2>1, FS_Subset
  <2>3. Matches(r) \in SUBSET Int
    BY <1>1
  <2> QED
    BY <2>2, <2>3
<1>4. Max(Matches(r)) \in Matches(r)
  BY <1>3, MaxOfFinite
<1> DEFINE m == Max(Matches(r))
<1>5. m \in Nat /\ m =< cursor /\ m >= r.from /\ m =< r.to
  BY <1>1, <1>4
<1> HIDE DEF m
<1>6. Status(copy, m) = Status(chain, m)
  <2>1. \A k \in 1 .. m : k \in 1 .. Len(copy)
    BY <1>5, <1>t
  <2>2. \A k \in 1 .. m : copy[k] = chain[k]
    BY <2>1 DEF CopyInv
  <2> QED
    BY <1>5, <2>2, OfSame DEF Status
<1>7. Status(chain, m) = Status(chain, r.to)
  <2>1. LastModified(Of(chain, StatusKinds, r.to)) =< m
    BY <1>5, <1>r DEF Status
  <2> QED
    BY <2>1, <1>5, <1>r, SettledSince DEF Status
<1> QED
  BY <1>6, <1>7, <1>r DEF m

\* The tree read is the first leaves of the one replayed, when its root is known.
LEMMA TrueTree ==
  ASSUME NetInv, CopyInv, RootsInv, GotInv, ~ lied, phase = "read"
  PROVE  ~ treeDiff
<1>1. got.leaves = Leaves(chain, got.to) /\ got.to \in Nat
  BY DEF GotInv
<1>t. /\ cursor \in Nat /\ Len(copy) \in Nat /\ cursor =< Len(copy)
      /\ \A l \in 1 .. Len(copy) : copy[l] = chain[l]
  BY DEF CopyInv
<1> DEFINE n == Cardinality(got.leaves)
<1>2. SUFFICES ASSUME treeKnown
               PROVE  FirstLeaves(n) = got.leaves
  BY DEF treeDiff
<1>3. n \in Nat /\ n =< Cardinality(Leaves(copy, cursor))
  <2>1. PICK i \in DOMAIN roots : n = roots[i]
    BY <1>2 DEF treeKnown, ToSet
  <2>2. i \in 1 .. Len(roots) /\ roots[i] \in Nat
    BY DEF RootsInv
  <2>3. roots[i] =< Cardinality(Leaves(copy, cursor))
    BY <2>2 DEF RootsInv
  <2> HIDE DEF n
  <2> QED
    BY <2>1, <2>2, <2>3
<1>4. \A l \in Nat : l =< cursor => Leaves(copy, l) = Leaves(chain, l)
  <2> SUFFICES ASSUME NEW l \in Nat, l =< cursor
               PROVE  Leaves(copy, l) = Leaves(chain, l)
    OBVIOUS
  <2>1. \A k \in 1 .. l : copy[k] = chain[k]
    BY <1>t
  <2> QED
    BY <2>1, OfSame DEF Leaves
<1>5. Leaves(copy, cursor) = Leaves(chain, cursor)
  BY <1>4, <1>t
<1>6. \A l \in Leaves(chain, cursor) : l \in Nat /\ l =< cursor
  BY <1>t DEF Leaves, Of
<1>7. FirstLeaves(n) = {l \in Leaves(chain, cursor) : Cardinality(Leaves(chain, l)) =< n}
  <2> HIDE DEF n
  <2>1. \A l \in Leaves(chain, cursor) : Leaves(copy, l) = Leaves(chain, l)
    BY <1>4, <1>6
  <2> QED
    BY <1>5, <2>1 DEF FirstLeaves
<1>8. Cardinality(Leaves(chain, got.to)) =< Cardinality(Leaves(chain, cursor))
  BY <1>1, <1>3, <1>5
<1>9. {l \in Leaves(chain, cursor) : Cardinality(Leaves(chain, l)) =< Cardinality(Leaves(chain, got.to))}
        = Leaves(chain, got.to)
  BY <1>1, <1>t, <1>8, FirstLeavesExact DEF Leaves
<1> QED
  BY <1>1, <1>7, <1>9

\* The entries of two true RPCs that should be equal are.
LEMMA TrueProviders ==
  ASSUME NetInv, GotInv, ~ lied, phase = "read"
  PROVE  compareProviders = {}
<1>1. got.to \in Nat /\ got.status = Status(chain, got.to) /\ got.leaves = Leaves(chain, got.to)
  BY DEF GotInv, TrueRead
<1>2. second \in Nat
  BY DEF NetInv
<1>3. Status(chain, got.to) # Status(chain, second) =>
        got.to # second /\ LastModified(Status(chain, got.to)) # LastModified(Status(chain, second))
  BY <1>1, <1>2, ModifiedApart DEF Status
<1>4. Leaves(chain, got.to) # Leaves(chain, second) =>
        got.to # second /\ LastModified(Leaves(chain, got.to)) # LastModified(Leaves(chain, second))
  BY <1>1, <1>2, ModifiedApart DEF Leaves
<1> QED
  BY <1>1, <1>3, <1>4 DEF compareProviders, When

\* A read compared is one of those that waited, or the newest.
LEMMA ReadsCompared ==
  ASSUME ReadsInv, GotInv, phase = "read", NEW rs,
         rs = LastN(Append(reads, [from |-> got.from, to |-> got.to, status |-> got.status]), maxReads)
  PROVE  /\ \A r \in ToSet(rs) : r \in Read /\ (~ lied => TrueRead(r))
         /\ [from |-> got.from, to |-> got.to, status |-> got.status] \in ToSet(rs)
<1> DEFINE r == [from |-> got.from, to |-> got.to, status |-> got.status]
           all == Append(reads, r)
<1>m. maxReads \in Nat /\ maxReads # 0
  BY WatcherAssumptions
<1>2. r \in Read /\ (~ lied => TrueRead(r))
  BY DEF GotInv, Read, TrueRead
<1>r. rs = LastN(all, maxReads)
  OBVIOUS
<1>g. r = [from |-> got.from, to |-> got.to, status |-> got.status]
  OBVIOUS
<1> HIDE DEF r
<1>3. /\ all \in Seq(Read) /\ (~ lied => \A i \in 1 .. Len(all) : TrueRead(all[i]))
      /\ all # <<>> /\ all[Len(all)] = r
  BY <1>2 DEF ReadsInv
<1> HIDE DEF all
<1>4. /\ rs \in Seq(Read)
      /\ \A i \in 1 .. Len(rs) : \E j \in 1 .. Len(all) : rs[i] = all[j]
      /\ Len(rs) >= 1 /\ rs[Len(rs)] = all[Len(all)]
  <2>1. all \in Seq(Read) /\ all # <<>>
    BY <1>3
  <2>2. /\ LastN(all, maxReads) \in Seq(Read)
        /\ \A i \in 1 .. Len(LastN(all, maxReads)) : \E j \in 1 .. Len(all) : LastN(all, maxReads)[i] = all[j]
        /\ Len(LastN(all, maxReads)) >= 1 /\ LastN(all, maxReads)[Len(LastN(all, maxReads))] = all[Len(all)]
    BY <2>1, <1>m, LastNProperties
  <2> QED
    BY <2>2, <1>r
<1>5. DOMAIN rs = 1 .. Len(rs) /\ Len(rs) \in Nat
  BY <1>4
<1>6. Len(rs) \in DOMAIN rs
  BY <1>4, <1>5
<1>7. r \in ToSet(rs)
  BY <1>3, <1>4, <1>6 DEF ToSet
<1>8. ASSUME NEW x \in ToSet(rs)
      PROVE  x \in Read /\ (~ lied => TrueRead(x))
  <2>1. PICK i \in DOMAIN rs : x = rs[i]
    BY DEF ToSet
  <2>2. rs[i] \in Read
    BY <1>4
  <2>3. PICK j \in 1 .. Len(all) : rs[i] = all[j]
    BY <1>4, <1>5
  <2> QED
    BY <2>1, <2>2, <2>3, <1>3
<1> QED
  BY <1>7, <1>8, <1>g

\* No comparison pages while the primary tells the truth.
LEMMA AlarmKept ==
  ASSUME NetInv, CopyInv, RootsInv, SnapshotsInv, WindowsInv, PhaseInv, GotInv, ReadsInv, AttestTypes,
         NoFalseAlarm, [WatchNext]_watchVars
  PROVE  NoFalseAlarm'
<1>0. SUFFICES ASSUME ~ lied'
               PROVE  paged' \cap SourceAlerts = {}
  BY DEF NoFalseAlarm
<1>l. ~ lied
  BY <1>0, NetKept
<1>p. paged \cap SourceAlerts = {}
  BY <1>l DEF NoFalseAlarm
<1>1. ASSUME NEW to \in To, Fault(to)
      PROVE  FALSE
  BY <1>1, <1>l, TrueWindow DEF Fault
<1>2. ASSUME NEW to \in To, paged' = paged \cup BeforeCommit(Batch(to))
      PROVE  paged' \cap SourceAlerts = {}
  <2>1. checkTransfers(Batch(to)) = {}
    BY <1>l, TrueWindow
  <2>2. checkHotTransfers(Batch(to)) \cap SourceAlerts = {}
    BY DEF checkHotTransfers, When, SourceAlerts
  <2> QED
    BY <1>2, <1>p, <2>1, <2>2 DEF BeforeCommit
<1>3. ASSUME NEW to \in To, Apply(to) \/ ApplyFails(to) \/ ApplyUnanswered(to) \/ ApplyCrash(to)
      PROVE  paged' \cap SourceAlerts = {}
  BY <1>2, <1>3 DEF Apply, ApplyFails, ApplyUnanswered, ApplyCrash
<1>4. ASSUME paged' = paged
      PROVE  paged' \cap SourceAlerts = {}
  BY <1>4, <1>p
<1>5. ASSUME NEW c \in judging, NEW done \in SUBSET c.covered, Judge(c, done)
      PROVE  paged' \cap SourceAlerts = {}
  <2>1. paged' = paged \cup {earlyCode[id] : id \in {d \in done : Early(c, d)}}
    BY <1>5 DEF Judge
  <2>2. done \in SUBSET Deposits
    BY DEF AttestTypes
  <2>3. \A id \in Deposits : earlyCode[id] \notin SourceAlerts
    BY DEF Deposits, earlyCode, SourceAlerts
  <2> QED
    BY <2>1, <2>2, <2>3, <1>p
<1>6. CASE judgeAttestation
  <2>1. PICK c \in judging : Judge(c, c.covered)
    BY <1>6 DEF judgeAttestation
  <2> QED
    BY <2>1, <1>5
<1>7. CASE judgeDeferred
  BY <1>4, <1>5, <1>7 DEF judgeDeferred
<1>8. CASE CheckAdmissions
  <2>1. \E raised : paged' = (paged \ {"admission_late", "attestation_late"}) \cup raised
                    /\ raised \subseteq {"admission_late", "attestation_late"}
    BY <1>8 DEF CheckAdmissions, When
  <2> QED
    BY <2>1, <1>p DEF SourceAlerts
<1>9. ASSUME NEW entries \in BOOLEAN, NEW health \in BOOLEAN, Reconcile(entries, health)
      PROVE  paged' \cap SourceAlerts = {}
  <2> DEFINE rs == LastN(Append(reads, [from |-> got.from, to |-> got.to, status |-> got.status]), maxReads)
             problems == \E r \in ToSet(rs) : Matches(r) # {} /\ Status(copy, Max(Matches(r))) # r.status
  <2>1. phase = "read"
    BY <1>9 DEF Reconcile
  <2>2. \A r \in ToSet(rs) : r \in Read /\ TrueRead(r)
    BY <2>1, <1>l, ReadsCompared
  <2> HIDE DEF rs
  <2>3. ~ problems
    BY <2>2, <1>l, TrueReadMatches
  <2>4. ~ treeDiff
    BY <2>1, <1>l, TrueTree
  <2>5. compareProviders = {}
    BY <2>1, <1>l, TrueProviders
  <2>6. ~(compareReads(rs).problems)
    BY <2>3 DEF compareReads
  <2>7. paged' \subseteq paged \cup When(~(~ compareReads(rs).problems /\ ~ treeDiff), {"state_mismatch"})
                               \cup When(entries, compareProviders)
    BY <1>9 DEF Reconcile, rs
  <2> QED
    BY <2>4, <2>5, <2>6, <2>7, <1>p DEF When
<1>10. CASE crossCheck
  <2>1. /\ ready # <<>>
        /\ paged' = paged \cup When(Held(Head(ready), second) /\ Differs(Head(ready)), {"rpc_disagreement"})
    BY <1>10 DEF crossCheck, PhaseInv
  <2>2. Head(ready) \in StoredWindows
    BY <2>1, HeadAndTail DEF WindowsInv
  <2>3. ~ Differs(Head(ready))
    <3>1. Len(copy) \in Nat /\ \A l \in 1 .. Len(copy) : copy[l] = chain[l]
      BY <1>l DEF CopyInv
    <3>2. \A l \in Ledgers(Head(ready)) : l \in 1 .. Len(copy)
      BY <2>2, <3>1 DEF StoredWindows, Ledgers
    <3> QED
      BY <3>1, <3>2 DEF Differs
  <2> QED
    BY <2>1, <2>3, <1>p DEF When
<1>11. CASE Restart
  BY <1>4, <1>11 DEF Restart
<1>12. CASE RetryAttestations
  BY <1>4, <1>12 DEF RetryAttestations
<1>13. CASE ReadVault
  BY <1>4, <1>13 DEF ReadVault
<1>14. CASE crossCheckFails
  BY <1>4, <1>14 DEF crossCheckFails
<1>15. CASE Beat
  BY <1>4, <1>15 DEF Beat
<1>16. CASE NetworkStep
  BY <1>4, <1>16, NetworkKept
<1>17. CASE UNCHANGED watchVars
  BY <1>4, <1>17 DEF watchVars
<1>18. NetworkStep \/ WatcherStep \/ UNCHANGED watchVars
  BY DEF WatchNext, NetworkStep, WatcherStep
<1> QED
  BY <1>1, <1>3, <1>6, <1>7, <1>8, <1>9, <1>10, <1>11, <1>12, <1>13, <1>14, <1>15, <1>16, <1>17, <1>18 DEF WatcherStep

----------------------------------------------------------------------------
\* A lie is caught.

\* A read at the cursor is compared with the status there.
LEMMA CursorMatches ==
  ASSUME CopyInv, SnapshotsInv, NEW r \in Read, r.from =< r.to, r.to = cursor
  PROVE  Matches(r) # {} /\ Max(Matches(r)) = cursor
<1>t. /\ cursor \in Nat /\ Len(snapshots) \in Nat /\ Len(snapshots) >= 1 /\ snapshots \in Seq(Nat)
      /\ DOMAIN snapshots = 1 .. Len(snapshots) /\ snapshots[Len(snapshots)] = cursor
  BY DEF CopyInv, SnapshotsInv
<1>1. cursor \in ToSet(snapshots)
  BY <1>t DEF ToSet
<1>2. cursor \in Matches(r)
  <2>1. r.from \in Nat /\ r.to \in Nat
    BY DEF Read
  <2> QED
    BY <1>1, <1>t, <2>1 DEF Matches
<1>3. \A m \in Matches(r) : m \in Nat /\ m =< cursor
  <2>1. \A m \in ToSet(snapshots) : m \in Nat
    BY <1>t DEF ToSet
  <2> QED
    BY <2>1 DEF Matches
<1>4. \A x \in Matches(r) : (\A y \in Matches(r) : x >= y) => x = cursor
  BY <1>2, <1>3, <1>t
<1>5. \A y \in Matches(r) : cursor >= y
  BY <1>3, <1>t
<1> QED
  BY <1>2, <1>4, <1>5 DEF Max

\* The newest read is compared with the status at the cursor, and with the second
\* RPC's.
LEMMA LieStep ==
  ASSUME NetInv, CopyInv, SnapshotsInv, GotInv, ReadsInv, PhaseInv, [WatchNext]_watchVars,
         phase = "read", phase' # "read", got.to = cursor, got.to = second,
         Status(copy, cursor) # Status(chain, cursor), watchFaults' = watchFaults
  PROVE  paged' \cap {"state_mismatch", "rpc_disagreement"} # {}
<1>f. watchFaults \in Nat
  BY DEF CopyInv
<1>n. ~ Fails(1)
  BY <1>f, FailsCounts
<1>1. ASSUME (\E to \in To : ApplyCrash(to)) \/ Restart
      PROVE  FALSE
  BY <1>1, <1>n DEF ApplyCrash, Restart
<1>2. \E entries, health \in BOOLEAN : Reconcile(entries, health)
  <2>1. ASSUME NEW to \in To, Fault(to) \/ Apply(to) \/ ApplyFails(to) \/ ApplyUnanswered(to)
        PROVE  phase' = phase
    BY <2>1 DEF Fault, Apply, ApplyFails, ApplyUnanswered, reconcileVars
  <2>2. ASSUME judgeAttestation \/ judgeDeferred \/ RetryAttestations \/ CheckAdmissions
        PROVE  phase' = phase
    BY <2>2 DEF judgeAttestation, judgeDeferred, RetryAttestations, CheckAdmissions, reconcileVars
  <2>3. ASSUME ReadVault \/ crossCheck \/ crossCheckFails \/ Beat
        PROVE  phase # "read"
    BY <2>3 DEF ReadVault, crossCheck, crossCheckFails, Beat
  <2>4. ASSUME NetworkStep
        PROVE  phase' = phase
    BY <2>4, NetworkKept DEF reconcileVars
  <2>5. ASSUME UNCHANGED watchVars
        PROVE  phase' = phase
    BY <2>5 DEF watchVars, reconcileVars
  <2>6. NetworkStep \/ WatcherStep \/ UNCHANGED watchVars
    BY DEF WatchNext, NetworkStep, WatcherStep
  <2>7. phase' # phase
    OBVIOUS
  <2> QED
    BY <1>1, <2>1, <2>2, <2>3, <2>4, <2>5, <2>6, <2>7 DEF WatcherStep
<1>3. PICK entries \in BOOLEAN, health \in BOOLEAN : Reconcile(entries, health)
  BY <1>2
<1>4. entries
  BY <1>3, <1>n DEF Reconcile
<1> DEFINE r == [from |-> got.from, to |-> got.to, status |-> got.status]
           rs == LastN(Append(reads, r), maxReads)
<1>5. r \in ToSet(rs)
  BY ReadsCompared
<1>6. r.from = got.from /\ r.to = got.to /\ r.status = got.status
  OBVIOUS
<1> HIDE DEF r
<1>r. r \in Read /\ r.from =< r.to
  BY DEF GotInv, Read, r
<1>7. Matches(r) # {} /\ Max(Matches(r)) = cursor
  BY <1>r, <1>6, CursorMatches
<1>8. CASE Status(copy, cursor) # got.status
  <2>1. compareReads(rs).problems
    BY <1>5, <1>6, <1>7, <1>8 DEF compareReads
  <2>2. When(~(~ compareReads(rs).problems /\ ~ treeDiff), {"state_mismatch"}) \subseteq paged'
    BY <1>3 DEF Reconcile, rs, r
  <2> QED
    BY <2>1, <2>2 DEF When
<1>9. CASE Status(copy, cursor) = got.status
  <2>1. got.status # Status(chain, second) /\ got.to = second
    BY <1>9
  <2>2. compareProviders = {"rpc_disagreement"}
    BY <2>1 DEF compareProviders, When
  <2>3. When(entries, compareProviders) \subseteq paged'
    BY <1>3 DEF Reconcile
  <2> QED
    BY <1>4, <2>2, <2>3 DEF When
<1> QED
  BY <1>8, <1>9

----------------------------------------------------------------------------
\* The watcher's invariant.

WatchInv ==
  /\ NetInv /\ CopyInv /\ RootsInv /\ SnapshotsInv /\ WindowsInv
  /\ PhaseInv /\ GotInv /\ ReadsInv /\ AttestTypes
  /\ TransfersPaged /\ AttestationJudged /\ CrossChecked /\ BeatInv /\ NoFalseAlarm

\* The watcher that starts on an empty copy.
LEMMA WatchStart ==
  ASSUME WatchInit
  PROVE  WatchInv
<1>i. /\ chain = <<>> /\ told = <<>> /\ primary = 0 /\ second = 0 /\ forged = FALSE /\ lied = FALSE
      /\ copy = <<>> /\ checks = [l \in 1 .. MaxLedger |-> {}] /\ delays = {}
      /\ cursor = 0 /\ latest = 0 /\ inst = NotRead /\ faulted = FALSE
      /\ roots = <<0>> /\ snapshots = <<0>> /\ reads = <<>> /\ pendingCross = <<>>
      /\ phase = "idle" /\ got = Nothing /\ ready = <<>> /\ judging = {} /\ paged = {}
      /\ skipped = {} /\ old = {} /\ owed = {} /\ blindBeat = FALSE /\ watchFaults = 0
  BY DEF WatchInit
<1>a. MaxLedger \in Nat /\ rootHistory \in Nat \ {0} /\ snapshotHistory \in Nat \ {0} /\ maxReads \in Nat
  BY WatcherAssumptions
<1>e. \A S : <<>> \in Seq(S) /\ Len(<<>>) = 0 /\ DOMAIN <<>> = {}
  OBVIOUS
<1>c. /\ chain \in Seq(Kinds) /\ Len(chain) = 0 /\ told \in Seq(Kinds) /\ Len(told) = 0
      /\ copy \in Seq(Kinds) /\ Len(copy) = 0
  BY <1>i, <1>e
<1>1. NetInv
  <2>1. Len(chain) =< MaxLedger /\ primary \in 0 .. Len(chain) /\ second \in 0 .. Len(chain) /\ 1 .. Len(chain) = {}
    BY <1>i, <1>a, <1>c
  <2>2. forged \in BOOLEAN /\ lied \in BOOLEAN
    BY <1>i
  <2> QED
    BY <1>c, <2>1, <2>2 DEF NetInv
<1>2. CopyInv
  <2>1. cursor \in 0 .. Len(copy) /\ Len(copy) =< primary /\ 1 .. Len(copy) = {} /\ watchFaults \in Nat
    BY <1>i, <1>c
  <2>2. faulted \in BOOLEAN
    BY <1>i
  <2> QED
    BY <1>c, <2>1, <2>2 DEF CopyInv
<1>3. RootsInv
  <2>1. Cardinality(Leaves(copy, 0)) \in Nat
    BY OfProperties DEF Leaves
  <2>2. roots \in Seq(Nat) /\ Len(roots) = 1 /\ roots[1] = 0
    BY <1>i
  <2> QED
    BY <1>i, <1>a, <2>1, <2>2 DEF RootsInv
<1>4. SnapshotsInv
  <2>2. snapshots \in Seq(Nat) /\ Len(snapshots) = 1 /\ snapshots[1] = 0
    BY <1>i
  <2> QED
    BY <1>i, <1>a, <2>2 DEF SnapshotsInv
<1>5. WindowsInv
  BY <1>i, <1>e DEF WindowsInv
<1>6. PhaseInv
  BY <1>i DEF PhaseInv
<1>7. GotInv
  BY <1>i DEF GotInv, Nothing
<1>8. ReadsInv
  BY <1>i, <1>a, <1>e DEF ReadsInv
<1>9. AttestTypes
  BY <1>i DEF AttestTypes, DelayTrue, Nothing, NotRead
<1>10. TransfersPaged /\ AttestationJudged
  BY <1>i, <1>e DEF TransfersPaged, AttestationJudged
<1>11. CrossChecked /\ BeatInv /\ NoFalseAlarm
  BY <1>i DEF CrossChecked, BeatInv, NoFalseAlarm
<1> QED
  BY <1>1, <1>2, <1>3, <1>4, <1>5, <1>6, <1>7, <1>8, <1>9, <1>10, <1>11 DEF WatchInv

\* Every step keeps the invariant.
LEMMA WatchKept ==
  ASSUME WatchInv, [WatchNext]_watchVars
  PROVE  WatchInv'
<1>1. /\ NetInv /\ CopyInv /\ RootsInv /\ SnapshotsInv /\ WindowsInv
      /\ PhaseInv /\ GotInv /\ ReadsInv /\ AttestTypes
      /\ TransfersPaged /\ AttestationJudged /\ CrossChecked /\ BeatInv /\ NoFalseAlarm
  BY DEF WatchInv
<1>2. NetInv' /\ CopyInv'
  BY <1>1, NetKept, CopyKept
<1>3. RootsInv' /\ SnapshotsInv' /\ WindowsInv'
  BY <1>1, RootsKept, SnapshotsKept, WindowsKept
<1>4. PhaseInv' /\ GotInv' /\ ReadsInv'
  BY <1>1, PhaseKept, GotKept, ReadsKept
<1>5. AttestTypes' /\ AttestationJudged' /\ TransfersPaged'
  BY <1>1, AttestTypesKept, AttestKept, TransfersKept
<1>6. CrossChecked' /\ BeatInv' /\ NoFalseAlarm'
  BY <1>1, CrossKept, BeatKept, AlarmKept
<1> QED
  BY <1>2, <1>3, <1>4, <1>5, <1>6 DEF WatchInv

\* The invariant holds throughout.
THEOREM WatchInvariant == WatchSpec => []WatchInv
<1>1. WatchInit => WatchInv
  BY WatchStart
<1>2. WatchInv /\ [WatchNext]_watchVars => WatchInv'
  BY WatchKept
<1> QED
  BY <1>1, <1>2, PTL DEF WatchSpec

\* While the primary reports what the ledgers carry, no comparison pages: in
\* whatever order reads, windows, failures and restarts come, and with whatever
\* history of roots, statuses and reads (watcher.go, checks.go, crosscheck.go).
THEOREM NeverAFalseAlarm == WatchSpec => []NoFalseAlarm
<1>1. WatchInv => NoFalseAlarm
  BY DEF WatchInv
<1> QED
  BY <1>1, WatchInvariant, PTL

\* Transfers out, early attestations, windows owed a comparison and a watcher
\* that sees nothing: none goes unpaged, unjudged, uncompared or unnoticed
\* (watcher.go: Apply, attest.go: judgeAttestation, crosscheck.go, reconcileAndBeat).
THEOREM NothingEverMissed == WatchSpec => []NothingMissed
<1>1. WatchInv => NothingMissed
  <2> SUFFICES ASSUME WatchInv
               PROVE  NothingMissed
    OBVIOUS
  <2>1. /\ NetInv /\ CopyInv /\ RootsInv /\ SnapshotsInv /\ PhaseInv /\ ReadsInv /\ AttestTypes
        /\ TransfersPaged /\ AttestationJudged /\ CrossChecked /\ BeatInv
    BY DEF WatchInv
  <2>2. /\ chain \in Seq(Kinds) /\ told \in Seq(Kinds) /\ Len(told) = Len(chain)
        /\ {primary, second} \subseteq 0 .. Len(chain) /\ {lied, forged} \subseteq BOOLEAN
    BY <2>1 DEF NetInv
  <2>3. copy \in Seq(Kinds) /\ cursor =< Len(copy) /\ {faulted} \subseteq BOOLEAN
    BY <2>1 DEF CopyInv
  <2>4. Len(roots) =< rootHistory /\ Len(snapshots) =< snapshotHistory /\ Len(reads) =< maxReads
    BY <2>1, WatcherAssumptions DEF RootsInv, SnapshotsInv, ReadsInv
  <2>5. /\ checks \in [1 .. MaxLedger -> SUBSET Deposits] /\ delays \subseteq Deposits
        /\ inst \in {DelaySmall, DelayLarge, NotRead}
    BY <2>1 DEF AttestTypes, DelayTrue
  <2>6. phase \in {"idle", "read", "cross", "beat"}
    BY <2>1 DEF PhaseInv
  <2>7. blindBeat \in BOOLEAN /\ BeatSees
    BY <2>1 DEF BeatInv, BeatSees
  <2> QED
    BY <2>1, <2>2, <2>3, <2>4, <2>5, <2>6, <2>7 DEF WatchTypeOK, NothingMissed
<1> QED
  BY <1>1, WatchInvariant, PTL

\* A reconciliation at a ledger all have reached pages a status that is not the
\* vault's, though the primary's entries follow its reports (watcher.go:
\* Reconcile, compareReads, compareProviders).
THEOREM LiesCaught == WatchSpec => LieCaught
<1>1. WatchInv /\ [WatchNext]_watchVars =>
        [/\ phase = "read" /\ phase' # "read" /\ got.to = cursor /\ got.to = second
         /\ Status(copy, cursor) # Status(chain, cursor)
         /\ watchFaults' = watchFaults
         => paged' \cap {"state_mismatch", "rpc_disagreement"} # {}]_watchVars
  BY LieStep DEF WatchInv
<1> QED
  BY <1>1, WatchInvariant, PTL DEF WatchSpec, LieCaught

----------------------------------------------------------------------------
\* The run.

\* Each of the run's six behaviours is a behaviour of the watcher's specification
\* and of the checks': the theorems above are about everything the run explores.
THEOREM RunCovered == MCSpec => WatchSpec /\ ChecksSpec
<1> DEFINE Both == [WatchNext]_watchVars /\ [ChecksNext]_checkVars
<1>1. MCInit => WatchInit /\ ChecksInit
  BY DEF MCInit
<1>2. WatchInit => NetInv
  BY WatchStart DEF WatchInv
<1>3. ASSUME NetInv, [MCNext]_<<about, watchVars, checkVars>>
      PROVE  Both
  <2>t. primary \in Nat /\ second \in Nat /\ Len(chain) \in Nat /\ primary =< Len(chain) /\ second =< Len(chain)
    BY <1>3 DEF NetInv
  <2>n. Next1 \in primary .. Next1 /\ Next1 \in second .. Next1 /\ primary \in primary .. Next1 /\ second \in second .. Next1
    BY <2>t DEF Next1
  <2>w. ASSUME WatchNext, UNCHANGED checkVars
        PROVE  Both
    BY <2>w
  <2>1. ASSUME Copying, NEW k \in DOMAIN Reports, NEW r \in Reports[k], NEW s \in Seconds, Close(k, r, Next1, s)
        PROVE  Both
    <3>1. k \in Kinds \ {"broken"} /\ r \in Reportable(k)
      BY DEF Reports, Reportable, Plain, Kinds, StatusKinds, LeafKinds
    <3>2. s \in second .. Next1
      BY <2>n DEF Seconds
    <3>3. WatchNext
      BY <2>1, <2>n, <3>1, <3>2 DEF WatchNext
    <3> QED
      BY <2>1, <2>w, <3>3 DEF Copying
  <2>2. ASSUME Attesting, NEW k \in AttestKinds, Close(k, k, Next1, Next1)
        PROVE  Both
    <3>1. k \in Kinds \ {"broken"} /\ k \in Reportable(k)
      BY DEF AttestKinds, Reportable, Plain, Kinds, StatusKinds, LeafKinds
    <3>2. WatchNext
      BY <2>2, <2>n, <3>1 DEF WatchNext
    <3> QED
      BY <2>2, <2>w, <3>2 DEF Attesting
  <2>3. ASSUME Beating, NEW p \in {primary, Next1}, Close("quiet", "quiet", p, Next1)
        PROVE  Both
    <3>1. "quiet" \in Kinds \ {"broken"} /\ "quiet" \in Reportable("quiet")
      BY DEF Reportable, Plain, Kinds
    <3>2. WatchNext
      BY <2>3, <2>n, <3>1 DEF WatchNext
    <3> QED
      BY <2>3, <2>w, <3>2 DEF Beating
  <2>4. ASSUME Copying \/ Attesting \/ Watching
        PROVE  UNCHANGED checkVars
    BY <2>4 DEF Copying, Attesting, Watching
  <2>5. ASSUME \/ CatchUp \/ Correct \/ Restart \/ judgeAttestation \/ judgeDeferred \/ RetryAttestations
               \/ CheckAdmissions \/ ReadVault \/ crossCheck \/ crossCheckFails \/ Beat
        PROVE  WatchNext
    BY <2>5 DEF WatchNext
  <2>6. ASSUME NEW to \in To, Fault(to) \/ Apply(to) \/ ApplyFails(to) \/ ApplyUnanswered(to) \/ ApplyCrash(to)
        PROVE  WatchNext
    BY <2>6 DEF WatchNext
  <2>7. ASSUME NEW entries \in BOOLEAN, NEW health \in BOOLEAN, Reconcile(entries, health)
        PROVE  WatchNext
    BY <2>7 DEF WatchNext
  <2>8. ASSUME NEW what, Checking(what), OperationsNext \/ GovernanceNext \/ TTLNext
        PROVE  Both
    BY <2>8 DEF Checking, ChecksNext
  <2>9. CASE UNCHANGED <<about, watchVars, checkVars>>
    BY <2>9
  <2>10. ASSUME MCNext
         PROVE  Both
    BY <2>10, <2>w, <2>1, <2>2, <2>3, <2>4, <2>5, <2>6, <2>7, <2>8 DEF MCNext
  <2> QED
    BY <1>3, <2>9, <2>10
<1>4. NetInv /\ [WatchNext]_watchVars => NetInv'
  BY NetKept
<1> QED
  BY <1>1, <1>2, <1>3, <1>4, PTL DEF MCSpec, WatchSpec, ChecksSpec

============================================================================
