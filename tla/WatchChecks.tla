---------------------------- MODULE WatchChecks ----------------------------
(***************************************************************************)
(* Checks of the watcher that remember what they saw (services/internal/   *)
(* watcher: hot.go, checks.go, ttl.go): the operations of a hot account,   *)
(* the fingerprints of the governance accounts and the ends of life of the *)
(* spent nullifiers.  Each pages before it stores what it has judged, and  *)
(* is cut by failed reads, failed writes and restarts.                     *)
(***************************************************************************)
EXTENDS Integers, FiniteSets, FiniteSetsExt, Sequences

CONSTANTS
  pageSize,         \* operations in a page of Horizon
  Roles,            \* guardian and asp
  Nullifiers,
  expiryWarning, dayMargin, \* in ledgers
  MaxLife,          \* ledgers an extension gives
  MaxOps, MaxPrints, MaxClock, MaxCheckFaults \* bounds

ASSUME ChecksAssumptions ==
  {pageSize, expiryWarning, dayMargin, MaxLife, MaxPrints} \subseteq Nat

VARIABLES
  ops,              \* the account's operations: whether each is its own
  opCursor,         \* stored: the last operation judged, 0 for none
  opPage,           \* operations read and not yet judged
  opPaged,          \* operations that raised an alert
  opFirst,          \* history: the first cursor stored
  print,            \* the fingerprint of each account
  printed,          \* stored: the fingerprint last judged, 0 for none
  printRead,        \* a fingerprint read and not yet judged
  printPaged,       \* changes that raised an alert
  printFirst,       \* history: the first fingerprint stored
  ttlNow, life,     \* the network's ledger and the entries' ends of life
  known,            \* stored: the nullifiers replayed
  liveUntil,        \* stored: the end of life last seen, 0 for none
  ttlCheck,         \* the check that runs
  ttlPaged,         \* whether the entries' alert is open
  ttlBlind,         \* history: a check closed the alert over an expiring entry
  checkFaults

opVars == <<ops, opCursor, opPage, opPaged, opFirst>>
printVars == <<print, printed, printRead, printPaged, printFirst>>
ttlVars == <<ttlNow, life, known, liveUntil, ttlCheck, ttlPaged, ttlBlind>>
checkVars == <<opVars, printVars, ttlVars, checkFaults>>

CheckFails == checkFaults < MaxCheckFaults /\ checkFaults' = checkFaults + 1

----------------------------------------------------------------------------
\* Operations of a hot account, newest last.

Operate(own) ==
  /\ Len(ops) < MaxOps /\ ops' = Append(ops, own)
  /\ UNCHANGED <<opCursor, opPage, opPaged, opFirst, printVars, ttlVars, checkFaults>>

\* A page of Horizon after a cursor; without a cursor, the newest operation.
Operations(cursor) ==
  IF cursor = 0 THEN {Len(ops)} ELSE {n \in DOMAIN ops : n > cursor /\ n =< cursor + pageSize}

operations ==
  /\ opPage = {} /\ Operations(opCursor) # {}
  /\ opPage' = Operations(opCursor)
  /\ UNCHANGED <<ops, opCursor, opPaged, opFirst, printVars, ttlVars, checkFaults>>

\* Variant with a fault: a page is judged by its newest operation.
judgeOperations_last(page) == {n \in {Max(page)} : ~ ops[n]}

\* The operations of a page that the account should take no part in.
judgeOperations(page) == {n \in page : ~ ops[n]}

\* A page is judged before the cursor moves past it; the first is not judged.
opAlerts == IF opCursor = 0 THEN {} ELSE judgeOperations(opPage)

opStore ==
  /\ opPage # {} /\ opPage' = {}
  /\ opPaged' = opPaged \cup opAlerts
  /\ opCursor' = Max(opPage)
  /\ opFirst' = IF opFirst = 0 THEN opCursor' ELSE opFirst
  /\ UNCHANGED <<ops, printVars, ttlVars, checkFaults>>

\* The write fails, or answers no more, or the watcher stops before it.
opStoreFails ==
  /\ opPage # {} /\ opPage' = {} /\ CheckFails
  /\ opPaged' = opPaged \cup opAlerts
  /\ opCursor' \in {opCursor, Max(opPage)}
  /\ opFirst' = IF opFirst = 0 THEN opCursor' ELSE opFirst
  /\ UNCHANGED <<ops, printVars, ttlVars>>

----------------------------------------------------------------------------
\* Fingerprints of the governance accounts, read one after the other.

NoPrint == [role |-> CHOOSE r \in Roles : TRUE, print |-> 0]

ChangePrint(r) ==
  /\ \E p \in 1 .. MaxPrints : p # print[r] /\ print' = [print EXCEPT ![r] = p]
  /\ UNCHANGED <<opVars, printed, printRead, printPaged, printFirst, ttlVars, checkFaults>>

fingerprint(r) ==
  /\ printRead = NoPrint
  /\ print[r] # printed[r]
  /\ printRead' = [role |-> r, print |-> print[r]]
  /\ UNCHANGED <<opVars, print, printed, printPaged, printFirst, ttlVars, checkFaults>>

\* The change that is paged, unless it is the first fingerprint of an account.
printAlerts ==
  IF printed[printRead.role] \in {0, printRead.print} THEN {} ELSE {printRead}

\* Variant with a fault: the change is paged once its write was answered.
PagedBeforeStore_after == {}

\* What is paged by the time the write fails.
PagedBeforeStore == printAlerts

Stores(r, p) ==
  /\ printed' = [printed EXCEPT ![r] = p]
  /\ printFirst' = [printFirst EXCEPT ![r] = IF @ = 0 THEN p ELSE @]

CheckGovernanceAccounts ==
  /\ printRead # NoPrint /\ printRead' = NoPrint
  /\ printPaged' = printPaged \cup printAlerts
  /\ Stores(printRead.role, printRead.print)
  /\ UNCHANGED <<opVars, print, ttlVars, checkFaults>>

StorePrintFails ==
  /\ printRead # NoPrint /\ printRead' = NoPrint /\ CheckFails
  /\ printPaged' = printPaged \cup PagedBeforeStore
  /\ \/ Stores(printRead.role, printRead.print)
     \/ UNCHANGED <<printed, printFirst>>
  /\ UNCHANGED <<opVars, print, ttlVars>>

----------------------------------------------------------------------------
\* Ends of life.  An extension moves one forward, never back; an entry past its
\* end is archived until it is restored.

Idle == [at |-> 0, left |-> {}, expiring |-> 0, expected |-> {}]

TTLClock ==
  /\ ttlNow < MaxClock /\ ttlNow' = ttlNow + 1
  /\ UNCHANGED <<opVars, printVars, life, known, liveUntil, ttlCheck, ttlPaged, ttlBlind, checkFaults>>

\* A transaction extends or restores the entry; its nullifier may be new.
Extend(n) ==
  /\ life[n] < ttlNow + MaxLife
  /\ life' = [life EXCEPT ![n] = ttlNow + MaxLife]
  /\ UNCHANGED <<opVars, printVars, ttlNow, known, liveUntil, ttlCheck, ttlPaged, ttlBlind, checkFaults>>

\* A window is stored with a nullifier the network holds.
Replay(n) ==
  /\ n \notin known /\ life[n] # 0 /\ known' = known \cup {n}
  /\ UNCHANGED <<opVars, printVars, ttlNow, life, liveUntil, ttlCheck, ttlPaged, ttlBlind, checkFaults>>

\* Variant with a fault: the warning is left out of the bound.
MayExpire_day(n, latest) == liveUntil[n] = 0 \/ liveUntil[n] < latest + dayMargin

\* The entries that may be near their end, as far as was seen.
MayExpire(n, latest) == liveUntil[n] = 0 \/ liveUntil[n] < latest + expiryWarning + dayMargin

CheckTTL ==
  /\ ttlCheck = Idle
  /\ ttlCheck' = [at |-> ttlNow, left |-> {n \in known : MayExpire(n, ttlNow)},
                  expiring |-> 0, expected |-> known]
  /\ UNCHANGED <<opVars, printVars, ttlNow, life, known, liveUntil, ttlPaged, ttlBlind, checkFaults>>

\* The next entries are read again, at the ledger of that read.
expiringNullifiers ==
  /\ \E n \in ttlCheck.left :
       LET near == life[n] < ttlNow + expiryWarning
       IN /\ ttlCheck' = [ttlCheck EXCEPT !.left = @ \ {n}, !.expiring = @ + (IF near THEN 1 ELSE 0)]
          /\ liveUntil' = IF near THEN liveUntil ELSE [liveUntil EXCEPT ![n] = life[n]]
  /\ UNCHANGED <<opVars, printVars, ttlNow, life, known, ttlPaged, ttlBlind, checkFaults>>

\* A read or a write fails, or the watcher stops: the check has no result.
CheckTTLFails ==
  /\ ttlCheck # Idle /\ ttlCheck' = Idle /\ CheckFails
  /\ UNCHANGED <<opVars, printVars, ttlNow, life, known, liveUntil, ttlPaged, ttlBlind>>

CheckTTLEnds ==
  /\ ttlCheck # Idle /\ ttlCheck.left = {} /\ ttlCheck' = Idle
  /\ ttlPaged' = (ttlCheck.expiring > 0)
  /\ ttlBlind' = \/ ttlBlind
                 \/ ~ ttlPaged' /\ \E n \in ttlCheck.expected : life[n] < ttlCheck.at + expiryWarning
  /\ UNCHANGED <<opVars, printVars, ttlNow, life, known, liveUntil, checkFaults>>

ChecksInit ==
  /\ ops = <<TRUE>> /\ opCursor = 0 /\ opPage = {} /\ opPaged = {} /\ opFirst = 0
  /\ print = [r \in Roles |-> 1] /\ printed = [r \in Roles |-> 0] /\ printRead = NoPrint
  /\ printPaged = {} /\ printFirst = [r \in Roles |-> 0]
  /\ ttlNow = 1 /\ life = [n \in Nullifiers |-> 0] /\ known = {}
  /\ liveUntil = [n \in Nullifiers |-> 0] /\ ttlCheck = Idle /\ ttlPaged = FALSE /\ ttlBlind = FALSE
  /\ checkFaults = 0

OperationsNext ==
  \/ \E own \in BOOLEAN : Operate(own)
  \/ operations
  \/ opStore
  \/ opStoreFails

GovernanceNext ==
  \/ \E r \in Roles : ChangePrint(r)
  \/ \E r \in Roles : fingerprint(r)
  \/ CheckGovernanceAccounts
  \/ StorePrintFails

TTLNext ==
  \/ TTLClock
  \/ \E n \in Nullifiers : Extend(n)
  \/ \E n \in Nullifiers : Replay(n)
  \/ CheckTTL
  \/ expiringNullifiers
  \/ CheckTTLFails
  \/ CheckTTLEnds

ChecksNext == OperationsNext \/ GovernanceNext \/ TTLNext

ChecksSpec == ChecksInit /\ [][ChecksNext]_checkVars

----------------------------------------------------------------------------
\* What a check stored was judged: every operation between the first cursor and
\* the last that the account should take no part in was paged, and so was every
\* change of a governance account, though a write failed after it was made.
JudgedPaged ==
  /\ \A n \in opFirst + 1 .. opCursor : opFirst # 0 /\ ~ ops[n] => n \in opPaged
  /\ \A r \in Roles : printed[r] # printFirst[r] => [role |-> r, print |-> printed[r]] \in printPaged

\* A check that closes the alert has seen that no spent nullifier was within the
\* warning when it began, though it reads only those that may be near it.
NullifiersWarned == ~ ttlBlind

\* No check stores that it has seen something before it was judged, and none
\* closes its alert while what it is about is there.
ChecksPaged == JudgedPaged /\ NullifiersWarned

==================================================
