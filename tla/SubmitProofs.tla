---------------------------- MODULE SubmitProofs ---------------------------
(***************************************************************************)
(* Safety of the submission of transactions, for any number of jobs, any   *)
(* validity, any lag of the RPC within Lookup's margin and any number of   *)
(* restarts.                                                               *)
(***************************************************************************)
EXTENDS Submit, TLAPS

\* The steps of a job that has a transaction, and of one that has none.
Sending  == {"send", "wait", "resolve", "track", "lookup"}
Between  == {"idle", "prepare", "backoff"}

\* What holds of a transaction: its outcome is known once a ledger included it,
\* which was within its bounds.
TxSound(i) ==
  /\ txs[i].at = 0 <=> txs[i].outcome = "none"
  /\ txs[i].at =< ledger
  /\ txs[i].at # 0 => InTime(txs[i], txs[i].at)
  /\ txs[i].max_time =< clock + Validity

\* The RPC is behind the network, and the clock no further ahead of the RPC than
\* it may be; the network holds nothing that comes after the next transaction.
NetInv ==
  /\ clock =< rpc_ledger + MaxLag
  /\ rpc_ledger =< ledger
  /\ rpc_seq =< chain_seq
  /\ \A i \in DOMAIN txs : TxSound(i)
  /\ \A i \in pool : txs[i].seq =< chain_seq + 1

\* A transaction that did not succeed and never will.
Spent(i) == ~Includable(i) /\ txs[i].outcome # "success"

\* What a job may report of its transactions.
Known(j) ==
  /\ \A i \in Of(j) : ~Includable(i)
  /\ IF job[j].result = "success"
     THEN \E i \in Of(j) : Succeeded(j) = {i}
     ELSE Succeeded(j) = {}

\* Every transaction of a job but the one it is sending is spent; one that was
\* sent without an ambiguous answer is not held by the network; and Lookup waits
\* its margin beyond the transaction's time bound.
JobInv(j) ==
  /\ job[j].result # "none" => job[j].step = "done"
  /\ job[j].step \in Between => \A i \in Of(j) : Spent(i)
  /\ job[j].step \in Sending =>
       /\ job[j].tx \in Of(j)
       /\ \A i \in Of(j) : i # job[j].tx => Spent(i)
  /\ job[j].step \in {"send", "wait"} /\ ~job[j].ambiguous =>
       job[j].tx \notin pool /\ txs[job[j].tx].at = 0
  /\ job[j].step = "lookup" => txs[job[j].tx].max_time + LookupMargin =< job[j].deadline
  /\ job[j].step = "done" /\ job[j].result # "cancelled" => Known(j)

\* The lock is held by the one job that is neither idle nor done.
LockInv == \A j \in Jobs : job[j].step \notin {"idle", "done"} <=> holder = j

\* Lookup follows a restart only.
LookupInv == restarts = 0 => \A j \in Jobs : job[j].step # "lookup"

\* The transaction that a job is sending was included.
Included(j) == job[j].step \in Sending /\ txs[job[j].tx].at # 0

\* While no job was cut short, what the RPC has not seen is the transaction of a
\* job that still holds the account, the RPC's number is behind only for that, and
\* the number kept in memory is the account's but for that transaction.
UnseenHeld ==
  \A i \in DOMAIN txs :
    txs[i].at > rpc_ledger => job[txs[i].job].step \in Sending /\ job[txs[i].job].tx = i
RpcBehind    == rpc_seq # chain_seq => \E i \in DOMAIN txs : txs[i].at > rpc_ledger
IncludedLast == \A j \in Jobs : Included(j) => chain_seq = txs[job[j].tx].seq
NumberKnown  == known => seq = chain_seq \/ \E j \in Jobs : Included(j)
AccountInv   == Uncut => UnseenHeld /\ RpcBehind /\ IncludedLast /\ NumberKnown

SubmitInv ==
  /\ TypeOK /\ NetInv /\ (\A j \in Jobs : JobInv(j))
  /\ LockInv /\ LookupInv /\ AccountInv

----------------------------------------------------------------------------
\* The types, one by one.
LEMMA Types ==
  ASSUME TypeOK
  PROVE  /\ clock \in Nat /\ ledger \in Nat /\ chain_seq \in Nat /\ rpc_ledger \in Nat
         /\ rpc_seq \in Nat /\ seq \in Nat /\ restarts \in Nat
         /\ txs \in Seq(Transaction) /\ pool \subseteq DOMAIN txs
         /\ holder \in Jobs \cup {Free} /\ known \in BOOLEAN
         /\ job \in [Jobs -> Job] /\ \A j \in Jobs : job[j].attempt =< Attempts
BY DEF TypeOK

LEMMA TxTypes ==
  ASSUME TypeOK, NEW i \in DOMAIN txs
  PROVE  /\ txs[i].job \in Jobs /\ txs[i].seq \in Nat \ {0} /\ txs[i].max_time \in Nat
         /\ txs[i].max_ledger \in Nat /\ txs[i].at \in Nat
         /\ txs[i].outcome \in {"none", "success", "failed", "conflict"}
<1>1. txs[i] \in Transaction
  BY Types
<1>2. QED BY <1>1 DEF Transaction

LEMMA JobTypes ==
  ASSUME TypeOK, NEW j \in Jobs
  PROVE  /\ job[j] \in Job
         /\ job[j].step \in Steps /\ job[j].tx \in Nat /\ job[j].ambiguous \in BOOLEAN
         /\ job[j].closed \in Nat /\ job[j].seen \in Nat /\ job[j].attempt \in Nat
         /\ job[j].deadline \in Nat /\ job[j].result \in Results
<1>1. job[j] \in Job
  BY Types
<1>2. QED BY <1>1 DEF Job

LEMMA NewJobType ==
  ASSUME NEW step \in Steps, NEW attempt \in Nat, NEW result \in Results
  PROVE  /\ NewJob(step, attempt, result) \in Job
         /\ NewJob(step, attempt, result).step = step
         /\ NewJob(step, attempt, result).attempt = attempt
         /\ NewJob(step, attempt, result).result = result
BY DEF NewJob, Job

\* What is known of the constants.
LEMMA Constants ==
  /\ Free \notin Jobs /\ Attempts \in Nat \ {0} /\ Validity \in Nat \ {0}
  /\ SendWait \in Nat \ {0} /\ LookupMargin \in Nat /\ MaxLag \in Nat /\ MaxAhead \in Nat
  /\ MaxTime \in Nat /\ MaxRestarts \in Nat /\ Bounds \subseteq Nat
  /\ MaxLag =< LookupMargin + 1
BY SubmitAssumptions, LagWithinMargin

----------------------------------------------------------------------------
\* A transaction is spent once nobody can include it any more.

\* One that the RPC does not know although its ledgers end past the bounds.
LEMMA LapsedSpent ==
  ASSUME TypeOK, NetInv, NEW i \in DOMAIN txs, Lapsed(i)
  PROVE  Spent(i) /\ txs[i].at = 0
<1>1. /\ TxSound(i) /\ rpc_ledger =< ledger /\ rpc_ledger \in Nat /\ ledger \in Nat
  BY Types DEF NetInv
<1>2. /\ txs[i].max_time \in Nat /\ txs[i].max_ledger \in Nat /\ txs[i].at \in Nat
  BY TxTypes
<1>3. txs[i].at = 0
  BY <1>1, <1>2 DEF Lapsed, Found, past, TxSound, InTime
<1>4. ~InTime(txs[i], ledger + 1)
  BY <1>1, <1>2 DEF Lapsed, past, InTime
<1>5. QED BY <1>1, <1>3, <1>4 DEF Spent, Includable, TxSound

\* One that Lookup waited for longer than its margin.
LEMMA LookupSpent ==
  ASSUME TypeOK, NetInv, NEW i \in DOMAIN txs, ~Found(i), NEW deadline \in Nat,
         txs[i].max_time + LookupMargin =< deadline, clock > deadline
  PROVE  Spent(i) /\ txs[i].at = 0
<1>1. /\ TxSound(i) /\ rpc_ledger =< ledger /\ clock =< rpc_ledger + MaxLag
      /\ rpc_ledger \in Nat /\ ledger \in Nat /\ clock \in Nat
  BY Types DEF NetInv
<1>2. /\ txs[i].max_time \in Nat /\ txs[i].max_ledger \in Nat /\ txs[i].at \in Nat
  BY TxTypes
<1>3. txs[i].max_time =< rpc_ledger
  BY <1>1, <1>2, Constants
<1>4. txs[i].at = 0
  BY <1>1, <1>2, <1>3 DEF Found, TxSound, InTime
<1>5. ~InTime(txs[i], ledger + 1)
  BY <1>1, <1>2, <1>3 DEF InTime
<1>6. QED BY <1>1, <1>4, <1>5 DEF Spent, Includable, TxSound

\* One that was never taken.
LEMMA UntakenSpent ==
  ASSUME NetInv, NEW i \in DOMAIN txs, i \notin pool, txs[i].at = 0
  PROVE  Spent(i)
BY DEF NetInv, TxSound, Spent, Includable

\* One that was included and did not succeed.
LEMMA FoundSpent ==
  ASSUME NEW i, Found(i)
  PROVE  ~Includable(i) /\ (txs[i].outcome # "success" => Spent(i))
BY DEF Found, Spent, Includable

\* What is spent stays spent while the network goes on and nobody sends it.
LEMMA SpentStays ==
  ASSUME TypeOK, TypeOK', NetInv, NEW i \in DOMAIN txs, ~Includable(i),
         txs'[i] = txs[i], i \in pool' => i \in pool,
         ledger =< ledger', chain_seq =< chain_seq'
  PROVE  ~Includable(i)'
<1>1. /\ ledger \in Nat /\ ledger' \in Nat /\ chain_seq \in Nat /\ chain_seq' \in Nat
  BY DEF TypeOK
<1>2. /\ txs[i].seq \in Nat /\ txs[i].max_time \in Nat /\ txs[i].max_ledger \in Nat
  BY TxTypes
<1>3. i \in pool => txs[i].seq =< chain_seq + 1
  BY DEF NetInv
<1>4. Includable(i)' <=> /\ i \in pool' /\ txs[i].at = 0 /\ txs[i].seq = chain_seq' + 1
                         /\ InTime(txs[i], ledger' + 1)
  BY DEF Includable, InTime
<1>5. InTime(txs[i], ledger' + 1) => InTime(txs[i], ledger + 1)
  BY <1>1, <1>2 DEF InTime
<1>6. QED BY <1>1, <1>2, <1>3, <1>4, <1>5 DEF Includable

----------------------------------------------------------------------------
\* A step of job j that signs nothing: it may hand its transaction to the network,
\* and it unlocks the account when it ends.
Moves(j) ==
  /\ job' \in [Jobs -> Job]
  /\ \A k \in Jobs : k # j => job'[k] = job[k]
  /\ job'[j].attempt =< Attempts
  /\ job[j].step # "done" /\ job'[j].step \notin {"idle", "lookup"}
  /\ job[j].step = "idle" => holder = Free
  /\ holder' = IF job'[j].step = "done" THEN Free ELSE j
  /\ pool' = pool \/ (job[j].step \in Sending /\ pool' = pool \cup {job[j].tx})
  /\ seq' \in Nat /\ known' \in BOOLEAN
  /\ UNCHANGED <<clock, ledger, chain_seq, rpcVars, txs, restarts>>

LEMMA MovesType ==
  ASSUME TypeOK, NEW j \in Jobs, JobInv(j), Moves(j)
  PROVE  TypeOK'
<1>1. /\ UNCHANGED <<clock, ledger, chain_seq, rpc_ledger, rpc_seq, txs, restarts>>
      /\ seq' \in Nat /\ known' \in BOOLEAN /\ job' \in [Jobs -> Job]
  BY DEF Moves, rpcVars
<1>2. pool' \subseteq DOMAIN txs'
  <2>1. job[j].step \in Sending => job[j].tx \in DOMAIN txs
    BY DEF JobInv, Of
  <2>2. QED BY <1>1, <2>1, Types DEF Moves
<1>3. holder' \in Jobs \cup {Free}
  BY DEF Moves
<1>4. \A k \in Jobs : job'[k].attempt =< Attempts
  BY Types DEF Moves
<1>5. QED BY <1>1, <1>2, <1>3, <1>4 DEF TypeOK

\* It leaves the transactions it does not send as they are ...
LEMMA MovesTxs ==
  ASSUME NEW j, Moves(j)
  PROVE  /\ \A k : Of(k)' = Of(k)
         /\ \A i : pool' = pool \/ i # job[j].tx => (Includable(i)' <=> Includable(i))
                                                    /\ (Spent(i)' <=> Spent(i))
         /\ \A i : Succeeded(i)' = Succeeded(i)
<1>1. UNCHANGED <<ledger, chain_seq, txs>>
  BY DEF Moves
<1>2. \A i : pool' = pool \/ i # job[j].tx => (i \in pool' <=> i \in pool)
  BY DEF Moves
<1>3. \A k : Of(k)' = Of(k)
  BY <1>1 DEF Of
<1>4. \A i : pool' = pool \/ i # job[j].tx => (Includable(i)' <=> Includable(i))
  BY <1>1, <1>2 DEF Includable, InTime
<1>5. QED BY <1>1, <1>3, <1>4 DEF Spent, Succeeded

\* ... and the other jobs as they were.
LEMMA MovesOthers ==
  ASSUME NEW j \in Jobs, JobInv(j), Moves(j), NEW k \in Jobs, k # j, JobInv(k)
  PROVE  JobInv(k)'
<1>1. job'[k] = job[k] /\ txs' = txs
  BY DEF Moves
<1>2. Of(k)' = Of(k) /\ Succeeded(k)' = Succeeded(k)
  BY MovesTxs
<1>3. \A i \in Of(k) : pool' = pool \/ i # job[j].tx
  BY DEF Moves, JobInv, Of
<1>4. \A i \in Of(k) : (Includable(i)' <=> Includable(i)) /\ (Spent(i)' <=> Spent(i))
  BY <1>3, MovesTxs
<1>5. job[k].step \in Sending => (job[k].tx \in pool' <=> job[k].tx \in pool)
  BY <1>3 DEF Moves, JobInv, Of
<1>6. {"send", "wait"} \subseteq Sending
  BY DEF Sending
<1>7. Known(k)' <=> Known(k)
  BY <1>1, <1>2, <1>4 DEF Known
<1>8. QED BY <1>1, <1>2, <1>4, <1>5, <1>6, <1>7 DEF JobInv

\* The lock follows the job.
LEMMA MovesLock ==
  ASSUME TypeOK, LockInv, NEW j \in Jobs, Moves(j)
  PROVE  LockInv'
<1>1. /\ \A k \in Jobs : k # j => job'[k] = job[k]
      /\ job[j].step # "done" /\ job'[j].step # "idle"
      /\ job[j].step = "idle" => holder = Free
      /\ holder' = IF job'[j].step = "done" THEN Free ELSE j
  BY DEF Moves
<1>2. Free \notin Jobs
  BY Constants
<1>3. \A k \in Jobs : k # j => holder # k
  BY <1>1, <1>2 DEF LockInv
<1>4. ASSUME NEW k \in Jobs PROVE job'[k].step \notin {"idle", "done"} <=> holder' = k
  <2>1. CASE k = j
    BY <1>1, <1>2, <2>1
  <2>2. CASE k # j
    BY <1>1, <1>2, <1>3, <2>2 DEF LockInv
  <2>3. QED BY <2>1, <2>2
<1>5. QED BY <1>4 DEF LockInv

\* What a step must do for the account's books: a transaction stays with its job
\* until the RPC has seen it, and a number noted is the account's.
KeepsAccount(j) ==
  /\ job'[j].step \in Sending => job[j].step \in Sending /\ job'[j].tx = job[j].tx
  /\ job[j].step \in Sending /\ job'[j].step \notin Sending => txs[job[j].tx].at =< rpc_ledger
  /\ known' => \/ seq' = chain_seq
               \/ /\ known /\ seq' = seq
                  /\ job[j].step \in Sending => job'[j].step \in Sending

LEMMA MovesAccount ==
  ASSUME TypeOK, AccountInv, NEW j \in Jobs, JobInv(j), Moves(j),
         Uncut /\ job'[j].result # "cancelled" => KeepsAccount(j)
  PROVE  AccountInv'
<1> SUFFICES ASSUME Uncut' PROVE (UnseenHeld /\ RpcBehind /\ IncludedLast /\ NumberKnown)'
  BY DEF AccountInv
<1>1. /\ UNCHANGED <<chain_seq, rpc_ledger, rpc_seq, txs, restarts>>
      /\ \A k \in Jobs : k # j => job'[k] = job[k]
      /\ job[j].step # "done"
  BY DEF Moves, rpcVars
<1>2. Uncut /\ KeepsAccount(j)
  <2>1. job[j].result = "none"
    BY <1>1 DEF JobInv
  <2>2. Uncut
    BY <1>1, <2>1 DEF Uncut
  <2>3. job'[j].result # "cancelled"
    BY DEF Uncut
  <2>4. QED BY <2>2, <2>3
<1>3. UnseenHeld /\ RpcBehind /\ IncludedLast /\ NumberKnown
  BY <1>2 DEF AccountInv
<1>4. ASSUME NEW k \in Jobs
      PROVE  /\ Included(k)' <=> Included(k) /\ job'[k].step \in Sending
             /\ Included(k)' => job'[k].tx = job[k].tx
  <2>1. CASE k = j
    BY <1>1, <1>2, <2>1 DEF Included, KeepsAccount
  <2>2. CASE k # j
    BY <1>1, <2>2 DEF Included
  <2>3. QED BY <2>1, <2>2
<1>5. UnseenHeld'
  <2> SUFFICES ASSUME NEW i \in DOMAIN txs, txs[i].at > rpc_ledger
               PROVE  job'[txs[i].job].step \in Sending /\ job'[txs[i].job].tx = i
    BY <1>1 DEF UnseenHeld
  <2>1. /\ job[txs[i].job].step \in Sending /\ job[txs[i].job].tx = i
        /\ txs[i].job \in Jobs /\ txs[i].at \in Nat /\ rpc_ledger \in Nat
    BY <1>3, Types, TxTypes DEF UnseenHeld
  <2>2. CASE txs[i].job = j
    BY <1>2, <2>1, <2>2 DEF KeepsAccount
  <2>3. CASE txs[i].job # j
    BY <1>1, <2>1, <2>3
  <2>4. QED BY <2>2, <2>3
<1>6. RpcBehind'
  BY <1>1, <1>3 DEF RpcBehind
<1>7. IncludedLast'
  BY <1>1, <1>3, <1>4 DEF IncludedLast
<1>8. NumberKnown'
  <2> SUFFICES ASSUME known', seq' # chain_seq' PROVE \E k \in Jobs : Included(k)'
    BY DEF NumberKnown
  <2>1. known /\ seq # chain_seq /\ (job[j].step \in Sending => job'[j].step \in Sending)
    BY <1>1, <1>2 DEF KeepsAccount
  <2>2. PICK k \in Jobs : Included(k)
    BY <1>3, <2>1 DEF NumberKnown
  <2>3. job'[k].step \in Sending
    BY <1>1, <2>1, <2>2 DEF Included
  <2>4. QED BY <1>4, <2>2, <2>3
<1>9. QED BY <1>5, <1>6, <1>7, <1>8

\* What remains to be shown of a job's step: that the network may hold what it
\* hands over, what holds of the job then, and the account's books.
LEMMA MovesInv ==
  ASSUME SubmitInv, NEW j \in Jobs, Moves(j), JobInv(j)',
         pool' # pool => txs[job[j].tx].seq =< chain_seq + 1,
         Uncut /\ job'[j].result # "cancelled" => KeepsAccount(j)
  PROVE  SubmitInv'
<1>1. /\ TypeOK /\ NetInv /\ (\A k \in Jobs : JobInv(k))
      /\ LockInv /\ LookupInv /\ AccountInv
  BY DEF SubmitInv
<1>2. TypeOK'
  BY <1>1, MovesType
<1>3. NetInv'
  <2>1. UNCHANGED <<clock, ledger, chain_seq, rpc_ledger, rpc_seq, txs>>
    BY DEF Moves, rpcVars
  <2>2. \A i \in DOMAIN txs : TxSound(i)'
    BY <1>1, <2>1 DEF NetInv, TxSound, InTime
  <2>3. \A i \in pool' : txs[i].seq =< chain_seq + 1
    BY <1>1 DEF NetInv, Moves
  <2>4. QED BY <1>1, <2>1, <2>2, <2>3 DEF NetInv
<1>4. \A k \in Jobs : JobInv(k)'
  BY <1>1, MovesOthers
<1>5. LockInv'
  BY <1>1, MovesLock
<1>6. LookupInv'
  BY <1>1 DEF LookupInv, Moves
<1>7. AccountInv'
  BY <1>1, MovesAccount
<1>8. QED BY <1>2, <1>3, <1>4, <1>5, <1>6, <1>7 DEF SubmitInv

\* A job that goes on sending the same transaction.
LEMMA KeepsSending ==
  ASSUME NEW j \in Jobs, JobInv(j), Moves(j), job[j].step \in Sending,
         job'[j].step \in Sending, job'[j].tx = job[j].tx, job'[j].result = "none",
         job'[j].step \in {"send", "wait"} /\ ~job'[j].ambiguous =>
           pool' = pool /\ job[j].step \in {"send", "wait"} /\ ~job[j].ambiguous
  PROVE  JobInv(j)'
<1>1. job'[j].step \notin Between \cup {"done", "lookup"} /\ txs' = txs
  BY DEF Sending, Between, Moves
<1>2. Of(j)' = Of(j)
  BY MovesTxs
<1>3. \A i \in Of(j) : i # job[j].tx => Spent(i)'
  BY MovesTxs DEF JobInv
<1>4. QED BY <1>1, <1>2, <1>3 DEF JobInv

\* A job whose transactions are all spent, or that is cut short.
LEMMA EndsSpent ==
  ASSUME NEW j \in Jobs, JobInv(j), Moves(j), pool' = pool,
         job'[j].result = "cancelled" \/ \A i \in Of(j) : Spent(i),
         \/ job'[j].step \in {"prepare", "backoff"} /\ job'[j].result = "none"
         \/ job'[j].step = "done" /\ job'[j].result # "success"
  PROVE  JobInv(j)'
<1>1. job'[j].step \notin Sending \cup {"send", "wait", "lookup"}
  BY DEF Sending
<1>2. Of(j)' = Of(j) /\ Succeeded(j)' = Succeeded(j)
  BY MovesTxs
<1>3. job'[j].result # "cancelled" => \A i \in Of(j)' : Spent(i)' /\ ~Includable(i)'
  BY <1>2, MovesTxs DEF Spent
<1>4. job'[j].result # "cancelled" => Succeeded(j)' = {}
  BY <1>2 DEF Spent, Succeeded
<1>5. job'[j].step = "done" /\ job'[j].result # "cancelled" => Known(j)'
  BY <1>3, <1>4 DEF Known
<1>6. job'[j].step \in Between => \A i \in Of(j)' : Spent(i)'
  BY <1>3 DEF Between
<1>7. QED BY <1>1, <1>5, <1>6 DEF JobInv

\* A job whose transaction succeeded.
LEMMA EndsSuccess ==
  ASSUME NEW j \in Jobs, JobInv(j), Moves(j), pool' = pool, job[j].step \in Sending,
         Found(job[j].tx), txs[job[j].tx].outcome = "success",
         job'[j].step = "done", job'[j].result = "success"
  PROVE  JobInv(j)'
<1>1. Of(j)' = Of(j) /\ Succeeded(j)' = Succeeded(j)
  BY MovesTxs
<1>2. job[j].tx \in Of(j) /\ \A i \in Of(j) : i # job[j].tx => Spent(i)
  BY DEF JobInv
<1>3. Succeeded(j) = {job[j].tx}
  BY <1>2 DEF Succeeded, Spent
<1>4. \A i \in Of(j)' : ~Includable(i)'
  BY <1>1, <1>2, FoundSpent, MovesTxs DEF Spent
<1>5. Known(j)'
  BY <1>1, <1>2, <1>3, <1>4 DEF Known
<1>6. QED BY <1>5 DEF JobInv, Between, Sending

----------------------------------------------------------------------------
\* The ways in which a job that holds the account moves.

\* What the steps of a job leave alone.
Steady == UNCHANGED <<clock, ledger, chain_seq, rpcVars, txs, restarts>>

LEMMA ActiveHolds ==
  ASSUME SubmitInv, NEW j \in Jobs, job[j].step \notin {"idle", "done"}
  PROVE  holder = j
BY DEF SubmitInv, LockInv

LEMMA GoesOn ==
  ASSUME SubmitInv, NEW j \in Jobs, job[j].step \notin {"idle", "done"},
         NEW new, new \in Job, job' = [job EXCEPT ![j] = new], new.attempt =< Attempts,
         new.step \notin {"idle", "done", "lookup"}, holder' = holder,
         pool' = pool \/ (job[j].step \in Sending /\ pool' = pool \cup {job[j].tx}),
         seq' \in Nat, known' \in BOOLEAN, Steady
  PROVE  Moves(j) /\ job'[j] = new
<1>1. job \in [Jobs -> Job]
  BY Types DEF SubmitInv
<1>2. /\ job' \in [Jobs -> Job] /\ job'[j] = new
      /\ \A k \in Jobs : k # j => job'[k] = job[k]
  BY <1>1
<1>3. QED BY <1>2, ActiveHolds DEF Moves, Steady

LEMMA EndMoves ==
  ASSUME SubmitInv, NEW j \in Jobs, job[j].step \notin {"idle", "done"},
         NEW result \in Results, End(j, result), pool' = pool,
         seq' \in Nat, known' \in BOOLEAN, Steady
  PROVE  Moves(j) /\ job'[j].step = "done" /\ job'[j].result = result
<1> DEFINE new == NewJob("done", 1, result)
<1>1. job \in [Jobs -> Job]
  BY Types DEF SubmitInv
<1>2. "done" \in Steps /\ 1 \in Nat
  BY DEF Steps
<1>3. new \in Job /\ new.step = "done" /\ new.attempt = 1 /\ new.result = result
  BY <1>2, NewJobType
<1> HIDE DEF new
<1>4. job' = [job EXCEPT ![j] = new] /\ holder' = Free
  BY DEF End, new
<1>5. /\ job' \in [Jobs -> Job] /\ job'[j] = new
      /\ \A k \in Jobs : k # j => job'[k] = job[k]
  BY <1>1, <1>3, <1>4
<1>6. 1 =< Attempts
  BY Constants
<1>7. QED BY <1>3, <1>4, <1>5, <1>6 DEF Moves, Steady

LEMMA FailMoves ==
  ASSUME SubmitInv, NEW j \in Jobs, job[j].step \notin {"idle", "done"},
         NEW error \in Results, Fail(j, error), pool' = pool,
         seq' \in Nat, known' \in BOOLEAN, Steady
  PROVE  /\ Moves(j)
         /\ \/ job'[j].step = "backoff" /\ job'[j].result = "none"
            \/ job'[j].step = "done" /\ job'[j].result = error
<1>1. CASE j \in Relays
  <2>1. End(j, error)
    BY <1>1 DEF Fail
  <2>2. QED BY <2>1, EndMoves
<1>2. CASE j \notin Relays
  <2> DEFINE new == NewJob("backoff", job[j].attempt, "none")
  <2>1. job' = [job EXCEPT ![j] = new] /\ holder' = holder
    BY <1>2 DEF Fail
  <2>2. job[j].attempt \in Nat /\ job[j].attempt =< Attempts
    BY Types, JobTypes DEF SubmitInv
  <2>3. "backoff" \in Steps /\ "none" \in Results
    BY DEF Steps, Results
  <2>4. new \in Job /\ new.step = "backoff" /\ new.attempt = job[j].attempt /\ new.result = "none"
    BY <2>2, <2>3, NewJobType
  <2> HIDE DEF new
  <2>5. Moves(j) /\ job'[j] = new
    BY <2>1, <2>2, <2>4, GoesOn
  <2>6. QED BY <2>4, <2>5
<1>3. QED BY <1>1, <1>2

\* An attempt that failed with nothing in flight keeps the invariant.
LEMMA FailInv ==
  ASSUME SubmitInv, NEW j \in Jobs, job[j].step \notin {"idle", "done"},
         NEW error \in Results, error # "success", Fail(j, error), pool' = pool, Steady,
         \A i \in Of(j) : Spent(i),
         job[j].step \in Sending => known' = FALSE /\ seq' = seq /\ txs[job[j].tx].at = 0,
         job[j].step \notin Sending => known' = known /\ seq' = seq
  PROVE  SubmitInv'
<1>1. /\ TypeOK /\ JobInv(j) /\ seq \in Nat /\ known \in BOOLEAN /\ rpc_ledger \in Nat
  BY Types DEF SubmitInv
<1>2. seq' \in Nat /\ known' \in BOOLEAN
  BY <1>1
<1>3. /\ Moves(j)
      /\ \/ job'[j].step = "backoff" /\ job'[j].result = "none"
         \/ job'[j].step = "done" /\ job'[j].result = error
  BY <1>2, FailMoves
<1>4. JobInv(j)'
  BY <1>1, <1>3, EndsSpent
<1>5. KeepsAccount(j)
  <2>1. job'[j].step \notin Sending
    BY <1>3 DEF Sending
  <2>2. job[j].step \in Sending => txs[job[j].tx].at =< rpc_ledger
    BY <1>1
  <2>3. QED BY <2>1, <2>2 DEF KeepsAccount
<1>6. QED BY <1>3, <1>4, <1>5, MovesInv

\* An attempt whose transaction lapsed keeps it too.
LEMMA LapsedInv ==
  ASSUME SubmitInv, NEW j \in Jobs, job[j].step \in Sending, Lapsed(job[j].tx),
         NEW error \in Results, error # "success", Fail(j, error), pool' = pool, Steady,
         known' = FALSE, seq' = seq
  PROVE  SubmitInv'
<1>1. TypeOK /\ NetInv /\ JobInv(j)
  BY DEF SubmitInv
<1>2. job[j].tx \in DOMAIN txs /\ job[j].step \notin {"idle", "done"}
  BY <1>1 DEF JobInv, Of, Sending
<1>3. Spent(job[j].tx) /\ txs[job[j].tx].at = 0
  BY <1>1, <1>2, LapsedSpent
<1>4. \A i \in Of(j) : Spent(i)
  BY <1>1, <1>3 DEF JobInv
<1>5. QED BY <1>2, <1>3, <1>4, FailInv

\* The same for a job that ends with it.
LEMMA EndInv ==
  ASSUME SubmitInv, NEW j \in Jobs, job[j].step \notin Sending \cup {"idle", "done"},
         NEW result \in Results, result # "success", End(j, result), pool' = pool, Steady,
         \A i \in Of(j) : Spent(i), known' = known /\ seq' = seq
  PROVE  SubmitInv'
<1>1. TypeOK /\ JobInv(j) /\ seq \in Nat /\ known \in BOOLEAN
  BY Types DEF SubmitInv
<1>2. Moves(j) /\ job'[j].step = "done" /\ job'[j].result = result
  BY <1>1, EndMoves
<1>3. JobInv(j)'
  BY <1>1, <1>2, EndsSpent
<1>4. KeepsAccount(j)
  BY <1>2 DEF KeepsAccount, Sending
<1>5. QED BY <1>2, <1>3, <1>4, MovesInv

----------------------------------------------------------------------------
\* Each step of a job keeps the invariant.

LEMMA LockStep ==
  ASSUME SubmitInv, NEW j \in Jobs, lock(j)
  PROVE  SubmitInv'
<1> DEFINE new == [job[j] EXCEPT !.step = "prepare", !.deadline = clock + SendWait]
<1>1. /\ job[j].step = "idle" /\ holder = Free /\ holder' = j
      /\ job' = [job EXCEPT ![j].step = "prepare", ![j].deadline = clock + SendWait]
      /\ UNCHANGED <<clock, networkVars, rpcVars, seq, known, restarts>>
  BY DEF lock
<1>2. /\ TypeOK /\ JobInv(j) /\ seq \in Nat /\ known \in BOOLEAN /\ clock \in Nat
      /\ job \in [Jobs -> Job] /\ job[j].attempt =< Attempts
  BY Types DEF SubmitInv
<1>3. job[j] \in Job /\ job[j].result = "none"
  BY <1>1, <1>2 DEF JobInv
<1>4. /\ new \in Job /\ new.step = "prepare" /\ new.attempt = job[j].attempt
      /\ new.result = "none"
  <2>1. "prepare" \in Steps /\ clock + SendWait \in Nat
    BY <1>2, Constants DEF Steps
  <2>2. QED BY <1>3, <2>1 DEF Job
<1>5. /\ job' \in [Jobs -> Job] /\ job'[j] = new
      /\ \A k \in Jobs : k # j => job'[k] = job[k]
  BY <1>1, <1>2, <1>4
<1> HIDE DEF new
<1>6. Moves(j)
  BY <1>1, <1>2, <1>4, <1>5 DEF Moves, networkVars
<1>7. \A i \in Of(j) : Spent(i)
  BY <1>1, <1>2 DEF JobInv, Between
<1>8. pool' = pool
  BY <1>1 DEF networkVars
<1>9. JobInv(j)'
  BY <1>2, <1>4, <1>5, <1>6, <1>7, <1>8, EndsSpent
<1>10. KeepsAccount(j)
  BY <1>1, <1>4, <1>5 DEF KeepsAccount, Sending
<1>11. QED BY <1>6, <1>8, <1>9, <1>10, MovesInv

\* With nothing unseen by the RPC, its number is the account's.
LEMMA LoadStep ==
  ASSUME SubmitInv, NEW j \in Jobs, loadSequence(j)
  PROVE  SubmitInv'
<1>1. /\ job[j].step = "prepare" /\ seq' = rpc_seq /\ known' = TRUE
      /\ UNCHANGED <<clock, networkVars, rpcVars, holder, job, restarts>>
  BY DEF loadSequence
<1>2. /\ TypeOK /\ JobInv(j) /\ rpc_seq \in Nat /\ job \in [Jobs -> Job]
      /\ job[j].attempt =< Attempts /\ job[j] \in Job
  BY Types DEF SubmitInv
<1>3. job' = [job EXCEPT ![j] = job[j]]
  BY <1>1, <1>2
<1>4. pool' = pool /\ Steady
  BY <1>1 DEF networkVars, Steady
<1>5. Moves(j) /\ job'[j] = job[j]
  BY <1>1, <1>2, <1>3, <1>4, GoesOn
<1>6. \A i \in Of(j) : Spent(i)
  BY <1>1, <1>2 DEF JobInv, Between
<1>7. JobInv(j)'
  <2>1. job[j].result = "none"
    BY <1>1, <1>2 DEF JobInv
  <2>2. QED BY <1>1, <1>2, <1>4, <1>5, <1>6, <2>1, EndsSpent
<1>8. Uncut => rpc_seq = chain_seq
  <2> SUFFICES ASSUME Uncut, rpc_seq # chain_seq PROVE FALSE
    OBVIOUS
  <2>1. PICK i \in DOMAIN txs : txs[i].at > rpc_ledger
    BY DEF SubmitInv, AccountInv, RpcBehind
  <2>2. txs[i].job \in Jobs /\ job[txs[i].job].step \in Sending
    BY <1>2, <2>1, TxTypes DEF SubmitInv, AccountInv, UnseenHeld
  <2>3. holder = txs[i].job /\ holder = j
    BY <1>1, <2>2, ActiveHolds DEF Sending
  <2>4. QED BY <1>1, <2>2, <2>3 DEF Sending
<1>9. Uncut => KeepsAccount(j)
  BY <1>1, <1>5, <1>8 DEF KeepsAccount, Sending
<1>10. QED BY <1>4, <1>5, <1>7, <1>9, MovesInv

LEMMA PrepareFails ==
  ASSUME SubmitInv, NEW j \in Jobs, prepare_unanswered(j) \/ prepare_refused(j)
  PROVE  SubmitInv'
<1>1. /\ job[j].step = "prepare"
      /\ Fail(j, "error") \/ End(j, "refused")
      /\ UNCHANGED <<clock, networkVars, rpcVars, seq, known, restarts>>
  BY DEF prepare_unanswered, prepare_refused
<1>2. \A i \in Of(j) : Spent(i)
  BY <1>1 DEF SubmitInv, JobInv, Between
<1>3. pool' = pool /\ Steady
  BY <1>1 DEF networkVars, Steady
<1>4. job[j].step \notin Sending \cup {"idle", "done"} /\ {"error", "refused"} \subseteq Results
  BY <1>1 DEF Sending, Results
<1>5. QED BY <1>1, <1>2, <1>3, <1>4, FailInv, EndInv

LEMMA AgainStep ==
  ASSUME SubmitInv, NEW j \in Jobs, again(j)
  PROVE  SubmitInv'
<1>1. /\ job[j].step = "backoff"
      /\ UNCHANGED <<clock, networkVars, rpcVars, seq, known, restarts>>
  BY DEF again
<1>2. \A i \in Of(j) : Spent(i)
  BY <1>1 DEF SubmitInv, JobInv, Between
<1>3. pool' = pool /\ Steady
  BY <1>1 DEF networkVars, Steady
<1>4. job[j].step \notin Sending \cup {"idle", "done"} /\ "error" \in Results
  BY <1>1 DEF Sending, Results
<1>5. CASE job[j].attempt < Attempts
  <2> DEFINE new == [job[j] EXCEPT !.step = "prepare", !.attempt = @ + 1]
  <2>1. /\ job' = [job EXCEPT ![j].step = "prepare", ![j].attempt = @ + 1]
        /\ holder' = holder
    BY <1>5 DEF again
  <2>2. /\ TypeOK /\ JobInv(j) /\ seq \in Nat /\ known \in BOOLEAN
        /\ job \in [Jobs -> Job] /\ job[j] \in Job /\ job[j].attempt \in Nat
    BY Types, JobTypes DEF SubmitInv
  <2>3. job[j].result = "none"
    BY <1>1, <2>2 DEF JobInv
  <2>4. /\ new \in Job /\ new.step = "prepare" /\ new.attempt = job[j].attempt + 1
        /\ new.result = "none"
    <3>1. "prepare" \in Steps /\ job[j].attempt + 1 \in Nat
      BY <2>2 DEF Steps
    <3>2. QED BY <2>2, <2>3, <3>1 DEF Job
  <2>5. job' = [job EXCEPT ![j] = new]
    BY <2>1, <2>2
  <2> HIDE DEF new
  <2>6. new.attempt =< Attempts
    BY <1>5, <2>2, <2>4, Constants
  <2>7. Moves(j) /\ job'[j] = new
    BY <1>1, <1>3, <1>4, <2>1, <2>2, <2>4, <2>5, <2>6, GoesOn
  <2>8. JobInv(j)'
    BY <1>2, <1>3, <2>2, <2>4, <2>7, EndsSpent
  <2>9. KeepsAccount(j)
    BY <1>1, <1>4, <2>4, <2>7 DEF KeepsAccount, Sending
  <2>10. QED BY <1>3, <2>7, <2>8, <2>9, MovesInv
<1>6. CASE ~(job[j].attempt < Attempts)
  <2>1. End(j, "error")
    BY <1>6 DEF again
  <2>2. QED BY <1>1, <1>2, <1>3, <1>4, <2>1, EndInv
<1>7. QED BY <1>5, <1>6

\* A job that goes on with its transaction, handed to the network or not.
LEMMA SendsOn ==
  ASSUME SubmitInv, NEW j \in Jobs, job[j].step \in Sending,
         NEW new, new \in Job, job' = [job EXCEPT ![j] = new],
         new.step \in Sending, new.step # "lookup",
         new.tx = job[j].tx, new.result = job[j].result, new.attempt = job[j].attempt,
         new.step \in {"send", "wait"} /\ ~new.ambiguous =>
           pool' = pool /\ job[j].step \in {"send", "wait"} /\ ~job[j].ambiguous,
         pool' = pool \/ (Accepts(job[j].tx) /\ pool' = pool \cup {job[j].tx}),
         holder' = holder, seq' = seq, known' = known, Steady
  PROVE  SubmitInv'
<1>1. /\ TypeOK /\ NetInv /\ JobInv(j) /\ seq \in Nat /\ known \in BOOLEAN
      /\ job[j].attempt =< Attempts /\ rpc_seq \in Nat /\ chain_seq \in Nat
  BY Types DEF SubmitInv
<1>2. job[j].step \notin {"idle", "done"} /\ new.step \notin {"idle", "done", "lookup"}
  BY DEF Sending
<1>3. Moves(j) /\ job'[j] = new
  BY <1>1, <1>2, GoesOn
<1>4. job[j].result = "none"
  BY <1>1, <1>2 DEF JobInv
<1>5. JobInv(j)'
  BY <1>1, <1>3, <1>4, KeepsSending
<1>6. pool' # pool => txs[job[j].tx].seq =< chain_seq + 1
  <2> SUFFICES ASSUME Accepts(job[j].tx) PROVE txs[job[j].tx].seq =< chain_seq + 1
    OBVIOUS
  <2>1. txs[job[j].tx].seq = rpc_seq + 1 /\ rpc_seq =< chain_seq
    BY <1>1 DEF Accepts, Invalid, NetInv
  <2>2. QED BY <1>1, <2>1
<1>7. KeepsAccount(j)
  BY <1>3 DEF KeepsAccount
<1>8. QED BY <1>3, <1>5, <1>6, <1>7, MovesInv

\* A job that only goes to another step with its transaction.
LEMMA StepsOn ==
  ASSUME SubmitInv, NEW j \in Jobs, job[j].step \in Sending,
         NEW step, step \in Sending \ {"send", "wait", "lookup"},
         job' = [job EXCEPT ![j].step = step],
         pool' = pool \/ (Accepts(job[j].tx) /\ pool' = pool \cup {job[j].tx}),
         holder' = holder, seq' = seq, known' = known, Steady
  PROVE  SubmitInv'
<1> DEFINE new == [job[j] EXCEPT !.step = step]
<1>1. job \in [Jobs -> Job] /\ job[j] \in Job /\ step \in Steps
  BY Types DEF SubmitInv, Sending, Steps
<1>2. /\ new \in Job /\ new.step = step /\ new.tx = job[j].tx
      /\ new.result = job[j].result /\ new.attempt = job[j].attempt
  BY <1>1 DEF Job
<1>3. job' = [job EXCEPT ![j] = new]
  BY <1>1
<1> HIDE DEF new
<1>4. QED BY <1>2, <1>3, SendsOn

LEMMA AcceptedStep ==
  ASSUME SubmitInv, NEW j \in Jobs, send_accepted(j)
  PROVE  SubmitInv'
<1>1. /\ job[j].step = "send" /\ Accepts(job[j].tx)
      /\ pool' = pool \cup {job[j].tx}
      /\ job' = [job EXCEPT ![j].step = "track"]
      /\ UNCHANGED <<clock, ledger, chain_seq, txs, rpcVars, accountVars, restarts>>
  BY DEF send_accepted
<1>2. Steady /\ holder' = holder /\ seq' = seq /\ known' = known
  BY <1>1 DEF accountVars, Steady
<1>3. job[j].step \in Sending /\ "track" \in Sending \ {"send", "wait", "lookup"}
  BY <1>1 DEF Sending
<1>4. QED BY <1>1, <1>2, <1>3, StepsOn

LEMMA UnansweredStep ==
  ASSUME SubmitInv, NEW j \in Jobs, send_unanswered(j)
  PROVE  SubmitInv'
<1> DEFINE new == [job[j] EXCEPT !.step = "wait", !.ambiguous = TRUE]
<1>1. /\ job[j].step = "send"
      /\ pool' = pool \/ (Accepts(job[j].tx) /\ pool' = pool \cup {job[j].tx})
      /\ job' = [job EXCEPT ![j].step = "wait", ![j].ambiguous = TRUE]
      /\ UNCHANGED <<clock, ledger, chain_seq, txs, rpcVars, accountVars, restarts>>
  BY DEF send_unanswered
<1>2. Steady /\ holder' = holder /\ seq' = seq /\ known' = known
  BY <1>1 DEF accountVars, Steady
<1>3. job \in [Jobs -> Job] /\ job[j] \in Job /\ "wait" \in Steps
  BY Types DEF SubmitInv, Steps
<1>4. /\ new \in Job /\ new.step = "wait" /\ new.tx = job[j].tx /\ new.ambiguous = TRUE
      /\ new.result = job[j].result /\ new.attempt = job[j].attempt
  BY <1>3 DEF Job
<1>5. job' = [job EXCEPT ![j] = new]
  BY <1>1, <1>3
<1>6. job[j].step \in Sending /\ "wait" \in Sending
  BY <1>1 DEF Sending
<1> HIDE DEF new
<1>7. QED BY <1>1, <1>2, <1>4, <1>5, <1>6, SendsOn

LEMMA LaterStep ==
  ASSUME SubmitInv, NEW j \in Jobs, send_later(j)
  PROVE  SubmitInv'
<1> DEFINE c == Later(job[j].closed, rpc_ledger)
           s == Later(job[j].seen, rpc_ledger)
           new == [job[j] EXCEPT !.step = "wait", !.closed = c, !.seen = s]
<1>1. /\ job[j].step = "send"
      /\ job' = [job EXCEPT ![j].step = "wait", ![j].closed = Later(@, rpc_ledger),
                   ![j].seen = Later(@, rpc_ledger)]
      /\ UNCHANGED <<clock, networkVars, rpcVars, accountVars, restarts>>
  BY DEF send_later
<1>2. Steady /\ holder' = holder /\ seq' = seq /\ known' = known /\ pool' = pool
  BY <1>1 DEF accountVars, networkVars, Steady
<1>3. job \in [Jobs -> Job] /\ job[j] \in Job /\ "wait" \in Steps
  BY Types DEF SubmitInv, Steps
<1>4. c \in Nat /\ s \in Nat
  BY Types, JobTypes DEF SubmitInv, Later
<1>5. job' = [job EXCEPT ![j] = new]
  BY <1>1, <1>3
<1> HIDE DEF c, s
<1>6. /\ new \in Job /\ new.step = "wait" /\ new.tx = job[j].tx
      /\ new.ambiguous = job[j].ambiguous
      /\ new.result = job[j].result /\ new.attempt = job[j].attempt
  BY <1>3, <1>4 DEF Job
<1>7. job[j].step \in Sending /\ "wait" \in Sending
  BY <1>1 DEF Sending
<1> HIDE DEF new
<1>8. QED BY <1>1, <1>2, <1>5, <1>6, <1>7, SendsOn

LEMMA SendAgainStep ==
  ASSUME SubmitInv, NEW j \in Jobs, send_again(j)
  PROVE  SubmitInv'
<1> DEFINE c == Later(job[j].closed, clock)
           new == [job[j] EXCEPT !.step = "send", !.closed = c]
<1>1. /\ job[j].step = "wait"
      /\ job' = [job EXCEPT ![j].step = "send", ![j].closed = Later(@, clock)]
      /\ UNCHANGED <<clock, networkVars, rpcVars, accountVars, restarts>>
  BY DEF send_again
<1>2. Steady /\ holder' = holder /\ seq' = seq /\ known' = known /\ pool' = pool
  BY <1>1 DEF accountVars, networkVars, Steady
<1>3. job \in [Jobs -> Job] /\ job[j] \in Job /\ "send" \in Steps
  BY Types DEF SubmitInv, Steps
<1>4. c \in Nat
  BY Types, JobTypes DEF SubmitInv, Later
<1>5. job' = [job EXCEPT ![j] = new]
  BY <1>1, <1>3
<1> HIDE DEF c
<1>6. /\ new \in Job /\ new.step = "send" /\ new.tx = job[j].tx
      /\ new.ambiguous = job[j].ambiguous
      /\ new.result = job[j].result /\ new.attempt = job[j].attempt
  BY <1>3, <1>4 DEF Job
<1>7. job[j].step \in Sending /\ "send" \in Sending
  BY <1>1 DEF Sending
<1> HIDE DEF new
<1>8. QED BY <1>1, <1>2, <1>5, <1>6, <1>7, SendsOn

\* A refusal, or the end of the bounds, is believed of a copy that was answered
\* and of none other.
LEMMA RefusedStep ==
  ASSUME SubmitInv, NEW j \in Jobs, send_refused(j) \/ send_expired(j)
  PROVE  SubmitInv'
<1>1. /\ job[j].step \in {"send", "wait"}
      /\ IF job[j].ambiguous
         THEN job' = [job EXCEPT ![j].step = "resolve"] /\ UNCHANGED <<holder, known>>
         ELSE Fail(j, "error") /\ known' = FALSE
      /\ UNCHANGED <<clock, networkVars, rpcVars, seq, restarts>>
  BY DEF send_refused, send_expired
<1>2. Steady /\ seq' = seq /\ pool' = pool
  BY <1>1 DEF networkVars, Steady
<1>3. /\ job[j].step \in Sending /\ job[j].step \notin {"idle", "done"}
      /\ "resolve" \in Sending \ {"send", "wait", "lookup"} /\ "error" \in Results
  BY <1>1 DEF Sending, Results
<1>4. CASE job[j].ambiguous
  BY <1>1, <1>2, <1>3, <1>4, StepsOn
<1>5. CASE ~job[j].ambiguous
  <2>1. NetInv /\ JobInv(j)
    BY DEF SubmitInv
  <2>2. /\ job[j].tx \notin pool /\ txs[job[j].tx].at = 0
        /\ job[j].tx \in DOMAIN txs
    BY <1>1, <1>3, <1>5, <2>1 DEF JobInv, Of
  <2>3. Spent(job[j].tx)
    BY <2>1, <2>2, UntakenSpent
  <2>4. \A i \in Of(j) : Spent(i)
    BY <1>3, <2>1, <2>3 DEF JobInv
  <2>5. QED BY <1>1, <1>2, <1>3, <1>5, <2>2, <2>4, FailInv
<1>6. QED BY <1>4, <1>5

LEMMA TimeoutStep ==
  ASSUME SubmitInv, NEW j \in Jobs, send_timeout(j)
  PROVE  SubmitInv'
<1>1. /\ job[j].step \in {"wait", "resolve"} /\ End(j, "cancelled") /\ known' = FALSE
      /\ UNCHANGED <<clock, networkVars, rpcVars, seq, restarts>>
  BY DEF send_timeout
<1>2. Steady /\ seq' = seq /\ pool' = pool
  BY <1>1 DEF networkVars, Steady
<1>3. JobInv(j) /\ seq \in Nat /\ "cancelled" \in Results
  BY Types DEF SubmitInv, Results
<1>4. Moves(j) /\ job'[j].step = "done" /\ job'[j].result = "cancelled"
  BY <1>1, <1>2, <1>3, EndMoves
<1>5. JobInv(j)'
  BY <1>2, <1>3, <1>4, EndsSpent
<1>6. QED BY <1>2, <1>4, <1>5, MovesInv

\* What became of a transaction that no answer told about.
LEMMA ResolveStep ==
  ASSUME SubmitInv, NEW j \in Jobs, resolve(j)
  PROVE  SubmitInv'
<1>1. /\ job[j].step = "resolve"
      /\ UNCHANGED <<clock, networkVars, rpcVars, seq, restarts>>
  BY DEF resolve
<1>2. Steady /\ seq' = seq /\ pool' = pool
  BY <1>1 DEF networkVars, Steady
<1>3. /\ job[j].step \in Sending /\ job[j].step \notin {"idle", "done"}
      /\ "track" \in Sending \ {"send", "wait", "lookup"} /\ "error" \in Results
  BY <1>1 DEF Sending, Results
<1>4. CASE Found(job[j].tx) /\ job' = [job EXCEPT ![j].step = "track"] /\ UNCHANGED <<holder, known>>
  BY <1>2, <1>3, <1>4, StepsOn
<1>5. CASE Lapsed(job[j].tx) /\ Fail(j, "error") /\ known' = FALSE
  BY <1>2, <1>3, <1>5, LapsedInv
<1>6. QED BY <1>4, <1>5 DEF resolve

\* What the RPC knows of the job's transaction is reported: nothing else of the
\* job's succeeded, and the number noted with it is the account's.
LEMMA ReportInv ==
  ASSUME SubmitInv, NEW j \in Jobs, job[j].step \in Sending, Found(job[j].tx),
         Report(j, txs[job[j].tx].outcome), pool' = pool, Steady,
         seq' \in Nat, known' \in BOOLEAN, Uncut /\ known' => seq' = chain_seq
  PROVE  SubmitInv'
<1> DEFINE outcome == txs[job[j].tx].outcome
<1>1. TypeOK /\ NetInv /\ JobInv(j)
  BY DEF SubmitInv
<1>2. job[j].tx \in DOMAIN txs /\ job[j].step \notin {"idle", "done"}
  BY <1>1 DEF JobInv, Of, Sending
<1>3. outcome \in {"success", "failed", "conflict"}
  BY <1>1, <1>2, TxTypes DEF NetInv, TxSound, Found
<1>4. outcome # "success" => \A i \in Of(j) : Spent(i)
  BY <1>1, FoundSpent DEF JobInv
<1> HIDE DEF outcome
<1>5. "failed" \in Results /\ "success" \in Results
  BY DEF Results
<1>6. /\ Moves(j) /\ JobInv(j)' /\ job'[j].step \in {"backoff", "done"}
  <2>1. CASE outcome = "success"
    <3>1. End(j, "success")
      BY <2>1 DEF Report, outcome
    <3>2. Moves(j) /\ job'[j].step = "done" /\ job'[j].result = "success"
      BY <1>2, <1>5, <3>1, EndMoves
    <3>3. QED BY <1>1, <2>1, <3>2, EndsSuccess DEF outcome
  <2>2. CASE outcome = "failed"
    <3>1. End(j, "failed")
      BY <2>2 DEF Report, outcome
    <3>2. Moves(j) /\ job'[j].step = "done" /\ job'[j].result = "failed"
      BY <1>2, <1>5, <3>1, EndMoves
    <3>3. QED BY <1>1, <1>4, <2>2, <3>2, EndsSpent
  <2>3. CASE outcome = "conflict"
    <3>1. Fail(j, "failed")
      BY <2>3 DEF Report, outcome
    <3>2. /\ Moves(j)
          /\ \/ job'[j].step = "backoff" /\ job'[j].result = "none"
             \/ job'[j].step = "done" /\ job'[j].result = "failed"
      BY <1>2, <1>5, <3>1, FailMoves
    <3>3. QED BY <1>1, <1>4, <2>3, <3>2, EndsSpent
  <2>4. QED BY <1>3, <2>1, <2>2, <2>3
<1>7. Uncut => KeepsAccount(j)
  BY <1>6 DEF KeepsAccount, Sending, Found
<1>8. QED BY <1>6, <1>7, MovesInv

LEMMA TrackStep ==
  ASSUME SubmitInv, NEW j \in Jobs, track(j)
  PROVE  SubmitInv'
<1>1. /\ job[j].step = "track"
      /\ UNCHANGED <<clock, networkVars, rpcVars, restarts>>
  BY DEF track
<1>2. Steady /\ pool' = pool
  BY <1>1 DEF networkVars, Steady
<1>3. job[j].step \in Sending /\ "expired" \in Results
  BY <1>1 DEF Sending, Results
<1>4. CASE /\ Found(job[j].tx) /\ seq' = txs[job[j].tx].seq /\ known' = TRUE
           /\ Report(j, txs[job[j].tx].outcome)
  <2>1. seq' \in Nat
    <3>1. job[j].tx \in DOMAIN txs /\ TypeOK
      BY <1>3 DEF SubmitInv, JobInv, Of
    <3>2. QED BY <1>4, <3>1, TxTypes
  <2>2. Uncut => seq' = chain_seq
    BY <1>3, <1>4 DEF SubmitInv, AccountInv, IncludedLast, Included, Found
  <2>3. QED BY <1>2, <1>3, <1>4, <2>1, <2>2, ReportInv
<1>5. CASE Lapsed(job[j].tx) /\ known' = FALSE /\ seq' = seq /\ Fail(j, "expired")
  BY <1>2, <1>3, <1>5, LapsedInv
<1>6. QED BY <1>4, <1>5 DEF track

\* After a restart nothing is claimed of the account's number.
LEMMA LookupStep ==
  ASSUME SubmitInv, NEW j \in Jobs, Lookup(j)
  PROVE  SubmitInv'
<1>1. /\ job[j].step = "lookup"
      /\ UNCHANGED <<clock, networkVars, rpcVars, seq, known, restarts>>
  BY DEF Lookup
<1>2. Steady /\ pool' = pool
  BY <1>1 DEF networkVars, Steady
<1>3. job[j].step \in Sending /\ job[j].step \notin {"idle", "done"} /\ "expired" \in Results
  BY <1>1 DEF Sending, Results
<1>4. /\ TypeOK /\ NetInv /\ JobInv(j) /\ seq' \in Nat /\ known' \in BOOLEAN
      /\ job[j].deadline \in Nat
  BY <1>1, Types, JobTypes DEF SubmitInv
<1>5. ~Uncut
  BY <1>1 DEF SubmitInv, LookupInv, Uncut
<1>6. CASE Found(job[j].tx) /\ Report(j, txs[job[j].tx].outcome)
  BY <1>2, <1>3, <1>4, <1>5, <1>6, ReportInv
<1>7. CASE ~Found(job[j].tx) /\ clock > job[j].deadline /\ End(j, "expired")
  <2>1. job[j].tx \in DOMAIN txs
    BY <1>3, <1>4 DEF JobInv, Of
  <2>2. Spent(job[j].tx)
    BY <1>1, <1>4, <1>7, <2>1, LookupSpent DEF JobInv
  <2>3. \A i \in Of(j) : Spent(i)
    BY <1>3, <1>4, <2>2 DEF JobInv
  <2>4. Moves(j) /\ job'[j].step = "done" /\ job'[j].result = "expired"
    BY <1>2, <1>3, <1>4, <1>7, EndMoves
  <2>5. JobInv(j)'
    BY <1>2, <1>4, <2>3, <2>4, EndsSpent
  <2>6. QED BY <1>2, <1>5, <2>4, <2>5, MovesInv
<1>8. QED BY <1>6, <1>7 DEF Lookup

\* A transaction that is signed adds one that nobody holds yet, on the number of
\* a job that has no other in flight.
LEMMA PrepareStep ==
  ASSUME SubmitInv, NEW j \in Jobs, NEW bound \in Bounds, PrepareUntil(j, bound)
  PROVE  SubmitInv'
<1> DEFINE n   == Len(txs) + 1
           max == IF bound = 0 THEN 0 ELSE rpc_ledger + bound
           tx  == [job |-> j, seq |-> seq + 1, max_time |-> clock + Validity,
                   max_ledger |-> max, at |-> 0, outcome |-> "none"]
           new == [job[j] EXCEPT !.step = "send", !.tx = n, !.ambiguous = FALSE,
                                 !.closed = clock, !.seen = 0]
<1>1. /\ job[j].step = "prepare" /\ known
      /\ txs' = Append(txs, tx)
      /\ job' = [job EXCEPT ![j].step = "send", ![j].tx = n,
                   ![j].ambiguous = FALSE, ![j].closed = clock, ![j].seen = 0]
      /\ UNCHANGED <<clock, ledger, chain_seq, pool, rpcVars, accountVars, restarts>>
  BY DEF PrepareUntil
<1>2. UNCHANGED <<clock, ledger, chain_seq, pool, rpc_ledger, rpc_seq, holder, seq, known, restarts>>
  BY <1>1 DEF rpcVars, accountVars
<1>3. /\ TypeOK /\ NetInv /\ (\A k \in Jobs : JobInv(k)) /\ LockInv /\ LookupInv /\ AccountInv
  BY DEF SubmitInv
<1>4. /\ clock \in Nat /\ ledger \in Nat /\ rpc_ledger \in Nat /\ seq \in Nat
      /\ txs \in Seq(Transaction) /\ job \in [Jobs -> Job] /\ job[j] \in Job
      /\ pool \subseteq DOMAIN txs /\ n \in Nat \ {0} /\ Validity \in Nat
  BY <1>3, Types, Constants
<1>5. /\ tx \in Transaction /\ tx.job = j /\ tx.at = 0 /\ tx.outcome = "none"
      /\ tx.max_time = clock + Validity
  <2>1. max \in Nat
    BY <1>4, Constants
  <2> HIDE DEF max
  <2>2. seq + 1 \in Nat \ {0} /\ clock + Validity \in Nat
    BY <1>4
  <2>3. QED BY <2>1, <2>2 DEF Transaction
<1>6. job[j].result = "none"
  BY <1>1, <1>3 DEF JobInv
<1>7. /\ new \in Job /\ new.step = "send" /\ new.tx = n /\ new.attempt = job[j].attempt
      /\ new.result = "none"
  <2>1. "send" \in Steps
    BY DEF Steps
  <2> HIDE DEF n
  <2>2. QED BY <1>4, <1>6, <2>1 DEF Job
<1>8. /\ job' \in [Jobs -> Job] /\ job'[j] = new /\ \A k \in Jobs : k # j => job'[k] = job[k]
  <2>1. job' = [job EXCEPT ![j] = new]
    BY <1>1, <1>4
  <2> HIDE DEF new
  <2>2. QED BY <1>4, <1>7, <2>1
<1> HIDE DEF new, tx
<1>9. /\ txs' \in Seq(Transaction) /\ DOMAIN txs' = DOMAIN txs \cup {n} /\ n \notin DOMAIN txs
      /\ txs'[n] = tx /\ \A i \in DOMAIN txs : txs'[i] = txs[i]
  BY <1>1, <1>4, <1>5
<1> HIDE DEF n
<1>10. TypeOK'
  <2>1. pool' \subseteq DOMAIN txs'
    BY <1>2, <1>4, <1>9
  <2>2. \A k \in Jobs : job'[k].attempt =< Attempts
    BY <1>3, <1>7, <1>8, Types
  <2>3. QED BY <1>2, <1>3, <1>8, <1>9, <2>1, <2>2 DEF TypeOK
<1>11. NetInv'
  <2>1. ASSUME NEW i \in DOMAIN txs' PROVE TxSound(i)'
    <3>1. CASE i = n
      BY <1>2, <1>4, <1>5, <1>9, <3>1 DEF TxSound
    <3>2. CASE i \in DOMAIN txs
      BY <1>2, <1>3, <1>9, <3>2 DEF NetInv, TxSound, InTime
    <3>3. QED BY <1>9, <3>1, <3>2
  <2>2. \A i \in pool' : txs'[i].seq =< chain_seq' + 1
    BY <1>2, <1>3, <1>4, <1>9 DEF NetInv
  <2>3. QED BY <1>2, <1>3, <2>1, <2>2 DEF NetInv
<1>12. /\ \A k \in Jobs : k # j => Of(k)' = Of(k)
       /\ Of(j)' = Of(j) \cup {n}
  BY <1>5, <1>9 DEF Of
<1>13. \A i \in DOMAIN txs : (Includable(i)' <=> Includable(i)) /\ (Spent(i)' <=> Spent(i))
  BY <1>2, <1>9 DEF Spent, Includable, InTime
<1>14. ASSUME NEW k \in Jobs, k # j PROVE JobInv(k)'
  <2>1. job'[k] = job[k] /\ Of(k)' = Of(k) /\ Of(k) \subseteq DOMAIN txs /\ pool' = pool
    BY <1>2, <1>8, <1>12, <1>14 DEF Of
  <2>2. Succeeded(k)' = Succeeded(k)
    BY <1>9, <2>1 DEF Succeeded
  <2>3. Known(k)' <=> Known(k)
    BY <1>13, <2>1, <2>2 DEF Known
  <2>4. job[k].step \in Sending => txs'[job[k].tx] = txs[job[k].tx]
    BY <1>3, <1>9, <2>1 DEF JobInv
  <2>5. {"send", "wait", "lookup"} \subseteq Sending
    BY DEF Sending
  <2>6. JobInv(k) /\ \A i \in Of(k) : Spent(i)' <=> Spent(i)
    BY <1>3, <1>13, <2>1
  <2>7. QED BY <2>1, <2>3, <2>4, <2>5, <2>6 DEF JobInv
<1>15. JobInv(j)'
  <2>1. \A i \in Of(j) : Spent(i)' /\ Of(j) \subseteq DOMAIN txs
    BY <1>1, <1>3, <1>13 DEF JobInv, Between, Of
  <2>2. n \notin pool' /\ txs'[n].at = 0
    BY <1>2, <1>4, <1>5, <1>9
  <2>3. QED BY <1>7, <1>8, <1>12, <2>1, <2>2 DEF JobInv, Between, Sending
<1>16. LockInv'
  <2>1. job'[j].step \notin {"idle", "done"} /\ job[j].step \notin {"idle", "done"}
    BY <1>1, <1>7, <1>8
  <2>2. QED BY <1>2, <1>3, <1>8, <2>1 DEF LockInv
<1>17. LookupInv'
  BY <1>2, <1>3, <1>7, <1>8 DEF LookupInv
<1>18. AccountInv'
  <2> SUFFICES ASSUME Uncut' PROVE (UnseenHeld /\ RpcBehind /\ IncludedLast /\ NumberKnown)'
    BY DEF AccountInv
  <2>1. Uncut
    BY <1>2, <1>6, <1>8 DEF Uncut
  <2>2. UnseenHeld /\ RpcBehind /\ IncludedLast /\ NumberKnown
    BY <1>3, <2>1 DEF AccountInv
  <2>3. job[j].step \notin Sending /\ \A k \in Jobs : job[k].step \in Sending => k # j
    BY <1>1 DEF Sending
  <2>4. UnseenHeld'
    <3> SUFFICES ASSUME NEW i \in DOMAIN txs', txs'[i].at > rpc_ledger
                 PROVE  job'[txs'[i].job].step \in Sending /\ job'[txs'[i].job].tx = i
      BY <1>2 DEF UnseenHeld
    <3>1. i \in DOMAIN txs /\ txs'[i] = txs[i]
      BY <1>4, <1>5, <1>9
    <3>2. job[txs[i].job].step \in Sending /\ job[txs[i].job].tx = i /\ txs[i].job \in Jobs
      BY <1>3, <2>2, <3>1, TxTypes DEF UnseenHeld
    <3>3. QED BY <1>8, <2>3, <3>1, <3>2
  <2>5. RpcBehind'
    BY <1>2, <1>9, <2>2 DEF RpcBehind
  <2>6. ASSUME NEW k \in Jobs
        PROVE  /\ Included(k)' <=> Included(k)
               /\ Included(k) => k # j /\ txs'[job[k].tx] = txs[job[k].tx]
    <3>1. CASE k = j
      BY <1>5, <1>7, <1>8, <1>9, <2>3, <3>1 DEF Included
    <3>2. CASE k # j
      <4>1. job[k].step \in Sending => job[k].tx \in DOMAIN txs
        BY <1>3 DEF JobInv, Of
      <4>2. QED BY <1>8, <1>9, <3>2, <4>1 DEF Included
    <3>3. QED BY <3>1, <3>2
  <2>7. IncludedLast'
    BY <1>2, <1>8, <2>2, <2>6 DEF IncludedLast
  <2>8. NumberKnown'
    BY <1>2, <2>2, <2>6 DEF NumberKnown
  <2>9. QED BY <2>4, <2>5, <2>7, <2>8
<1>19. QED BY <1>10, <1>11, <1>14, <1>15, <1>16, <1>17, <1>18 DEF SubmitInv

----------------------------------------------------------------------------
\* The network goes on without the jobs: it includes at most a transaction that it
\* may include, and drops what it holds.
Proceeds ==
  /\ TypeOK' /\ NetInv'
  /\ UNCHANGED <<accountVars, job, restarts>>
  /\ ledger =< ledger' /\ chain_seq =< chain_seq' /\ pool' \subseteq pool
  /\ DOMAIN txs' = DOMAIN txs
  /\ \A i \in DOMAIN txs : /\ txs'[i].job = txs[i].job
                           /\ txs'[i].max_time = txs[i].max_time
                           /\ ~Includable(i) => txs'[i] = txs[i]

\* No job is told anything that changes afterwards.
LEMMA ProceedsJobs ==
  ASSUME SubmitInv, Proceeds, NEW j \in Jobs
  PROVE  JobInv(j)'
<1>1. TypeOK /\ TypeOK' /\ NetInv /\ JobInv(j) /\ job' = job
  BY DEF SubmitInv, Proceeds
<1>2. Of(j)' = Of(j)
  BY DEF Proceeds, Of
<1>3. ASSUME NEW i \in DOMAIN txs, ~Includable(i) PROVE ~Includable(i)' /\ txs'[i] = txs[i]
  BY <1>1, <1>3, SpentStays DEF Proceeds
<1>4. \A i \in Of(j) : Spent(i) => Spent(i)'
  BY <1>3 DEF Spent, Of
<1>5. (\A i \in Of(j) : ~Includable(i)) => Succeeded(j)' = Succeeded(j)
  BY <1>2, <1>3 DEF Succeeded, Of
<1>6. Known(j) => Known(j)'
  <2> SUFFICES ASSUME Known(j) PROVE Known(j)'
    OBVIOUS
  <2>1. /\ \A i \in Of(j)' : ~Includable(i)'
        /\ Succeeded(j)' = Succeeded(j)
    BY <1>2, <1>3, <1>5 DEF Known, Of
  <2>2. QED BY <1>1, <1>2, <2>1 DEF Known
<1>7. job[j].step \in Sending =>
        /\ job[j].tx \in DOMAIN txs
        /\ txs'[job[j].tx].max_time = txs[job[j].tx].max_time
  BY <1>1 DEF Proceeds, JobInv, Of
<1>8. ASSUME job[j].step \in {"send", "wait"}, ~job[j].ambiguous
      PROVE  job[j].tx \notin pool' /\ txs'[job[j].tx].at = 0
  <2>1. job[j].tx \notin pool /\ txs[job[j].tx].at = 0 /\ job[j].step \in Sending
    BY <1>1, <1>8 DEF JobInv, Sending
  <2>2. ~Includable(job[j].tx)
    BY <2>1 DEF Includable
  <2>3. QED BY <1>3, <1>7, <2>1, <2>2 DEF Proceeds
<1>9. "lookup" \in Sending
  BY DEF Sending
<1>10. QED BY <1>1, <1>2, <1>4, <1>6, <1>7, <1>8, <1>9 DEF JobInv

LEMMA ProceedsInv ==
  ASSUME SubmitInv, Proceeds, AccountInv'
  PROVE  SubmitInv'
<1>1. \A j \in Jobs : JobInv(j)'
  BY ProceedsJobs
<1>2. LockInv' /\ LookupInv'
  BY DEF SubmitInv, Proceeds, accountVars, LockInv, LookupInv
<1>3. QED BY <1>1, <1>2 DEF SubmitInv, Proceeds

LEMMA TickStep ==
  ASSUME SubmitInv, tick
  PROVE  SubmitInv'
<1>1. /\ clock' = clock + 1 /\ clock + 1 =< rpc_ledger + MaxLag
      /\ UNCHANGED <<ledger, chain_seq, txs, pool, rpc_ledger, rpc_seq, holder, seq, known,
                     job, restarts>>
  BY DEF tick, networkVars, rpcVars, accountVars
<1>2. TypeOK /\ NetInv /\ clock \in Nat /\ ledger \in Nat /\ chain_seq \in Nat
  BY Types DEF SubmitInv
<1>3. TypeOK'
  BY <1>1, <1>2 DEF TypeOK
<1>4. \A i \in DOMAIN txs : TxSound(i)'
  <2> SUFFICES ASSUME NEW i \in DOMAIN txs PROVE TxSound(i)'
    OBVIOUS
  <2>1. TxSound(i) /\ txs[i].max_time \in Nat
    BY <1>2, TxTypes DEF NetInv
  <2>2. txs[i].max_time =< clock' + Validity
    BY <1>1, <1>2, <2>1, Constants DEF TxSound
  <2>3. QED BY <1>1, <2>1, <2>2 DEF TxSound, InTime
<1>5. NetInv'
  BY <1>1, <1>2, <1>4 DEF NetInv
<1>6. Proceeds
  BY <1>1, <1>2, <1>3, <1>5 DEF Proceeds, accountVars
<1>7. AccountInv'
  BY <1>1 DEF SubmitInv, AccountInv, Uncut, UnseenHeld, RpcBehind, IncludedLast, NumberKnown,
              Included
<1>8. QED BY <1>6, <1>7, ProceedsInv

LEMMA CloseEmptyStep ==
  ASSUME SubmitInv, close_empty
  PROVE  SubmitInv'
<1>1. /\ ledger' = ledger + 1 /\ pool' \subseteq pool
      /\ UNCHANGED <<clock, chain_seq, txs, rpc_ledger, rpc_seq, holder, seq, known,
                     job, restarts>>
  BY DEF close_empty, rpcVars, accountVars
<1>2. /\ TypeOK /\ NetInv /\ ledger \in Nat /\ chain_seq \in Nat /\ rpc_ledger \in Nat
  BY Types DEF SubmitInv
<1>3. TypeOK'
  BY <1>1, <1>2 DEF TypeOK
<1>4. \A i \in DOMAIN txs : TxSound(i)'
  <2> SUFFICES ASSUME NEW i \in DOMAIN txs PROVE TxSound(i)'
    OBVIOUS
  <2>1. TxSound(i) /\ txs[i].at \in Nat
    BY <1>2, TxTypes DEF NetInv
  <2>2. txs[i].at =< ledger'
    BY <1>1, <1>2, <2>1 DEF TxSound
  <2>3. QED BY <1>1, <2>1, <2>2 DEF TxSound, InTime
<1>5. rpc_ledger =< ledger'
  BY <1>1, <1>2 DEF NetInv
<1>6. NetInv'
  BY <1>1, <1>2, <1>4, <1>5 DEF NetInv
<1>7. Proceeds
  BY <1>1, <1>2, <1>3, <1>6 DEF Proceeds, accountVars
<1>8. AccountInv'
  BY <1>1 DEF SubmitInv, AccountInv, Uncut, UnseenHeld, RpcBehind, IncludedLast, NumberKnown,
              Included
<1>9. QED BY <1>7, <1>8, ProceedsInv

\* Once the RPC is at the network's ledger nothing is unseen.
LEMMA CatchUpStep ==
  ASSUME SubmitInv, catch_up
  PROVE  SubmitInv'
<1>1. /\ rpc_ledger' = ledger /\ rpc_seq' = chain_seq
      /\ UNCHANGED <<clock, ledger, chain_seq, txs, pool, holder, seq, known, job, restarts>>
  BY DEF catch_up, networkVars, accountVars
<1>2. /\ TypeOK /\ NetInv /\ ledger \in Nat /\ chain_seq \in Nat /\ rpc_ledger \in Nat
      /\ clock \in Nat
  BY Types DEF SubmitInv
<1>3. TypeOK'
  BY <1>1, <1>2 DEF TypeOK
<1>4. \A i \in DOMAIN txs : TxSound(i)'
  BY <1>1, <1>2 DEF NetInv, TxSound, InTime
<1>5. clock =< ledger + MaxLag
  BY <1>2, Constants DEF NetInv
<1>6. NetInv'
  BY <1>1, <1>2, <1>4, <1>5 DEF NetInv
<1>7. Proceeds
  BY <1>1, <1>2, <1>3, <1>6 DEF Proceeds, accountVars
<1>8. AccountInv'
  <2>1. \A i \in DOMAIN txs : ~(txs[i].at > ledger)
    <3> SUFFICES ASSUME NEW i \in DOMAIN txs PROVE ~(txs[i].at > ledger)
      OBVIOUS
    <3>1. txs[i].at =< ledger /\ txs[i].at \in Nat
      BY <1>2, TxTypes DEF NetInv, TxSound
    <3>2. QED BY <1>2, <3>1
  <2>2. UnseenHeld' /\ RpcBehind'
    BY <1>1, <2>1 DEF UnseenHeld, RpcBehind
  <2>3. Uncut' => IncludedLast' /\ NumberKnown'
    BY <1>1 DEF SubmitInv, AccountInv, Uncut, IncludedLast, NumberKnown, Included
  <2>4. QED BY <2>2, <2>3 DEF AccountInv
<1>9. QED BY <1>7, <1>8, ProceedsInv

\* What the network includes is, while no job was cut short, the transaction of the
\* job that holds the account.
LEMMA IncludableHeld ==
  ASSUME SubmitInv, Uncut, NEW i \in DOMAIN txs, Includable(i)
  PROVE  /\ txs[i].job \in Jobs /\ holder = txs[i].job
         /\ job[txs[i].job].step \in Sending /\ job[txs[i].job].tx = i
<1> DEFINE j == txs[i].job
<1>1. j \in Jobs
  BY TxTypes DEF SubmitInv
<1>2. i \in Of(j) /\ JobInv(j) /\ job[j].step \in Steps
  BY <1>1, JobTypes DEF SubmitInv, Of
<1> HIDE DEF j
<1>3. ~Spent(i) /\ job[j].result # "cancelled"
  BY <1>1 DEF Spent, Uncut
<1>4. job[j].step \notin Between
  BY <1>2, <1>3 DEF JobInv
<1>5. job[j].step # "done"
  BY <1>2, <1>3 DEF JobInv, Known
<1>6. job[j].step \in Sending
  BY <1>2, <1>4, <1>5 DEF Steps, Sending, Between
<1>7. job[j].tx = i
  BY <1>2, <1>3, <1>6 DEF JobInv
<1>8. holder = j
  BY <1>1, <1>6, ActiveHolds DEF Sending
<1>9. QED BY <1>1, <1>6, <1>7, <1>8 DEF j

LEMMA CloseWithStep ==
  ASSUME SubmitInv, NEW i \in pool, NEW outcome \in {"success", "failed", "conflict"},
         close_with(i, outcome)
  PROVE  SubmitInv'
<1> DEFINE new == [txs[i] EXCEPT !.at = ledger + 1, !.outcome = outcome]
<1>1. /\ Includable(i) /\ ledger' = ledger + 1 /\ chain_seq' = chain_seq + 1
      /\ txs' = [txs EXCEPT ![i].at = ledger + 1, ![i].outcome = outcome]
      /\ pool' = {}
      /\ UNCHANGED <<clock, rpc_ledger, rpc_seq, holder, seq, known, job, restarts>>
  BY DEF close_with, rpcVars, accountVars
<1>2. /\ TypeOK /\ NetInv /\ ledger \in Nat /\ chain_seq \in Nat /\ rpc_ledger \in Nat
      /\ txs \in Seq(Transaction) /\ i \in DOMAIN txs /\ rpc_seq \in Nat
  BY Types DEF SubmitInv
<1>3. txs[i] \in Transaction
  BY <1>2
<1>4. /\ new \in Transaction /\ new.job = txs[i].job /\ new.seq = txs[i].seq
      /\ new.max_time = txs[i].max_time /\ new.max_ledger = txs[i].max_ledger
      /\ new.at = ledger + 1 /\ new.outcome = outcome
  <2>1. ledger + 1 \in Nat
    BY <1>2
  <2>2. QED BY <1>3, <2>1 DEF Transaction
<1>5. txs' = [txs EXCEPT ![i] = new]
  BY <1>1, <1>2
<1> HIDE DEF new
<1>6. /\ txs' \in Seq(Transaction) /\ DOMAIN txs' = DOMAIN txs /\ txs'[i] = new
      /\ \A k \in DOMAIN txs : k # i => txs'[k] = txs[k]
  BY <1>2, <1>4, <1>5
<1>7. TypeOK'
  BY <1>1, <1>2, <1>6 DEF TypeOK
<1>8. ASSUME NEW k \in DOMAIN txs PROVE TxSound(k)'
  <2>1. CASE k = i
    <3>1. InTime(txs[i], ledger + 1) /\ TxSound(i)
      BY <1>1, <1>2 DEF Includable, NetInv
    <3>2. QED BY <1>1, <1>2, <1>4, <1>6, <2>1, <3>1 DEF TxSound, InTime
  <2>2. CASE k # i
    <3>1. TxSound(k) /\ txs[k].at \in Nat /\ txs'[k] = txs[k]
      BY <1>2, <1>6, <2>2, TxTypes DEF NetInv
    <3>2. txs[k].at =< ledger'
      BY <1>1, <1>2, <3>1 DEF TxSound
    <3>3. QED BY <1>1, <3>1, <3>2 DEF TxSound, InTime
  <2>3. QED BY <2>1, <2>2
<1>9. rpc_ledger =< ledger' /\ rpc_seq =< chain_seq'
  BY <1>1, <1>2 DEF NetInv
<1>10. NetInv'
  BY <1>1, <1>2, <1>6, <1>8, <1>9 DEF NetInv
<1>11. Proceeds
  <2>1. ledger =< ledger' /\ chain_seq =< chain_seq'
    BY <1>1, <1>2
  <2>2. QED BY <1>1, <1>4, <1>6, <1>7, <1>10, <2>1 DEF Proceeds, accountVars
<1>12. AccountInv'
  <2> SUFFICES ASSUME Uncut' PROVE (UnseenHeld /\ RpcBehind /\ IncludedLast /\ NumberKnown)'
    BY DEF AccountInv
  <2>1. Uncut
    BY <1>1 DEF Uncut
  <2>2. PICK j \in Jobs :
          j = txs[i].job /\ holder = j /\ job[j].step \in Sending /\ job[j].tx = i
    BY <1>1, <1>2, <2>1, IncludableHeld
  <2>3. \A k \in Jobs : job[k].step \in Sending => k = j
    BY <2>2, ActiveHolds DEF Sending
  <2>4. txs'[i].job = j /\ txs'[i].at > rpc_ledger /\ txs'[i].at # 0
    BY <1>1, <1>2, <1>4, <1>6, <2>2 DEF NetInv
  <2>5. UnseenHeld'
    <3> SUFFICES ASSUME NEW k \in DOMAIN txs, txs'[k].at > rpc_ledger
                 PROVE  job[txs'[k].job].step \in Sending /\ job[txs'[k].job].tx = k
      BY <1>1, <1>6 DEF UnseenHeld
    <3>1. CASE k = i
      BY <2>2, <2>4, <3>1
    <3>2. CASE k # i
      BY <1>6, <2>1, <3>2 DEF SubmitInv, AccountInv, UnseenHeld
    <3>3. QED BY <3>1, <3>2
  <2>6. RpcBehind'
    BY <1>1, <1>2, <1>6, <2>4 DEF RpcBehind
  <2>7. chain_seq' = txs'[i].seq
    BY <1>1, <1>4, <1>6 DEF Includable
  <2>8. IncludedLast'
    BY <1>1, <2>2, <2>3, <2>7 DEF IncludedLast, Included
  <2>9. Included(j)'
    BY <1>1, <2>2, <2>4 DEF Included
  <2>10. NumberKnown'
    BY <2>2, <2>9 DEF NumberKnown
  <2>11. QED BY <2>5, <2>6, <2>8, <2>10
<1>13. QED BY <1>11, <1>12, ProceedsInv

\* A restart keeps what is recorded, with the margin that Lookup needs, and lets go
\* of the rest without a result.
LEMMA RestartStep ==
  ASSUME SubmitInv, restart
  PROVE  SubmitInv'
<1> DEFINE until  == clock + Validity + LookupMargin
           gone   == NewJob("done", 1, "cancelled")
           kept(j) == [job[j] EXCEPT !.step = "lookup", !.deadline = until]
<1>1. PICK recorded \in SUBSET {j \in Relays : job[j].step \in {"track", "lookup"}} :
        /\ job' = [j \in Jobs |-> IF j \in recorded THEN kept(j)
                                  ELSE IF job[j].step \in {"idle", "done"} THEN job[j]
                                  ELSE gone]
        /\ holder' = IF holder \in recorded THEN holder ELSE Free
  BY DEF restart
<1>2. /\ restarts' = restarts + 1 /\ known' = FALSE
      /\ UNCHANGED <<clock, ledger, chain_seq, txs, pool, rpc_ledger, rpc_seq, seq>>
  BY DEF restart, networkVars, rpcVars
<1>3. /\ TypeOK /\ NetInv /\ (\A j \in Jobs : JobInv(j)) /\ LockInv
      /\ clock \in Nat /\ restarts \in Nat /\ job \in [Jobs -> Job]
      /\ holder \in Jobs \cup {Free} /\ \A j \in Jobs : job[j].attempt =< Attempts
  BY Types DEF SubmitInv
<1>4. /\ gone \in Job /\ gone.step = "done" /\ gone.attempt = 1 /\ gone.result = "cancelled"
  <2>1. "done" \in Steps /\ 1 \in Nat /\ "cancelled" \in Results
    BY DEF Steps, Results
  <2>2. QED BY <2>1, NewJobType
<1>5. until \in Nat /\ Validity \in Nat /\ LookupMargin \in Nat /\ 1 =< Attempts
  BY <1>3, Constants
<1> HIDE DEF gone
<1>6. ASSUME NEW j \in Jobs
      PROVE  /\ kept(j) \in Job /\ kept(j).step = "lookup" /\ kept(j).tx = job[j].tx
             /\ kept(j).attempt = job[j].attempt /\ kept(j).result = job[j].result
             /\ kept(j).deadline = until
  <2>1. job[j] \in Job /\ "lookup" \in Steps
    BY <1>3 DEF Steps
  <2> HIDE DEF until
  <2>2. QED BY <1>5, <2>1 DEF Job
<1> HIDE DEF until, kept
<1>7. ASSUME NEW j \in Jobs
      PROVE  \/ j \in recorded /\ job'[j] = kept(j)
             \/ j \notin recorded /\ job[j].step \in {"idle", "done"} /\ job'[j] = job[j]
             \/ j \notin recorded /\ job'[j] = gone
  BY <1>1
<1>8. ASSUME NEW j \in recorded PROVE j \in Jobs /\ job[j].step \in {"track", "lookup"}
  BY DEF Jobs
<1>9. TypeOK'
  <2>1. job' \in [Jobs -> Job]
    BY <1>1, <1>3, <1>4, <1>6
  <2>2. \A j \in Jobs : job'[j].attempt =< Attempts
    BY <1>3, <1>4, <1>5, <1>6, <1>7
  <2>3. holder' \in Jobs \cup {Free}
    BY <1>1, <1>3
  <2>4. restarts' \in Nat
    BY <1>2, <1>3
  <2>5. QED BY <1>2, <1>3, <2>1, <2>2, <2>3, <2>4 DEF TypeOK
<1>10. NetInv'
  <2>1. \A i \in DOMAIN txs : TxSound(i)'
    BY <1>2, <1>3 DEF NetInv, TxSound, InTime
  <2>2. QED BY <1>2, <1>3, <2>1 DEF NetInv
<1>11. ASSUME NEW j \in Jobs PROVE JobInv(j)'
  <2>1. JobInv(j) /\ Of(j)' = Of(j) /\ Succeeded(j)' = Succeeded(j) /\ pool' = pool /\ txs' = txs
    BY <1>2, <1>3 DEF Of, Succeeded
  <2>2. \A i : (Includable(i)' <=> Includable(i)) /\ (Spent(i)' <=> Spent(i))
    BY <1>2 DEF Includable, InTime, Spent
  <2>3. CASE j \in recorded /\ job'[j] = kept(j)
    <3>1. job[j].step \in Sending /\ job[j].result = "none"
      BY <1>8, <2>1, <2>3 DEF Sending, JobInv
    <3>2. job[j].tx \in Of(j) /\ \A i \in Of(j) : i # job[j].tx => Spent(i)
      BY <2>1, <3>1 DEF JobInv
    <3>3. txs[job[j].tx].max_time + LookupMargin =< until
      <4>1. txs[job[j].tx].max_time \in Nat /\ txs[job[j].tx].max_time =< clock + Validity
        BY <1>3, <3>2, TxTypes DEF NetInv, TxSound, Of
      <4>2. QED BY <1>3, <1>5, <4>1 DEF until
    <3>4. QED BY <1>6, <2>1, <2>2, <2>3, <3>1, <3>2, <3>3 DEF JobInv, Between
  <2>4. CASE job[j].step \in {"idle", "done"} /\ job'[j] = job[j]
    <3>1. Known(j)' <=> Known(j)
      BY <2>1, <2>2, <2>4 DEF Known
    <3>2. QED BY <2>1, <2>2, <2>4, <3>1 DEF JobInv, Sending
  <2>5. CASE job'[j] = gone
    BY <1>4, <2>5 DEF JobInv, Between, Sending
  <2>6. QED BY <1>7, <2>3, <2>4, <2>5
<1>12. LockInv'
  <2> SUFFICES ASSUME NEW j \in Jobs
               PROVE  job'[j].step \notin {"idle", "done"} <=> holder' = j
    BY DEF LockInv
  <2>1. Free # j
    BY Constants
  <2>2. CASE j \in recorded
    <3>1. holder = j
      BY <1>3, <1>8, <2>2 DEF LockInv
    <3>2. job'[j].step = "lookup"
      BY <1>6, <1>7, <2>2
    <3>3. QED BY <1>1, <2>2, <3>1, <3>2
  <2>3. CASE j \notin recorded
    <3>1. job'[j].step \in {"idle", "done"}
      BY <1>4, <1>7, <2>3
    <3>2. QED BY <1>1, <2>1, <2>3, <3>1
  <2>4. QED BY <2>2, <2>3
<1>13. LookupInv' /\ AccountInv'
  <2>1. restarts' # 0
    BY <1>2, <1>3
  <2>2. QED BY <2>1 DEF LookupInv, AccountInv, Uncut
<1>14. QED BY <1>9, <1>10, <1>11, <1>12, <1>13 DEF SubmitInv

----------------------------------------------------------------------------
LEMMA InitInv == Init => SubmitInv
<1> SUFFICES ASSUME NEW time \in Nat, Started(time) PROVE SubmitInv
  BY DEF Init
<1> DEFINE new == NewJob("idle", 1, "none")
<1>1. /\ new \in Job /\ new.step = "idle" /\ new.attempt = 1 /\ new.result = "none"
  <2>1. "idle" \in Steps /\ 1 \in Nat /\ "none" \in Results
    BY DEF Steps, Results
  <2>2. QED BY <2>1, NewJobType
<1> HIDE DEF new
<1>2. /\ clock = time /\ ledger = time /\ chain_seq = 0 /\ rpc_ledger = time /\ rpc_seq = 0
      /\ txs = <<>> /\ pool = {} /\ holder = Free /\ seq = 0 /\ known = FALSE
      /\ job = [j \in Jobs |-> new] /\ restarts = 0
  BY DEF Started, new
<1>3. TypeOK
  <2>1. 1 =< Attempts
    BY Constants
  <2>2. job \in [Jobs -> Job] /\ \A j \in Jobs : job[j].attempt =< Attempts
    BY <1>1, <1>2, <2>1
  <2>3. txs \in Seq(Transaction) /\ pool \subseteq DOMAIN txs
    BY <1>2
  <2>4. /\ clock \in Nat /\ ledger \in Nat /\ chain_seq \in Nat /\ rpc_ledger \in Nat
        /\ rpc_seq \in Nat /\ seq \in Nat /\ restarts \in Nat
    BY <1>2
  <2>5. holder \in Jobs \cup {Free} /\ known \in BOOLEAN
    BY <1>2
  <2>6. QED BY <2>2, <2>3, <2>4, <2>5 DEF TypeOK
<1>4. DOMAIN txs = {}
  BY <1>2
<1>5. NetInv
  BY <1>2, <1>4, Constants DEF NetInv
<1>6. \A j \in Jobs : JobInv(j)
  BY <1>1, <1>2, <1>4 DEF JobInv, Of, Sending
<1>7. LockInv /\ LookupInv
  BY <1>1, <1>2, Constants DEF LockInv, LookupInv
<1>8. AccountInv
  BY <1>1, <1>2, <1>4 DEF AccountInv, UnseenHeld, RpcBehind, IncludedLast, NumberKnown,
                          Included, Sending
<1>9. QED BY <1>3, <1>5, <1>6, <1>7, <1>8 DEF SubmitInv

LEMMA NextInv == SubmitInv /\ [Next]_vars => SubmitInv'
<1> SUFFICES ASSUME SubmitInv, [Next]_vars PROVE SubmitInv'
  OBVIOUS
<1>1. CASE tick
  BY <1>1, TickStep
<1>2. CASE Close
  BY <1>2, CloseEmptyStep, CloseWithStep DEF Close
<1>3. CASE catch_up
  BY <1>3, CatchUpStep
<1>4. ASSUME NEW j \in Jobs, lock(j) \/ prepare_unanswered(j) \/ Step(j)
      PROVE  SubmitInv'
  <2>1. CASE lock(j) \/ prepare_unanswered(j)
    BY <2>1, LockStep, PrepareFails
  <2>2. CASE loadSequence(j) \/ prepare_refused(j) \/ again(j)
    BY <2>2, LoadStep, PrepareFails, AgainStep
  <2>3. CASE \E bound \in Bounds : PrepareUntil(j, bound)
    BY <2>3, PrepareStep
  <2>4. CASE send_accepted(j) \/ send_refused(j) \/ send_unanswered(j) \/ send_later(j)
    BY <2>4, AcceptedStep, RefusedStep, UnansweredStep, LaterStep
  <2>5. CASE send_expired(j) \/ send_again(j) \/ send_timeout(j)
    BY <2>5, RefusedStep, SendAgainStep, TimeoutStep
  <2>6. CASE resolve(j) \/ track(j) \/ Lookup(j)
    BY <2>6, ResolveStep, TrackStep, LookupStep
  <2>7. QED BY <1>4, <2>1, <2>2, <2>3, <2>4, <2>5, <2>6 DEF Step
<1>5. CASE restart
  BY <1>5, RestartStep
<1>6. CASE UNCHANGED vars
  BY <1>6 DEF vars, networkVars, rpcVars, accountVars, SubmitInv, TypeOK, NetInv, TxSound, InTime,
              JobInv, Spent, Includable, Known, Of, Succeeded, LockInv, LookupInv, AccountInv,
              Uncut, UnseenHeld, RpcBehind, IncludedLast, NumberKnown, Included
<1>7. QED BY <1>1, <1>2, <1>3, <1>4, <1>5, <1>6 DEF Next

\* The inductive invariant holds of every behaviour of the jobs, the RPC and the
\* network: a job holds the account as long as a transaction of its own may be
\* included, and every other one of its transactions is spent.
THEOREM SubmitInvHolds == Spec => []SubmitInv
BY InitInv, NextInv, PTL DEF Spec

\* A result is reported only once the outcome on chain is known (Do, Track and
\* Lookup): a success when exactly one of the job's transactions succeeded,
\* anything else when none did and none can be included any more, through every
\* lost answer, retry, lag of the RPC and restart.
THEOREM OutcomeAlwaysKnown == Spec => []OutcomeKnown
<1>1. SubmitInv => OutcomeKnown
  BY DEF SubmitInv, JobInv, Known, OutcomeKnown
<1>2. QED BY <1>1, SubmitInvHolds, PTL

\* One account is safe to share (Account.mu, Account.seq): while no job is cut
\* short there is one transaction in flight, whose job holds the account until it
\* is final, and every transaction is built on the account's number of the moment.
THEOREM AccountAlwaysKept == Spec => []AccountKept
<1>1. ASSUME SubmitInv PROVE LockedUntilFinal
  <2> SUFFICES ASSUME Uncut, NEW i \in pool, Includable(i) PROVE holder = txs[i].job
    BY DEF LockedUntilFinal
  <2>1. i \in DOMAIN txs
    BY <1>1, Types DEF SubmitInv
  <2>2. QED BY <1>1, <2>1, IncludableHeld
<1>2. ASSUME SubmitInv PROVE SequenceCurrent
  <2> SUFFICES ASSUME Uncut, NEW j \in Jobs, job[j].step = "prepare", known
               PROVE  seq = chain_seq
    BY DEF SequenceCurrent
  <2>1. holder = j
    BY <1>2, ActiveHolds
  <2>2. \A k \in Jobs : ~Included(k)
    <3> SUFFICES ASSUME NEW k \in Jobs, job[k].step \in Sending PROVE FALSE
      BY DEF Included
    <3>1. holder = k
      BY <1>2, ActiveHolds DEF Sending
    <3>2. QED BY <2>1, <3>1 DEF Sending
  <2>3. QED BY <1>2, <2>2 DEF SubmitInv, AccountInv, NumberKnown
<1>3. SubmitInv => AccountKept
  BY <1>1, <1>2 DEF SubmitInv, AccountKept
<1>4. QED BY <1>3, SubmitInvHolds, PTL

============================================================================
