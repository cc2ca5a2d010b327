------------------------------- MODULE Submit ------------------------------
(***************************************************************************)
(* How the services send transactions (services/internal/submit): one      *)
(* source account, whose lock a job holds from simulation to outcome, an   *)
(* RPC that may lag behind the network, lose an answer or refuse, and a    *)
(* network that includes an accepted transaction at any time before its    *)
(* bounds pass, or never.                                                  *)
(*                                                                         *)
(* Time is counted in ledgers: ledger n closes at time n.  clock is the    *)
(* service's own clock, which the network need not follow.                 *)
(***************************************************************************)
EXTENDS Integers, Sequences

CONSTANTS
  Calls,        \* jobs that run a call with Do, from simulation to outcome
  Relays,       \* jobs of the relayer: one attempt, recorded once it is sent
  Attempts,     \* attempts of a call
  Validity,     \* Engine.Validity: how long a transaction may wait
  LookupMargin, \* what Lookup waits beyond Validity: a minute
  MaxLag,       \* how far the RPC's ledger may be behind the clock
  MaxAhead,     \* how far the network may be ahead of the clock
  Bounds,       \* ledgers after the RPC's at which a transaction may stop being valid
  SendWait,     \* sendWait: how long the relayer's send may take in all
  MaxTime, MaxRestarts   \* bounds

VARIABLES
  clock, ledger, chain_seq,      \* the service's clock; the network
  rpc_ledger, rpc_seq,           \* the network as the RPC last saw it
  txs,          \* every transaction signed, with what became of it
  pool,         \* the transactions the network holds and may include
  holder,       \* the job that holds Account.mu
  seq, known,   \* Account.seq, Account.known
  job,          \* what each job does
  restarts

networkVars == <<ledger, chain_seq, txs, pool>>
rpcVars     == <<rpc_ledger, rpc_seq>>
accountVars == <<holder, seq, known>>
vars == <<clock, networkVars, rpcVars, accountVars, job, restarts>>

Jobs == Calls \cup Relays
Free == "free"

ASSUME SubmitAssumptions ==
  /\ Free \notin Jobs
  /\ {Attempts, Validity, SendWait} \subseteq Nat \ {0}
  /\ {LookupMargin, MaxLag, MaxAhead, MaxTime, MaxRestarts} \subseteq Nat
  /\ Bounds \subseteq Nat

\* What the margin of Lookup is for: it gives a transaction up by its own clock,
\* and is right while the RPC is no further behind than that.
ASSUME LagWithinMargin == MaxLag =< LookupMargin + 1

Later(a, b)   == IF a >= b THEN a ELSE b
Earlier(a, b) == IF a =< b THEN a ELSE b

\* A transaction: its sequence number, the last time and the first ledger
\* (0 for none) that bound its inclusion, the ledger that included it (0 for
\* none yet) and how it ended there.
Transaction == [job : Jobs, seq : Nat \ {0}, max_time : Nat, max_ledger : Nat,
                at : Nat, outcome : {"none", "success", "failed", "conflict"}]

\* A job: the step it is at, its transaction, whether an earlier send may have
\* reached the network unanswered, the latest close time and ledger it knows,
\* its attempt, the time at which its context ends or Lookup gives up, and its
\* result.
Steps   == {"idle", "prepare", "send", "wait", "resolve", "track", "backoff",
            "lookup", "done"}
Results == {"none", "success", "failed", "expired", "refused", "error", "cancelled"}
Job == [step : Steps, tx : Nat, ambiguous : BOOLEAN, closed : Nat, seen : Nat,
        attempt : Nat, deadline : Nat, result : Results]

NewJob(step, attempt, result) ==
  [step |-> step, tx |-> 0, ambiguous |-> FALSE, closed |-> 0, seen |-> 0,
   attempt |-> attempt, deadline |-> 0, result |-> result]

Started(time) ==
  /\ clock = time /\ ledger = time /\ chain_seq = 0
  /\ rpc_ledger = time /\ rpc_seq = 0
  /\ txs = <<>> /\ pool = {}
  /\ holder = Free /\ seq = 0 /\ known = FALSE
  /\ job = [j \in Jobs |-> NewJob("idle", 1, "none")]
  /\ restarts = 0

----------------------------------------------------------------------------
\* The network and the RPC

\* Whether the network may include a transaction in a ledger.
InTime(t, l) == l =< t.max_time /\ (t.max_ledger # 0 => l < t.max_ledger)

\* Whether a transaction that the network holds may still be included.
Includable(i) ==
  i \in pool /\ txs[i].at = 0 /\ txs[i].seq = chain_seq + 1 /\ InTime(txs[i], ledger + 1)

tick ==
  /\ clock < MaxTime
  /\ clock + 1 =< rpc_ledger + MaxLag
  /\ clock' = clock + 1
  /\ UNCHANGED <<networkVars, rpcVars, accountVars, job, restarts>>

\* A ledger closes without the account's transaction, or with it.
close_empty ==
  /\ ledger < Earlier(MaxTime, clock + MaxAhead)
  /\ ledger' = ledger + 1
  /\ pool' = {i \in pool : InTime(txs[i], ledger + 2)}
  /\ UNCHANGED <<clock, chain_seq, txs, rpcVars, accountVars, job, restarts>>

close_with(i, outcome) ==
  /\ ledger < Earlier(MaxTime, clock + MaxAhead)
  /\ Includable(i)
  /\ ledger' = ledger + 1
  /\ chain_seq' = chain_seq + 1
  /\ txs' = [txs EXCEPT ![i].at = ledger + 1, ![i].outcome = outcome]
  /\ pool' = {}
  /\ UNCHANGED <<clock, rpcVars, accountVars, job, restarts>>

\* The RPC catches up with the network.
catch_up ==
  /\ rpc_ledger # ledger
  /\ rpc_ledger' = ledger
  /\ rpc_seq' = chain_seq
  /\ UNCHANGED <<clock, networkVars, accountVars, job, restarts>>

\* getTransaction: the RPC knows the transaction's outcome.
Found(i) == txs[i].at # 0 /\ txs[i].at =< rpc_ledger

\* pastLedger, or the time bound: the ledgers known end past the bounds.
past(i, closed, seen) ==
  \/ closed > txs[i].max_time
  \/ txs[i].max_ledger # 0 /\ seen >= txs[i].max_ledger

\* The RPC does not know the transaction and its ledgers end past its bounds.
Lapsed(i) == ~Found(i) /\ past(i, rpc_ledger, rpc_ledger)

----------------------------------------------------------------------------
\* DoExtended and PrepareUntil

\* The context of a call ends with the service, that of a relay with sendWait.
Cancelled(j) == j \in Relays /\ clock >= job[j].deadline

\* The job ends and unlocks the account.
End(j, result) ==
  /\ job' = [job EXCEPT ![j] = NewJob("done", 1, result)]
  /\ holder' = Free

\* The attempt failed with an error that does not end a call.
Fail(j, error) ==
  IF j \in Relays THEN End(j, error)
  ELSE job' = [job EXCEPT ![j] = NewJob("backoff", @.attempt, "none")] /\ holder' = holder

lock(j) ==
  /\ job[j].step = "idle"
  /\ holder = Free
  /\ holder' = j
  /\ job' = [job EXCEPT ![j].step = "prepare", ![j].deadline = clock + SendWait]
  /\ UNCHANGED <<clock, networkVars, rpcVars, seq, known, restarts>>

loadSequence(j) ==
  /\ job[j].step = "prepare"
  /\ ~known
  /\ seq' = rpc_seq
  /\ known' = TRUE
  /\ UNCHANGED <<clock, networkVars, rpcVars, holder, job, restarts>>

\* The RPC does not answer a read or the simulation.
prepare_unanswered(j) ==
  /\ job[j].step = "prepare"
  /\ Fail(j, "error")
  /\ UNCHANGED <<clock, networkVars, rpcVars, seq, known, restarts>>

\* ErrSimulation, its fee cap and restore included, or ErrNotWorth.
prepare_refused(j) ==
  /\ job[j].step = "prepare"
  /\ known
  /\ End(j, "refused")
  /\ UNCHANGED <<clock, networkVars, rpcVars, seq, known, restarts>>

\* The simulation passes; the transaction is signed and about to be sent.  The
\* reads and the simulation are one step: time that passes during them only
\* shortens the validity, as a smaller Validity does.
PrepareUntil(j, bound) ==
  /\ job[j].step = "prepare"
  /\ known
  /\ ~Cancelled(j)
  /\ clock + Validity < MaxTime
  /\ txs' = Append(txs, [job |-> j, seq |-> seq + 1, max_time |-> clock + Validity,
                         max_ledger |-> IF bound = 0 THEN 0 ELSE rpc_ledger + bound,
                         at |-> 0, outcome |-> "none"])
  /\ job' = [job EXCEPT ![j].step = "send", ![j].tx = Len(txs) + 1,
               ![j].ambiguous = FALSE, ![j].closed = clock, ![j].seen = 0]
  /\ UNCHANGED <<clock, ledger, chain_seq, pool, rpcVars, accountVars, restarts>>

\* Variant with a fault: one attempt too many.
again_off_by_one(j) ==
  /\ job[j].step = "backoff"
  /\ IF job[j].attempt =< Attempts
     THEN job' = [job EXCEPT ![j].step = "prepare", ![j].attempt = @ + 1] /\ holder' = holder
     ELSE End(j, "error")
  /\ UNCHANGED <<clock, networkVars, rpcVars, seq, known, restarts>>

\* The next attempt, or the end with the last error.
again(j) ==
  /\ job[j].step = "backoff"
  /\ IF job[j].attempt < Attempts
     THEN job' = [job EXCEPT ![j].step = "prepare", ![j].attempt = @ + 1] /\ holder' = holder
     ELSE End(j, "error")
  /\ UNCHANGED <<clock, networkVars, rpcVars, seq, known, restarts>>

----------------------------------------------------------------------------
\* Send

\* The network as the RPC's node knows it refuses the transaction.
Invalid(i) == txs[i].seq # rpc_seq + 1 \/ ~InTime(txs[i], rpc_ledger + 1)

\* The network takes it: one transaction of an account is held at a time.
Accepts(i) == ~Invalid(i) /\ pool \subseteq {i}

\* Variant with a fault: unlocks the account once the network holds the transaction.
send_accepted_unlocks(j) ==
  /\ job[j].step = "send"
  /\ ~Cancelled(j)
  /\ Accepts(job[j].tx)
  /\ pool' = pool \cup {job[j].tx}
  /\ job' = [job EXCEPT ![j].step = "track"]
  /\ holder' = Free
  /\ UNCHANGED <<clock, ledger, chain_seq, txs, rpcVars, seq, known, restarts>>

\* PENDING, or DUPLICATE for one that it holds already.
send_accepted(j) ==
  /\ job[j].step = "send"
  /\ ~Cancelled(j)
  /\ Accepts(job[j].tx)
  /\ pool' = pool \cup {job[j].tx}
  /\ job' = [job EXCEPT ![j].step = "track"]
  /\ UNCHANGED <<clock, ledger, chain_seq, txs, rpcVars, accountVars, restarts>>

\* Variant with a fault: believes a refusal of a copy sent again.
send_refused_believed(j) ==
  /\ job[j].step = "send"
  /\ ~Cancelled(j)
  /\ Invalid(job[j].tx)
  /\ Fail(j, "error")
  /\ known' = FALSE
  /\ UNCHANGED <<clock, networkVars, rpcVars, seq, restarts>>

\* ERROR: a refusal of the first copy, or of one sent again, which is checked.
send_refused(j) ==
  /\ job[j].step = "send"
  /\ ~Cancelled(j)
  /\ Invalid(job[j].tx)
  /\ IF job[j].ambiguous
     THEN job' = [job EXCEPT ![j].step = "resolve"] /\ UNCHANGED <<holder, known>>
     ELSE Fail(j, "error") /\ known' = FALSE
  /\ UNCHANGED <<clock, networkVars, rpcVars, seq, restarts>>

\* The answer is lost, after the network took the transaction or before.
send_unanswered(j) ==
  /\ job[j].step = "send"
  /\ pool' \in {pool} \cup (IF Accepts(job[j].tx) THEN {pool \cup {job[j].tx}} ELSE {})
  /\ job' = [job EXCEPT ![j].step = "wait", ![j].ambiguous = TRUE]
  /\ UNCHANGED <<clock, ledger, chain_seq, txs, rpcVars, accountVars, restarts>>

\* TRY_AGAIN_LATER, which carries the RPC's latest ledger.
send_later(j) ==
  /\ job[j].step = "send"
  /\ ~Cancelled(j)
  /\ job' = [job EXCEPT ![j].step = "wait", ![j].closed = Later(@, rpc_ledger),
               ![j].seen = Later(@, rpc_ledger)]
  /\ UNCHANGED <<clock, networkVars, rpcVars, accountVars, restarts>>

\* The bounds have passed before the network answered that it holds it.
send_expired(j) ==
  /\ job[j].step = "wait"
  /\ past(job[j].tx, job[j].closed, job[j].seen)
  /\ IF job[j].ambiguous
     THEN job' = [job EXCEPT ![j].step = "resolve"] /\ UNCHANGED <<holder, known>>
     ELSE Fail(j, "error") /\ known' = FALSE
  /\ UNCHANGED <<clock, networkVars, rpcVars, seq, restarts>>

\* The same envelope is sent again after a back-off.
send_again(j) ==
  /\ job[j].step = "wait"
  /\ ~past(job[j].tx, job[j].closed, job[j].seen)
  /\ ~Cancelled(j)
  /\ job' = [job EXCEPT ![j].step = "send", ![j].closed = Later(@, clock)]
  /\ UNCHANGED <<clock, networkVars, rpcVars, accountVars, restarts>>

\* The context of a relayer's send ends while it waits.
send_timeout(j) ==
  /\ Cancelled(j)
  /\ job[j].step \in {"wait", "resolve"}
  /\ End(j, "cancelled")
  /\ known' = FALSE
  /\ UNCHANGED <<clock, networkVars, rpcVars, seq, restarts>>

\* What became of a transaction that may have been taken unanswered.
resolve(j) ==
  /\ job[j].step = "resolve"
  /\ \/ /\ Found(job[j].tx)
        /\ job' = [job EXCEPT ![j].step = "track"]
        /\ UNCHANGED <<holder, known>>
     \/ /\ Lapsed(job[j].tx)
        /\ Fail(j, "error")
        /\ known' = FALSE
  /\ UNCHANGED <<clock, networkVars, rpcVars, seq, restarts>>

----------------------------------------------------------------------------
\* Track and Lookup

\* Do sends a call that failed for a conflict again; a relay ends.
Report(j, outcome) ==
  IF outcome = "conflict" THEN Fail(j, "failed") ELSE End(j, outcome)

\* Variant with a fault: the sequence number that was used is not noted.
track_keeps_sequence(j) ==
  /\ job[j].step = "track"
  /\ \/ /\ Found(job[j].tx)
        /\ known' = TRUE
        /\ seq' = seq
        /\ Report(j, txs[job[j].tx].outcome)
     \/ /\ Lapsed(job[j].tx)
        /\ known' = FALSE
        /\ seq' = seq
        /\ Fail(j, "expired")
  /\ UNCHANGED <<clock, networkVars, rpcVars, restarts>>

\* Variant with a fault: waits for an outcome that may never come.
track_forever(j) ==
  /\ job[j].step = "track"
  /\ Found(job[j].tx)
  /\ seq' = txs[job[j].tx].seq
  /\ known' = TRUE
  /\ Report(j, txs[job[j].tx].outcome)
  /\ UNCHANGED <<clock, networkVars, rpcVars, restarts>>

track(j) ==
  /\ job[j].step = "track"
  /\ \/ /\ Found(job[j].tx)
        /\ seq' = txs[job[j].tx].seq
        /\ known' = TRUE
        /\ Report(j, txs[job[j].tx].outcome)
     \/ /\ Lapsed(job[j].tx)
        /\ known' = FALSE
        /\ seq' = seq
        /\ Fail(j, "expired")
  /\ UNCHANGED <<clock, networkVars, rpcVars, restarts>>

\* The process ends at any moment and starts again: jobs under way are lost,
\* except that the relayer follows the relay it has a record of, on its channel.
restart ==
  /\ restarts < MaxRestarts
  /\ clock + Validity + LookupMargin < MaxTime
  /\ restarts' = restarts + 1
  /\ \E recorded \in SUBSET {j \in Relays : job[j].step \in {"track", "lookup"}} :
       /\ job' = [j \in Jobs |->
                    IF j \in recorded
                    THEN [job[j] EXCEPT !.step = "lookup",
                                        !.deadline = clock + Validity + LookupMargin]
                    ELSE IF job[j].step \in {"idle", "done"} THEN job[j]
                    ELSE NewJob("done", 1, "cancelled")]
       /\ holder' = IF holder \in recorded THEN holder ELSE Free
  /\ known' = FALSE
  /\ UNCHANGED <<clock, networkVars, rpcVars, seq>>

\* Variant with a fault: gives up as soon as the time bound may have passed.
Lookup_without_margin(j) ==
  /\ job[j].step = "lookup"
  /\ \/ /\ Found(job[j].tx)
        /\ Report(j, txs[job[j].tx].outcome)
     \/ /\ ~Found(job[j].tx)
        /\ clock > job[j].deadline - LookupMargin
        /\ End(j, "expired")
  /\ UNCHANGED <<clock, networkVars, rpcVars, seq, known, restarts>>

\* Lookup gives a transaction up by the clock alone.
Lookup(j) ==
  /\ job[j].step = "lookup"
  /\ \/ /\ Found(job[j].tx)
        /\ Report(j, txs[job[j].tx].outcome)
     \/ /\ ~Found(job[j].tx)
        /\ clock > job[j].deadline
        /\ End(j, "expired")
  /\ UNCHANGED <<clock, networkVars, rpcVars, seq, known, restarts>>

----------------------------------------------------------------------------
\* A step of a job that needs no luck: it is taken, one way or another, as long
\* as the RPC answers now and then.
Step(j) ==
  \/ loadSequence(j)
  \/ prepare_refused(j)
  \/ \E bound \in Bounds : PrepareUntil(j, bound)
  \/ again(j)
  \/ send_accepted(j) \/ send_refused(j) \/ send_unanswered(j) \/ send_later(j)
  \/ send_expired(j) \/ send_again(j) \/ send_timeout(j)
  \/ resolve(j)
  \/ track(j)
  \/ Lookup(j)

Close ==
  \/ close_empty
  \/ \E i \in pool, outcome \in {"success", "failed", "conflict"} : close_with(i, outcome)

Next ==
  \/ tick \/ Close \/ catch_up
  \/ \E j \in Jobs : lock(j) \/ prepare_unanswered(j) \/ Step(j)
  \/ restart

\* A service starts at any time, with an account that sent nothing yet.
Init == \E time \in Nat : Started(time)

Spec == Init /\ [][Next]_vars

----------------------------------------------------------------------------
\* The types of the variables; a call makes at most Attempts attempts.
TypeOK ==
  /\ {clock, ledger, chain_seq, rpc_ledger, rpc_seq, seq, restarts} \subseteq Nat
  /\ txs \in Seq(Transaction)
  /\ pool \subseteq DOMAIN txs
  /\ holder \in Jobs \cup {Free}
  /\ known \in BOOLEAN
  /\ job \in [Jobs -> Job]
  /\ \A j \in Jobs : job[j].attempt =< Attempts

Of(j) == {i \in DOMAIN txs : txs[i].job = j}
Succeeded(j) == {i \in Of(j) : txs[i].outcome = "success"}

\* A result is reported only once the outcome on chain is known: success when
\* exactly one of the job's transactions succeeded, anything else when none did
\* and none that the network holds can any more.  So no retry applies a call
\* twice, and none is reported lost that is applied later.
OutcomeKnown ==
  \A j \in Jobs : job[j].step = "done" /\ job[j].result # "cancelled" =>
    /\ \A i \in Of(j) : ~Includable(i)
    /\ IF job[j].result = "success"
       THEN \E i \in Of(j) : Succeeded(j) = {i}
       ELSE Succeeded(j) = {}

\* No job was cut short, by a restart or by the end of a relayer's send: one
\* that is leaves a transaction behind that nobody holds the account for.
Uncut == restarts = 0 /\ \A j \in Jobs : job[j].result # "cancelled"

\* The account stays locked by the transaction's job until the transaction is
\* final, so there is one in flight per account, while no job is cut short.
LockedUntilFinal == Uncut => \A i \in pool : Includable(i) => holder = txs[i].job

\* A transaction is built on the account's sequence number of the moment, so
\* none is doomed from the start, however far behind the RPC is, while no job is
\* cut short.
SequenceCurrent ==
  Uncut => \A j \in Jobs : job[j].step = "prepare" /\ known => seq = chain_seq

\* What makes one account safe to share, while no job is cut short: one
\* transaction in flight, which keeps the account until it is final, every
\* transaction built on the account's current number, and no more attempts than
\* Attempts.
AccountKept == TypeOK /\ LockedUntilFinal /\ SequenceCurrent

==================================================
