------------------------------- MODULE Keeper ------------------------------
(***************************************************************************)
(* The keeper's jobs on the vault's queues (services/internal/keeper):     *)
(* admission and refund of deposits, release of exits and claims of        *)
(* stranded ones, over the vault of module Vault.                          *)
(*                                                                         *)
(* A job reads the chain in one step and sends its transactions in later   *)
(* ones; between them anyone may call the vault.  A transaction is         *)
(* simulated and lands in one step: a simulation that fails sends nothing. *)
(***************************************************************************)
EXTENDS Vault

CONSTANTS
  MaxAdmissions,     \* deposits one admit call carries
  MaxReleases,       \* exits one release call handles
  BatchFits,         \* calls that fit a transaction, whatever the batch asked for
  HoldReasons,       \* flag reasons the keeper never refunds
  claimRetry, claimRestMax,
  StartDeposits, StartExits, \* how many of each the keeper finds queued
  ServeDays,         \* days after which the queues are settled
  Quiet,             \* bound: others act and transactions are lost until then
  MaxChanges         \* bound: how often they do

VARIABLES
  known,             \* the replay: pending IDs, and the stranded exits
  idle,              \* the state in which a release last handled nothing
  claims,            \* the last claim of each stranded exit
  admission, releasing, claiming, refunding,  \* the running jobs
  unflags,           \* deposits with an operator's unflag queued, and until when
  depth, stranded_at,  \* of each exit: how often it stranded, and when
  vain,              \* jobs that ran since time last passed and could not do it all
  changes

jobVars == <<admission, releasing, claiming, refunding>>
keeperVars == <<known, idle, claims, jobVars, unflags, depth, stranded_at, vain, changes>>
keeperRest == <<known, idle, claims, unflags, vain, changes>>

\* What the vault can pay: nothing while the issuer keeps it from the asset.
funds == IF vault_authorized THEN balance ELSE 0

Nothing == [job |-> "none"]
Batch(ids, n) == {id \in ids : Cardinality({j \in ids : j =< id}) =< n}

Change == now =< Quiet /\ changes < MaxChanges /\ changes' = changes + 1

----------------------------------------------------------------------------
\* What the replay and the asset contract's entries show of a vault's step

\* The follower catches up with the chain.
Apply ==
  /\ known' = [pending |-> DOMAIN pending, stranded |-> stranded, at |-> stranded_at]
  /\ known' # known
  /\ UNCHANGED <<vars, idle, claims, jobVars, unflags, depth, stranded_at, vain, changes>>

\* Variant with a fault: a requeued exit is not linked to the one it comes from.
Strands_unlinked(requeued) ==
  /\ stranded_at' = [id \in DOMAIN stranded' |->
                       IF id \in DOMAIN stranded THEN stranded_at[id] ELSE now]
  /\ UNCHANGED depth

\* Exits that leave the queue unpaid, and a claim's requeued exit, are counted.
Strands(requeued) ==
  /\ stranded_at' = [id \in DOMAIN stranded' |->
                       IF id \in DOMAIN stranded THEN stranded_at[id] ELSE now]
  /\ depth' = [id \in 1 .. exit_tail' - 1 |->
                 IF id \in DOMAIN depth THEN depth[id] ELSE depth[requeued] + 1]

Parties(exit) == (IF exit.payout > 0 THEN {exit.recipient} ELSE {})
                   \cup (IF exit.fee > 0 THEN {exit.relayer} ELSE {})

\* An entry that changed makes what the claims saw of it out of date.
Touched(a) == accounts'[a] # accounts[a]
Seen(memo) == [id \in DOMAIN memo |->
                 [memo[id] EXCEPT !.same = @ /\ ~\E a \in memo[id].parties : Touched(a)]]

Noticed == /\ claims' = Seen(claims)
           /\ claiming' = IF claiming = Nothing THEN Nothing
                          ELSE [claiming EXCEPT !.todo = Seen(@)]

----------------------------------------------------------------------------
\* Admission

\* The deposits the replay knows whose entry is on chain, and the eligible ones.
readPending == known.pending \cap DOMAIN pending
eligible == IF halted THEN {} ELSE {id \in readPending : Eligible(id)}

\* Reads the instance, the clock and the deposits.
ReadAdmission ==
  /\ admission = Nothing
  /\ eligible # {}
  /\ admission' = [job |-> "admit", ids |-> eligible, batch |-> MaxAdmissions]
  /\ UNCHANGED <<vars, keeperRest, releasing, claiming, refunding, depth, stranded_at>>

\* Whether the simulation of an admit runs, and whether it admits anything.
AdmitRuns(ids) ==
  /\ ~halted
  /\ Cardinality(ids) =< BatchFits
  /\ LET n == Cardinality({id \in ids : Eligible(id)})
     IN n > 0 => has_room(Len(leaves) + 2 * (n - 1))
AdmitsAny(ids) == \E id \in ids : Eligible(id)

\* Variant with a fault: a batch that does not fit ends the job.
Halved_never(ids) == Nothing

Halved(ids) ==
  IF Cardinality(ids) > 1
  THEN [admission EXCEPT !.batch = Cardinality(ids) \div 2] ELSE Nothing

\* One admit call of the next batch: one that simulates to nothing is not
\* sent, and one that does not fit is halved.
Admit ==
  /\ admission # Nothing
  /\ LET ids  == Batch(admission.ids, admission.batch)
         rest == admission.ids \ ids
         next == IF rest = {} THEN Nothing ELSE [admission EXCEPT !.ids = rest]
     IN \/ /\ AdmitRuns(ids) /\ AdmitsAny(ids)
           /\ admit(ids)
           /\ admission' = next
           /\ UNCHANGED <<vain, changes>>
        \/ /\ AdmitRuns(ids) /\ ~AdmitsAny(ids)
           /\ admission' = next
           /\ UNCHANGED <<vars, vain, changes>>
        \/ /\ ~AdmitRuns(ids)
           /\ admission' = Halved(ids)
           /\ vain' = IF admission' = Nothing THEN vain \cup {"admit"} ELSE vain
           /\ UNCHANGED <<vars, changes>>
        \/ \* the transaction fails after its retries
           /\ AdmitRuns(ids) /\ AdmitsAny(ids)
           /\ Change
           /\ admission' = Nothing
           /\ UNCHANGED <<vars, vain>>
  /\ UNCHANGED <<known, idle, claims, unflags, releasing, claiming, refunding, depth, stranded_at>>

----------------------------------------------------------------------------
\* Refunds

\* Deposits that an operator's queued unflag is about to correct.
UnflagQueued(id) == id \in DOMAIN unflags /\ now < unflags[id]

\* Deposits flagged long enough ago that nobody holds or is about to unflag.
overdue ==
  {id \in readPending :
     /\ pending[id].flag \notin {0} \cup HoldReasons
     /\ now >= pending[id].flagged_at + REFUND_DELAY
     /\ ~UnflagQueued(id)}

\* Reads the clock, the deposits and then the queued unflags, without which no
\* refund goes.
ReadRefunds ==
  /\ refunding = Nothing
  /\ overdue # {}
  /\ refunding' = [job |-> "refund", ids |-> overdue]
  /\ UNCHANGED <<vars, keeperRest, admission, releasing, claiming, depth, stranded_at>>

\* Whether the simulation of a refund runs.
Refundable(id) ==
  /\ id \in DOMAIN pending
  /\ pending[id].flag # 0
  /\ Accepts(accounts, pending[id].depositor, pending[id].amount) /\ funds >= pending[id].amount

\* Refunds one of them; a refund that fails holds back no other.
Refund ==
  /\ refunding # Nothing
  /\ LET id == CHOOSE i \in refunding.ids : \A j \in refunding.ids : i =< j
     IN /\ refunding' = IF refunding.ids = {id} THEN Nothing
                        ELSE [refunding EXCEPT !.ids = @ \ {id}]
        /\ \/ refund(id) /\ UNCHANGED <<vain, changes>>
           \/ ~Refundable(id) /\ vain' = vain \cup {"refund"} /\ UNCHANGED <<vars, changes>>
           \/ Change /\ UNCHANGED <<vars, vain>>
  /\ UNCHANGED <<known, idle, claims, unflags, admission, releasing, claiming, depth, stranded_at>>

----------------------------------------------------------------------------
\* Releases

\* What release works from: the state of the day's window.
window == [day |-> today, room |-> limits.max_daily_outflow - outflow_today, head |-> exit_head]

\* The exits from the head that fit the window and the funds whole.
Whole(n) ==
  LET paid == SumTo([i \in 1 .. exit_tail - 1 |->
                       IF i \in exit_head .. exit_head + n - 1
                       THEN exits[i].payout + exits[i].fee ELSE 0], exit_tail - 1)
  IN paid =< window.room /\ paid =< funds

\* The head's next step is payable, in part at least.
StepPayable == Min2(exits[exit_head].payout + exits[exit_head].fee, window.room) =< funds

\* Variant with a fault: remembers the head alone.
IdleState_head(w) == [w EXCEPT !.day = 0, !.room = 0]

IdleState(w) == w

\* Nothing is tried in the state in which the last release handled nothing.
Releasable ==
  /\ ~halted
  /\ exit_head < exit_tail
  /\ window.room > 0
  /\ idle # IdleState(window)
  /\ StepPayable

\* Reads the window and counts the exits of the batch that fit, the head at
\* the least.  A job that goes on reads again, and ends when nothing is to do.
ReadRelease ==
  /\ releasing = Nothing => Releasable
  /\ releasing # Nothing => releasing.stage = "read"
  /\ LET batch == IF releasing = Nothing THEN MaxReleases ELSE releasing.batch
         fits  == {k \in 1 .. batch : exit_head + k =< exit_tail /\ Whole(k)}
     IN releasing' = IF ~Releasable THEN Nothing
                     ELSE [job |-> "release", stage |-> "send", state |-> IdleState(window),
                           batch |-> batch, n |-> Max2(Cardinality(fits), 1)]
  /\ UNCHANGED <<vars, keeperRest, admission, claiming, refunding, depth, stranded_at>>

\* Whether the simulation of the release runs, and whether it handles any exit.
ReleaseRuns == ~halted /\ releasing.n =< BatchFits
Handles == ReleaseLoop(releasing.n).count > 0 /\ vault_authorized

\* Sends the release: one that would handle nothing is remembered instead, and
\* one that does not fit is halved.
SendRelease ==
  /\ releasing # Nothing /\ releasing.stage = "send"
  /\ \/ /\ ReleaseRuns /\ Handles
        /\ releasing' = [releasing EXCEPT !.stage = "land"]
        /\ UNCHANGED idle
     \/ /\ ReleaseRuns /\ ~Handles
        /\ idle' = releasing.state
        /\ releasing' = Nothing
     \/ /\ ~ReleaseRuns
        /\ releasing' = IF releasing.n = 1 THEN Nothing
                        ELSE [releasing EXCEPT !.stage = "read", !.batch = releasing.n \div 2]
        /\ UNCHANGED idle
  /\ UNCHANGED <<vars, known, claims, unflags, vain, changes, admission, claiming, refunding,
                 depth, stranded_at>>

\* It lands: when others changed what it meets it may pay nothing, which is
\* remembered, and it may fail.  After one that paid the job goes on.
Release ==
  /\ releasing # Nothing /\ releasing.stage = "land"
  /\ \/ /\ ~halted /\ Handles
        /\ release(releasing.n)
        /\ Strands(0)
        /\ Noticed
        /\ releasing' = [releasing EXCEPT !.stage = "read"]
        /\ UNCHANGED <<idle, changes>>
     \/ /\ ~halted /\ ~Handles
        /\ idle' = releasing.state
        /\ releasing' = Nothing
        /\ UNCHANGED <<vars, claims, claiming, depth, stranded_at, changes>>
     \/ /\ (halted /\ UNCHANGED changes) \/ Change
        /\ releasing' = Nothing
        /\ UNCHANGED <<vars, idle, claims, claiming, depth, stranded_at>>
  /\ UNCHANGED <<known, unflags, vain, admission, refunding>>

----------------------------------------------------------------------------
\* Claims

rest(n) == IF n =< 0 THEN 0 ELSE Min2(claimRetry * 2 ^ Min2(n - 1, 5), claimRestMax)

\* A payout that would create its recipient's account, while the network's
\* reserve is more than the least that may create one.
Waits(exit) ==
  /\ Native
  /\ exit.payout >= NATIVE_ACCOUNT_MIN
  /\ accounts[exit.recipient] = "missing"
  /\ account_min > NATIVE_ACCOUNT_MIN

Due(try, memo) ==
  /\ try \notin DOMAIN memo \/ ~memo[try].same \/ now >= memo[try].at + claimRetry
  /\ try \in DOMAIN memo => now >= memo[try].at + rest(memo[try].failures)

\* The claims remembered of exits that are gone, and the exits to claim now:
\* not those that rest or wait.
gone == DOMAIN claims \ DOMAIN known.stranded
claimed ==
  {id \in DOMAIN known.stranded :
     /\ ~halted
     /\ depth[id] > 1 => now >= known.at[id] + rest(depth[id] - 1)
     /\ ~Waits(known.stranded[id])
     /\ Due(id, claims)}

\* Reads the stranded exits the replay knows and the entries of their parties.
ReadClaims ==
  /\ claiming = Nothing
  /\ gone \cup claimed # {}
  /\ claims' = Drop(claims, gone)
  /\ claiming' = IF claimed = {} THEN Nothing
                 ELSE [job |-> "claim", sent |-> FALSE,
                       todo |-> [id \in claimed |->
                                   [parties |-> Parties(known.stranded[id]), same |-> TRUE, at |-> now,
                                    failures |-> IF id \in DOMAIN claims THEN claims[id].failures ELSE 0]]]
  /\ UNCHANGED <<vars, known, idle, unflags, vain, changes, admission, releasing, refunding, depth, stranded_at>>

\* The exit whose turn it is, and the job after it.
Turn == CHOOSE i \in DOMAIN claiming.todo : \A j \in DOMAIN claiming.todo : i =< j
AfterTurn ==
  LET left == Drop(claiming.todo, {Turn})
  IN IF DOMAIN left = {} THEN Nothing ELSE [claiming EXCEPT !.todo = left, !.sent = FALSE]

\* Whether a claim would move a part.
Claimable(id) ==
  /\ ~halted
  /\ id \in DOMAIN stranded
  /\ LET exit == stranded[id]
     IN \/ exit.payout > 0 /\ can_receive(exit.recipient, exit.payout)
        \/ exit.fee > 0 /\ can_receive(exit.relayer, 0)

\* Remembers the try and sends the claim, unless it would move nothing.
SendClaim ==
  /\ claiming # Nothing /\ ~claiming.sent
  /\ claims' = Put(claims, Turn, claiming.todo[Turn])
  /\ claiming' = IF Claimable(Turn) THEN [claiming EXCEPT !.sent = TRUE] ELSE AfterTurn
  /\ UNCHANGED <<vars, known, idle, unflags, vain, changes, admission, releasing, refunding,
                 depth, stranded_at>>

\* It lands: one that fails on chain rests the exit, and one that is lost ends
\* the job.
Claim ==
  /\ claiming # Nothing /\ claiming.sent
  /\ LET id == Turn
     IN \/ /\ claim(id)
           /\ Strands(id)
           /\ claims' = Put(claims, id, [claims[id] EXCEPT !.failures = 0])
           /\ claiming' = AfterTurn
           /\ UNCHANGED changes
        \/ /\ ~Claimable(id)
           /\ claims' = Put(claims, id, [claims[id] EXCEPT !.failures = @ + 1])
           /\ claiming' = AfterTurn
           /\ UNCHANGED <<vars, depth, stranded_at, changes>>
        \/ /\ Change
           /\ claiming' = Nothing
           /\ UNCHANGED <<vars, claims, depth, stranded_at>>
  /\ UNCHANGED <<known, idle, unflags, vain, admission, releasing, refunding>>

----------------------------------------------------------------------------
\* The vault's other callers, its issuer and the accounts, and the clock

Others ==
  /\ Change
  /\ \/ /\ \/ release(1)
           \/ \E a \in Accounts, state \in AccountStates :
                DOMAIN exits \cup DOMAIN stranded # {} /\ set_account(a, state)
           \/ Halts /\ halt
           \/ \E min \in AccountMins : DOMAIN exits \cup DOMAIN stranded # {} /\ set_reserve(min)
        /\ Strands(0)
        /\ Noticed
        /\ UNCHANGED unflags
     \/ /\ \E id \in DOMAIN stranded : claim(id) /\ Strands(id)
        /\ UNCHANGED <<claims, claiming, unflags>>
     \/ /\ \E id \in DOMAIN pending :
             \/ \E reason \in Reasons : flag(id, reason)
             \/ unflag(id)
             \/ cancel(id)
        /\ unflags' = Drop(unflags, {id \in DOMAIN unflags :
                                       id \notin DOMAIN pending' \/ pending'[id].flag = 0})
        /\ UNCHANGED <<claims, claiming, depth, stranded_at>>
     \/ /\ \E id \in DOMAIN pending : pending[id].flag # 0 /\ unflags' = Put(unflags, id, Quiet)
        /\ UNCHANGED <<vars, claims, claiming, depth, stranded_at>>
  /\ vain' = {}
  /\ UNCHANGED <<known, idle, admission, releasing, refunding>>

\* A job runs until nothing is left that it can do, unless the keeper is down.
Idle ==
  /\ {admission, releasing, claiming, refunding} = {Nothing}
  /\ known.pending = DOMAIN pending /\ known.stranded = stranded
  /\ eligible = {} \/ "admit" \in vain
  /\ overdue = {} \/ "refund" \in vain
  /\ ~Releasable /\ gone \cup claimed = {}

Clock ==
  /\ tick
  /\ \/ Idle /\ UNCHANGED changes
     \/ ~Idle /\ Change
  /\ vain' = {}
  /\ UNCHANGED <<known, idle, claims, jobVars, unflags, depth, stranded_at>>

\* The queues the keeper may find: deposits attested in order, or exits behind
\* a window that today's exits used up.
DepositQueue ==
  [id \in 1 .. StartDeposits |->
     [depositor |-> CHOOSE d \in Depositors : TRUE, amount |-> 1, output0 |-> 1, output1 |-> 0,
      created_at |-> 0, delay |-> DelaySmall, flag |-> 0, flagged_at |-> 0]]
ExitQueues ==
  [1 .. StartExits -> [recipient : Accounts, payout : Payouts, relayer : Relayers, fee : Fees,
                       queued_at : {0}]]

KeeperInit ==
  /\ now = 0 /\ limits = InitialLimits /\ queued_limits = {}
  /\ deposits_paused = FALSE /\ transfers_paused = FALSE
  /\ halted_until = 0 /\ next_halt_at = 0
  /\ day_total = [d \in Depositors |-> [day |-> 0, total |-> 0]]
  /\ roots = [s \in 0 .. ROOT_HISTORY - 1 |-> IF s = 0 THEN 0 ELSE NoRoot]
  /\ newest = 0 /\ leaves = <<>> /\ nullifiers = {}
  /\ accounts \in [Accounts -> AccountStates]
  /\ account_min \in AccountMins
  /\ vault_authorized = TRUE /\ clawed = 0 /\ limits_since = 0
  /\ stranded = [i \in {} |-> 0] /\ exit_head = 1 /\ outflow_day = 0
  /\ \/ /\ pending = DepositQueue /\ exits = [i \in {} |-> 0] /\ outflow = 0
     \/ /\ pending = [i \in {} |-> 0] /\ exits \in ExitQueues
        /\ outflow \in 0 .. limits.max_daily_outflow
        /\ outflow + exits[1].payout + exits[1].fee > limits.max_daily_outflow
  /\ next_deposit_id = Cardinality(DOMAIN pending) + 1
  /\ attested_up_to = next_deposit_id - 1
  /\ pending_total = next_deposit_id - 1
  /\ exit_tail = Cardinality(DOMAIN exits) + 1
  /\ queued_total = SumTo(Owed(exits), exit_tail - 1)
  /\ tvl = pending_total + queued_total /\ balance = tvl
  /\ due = [a \in Accounts |-> SumTo(OwedTo(exits, a), exit_tail - 1)]
  /\ known = [pending |-> {}, stranded |-> [i \in {} |-> 0], at |-> [i \in {} |-> 0]]
  /\ idle = Nothing /\ claims = [i \in {} |-> 0]
  /\ admission = Nothing /\ releasing = Nothing /\ claiming = Nothing /\ refunding = Nothing
  /\ unflags = [i \in {} |-> 0]
  /\ depth = [id \in DOMAIN exits |-> 1] /\ stranded_at = [i \in {} |-> 0]
  /\ vain = {} /\ changes = 0

KeeperNext ==
  \/ Apply
  \/ ReadAdmission \/ Admit
  \/ ReadRefunds \/ Refund
  \/ ReadRelease \/ SendRelease \/ Release
  \/ ReadClaims \/ SendClaim \/ Claim
  \/ Others
  \/ Clock

KeeperSpec == KeeperInit /\ [][KeeperNext]_<<vars, keeperVars>>

----------------------------------------------------------------------------
KeeperTypeOK ==
  /\ known.pending \subseteq DepositIds
  /\ DOMAIN known.stranded = DOMAIN known.at
  /\ idle = Nothing \/ (idle.head \in 1 .. exit_tail /\ idle.room > 0)
  /\ DOMAIN claims \subseteq 1 .. exit_tail - 1
  /\ DOMAIN unflags \subseteq DepositIds
  /\ DOMAIN stranded_at = DOMAIN stranded
  /\ DOMAIN depth = 1 .. exit_tail - 1

\* Within a number of days after others left the vault alone the exit queue is
\* empty and every stranded part that its party can receive was paid: no memory
\* of an idle release, of a failed claim or of entries seen keeps one back.
ExitsServed ==
  now >= Quiet + ServeDays * Day =>
    /\ DOMAIN exits = {}
    /\ \A id \in DOMAIN stranded : Waits(stranded[id]) \/ ~Claimable(id)

\* By then every deposit is admitted, or refunded if it stayed flagged: what is
\* left is held, or finds no room in the tree or with its depositor.
DepositsSettled ==
  now >= Quiet + ServeDays * Day =>
    \A id \in DOMAIN pending :
      \/ pending[id].flag \in HoldReasons
      \/ pending[id].flag # 0 /\ ~Refundable(id)
      \/ ~has_room(Len(leaves))

\* Neither queue of the vault keeps an entry that the keeper could settle.
QueuesServed == KeeperTypeOK /\ ExitsServed /\ DepositsSettled

============================================================================
