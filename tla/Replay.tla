------------------------------- MODULE Replay ------------------------------
(***************************************************************************)
(* The vault rebuilt from its events (services/internal/chainstate).       *)
(* Every service keeps such a copy: it reads a window of the vault's       *)
(* calls, applies them in chain order to a copy of its state and commits   *)
(* what changed, or refuses the whole window as inconsistent.  What the    *)
(* indexer serves of the exits is read from that copy and its tables.      *)
(*                                                                         *)
(* The vault's steps publish the calls that their events decode to; the    *)
(* window holds the ones that no service has read yet.                     *)
(***************************************************************************)
EXTENDS Vault

LOCAL INSTANCE SequencesExt

CONSTANT MaxWindow  \* calls after which the service reads the window at the latest

VARIABLES
  window,  \* calls published since the last commit, each with its time
  chain,   \* the service's State, with ok FALSE once a call was inconsistent
  before,  \* the exits of the State a request began with before the last commit
  db       \* the tables: deposits, exits, and what settlements paid by exit

replayVars == <<vars, window, chain, before, db>>

----------------------------------------------------------------------------
\* The calls the vault's events decode to, in the order they are published

\* What a pending deposit looks like to the services, which the events do not
\* tell the delay of.
Seen(d) == [amount |-> d.amount, outputs |-> <<d.output0, d.output1>>,
            flag |-> d.flag, flagged_at |-> d.flagged_at]

\* One call for each of ids, in ID order.
Each(ids, Call(_)) == [k \in 1 .. Cardinality(ids) |-> Call(KthId(ids, k))]
If(condition, call) == IF condition THEN <<call>> ELSE <<>>

EntryCalls(reason) ==
  LET left     == DOMAIN pending \ DOMAIN pending'
      kept     == DOMAIN pending \cap DOMAIN pending'
      flagged  == {id \in kept : pending'[id] # pending[id] /\ pending'[id].flag # 0}
      cleared  == {id \in kept : pending'[id] # pending[id] /\ pending'[id].flag = 0}
      admitted(id) == [call |-> "admission", id |-> id, at |-> now,
                       outputs |-> Seen(pending[id]).outputs,
                       index |-> Len(leaves)
                                 + 2 * (Cardinality({i \in left : i =< id}) - 1)]
      refunded(id) == [call |-> "refunded", id |-> id, at |-> now, reason |-> reason]
  IN If(next_deposit_id' # next_deposit_id,
        [call |-> "shield", id |-> next_deposit_id, at |-> now,
         deposit |-> Seen(pending'[next_deposit_id])])
     \o If(attested_up_to' # attested_up_to,
           [call |-> "attested", up_to |-> attested_up_to', at |-> now])
     \o Each(flagged, LAMBDA id : [call |-> "flagged", id |-> id, at |-> now,
                                   reason |-> pending'[id].flag])
     \o Each(cleared, LAMBDA id : [call |-> "unflagged", id |-> id, at |-> now,
                                   reason |-> pending[id].flag])
     \o (IF leaves' # leaves THEN Each(left, admitted) ELSE Each(left, refunded))

\* A transaction inserts its outputs, and is settled or queues an exit.
TransactCalls ==
  LET spends == leaves' # leaves /\ DOMAIN pending' = DOMAIN pending
      queues == exit_tail' # exit_tail
      exit   == IF queues THEN exits'[exit_tail]
                ELSE [payout |-> 0, fee |-> 0, recipient |-> 0, relayer |-> 0]
  IN If(spends, [call |-> "transact", at |-> now, queued |-> queues, id |-> exit_tail,
                 outflow |-> IF queues THEN exit.payout + exit.fee ELSE tvl - tvl',
                 exit |-> exit, index |-> Len(leaves)])

\* The iterations of a release, in the order of the queue, and a claim.
ReleaseCalls ==
  LET gone       == exit_head .. exit_head' - 1
      part       == {id \in DOMAIN exits \cap DOMAIN exits' : exits'[id] # exits[id]}
      handled(id) ==
        IF id \in DOMAIN stranded'
        THEN [call |-> "stranded", id |-> id, at |-> now,
              payout |-> stranded'[id].payout, fee |-> stranded'[id].fee]
        ELSE [call |-> "settled", id |-> id, at |-> now,
              payout |-> exits[id].payout, fee |-> exits[id].fee]
      claimed    == {id \in DOMAIN stranded :
                       id \notin DOMAIN stranded' \/ stranded'[id] # stranded[id]}
  IN Each(gone, handled)
     \o Each(part, LAMBDA id :
               [call |-> "paid", id |-> id, at |-> now,
                payout_left |-> exits'[id].payout, fee_left |-> exits'[id].fee,
                payout_paid |-> exits[id].payout - exits'[id].payout,
                fee_paid |-> exits[id].fee - exits'[id].fee])
     \o Each(claimed, LAMBDA id :
               [call |-> "requeued", id |-> id, at |-> now, new_id |-> exit_tail,
                payout |-> exits'[exit_tail].payout, fee |-> exits'[exit_tail].fee])

\* A tightening cancels what was queued before it is applied.
GuardianCalls ==
  LET was == queued_limits # {} /\ queued_limits' = {}
      due_then == CHOOSE q \in queued_limits : TRUE
      applied  == was /\ limits' = due_then.limits /\ now >= due_then.ready_at
  IN If(<<deposits_paused', transfers_paused'>> # <<deposits_paused, transfers_paused>>,
        [call |-> "paused", deposits |-> deposits_paused',
         transfers |-> transfers_paused', at |-> now])
     \o If(halted_until' > halted_until,
           [call |-> "halted", until |-> halted_until', at |-> now])
     \o If(halted_until' < halted_until,
           [call |-> "resumed", next_halt_at |-> next_halt_at', at |-> now])
     \o If(queued_limits' \ queued_limits # {},
           [call |-> "limits_queued", queued |-> queued_limits', at |-> now])
     \o If(was /\ ~applied, [call |-> "limits_cancelled", at |-> now])
     \o If(<<limits', limits_since'>> # <<limits, limits_since>>,
           [call |-> "limits_applied", limits |-> limits', at |-> now,
            ready_at |-> IF applied THEN due_then.ready_at ELSE now])

----------------------------------------------------------------------------
\* State: what the calls determine.  limits and queued are empty when unknown
\* and when nothing is queued.

NewState ==
  [ok |-> TRUE, leaves |-> 0, next_deposit_id |-> 1, attested_up_to |-> 0,
   pending |-> [i \in {} |-> 0], tvl |-> 0, pending_total |-> 0, queued_total |-> 0,
   head |-> 1, tail |-> 1, exits |-> [i \in {} |-> 0], stranded |-> [i \in {} |-> 0],
   outflow_day |-> 0, outflow |-> 0, deposits_paused |-> FALSE,
   transfers_paused |-> FALSE, halted_until |-> 0, next_halt_at |-> 0,
   limits |-> {}, queued |-> {}]

\* The state after a call, unless the call does not fit the state.
Checked(s, fits, next) == IF fits THEN next ELSE [s EXCEPT !.ok = FALSE]

HaltedAt(s, at)  == at < s.halted_until
OutflowOn(s, d)  == IF s.outflow_day = d THEN s.outflow ELSE 0

\* pay takes an outflow out of the vault and the window of its day.
pay(s, at, paid) ==
  [s EXCEPT !.tvl = @ - paid, !.outflow_day = at \div Day,
            !.outflow = OutflowOn(s, at \div Day) + paid]

\* Variant with a fault: an outflow that uses the window up does not fit.
fits_below(s, at, paid) ==
  \A l \in s.limits : OutflowOn(s, at \div Day) + paid < l.max_daily_outflow

\* Before the first limits call the window is unknown and everything fits.
fits(s, at, paid) ==
  \A l \in s.limits : OutflowOn(s, at \div Day) + paid =< l.max_daily_outflow

\* Whether the parts a release paid of e are what was left of the window: the
\* payout first, then the fee.
StepParts(s, at, e, Test(_, _)) ==
  \A l \in s.limits :
    LET room   == Max2(0, l.max_daily_outflow - OutflowOn(s, at \div Day))
        payout == Min2(e.payout, room)
    IN Test(payout, Min2(e.fee, room - payout))

\* A call of the entry queue.
applyEntry(s, c) ==
  LET known == c.call \in {"shield", "attested"} \/ c.id \in DOMAIN s.pending
      d     == s.pending[c.id]
  IN CASE c.call = "shield" ->
            Checked(s, /\ ~HaltedAt(s, c.at) /\ ~s.deposits_paused
                       /\ c.id = s.next_deposit_id,
                    [s EXCEPT !.pending = Put(@, c.id, c.deposit),
                              !.next_deposit_id = @ + 1,
                              !.tvl = @ + c.deposit.amount,
                              !.pending_total = @ + c.deposit.amount])
       [] c.call = "attested" ->
            Checked(s, /\ ~HaltedAt(s, c.at)
                       /\ c.up_to > s.attested_up_to /\ c.up_to < s.next_deposit_id,
                    [s EXCEPT !.attested_up_to = c.up_to])
       [] c.call = "admission" ->
            Checked(s, /\ known /\ ~HaltedAt(s, c.at)
                       /\ d.flag = 0 /\ c.id =< s.attested_up_to
                       /\ c.outputs = d.outputs /\ c.index = s.leaves,
                    [s EXCEPT !.pending = Drop(@, {c.id}), !.leaves = @ + 2,
                              !.pending_total = @ - d.amount])
       [] c.call = "flagged" ->
            Checked(s, known,
                    [s EXCEPT !.pending[c.id].flag = c.reason,
                              !.pending[c.id].flagged_at = IF d.flag = 0 THEN c.at ELSE @])
       [] c.call = "unflagged" ->
            Checked(s, known /\ d.flag # 0 /\ d.flag = c.reason,
                    [s EXCEPT !.pending[c.id].flag = 0, !.pending[c.id].flagged_at = 0])
       [] c.call = "refunded" ->
            Checked(s, /\ known
                       /\ c.reason # 0 => /\ d.flag = c.reason
                                          /\ c.at >= d.flagged_at + REFUND_DELAY
                       /\ s.tvl >= d.amount /\ s.pending_total >= d.amount,
                    [s EXCEPT !.pending = Drop(@, {c.id}), !.tvl = @ - d.amount,
                              !.pending_total = @ - d.amount])

\* An exit as it joins the queue; from is the stranded exit it was claimed from.
NewExit(payout, fee, recipient, relayer, at, from) ==
  [payout |-> payout, fee |-> fee, queued_payout |-> payout, queued_fee |-> fee,
   moved_payout |-> 0, moved_fee |-> 0, recipient |-> recipient, relayer |-> relayer,
   queued_at |-> at, stranded_at |-> 0, from |-> from, to |-> {}]

\* A spend of notes, settled at once or queued.
transact(s, c) ==
  LET notes == s.tvl - s.pending_total - s.queued_total
      now_fits == s.head = s.tail /\ fits(s, c.at, c.outflow)
      spent == [s EXCEPT !.leaves = @ + 2]
      transfer == IF c.queued THEN c.exit.payout = 0 ELSE c.outflow = 0
  IN Checked(s, /\ ~HaltedAt(s, c.at)
                /\ transfer => ~s.transfers_paused /\ c.exit.recipient = c.exit.relayer
                /\ c.outflow =< notes
                /\ \A l \in s.limits : c.outflow =< l.max_daily_outflow
                                       /\ c.exit.fee =< l.max_fee
                /\ c.index = s.leaves
                /\ IF c.queued THEN c.id = s.tail /\ ~(now_fits /\ s.limits # {})
                   ELSE c.outflow > 0 => now_fits,
             IF c.queued
             THEN [spent EXCEPT
                     !.exits = Put(@, c.id, NewExit(c.exit.payout, c.exit.fee, c.exit.recipient,
                                                    c.exit.relayer, c.at, 0)),
                     !.tail = @ + 1, !.queued_total = @ + c.outflow]
             ELSE pay(spent, c.at, c.outflow))

\* Takes the head exit off the queue, paid of it being paid.
takeOff(s, at, id, paid) ==
  pay([s EXCEPT !.exits = Drop(@, {id}), !.head = @ + 1, !.queued_total = @ - paid],
      at, paid)

\* Variant with a fault: a part payment leaves the exit's amounts as they were.
payPart_unwritten(s, c) ==
  pay([s EXCEPT !.queued_total = @ - c.payout_paid - c.fee_paid],
      c.at, c.payout_paid + c.fee_paid)

\* Pays part of the head exit and leaves the rest in the queue.
payPart(s, c) ==
  LET paid == c.payout_paid + c.fee_paid
  IN pay([s EXCEPT !.exits[c.id].payout = c.payout_left,
                   !.exits[c.id].fee = c.fee_left, !.queued_total = @ - paid], c.at, paid)

\* Releases the head exit with what was refused of it left owed.
strand(s, c) ==
  LET e    == s.exits[c.id]
      left == [e EXCEPT !.payout = c.payout, !.fee = c.fee, !.stranded_at = c.at]
  IN [takeOff(s, c.at, c.id, e.payout - c.payout + e.fee - c.fee)
        EXCEPT !.stranded = Put(@, c.id, left)]

\* Moves parts of a stranded exit to the tail of the queue as a new exit.
requeue(s, c) ==
  LET e    == s.stranded[c.id]
      left == [e EXCEPT !.payout = @ - c.payout, !.fee = @ - c.fee,
                        !.moved_payout = @ + c.payout, !.moved_fee = @ + c.fee,
                        !.to = @ \cup {c.new_id}]
  IN [s EXCEPT !.exits = Put(@, c.new_id, NewExit(c.payout, c.fee, e.recipient, e.relayer,
                                                  c.at, c.id)),
               !.tail = @ + 1,
               !.stranded = IF left.payout = 0 /\ left.fee = 0 THEN Drop(@, {c.id})
                            ELSE Put(@, c.id, left)]

\* Each transfer of a release is taken in full or refused in full.
Whole(part, of) == part \in {0, of}

\* A call of the exit queue.
applyExit(s, c) ==
  LET atHead == ~HaltedAt(s, c.at) /\ c.id = s.head /\ c.id \in DOMAIN s.exits
      e == s.exits[c.id]
  IN CASE c.call = "settled" ->
            Checked(s, /\ atHead /\ c.payout = e.payout /\ c.fee = e.fee
                       /\ fits(s, c.at, e.payout + e.fee)
                       /\ s.tvl >= e.payout + e.fee /\ s.queued_total >= e.payout + e.fee,
                    takeOff(s, c.at, c.id, e.payout + e.fee))
       [] c.call = "paid" ->
            Checked(s, /\ atHead
                       /\ c.payout_paid + c.payout_left = e.payout
                       /\ c.fee_paid + c.fee_left = e.fee
                       /\ StepParts(s, c.at, e, LAMBDA p, f : <<p, f>> = <<c.payout_paid, c.fee_paid>>)
                       /\ s.tvl >= c.payout_paid + c.fee_paid,
                    payPart(s, c))
       [] c.call = "stranded" ->
            Checked(s, /\ atHead /\ c.payout =< e.payout /\ c.fee =< e.fee
                       /\ fits(s, c.at, e.payout - c.payout + e.fee - c.fee)
                       /\ StepParts(s, c.at, e,
                            LAMBDA p, f : /\ Whole(e.payout - c.payout, p)
                                          /\ Whole(e.fee - c.fee, f)
                                          /\ <<p, f>> # <<e.payout - c.payout, e.fee - c.fee>>),
                    strand(s, c))
       [] c.call = "requeued" ->
            Checked(s, /\ ~HaltedAt(s, c.at) /\ c.id \in DOMAIN s.stranded
                       /\ Whole(c.payout, s.stranded[c.id].payout)
                       /\ Whole(c.fee, s.stranded[c.id].fee)
                       /\ c.new_id = s.tail,
                    requeue(s, c))

\* Variant with a fault: the early end of a halt is taken for its planned end.
applyGuardian_resumed(s, c) ==
  CASE c.call = "paused" ->
         [s EXCEPT !.deposits_paused = c.deposits, !.transfers_paused = c.transfers]
    [] c.call = "halted" ->
         [s EXCEPT !.halted_until = c.until, !.next_halt_at = c.until + HALT_COOLDOWN]
    [] c.call = "resumed" -> [s EXCEPT !.next_halt_at = c.next_halt_at]
    [] c.call = "limits_queued" -> [s EXCEPT !.queued = c.queued]
    [] c.call = "limits_applied" -> [s EXCEPT !.limits = {c.limits}, !.queued = {}]
    [] c.call = "limits_cancelled" -> [s EXCEPT !.queued = {}]

\* A call of the guardian, or of anyone who applies due limits.
applyGuardian(s, c) ==
  CASE c.call = "paused" ->
         [s EXCEPT !.deposits_paused = c.deposits, !.transfers_paused = c.transfers]
    [] c.call = "halted" ->
         [s EXCEPT !.halted_until = c.until, !.next_halt_at = c.until + HALT_COOLDOWN]
    [] c.call = "resumed" ->
         [s EXCEPT !.halted_until = c.at, !.next_halt_at = c.next_halt_at]
    [] c.call = "limits_queued" -> [s EXCEPT !.queued = c.queued]
    [] c.call = "limits_applied" ->
         [s EXCEPT !.limits = {c.limits},
                   !.queued = {q \in @ : q.ready_at # c.ready_at}]
    [] c.call = "limits_cancelled" -> [s EXCEPT !.queued = {}]

\* After a call that does not fit, nothing more is applied.
apply(s, c) ==
  IF ~s.ok THEN s
  ELSE IF c.call \in {"shield", "attested", "admission", "flagged", "unflagged", "refunded"}
  THEN applyEntry(s, c)
  ELSE IF c.call \in {"settled", "paid", "stranded", "requeued"} THEN applyExit(s, c)
  ELSE IF c.call = "transact" THEN transact(s, c)
  ELSE applyGuardian(s, c)

----------------------------------------------------------------------------
\* The tables of Commit.  NULL stands for an empty column; of the ledger a row
\* was released or requeued in, only whether it is in the last window matters.

NULL  == -1
OLDER == 0
LAST  == 1
Age(ledger) == IF ledger = LAST THEN OLDER ELSE ledger

NewTables == [ok |-> TRUE, deposits |-> [i \in {} |-> 0], exits |-> [i \in {} |-> 0],
              paid |-> [i \in {} |-> 0]]

\* The row commitExit inserts for an exit of the queue.
ExitRow(e) ==
  [payout |-> e.payout, fee |-> e.fee, recipient |-> e.recipient, relayer |-> e.relayer,
   queued_at |-> e.queued_at, from |-> e.from, payout_left |-> NULL, fee_left |-> NULL,
   released_ledger |-> NULL, released_at |-> 0, unpaid_payout |-> NULL,
   unpaid_fee |-> NULL, requeued_ledger |-> NULL]

\* An update of the row that must still be as the change expects it.
Updated(t, id, expected, row) ==
  IF id \in DOMAIN t.exits /\ expected THEN [t EXCEPT !.exits[id] = row]
  ELSE [t EXCEPT !.ok = FALSE]

\* A payment recorded under an exit's ID.
Settled(t, id, payout, fee) ==
  [t EXCEPT !.paid = Put(@, id, [payout |-> @[id].payout + payout, fee |-> @[id].fee + fee])]

Queued(t, id, e) ==
  [t EXCEPT !.exits = Put(@, id, ExitRow(e)),
            !.paid = Put(@, id, [payout |-> 0, fee |-> 0])]

\* The row of an exit a release took off the queue, left of it unpaid.
Released(t, id, at, left) ==
  Updated(t, id, t.exits[id].released_ledger = NULL,
          [t.exits[id] EXCEPT
             !.released_ledger = LAST, !.released_at = at,
             !.unpaid_payout = IF left.payout + left.fee > 0 THEN left.payout ELSE NULL,
             !.unpaid_fee = IF left.payout + left.fee > 0 THEN left.fee ELSE NULL])

\* The exit changes of a call, s being the state before it and next after it.
commitExit(t, c, s, next) ==
  CASE c.call = "transact" /\ c.queued -> Queued(t, c.id, next.exits[c.id])
    [] c.call = "paid" ->
         Settled(Updated(t, c.id, t.exits[c.id].released_ledger = NULL,
                         [t.exits[c.id] EXCEPT !.payout_left = c.payout_left,
                                               !.fee_left = c.fee_left]),
                 c.id, c.payout_paid, c.fee_paid)
    [] c.call = "settled" ->
         Settled(Released(t, c.id, c.at, [payout |-> 0, fee |-> 0]),
                 c.id, c.payout, c.fee)
    [] c.call = "stranded" ->
         Settled(Released(t, c.id, c.at, [payout |-> c.payout, fee |-> c.fee]), c.id,
                 s.exits[c.id].payout - c.payout, s.exits[c.id].fee - c.fee)
    [] c.call = "requeued" ->
         LET row  == t.exits[c.id]
             left == [payout |-> s.stranded[c.id].payout - c.payout,
                      fee |-> s.stranded[c.id].fee - c.fee]
         IN Queued(Updated(t, c.id, row.unpaid_payout # NULL /\ row.requeued_ledger = NULL,
                           [row EXCEPT !.unpaid_payout = left.payout,
                                       !.unpaid_fee = left.fee,
                                       !.requeued_ledger = IF left.payout + left.fee = 0
                                                           THEN LAST ELSE NULL]),
                   c.new_id, next.exits[c.new_id])
    [] OTHER -> t

\* The deposit changes of a call; a deposit is resolved once.
commitDeposit(t, c, next) ==
  CASE c.call = "shield" ->
         [t EXCEPT !.deposits = Put(@, c.id, [deposit |-> next.pending[c.id],
                                              outcome |-> NULL])]
    [] c.call \in {"flagged", "unflagged"} ->
         [t EXCEPT !.deposits[c.id].deposit = next.pending[c.id]]
    [] c.call \in {"admission", "refunded"} ->
         IF t.deposits[c.id].outcome # NULL THEN [t EXCEPT !.ok = FALSE]
         ELSE [t EXCEPT !.deposits[c.id].outcome = IF c.call = "admission" THEN 0 ELSE 1]
    [] OTHER -> t

\* One call applied, and what it changed written, unless it does not fit.
ReadCall(x, c) ==
  LET next == apply(x.s, c)
  IN [s |-> next,
      t |-> IF ~next.ok THEN x.t
            ELSE commitDeposit(commitExit(x.t, c, x.s, next), c, next)]

\* The exits a request reads from the state in memory.
Listed(s) == [live |-> DOMAIN s.exits \cup DOMAIN s.stranded, tail |-> s.tail]

\* A window is applied to a clone and committed whole: state, rows and cursor.
FollowStep ==
  LET older == [db EXCEPT !.exits = [id \in DOMAIN @ |->
                  [@[id] EXCEPT !.released_ledger = Age(@), !.requeued_ledger = Age(@)]]]
      end   == FoldLeft(ReadCall, [s |-> chain, t |-> older], window)
  IN /\ window # <<>>
     /\ window' = <<>>
     /\ before' = Listed(chain)
     /\ chain' = end.s
     /\ db' = end.t
     /\ UNCHANGED vars

\* The reasons a refund may be published with: 0 when the depositor cancels,
\* the flag when it is refunded for it.
RefundReasons ==
  {0} \cup {pending[id].flag : id \in {i \in DOMAIN pending \ DOMAIN pending' :
                                         /\ pending[i].flag # 0
                                         /\ now >= pending[i].flagged_at + REFUND_DELAY}}

\* A step of the vault publishes its calls, which no service has read yet.
VaultStep ==
  /\ Len(window) < MaxWindow
  /\ Next
  /\ \E reason \in RefundReasons :
       window' = window \o EntryCalls(reason) \o TransactCalls \o ReleaseCalls
                        \o GuardianCalls
  /\ UNCHANGED <<chain, before, db>>

ReplayInit ==
  /\ Init
  /\ window = <<>>
  /\ chain = NewState /\ before = Listed(NewState) /\ db = NewTables

ReplayNext == VaultStep \/ FollowStep

ReplaySpec == ReplayInit /\ [][ReplayNext]_replayVars

----------------------------------------------------------------------------
\* What a service that starts again reads back, and what the indexer serves

\* The exits a claim moved parts of id to, and what they were queued with.
ClaimedFrom(id) == {i \in DOMAIN db.exits : db.exits[i].from = id}
Moved(id) ==
  LET part(field) == [i \in 1 .. Cardinality(DOMAIN db.exits) |->
                        IF i \in ClaimedFrom(id) THEN db.exits[i][field] ELSE 0]
  IN [payout |-> SumTo(part("payout"), Cardinality(DOMAIN db.exits)),
      fee    |-> SumTo(part("fee"), Cardinality(DOMAIN db.exits))]

LoadedPending ==
  [id \in {i \in DOMAIN db.deposits : db.deposits[i].outcome = NULL} |->
     db.deposits[id].deposit]

\* The rows of exits still in the queue, and of stranded ones with parts unmoved.
LiveRows(released) ==
  {i \in DOMAIN db.exits :
     IF released THEN /\ db.exits[i].unpaid_payout # NULL
                      /\ db.exits[i].requeued_ledger = NULL
                 ELSE db.exits[i].released_ledger = NULL}

Coalesce(value, other) == IF value = NULL THEN other ELSE value

\* Variant with a fault: what parts were paid of a queued exit is not read back.
loadExits_whole(released) ==
  [id \in LiveRows(released) |->
     LET row == db.exits[id]
     IN [payout |-> IF released THEN row.unpaid_payout ELSE row.payout,
         fee |-> IF released THEN row.unpaid_fee ELSE row.fee,
         queued_payout |-> row.payout, queued_fee |-> row.fee,
         moved_payout |-> Moved(id).payout, moved_fee |-> Moved(id).fee,
         recipient |-> row.recipient, relayer |-> row.relayer,
         queued_at |-> row.queued_at,
         stranded_at |-> IF released THEN row.released_at ELSE 0,
         from |-> row.from, to |-> ClaimedFrom(id)]]

loadExits(released) ==
  [id \in LiveRows(released) |->
     LET row == db.exits[id]
     IN [payout |-> IF released THEN row.unpaid_payout ELSE Coalesce(row.payout_left, row.payout),
         fee |-> IF released THEN row.unpaid_fee ELSE Coalesce(row.fee_left, row.fee),
         queued_payout |-> row.payout, queued_fee |-> row.fee,
         moved_payout |-> Moved(id).payout, moved_fee |-> Moved(id).fee,
         recipient |-> row.recipient, relayer |-> row.relayer,
         queued_at |-> row.queued_at,
         stranded_at |-> IF released THEN row.released_at ELSE 0,
         from |-> row.from, to |-> ClaimedFrom(id)]]

\* What releases have paid of an exit the state holds.
Paid(e) == [payout |-> e.queued_payout - e.payout - e.moved_payout,
            fee    |-> e.queued_fee - e.fee - e.moved_fee]

\* Variant with a fault: rows of windows committed since are shown as well.
ResolvedExits_uncut(upTo) ==
  {i \in DOMAIN db.exits :
     \/ db.exits[i].unpaid_payout = NULL /\ db.exits[i].released_ledger # NULL
     \/ db.exits[i].requeued_ledger # NULL}

\* The resolved exits a response adds, cut at the ledger it is complete to.
ResolvedExits(upTo) ==
  {i \in DOMAIN db.exits :
     \/ /\ db.exits[i].unpaid_payout = NULL
        /\ db.exits[i].released_ledger \in 0 .. upTo
     \/ db.exits[i].requeued_ledger \in 0 .. upTo}

----------------------------------------------------------------------------
\* The fields in which the vault's status and the replayed one differ.
StatusDiff ==
  LET status == <<tvl, pending_total, queued_total, exit_head, exit_tail, next_deposit_id,
                  attested_up_to, deposits_paused, transfers_paused, halted_until,
                  next_halt_at, outflow_today>>
      replayed == <<chain.tvl, chain.pending_total, chain.queued_total, chain.head,
                    chain.tail, chain.next_deposit_id, chain.attested_up_to,
                    chain.deposits_paused, chain.transfers_paused, chain.halted_until,
                    chain.next_halt_at, OutflowOn(chain, today)>>
  IN {i \in DOMAIN status : status[i] # replayed[i]}

\* What the vault knows of exits, out of what the services keep.
OnChain(f) == [id \in DOMAIN f |->
                 [recipient |-> f[id].recipient, payout |-> f[id].payout,
                  relayer |-> f[id].relayer, fee |-> f[id].fee,
                  queued_at |-> f[id].queued_at]]

\* No window the vault can produce is refused as inconsistent, before the first
\* limits event or after it: a refused window stops every service for good.
ReplayAccepts == chain.ok /\ db.ok

\* A service that has read everything knows the vault's status, its pending
\* deposits and their flags, and what each queued and stranded exit owes, to the
\* last part payment, stranding and claim.
ReplayAgrees ==
  window = <<>> =>
    /\ StatusDiff = {}
    /\ chain.pending = [id \in DOMAIN pending |-> Seen(pending[id])]
    /\ OnChain(chain.exits) = exits
    /\ OnChain(chain.stranded) = stranded
    /\ chain.queued = queued_limits
    /\ chain.limits \subseteq {limits}
    /\ chain.leaves = Len(leaves)

\* A service that starts again from its tables has the state it stopped with,
\* whatever changes of an exit came in one window: queued, part paid, stranded
\* and moved by claims to new exits, which may strand and be claimed again.
ReloadAgrees ==
  /\ LoadedPending = chain.pending
  /\ loadExits(FALSE) = chain.exits
  /\ loadExits(TRUE) = chain.stranded

\* A response of the indexer shows every exit once, also when a window is
\* committed between its reading of the state and of the tables, and what it
\* shows as paid of one it shows as resolved or owed is what releases paid.
ServedOnce ==
  /\ \A upTo \in {OLDER, LAST} :
       LET list == IF upTo = LAST THEN Listed(chain) ELSE before
       IN /\ list.live \cap ResolvedExits(upTo) = {}
          /\ list.live \cup ResolvedExits(upTo) = 1 .. list.tail - 1
  /\ \A id \in ResolvedExits(LAST) :
       db.paid[id] = [payout |-> db.exits[id].payout - Moved(id).payout,
                      fee |-> db.exits[id].fee - Moved(id).fee]
  /\ \A id \in DOMAIN chain.exits : db.paid[id] = Paid(chain.exits[id])
  /\ \A id \in DOMAIN chain.stranded : db.paid[id] = Paid(chain.stranded[id])

\* The copy of the vault that every service works from is the vault: each window
\* is accepted, the state after it is the vault's, and so is the one read back
\* from the tables after a restart.
ReplayFaithful == ReplayAccepts /\ ReplayAgrees /\ ReloadAgrees

============================================================================
