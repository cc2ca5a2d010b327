----------------------------- MODULE VaultExit -----------------------------
(***************************************************************************)
(* Spending notes, and the exit queue of the vault: an exit is paid at     *)
(* once while nothing is queued and the day's outflow window has room, and *)
(* otherwise waits in ID order.  contracts/vault/src/lib.rs.               *)
(***************************************************************************)
EXTENDS VaultState

\* What the unspent notes of a set of leaves hold, by leaf.
NoteValues(spent) ==
  [i \in 1 .. Len(leaves) |-> IF i \in spent THEN 0 ELSE leaves[i]]

\* An input is a leaf, numbered from 1, or 0 for a dummy.
InputValue(in) == IF in = 0 THEN 0 ELSE leaves[in]

\* Variant with a fault: the nullifiers of earlier spends are not looked up.
check_inputs_respent(root, in0, in1, deadline) ==
  /\ deadline >= now
  /\ in0 = in1 => in0 = 0
  /\ knows_root(root)
  /\ {in0, in1} \subseteq 0 .. root

\* What transact takes from a proof that verifies (check_shape and check_spend
\* of proof.rs, and the circuit): two inputs with different nullifiers, the
\* real ones in the tree of a known root and unspent ...
check_inputs(root, in0, in1, deadline) ==
  /\ deadline >= now
  /\ in0 = in1 => in0 = 0
  /\ knows_root(root)
  /\ {in0, in1} \subseteq 0 .. root
  /\ {in0, in1} \cap nullifiers = {}

\* ... and value conserved.
check_value(in0, in1, output0, output1, payout, fee) ==
  InputValue(in0) + InputValue(in1) = output0 + output1 + payout + fee

\* The value of unspent notes as transact computes it.
Notes == tvl - pending_total - queued_total

\* The checks of transact before it spends anything.
check_exit(payout, fee, recipient, relayer) ==
  /\ ~halted
  /\ payout = 0 => ~transfers_paused /\ recipient = relayer
  /\ fee =< limits.max_fee
  /\ payout + fee =< limits.max_daily_outflow
  /\ payout + fee =< Notes
  /\ payout > 0 => can_receive(recipient, payout)
  /\ fee > 0 => can_receive(relayer, 0)
  /\ has_room(Len(leaves))

Spend(in0, in1, output0, output1) ==
  /\ nullifiers' = nullifiers \cup ({in0, in1} \ {0})
  /\ append(<<output0, output1>>)

\* Variant with a fault: what the day paid already is not counted.
Fits_whole_window(amount) ==
  amount > 0 => /\ exit_head = exit_tail
                /\ amount =< limits.max_daily_outflow

\* An exit that pays something fits when nothing is queued and the window has room.
Fits(amount) ==
  amount > 0 => /\ exit_head = exit_tail
                /\ outflow_today + amount =< limits.max_daily_outflow

\* A transfer (payout 0) or an unshield that is settled at once.
transact_settled(in0, in1, output0, output1, payout, fee, recipient, relayer) ==
  LET paid == Credited(accounts, recipient, payout)
  IN /\ check_value(in0, in1, output0, output1, payout, fee)
     /\ check_exit(payout, fee, recipient, relayer)
     /\ Fits(payout + fee)
     /\ Spend(in0, in1, output0, output1)
     \* the token transfers, either of which fails the call when refused
     /\ payout > 0 => Accepts(accounts, recipient, payout)
     /\ fee > 0 => Accepts(paid, relayer, fee)
     /\ payout + fee > 0 => vault_authorized /\ balance >= payout + fee
     /\ balance' = balance - (payout + fee)
     /\ accounts' = Credited(paid, relayer, fee)
     /\ tvl' = tvl - (payout + fee)
     /\ outflow_day' = today
     /\ outflow' = outflow_today + payout + fee
     /\ UNCHANGED <<now, guardianVars, entryVars, exit_head, exit_tail, exits,
                    stranded, queued_total, account_min, vault_authorized, ghostVars>>

Owe(p, f, recipient, relayer) ==
  [a \in Accounts |-> due[a] + (IF a = recipient THEN p ELSE 0)
                             + (IF a = relayer THEN f ELSE 0)]

\* A transfer or an unshield whose payments join the exit queue.
transact_queued(in0, in1, output0, output1, payout, fee, recipient, relayer) ==
  /\ check_value(in0, in1, output0, output1, payout, fee)
  /\ check_exit(payout, fee, recipient, relayer)
  /\ ~Fits(payout + fee)
  /\ Spend(in0, in1, output0, output1)
  /\ exits' = Put(exits, exit_tail,
                  [recipient |-> recipient, payout |-> payout,
                   relayer |-> relayer, fee |-> fee, queued_at |-> now])
  /\ exit_tail' = exit_tail + 1
  /\ queued_total' = queued_total + payout + fee
  /\ due' = Owe(payout, fee, recipient, relayer)
  /\ UNCHANGED <<now, guardianVars, entryVars, exit_head, stranded, outflow_day,
                 outflow, tvl, assetVars, clawed, limits_since>>

----------------------------------------------------------------------------
\* release: the loop over the head of the queue.  Its state s is what the
\* call keeps in memory or has already written when an iteration begins.

ReleaseStart ==
  [count |-> 0, head |-> exit_head, exits |-> exits, stranded |-> stranded,
   queued |-> queued_total, tvl |-> tvl, today |-> outflow_today,
   funds |-> balance, acc |-> accounts, due |-> due]

\* The exit at the head of the queue, and the room left in the day's window.
HeadExit(s) == s.exits[s.head]
Room(s)     == limits.max_daily_outflow - s.today

\* Payout first, then the fee, as far as the window reaches.
PayoutPart(s) == Min2(HeadExit(s).payout, Room(s))
FeePart(s)    == Min2(HeadExit(s).fee, Room(s) - PayoutPart(s))

\* Variant with a fault: waits with a payout that no window can make large enough.
WaitsForRoom_always(s) ==
  /\ PayoutPart(s) < NATIVE_ACCOUNT_MIN
  /\ is_missing_account(s.acc, HeadExit(s).recipient)
  /\ Native

\* A part too small to create the recipient's account waits for the next window.
WaitsForRoom(s) ==
  /\ PayoutPart(s) < NATIVE_ACCOUNT_MIN
  /\ HeadExit(s).payout >= NATIVE_ACCOUNT_MIN
  /\ is_missing_account(s.acc, HeadExit(s).recipient)
  /\ Native

\* Variant with a fault: tries to pay what the vault does not hold.
Stops_unfunded(s) ==
  \/ s.head >= exit_tail
  \/ Room(s) = 0
  \/ WaitsForRoom(s)

\* What ends the loop before max exits were handled.
Stops(s) ==
  \/ s.head >= exit_tail
  \/ Room(s) = 0
  \/ WaitsForRoom(s)
  \/ PayoutPart(s) + FeePart(s) > s.funds

\* The head exit is paid what its parties take of the part that fits, and
\* leaves the queue when it is settled or a transfer was refused.
PayHead(s) ==
  LET exit        == HeadExit(s)
      payout_paid == try_pay(s.acc, s.funds, exit.recipient, PayoutPart(s))
      acc1        == Credited(s.acc, exit.recipient, payout_paid)
      fee_paid    == try_pay(acc1, s.funds - payout_paid, exit.relayer, FeePart(s))
      paid        == payout_paid + fee_paid
      left        == [exit EXCEPT !.payout = @ - payout_paid, !.fee = @ - fee_paid]
      refused     == payout_paid < PayoutPart(s) \/ fee_paid < FeePart(s)
      settled     == left.payout = 0 /\ left.fee = 0
  IN [count    |-> s.count + 1,
      head     |-> IF refused \/ settled THEN s.head + 1 ELSE s.head,
      exits    |-> IF refused \/ settled THEN Drop(s.exits, {s.head})
                   ELSE Put(s.exits, s.head, left),
      stranded |-> IF refused THEN Put(s.stranded, s.head, left) ELSE s.stranded,
      queued   |-> s.queued - paid,
      tvl      |-> s.tvl - paid,
      today    |-> s.today + paid,
      funds    |-> s.funds - paid,
      acc      |-> Credited(acc1, exit.relayer, fee_paid),
      due      |-> [a \in Accounts |->
                      s.due[a] - (IF a = exit.recipient THEN payout_paid ELSE 0)
                               - (IF a = exit.relayer THEN fee_paid ELSE 0)]]

\* Variants with a fault: takes a refused part for paid; leaves behind an exit it
\* paid in part; and charges the fee to the payout of an exit it sets aside.
ReleaseStep_refused_counted(s) ==
  IF Stops(s) THEN s
  ELSE [PayHead(s) EXCEPT !.queued = s.queued - PayoutPart(s) - FeePart(s),
                          !.tvl = s.tvl - PayoutPart(s) - FeePart(s)]

ReleaseStep_skips(s) ==
  IF Stops(s) THEN s
  ELSE [PayHead(s) EXCEPT !.head = s.head + 1]

ReleaseStep_mixed(s) ==
  LET end == PayHead(s)
  IN IF Stops(s) THEN s
     ELSE IF s.head \in DOMAIN end.stranded
     THEN [end EXCEPT !.stranded[s.head].payout = HeadExit(s).payout - FeePart(s)]
     ELSE end

\* One iteration of the loop; once it stops, nothing changes any more.
ReleaseStep(s) == IF Stops(s) THEN s ELSE PayHead(s)

ReleaseLoop(n) ==
  LET it[k \in Nat] == IF k = 0 THEN ReleaseStart ELSE ReleaseStep(it[k - 1])
  IN it[n]

\* Anyone pays exits from the head of the queue, at most max of them.
release(max) ==
  LET end == ReleaseLoop(max)
  IN /\ ~halted
     /\ vault_authorized
     /\ end.count > 0
     /\ exit_head' = end.head
     /\ exits' = end.exits
     /\ stranded' = end.stranded
     /\ queued_total' = end.queued
     /\ tvl' = end.tvl
     /\ outflow_day' = today
     /\ outflow' = end.today
     /\ balance' = end.funds
     /\ accounts' = end.acc
     /\ due' = end.due
     /\ UNCHANGED <<now, guardianVars, entryVars, exit_tail, treeVars, account_min,
                    vault_authorized, clawed, limits_since>>

----------------------------------------------------------------------------
\* Variants with a fault: a claim takes on a debt that was owed already, or
\* leaves the part it moved stranded as well.
claim_recounts(id) ==
  LET exit   == stranded[id]
      payout == IF exit.payout > 0 /\ can_receive(exit.recipient, exit.payout)
                THEN exit.payout ELSE 0
      fee    == IF exit.fee > 0 /\ can_receive(exit.relayer, 0) THEN exit.fee ELSE 0
      left   == [exit EXCEPT !.payout = @ - payout, !.fee = @ - fee]
  IN /\ ~halted
     /\ payout + fee > 0
     /\ stranded' = IF left.payout = 0 /\ left.fee = 0 THEN Drop(stranded, {id})
                    ELSE Put(stranded, id, left)
     /\ exits' = Put(exits, exit_tail,
                     [exit EXCEPT !.payout = payout, !.fee = fee, !.queued_at = now])
     /\ exit_tail' = exit_tail + 1
     /\ queued_total' = queued_total + payout + fee
     /\ UNCHANGED <<now, guardianVars, entryVars, exit_head,
                    outflow_day, outflow, tvl, treeVars, assetVars, ghostVars>>

claim_whole(id) ==
  LET exit   == stranded[id]
      payout == IF exit.payout > 0 /\ can_receive(exit.recipient, exit.payout)
                THEN exit.payout ELSE 0
      fee    == IF exit.fee > 0 /\ can_receive(exit.relayer, 0) THEN exit.fee ELSE 0
  IN /\ ~halted
     /\ payout + fee > 0
     /\ stranded' = Drop(stranded, {id})
     /\ exits' = Put(exits, exit_tail,
                     [exit EXCEPT !.payout = payout, !.fee = fee, !.queued_at = now])
     /\ exit_tail' = exit_tail + 1
     /\ UNCHANGED <<now, guardianVars, entryVars, exit_head, queued_total,
                    outflow_day, outflow, tvl, treeVars, assetVars, ghostVars>>

\* Anyone moves the parts of a stranded exit whose party can receive now to
\* the tail of the queue.
claim(id) ==
  LET exit   == stranded[id]
      payout == IF exit.payout > 0 /\ can_receive(exit.recipient, exit.payout)
                THEN exit.payout ELSE 0
      fee    == IF exit.fee > 0 /\ can_receive(exit.relayer, 0) THEN exit.fee ELSE 0
      left   == [exit EXCEPT !.payout = @ - payout, !.fee = @ - fee]
  IN /\ ~halted
     /\ id \in DOMAIN stranded
     /\ payout + fee > 0
     /\ stranded' = IF left.payout = 0 /\ left.fee = 0 THEN Drop(stranded, {id})
                    ELSE Put(stranded, id, left)
     /\ exits' = Put(exits, exit_tail,
                     [exit EXCEPT !.payout = payout, !.fee = fee, !.queued_at = now])
     /\ exit_tail' = exit_tail + 1
     /\ UNCHANGED <<now, guardianVars, entryVars, exit_head, queued_total,
                    outflow_day, outflow, tvl, treeVars, assetVars, ghostVars>>

============================================================================
