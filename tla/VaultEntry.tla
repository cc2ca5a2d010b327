----------------------------- MODULE VaultEntry ----------------------------
(***************************************************************************)
(* The entry gate of the vault: a deposit waits in the entry queue until   *)
(* the ASP (the screening service's key) attests it and its delay has      *)
(* passed, and can be taken back until then.  contracts/vault/src/lib.rs.  *)
(***************************************************************************)
EXTENDS VaultState

\* The circuit and the checks of proof.rs for a deposit: against the empty
\* root every input is a dummy, so the outputs hold exactly the amount.
check_deposit_proof(amount, output0, output1, deadline) ==
  /\ output0 + output1 = amount
  /\ deadline >= now

\* depositor queues a deposit of amount in two notes.
shield(depositor, amount, output0, output1, deadline) ==
  LET spent_today == IF day_total[depositor].day = today
                     THEN day_total[depositor].total ELSE 0
      deposit == [depositor |-> depositor, amount |-> amount,
                  output0 |-> output0, output1 |-> output1,
                  created_at |-> now, delay |-> delay(amount),
                  flag |-> 0, flagged_at |-> 0]
  IN /\ ~halted
     /\ ~deposits_paused
     /\ amount >= limits.min_deposit
     /\ amount =< limits.max_deposit
     /\ spent_today + amount =< limits.max_daily_per_depositor
     /\ tvl + amount =< limits.tvl_cap
     /\ has_room(Len(leaves))
     /\ check_deposit_proof(amount, output0, output1, deadline)
     \* the token transfer from the depositor
     /\ accounts[depositor] \in {"open", "full"}
     /\ vault_authorized
     /\ balance' = balance + amount
     /\ pending' = Put(pending, next_deposit_id, deposit)
     /\ next_deposit_id' = next_deposit_id + 1
     /\ pending_total' = pending_total + amount
     /\ tvl' = tvl + amount
     /\ day_total' = [day_total EXCEPT ![depositor] =
                        [day |-> today, total |-> spent_today + amount]]
     /\ UNCHANGED <<now, guardianVars, attested_up_to, exitVars, treeVars,
                    accounts, account_min, vault_authorized, ghostVars>>

\* The ASP asserts that every unflagged deposit up to up_to passed screening.
attest(up_to) ==
  /\ ~halted
  /\ up_to > attested_up_to
  /\ up_to < next_deposit_id
  /\ attested_up_to' = up_to
  /\ UNCHANGED <<now, guardianVars, next_deposit_id, pending, pending_total,
                 day_total, exitVars, tvl, treeVars, assetVars, ghostVars>>

\* Variant with a fault: a second flag takes the time of the call.
flag_restamps(id, reason) ==
  /\ reason # 0
  /\ id \in DOMAIN pending
  /\ pending' = [pending EXCEPT ![id].flag = reason, ![id].flagged_at = now]
  /\ UNCHANGED <<now, guardianVars, next_deposit_id, attested_up_to, pending_total,
                 day_total, exitVars, tvl, treeVars, assetVars, ghostVars>>

\* The ASP refuses a deposit; a second flag keeps the time of the first.
flag(id, reason) ==
  /\ reason # 0
  /\ id \in DOMAIN pending
  /\ pending' = [pending EXCEPT ![id].flag = reason,
                   ![id].flagged_at = IF pending[id].flag = 0 THEN now ELSE @]
  /\ UNCHANGED <<now, guardianVars, next_deposit_id, attested_up_to, pending_total,
                 day_total, exitVars, tvl, treeVars, assetVars, ghostVars>>

unflag(id) ==
  /\ id \in DOMAIN pending
  /\ pending[id].flag # 0
  /\ pending' = [pending EXCEPT ![id].flag = 0, ![id].flagged_at = 0]
  /\ UNCHANGED <<now, guardianVars, next_deposit_id, attested_up_to, pending_total,
                 day_total, exitVars, tvl, treeVars, assetVars, ghostVars>>

\* The longer of the delays at shield time and now.
admission_delay(id) == Max2(pending[id].delay, delay(pending[id].amount))

\* Variant with a fault: the attestation is not looked at.
Eligible_unattested(id) ==
  /\ id \in DOMAIN pending
  /\ pending[id].flag = 0
  /\ now >= pending[id].created_at + admission_delay(id)

Eligible(id) ==
  /\ id \in DOMAIN pending
  /\ pending[id].flag = 0
  /\ id =< attested_up_to
  /\ now >= pending[id].created_at + admission_delay(id)

\* The amounts of the deposits of ids, by ID: 0 elsewhere.
PendingAmounts(ids) ==
  [i \in 1 .. next_deposit_id - 1 |->
     IF i \in ids /\ i \in DOMAIN pending THEN pending[i].amount ELSE 0]

\* The k-th smallest of a set of IDs.
KthId(ids, k) == CHOOSE i \in ids : Cardinality({j \in ids : j =< i}) = k

\* The output values of the deposits of ids, a pair for each in ID order.
OutputValues(ids) ==
  [k \in 1 .. 2 * Cardinality(ids) |->
     LET deposit == pending[KthId(ids, (k + 1) \div 2)]
     IN IF k % 2 = 1 THEN deposit.output0 ELSE deposit.output1]

\* Variant with a fault: subtracts skipped deposits from the pending total too.
admit_all_counted(ids) ==
  LET admitted == {id \in ids : Eligible(id)}
  IN /\ ~halted
     /\ admitted # {}
     /\ has_room(Len(leaves) + 2 * (Cardinality(admitted) - 1))
     /\ append(OutputValues(admitted))
     /\ pending' = Drop(pending, admitted)
     /\ pending_total' =
          pending_total - SumTo(PendingAmounts(ids), next_deposit_id - 1)
     /\ UNCHANGED <<now, guardianVars, next_deposit_id, attested_up_to, day_total,
                    exitVars, tvl, nullifiers, assetVars, ghostVars>>

\* Anyone inserts the commitments of the eligible deposits among ids (an
\* ascending list, so a set); the whole call fails if one finds no room.
admit(ids) ==
  LET admitted == {id \in ids : Eligible(id)}
  IN /\ ~halted
     /\ admitted # {}
     /\ has_room(Len(leaves) + 2 * (Cardinality(admitted) - 1))
     /\ append(OutputValues(admitted))
     /\ pending' = Drop(pending, admitted)
     /\ pending_total' =
          pending_total - SumTo(PendingAmounts(admitted), next_deposit_id - 1)
     /\ UNCHANGED <<now, guardianVars, next_deposit_id, attested_up_to, day_total,
                    exitVars, tvl, nullifiers, assetVars, ghostVars>>

\* A pending deposit goes back to the depositor recorded at shield.
return_deposit(id) ==
  LET deposit == pending[id]
  IN /\ pending' = Drop(pending, {id})
     /\ tvl' = tvl - deposit.amount
     /\ pending_total' = pending_total - deposit.amount
     \* the token transfer, which fails the call when it is refused
     /\ Accepts(accounts, deposit.depositor, deposit.amount)
     /\ vault_authorized
     /\ balance >= deposit.amount
     /\ balance' = balance - deposit.amount
     /\ accounts' = Credited(accounts, deposit.depositor, deposit.amount)
     /\ UNCHANGED <<now, guardianVars, next_deposit_id, attested_up_to, day_total,
                    exitVars, treeVars, account_min, vault_authorized, ghostVars>>

\* The depositor takes the deposit back, flagged or not, halted or not.
cancel(id) ==
  /\ id \in DOMAIN pending
  /\ return_deposit(id)

\* Anyone returns a deposit flagged long enough ago.
refund(id) ==
  /\ id \in DOMAIN pending
  /\ pending[id].flag # 0
  /\ now >= pending[id].flagged_at + REFUND_DELAY
  /\ return_deposit(id)

============================================================================
