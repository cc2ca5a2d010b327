------------------------------ MODULE Deposits ------------------------------
(***************************************************************************)
(* What the entry queue of the vault promises the services around it: a    *)
(* deposit waits until it is attested, unflagged and past its delay, or    *)
(* goes back to its depositor.  contracts/vault/src/lib.rs without the     *)
(* amounts, the limits and the asset: the vault may refuse any call for    *)
(* reasons that this module does not see, so only steps are described.     *)
(***************************************************************************)
EXTENDS Integers, FiniteSets

CONSTANTS
  REFUND_DELAY,      \* how long after a flag anyone may refund the deposit
  Delays,            \* waits before admission that a deposit may call for
  Reasons,           \* reason codes a flag may name; 0 stands for no flag
  MaxTime, MaxDeposits

VARIABLES
  now,               \* ledger().timestamp()
  next_deposit_id, attested_up_to,
  pending,           \* the pending deposits, by ID
  inserted           \* pairs of commitments in the tree

depositVars == <<now, next_deposit_id, attested_up_to, pending, inserted>>

Ids == 1 .. next_deposit_id - 1

Without(f, ids) == [i \in DOMAIN f \ ids |-> f[i]]

DepositsInit ==
  /\ now = 0
  /\ next_deposit_id = 1
  /\ attested_up_to = 0
  /\ pending = [i \in {} |-> 0]
  /\ inserted = 0

passTime ==
  /\ now < MaxTime
  /\ now' = now + 1
  /\ UNCHANGED <<next_deposit_id, attested_up_to, pending, inserted>>

shield(delay) ==
  /\ next_deposit_id =< MaxDeposits
  /\ pending' = [i \in DOMAIN pending \cup {next_deposit_id} |->
                   IF i = next_deposit_id
                   THEN [eligible_at |-> now + delay, flag |-> 0, flagged_at |-> 0]
                   ELSE pending[i]]
  /\ next_deposit_id' = next_deposit_id + 1
  /\ UNCHANGED <<now, attested_up_to, inserted>>

attest(up_to) ==
  /\ up_to > attested_up_to
  /\ up_to < next_deposit_id
  /\ attested_up_to' = up_to
  /\ UNCHANGED <<now, next_deposit_id, pending, inserted>>

flag(id, reason) ==
  /\ reason # 0
  /\ id \in DOMAIN pending
  /\ pending' = [pending EXCEPT ![id].flag = reason,
                   ![id].flagged_at = IF pending[id].flag = 0 THEN now ELSE @]
  /\ UNCHANGED <<now, next_deposit_id, attested_up_to, inserted>>

unflag(id) ==
  /\ id \in DOMAIN pending
  /\ pending[id].flag # 0
  /\ pending' = [pending EXCEPT ![id].flag = 0, ![id].flagged_at = 0]
  /\ UNCHANGED <<now, next_deposit_id, attested_up_to, inserted>>

\* The deposits that anyone may have inserted into the tree.
Admissible ==
  {id \in DOMAIN pending : /\ pending[id].flag = 0
                           /\ id =< attested_up_to
                           /\ now >= pending[id].eligible_at}

admit(ids) ==
  /\ ids # {}
  /\ ids \subseteq Admissible
  /\ pending' = Without(pending, ids)
  /\ inserted' = inserted + Cardinality(ids)
  /\ UNCHANGED <<now, next_deposit_id, attested_up_to>>

cancel(id) ==
  /\ id \in DOMAIN pending
  /\ pending' = Without(pending, {id})
  /\ UNCHANGED <<now, next_deposit_id, attested_up_to, inserted>>

refund(id) ==
  /\ id \in DOMAIN pending
  /\ pending[id].flag # 0
  /\ now >= pending[id].flagged_at + REFUND_DELAY
  /\ pending' = Without(pending, {id})
  /\ UNCHANGED <<now, next_deposit_id, attested_up_to, inserted>>

\* A transaction of the pool inserts a pair too.
transact ==
  /\ inserted' = inserted + 1
  /\ UNCHANGED <<now, next_deposit_id, attested_up_to, pending>>

DepositsNext ==
  \/ passTime
  \/ \E delay \in Delays : shield(delay)
  \/ \E id \in Ids : attest(id)
  \/ \E id \in DOMAIN pending, reason \in Reasons : flag(id, reason)
  \/ \E id \in DOMAIN pending : unflag(id)
  \/ \E ids \in SUBSET DOMAIN pending : admit(ids)
  \/ \E id \in DOMAIN pending : cancel(id)
  \/ \E id \in DOMAIN pending : refund(id)
  \/ transact

DepositsSpec == DepositsInit /\ [][DepositsNext]_depositVars

=============================================================================
