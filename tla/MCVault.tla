------------------------------ MODULE MCVault ------------------------------
(***************************************************************************)
(* Values of the vault's constants for the model checker.                  *)
(***************************************************************************)
EXTENDS VaultQueue

CONSTANTS a1, a2

MkLimits(max, daily, cap, out, large) ==
  [min_deposit |-> 1, max_deposit |-> max, max_daily_per_depositor |-> daily,
   tvl_cap |-> cap, max_daily_outflow |-> out, max_fee |-> 1,
   large_deposit_threshold |-> large]

EntryLimits == MkLimits(2, 3, 4, 2, 2)

None == {}

\* The entry queue by itself: no note is spent, the guardian is silent and the
\* asset has no issuer, while time passes and accounts come and go.
EntryNext ==
  \/ Entry
  \/ tick
  \/ \E a \in Accounts, state \in AccountStates : set_account(a, state)
  \/ \E min \in AccountMins : set_reserve(min)

EntrySpec == Init /\ [][EntryNext]_vars

============================================================================
