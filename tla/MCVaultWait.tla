---------------------------- MODULE MCVaultWait ----------------------------
(***************************************************************************)
(* Values of the constants for the waiting times of queued exits.          *)
(***************************************************************************)
EXTENDS VaultWait

CONSTANTS a1, a2

NativeLimits ==
  [min_deposit |-> 1, max_deposit |-> 9, max_daily_per_depositor |-> 9,
   tvl_cap |-> 9, max_daily_outflow |-> 3, max_fee |-> 1,
   large_deposit_threshold |-> 10]

None == {}

============================================================================
