------------------------------ MODULE MCKeeper -----------------------------
(***************************************************************************)
(* The keeper's jobs for the model checker.  The jobs on the queues and the *)
(* TTL cycle share no state: the first state says which of them a behaviour *)
(* is about.                                                                *)
(***************************************************************************)
EXTENDS Keeper, KeeperTTL

CONSTANTS a1, a2

VARIABLE about

NativeLimits ==
  [min_deposit |-> 1, max_deposit |-> 9, max_daily_per_depositor |-> 9, tvl_cap |-> 9,
   max_daily_outflow |-> 4, max_fee |-> 1, large_deposit_threshold |-> 9]
None == {}

Queues == about = "queues" /\ UNCHANGED <<about, ttlVars>>
TTL == about = "ttl" /\ UNCHANGED <<about, vars, keeperVars>>

MCInit ==
  \/ /\ about = "queues"
     /\ live = [e \in Entries |-> CHOOSE l \in Lives : l # 0] /\ rate = [e \in Entries |-> 1]
     /\ KeeperInit /\ TTLInit
  \/ /\ about = "ttl"
     /\ pending = DepositQueue /\ accounts = [a \in Accounts |-> "open"]
     /\ account_min = NATIVE_ACCOUNT_MIN
     /\ KeeperInit /\ TTLInit

MCNext ==
  \/ Queues /\ Apply
  \/ Queues /\ ReadAdmission
  \/ Queues /\ Admit
  \/ Queues /\ ReadRefunds
  \/ Queues /\ Refund
  \/ Queues /\ ReadRelease
  \/ Queues /\ SendRelease
  \/ Queues /\ Release
  \/ Queues /\ ReadClaims
  \/ Queues /\ SendClaim
  \/ Queues /\ Claim
  \/ Queues /\ Others
  \/ Queues /\ Clock
  \/ TTL /\ BeginCycle
  \/ TTL /\ restore
  \/ TTL /\ extendBatch
  \/ TTL /\ refuse
  \/ TTL /\ stop
  \/ TTL /\ extend
  \/ TTL /\ nextGroup
  \/ TTL /\ nullifierRun
  \/ TTL /\ judge
  \/ TTL /\ Watch
  \/ TTL /\ Hour
  \/ TTL /\ Network
  \/ TTL /\ Restart

MCSpec == MCInit /\ [][MCNext]_<<about, vars, keeperVars, ttlVars>>

============================================================================
