----------------------------- MODULE VaultQueue ----------------------------
(***************************************************************************)
(* The vault implements the queue of deposits that the services around it  *)
(* rely on.                                                                *)
(***************************************************************************)
EXTENDS Vault

\* A pending deposit as the services see it: its stored delay is the least
\* wait that admission can ask for.
PendingView ==
  [id \in DOMAIN pending |->
     [eligible_at |-> pending[id].created_at + pending[id].delay,
      flag |-> pending[id].flag, flagged_at |-> pending[id].flagged_at]]

Queue == INSTANCE Deposits WITH
           pending  <- PendingView,
           inserted <- Len(leaves) \div 2,
           Delays   <- {DelaySmall, DelayLarge}

\* Every call of the vault, under any limits and whatever the issuer does, is a
\* step of the queue of deposits or leaves it as it is: no deposit enters the
\* tree unattested, flagged or before the delay it was made with.
QueueImplemented == Queue!DepositsSpec

============================================================================
