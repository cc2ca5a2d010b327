----------------------------- MODULE VaultState ----------------------------
(***************************************************************************)
(* The state of the shielded-pool vault of one asset                       *)
(* (contracts/vault/src/storage.rs, tree.rs), of the asset contract it     *)
(* pays through, and the helpers every entry point shares.                 *)
(*                                                                         *)
(* A call of an entry point is one atomic step: a call that returns an     *)
(* error, or whose token transfer traps, is rolled back by the host and    *)
(* changes nothing, so a refused call is the absence of a step.            *)
(*                                                                         *)
(* The vault never sees a note, only commitments and nullifiers.  The      *)
(* model keeps the values behind them: leaves[i] is the value of the note  *)
(* committed to by leaf i - 1, and a nullifier is named by the leaf it     *)
(* spends, since the circuit makes it a function of the note and of its    *)
(* position.  Dummy inputs have value 0 and nullifiers of their own.       *)
(***************************************************************************)
EXTENDS Sums, FiniteSets, Sequences

CONSTANTS
  Accounts,          \* addresses the vault pays: depositors, recipients, relayers
  Depositors,        \* the accounts that deposit
  Native,            \* whether the asset is XLM, whose payments create accounts
  Day,               \* lib.rs DAY, in clock units
  HALT_DURATION, HALT_COOLDOWN, LOOSENING_DELAY, REFUND_DELAY,
  NATIVE_ACCOUNT_MIN,
  ExitDays,          \* days a full pool may take to leave: 7 in check_limits
  CAPACITY,          \* leaves of the tree
  ROOT_HISTORY,      \* slots of the root ring
  DelaySmall, DelayLarge, InitialLimits  \* the constructor's arguments

VARIABLES
  now,               \* ledger().timestamp()
  limits, queued_limits,
  deposits_paused, transfers_paused, halted_until, next_halt_at

VARIABLES            \* the entry queue
  next_deposit_id, attested_up_to, pending, pending_total, day_total

VARIABLES            \* the exit queue and the outflow window
  exit_head, exit_tail, exits, stranded, queued_total, outflow_day, outflow

VARIABLES            \* the pool
  tvl, leaves, roots, newest, nullifiers

VARIABLES            \* the asset contract
  accounts, account_min, vault_authorized, balance

VARIABLES            \* history variables, read by no action
  due,               \* what each party is owed by unpaid exits
  clawed,            \* what the issuer took out of the vault's balance
  limits_since       \* when the limits last changed

guardianVars == <<limits, queued_limits, deposits_paused, transfers_paused,
                  halted_until, next_halt_at>>
entryVars    == <<next_deposit_id, attested_up_to, pending, pending_total, day_total>>
exitVars     == <<exit_head, exit_tail, exits, stranded, queued_total,
                  outflow_day, outflow>>
treeVars     == <<leaves, roots, newest, nullifiers>>
assetVars    == <<accounts, account_min, vault_authorized, balance>>
ghostVars    == <<due, clawed, limits_since>>
vars == <<now, guardianVars, entryVars, exitVars, tvl, treeVars, assetVars, ghostVars>>

----------------------------------------------------------------------------
\* Types

Limits == [min_deposit : Nat \ {0}, max_deposit : Nat,
           max_daily_per_depositor : Nat, tvl_cap : Nat,
           max_daily_outflow : Nat, max_fee : Nat,
           large_deposit_threshold : Nat]

\* The variable queued_limits is an Option: the set of the queued loosening, if any.
QueuedLimits == [limits : Limits, ready_at : Nat]

\* flag is the reason code, 0 for None (flag refuses code 0).
PendingDeposit == [depositor : Depositors, amount : Nat \ {0},
                   output0 : Nat, output1 : Nat,
                   created_at : Nat, delay : Nat, flag : Nat, flagged_at : Nat]

Exit == [recipient : Accounts, payout : Nat, relayer : Accounts, fee : Nat,
         queued_at : Nat]

\* What the asset contract knows of an account: it can take payments; it may
\* hold the asset but has no room for more (a trustline at its limit, an
\* account below its reserve); the issuer or a missing trustline keeps it from
\* holding the asset; or it does not exist.
AccountState == {"open", "full", "unauthorized", "missing"}

NoRoot == -1  \* a slot of the ring not yet written

----------------------------------------------------------------------------
\* Storage: set and remove of an entry keyed by an ID

Put(f, id, v) == [i \in DOMAIN f \cup {id} |-> IF i = id THEN v ELSE f[i]]
Drop(f, ids)  == [i \in DOMAIN f \ ids |-> f[i]]

Min2(a, b) == IF a =< b THEN a ELSE b
Max2(a, b) == IF a >= b THEN a ELSE b

halted == now < halted_until
today  == now \div Day

\* The outflow paid so far today; the window of a new day starts from zero.
outflow_today == IF outflow_day = today THEN outflow ELSE 0

\* The wait before admission an amount calls for under the current limits.
delay(amount) ==
  IF amount >= limits.large_deposit_threshold THEN DelayLarge ELSE DelaySmall

----------------------------------------------------------------------------
\* The asset contract, as the vault's calls see it

is_missing_account(acc, to) == acc[to] = "missing"

\* The vault's own judgement before it takes on an exit, from reads alone.
can_receive(to, amount) ==
  /\ is_missing_account(accounts, to) => Native /\ amount >= NATIVE_ACCOUNT_MIN
  /\ accounts[to] # "unauthorized"

\* Whether a transfer of amount to that account succeeds.  account_min is two
\* of the network's base reserves, which a contract cannot read.
Accepts(acc, to, amount) ==
  acc[to] \in IF Native /\ amount >= account_min THEN {"open", "missing"} ELSE {"open"}

\* A payment creates a missing account.
Credited(acc, to, amount) == IF amount > 0 THEN [acc EXCEPT ![to] = "open"] ELSE acc

\* What a transfer out of funds that must not fail the call pays: all of it, or
\* nothing when the party or the vault itself is kept from it.
try_pay(acc, funds, to, amount) ==
  IF amount > 0 /\ vault_authorized /\ amount =< funds /\ Accepts(acc, to, amount)
  THEN amount ELSE 0

----------------------------------------------------------------------------
\* The tree: a root is named by the number of leaves below it

has_room(next_leaf) == next_leaf + 2 =< CAPACITY

knows_root(root) == root # NoRoot /\ root \in {roots[s] : s \in 0 .. ROOT_HISTORY - 1}

\* Appender::append of n pairs of leaves and save: one root per pair.
append(values) ==
  LET n == Len(values) \div 2
      Hits(s) == {j \in 1 .. n : (newest + j) % ROOT_HISTORY = s}
  IN /\ leaves' = leaves \o values
     /\ newest' = (newest + n) % ROOT_HISTORY
     /\ roots' = [s \in 0 .. ROOT_HISTORY - 1 |->
                    IF Hits(s) = {} THEN roots[s]
                    ELSE Len(leaves) + 2 * (CHOOSE j \in Hits(s) :
                                              \A k \in Hits(s) : k =< j)]

============================================================================
