------------------------------- MODULE Vault -------------------------------
(***************************************************************************)
(* The vault contract as a whole: its constructor, its entry points under  *)
(* every interleaving of callers, the clock, and the asset contract and    *)
(* its issuer around it.                                                   *)
(***************************************************************************)
EXTENDS VaultEntry, VaultExit, VaultGuardian

CONSTANTS                 \* inputs the callers choose from
  Amounts,                \* deposit amounts
  Outputs,                \* values of a transaction's first output note
  Payouts, Fees, Reasons,
  Relayers,               \* the accounts that submit transactions for a fee
  Deadlines,              \* times a proof may name as its deadline
  ReleaseMax,             \* values of release's max
  Pauses,                 \* pairs the guardian may pass to set_pause
  Halts,                  \* whether the guardian halts the vault
  LimitChoices,           \* limits the guardian may set
  AccountStates,          \* states the issuer and the parties put accounts in
  AccountMins,            \* values of two base reserves
  VaultAuthorizations     \* what the issuer says of the vault itself

CONSTANTS                 \* bounds on what is otherwise unbounded
  MaxTime, MaxDeposits, MaxExits, MaxClawed

ASSUME ConstantAssumptions ==
  /\ Depositors \subseteq Accounts
  /\ Native \in BOOLEAN
  /\ Day \in Nat \ {0}
  /\ {HALT_DURATION, HALT_COOLDOWN, LOOSENING_DELAY, REFUND_DELAY} \subseteq Nat \ {0}
  /\ NATIVE_ACCOUNT_MIN \in Nat \ {0}
  /\ ExitDays \in Nat \ {0}
  /\ CAPACITY \in Nat
  /\ ROOT_HISTORY \in Nat \ {0}
  /\ {DelaySmall, DelayLarge} \subseteq Nat
  /\ Amounts \subseteq Nat \ {0}
  /\ Outputs \subseteq Nat
  /\ Payouts \subseteq Nat
  /\ Fees \subseteq Nat
  /\ Reasons \subseteq Nat
  /\ Relayers \subseteq Accounts
  /\ Deadlines \subseteq Nat
  /\ ReleaseMax \subseteq Nat
  /\ Pauses \subseteq BOOLEAN \X BOOLEAN
  /\ Halts \in BOOLEAN
  /\ AccountStates \subseteq AccountState
  /\ AccountMins \subseteq Nat \ {0}
  /\ VaultAuthorizations \subseteq BOOLEAN
  /\ MaxClawed \in Nat

\* What the constructor checks of its arguments.
ASSUME ConstructorChecks ==
  /\ DelaySmall =< DelayLarge
  /\ check_limits(InitialLimits)

\* The state the constructor leaves.
Init ==
  /\ now = 0
  /\ limits = InitialLimits
  /\ queued_limits = {}
  /\ deposits_paused = FALSE
  /\ transfers_paused = FALSE
  /\ halted_until = 0
  /\ next_halt_at = 0
  /\ next_deposit_id = 1
  /\ attested_up_to = 0
  /\ pending = [i \in {} |-> 0]
  /\ pending_total = 0
  /\ day_total = [d \in Depositors |-> [day |-> 0, total |-> 0]]
  /\ exit_head = 1
  /\ exit_tail = 1
  /\ exits = [i \in {} |-> 0]
  /\ stranded = [i \in {} |-> 0]
  /\ queued_total = 0
  /\ outflow_day = 0
  /\ outflow = 0
  /\ tvl = 0
  /\ leaves = <<>>
  /\ roots = [s \in 0 .. ROOT_HISTORY - 1 |-> IF s = 0 THEN 0 ELSE NoRoot]
  /\ newest = 0
  /\ nullifiers = {}
  /\ accounts \in [Accounts -> AccountStates]
  /\ account_min \in AccountMins
  /\ vault_authorized = TRUE
  /\ balance = 0
  /\ due = [a \in Accounts |-> 0]
  /\ clawed = 0
  /\ limits_since = 0

----------------------------------------------------------------------------
\* The environment: time, the parties' accounts, the network and the issuer

tick ==
  /\ now < MaxTime
  /\ now' = now + 1
  /\ UNCHANGED <<guardianVars, entryVars, exitVars, tvl, treeVars, assetVars, ghostVars>>

set_account(to, state) ==
  /\ accounts[to] # state
  /\ accounts' = [accounts EXCEPT ![to] = state]
  /\ UNCHANGED <<now, guardianVars, entryVars, exitVars, tvl, treeVars, account_min,
                 vault_authorized, balance, ghostVars>>

set_reserve(min) ==
  /\ account_min # min
  /\ account_min' = min
  /\ UNCHANGED <<now, guardianVars, entryVars, exitVars, tvl, treeVars, accounts,
                 vault_authorized, balance, ghostVars>>

authorize_vault(allowed) ==
  /\ vault_authorized # allowed
  /\ vault_authorized' = allowed
  /\ UNCHANGED <<now, guardianVars, entryVars, exitVars, tvl, treeVars, accounts,
                 account_min, balance, ghostVars>>

\* An issuer with clawback enabled takes from the vault's balance.
claw_back ==
  /\ clawed < MaxClawed
  /\ balance > 0
  /\ balance' = balance - 1
  /\ clawed' = clawed + 1
  /\ UNCHANGED <<now, guardianVars, entryVars, exitVars, tvl, treeVars, accounts,
                 account_min, vault_authorized, due, limits_since>>

----------------------------------------------------------------------------
DepositIds == 1 .. next_deposit_id - 1

Entry ==
  \/ /\ next_deposit_id =< MaxDeposits
     /\ \E d \in Depositors, amount \in Amounts, output0 \in Outputs,
           deadline \in Deadlines :
          output0 =< amount /\ shield(d, amount, output0, amount - output0, deadline)
  \/ \E id \in DepositIds : attest(id)
  \/ \E id \in DepositIds, reason \in Reasons : flag(id, reason)
  \/ \E id \in DepositIds : unflag(id)
  \/ \E ids \in SUBSET DepositIds : admit(ids)
  \/ \E id \in DepositIds : cancel(id)
  \/ \E id \in DepositIds : refund(id)

\* The roots a proof can be made against, and its inputs: the leaves that hold
\* something and 0 for a dummy.  Which input is the first makes no difference.
Roots  == {r \in 0 .. Len(leaves) : r % 2 = 0}
Inputs == {0} \cup {i \in 1 .. Len(leaves) : leaves[i] > 0}

\* The pairs of inputs that a proof can spend now.
Spendable == {in \in Inputs \X Inputs :
                /\ in[1] =< in[2]
                /\ \E root \in Roots, deadline \in Deadlines :
                     check_inputs(root, in[1], in[2], deadline)}

Transactions ==
  \E in \in Spendable, payout \in Payouts, fee \in Fees, output0 \in Outputs,
     recipient \in Accounts, relayer \in Relayers :
    LET output1 == InputValue(in[1]) + InputValue(in[2]) - payout - fee - output0
    IN /\ output1 >= 0
       /\ \/ transact_settled(in[1], in[2], output0, output1, payout, fee,
                              recipient, relayer)
          \/ /\ exit_tail =< MaxExits
             /\ transact_queued(in[1], in[2], output0, output1, payout, fee,
                                recipient, relayer)

Exits ==
  \/ Transactions
  \/ \E max \in ReleaseMax : release(max)
  \/ \E id \in DOMAIN stranded : exit_tail =< MaxExits /\ claim(id)

Guardian ==
  \/ \E p \in Pauses : set_pause(p[1], p[2])
  \/ Halts /\ halt
  \/ resume
  \/ \E l \in LimitChoices : set_limits(l)
  \/ apply_limits
  \/ cancel_limits

Environment ==
  \/ tick
  \/ \E a \in Accounts, state \in AccountStates : set_account(a, state)
  \/ \E min \in AccountMins : set_reserve(min)
  \/ \E allowed \in VaultAuthorizations : authorize_vault(allowed)
  \/ claw_back

Next == Entry \/ Exits \/ Guardian \/ Environment

Spec == Init /\ [][Next]_vars

----------------------------------------------------------------------------
\* The types of the vault's variables, by the part of the vault they belong to.
GuardianTypeOK ==
  /\ limits \in Limits
  /\ queued_limits \subseteq QueuedLimits
  /\ deposits_paused \in BOOLEAN
  /\ transfers_paused \in BOOLEAN
  /\ halted_until \in Nat
  /\ next_halt_at \in Nat

EntryTypeOK ==
  /\ next_deposit_id \in Nat \ {0}
  /\ attested_up_to \in Nat
  /\ DOMAIN pending \subseteq 1 .. next_deposit_id - 1
  /\ pending \in [DOMAIN pending -> PendingDeposit]
  /\ pending_total \in Int
  /\ day_total \in [Depositors -> [day : Nat, total : Nat]]

ExitTypeOK ==
  /\ exit_head \in Nat \ {0}
  /\ exit_tail \in Nat \ {0}
  /\ exits \in [DOMAIN exits -> Exit]
  /\ stranded \in [DOMAIN stranded -> Exit]
  /\ queued_total \in Int
  /\ outflow_day \in Nat
  /\ outflow \in Nat

TreeTypeOK ==
  /\ leaves \in Seq(Nat)
  /\ roots \in [0 .. ROOT_HISTORY - 1 -> Nat \cup {NoRoot}]
  /\ newest \in 0 .. ROOT_HISTORY - 1
  /\ nullifiers \subseteq 1 .. Len(leaves)

AssetTypeOK ==
  /\ accounts \in [Accounts -> AccountState]
  /\ account_min \in Nat
  /\ vault_authorized \in BOOLEAN
  /\ balance \in Int

\* The type of every variable of the vault.
TypeOK ==
  /\ now \in Nat
  /\ tvl \in Int
  /\ GuardianTypeOK
  /\ EntryTypeOK
  /\ ExitTypeOK
  /\ TreeTypeOK
  /\ AssetTypeOK
  /\ due \in [Accounts -> Int]
  /\ clawed \in Nat
  /\ limits_since \in Nat

----------------------------------------------------------------------------
\* What is owed to account a, or to everyone, by the exits of f, by ID.
OwedTo(f, a) ==
  [i \in 1 .. exit_tail - 1 |->
     IF i \in DOMAIN f
     THEN (IF f[i].recipient = a THEN f[i].payout ELSE 0)
          + (IF f[i].relayer = a THEN f[i].fee ELSE 0)
     ELSE 0]
Owed(f) ==
  [i \in 1 .. exit_tail - 1 |->
     IF i \in DOMAIN f THEN f[i].payout + f[i].fee ELSE 0]

PendingValue == SumTo(PendingAmounts(DepositIds), next_deposit_id - 1)
OwedValue    == SumTo(Owed(exits), exit_tail - 1) + SumTo(Owed(stranded), exit_tail - 1)
UnspentValue == SumTo(NoteValues(nullifiers), Len(leaves))

\* pending_total is the sum of the pending deposits: what shield added, admit,
\* cancel and refund each took away exactly once.
PendingAccounted == pending_total = PendingValue

\* queued_total is what queued and stranded exits still owe, through part
\* payments, strandings and claims.
ExitsAccounted == queued_total = OwedValue

\* No value is created or lost: the TVL is the unspent notes, the pending
\* deposits and the exits still owed, so no note is spent twice and no refused
\* or repeated step of a deposit or of an exit pays twice.
ValueConserved == tvl = PendingValue + OwedValue + UnspentValue

\* The vault holds the TVL, less only what the issuer clawed back.
Solvent == balance + clawed = tvl

\* Each party is owed by queued and stranded exits exactly what the exits that
\* named it promised and did not yet pay it: a release that pays in part, a
\* stranding and a claim of one part never pay a party twice or another's share.
PartiesOwed ==
  \A a \in Accounts :
    due[a] = SumTo(OwedTo(exits, a), exit_tail - 1)
             + SumTo(OwedTo(stranded, a), exit_tail - 1)

\* The queue holds exactly the exits from its head to its tail, so exits leave
\* it in ID order; a stranded exit has left it; and each still owes something.
QueueInOrder ==
  /\ exit_head =< exit_tail
  /\ DOMAIN exits = exit_head .. exit_tail - 1
  /\ DOMAIN stranded \subseteq 1 .. exit_head - 1
  /\ \A i \in DOMAIN exits : exits[i].payout + exits[i].fee > 0
  /\ \A i \in DOMAIN stranded : stranded[i].payout + stranded[i].fee > 0

\* No day pays out more than the window, and every exit still owed fits into
\* one whole window, so that none can block the queue for good.
WindowRespected ==
  /\ outflow_today =< limits.max_daily_outflow
  /\ \A i \in DOMAIN exits : exits[i].payout + exits[i].fee =< limits.max_daily_outflow
  /\ \A i \in DOMAIN stranded :
       stranded[i].payout + stranded[i].fee =< limits.max_daily_outflow

\* A full pool can leave within ExitDays windows, whatever the guardian did to
\* the limits since the deposits were made.
PoolCanLeave == tvl =< ExitDays * limits.max_daily_outflow

\* A deposit made after an attestation is never covered by it.
AttestedExist == attested_up_to < next_deposit_id

\* An exit is set aside only because one of its own parties cannot receive:
\* never because the issuer froze the vault, or because it ran out of funds.
StrandedForCause ==
  [][\A id \in DOMAIN stranded' \ DOMAIN stranded :
       \E party \in {stranded'[id].recipient, stranded'[id].relayer} :
         accounts[party] # "open"]_vars

\* Users get HALT_COOLDOWN between the end of one halt, early or not, and the
\* start of the next.
HaltsApart ==
  [][halted_until' > halted_until /\ halted_until > 0
       => now >= halted_until + HALT_COOLDOWN]_vars

\* Limits are loosened only LOOSENING_DELAY after they last changed, so a
\* loosening queued before a tightening never undoes it without new notice.
LooseningGivesNotice ==
  [][limits' # limits /\ ~tightening(limits, limits')
       => now >= limits_since + LOOSENING_DELAY]_vars

============================================================================
