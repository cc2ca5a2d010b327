----------------------------- MODULE VaultWait -----------------------------
(***************************************************************************)
(* How long a queued exit waits.  Anyone may call release, and the keeper  *)
(* does so until the day's window is used (services/internal/keeper),      *)
(* which is the assumption behind wait_bound in                            *)
(* contracts/vault/src/test/exits.rs and wait_bound_creating in            *)
(* test/fresh.rs.  A day that ends before, since nobody called release,    *)
(* is one that every exit in the queue waits longer.                       *)
(***************************************************************************)
EXTENDS Vault

VARIABLES
  promise,  \* by queued exit, the last day on which it may still wait
  served    \* by queued exit, what it owed when it was queued and the earliest
            \* day the indexer ever served as its paid_by

waitVars == <<vars, promise, served>>

\* What every day pays at least while an exit waits: the window, of which
\* release leaves less than NATIVE_ACCOUNT_MIN for an account it would create.
DayPays == limits.max_daily_outflow - (IF Native THEN NATIVE_ACCOUNT_MIN - 1 ELSE 0)

\* The days after the first day boundary within which an exit queued when
\* owed was owed in all, its own part included, is paid in full.
wait_bound(owed) == (owed + DayPays - 1) \div DayPays

\* Variant with a fault: no room is set aside for an account to be created.
takes_owed(exit, queued_payout) == exit.payout + exit.fee

\* What the indexer reckons an exit takes from the windows: a first part that
\* creates the recipient's account may leave the rest of a window unused.
takes(exit, queued_payout) ==
  exit.payout + exit.fee
  + (IF Native /\ exit.payout > 0 /\ exit.payout = queued_payout
     THEN NATIVE_ACCOUNT_MIN - 1 ELSE 0)

\* The day at whose end the exit id, behind others that take owed from the
\* windows, is paid in full at the latest: the days the windows need for what is
\* owed up to it, from today or from the end of a halt.
paidBy(owed, at, haltedUntil, maxDaily, id) ==
  Max2(at, haltedUntil) \div Day + (SumTo(owed, id) + maxDaily - 1) \div maxDaily

\* release pays nothing more today.
WindowUsed == ReleaseLoop(1).count = 0

WaitInit == Init /\ promise = [i \in {} |-> 0] /\ served = [i \in {} |-> 0]

WaitNext ==
  /\ Next
  /\ LET wasted == IF now' \div Day # today /\ ~WindowUsed THEN 1 ELSE 0
         first  == [id \in DOMAIN exits' |->
                      IF id \in DOMAIN exits THEN served[id].payout ELSE exits'[id].payout]
         owed   == [id \in 1 .. exit_tail' - 1 |->
                      IF id \in DOMAIN exits' THEN takes(exits'[id], first[id]) ELSE 0]
     IN /\ promise' = [id \in DOMAIN exits' |->
                         IF id \in DOMAIN exits THEN promise[id] + wasted
                         ELSE today + wait_bound(queued_total')]
        /\ served' = [id \in DOMAIN exits' |->
                        LET by == paidBy(owed, now', halted_until', limits'.max_daily_outflow, id)
                        IN [payout |-> first[id],
                            day |-> IF id \in DOMAIN exits
                                    THEN Min2(served[id].day + wasted, by) ELSE by]]

WaitSpec == WaitInit /\ [][WaitNext]_waitVars

\* Every exit is paid or set aside within the bound it was given when it was
\* queued, and the days on which nobody called release, whatever is queued,
\* claimed, stranded or paid at once after it: no later exit takes window from
\* an earlier one, and no window goes unused.
PaidInTime == \A id \in DOMAIN exits : today =< promise[id]

\* No paid_by the indexer served for an exit, at any moment of its wait, turns
\* out too early, days on which nobody called release aside: the allowance of
\* one unused rest of a window for each exit is enough even when a recipient's
\* account goes missing again after a part was paid to it.
PaidByKept == \A id \in DOMAIN exits : today =< served[id].day

\* Both promises about a wait hold, whatever else the vault does meanwhile: the
\* bound the contract's tests state and every paid_by the indexer serves.
WaitsKept == PaidInTime /\ PaidByKept

============================================================================
