--------------------------- MODULE VaultGuardian ---------------------------
(***************************************************************************)
(* The guardian's powers over the vault: pausing, halting for a bounded    *)
(* time, and changing the limits, a loosening only after a delay.          *)
(* contracts/vault/src/lib.rs.                                             *)
(***************************************************************************)
EXTENDS VaultState

set_pause(deposits, transfers) ==
  /\ deposits_paused' = deposits
  /\ transfers_paused' = transfers
  /\ UNCHANGED <<now, limits, queued_limits, halted_until, next_halt_at, entryVars,
                 exitVars, tvl, treeVars, assetVars, ghostVars>>

halt ==
  /\ now >= next_halt_at
  /\ halted_until' = now + HALT_DURATION
  /\ next_halt_at' = now + HALT_DURATION + HALT_COOLDOWN
  /\ UNCHANGED <<now, limits, queued_limits, deposits_paused, transfers_paused,
                 entryVars, exitVars, tvl, treeVars, assetVars, ghostVars>>

\* Variant with a fault: an early end lets the next halt follow at once.
resume_no_cooldown ==
  /\ halted
  /\ halted_until' = now
  /\ next_halt_at' = now
  /\ UNCHANGED <<now, limits, queued_limits, deposits_paused, transfers_paused,
                 entryVars, exitVars, tvl, treeVars, assetVars, ghostVars>>

resume ==
  /\ halted
  /\ halted_until' = now
  /\ next_halt_at' = now + HALT_COOLDOWN
  /\ UNCHANGED <<now, limits, queued_limits, deposits_paused, transfers_paused,
                 entryVars, exitVars, tvl, treeVars, assetVars, ghostVars>>

\* At this outflow a full pool can always leave within ExitDays.
check_limits(l) == l \in Limits /\ l.tvl_cap =< ExitDays * l.max_daily_outflow

\* Variant with a fault: the window may shrink.
check_change_shrinks(current, next) == check_limits(next)

check_change(current, next) ==
  /\ check_limits(next)
  /\ next.max_daily_outflow >= current.max_daily_outflow

tightening(current, next) ==
  /\ next.min_deposit >= current.min_deposit
  /\ next.max_deposit =< current.max_deposit
  /\ next.max_daily_per_depositor =< current.max_daily_per_depositor
  /\ next.tvl_cap =< current.tvl_cap
  /\ next.max_daily_outflow =< current.max_daily_outflow
  /\ next.max_fee =< current.max_fee
  /\ next.large_deposit_threshold =< current.large_deposit_threshold

limitsUnchanged == UNCHANGED <<now, deposits_paused, transfers_paused, halted_until,
                               next_halt_at, entryVars, exitVars, tvl, treeVars,
                               assetVars, due, clawed>>

\* Variant with a fault: a tightening leaves the queued loosening in place.
set_limits_keeps_queued(next) ==
  /\ check_change(limits, next)
  /\ IF tightening(limits, next)
     THEN limits' = next /\ limits_since' = now /\ UNCHANGED queued_limits
     ELSE /\ queued_limits' = {[limits |-> next, ready_at |-> now + LOOSENING_DELAY]}
          /\ UNCHANGED <<limits, limits_since>>
  /\ limitsUnchanged

\* A tightening applies at once and cancels a queued loosening; a loosening is queued.
set_limits(next) ==
  /\ check_change(limits, next)
  /\ IF tightening(limits, next)
     THEN limits' = next /\ queued_limits' = {} /\ limits_since' = now
     ELSE /\ queued_limits' = {[limits |-> next, ready_at |-> now + LOOSENING_DELAY]}
          /\ UNCHANGED <<limits, limits_since>>
  /\ limitsUnchanged

\* Anyone applies the queued loosening once it is due.
apply_limits ==
  /\ \E queued \in queued_limits :
       /\ now >= queued.ready_at
       /\ check_change(limits, queued.limits)
       /\ limits' = queued.limits
  /\ queued_limits' = {}
  /\ limits_since' = now
  /\ limitsUnchanged

cancel_limits ==
  /\ queued_limits # {}
  /\ queued_limits' = {}
  /\ UNCHANGED <<limits, limits_since>>
  /\ limitsUnchanged

============================================================================
