------------------------------ MODULE MCReplay -----------------------------
(***************************************************************************)
(* Values of the constants for the replay of the vault's events.           *)
(***************************************************************************)
EXTENDS Replay

CONSTANTS a1, a2

MkLimits(max, daily, cap, out, large) ==
  [min_deposit |-> 1, max_deposit |-> max, max_daily_per_depositor |-> daily,
   tvl_cap |-> cap, max_daily_outflow |-> out, max_fee |-> 1,
   large_deposit_threshold |-> large]

\* The limits of a vault that pays, and a tightening whose event makes them
\* known to the services.
ExitLimits  == MkLimits(4, 4, 4, 2, 9)
ExitChoices == {MkLimits(3, 4, 4, 2, 9)}

\* What the guardian chooses from: its first limits, a tightening of the cap,
\* a loosening of the cap that the window allows, one of both, a smaller
\* window, and a cap that the window does not allow.
GuardianLimits  == MkLimits(3, 4, 2, 1, 9)
GuardianChoices == {GuardianLimits, MkLimits(3, 4, 1, 1, 9), MkLimits(3, 4, 4, 2, 9),
                    MkLimits(3, 4, 1, 2, 1), MkLimits(3, 4, 4, 1, 9)}

None       == {}
BothPauses == {<<FALSE, FALSE>>, <<TRUE, TRUE>>}

============================================================================
