----------------------------- MODULE MCWatcher -----------------------------
(***************************************************************************)
(* The watcher in six behaviours, one chosen at the start: its copy under  *)
(* a primary RPC that may lie, attestations, heartbeats, and the checks    *)
(* that remember what they saw.                                            *)
(***************************************************************************)
EXTENDS Watcher, WatchChecks

VARIABLE about

\* What the primary may report of each kind: a payment is hidden or invented, a
\* leaf is hidden, an event breaks the vault's rules.
Reports == [quiet |-> {"quiet", "pay"}, leaf |-> {"leaf", "quiet"}, pay |-> {"pay", "quiet", "broken"}]
AttestKinds == {"attest", "unflag", "both", "limits", "admit", "halt", "drain"}

Copying == about = "copy" /\ UNCHANGED <<about, checkVars>>
Attesting == about = "attest" /\ UNCHANGED <<about, checkVars>>
Beating == about = "beat" /\ UNCHANGED <<about, checkVars>>
Watching == about \in {"copy", "attest", "beat"} /\ UNCHANGED <<about, checkVars>>
Checking(what) == about = what /\ UNCHANGED <<about, watchVars>>

MCInit == about \in {"copy", "attest", "beat", "operations", "governance", "ttl"} /\ WatchInit /\ ChecksInit

\* The second RPC falls behind in the first two ledgers, and answers for the third.
Seconds == IF Len(chain) < 2 THEN {second, Next1} ELSE {Next1}

MCNext ==
  \/ Copying /\ \E k \in DOMAIN Reports : \E r \in Reports[k], s \in Seconds : Close(k, r, Next1, s)
  \/ Attesting /\ \E k \in AttestKinds : Close(k, k, Next1, Next1)
  \/ Beating /\ \E p \in {primary, Next1} : Close("quiet", "quiet", p, Next1)
  \/ Watching /\ Len(chain) = MaxLedger /\ CatchUp
  \/ Copying /\ Correct
  \/ Copying /\ \E to \in To : Fault(to)
  \/ Watching /\ \E to \in To : Apply(to)
  \/ Attesting /\ \E to \in To : ApplyFails(to)
  \/ Watching /\ \E to \in To : ApplyUnanswered(to)
  \/ Watching /\ \E to \in To : ApplyCrash(to)
  \/ Watching /\ Restart
  \/ Attesting /\ judgeAttestation
  \/ Attesting /\ judgeDeferred
  \/ Attesting /\ RetryAttestations
  \/ Attesting /\ CheckAdmissions
  \/ Watching /\ (about = "attest" => inst # Instance /\ cursor = primary) /\ ReadVault
  \/ Watching /\ \E entries, health \in BOOLEAN : Reconcile(entries, health)
  \/ Watching /\ crossCheck
  \/ Copying /\ crossCheckFails
  \/ Watching /\ Beat
  \/ Checking("operations") /\ OperationsNext
  \/ Checking("governance") /\ GovernanceNext
  \/ Checking("ttl") /\ TTLNext

MCSpec == MCInit /\ [][MCNext]_<<about, watchVars, checkVars>>

============================================================================
