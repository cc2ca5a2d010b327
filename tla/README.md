# A TLA+ development of the Cyphras vault and its services

Cyphras is a shielded pool on Stellar: a vault contract per asset takes deposits
into a Merkle tree of note commitments, moves value privately between notes,
and pays it out again. This directory holds a formal model of that system:
TLA+ modules translated from the source, TLC configurations that check them on
small instances, and proofs that TLAPS checks for every value of the constants.

    tlc -workers 2 -config MCVaultExit.cfg MCVaultWait   model-check one instance
    tlapm VaultProofs.tla                                check the proofs

`PROJECT.json` lists the components, the runs, the source lines behind every
definition, the hazards at the lines where they bite, and the theorems.

## 1. The system

| Component | State it keeps | Operations | Talks to |
|---|---|---|---|
| **vault contract** `contracts/vault/src/{lib,storage,proof}.rs` | limits and their queued loosening, pauses and halts, the entry queue, the exit queue with its stranded exits, the day's outflow, TVL, nullifiers | `shield` `transact` `release` `claim` `attest` `flag` `unflag` `admit` `cancel` `refund` `set_pause` `halt` `resume` `set_limits` `apply_limits` `cancel_limits` | asset contract, verifier |
| **commitment tree** `contracts/vault/src/tree.rs` | frontier, next leaf, ring of the last 256 roots | `init` `append` `knows_root` | vault |
| **circuit** `circuits/src/transaction.circom` | none | proves that two inputs are in the tree, distinct, and worth what leaves | vault via its verifier |
| **verifier, poseidon2** `contracts/{verifier,poseidon2}` | none | pairing check, hash | vault |
| **submit** `services/internal/submit` | one lock and cached sequence per account | `Prepare` `Send` `Track` `Lookup` `Do` | RPC; keeper, screening, relayer |
| **keeper** `services/internal/keeper` | back-off memos in memory | admission, release, claim, refund, unflag, TTL extension and health jobs, each on its own timer | vault, submit |
| **screening** `services/internal/screening` | Postgres: checks, flags, lifts, attested mark, operator queue | a tick that settles, runs operators' orders, checks, flags and attests | vault, submit, sources |
| **relayer** `services/internal/relayer` | in-flight nullifiers, held requests, channels, exit slot, cooldowns, breakers, quotes, losses | `Submit` `hold` `CancelHeld` `send` `follow` `finish` `Refresh` | submit, screening, RPC |
| **follow, chainstate** `services/internal/{follow,chainstate}` | the vault rebuilt from its events, the next ledger | ingest a window, apply a transaction's events under the vault's rules | RPC, archives |
| **indexer** `services/internal/indexer` | Postgres copy of leaves, nullifiers and queues | ingest, reconcile, serve in bulk | chainstate, RPC |
| **watcher** `services/internal/watcher` | its own rebuild, alarms | compares two RPCs, the indexer and its rebuild on every ledger | alert |
| **alert** `services/internal/alert` | queue of raised and cleared alarms, stored | `Raise` `Clear`, delivery with retries | webhooks |
| **archives** `services/internal/{archive,vaultarchive}` | append-only files of events, windows with hashes | append, build, mirror, read | follow, indexer |
| **reads and plumbing** `services/internal/{rpc,horizon,freeze,vault,tree,groth16,fr,poseidon2,service,config,httpapi}` | none or a small cache | decode, encode, verify, serve | all services |
| **SDK wallet** `sdk/private/src/wallet` | notes, plans, deposits, exits and a cursor, in a store shared by instances | `sync` `spend` `deposit` `cancel` `resume`, archive recovery | indexer, relayer, RPC |
| **SDK base** `sdk/private/src/{vault,net}`, keys, notes, proofs | none | encode, call, verify | wallet |
| **ceremony, deployments** `circuits/ceremony`, `deployments` | transcripts, addresses | scripts | – |

What is hard in it, and where the properties come from:

* **The exit queue** pays in order, in parts when the day's window ends, and
  sets aside what a party cannot receive; parts of one exit are paid, stranded
  and claimed separately over days, and each must be paid exactly once.
* **Limits move under the queue.** The guardian tightens at once and loosens
  with notice; the window must still let a full pool leave within seven days.
* **Screening races deposits.** Deposits arrive between a decision and its
  attestation; flags, lifts and attestations cross in flight.
* **Transactions with unknown fate.** A send may time out after the network
  took it; a retry must neither repeat it nor report it lost.
* **Several jobs per account, several services per vault**, each acting on a
  read that may be a ledger old.
* **Rebuilding from events.** Every service holds a copy of the vault built
  from an event stream with gaps, restarts, archives and sources that differ.
* **Watching.** Alarms must be raised through failed reads, restarts and a
  source that lies, and must not be raised by an honest one that is late.

## 2. What is modelled

| Module | Models | Notes |
|---|---|---|
| `VaultState` | `storage.rs`, the shared helpers of `lib.rs`, the tree as the vault sees it, the asset contract | state variables, types |
| `VaultEntry` | `shield`, `attest`, `flag`, `unflag`, `admit`, `cancel`, `refund` | one action each |
| `VaultExit` | `transact`, `release`, `claim` | `transact` has two actions: settled at once, and queued; `release` is a fold over its loop |
| `VaultGuardian` | `set_pause`, `halt`, `resume`, `set_limits`, `apply_limits`, `cancel_limits` | |
| `Vault` | the constructor, the environment (time, accounts, base reserve, issuer), `Next`, the properties | composes the four above |
| `VaultWait` | `Vault` with the day by which each queued exit is promised, and the `paid_by` that the indexer serves for it | a day on which nobody releases prolongs both |
| `Deposits` | what the entry queue promises: the abstract specification of it | no amounts, limits or asset |
| `VaultQueue` | the refinement mapping from `Vault` to `Deposits` | |
| `VaultTree` | `tree.rs` in full: frontier, zero subtrees, root ring | checked against a recursive definition of the root |
| `Submit` | `submit.go`: `Account`, `PrepareUntil`, `Send`, `resolve`, `Track`, `Lookup`, `DoExtended`; the relayer's `sendWait` | one account, one RPC, the network's ledgers |
| `Relayer` | `relayer.go`, `store.go`: `Submit`, `hold`, `CancelHeld`, `sendHeld`, `relay`, `send`, `prepare`, `follow`, `finish`, `coolDown`, `Resume`, `FollowNullifiers` | one goroutine per submission |
| `Screening` | `screener.go`, `ops.go`, `store.go`: the rounds, the tables, operators' orders, the follower, crashes | extends `Deposits` in place of the vault |
| `Keeper` | `exits.go`, `keeper.go`: admission, refund, release, claim over `Vault` itself | a job reads in one step and sends in later ones |
| `KeeperTTL` | `ttl.go`: the hourly cycle over entries' lives, batches, fee caps, failures | |
| `Replay` | `chainstate/state.go`, `store.go`, `indexer/exits.go`: the vault rebuilt from its events, its tables, and the exits served | composed with `Vault` |
| `Archive` | `archive.go`: append-only files of lines, cut writes, coverage, reads | |
| `Indexer` | `follow`, `indexer.go`: windows, their archive, the served copy, its reconciliation | extends `Archive` |
| `Alert` | `alert.go`, `queue.go`: raising, copies per channel, lanes, retries, digests, the outbox | |
| `Watcher` | `watcher.go`, `checks.go`, `snapshot`: the copy, its comparisons, attestations, heartbeats | |
| `WatchChecks` | `hot.go`, `checks.go`, `ttl.go`: checks that remember what they saw | |
| `Sums` | the sum of an array, as a recursive function | |
| `MCVault`, `MCVaultWait`, `MCSubmit`, `MCRelayer`, `MCKeeper`, `MCReplay`, `MCIndexer`, `MCWatcher` | values for TLC | |
| `Lists` | ordered selections from sets and sequences, neither recursive nor with an operator as a parameter | used by `Alert` and `Watcher` |
| `SumsProofs`, `VaultProofs`, `SubmitProofs`, `RelayerProofs`, `ScreeningProofs`, `AlertProofs`, `WatcherProofs`, `KeeperProofs` | theorems | section 5 |

**State.** A contract's storage is one variable per key, named as in
`storage.rs`. A map by ID (`pending`, `exits`, `stranded`) is a function whose
domain is the IDs present. An `Option` is a set of at most one element. A call
is one atomic step, since the host rolls back a call that errors or traps, so a
refused call is a step that is not taken. In the services, a step is one
critical section, or one call of the network or the database, so that goroutines
interleave between them.

**Notes and proofs.** The vault sees commitments, nullifiers and proofs; the
model keeps the values behind them. `leaves[i]` is the value of a note, a
nullifier is the leaf it spends, and a root is the number of leaves under it. A
proof that verifies is exactly what the circuit forces: distinct inputs, each in
the tree of the named root, and value conserved (`check_inputs`, `check_value`).
A prover may choose any known root and any inputs, so two proofs made against
different trees can name the same note.

**The asset contract** is external. An account is open, full, unauthorized or
missing; a payment of XLM creates a missing account when it reaches two base
reserves, which the network may change and the contract cannot read. The issuer
may freeze the vault and claw back from it.

**Submit.** A job holds the account's lock from `lock` to `End`; its record says
where it is in `DoExtended`. Time is counted in ledgers; the service's clock,
the network's ledger and the RPC's ledger are three variables that drift within
`MaxAhead` and `MaxLag`. `pool` holds the transactions that the network took,
which it includes in any ledger before their bounds or drops. A send is accepted,
refused, answered with "try again later", or unanswered after it reached the
network or before. Two kinds of job share the account: a call, which tries
again up to `Attempts` times, and a relay, with one attempt that `sendWait`
ends. `restart` loses every job but a relay that was recorded, which `Lookup`
then follows by the clock alone; `LagWithinMargin` assumes that the RPC is no
further behind than the minute `Lookup` adds, without which it would report as
expired what succeeded. Fees, footprints and the decoding of results are left
out: a simulation passes or is refused.

**Relayer.** What a submission's transaction does is the network's: it lands,
fails, conflicts or lapses at any time (`land`), and other parties spend notes
(`spend_elsewhere`). The shared state is as in the code: `inflight`, the count
of held requests beside their records, the free channels, the exit slot's
token, the nullifiers known to be spent, the cooldowns in memory and in
Postgres, and the pending records. The database may refuse a write of up to
`MaxRefused` submissions. `Resume` is the end of a process at any step
and the start of the next. The checks that only refuse (validity, quotes,
budgets, breakers, screening) are one refusal.

**Screening.** A check's verdict is free at every check, since lists and payment
histories change between any two. A call that sends a transaction and then
writes columns takes effect up to some point; one cut short, or a crash, is one
of `MaxFaults`. The follower that feeds the tables may lag. `Suspects` are the
deposits that checks single out; checks of the others are clear. What the
properties compare the service with are three histories: when a deposit's latest
final check passed, if it did (`vouched`), what that check had found
(`passedOver`), and what persons cleared (`reviewed`). A check that does not pass
ends `vouched`, unless it could not be stored over a pass that is still fresh, or
the deposit was attested and unflagged already, so that anyone may have admitted it
before the check's flag.

**Keeper.** The jobs act on what they read earlier while anyone else calls the
vault; a transaction is simulated and lands in one step. The footprint that a
release reserves for its ledger and the balance alert are left out. `KeeperTTL`
keeps three histories beside the code's state: since when each entry was not made to
live longer (`since`), when the running cycle began and how long the last complete
one took (`began`, `took`).

**Replay** publishes, for each step of the vault, the calls its events decode to,
derived from the change the step made; `State.Apply` must accept them, and the
state after it must be the vault's. The guardian's calls are checked in
`vault_guardian`, halts are not replayed by the services.

**Indexer and archive.** An RPC may serve wrong events and answer from nodes a
ledger apart; a write may be cut anywhere, leaving a prefix whose last line may
be torn; a commit may fail, or succeed unheard.

**Watcher.** A ledger carries one kind of event. The primary may report another
kind than the ledger carries; the second RPC is true, if late.

**History variables** (`due`, `clawed`, `limits_since`, `promise`, `served`,
`vouched`, `ended`, `lied`, `opFirst` and the like) are read by no guard: what each
party is still owed, what was promised, what was really checked.

**Behaviours of an MC module.** Where parts of a component share no state, one
MC module holds them side by side and the variable `about`, chosen in the first
state, says which part a behaviour is about; the other part stands still. That
keeps the product of their states out of the run. `about` is read by no action
of the component's own module.

**Variants with a fault** (`..._skips`, `..._respent` and so on) stand before
the definitions they vary and are used by no action. Each puts one plausible
mistake into the code, and the property named in `PROJECT.json` rejects it.

## 3. What TLC checks

| Run | Instance | Properties |
|---|---|---|
| `vault_exit` | XLM, one deposit of 8, window 3, three exits of 2 or 3 with a fee of 0 or 1, accounts appear and vanish | `TypeOK` `ExitsAccounted` `ValueConserved` `PartiesOwed` `QueueInOrder` `WaitsKept` |
| `vault_entry` | XLM, two depositors whose accounts come and go, three deposits of two sizes, two delays, tree of 4 leaves, ring of 2 | `PendingAccounted` `QueueImplemented` |
| `vault_guardian` | five sets of limits, halts, pauses, one deposit that leaves, and a service that replays the calls | `PoolCanLeave` `WindowRespected` `HaltsApart` `LooseningGivesNotice` `ReplayFaithful` |
| `replay` | issued asset, issuer freezes the vault and claws back, a flag, a tightening, windows of one call | `Solvent` `StrandedForCause` `ReplayFaithful` `ServedOnce` |
| `submit` | a call with two attempts and a relay on one account; or a relay with one restart, fair | `OutcomeKnown` `AccountKept` `JobsEnd` |
| `relayer` | two submissions of two exits, held first, room for two held and one record: with two channels and notes spent elsewhere; or with one channel, timeouts, refused writes and one restart, fair | `ClaimsExact` `NeverDoomed` `SlotsExact` `HeldExact` `FailureRests` `ClaimsReleased` |
| `screening` | a suspect deposit and a plain one, one order, one report, one fault | `AttestedRightly` `AdmittedOnFinalCheck` |
| `screening_review` | one deposit, one finding, one fault | `ReviewHeeded` is violated |
| `alert` | two channels, a Critical and a Warning, two alerts, two faults | `RefusalTold` `CopiesSurvive` `Settles` |
| `keeper` | three deposits or two exits, two interferences, three days; or six entries with one failure | `QueuesServed` `EntriesRenewed` |
| `indexer` | three ledgers in files of two, two faults; and a tree of depth 3 filled by every sequence of batches | `TreeExact` `HistoryKept` `ServedTrue` |
| `watcher` | three ledgers, one fault, six behaviours | `NoFalseAlarm` `NothingMissed` `ChecksPaged` `LieCaught` |

Several of these are conjunctions of named parts, since the parts answer one
question of one instance: `WaitsKept` is `PaidInTime` and `PaidByKept`;
`AccountKept` is `TypeOK`, `LockedUntilFinal` and `SequenceCurrent`; `SlotsExact`
is `ChannelsExact` and `ExitAlone`; `HeldExact` is `TypeOK`, `HeldCounted` and
`CancelledNeverSent`; `AttestedRightly` is `TypeOK`, `AttestedOnFreshPass` and
`ReportHeeded`; `CopiesSurvive` is `TypeOK`, `StoredSurvives` and
`FullDropsLeast`; `Settles` is `Drained` and `HeartbeatResumes`; `QueuesServed` is
`KeeperTypeOK`, `ExitsServed` and `DepositsSettled`; `EntriesRenewed` is
`RecordedLifeLeast`, `RefusedAlone` and `ExpiryPaged`; `ReplayFaithful` is
`ReplayAccepts`, `ReplayAgrees` and `ReloadAgrees`; `TreeExact` is `RootIsTreeRoot`
and `RingHoldsRecent`; `HistoryKept`, `ServedTrue`, `NothingMissed` and `ChecksPaged`
are built the same way and say so where they are defined. Every part has a
variant with a fault of its own.

**Where code and comment disagree.** `screening_review`: a final check that finds
something new stores its findings before it sends the deposit to review
(`screener.go:734`). Cut short in between, the next check takes the review made
before for a clearance of the new findings, and the deposit is attested, against
the comment quoted in `PROJECT.json`: `ReviewHeeded` fails. That deposit did pass a
check by the code's own rule, so that `AttestedRightly` still holds; the run
`screening` has no findings (`Findings = {}`), and the proof of section 5 covers any.

**Bounds.** Every bound is a constant with a name and stands in a guard.
In the vault, three exits of 2 and 3 with a window of 3 make an exit that is paid
over two days, one behind it, one claimed from the stranded ones, and a remainder
below the least payment that creates an account, which is the case the code waits
for. The rings of one or two roots wrap within a run. `vault_guardian` has limits
that tighten the cap, loosen it, loosen the window, shrink the window, and break
the ratio, so each branch of `set_limits` is taken and refused.

In `Submit`, a validity of one ledger, a lag of two and four ledgers
in all let a transaction be sent, lose its answer, lapse by one clock and be
included by the other; a transaction is signed, and a process restarts, only
while the time that is left suffices to learn its outcome (`MaxTime` in the
guards of `PrepareUntil` and `restart`).

In `Relayer`, two submissions of one request share its notes, and two of different
requests meet at the channels, the slot, the held places and the one record. A
cooldown lasts longer than a behaviour. One submission at most meets a database
that refuses (`MaxRefused`). A third submission is what section 5 is for.

In `Screening`, `Keeper`, `Alert`, `Indexer` and the watcher, what may go wrong is
counted (`MaxFaults`, `MaxChanges`, `MaxTTLFaults`, `MaxWatchFaults`,
`MaxCheckFaults`), so that every single failure, and pairs of failures where the
state space allows, happen at every step. `Keeper` lets others act until `Quiet` and
asks that the queues are settled `ServeDays` after. In the watcher's run the second
RPC may fall behind in the first two ledgers and answers for the third.

Deadlock is not checked: with time, ledgers, submissions or alerts bounded, every
behaviour may stop.

**Fairness.** The vault's runs, `screening`, `keeper`, `replay`, `indexer` and
`watcher` assume none: what must happen there is stated as a bound on time or as a
property of a step. In `submit`, on the side with the restart, the clock
advances, ledgers close, the RPC catches up and answers each request one way or
another (weak fairness of `tick`, `Close`, `catch_up` and `Step`), and a mutex is
granted to a waiter whenever it is free again and again (strong fairness of
`lock`; Go's `sync.Mutex` hands over to a starving waiter). In `relayer`, on the
side with restarts, a goroutine with a step to take runs, as every wait in the
code has a timeout (`refuse` and `give_up` are such steps), and a transaction's
fate is settled, which its time bound ensures. In `alert`, a lane that is due
delivers and a timer that runs fires; a send need not succeed while faults are
left. A client need not cancel, and nobody need submit or raise.

## 4. What each property says of the code

* `ExitsAccounted`, `PendingAccounted`: the totals the vault keeps beside its
  entries (`queued_total`, `pending_total`) are those entries' sums. The vault
  decides from the totals what the notes are worth (`transact`), so a drift would
  either lock value or let one note's exit pay from another's.
* `ValueConserved`: TVL is unspent notes, pending deposits and exits owed.
* `PartiesOwed`: what exits still owe a party is what they promised and have
  not paid, whichever way its parts were split.
* `Solvent`: a refused transfer is never taken off the books.
* `StrandedForCause`: an exit is set aside for its own parties only, never
  because the vault was frozen or short.
* `QueueInOrder`, `WindowRespected`, `WaitsKept`: order, the day's limit, and
  the promised wait.
* `PoolCanLeave`, `HaltsApart`, `LooseningGivesNotice`: what users hold against
  the guardian.
* `QueueImplemented`: what depositors hold against the vault: nobody enters the
  tree unattested, flagged or early, and a flagged deposit can be had back.
* `TreeExact`: a proof against one of the last roots is accepted, and that root
  is the one a client computes from the leaves.
* `OutcomeKnown`: success is reported when exactly one of a job's transactions
  succeeded, anything else when none did and none still can: a retry applies
  nothing twice, and nothing reported lost is applied later.
* `AccountKept`, `JobsEnd`: one transaction in flight per account, each built on
  the sequence number of the moment; no outcome is awaited for ever.
* `ClaimsExact`, `SlotsExact`, `HeldExact`: what submissions share is taken
  by exactly those under way, whichever way each one ends; what a client was told
  is cancelled is not sent.
* `NeverDoomed`: the relayer pays for no transaction that another of its own
  makes fail, but in the one case that section 6 gives; `FailureRests`, `ClaimsReleased`: a failure is remembered across a
  restart, and nothing stays taken.
* `AttestedRightly`, `AdmittedOnFinalCheck`: what the pool's users hold against
  the screening service: whatever is attested or admitted without a flag passed its
  own final check, lately and inside its final window, and a reported key blocks.
* `QueuesServed`, `EntriesRenewed`: the keeper settles what can be settled,
  also when a stale read, a lost transaction or a memo comes in between, and no
  entry of the vault expires unseen.
* `ReplayFaithful`, `ServedOnce`, `HistoryKept`, `ServedTrue`: copies of the vault
  are the vault, their tables reload to the same state, a response shows each exit
  once, and the archive has no silent hole.
* `RefusalTold`, `CopiesSurvive`, `Settles`: no alarm is lost but as meant.
* `NoFalseAlarm`, `NothingMissed`, `ChecksPaged`, `LieCaught`: the watcher pages
  for what is wrong and only for that, and is silent only when it sees.

## 5. What is proved

TLAPS checks these theorems for every value of the constants. The assumptions are
those that the modules state: `ConstantAssumptions` (ranges of the constants) and
`ConstructorChecks` (the limits pass the check the constructor makes) of `Vault`,
`SubmitAssumptions` and `LagWithinMargin` of `Submit`, `RelayerAssumptions` of
`Relayer`, `ScreeningAssumptions` of `Screening`, `AlertAssumptions` of `Alert` (finitely
many channels), `WatcherAssumptions` and `ChecksAssumptions` of the watcher's modules
(its histories keep at least one entry, the other constants are numbers), and
`TTLAssumptions` of `KeeperTTL` (the groups of entries are finite and apart, and an entry
is renewed no later than it is warned of, as `ttl.go:22` has it: 14 days against 31 and
45). TLC evaluates each in the runs.

| Theorem | Module | Says |
|---|---|---|
| `TypeCorrect` `QueueOrdered` `WindowKept` `PoolLeaves` `VaultSolvent` `NoAttestationAhead` | `VaultProofs` | `TypeOK` `QueueInOrder` `WindowRespected` `PoolCanLeave` `Solvent` `AttestedExist` |
| `HaltCooldown` `LooseningNotice` `StrandedCause` | `VaultProofs` | the action properties `HaltsApart` `LooseningGivesNotice` `StrandedForCause` |
| `PendingSumKept` `ExitSumKept` `PartiesPaidOnce` `ValueKept` | `VaultProofs` | `PendingAccounted` `ExitsAccounted` `PartiesOwed` `ValueConserved` |
| `VaultIsQueue` | `VaultProofs` | `QueueImplemented`: `Vault` implements `Deposits` |
| `OutcomeAlwaysKnown` `AccountAlwaysKept` | `SubmitProofs` | `OutcomeKnown` `AccountKept` |
| `ClaimsAlwaysExact` `NoneDoomed` `SlotsAlwaysExact` `HeldAlwaysExact` `FailuresRest` | `RelayerProofs` | `ClaimsExact` `NeverDoomed` `SlotsExact` `HeldExact` `FailureRests` |
| `AttestsRightly` `AdmitsOnFinalCheck` | `ScreeningProofs` | `AttestedRightly` `AdmittedOnFinalCheck` |
| `RefusalsTold` `CopiesAlwaysSurvive` | `AlertProofs` | `RefusalTold`, the action property `CopiesSurvive` |
| `NeverAFalseAlarm` `NothingEverMissed` `ChecksAlwaysPaged` `LiesCaught` | `WatcherProofs` | `NoFalseAlarm` `NothingMissed` `ChecksPaged`, the action property `LieCaught` |
| `EntriesAlwaysRenewed` | `KeeperProofs` | `EntriesRenewed` |
| `RunCovered` | `WatcherProofs` | `MCSpec => WatchSpec /\ ChecksSpec`: what the run explores is what the theorems speak of |

**The vault's invariant** is
`IndInv == TypeOK /\ ExitsSound /\ PoolSound /\ GuardianSound /\ AttestedExist`.
None of the properties is inductive alone. `WindowRespected` needs the queue's
order (an exit that `release` reads must exist and owe something) and that
limits never shrink the window; `PoolCanLeave` needs that limits in force pass
`check_limits`, which for `apply_limits` means re-checking a queued loosening
against limits set later; `Solvent` needs that `release` never pays more than
its funds. The proof has one lemma per action.

**The loop of `release`** is a recursive function over its iterations. `LoopInv`
says of the state before an iteration what `IndInv` says of the vault, with the
day's room and the funds that remain; `PayHeadKeepsLoopInv` shows that one
iteration keeps it, and `ReleaseLoopInv` follows by induction over the naturals.
Induction is done through the least counterexample (`LeastNat`), since the
library's induction theorems take an operator as a parameter. `StrandedCause` and
the books use loop invariants of their own in the same way: that whatever the loop
has set aside so far has a party that cannot be paid, and that what it has paid
and set aside is what the totals lost.

**The books.** `Books` joins the sums of the pending deposits, of what exits owe,
of what each party is due, and of the unspent notes. Each is inductive only
beside the others: a spend moves value from notes to an exit and to a party's due
in one step, and TVL follows all three. `SumsProofs` supplies what is needed of
sums: what one changed, added or removed term does to them, and that a sum
bounds its terms. `PendingSplit` says that the two notes of a pending deposit hold
its amount, by which `admit` moves value from the entry queue to the notes.

**The refinement.** `VaultQueue` maps the vault's entries to the abstract queue;
the proof shows that the constructor's state is an initial state of `Deposits` and
that each call of the entry side is its namesake there, every other call a stutter
or the passing of time. `PendingView` says once what the mapping makes of `pending`.

**Submit.** `SubmitInv` says that every transaction of a job but the one it is
sending is spent: it did not succeed and no ledger can include it any more.
`OutcomeKnown` follows at the points where a job reports. The rest is what
that needs: what the RPC has shown and the network cannot take back (`NetInv`),
that the lock is with the one job under way (`LockInv`), that `Lookup` gives a
transaction up only when its bound has passed by more than the lag (`LookupInv`,
the one place where `LagWithinMargin` is used), and the sequence numbers while no
job was cut short (`AccountInv`).

**Relayer.** `RelayerInv` says for every submission what its step implies of its
transaction, record, channel, slot and cooldown (`SubOK`), and for every two what
they may share (`NotesInv`): a live submission's notes are in flight
(`InflightInv`), no two live ones have a note in common (`ApartInv`), and none has a
note that a relay has spent (`SpentInv`), each unless an earlier relay had the note
before a restart. The three need one another: `claim` keeps `ApartInv` by
`InflightInv`, `unclaim` keeps `InflightInv` by `ApartInv`, a success keeps
`SpentInv` by `ApartInv`, and `Resume` restores `ApartInv` from `SpentInv`. One
lemma per action shows that it has the effects on the shared state that
`HeldEffect`, `ChannelEffect`, `SlotEffect` and `NotesEffect` allow, and that such
a step keeps the invariant is shown once. The number of submissions, channels,
restarts and refused writes is arbitrary; the run has two submissions. The proof
found that an earlier statement of `NeverDoomed`, without the exception, holds for
two submissions and fails for three (section 6).

**Screening.** `ScreeningInv` relates three copies of what is known of a deposit:
the vault's, the tables' and the rows a round has read. A pass in the tables is
backed by a check that ran no earlier, or is too old for the running round and every
later one (`Backed`, counted from `Horizon`); the rows a round acts on are backed
for as long as it acts on them (`RowsBacked`), since only the round itself writes
the columns of a final check; whoever was reported is still to be flagged, counts as
flagged or blocks (`ReportsSettled`). So what is attested and not flagged was
cleared (`Cleared`), which is what `admit` needs. A half-written row is covered by
one lemma about any set of columns (`WriteRow`); that the time of a final check is
stored after its result (`CheckColumns`) is what keeps a check cut short from making
an old pass look new. Deposits, findings, orders, reports and faults are arbitrary
in number; the run has two deposits, no findings and one of each other.

**Alert.** `AlertInv` is the types and `RefusalTold`, which is not inductive without
them: that a copy leaves the memory only as `Forget` or a full `putMemory` lets it
needs the memory's bound, and that every other channel gets its copy needs to know
what a lane has read. The proof has two halves. Lemmas about the queue's operators say
what each does to the copies: `putMemory` keeps at most `MaxPending` of them, loses
none that it does not report as dropped, and drops none while a less severe one stays;
`Forget` removes exactly the copies named; `storeReroute` and `reroute` leave one for
each other channel, in the outbox or in memory, whether or not the store answers.
`QueueEffect` then states once what a step may do to all copies, one lemma per action
shows that it does no more, and both theorems follow from it. Channels, alerts,
faults, restarts and the memory's bound are arbitrary; the run has two channels, two
alerts and two faults.

**Watcher.** `WatchSpec` is everything that the watcher may do in any order; the run
cuts it into six behaviours (`MCWatcher`), each with the faults it is about, to stay within
reach. `RunCovered` proves that each of the six is a behaviour of `WatchSpec` and of
`ChecksSpec`, so the theorems speak of all of them and of their mixtures.
`WatchInv` says what the watcher's memory and tables have to do with the ledgers.
`NoFalseAlarm` needs that the copy holds what the ledgers carry (`CopyInv`), that no
root kept is of a larger tree than the copy's (`RootsInv`), that the newest snapshot
is the cursor's (`SnapshotsInv`), and that a status waiting to be compared was the
vault's at the ledger it was read for, and already at its last modification (`ReadsInv`,
`TrueRead`), so that whichever snapshot falls in between must match it; all of this only
while the primary reports truly, and `NetInv` says which untrue reports there are.
`AttestationJudged` needs that a delay read is the true one unless the limits have
changed (`AttestTypes`), which is its one excuse. `CrossChecked` and `BeatSees`
need the phase of a reconciliation and what it has read so far (`PhaseInv`, `GotInv`).
`ChecksPaged` has an invariant of its own: what was stored as seen was paged
before, and each nullifier whose warning may be closed was read with enough life left.

**Keeper.** `TTLInv` says of the TTL cycle what each of its steps leaves to the next.
`RecordedLifeLeast` needs that a life in the cycle's hands is at most the real one
(`ReadsOK`), although the entry was read an hour or more ago and may have been
extended less far than asked. `RefusedAlone` needs that the batches still to be sent hold
every entry that is due, each once (`WorkOK`, `DueOK`), and that a lone entry is given up
only at the shortest step (`RefusedOK`): batches are cut from a sequence and halved, so the proof
rests on lemmas about what cutting and halving keep. `ExpiryPaged` needs what the last
complete cycle left: every entry renewed or far from its end, counted from when that
cycle began (`CleanInv`; while a cycle runs, `GroupOK` says it of the group under way and
`GroupsInv` of those before it), and that a stale cycle is paged in time (`StaleInv`). Entries, rents, the size of a batch, failures and
restarts are arbitrary, and a cycle may last any number of hours.

The last point corrected two statements. Earlier forms of `RefusedAlone` (the rent for the
shortest step alone is over the cap) and of `ExpiryPaged` (within `StaleAfter + 1`) held in
the run, where one fault lets a cycle last one hour more, and fail when it lasts several: the
fee grows with the time since the entry was read, and what a cycle left is as old as
the cycle was long. Both now count that time; TLC shows the earlier forms violated with
three faults and twelve ledgers.

**Only model-checked.** Liveness under fairness (`JobsEnd`, `ClaimsReleased`,
`Settles`) and ENABLED are out of the prover's reach, and so is what a recursive
definition or a fold computes for every input: `TreeExact` compares the frontier with the recursive
root, `ReplayFaithful` and `ServedOnce` a state folded over the events with the vault,
`HistoryKept` and `ServedTrue` the lines of files read back one by one.
`WaitsKept` would need a bound on a sum over days that depends on the whole history,
and `QueuesServed` says that the queues were served within days, which the keeper's run
shows by exploring every schedule of a bounded number of days and faults.

## 6. Limits of the code and of the model

What the models show of the code that a property states with an exception, or that
a bound leaves out:

* `relayer.go:1192`: `sendWait` ends `Send` while the network may still include
  the transaction; the relayer then counts it as not sent and nobody follows it.
  `Submit` and `Relayer` model it, and their properties speak of what is followed.
* `relayer.go:1390`: a relay lets go of its notes before its outcome is stored. A
  restart in between follows its record once more, while the next attempt of the
  same request is on its way; its `unclaim` then lets go of that attempt's notes,
  and a third submission may claim and send them. It fails on chain at the
  relayer's cost. `NeverDoomed` has exactly this exception, and `ClaimsExact`
  speaks of the time before a restart.
* `relayer.go:1690`: `Resume` takes the channels of pending records, not the exit
  slot, so that after a restart two queueing exits may be on their way
  (`ExitAlone` speaks of the time before).
* `relayer.go:1275`: a relay whose record the database refused is followed by the
  running process only; a restart forgets it (`Followed`).
* `archive.go:314`: two writes cut in their first line, one after the other, leave
  two torn lines in a row, which the reader takes for damage, though the comment
  at 286 says that a new write may follow a torn line. `HistoryKept` excepts a file
  that reads as damaged. A window archived again over a hole
  replaces the ledgers it covers silently.
* `checks.go:331`: when the second RPC fails to answer for one window, the windows
  that were ready after it are dropped and never compared, though the comment at
  303 says each is. `CrossChecked` speaks of runs in which no such read fails.
* The watcher's comparison of trees does not notice a copy with a leaf more or less
  at the same ledger, and a comparison of trees alone may clear a mismatch of
  states.
* A notice about the guardian's calls is lost when the watcher stops between the
  commit and the notice.
* The delay that applied to a deposit is not known once the deposit is gone and
  the limits have changed.
* A commit whose answer is lost leaves the indexer's memory behind its cursor
  until a restart (`ErrMoved`). The indexer's run has no liveness property.

## 7. Plan

Done: the modules of section 2 and the proofs of section 5. Next:

1. Proofs for `Replay` and the keeper's queues, once their folds are written as functions.
2. SDK wallet: `sync`, plans of a spend, deposits, two instances on one store.
3. The relayer's breakers and quotes.

Runs stay few: one per question, each with several properties on one instance.

## 8. Not modelled

* The arithmetic of the circuit, of the verifier and of Poseidon2: the model
  takes what a verified proof guarantees. Hashes in `VaultTree` are pairs, so
  two different trees never have one root.
* TTLs of the contract's entries as the contract sees them (`bump_ttl`), and events
  and their topics; the keeper's extension of them is `KeeperTTL`.
* Signatures and `require_auth`: an action's caller is who the code requires.
* 128-bit overflow: the contract uses checked arithmetic on `i128` amounts that
  the token bounds, and a trapped call changes nothing.
* In `Submit`: fees, footprints, restores and padding; several RPCs behind one
  address whose ledgers go back.
* In `Relayer`: proof verification, quotes, the loss budget, breakers and verdict
  caches, which only refuse a submission; what alerts and metrics report.
* The SDK, and every component that section 1 names and section 2 does not: see
  the notes in `PROJECT.json`.
