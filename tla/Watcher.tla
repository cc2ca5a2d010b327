------------------------------ MODULE Watcher ------------------------------
(***************************************************************************)
(* The watcher's copy of the vault (services/internal/watcher): windows of *)
(* events from a primary RPC are checked, replayed and stored; the result  *)
(* is reconciled with the vault's entries as the primary reports them, the *)
(* entries and the windows with a second RPC, and every attestation is     *)
(* judged against the delays of the deposits it covers.                    *)
(*                                                                         *)
(* A ledger carries one kind of event, and closes one unit of time after   *)
(* the one before it.  The primary may report another kind than the ledger *)
(* carries; the second RPC and the asset's events are true, if late.       *)
(***************************************************************************)
EXTENDS Lists, FiniteSetsExt, SequencesExt

CONSTANTS
  rootHistory, snapshotHistory, maxReads, maxCross, \* what is kept in memory
  lagLedgers,      \* ledgers behind which the watcher is lagging
  staleLedgers,    \* staleAfter, in ledgers
  dayLedgers,      \* a day
  Retention,       \* ledgers of events an RPC holds
  DelaySmall, DelayLarge,
  finalCheck,      \* the final check's ten minutes and attestSlack
  lateAfter,       \* how long an eligible deposit may wait
  MaxWindow, MaxLedger, MaxWatchFaults \* bounds

ASSUME WatcherAssumptions ==
  /\ {rootHistory, snapshotHistory, maxReads} \subseteq Nat \ {0}
  /\ {maxCross, lagLedgers, staleLedgers, dayLedgers, Retention, DelaySmall, DelayLarge,
      finalCheck, lateAfter, MaxWindow, MaxLedger, MaxWatchFaults} \subseteq Nat

VARIABLES
  chain,           \* what each ledger carries
  told,            \* what the primary reports of each
  primary, second, \* the newest ledger of each RPC
  forged,          \* whether the primary's entries follow its reports
  copy,            \* stored: the replayed events
  checks,          \* stored: the deposits each ledger's attestation check still covers
  delays,          \* stored: the deposits whose delay is recorded
  cursor, latest, inst, faulted,   \* in memory from here on
  roots,           \* the leaf counts whose root is known, oldest first
  snapshots,       \* the ledgers whose replayed status is kept
  reads,           \* reads of the status not yet compared
  pendingCross,    \* windows to compare with the second RPC
  phase, got,      \* the reconciliation that runs, and what it read
  ready,           \* the windows it compares
  judging,         \* attestation checks being judged
  paged,           \* the alerts raised and not cleared
  lied,            \* history: the primary reported something else
  skipped,         \* history: ledgers whose transfers the RPC no longer held
  old,             \* history: ledgers applied more than a day late
  owed,            \* history: ledgers to be compared with the second RPC
  blindBeat,       \* history: a heartbeat was sent by a watcher that is blind
  watchFaults

chainVars == <<chain, told, primary, second, forged, lied>>
storedVars == <<copy, checks, delays>>
memoryVars == <<cursor, latest, inst, faulted, roots, snapshots, pendingCross>>
reconcileVars == <<reads, phase, got, ready>>
historyVars == <<skipped, old, owed, blindBeat>>
watchVars == <<chainVars, storedVars, memoryVars, reconcileVars, judging, paged, historyVars, watchFaults>>

Nothing == [from |-> 0, to |-> 0, status |-> {}, leaves |-> {}, delay |-> 0]
NotRead == 0
Fails(n) == watchFaults + n =< MaxWatchFaults /\ watchFaults' = watchFaults + n

----------------------------------------------------------------------------
\* The vault in its events.  Deposits 1 and 2 are made in ledger 0, large under
\* the limits of then; 2 is flagged.

Deposits == {1, 2}
StatusKinds == {"pause", "halt", "pay", "attest", "both", "limits", "admit"}
LeafKinds == {"leaf", "admit"}
Kinds == StatusKinds \cup LeafKinds \cup {"quiet", "drain", "unflag", "broken"}

Of(h, kinds, l) == {k \in 1 .. l : h[k] \in kinds}
Status(h, l) == Of(h, StatusKinds, l)
Leaves(h, l) == Of(h, LeafKinds, l)
LastModified(S) == Max(S \cup {0})

Attested(h, l) == Of(h, {"attest", "both"}, l) # {}
Unflagged(h, l) == Of(h, {"unflag", "both"}, l) # {}
Pending(h, l) == IF Of(h, {"admit"}, l) = {} THEN Deposits ELSE {2}

\* The delay the limits give, and the one the deposits were made under.
DelayFor(h, l) == IF Of(h, {"limits"}, l) = {} THEN DelayLarge ELSE DelaySmall
MadeDelay == DelayLarge

When(condition, S) == IF condition THEN S ELSE {}

\* What the vault lets a ledger carry.
Allowed(kind) ==
  LET l == Len(chain)
  IN /\ kind \in {"attest", "both"} => ~ Attested(chain, l)
     /\ kind \in {"unflag", "both"} => ~ Unflagged(chain, l)
     /\ kind = "admit" => 1 \in Pending(chain, l) /\ Attested(chain, l) /\ l + 1 >= MadeDelay
     /\ kind = "limits" => DelayFor(chain, l) = DelayLarge

\* The checks a ledger's events call for: an attestation covers the deposits it
\* vouches for, an unflag inside the attested range its own.
judged(h, l) ==
  LET attests == h[l] \in {"attest", "both"}
      unflags == h[l] \in {"unflag", "both"} /\ (attests \/ Attested(h, l - 1))
  IN   When(attests, {[ledger |-> l, covered |-> {1} \cup When(Unflagged(h, l - 1), {2})]})
  \cup When(unflags, {[ledger |-> l, covered |-> {2}]})

----------------------------------------------------------------------------
\* The network

\* The primary's entries at its newest ledger.
Entries == IF forged THEN told ELSE chain

Close(kind, report, p, s) ==
  /\ Len(chain) < MaxLedger /\ Allowed(kind)
  /\ chain' = Append(chain, kind)
  /\ \/ report = kind /\ UNCHANGED <<lied, forged>>
     \/ report # kind /\ ~ lied /\ lied' = TRUE /\ forged' \in BOOLEAN
  /\ told' = Append(told, report)
  /\ primary' = p /\ second' = s
  /\ UNCHANGED <<storedVars, memoryVars, reconcileVars, judging, paged, historyVars, watchFaults>>

CatchUp ==
  /\ <<primary, second>> # <<Len(chain), Len(chain)>>
  /\ primary' = Len(chain) /\ second' = Len(chain)
  /\ UNCHANGED <<chain, told, forged, lied, storedVars, memoryVars, reconcileVars, judging, paged, historyVars, watchFaults>>

\* The primary corrects a report that the vault's rules refuse.
Correct ==
  /\ \E l \in DOMAIN told : told[l] = "broken" /\ told' = [told EXCEPT ![l] = chain[l]]
  /\ UNCHANGED <<chain, primary, second, forged, lied, storedVars, memoryVars, reconcileVars,
                 judging, paged, historyVars, watchFaults>>

----------------------------------------------------------------------------
\* Windows

LastN(s, n) == IF Len(s) > n THEN SubSeq(s, Len(s) - n + 1, Len(s)) ELSE s

Batch(to) == [from |-> cursor + 1, to |-> to]
Ledgers(b) == b.from .. b.to
Held(b, newest) == b.from + Retention >= newest
recent(b) == b.to + dayLedgers >= primary

\* Variant with a fault: the last ledger of the window is left out.
checkTransfers_exclusive(b) ==
  When(Held(b, primary) /\ \E l \in b.from .. b.to - 1 : (told[l] = "pay") # (chain[l] = "pay"),
       {"outflow_mismatch"})

\* The asset's transfers out of the vault against the payments its events report.
checkTransfers(b) ==
  When(Held(b, primary) /\ \E l \in Ledgers(b) : (told[l] = "pay") # (chain[l] = "pay"),
       {"outflow_mismatch"})

\* Transfers out of a hot account.
checkHotTransfers(b) ==
  When(Held(b, primary) /\ \E l \in Ledgers(b) : chain[l] = "drain", {"hot_account_transfer"})

\* The notices of a window that are not older than a day.
News(b) == {l \in Ledgers(b) : l + dayLedgers >= primary}
CheckedNews(h, b) == UNION {judged(h, l) : l \in News(b)}

\* Variant with a fault: the last check of a ledger replaces the others.
addAttestCheck_last(cs) ==
  [l \in DOMAIN checks |->
     LET of == {c \in cs : c.ledger = l}
     IN IF of = {} THEN checks[l]
        ELSE (CHOOSE c \in of : \A d \in of : Max(d.covered) =< Max(c.covered)).covered]

\* An attestation and an unflag of one ledger share a check.
addAttestCheck(cs) ==
  [l \in DOMAIN checks |-> checks[l] \cup UNION {c.covered : c \in {d \in cs : d.ledger = l}}]

\* Variant with a fault: the history of roots is never cut.
keepRoot_all(h, b) == roots \o Ascending({Cardinality(Leaves(h, l)) : l \in Ledgers(b)} \ ToSet(roots))

keepRoot(h, b) ==
  LET counts == {Cardinality(Leaves(h, l)) : l \in Ledgers(b)} \ ToSet(roots)
  IN LastN(roots \o Ascending(counts), rootHistory)

Instance == DelayFor(Entries, primary)
loadInstance == IF inst = NotRead THEN Instance ELSE inst

\* The memory of a watcher that starts on the stored state.
New(h) ==
  /\ cursor' = Len(h) /\ latest' = 0 /\ inst' = NotRead /\ faulted' = FALSE
  /\ roots' = <<Cardinality(Leaves(h, Len(h)))>> /\ snapshots' = <<Len(h)>>
  /\ reads' = <<>> /\ pendingCross' = <<>> /\ phase' = "idle" /\ got' = Nothing
  /\ ready' = <<>> /\ judging' = {} /\ owed' = {}

\* Whether an event breaks the rules the replay checks, such as the index that
\* each leaf's event names.
Breaks(l) ==
  \/ told[l] = "broken"
  \/ /\ {told[l], chain[l]} \subseteq LeafKinds
     /\ Cardinality(Leaves(told, l - 1)) # Cardinality(Leaves(chain, l - 1))
Broken(b) == \E l \in Ledgers(b) : Breaks(l)

\* A window that breaks the vault's rules stops the follower, which reports it.
Fault(to) ==
  /\ Broken(Batch(to))
  /\ faulted' = TRUE
  /\ paged' = paged \cup {"invariant", "ingest_fault"}
  /\ UNCHANGED <<chainVars, storedVars, cursor, latest, inst, roots, snapshots, pendingCross,
                 reconcileVars, judging, historyVars, watchFaults>>

\* The window, its attestation checks and its cursor are stored together.
Commit(b) ==
  /\ Len(copy) = cursor
  /\ copy' = copy \o SubSeq(told, b.from, b.to)
  /\ checks' = addAttestCheck(CheckedNews(copy', b))
  /\ skipped' = skipped \cup When(~ Held(b, primary), Ledgers(b))
  /\ old' = old \cup (Ledgers(b) \ News(b))

Keep(b) ==
  /\ cursor' = b.to /\ faulted' = FALSE /\ latest' = Max({latest, primary})
  /\ roots' = keepRoot(copy', b)
  /\ snapshots' = LastN(Append(snapshots, b.to), snapshotHistory)
  /\ LET all  == IF recent(b) THEN Append(pendingCross, b) ELSE pendingCross
         kept == LastN(all, maxCross)
     IN /\ pendingCross' = kept
        /\ owed' = (owed \cup When(recent(b), Ledgers(b)))
                     \ UNION {Ledgers(c) : c \in ToSet(all) \ ToSet(kept)}
  /\ judging' = judging \cup CheckedNews(copy', b)

\* What is paged before the window is stored.
BeforeCommit(b) == checkTransfers(b) \cup checkHotTransfers(b)

Readable(to) == to \in cursor + 1 .. cursor + MaxWindow /\ to =< primary /\ ~ Broken(Batch(to))

Apply(to) ==
  LET b == Batch(to)
  IN /\ Readable(to)
     /\ inst' = loadInstance
     /\ Commit(b)
     /\ Keep(b)
     /\ paged' = paged \cup BeforeCommit(b)
     /\ UNCHANGED <<chainVars, delays, reconcileVars, blindBeat, watchFaults>>

\* The commit fails, or finds that the stored cursor moved.
ApplyFails(to) ==
  LET b == Batch(to)
  IN /\ Readable(to)
     /\ IF Len(copy) = cursor THEN Fails(1) ELSE UNCHANGED watchFaults
     /\ inst' = loadInstance
     /\ paged' = paged \cup BeforeCommit(b)
     /\ UNCHANGED <<chainVars, storedVars, cursor, latest, faulted, roots, snapshots, pendingCross,
                    reconcileVars, judging, historyVars>>

\* The commit is made, but its answer is lost.
ApplyUnanswered(to) ==
  LET b == Batch(to)
  IN /\ Readable(to) /\ Fails(1)
     /\ inst' = loadInstance
     /\ Commit(b)
     /\ paged' = paged \cup BeforeCommit(b)
     /\ UNCHANGED <<chainVars, delays, cursor, latest, faulted, roots, snapshots, pendingCross,
                    reconcileVars, judging, owed, blindBeat>>

\* The watcher stops between the commit and what follows it.
ApplyCrash(to) ==
  LET b == Batch(to)
  IN /\ Readable(to) /\ Fails(1)
     /\ Commit(b)
     /\ paged' = paged \cup BeforeCommit(b)
     /\ New(copy')
     /\ UNCHANGED <<chainVars, delays, blindBeat>>

Restart ==
  /\ Fails(1)
  /\ New(copy)
  /\ UNCHANGED <<chainVars, storedVars, paged, skipped, old, blindBeat>>

----------------------------------------------------------------------------
\* Attestations

earlyCode == <<"early_attestation_1", "early_attestation_2">>

\* The deposits whose delay is known: recorded, or in their entry.
delayOf == delays \cup Pending(Entries, primary)

\* Variant with a fault: a deposit's delay is that of the current limits.
EligibleAt_now(id) == inst

\* When admit accepts a deposit: the longer of the delay it was made under, as
\* far as that is known, and of the delay of the limits last read.
EligibleAt(id) == Max({inst} \cup When(id \in delayOf, {MadeDelay}))

Early(c, id) == c.ledger + finalCheck < EligibleAt(id)

\* Variant with a fault: the whole check is forgotten.
dropAttestCheck_row(c) == [checks EXCEPT ![c.ledger] = {}]

\* The deposits judged are forgotten, and the check with the last of them.
dropAttestCheck(c) == [checks EXCEPT ![c.ledger] = @ \ c.covered]

Judge(c, done) ==
  /\ inst # NotRead
  /\ judging' = judging \ {c}
  /\ paged' = paged \cup {earlyCode[id] : id \in {d \in done : Early(c, d)}}
  /\ delays' = delays \cup (done \cap delayOf)

judgeAttestation ==
  /\ \E c \in judging : Judge(c, c.covered) /\ checks' = dropAttestCheck(c)
  /\ UNCHANGED <<chainVars, copy, memoryVars, reconcileVars, historyVars, watchFaults>>

\* The instance is not read yet, or a read fails after some deposits.
judgeDeferred ==
  /\ \E c \in judging :
       \/ inst = NotRead /\ judging' = judging \ {c} /\ UNCHANGED <<paged, delays, watchFaults>>
       \/ Fails(1) /\ \E done \in SUBSET c.covered : Judge(c, done)
  /\ UNCHANGED <<chainVars, copy, checks, memoryVars, reconcileVars, historyVars>>

Stored == {[ledger |-> l, covered |-> checks[l]] : l \in {k \in DOMAIN checks : checks[k] # {}}}

RetryAttestations ==
  /\ ~ Stored \subseteq judging
  /\ judging' = judging \cup Stored
  /\ UNCHANGED <<chainVars, storedVars, memoryVars, reconcileVars, paged, historyVars, watchFaults>>

\* Deposits that are still pending well after they became eligible.
CheckAdmissions ==
  LET l == cursor
      due == Pending(copy, l) \ When(~ Unflagged(copy, l), {2})
      late == {id \in due \cap delayOf : primary >= EligibleAt(id) + lateAfter}
      raised == When(late # {}, {IF Attested(copy, l) THEN "admission_late" ELSE "attestation_late"})
  IN /\ inst # NotRead /\ Of(copy, {"halt"}, l) = {}
     /\ delays' = delays \cup (due \cap delayOf)
     /\ paged' = (paged \ {"admission_late", "attestation_late"}) \cup raised
     /\ <<delays', paged'>> # <<delays, paged>>
     /\ UNCHANGED <<chainVars, copy, checks, memoryVars, reconcileVars, judging, historyVars, watchFaults>>

----------------------------------------------------------------------------
\* Reconciliation

\* The instance, the tree and the balance come from one read.
ReadVault ==
  /\ phase = "idle"
  /\ phase' = "read"
  /\ LET status == Status(Entries, primary)
     IN got' = [from |-> LastModified(status), to |-> primary, status |-> status,
                leaves |-> Leaves(Entries, primary), delay |-> Instance]
  /\ UNCHANGED <<chainVars, storedVars, memoryVars, reads, ready, judging, paged,
                 historyVars, watchFaults>>

\* Variant with a fault: a read is compared with the newest replayed status.
Matches_newest(r) == {snapshots[Len(snapshots)]}

\* The replayed ledgers a read of the status is valid for.
Matches(r) == {l \in ToSet(snapshots) : l >= r.from /\ l =< r.to}

\* Each read is compared with the newest of them, and waits for one that the
\* watcher has still to reach.
compareReads(rs) ==
  [problems |-> \E r \in ToSet(rs) :
                  Matches(r) # {} /\ Status(copy, Max(Matches(r))) # r.status,
   compared |-> \E r \in ToSet(rs) : Matches(r) # {},
   keep |-> Only(rs, {i \in DOMAIN rs : Matches(rs[i]) = {} /\ rs[i].to > cursor})]

\* The replayed tree's first leaves.
FirstLeaves(n) == {l \in Leaves(copy, cursor) : Cardinality(Leaves(copy, l)) =< n}

\* The vault's root against the watcher's at the same leaf count, if known.
treeKnown == Cardinality(got.leaves) \in ToSet(roots)
treeDiff == treeKnown /\ FirstLeaves(Cardinality(got.leaves)) # got.leaves

\* Variant with a fault: only entries of one last-modified ledger are compared.
compareProviders_modified ==
  LET status == Status(chain, second)
  IN When(got.status # status /\ LastModified(got.status) = LastModified(status), {"rpc_disagreement"})

\* The entries of the two RPCs: those of one last-modified ledger must be equal,
\* and all of them when both RPCs are at one ledger.
compareProviders ==
  LET status == Status(chain, second)
      leaves == Leaves(chain, second)
      Differ(a, b) == a # b /\ (got.to = second \/ LastModified(a) = LastModified(b))
  IN When(Differ(got.status, status) \/ Differ(got.leaves, leaves), {"rpc_disagreement"})

Reached(b) == b.to =< second

\* Variant with a fault: every window is taken out.
Waiting_none(bs) == <<>>

\* The windows that the second RPC has not reached.
Waiting(bs) == Only(bs, {i \in DOMAIN bs : ~ Reached(bs[i])})

\* What is left of a reconciliation; the second RPC may answer its entries, its
\* health, both or neither.
Reconcile(entries, health) ==
  LET rs == LastN(Append(reads, [from |-> got.from, to |-> got.to, status |-> got.status]), maxReads)
      result == compareReads(rs)
      agrees == ~ result.problems /\ ~ treeDiff
      agreed == paged \ When(agrees /\ (result.compared \/ treeKnown), {"state_mismatch"})
  IN /\ phase = "read"
     /\ IF entries /\ health THEN UNCHANGED watchFaults ELSE Fails(1)
     /\ inst' = got.delay /\ latest' = Max({latest, got.to})
     /\ reads' = result.keep
     /\ paged' = agreed \cup When(~ agrees, {"state_mismatch"}) \cup When(entries, compareProviders)
     \* crossCheckEvents takes out the windows the second RPC has reached.
     /\ ready' = IF health THEN Only(pendingCross, {i \in DOMAIN pendingCross : Reached(pendingCross[i])}) ELSE <<>>
     /\ pendingCross' = IF health THEN Waiting(pendingCross) ELSE pendingCross
     /\ phase' = IF ready' = <<>> THEN "beat" ELSE "cross"
     /\ UNCHANGED <<chainVars, storedVars, cursor, faulted, roots, snapshots, got, judging, historyVars>>

Differs(b) == \E l \in Ledgers(b) : copy[l] # chain[l] /\ {copy[l], chain[l]} # {"quiet", "drain"}

\* The next window read from the second RPC, which may hold it no longer.
crossCheck ==
  /\ phase = "cross"
  /\ ready' = Tail(ready) /\ phase' = IF ready' = <<>> THEN "beat" ELSE "cross"
  /\ owed' = owed \ Ledgers(Head(ready))
  /\ paged' = paged \cup When(Held(Head(ready), second) /\ Differs(Head(ready)), {"rpc_disagreement"})
  /\ UNCHANGED <<chainVars, storedVars, memoryVars, reads, got, judging,
                 skipped, old, blindBeat, watchFaults>>

\* The read fails: its window waits again, and the check ends.
crossCheckFails ==
  /\ phase = "cross" /\ Fails(1)
  /\ ready' = <<>> /\ phase' = "beat"
  /\ pendingCross' = <<Head(ready)>> \o pendingCross
  /\ UNCHANGED <<chainVars, storedVars, cursor, latest, inst, faulted, roots, snapshots,
                 reads, got, judging, paged, historyVars>>

Now == Len(chain)
stale == Now - got.to > staleLedgers

\* Variant with a fault: ingest that lags is not unhealthy.
healthy_lagging == ~ faulted

healthy == ~ faulted /\ cursor + lagLedgers >= latest

\* The end of reconcileAndBeat: a heartbeat, unless the watcher sees nothing new.
Beat ==
  /\ phase = "beat" /\ phase' = "idle"
  /\ got' = Nothing
  /\ blindBeat' = \/ blindBeat
                  \/ ~ stale /\ healthy /\ (faulted \/ Now - cursor > lagLedgers + staleLedgers)
  /\ UNCHANGED <<chainVars, storedVars, memoryVars, reads, ready, judging, paged,
                 skipped, old, owed, watchFaults>>

WatchInit ==
  /\ chain = <<>> /\ told = <<>> /\ primary = 0 /\ second = 0 /\ forged = FALSE /\ lied = FALSE
  /\ copy = <<>> /\ checks = [l \in 1 .. MaxLedger |-> {}] /\ delays = {}
  /\ cursor = 0 /\ latest = 0 /\ inst = NotRead /\ faulted = FALSE
  /\ roots = <<0>> /\ snapshots = <<0>> /\ reads = <<>> /\ pendingCross = <<>>
  /\ phase = "idle" /\ got = Nothing /\ ready = <<>> /\ judging = {} /\ paged = {}
  /\ skipped = {} /\ old = {} /\ owed = {} /\ blindBeat = FALSE /\ watchFaults = 0

To == cursor + 1 .. primary
Next1 == Len(chain) + 1

\* What the primary may report of a ledger: of a ledger without an attestation,
\* an admission or new limits, anything else of that sort, or what breaks the
\* vault's rules.
Plain == {"quiet", "leaf", "pay", "pause", "broken"}
Reportable(kind) == IF kind \in Plain THEN Plain ELSE {kind}

WatchNext ==
  \/ \E k \in Kinds \ {"broken"} :
       \E r \in Reportable(k), p \in primary .. Next1, s \in second .. Next1 : Close(k, r, p, s)
  \/ CatchUp
  \/ Correct
  \/ \E to \in To : Fault(to) \/ Apply(to) \/ ApplyFails(to) \/ ApplyUnanswered(to) \/ ApplyCrash(to)
  \/ Restart
  \/ judgeAttestation
  \/ judgeDeferred
  \/ RetryAttestations
  \/ CheckAdmissions
  \/ ReadVault
  \/ \E entries, health \in BOOLEAN : Reconcile(entries, health)
  \/ crossCheck
  \/ crossCheckFails
  \/ Beat

WatchSpec == WatchInit /\ [][WatchNext]_watchVars

----------------------------------------------------------------------------
\* The types of the variables; memory keeps no more than its limits.
WatchTypeOK ==
  /\ chain \in Seq(Kinds) /\ told \in Seq(Kinds) /\ Len(told) = Len(chain)
  /\ {primary, second} \subseteq 0 .. Len(chain)
  /\ copy \in Seq(Kinds) /\ cursor =< Len(copy)
  /\ checks \in [1 .. MaxLedger -> SUBSET Deposits] /\ delays \subseteq Deposits
  /\ inst \in {DelaySmall, DelayLarge, NotRead}
  /\ Len(roots) =< rootHistory /\ Len(snapshots) =< snapshotHistory
  /\ Len(reads) =< maxReads
  /\ phase \in {"idle", "read", "cross", "beat"}
  /\ {faulted, lied, blindBeat, forged} \subseteq BOOLEAN

SourceAlerts == {"invariant", "ingest_fault", "outflow_mismatch", "state_mismatch", "rpc_disagreement"}

\* While the primary reports what the ledgers carry, no comparison pages,
\* however the reads, the windows, the failures and the restarts interleave.
NoFalseAlarm == ~ lied => paged \cap SourceAlerts = {}

\* A reconciliation at a ledger that the watcher and the second RPC have reached
\* too pages when the replayed status is not the vault's, though the primary's
\* entries were made to follow its reports.
LieCaught ==
  [][ /\ phase = "read" /\ phase' # "read" /\ got.to = cursor /\ got.to = second
      /\ Status(copy, cursor) # Status(chain, cursor)
      /\ watchFaults' = watchFaults
      => paged' \cap {"state_mismatch", "rpc_disagreement"} # {}]_watchVars

\* A payment that the stored events hide or invent, and a transfer out of a hot
\* account, are paged, though the watcher stops as soon as the window is stored.
TransfersPaged ==
  \A l \in DOMAIN copy \ skipped :
    /\ chain[l] = "drain" => "hot_account_transfer" \in paged
    /\ (chain[l] = "pay") # (copy[l] = "pay") => "outflow_mismatch" \in paged

\* An attestation made too early, seen within a day, is paged for every deposit
\* it covers or its check is still stored, unless the deposit is gone with its
\* delay never read and the limits changed.
AttestationJudged ==
  \A l \in DOMAIN copy \ old : \A c \in judged(copy, l) : \A id \in c.covered :
    l + finalCheck < MadeDelay =>
      \/ id \in checks[l]
      \/ earlyCode[id] \in paged
      \/ id \notin delayOf /\ DelayFor(chain, Len(chain)) # MadeDelay

\* A watcher that pings the heartbeat is not far behind the network.
BeatSees == ~ blindBeat

\* Every window applied within a day waits to be compared with the second RPC
\* until it was, while no read of the second RPC fails: one that does puts back
\* only its own window.
CrossChecked ==
  watchFaults = 0 => owed \subseteq UNION {Ledgers(b) : b \in ToSet(pendingCross) \cup ToSet(ready)}

\* Nothing the watcher is there to see goes unpaged or unjudged, and it says it
\* is well only when it sees: through failed reads, commits without an answer and
\* restarts.
NothingMissed ==
  WatchTypeOK /\ TransfersPaged /\ AttestationJudged /\ CrossChecked /\ BeatSees

==================================================
