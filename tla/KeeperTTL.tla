------------------------------ MODULE KeeperTTL ----------------------------
(***************************************************************************)
(* The keeper's TTL cycle (services/internal/keeper/ttl.go): every hour it *)
(* reads how long the vault's entries live, restores the archived ones and *)
(* extends those near expiry, in batches, under a fee cap; an entry it     *)
(* cannot keep alive is paged.                                             *)
(*                                                                         *)
(* A unit of time is the hour between two cycles, in which an entry loses  *)
(* what the shortest extension gives it (minStep).                         *)
(***************************************************************************)
EXTENDS Sums, FiniteSets, Sequences, SequencesExt

CONSTANTS
  Own, Queued, Asset, Nullifiers,     \* the entries of each group
  holdWithin, renewWithin, warnWithin, renewStep, minStep, maxTTL,
  RestoredLife,      \* life the network gives a restored entry
  MaxExtensions,     \* entries of one transaction
  FeeCap, cycleCaps, \* most a transaction, and as many times that a cycle, may cost
  StaleAfter,        \* age of the last complete cycle that pages
  Rates,             \* what an hour of an entry may cost
  Lives,             \* lives the keeper may find at first
  MaxDear,           \* bound: entries of another rent, and archived ones, at first
  MaxLedger, MaxTTLFaults \* bounds

Entries == Own \cup Queued \cup Asset \cup Nullifiers

\* The renewals come before the warnings, and what an extension gives is more than
\* what makes it due.
ASSUME TTLAssumptions ==
  /\ {holdWithin, renewWithin, warnWithin, renewStep, maxTTL, FeeCap, StaleAfter, RestoredLife} \subseteq Nat
  /\ {minStep, MaxExtensions} \subseteq Nat \ {0}
  /\ Lives \subseteq Nat /\ Rates \subseteq Nat
  /\ warnWithin =< renewWithin /\ warnWithin =< holdWithin /\ renewWithin < maxTTL
  /\ IsFiniteSet(Entries)
  /\ Own \cap Queued = {} /\ (Own \cup Queued) \cap Asset = {}
  /\ (Own \cup Queued \cup Asset) \cap Nullifiers = {}

VARIABLES
  ledger,
  live,              \* the last ledger each entry lives in; -1 once it is deleted
  rate,              \* the rent of each
  live_until,        \* of each nullifier, the life the database records; 0 is NULL
  cycle,             \* the running cycle
  charged,           \* what its transactions were charged
  lastCycle,         \* when a cycle last was complete; -1 before the first watch
  ran,               \* whether a cycle ran in this hour
  paged,             \* the alerts that are open
  since,             \* history: since when the keeper runs and each entry was
                     \* not made to live longer
  began, took,       \* history: when the cycle began, and how long the last
                     \* complete one took
  ttlFaults

ttlVars == <<ledger, live, rate, live_until, cycle, charged, lastCycle, ran, paged, since, began, took, ttlFaults>>
callRest == <<ledger, rate, live_until, lastCycle, ran, paged, since, began, took>>

exists(e) == live[e] # -1

NoCycle == [group |-> "none"]
Fault == ttlFaults < MaxTTLFaults /\ ttlFaults' = ttlFaults + 1

----------------------------------------------------------------------------
\* Reading

\* A life that is over reads as archived, here 0; a deleted entry is skipped.
ReadLife(e) == IF live[e] >= ledger THEN live[e] ELSE 0
read(es) == [e \in {x \in es : exists(x)} |-> ReadLife(e)]

\* Nullifiers whose recorded life may be due; the others are not read.
selected == {e \in Nullifiers : live_until[e] < ledger + renewWithin + renewStep}

renewAt(g) == IF g = "own" THEN holdWithin ELSE renewWithin
extendTo(g) == IF g \in {"own", "queued"} THEN renewAt(g) + renewStep ELSE maxTTL - 1

\* Batches of at most MaxExtensions entries, to be extended alike.
inBatches(es, to) ==
  LET s == SetToSeq(es)
      n == Len(s)
  IN [i \in 1 .. (n + MaxExtensions - 1) \div MaxExtensions |->
        [es |-> SubSeq(s, (i - 1) * MaxExtensions + 1,
                       IF i * MaxExtensions > n THEN n ELSE i * MaxExtensions),
         to |-> to]]

\* A group of entries, as read: its archived ones are restored first.
Group(g, lives, latest, queue, failures, urgent) ==
  [group |-> g, phase |-> "restore", latest |-> latest, lives |-> lives, start |-> lives,
   work |-> inBatches({e \in DOMAIN lives : lives[e] = 0}, 0), restored |-> {},
   refused |-> {}, stopped |-> FALSE, queue |-> queue, failures |-> failures, urgent |-> urgent]

\* Reads the entries the vault itself writes and those of its queues.
BeginCycle ==
  /\ cycle = NoCycle /\ ~ran
  /\ ran' = TRUE
  /\ charged' = 0 /\ began' = ledger
  /\ \/ /\ cycle' = Group("own", read(Own), ledger, read(Queued), FALSE, FALSE)
        /\ UNCHANGED ttlFaults
     \/ Fault /\ cycle' = NoCycle
  /\ UNCHANGED <<ledger, live, rate, live_until, lastCycle, paged, since, took>>

----------------------------------------------------------------------------
\* The transactions of a group

Job == Head(cycle.work)
Working == cycle # NoCycle /\ cycle.group # "judge" /\ cycle.work # <<>>

\* What a restoration or an extension of the batch costs.
Fee ==
  LET hours(e) == IF cycle.phase = "restore" THEN RestoredLife
                  ELSE IF ledger + Job.to > live[e] THEN ledger + Job.to - live[e] ELSE 0
  IN SumTo([i \in DOMAIN Job.es |-> rate[Job.es[i]] * hours(Job.es[i])], Len(Job.es))

Spent == charged >= cycleCaps * FeeCap

\* An entry deleted since it was read, or archived since, refuses its batch.
Simulates ==
  \A i \in DOMAIN Job.es :
    LET e == Job.es[i] IN exists(e) /\ (cycle.phase = "extend" => live[e] >= ledger)

\* Variant with a fault: the life the extension was to give at first.
Extended_full(life, to) == cycle.latest + extendTo(cycle.group)

\* The life an extension gave, at the least: it lands after the entry was read.
Extended(life, to) == IF life < cycle.latest + to THEN cycle.latest + to ELSE life

\* A transaction that goes through.
ttlCall(phase) ==
  /\ Working /\ cycle.phase = phase
  /\ ~Spent /\ Simulates /\ Fee =< FeeCap
  /\ charged' = charged + Fee
  /\ since' = [e \in Entries |-> IF e \in ToSet(Job.es) THEN ledger ELSE since[e]]
  /\ UNCHANGED <<ledger, rate, live_until, lastCycle, ran, paged, began, took, ttlFaults>>

restore ==
  /\ ttlCall("restore")
  /\ live' = [e \in Entries |-> IF e \in ToSet(Job.es) THEN ledger + RestoredLife ELSE live[e]]
  /\ cycle' = [cycle EXCEPT !.work = Tail(@), !.restored = @ \cup ToSet(Job.es)]

extendBatch ==
  /\ ttlCall("extend")
  /\ live' = [e \in Entries |-> IF e \in ToSet(Job.es) /\ live[e] < ledger + Job.to
                                THEN ledger + Job.to ELSE live[e]]
  /\ cycle' = [cycle EXCEPT !.work = Tail(@),
                 !.lives = [e \in DOMAIN @ |-> IF e \in ToSet(Job.es) THEN Extended(@[e], Job.to)
                                               ELSE @[e]]]

\* Variant with a fault: a refused batch is given up whole.
split_never(left) == [cycle EXCEPT !.work = Tail(@), !.refused = @ \cup ToSet(Job.es)]

\* A refused batch is split in two.  A lone entry that the cap refuses is
\* extended half as far, and at last by the shortest step; then it is left out.
split(left) ==
  LET n == Len(Job.es)
      shorter == left + (IF (Job.to - left) \div 2 > minStep THEN (Job.to - left) \div 2 ELSE minStep)
  IN IF n > 1
     THEN [cycle EXCEPT !.work = <<[Job EXCEPT !.es = SubSeq(@, 1, n \div 2)],
                                   [Job EXCEPT !.es = SubSeq(@, n \div 2 + 1, n)]>> \o Tail(@)]
     ELSE IF cycle.phase = "extend" /\ Simulates /\ Job.to > left + minStep
          THEN [cycle EXCEPT !.work = <<[Job EXCEPT !.to = shorter]>> \o Tail(@)]
          ELSE [cycle EXCEPT !.work = Tail(@), !.refused = @ \cup ToSet(Job.es)]

refuse ==
  /\ Working /\ ~Spent
  /\ Simulates => Fee > FeeCap
  /\ cycle' = split(cycle.lives[Job.es[1]] - cycle.latest)
  /\ UNCHANGED <<callRest, live, charged, ttlFaults>>

\* A cycle that spent enough, or a transaction that fails, stops the group's run.
stop ==
  /\ Working
  /\ \/ Spent /\ UNCHANGED ttlFaults
     \/ Fault
  /\ cycle' = [cycle EXCEPT !.work = <<>>, !.stopped = TRUE]
  /\ UNCHANGED <<callRest, live, charged>>

\* After the restorations the lives they gave are read, and what is due is
\* extended.
extend ==
  /\ cycle # NoCycle /\ cycle.group # "judge"
  /\ cycle.phase = "restore" /\ cycle.work = <<>>
  /\ \E found \in {TRUE} \cup (IF cycle.restored = {} THEN {} ELSE {FALSE}) :
       LET lives == [e \in DOMAIN cycle.lives |->
                       IF found /\ e \in cycle.restored THEN ReadLife(e) ELSE cycle.lives[e]]
           due   == {e \in DOMAIN lives : lives[e] # 0 /\ lives[e] < cycle.latest + renewAt(cycle.group)}
       IN /\ cycle' = [cycle EXCEPT !.phase = "extend", !.lives = lives,
                         !.failures = @ \/ cycle.stopped \/ ~found, !.stopped = FALSE,
                         !.work = inBatches(due, extendTo(cycle.group))]
          /\ IF found THEN UNCHANGED ttlFaults ELSE Fault
  /\ UNCHANGED <<callRest, live, charged>>

----------------------------------------------------------------------------
\* The groups in turn

Failed == cycle.stopped \/ cycle.refused # {}
Done(g) == cycle # NoCycle /\ cycle.group = g /\ cycle.phase = "extend" /\ cycle.work = <<>>

\* An entry that is archived still or within warnWithin of its end.
urgent == \E e \in DOMAIN cycle.lives : cycle.lives[e] < cycle.latest + warnWithin
AfterGroup(g, lives, latest) ==
  Group(g, lives, latest, <<>>, cycle.failures \/ Failed, cycle.urgent \/ urgent)

nextGroup ==
  /\ \/ /\ Done("own")
        /\ cycle' = AfterGroup("queued", cycle.queue, cycle.latest)
        /\ UNCHANGED ttlFaults
     \/ /\ Done("queued")
        /\ \/ cycle' = AfterGroup("asset", read(Asset), cycle.latest) /\ UNCHANGED ttlFaults
           \/ Fault /\ cycle' = NoCycle
     \/ /\ Done("asset")
        /\ \/ cycle' = AfterGroup("nullifiers", read(selected), ledger) /\ UNCHANGED ttlFaults
           \/ /\ Fault
              /\ cycle' = [group |-> "judge", failures |-> TRUE, urgent |-> cycle.urgent \/ urgent]
  /\ UNCHANGED <<callRest, live, charged>>

\* Records the lives of the nullifiers that were read; a row that cannot be
\* written ends the run.
nullifierRun ==
  /\ Done("nullifiers")
  /\ \E written \in SUBSET DOMAIN cycle.lives :
       /\ live_until' = [e \in Nullifiers |-> IF e \in written /\ cycle.lives[e] # 0
                                              THEN cycle.lives[e] ELSE live_until[e]]
       /\ IF written = DOMAIN cycle.lives THEN UNCHANGED ttlFaults ELSE Fault
       /\ cycle' = [group |-> "judge",
                    failures |-> cycle.failures \/ Failed \/ written # DOMAIN cycle.lives,
                    urgent |-> cycle.urgent \/ (Failed /\ urgent)]
  /\ UNCHANGED <<ledger, live, rate, charged, lastCycle, ran, paged, since, began, took>>

\* Variant with a fault: a cycle counts as complete although an entry failed.
complete_anyway == TRUE

complete == ~cycle.failures

\* An incomplete cycle pages for urgent entries; a complete one clears.
judge ==
  /\ cycle # NoCycle /\ cycle.group = "judge"
  /\ cycle' = NoCycle
  /\ lastCycle' = IF complete THEN ledger ELSE lastCycle
  /\ took' = IF complete THEN ledger - began ELSE took
  /\ paged' = IF complete THEN {} ELSE IF cycle.urgent THEN paged \cup {"entry_expiring"} ELSE paged
  /\ UNCHANGED <<ledger, live, rate, live_until, charged, ran, since, began, ttlFaults>>

\* Pages when the last complete cycle is old, counted from the first watch.
Stale == lastCycle # -1 /\ ledger - lastCycle > StaleAfter /\ "ttl_cycle_stale" \notin paged
Watch ==
  /\ lastCycle = -1 \/ Stale
  /\ IF lastCycle = -1 THEN lastCycle' = ledger /\ UNCHANGED paged
     ELSE paged' = paged \cup {"ttl_cycle_stale"} /\ UNCHANGED lastCycle
  /\ UNCHANGED <<ledger, live, rate, live_until, cycle, charged, ran, since, began, took, ttlFaults>>

----------------------------------------------------------------------------
\* The network and the process

\* An hour passes: a cycle ran in it, or the keeper was slow.
Hour ==
  /\ ledger < MaxLedger
  /\ lastCycle # -1 /\ ~Stale
  /\ ledger' = ledger + 1
  /\ ran' = (cycle # NoCycle)
  /\ \/ cycle = NoCycle /\ ran /\ UNCHANGED ttlFaults
     \/ Fault
  /\ UNCHANGED <<live, rate, live_until, cycle, charged, lastCycle, paged, since, began, took>>

\* A deposit or an exit is settled, or the rent of an entry changes.
Network ==
  /\ Fault
  /\ \/ \E e \in Queued : exists(e) /\ live' = [live EXCEPT ![e] = -1] /\ UNCHANGED rate
     \/ /\ cycle = NoCycle
        /\ \E e \in Entries, r \in Rates : rate[e] # r /\ rate' = [rate EXCEPT ![e] = r]
        /\ UNCHANGED live
  /\ UNCHANGED <<ledger, live_until, cycle, charged, lastCycle, ran, paged, since, began, took>>

Restart ==
  /\ Fault
  /\ cycle' = NoCycle /\ charged' = 0 /\ ran' = FALSE
  /\ lastCycle' = -1 /\ paged' = {} /\ since' = [e \in Entries |-> ledger]
  /\ began' = ledger /\ took' = 0
  /\ UNCHANGED <<ledger, live, rate, live_until>>

TTLInit ==
  /\ ledger = 1
  /\ live \in [Entries -> Lives]
  /\ rate \in [Entries -> Rates]
  /\ Cardinality({e \in Entries : rate[e] # 1}) =< MaxDear
  /\ Cardinality({e \in Entries : live[e] = 0}) =< MaxDear
  /\ live_until = [e \in Nullifiers |-> 0]
  /\ cycle = NoCycle /\ charged = 0 /\ ran = FALSE
  /\ lastCycle = -1 /\ paged = {} /\ since = [e \in Entries |-> 1]
  /\ began = 1 /\ took = 0
  /\ ttlFaults = 0

TTLNext ==
  \/ BeginCycle \/ restore \/ extendBatch \/ refuse \/ stop \/ extend
  \/ nextGroup \/ nullifierRun \/ judge \/ Watch
  \/ Hour \/ Network \/ Restart

TTLSpec == TTLInit /\ [][TTLNext]_ttlVars

----------------------------------------------------------------------------
\* The life recorded of a nullifier is never longer than its life: the next read
\* of it comes no later than its renewal is due.
RecordedLifeLeast == \A e \in Nullifiers : live_until[e] =< live[e]

\* One entry that cannot be restored or extended holds back no other: what a
\* group leaves out refuses alone, its rent over the cap for the shortest step and
\* the time since it was read, and all else that was due lives longer.
RefusedAlone ==
  cycle # NoCycle /\ cycle.group # "judge" =>
    /\ \A e \in cycle.refused :
         \/ ~exists(e) \/ live[e] < ledger
         \/ rate[e] * (minStep + ledger - cycle.latest) > FeeCap
    /\ cycle.phase = "extend" /\ cycle.work = <<>> /\ ~cycle.stopped /\ ~cycle.failures =>
         \A e \in DOMAIN cycle.start :
           cycle.start[e] < cycle.latest + renewAt(cycle.group) =>
             e \in cycle.refused \/ ~exists(e) \/ live[e] > cycle.start[e]

\* While the keeper runs, an entry close to its end that it could not make live
\* longer is paged for, or the age of the last complete cycle is: no failure
\* between reading and paging hides one for longer than that age and that cycle.
ExpiryPaged ==
  LET unseen == StaleAfter + 1 + took
  IN \A e \in Entries :
       /\ exists(e)
       /\ live[e] < ledger + warnWithin - unseen
       /\ ledger - since[e] > unseen
       => paged # {}

\* No entry expires unseen: not one whose life was recorded too long, not one
\* held back by another's refusal, and not one a failed cycle left alone.
EntriesRenewed == RecordedLifeLeast /\ RefusedAlone /\ ExpiryPaged

============================================================================
