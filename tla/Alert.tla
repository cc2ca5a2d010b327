------------------------------- MODULE Alert -------------------------------
(***************************************************************************)
(* The alerter and its queue (services/internal/alert): conditions are     *)
(* raised and cleared, every channel gets a copy of each alert, and each    *)
(* channel's lane delivers its copies with retries, rests, digests and      *)
(* tests.  Copies are kept in the service's database, or in memory while    *)
(* the database fails.                                                      *)
(*                                                                         *)
(* Times are flags that an action of their own resets: a wait that has not  *)
(* ended is FALSE under "due", TRUE under "resting" and "held".             *)
(***************************************************************************)
EXTENDS Lists, SequencesExt

CONSTANTS
  Channels,       \* webhooks that may be configured
  Criticals,      \* codes of Critical alerts
  Warnings,       \* codes of Warnings
  failuresToRest, \* failed sends in a row after which a lane rests
  MaxPending,     \* copies kept in memory (maxPending)
  MaxAlerts,      \* bound: alerts put
  MaxFaults       \* bound: refused or failed sends, store errors, crashes, expiries

ASSUME AlertAssumptions == IsFiniteSet(Channels) /\ MaxPending \in Nat /\ MaxAlerts \in Nat

VARIABLES
  configured,     \* the channels of the running process
  last,           \* codes raised within the cooldown
  open,           \* codes whose condition has not ended
  puts,           \* alerts put so far
  stored,         \* the outbox table: a set of copies
  pending,        \* copies in memory, oldest first
  lanes,          \* delivery state of each channel
  todo,           \* copies the lane's running pass has still to send
  expired,        \* alerts older than maxAge
  faults,
  ended           \* history: how copies left the queue

alerterVars == <<last, open, puts>>
vars == <<configured, last, open, puts, stored, pending, lanes, todo, expired, faults, ended>>

Codes == Criticals \cup Warnings
None == "none"

\* Severities in the order a lane sends them: Critical, Warning, Info.
rank(code) == IF code \in Criticals THEN 0 ELSE 1
Info == 2

Copy(n, r, by, ch) == [n |-> n, rank |-> r, by |-> by, ch |-> ch, due |-> TRUE]
Copies == [n : 1 .. MaxAlerts, rank : 0 .. Info, by : Channels \cup {None},
           ch : Channels, due : BOOLEAN]

\* The copies that wait in the store and in memory, and the record of how some ended.
Waiting == stored \cup ToSet(pending)
End(cs, how) ==
  ended \cup {[n |-> c.n, rank |-> c.rank, by |-> c.by, ch |-> c.ch, how |-> how] : c \in cs}

lane == [failures |-> 0, failing |-> FALSE, resting |-> FALSE,
         held |-> FALSE, quiet |-> FALSE, refusing |-> FALSE]

Costs(k) == faults + k =< MaxFaults /\ faults' = faults + k

----------------------------------------------------------------------------
\* The copies

\* Variant with a fault: the oldest copies are dropped, whatever their severity.
Doomed_oldest(s) == {i \in DOMAIN s : i =< Len(s) - MaxPending}

\* Variant with a fault: one copy too many stays.
Doomed_short(s) ==
  {i \in DOMAIN s :
     Cardinality({j \in DOMAIN s : s[j].rank > s[i].rank \/ (s[j].rank = s[i].rank /\ j < i)})
       < Len(s) - MaxPending - 1}

\* A full queue drops its oldest copies of the lowest severity first.
Doomed(s) ==
  {i \in DOMAIN s :
     Cardinality({j \in DOMAIN s : s[j].rank > s[i].rank \/ (s[j].rank = s[i].rank /\ j < i)})
       < Len(s) - MaxPending}

\* The memory with copies added at its end, and what a full one drops.
putMemory(s, cs) ==
  LET all == s \o SetToSeq(cs)
  IN [kept |-> Only(all, DOMAIN all \ Doomed(all)), dropped |-> {all[i] : i \in Doomed(all)}]

storeAdd(cs) == stored' = stored \cup cs

\* Stores copies; a store that fails, with or without having stored them,
\* leaves them in memory.
putTo(cs) ==
  \/ /\ storeAdd(cs)
     /\ UNCHANGED <<pending, faults, ended>>
  \/ /\ Costs(1)
     /\ storeAdd(cs) \/ UNCHANGED stored
     /\ LET put == putMemory(pending, cs)
        IN /\ pending' = put.kept
           /\ ended' = End(put.dropped, "full")

Put(r) ==
  /\ puts < MaxAlerts
  /\ puts' = puts + 1
  /\ putTo({Copy(puts', r, None, ch) : ch \in configured})

----------------------------------------------------------------------------
\* The alerter

\* Raises a code, unless it was raised within the cooldown.
Raise(code) ==
  /\ open' = open \cup {code}
  /\ IF code \in last
     THEN UNCHANGED <<last, puts, stored, pending, faults, ended>>
     ELSE /\ last' = last \cup {code}
          /\ Put(rank(code))
  /\ UNCHANGED <<configured, lanes, todo, expired>>

\* The condition has ended: an open code is reported as resolved.
Clear(code) ==
  /\ open' = open \ {code}
  /\ last' = last \ {code}
  /\ IF code \in open
     THEN Put(Info)
     ELSE UNCHANGED <<puts, stored, pending, faults, ended>>
  /\ UNCHANGED <<configured, lanes, todo, expired>>

cooldownPasses(code) ==
  /\ code \in last
  /\ last' = last \ {code}
  /\ UNCHANGED <<configured, open, puts, stored, pending, lanes, todo, expired, faults, ended>>

----------------------------------------------------------------------------
\* A pass of a lane (flushLane)

Idle == {}

storeDue(ch) == {c \in stored : c.ch = ch /\ c.due}

\* Variant with a fault: memory is read only when the store fails.
due_store(ch, answers) ==
  {[copy |-> c, mem |-> FALSE] : c \in {d \in storeDue(ch) : answers}}
  \cup {[copy |-> c, mem |-> TRUE] : c \in {d \in ToSet(pending) : ~answers /\ d.ch = ch /\ d.due}}

\* What the lane finds due: the store may fail to answer.
due(ch, answers) ==
  {[copy |-> c, mem |-> FALSE] : c \in {d \in storeDue(ch) : answers}}
  \cup {[copy |-> c, mem |-> TRUE] : c \in {d \in ToSet(pending) : d.ch = ch /\ d.due}}

\* Info copies wait for the digest.
Ready(ch, d) == d.copy.rank # Info \/ ~lanes[ch].held \/ d.copy.n \in expired

begin(ch) ==
  /\ todo[ch] = Idle
  /\ ~lanes[ch].resting
  /\ \E answers \in BOOLEAN :
       /\ IF answers THEN UNCHANGED faults ELSE Costs(1)
       /\ todo' = [todo EXCEPT ![ch] = {d \in due(ch, answers) : Ready(ch, d)}]
  /\ todo'[ch] # Idle
  /\ UNCHANGED <<configured, alerterVars, stored, pending, lanes, expired, ended>>

\* The copies of the next message: one alert, or all the Infos in a digest.
Message(ch) ==
  LET least == CHOOSE d \in todo[ch] : \A e \in todo[ch] : d.copy.rank =< e.copy.rank
  IN IF least.copy.rank = Info THEN {todo[ch]}
     ELSE {{d} : d \in {e \in todo[ch] : e.copy.rank = least.copy.rank}}

InStore(ds) == {d.copy : d \in {e \in ds : ~e.mem}}
InMemory(ds) == {d.copy : d \in {e \in ds : e.mem}}
Forget(s, cs) == Only(s, {i \in DOMAIN s : s[i] \notin cs})

\* Copies that are over; a store that fails keeps its own.
done(ds, extra) ==
  /\ pending' = Forget(pending, InMemory(ds))
  /\ \/ Costs(extra) /\ stored' = stored \ InStore(ds)
     \/ InStore(ds) # {} /\ Costs(extra + 1) /\ UNCHANGED stored

\* Puts the copies off; a store that fails leaves them due.
retry(ds, extra) ==
  /\ pending' = [i \in DOMAIN pending |->
                   [pending[i] EXCEPT !.due = @ /\ pending[i] \notin InMemory(ds)]]
  /\ \/ /\ Costs(extra)
        /\ stored' = (stored \ InStore(ds)) \cup {[c EXCEPT !.due = FALSE] : c \in InStore(ds) \cap stored}
     \/ InStore(ds) # {} /\ Costs(extra + 1) /\ UNCHANGED stored

\* The copies for the other channels, which say who refused the alert.
Others(c) == {Copy(c.n, c.rank, c.ch, o) : o \in configured \ {c.ch}}

storeReroute(c, d) == stored' = (stored \ InStore({d})) \cup Others(c)

\* Variant with a fault: a reroute the store refused is given up.
reroute_lost(c, d) ==
  /\ ended' = End({c}, "refused")
  /\ \/ /\ Costs(1)
        /\ storeReroute(c, d)
        /\ pending' = Forget(pending, InMemory({d}))
     \/ done({d}, 2)

\* A refused Critical goes to the other channels and is dropped in one
\* transaction; when that fails, with or without having landed, the copies for
\* the others wait in memory before the refused one is dropped by itself.
reroute(c, d) ==
  \/ /\ Others(c) # {}
     /\ Costs(1)
     /\ storeReroute(c, d)
     /\ pending' = Forget(pending, InMemory({d}))
     /\ ended' = End({c}, "refused")
  \/ LET put   == putMemory(pending, Others(c))
         spent == IF Others(c) = {} THEN 1 ELSE 2
     IN /\ \/ Costs(spent) /\ stored' = stored \ InStore({d})
           \/ Costs(spent) /\ storeReroute(c, d)
           \/ InStore({d}) # {} /\ Costs(spent + 1) /\ UNCHANGED stored
        /\ pending' = Forget(put.kept, InMemory({d}))
        /\ ended' = End({c}, "refused") \cup End(put.dropped, "full")

Pass(ch, ds) == todo' = [todo EXCEPT ![ch] = @ \ ds]
Rest(ch) == todo' = [todo EXCEPT ![ch] = Idle]

\* A copy no channel took within a week is dropped unsent.
dropExpired(ch) ==
  \E d \in todo[ch] :
    /\ d.copy.n \in expired
    /\ done({d}, 0)
    /\ ended' = End({d.copy}, "old")
    /\ Pass(ch, {d})
    /\ UNCHANGED <<configured, alerterVars, lanes, expired>>

taken(ch, ds) ==
  /\ done(ds, 0)
  /\ ended' = End({d.copy : d \in ds}, "taken")
  /\ lanes' = [lanes EXCEPT ![ch] = [lane EXCEPT !.held = lanes[ch].held \/ \E d \in ds : d.copy.rank = Info]]
  /\ Pass(ch, ds)

refused(ch, ds) ==
  /\ IF \E d \in ds : d.copy.rank = 0 /\ d.copy.by = None
     THEN \E d \in ds : reroute(d.copy, d)
     ELSE done(ds, 1) /\ ended' = End({d.copy : d \in ds}, "refused")
  /\ lanes' = [lanes EXCEPT ![ch] = [@ EXCEPT !.failing = TRUE, !.refusing = TRUE, !.quiet = FALSE,
                                              !.held = @ \/ \E d \in ds : d.copy.rank = Info]]
  /\ Pass(ch, ds)

\* A 429 answer rests the lane; the copies stay due.
limited(ch) ==
  /\ Costs(1)
  /\ lanes' = [lanes EXCEPT ![ch] = [@ EXCEPT !.failing = TRUE, !.resting = TRUE, !.quiet = FALSE]]
  /\ Rest(ch)
  /\ UNCHANGED <<stored, pending, ended>>

\* Any other failure puts the copies off, and a run of them rests the lane.
failed(ch, ds) ==
  LET n == lanes[ch].failures + 1
      rests == n >= failuresToRest
  IN /\ retry(ds, 1)
     /\ lanes' = [lanes EXCEPT ![ch] = [@ EXCEPT !.failures = n, !.failing = TRUE, !.quiet = FALSE,
                                                 !.resting = rests,
                                                 !.held = @ \/ (~rests /\ \E d \in ds : d.copy.rank = Info)]]
     /\ IF rests THEN Rest(ch) ELSE Pass(ch, ds)
     /\ UNCHANGED ended

\* What a webhook's answer means: 2xx, 429, another 4xx but 408, and the rest.
Answers == {"taken", "limited", "refused", "failed"}

attempt(ch) ==
  /\ todo[ch] # Idle
  /\ ~\E d \in todo[ch] : d.copy.n \in expired
  /\ \E ds \in Message(ch), answer \in Answers :
       \/ answer = "taken" /\ taken(ch, ds)
       \/ answer = "refused" /\ refused(ch, ds)
       \/ answer = "limited" /\ limited(ch)
       \/ answer = "failed" /\ failed(ch, ds)
  /\ UNCHANGED <<configured, alerterVars, expired>>

\* Variant with a fault: a lane that only refused is never tested.
test_unrefused(ch) ==
  /\ todo[ch] = Idle
  /\ lanes[ch].failing /\ ~lanes[ch].refusing /\ ~lanes[ch].resting /\ lanes[ch].quiet
  /\ \/ /\ lanes' = [lanes EXCEPT ![ch] = [@ EXCEPT !.failures = 0, !.failing = FALSE, !.quiet = FALSE]]
        /\ UNCHANGED faults
     \/ /\ Costs(1)
        /\ lanes' = [lanes EXCEPT ![ch].quiet = FALSE]
  /\ UNCHANGED <<configured, alerterVars, stored, pending, todo, expired, ended>>

\* A lane that sent nothing for TestEvery tests a channel that counts as
\* failing or refusing; only an alert it takes ends the refusing.
test(ch) ==
  /\ todo[ch] = Idle
  /\ lanes[ch].failing \/ lanes[ch].refusing
  /\ ~lanes[ch].resting /\ lanes[ch].quiet
  /\ \/ /\ lanes' = [lanes EXCEPT ![ch] = [@ EXCEPT !.failures = 0, !.failing = FALSE, !.quiet = FALSE]]
        /\ UNCHANGED faults
     \/ /\ Costs(1)
        /\ lanes' = [lanes EXCEPT ![ch].quiet = FALSE]
  /\ UNCHANGED <<configured, alerterVars, stored, pending, todo, expired, ended>>

----------------------------------------------------------------------------
\* Time and restarts

backoffEnds(ch) ==
  /\ todo[ch] = Idle
  /\ \E c \in Waiting : c.ch = ch /\ ~c.due
  /\ stored' = {[c EXCEPT !.due = @ \/ c.ch = ch] : c \in stored}
  /\ pending' = [i \in DOMAIN pending |-> [pending[i] EXCEPT !.due = @ \/ pending[i].ch = ch]]
  /\ UNCHANGED <<configured, alerterVars, lanes, todo, expired, faults, ended>>

\* A rest or the interval between digests ends.
restEnds(ch) ==
  /\ todo[ch] = Idle
  /\ \E f \in {"resting", "held"} : lanes[ch][f] /\ lanes' = [lanes EXCEPT ![ch][f] = FALSE]
  /\ UNCHANGED <<configured, alerterVars, stored, pending, todo, expired, faults, ended>>

\* The lane has sent nothing for TestEvery.
testDue(ch) ==
  /\ todo[ch] = Idle
  /\ lanes[ch].failing \/ lanes[ch].refusing
  /\ ~lanes[ch].quiet
  /\ lanes' = [lanes EXCEPT ![ch].quiet = TRUE]
  /\ UNCHANGED <<configured, alerterVars, stored, pending, todo, expired, faults, ended>>

expire(n) ==
  /\ n =< puts /\ n \notin expired
  /\ Costs(1)
  /\ expired' = expired \cup {n}
  /\ UNCHANGED <<configured, alerterVars, stored, pending, lanes, todo, ended>>

\* Variant with a fault: the prune forgets which channels are configured.
prune_all(conf) == {}

\* The stored copies of channels no longer configured are dropped once.
prune(conf) == {c \in stored : c.ch \in conf}

\* The process ends and starts again, perhaps without some channels; its memory
\* is gone.  A prune that fails is not tried again.
restart(conf) ==
  /\ conf # {} /\ conf \subseteq configured
  /\ \/ Costs(1) /\ stored' = prune(conf)
     \/ Costs(2) /\ UNCHANGED stored
  /\ configured' = conf
  /\ pending' = <<>>
  /\ ended' = End(ToSet(pending), "crash") \cup End({c \in stored \ stored' : c.ch \notin conf}, "removed")
  /\ lanes' = [ch \in Channels |-> lane]
  /\ todo' = [ch \in Channels |-> Idle]
  /\ last' = {} /\ open' = {}
  /\ UNCHANGED <<puts, expired>>

\* A channel that counts as failing stops the heartbeat once it did so long enough.
Stalling == \E ch \in configured : lanes[ch].failing

Init ==
  /\ configured = Channels
  /\ last = {} /\ open = {} /\ puts = 0
  /\ stored = {} /\ pending = <<>>
  /\ lanes = [ch \in Channels |-> lane]
  /\ todo = [ch \in Channels |-> Idle]
  /\ expired = {} /\ faults = 0 /\ ended = {}

Lane(ch) == begin(ch) \/ dropExpired(ch) \/ attempt(ch)

Next ==
  \/ \E code \in Codes : Raise(code)
  \/ \E code \in Codes : Clear(code)
  \/ \E code \in Codes : cooldownPasses(code)
  \/ \E ch \in configured : begin(ch)
  \/ \E ch \in configured : dropExpired(ch)
  \/ \E ch \in configured : attempt(ch)
  \/ \E ch \in configured : test(ch)
  \/ \E ch \in configured : backoffEnds(ch)
  \/ \E ch \in configured : restEnds(ch)
  \/ \E ch \in configured : testDue(ch)
  \/ \E n \in 1 .. MaxAlerts : expire(n)
  \/ \E conf \in SUBSET Channels : restart(conf)

\* Each lane is a goroutine that runs again whenever a wait of it ends.
Fairness ==
  \A ch \in Channels :
    /\ WF_vars(ch \in configured /\ Lane(ch))
    /\ WF_vars(ch \in configured /\ test(ch))
    /\ WF_vars(ch \in configured /\ backoffEnds(ch))
    /\ WF_vars(ch \in configured /\ restEnds(ch))
    /\ WF_vars(ch \in configured /\ testDue(ch))

Spec == Init /\ [][Next]_vars /\ Fairness

----------------------------------------------------------------------------
TypeOK ==
  /\ configured \subseteq Channels
  /\ last \subseteq open /\ open \subseteq Codes
  /\ stored \subseteq Copies
  /\ Len(pending) =< MaxPending /\ ToSet(pending) \subseteq Copies
  /\ \A ch \in Channels : \A d \in todo[ch] : d.copy \in Copies /\ d.copy.ch = ch
  /\ expired \subseteq 1 .. puts

\* A copy leaves the outbox only when its channel took or refused it, when it is
\* too old, or when its channel was removed: through failing stores, reroutes
\* that half happened and restarts.
StoredSurvives ==
  [][\A c \in stored :
       (~\E d \in stored' : d.n = c.n /\ d.by = c.by /\ d.ch = c.ch)
         => \E e \in ended' : /\ e.n = c.n /\ e.by = c.by /\ e.ch = c.ch
                              /\ e.how \in {"taken", "refused", "old", "removed"}]_vars

\* A Critical that one channel refused is told to every other one, saying so, or
\* still waits for it: it is gone unheard only with a channel, or with the memory
\* of a process whose store had failed.
RefusalTold ==
  \A e \in ended : (e.rank = 0 /\ e.by = None /\ e.how = "refused") =>
    \A o \in configured \ {e.ch} :
      \E c \in Waiting \cup ended : c.n = e.n /\ c.by = e.ch /\ c.ch = o

\* A full queue never drops an alert while a less severe one stays in memory.
FullDropsLeast ==
  [][\A e \in ended' \ ended : e.how = "full" => \A c \in ToSet(pending') : c.rank =< e.rank]_vars

\* No copy is lost but as the queue means to: out of the outbox when it is dealt
\* with, out of a bounded memory the least severe and oldest first.
CopiesSurvive == []TypeOK /\ StoredSurvives /\ FullDropsLeast

\* Once channels and store stop failing, every alert put leaves the queue: no
\* rest, backoff, digest or failed pass leaves a copy behind.
Drained == <>[](\A c \in Waiting : c.ch \notin configured)

\* Once channels stop failing, no lane counts as failing for good, also when
\* nothing is left to send: the heartbeat that a failing lane stops resumes.
HeartbeatResumes == <>[](~Stalling)

\* Once nothing fails any more the queue drains and every lane counts as well.
Settles == Drained /\ HeartbeatResumes

============================================================================
