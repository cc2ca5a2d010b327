------------------------------ MODULE Relayer ------------------------------
(***************************************************************************)
(* The relayer's submissions (services/internal/relayer): each runs as a   *)
(* goroutine of its own from the local checks to the outcome of its        *)
(* transaction, and shares with the others the notes in flight, the held   *)
(* requests, the channel accounts, the exit slot and the cooldowns.        *)
(*                                                                         *)
(* A step of the model is a critical section of the code, or a call of the *)
(* network or the database.  What becomes of a transaction is the engine's *)
(* (module Submit); here it lands, fails or lapses at any time.  A         *)
(* cooldown lasts a day, longer than any behaviour considered.             *)
(***************************************************************************)
EXTENDS Integers, Sequences, FiniteSets

CONSTANTS
  Submissions,  \* requests made, each by a call of Submit
  Requests,     \* the proofs that clients hold
  Notes,        \* the nullifiers each request spends
  Destination,  \* the address each request pays
  Exits,        \* requests that pay anything, so that may queue
  Delayed,      \* requests whose not_before is to come
  Elsewhere,    \* nullifiers that a transaction not the relayer's may spend
  Channels,     \* the channel accounts
  MaxHeld,      \* Config.MaxHeld
  maxStatuses,  \* how many records of held requests are kept
  Timeouts,     \* whether sendWait ends a send the network may have taken
  MaxRefused,   \* bound: submissions whose writes the database may refuse
  MaxRestarts   \* bound

VARIABLES
  inflight,     \* nullifiers in flight
  held, heldBy, heldOrder,   \* the count of held requests and their records
  free,         \* channelPool.free
  exitSlot,     \* whether the exit slot's token is there
  known,        \* nullifiers known to be spent
  cool,         \* what rests, in memory
  db_cool,      \* relay_cooldowns
  db_pending,   \* the pending records of relays
  spent,        \* the vault's nullifiers
  sub,          \* where each submission is
  restarts

heldVars == <<held, heldBy, heldOrder>>
poolVars == <<free, exitSlot>>
coolVars == <<known, cool>>
dbVars   == <<db_cool, db_pending>>
vars == <<inflight, heldVars, poolVars, coolVars, dbVars, spent, sub, restarts>>

Nullifiers   == UNION {Notes[r] : r \in Requests}
Destinations == {Destination[r] : r \in Exits}
None == "none"

ASSUME RelayerAssumptions ==
  /\ Exits \subseteq Requests /\ Delayed \subseteq Requests
  /\ DOMAIN Notes = Requests /\ DOMAIN Destination = Requests
  /\ None \notin Channels /\ None \notin Requests
  /\ MaxHeld \in Nat /\ maxStatuses \in Nat \ {0} /\ MaxRestarts \in Nat
  /\ MaxRefused \in Nat /\ Timeouts \in BOOLEAN

\* What a cooldown rests: a request, a nullifier or a destination.
requestKey(r)     == <<"request", r>>
nullifierKeys(r)  == {<<"nullifier", n>> : n \in Notes[r]}
destinationKeys(r) == IF r \in Exits THEN {<<"destination", Destination[r]>>} ELSE {}
Keys == UNION {{requestKey(r)} \cup nullifierKeys(r) \cup destinationKeys(r) : r \in Requests}

Steps == {"new", "claim", "hold", "held", "fired", "fresh", "acquire", "prepare", "slot",
          "send", "record", "follow", "lookup", "tracked", "finish", "store", "close",
          "unclaim", "ended"}
TxStates == {None, "open", "success", "failed", "conflict", "expired"}

\* A submission: its step, its request, the channel its transaction is from
\* and whether it has the channel to release, whether it has the exit slot,
\* whether its simulation queued the exit, whether sendHeld has yet to give
\* its place back, whether a client cancelled it, its transaction, whether
\* that was recorded, whether the database refused one of its writes, and what
\* its failure rests.
Submission ==
  [step : Steps, req : Requests \cup {None}, channel : Channels \cup {None}, owns : BOOLEAN,
   slot : BOOLEAN, queued : BOOLEAN, sending : BOOLEAN, cancelled : BOOLEAN,
   tx : TxStates, recorded : BOOLEAN, refused : BOOLEAN, rests : SUBSET Keys]

NewSubmission ==
  [step |-> "new", req |-> None, channel |-> None, owns |-> FALSE, slot |-> FALSE,
   queued |-> FALSE, sending |-> FALSE, cancelled |-> FALSE, tx |-> None,
   recorded |-> FALSE, refused |-> FALSE, rests |-> {}]

Init ==
  /\ inflight = {}
  /\ held = 0 /\ heldBy = {} /\ heldOrder = <<>>
  /\ free = Channels /\ exitSlot = TRUE
  /\ known = {} /\ cool = {} /\ db_cool = {} /\ db_pending = {}
  /\ spent = {}
  /\ sub = [s \in Submissions |-> NewSubmission]
  /\ restarts = 0

At(s, step) == sub[s].step = step
Go(s, step) == sub' = [sub EXCEPT ![s].step = step]
NotesOf(s)  == Notes[sub[s].req]

----------------------------------------------------------------------------
\* Submit, hold and CancelHeld

\* guard: what rests is refused.
guard(r) == cool \cap ({requestKey(r)} \cup nullifierKeys(r) \cup destinationKeys(r)) = {}

\* Submit's checks up to the claim; a submission refused by them leaves nothing.
Submit(s, r) ==
  /\ At(s, "new")
  /\ known \cap Notes[r] = {}
  /\ guard(r)
  /\ sub' = [sub EXCEPT ![s].step = "claim", ![s].req = r]
  /\ UNCHANGED <<inflight, heldVars, poolVars, coolVars, dbVars, spent, restarts>>

claim(s) ==
  /\ At(s, "claim")
  /\ IF inflight \cap NotesOf(s) # {}
     THEN Go(s, "ended") /\ UNCHANGED inflight
     ELSE /\ inflight' = inflight \cup NotesOf(s)
          /\ Go(s, IF sub[s].req \in Delayed THEN "hold" ELSE "fresh")
  /\ UNCHANGED <<heldVars, poolVars, coolVars, dbVars, spent, restarts>>

\* Variant with a fault: the order of the records grows without end.
hold_keeps_order(s) ==
  /\ At(s, "hold")
  /\ IF held >= MaxHeld
     THEN /\ inflight' = inflight \ NotesOf(s)
          /\ Go(s, "ended")
          /\ UNCHANGED heldVars
     ELSE /\ held' = held + 1
          /\ heldOrder' = Append(heldOrder, s)
          /\ heldBy' = heldBy \cup {s}
          /\ Go(s, "held")
          /\ UNCHANGED inflight
  /\ UNCHANGED <<poolVars, coolVars, dbVars, spent, restarts>>

\* A held request is counted and recorded; past maxStatuses the oldest record
\* is dropped, whether its request is still held or not.
hold(s) ==
  /\ At(s, "hold")
  /\ IF held >= MaxHeld
     THEN /\ inflight' = inflight \ NotesOf(s)
          /\ Go(s, "ended")
          /\ UNCHANGED heldVars
     ELSE LET order == Append(heldOrder, s)
              full  == Len(order) > maxStatuses
          IN /\ held' = held + 1
             /\ heldOrder' = IF full THEN Tail(order) ELSE order
             /\ heldBy' = (heldBy \cup {s}) \ (IF full THEN {Head(order)} ELSE {})
             /\ Go(s, "held")
             /\ UNCHANGED inflight
  /\ UNCHANGED <<poolVars, coolVars, dbVars, spent, restarts>>

\* The timer of a held request fires: from now on it cannot be stopped.
fire(s) ==
  /\ At(s, "held")
  /\ Go(s, "fired")
  /\ UNCHANGED <<inflight, heldVars, poolVars, coolVars, dbVars, spent, restarts>>

\* Variant with a fault: marks the request and leaves its timer running.
CancelHeld_marks(s) ==
  /\ At(s, "held") /\ s \in heldBy
  /\ sub' = [sub EXCEPT ![s].cancelled = TRUE]
  /\ UNCHANGED <<inflight, heldVars, poolVars, coolVars, dbVars, spent, restarts>>

\* A client cancels a held request whose record is kept and whose timer it can
\* still stop, so that sendHeld never runs for it.
CancelHeld(s) ==
  /\ At(s, "held") /\ s \in heldBy
  /\ sub' = [sub EXCEPT ![s].cancelled = TRUE, ![s].step = "unclaim"]
  /\ held' = held - 1
  /\ UNCHANGED <<inflight, heldBy, heldOrder, poolVars, coolVars, dbVars, spent, restarts>>

\* Variant with a fault: a request without a record keeps its place.
sendHeld_dropped(s) ==
  /\ At(s, "fired")
  /\ \/ /\ s \notin heldBy
        /\ Go(s, "unclaim")
     \/ /\ s \in heldBy
        /\ sub' = [sub EXCEPT ![s].sending = TRUE,
                     ![s].step = IF guard(sub[s].req) THEN "fresh" ELSE "unclaim"]
  /\ UNCHANGED <<inflight, heldVars, poolVars, coolVars, dbVars, spent, restarts>>

\* A held request is due: without a record it is only released, else the
\* cooldowns are looked at once more.
sendHeld(s) ==
  /\ At(s, "fired")
  /\ \/ /\ s \notin heldBy
        /\ held' = held - 1
        /\ Go(s, "unclaim")
     \/ /\ s \in heldBy
        /\ held' = held
        /\ sub' = [sub EXCEPT ![s].sending = TRUE,
                     ![s].step = IF guard(sub[s].req) THEN "fresh" ELSE "unclaim"]
  /\ UNCHANGED <<inflight, heldBy, heldOrder, poolVars, coolVars, dbVars, spent, restarts>>

\* sendHeld returns, once the request is refused or its transaction followed.
sendHeld_returns(s) ==
  /\ sub[s].sending
  /\ sub[s].step \in {"ended", "follow", "tracked", "finish", "store", "close"}
  /\ sub' = [sub EXCEPT ![s].sending = FALSE]
  /\ held' = held - 1
  /\ UNCHANGED <<inflight, heldBy, heldOrder, poolVars, coolVars, dbVars, spent, restarts>>

----------------------------------------------------------------------------
\* relay: the chain, a channel, the simulation and the send

\* A submission ends before it has a channel: the budgets, the destination, the
\* screening, no channel in time, the relayer's context.
refuse(s) ==
  /\ sub[s].step \in {"fresh", "acquire"}
  /\ Go(s, "unclaim")
  /\ UNCHANGED <<inflight, heldVars, poolVars, coolVars, dbVars, spent, restarts>>

\* Variant with a fault: trusts the nullifiers already known instead of the chain.
fresh_known(s) ==
  /\ At(s, "fresh")
  /\ IF known \cap NotesOf(s) # {} THEN Go(s, "unclaim") ELSE Go(s, "acquire")
  /\ UNCHANGED <<inflight, heldVars, poolVars, coolVars, dbVars, spent, restarts>>

\* The notes are read on chain.
fresh(s) ==
  /\ At(s, "fresh")
  /\ IF spent \cap NotesOf(s) # {}
     THEN known' = known \cup NotesOf(s) /\ Go(s, "unclaim")
     ELSE known' = known /\ Go(s, "acquire")
  /\ UNCHANGED <<inflight, heldVars, poolVars, cool, dbVars, spent, restarts>>

acquire(s, ch) ==
  /\ At(s, "acquire")
  /\ ch \in free
  /\ free' = free \ {ch}
  /\ sub' = [sub EXCEPT ![s].step = "prepare", ![s].channel = ch, ![s].owns = TRUE]
  /\ UNCHANGED <<inflight, heldVars, exitSlot, coolVars, dbVars, spent, restarts>>

\* What a submission gives back when it is done with the network.
Released(s) == IF sub[s].owns THEN {sub[s].channel} ELSE {}
GiveBack(s, step) ==
  /\ free' = free \cup Released(s)
  /\ exitSlot' = (exitSlot \/ sub[s].slot)
  /\ sub' = [sub EXCEPT ![s].step = step, ![s].owns = FALSE, ![s].slot = FALSE]

\* Variant with a fault: the exit slot is not given back.
give_up_keeps_slot(s) ==
  /\ sub[s].step \in {"prepare", "slot", "send"}
  /\ free' = free \cup Released(s)
  /\ sub' = [sub EXCEPT ![s].step = "unclaim", ![s].owns = FALSE, ![s].slot = FALSE]
  /\ UNCHANGED <<inflight, heldVars, exitSlot, coolVars, dbVars, spent, restarts>>

\* The rest of send refuses: the simulation, the network's fee, the checks made
\* once more in the guarded mode, the root, or the network.
give_up(s) ==
  /\ sub[s].step \in {"prepare", "slot", "send"}
  /\ GiveBack(s, "unclaim")
  /\ UNCHANGED <<inflight, heldVars, coolVars, dbVars, spent, restarts>>

\* Variant with a fault: an exit that queues goes without the slot.
prepare_without_slot(s, queued) ==
  /\ At(s, "prepare")
  /\ queued => sub[s].req \in Exits
  /\ sub' = [sub EXCEPT ![s].queued = queued, ![s].step = "send"]
  /\ UNCHANGED <<inflight, heldVars, poolVars, coolVars, dbVars, spent, restarts>>

\* The simulation passes.  One that queued its exit goes on with the exit slot
\* or waits for it; one that did not gives the slot back.
prepare(s, queued) ==
  /\ At(s, "prepare")
  /\ queued => sub[s].req \in Exits
  /\ LET has == queued /\ (sub[s].slot \/ exitSlot)
     IN /\ exitSlot' = ((exitSlot \/ sub[s].slot) /\ ~has)
        /\ sub' = [sub EXCEPT ![s].slot = has, ![s].queued = queued,
                     ![s].step = IF queued => has THEN "send" ELSE "slot"]
  /\ UNCHANGED <<inflight, heldVars, free, coolVars, dbVars, spent, restarts>>

\* The slot comes free: the request is simulated again with it.
take_slot(s) ==
  /\ At(s, "slot")
  /\ exitSlot
  /\ exitSlot' = FALSE
  /\ sub' = [sub EXCEPT ![s].slot = TRUE, ![s].step = "prepare"]
  /\ UNCHANGED <<inflight, heldVars, free, coolVars, dbVars, spent, restarts>>

\* The network holds the transaction.
send(s) ==
  /\ At(s, "send")
  /\ sub' = [sub EXCEPT ![s].tx = "open", ![s].step = "record"]
  /\ UNCHANGED <<inflight, heldVars, poolVars, coolVars, dbVars, spent, restarts>>

\* sendWait ends a send that the network may have taken unanswered.
send_timeout(s) ==
  /\ Timeouts
  /\ At(s, "send")
  /\ free' = free \cup Released(s)
  /\ exitSlot' = (exitSlot \/ sub[s].slot)
  /\ sub' = [sub EXCEPT ![s].tx = "open", ![s].step = "unclaim",
                        ![s].owns = FALSE, ![s].slot = FALSE]
  /\ UNCHANGED <<inflight, heldVars, coolVars, dbVars, spent, restarts>>

\* The answers a write of a submission may have.
DbAnswers(s) ==
  {TRUE} \cup {refused \in {FALSE} :
    sub[s].refused \/ Cardinality({u \in Submissions : sub[u].refused}) < MaxRefused}

\* Variant with a fault: a transaction whose record is refused counts as one
\* that was not sent.
record_or_fail(s) ==
  /\ At(s, "record")
  /\ \E ok \in DbAnswers(s) :
       /\ IF ok THEN sub' = [sub EXCEPT ![s].step = "follow", ![s].recorded = TRUE] /\ UNCHANGED poolVars
          ELSE /\ sub' = [sub EXCEPT ![s].step = "unclaim", ![s].refused = TRUE,
                                     ![s].owns = FALSE, ![s].slot = FALSE]
               /\ free' = free \cup Released(s)
               /\ exitSlot' = (exitSlot \/ sub[s].slot)
       /\ db_pending' = IF ok THEN db_pending \cup {s} ELSE db_pending
  /\ UNCHANGED <<inflight, heldVars, coolVars, db_cool, spent, restarts>>

\* db.sent; a transaction whose record is refused is followed all the same.
record(s) ==
  /\ At(s, "record")
  /\ \E ok \in DbAnswers(s) :
       /\ sub' = [sub EXCEPT ![s].step = "follow", ![s].recorded = ok, ![s].refused = @ \/ ~ok]
       /\ db_pending' = IF ok THEN db_pending \cup {s} ELSE db_pending
  /\ UNCHANGED <<inflight, heldVars, poolVars, coolVars, db_cool, spent, restarts>>

----------------------------------------------------------------------------
\* The vault

\* A transaction lands: it succeeds if its notes are unspent, or fails.
land(s, outcome) ==
  /\ sub[s].tx = "open"
  /\ outcome = "success" => spent \cap NotesOf(s) = {}
  /\ sub' = [sub EXCEPT ![s].tx = outcome]
  /\ spent' = IF outcome = "success" THEN spent \cup NotesOf(s) ELSE spent
  /\ UNCHANGED <<inflight, heldVars, poolVars, coolVars, dbVars, restarts>>

\* Another transaction, not the relayer's, spends a note.
spend_elsewhere(n) ==
  /\ n \in Elsewhere \ spent
  /\ spent' = spent \cup {n}
  /\ UNCHANGED <<inflight, heldVars, poolVars, coolVars, dbVars, sub, restarts>>

\* FollowNullifiers takes in the vault's events.
FollowNullifiers ==
  /\ known' = known \cup spent
  /\ UNCHANGED <<inflight, heldVars, poolVars, cool, dbVars, spent, sub, restarts>>

----------------------------------------------------------------------------
\* follow and finish

\* Variant with a fault: waits for a transaction that lapsed.
follow_landed(s) ==
  /\ sub[s].step \in {"follow", "lookup"}
  /\ sub[s].tx \notin {"open", "expired"}
  /\ GiveBack(s, "tracked")
  /\ UNCHANGED <<inflight, heldVars, coolVars, dbVars, spent, restarts>>

\* Track, or Lookup after a restart, knows the outcome: the channel and the
\* slot are free again.
follow(s) ==
  /\ sub[s].step \in {"follow", "lookup"}
  /\ sub[s].tx # "open"
  /\ GiveBack(s, "tracked")
  /\ UNCHANGED <<inflight, heldVars, coolVars, dbVars, spent, restarts>>

\* Variant with a fault: a relay that was sent leaves its notes in flight.
unclaim_refused(s) ==
  /\ sub[s].step \in {"unclaim", "tracked"}
  /\ inflight' = IF At(s, "unclaim") THEN inflight \ NotesOf(s) ELSE inflight
  /\ Go(s, IF At(s, "tracked") THEN "finish" ELSE "ended")
  /\ UNCHANGED <<heldVars, poolVars, coolVars, dbVars, spent, restarts>>

\* The notes are no longer in flight; only then is a transaction's outcome
\* looked at.
unclaim(s) ==
  /\ sub[s].step \in {"unclaim", "tracked"}
  /\ inflight' = inflight \ NotesOf(s)
  /\ Go(s, IF At(s, "tracked") THEN "finish" ELSE "ended")
  /\ UNCHANGED <<heldVars, poolVars, coolVars, dbVars, spent, restarts>>

\* classify and coolDown: what a failure rests by its cause.  The relayer's own
\* and a race rest the request, others its notes too, and one that the
\* destination may have caused the destination.
Rests(r) ==
  LET request == {requestKey(r)}
      notes   == request \cup nullifierKeys(r)
  IN {request, notes, notes \cup destinationKeys(r)}

\* Variant with a fault: the record is completed before the cooldown is stored.
finish_first(s) ==
  /\ At(s, "finish")
  /\ \/ /\ sub[s].tx = "success"
        /\ known' = known \cup NotesOf(s)
        /\ Go(s, "close")
        /\ UNCHANGED <<cool, db_pending>>
     \/ /\ sub[s].tx \in {"conflict", "expired"}
        /\ Go(s, "close")
        /\ UNCHANGED <<known, cool, db_pending>>
     \/ \E rests \in Rests(sub[s].req) :
        /\ sub[s].tx = "failed"
        /\ cool' = cool \cup rests
        /\ known' = known
        /\ db_pending' = db_pending \ {s}
        /\ sub' = [sub EXCEPT ![s].step = "store", ![s].rests = rests]
  /\ UNCHANGED <<inflight, heldVars, poolVars, db_cool, spent, restarts>>

finish(s) ==
  /\ At(s, "finish")
  /\ \/ /\ sub[s].tx = "success"
        /\ known' = known \cup NotesOf(s)
        /\ Go(s, "close")
        /\ UNCHANGED cool
     \/ /\ sub[s].tx \in {"conflict", "expired"}
        /\ Go(s, "close")
        /\ UNCHANGED <<known, cool>>
     \/ \E rests \in Rests(sub[s].req) :
        /\ sub[s].tx = "failed"
        /\ cool' = cool \cup rests
        /\ known' = known
        /\ sub' = [sub EXCEPT ![s].step = "store", ![s].rests = rests]
  /\ UNCHANGED <<inflight, heldVars, poolVars, dbVars, spent, restarts>>

\* coolDown's writes; then a failure whose cause is spent notes adds them to the
\* ones known.
store_cooldown(s) ==
  /\ At(s, "store")
  /\ \E ok \in DbAnswers(s) :
       /\ db_cool' = IF ok THEN db_cool \cup sub[s].rests ELSE db_cool
       /\ sub' = [sub EXCEPT ![s].step = "close", ![s].refused = @ \/ ~ok]
  /\ \/ known' = known
     \/ spent \cap NotesOf(s) # {} /\ known' = known \cup NotesOf(s)
  /\ UNCHANGED <<inflight, heldVars, poolVars, cool, db_pending, spent, restarts>>

\* db.finish completes the record.
db_finish(s) ==
  /\ At(s, "close")
  /\ \E ok \in DbAnswers(s) :
       /\ db_pending' = IF ok THEN db_pending \ {s} ELSE db_pending
       /\ sub' = [sub EXCEPT ![s].step = "ended", ![s].refused = @ \/ ~ok]
  /\ UNCHANGED <<inflight, heldVars, poolVars, coolVars, db_cool, spent, restarts>>

----------------------------------------------------------------------------
\* Restart and Resume

\* Which record gets its channel, when several name one: the first in the order
\* of their hashes.
Takers == {T \in SUBSET db_pending :
             /\ \A s, u \in T : sub[s].channel = sub[u].channel => s = u
             /\ {sub[s].channel : s \in T} = {sub[s].channel : s \in db_pending}}

\* Variant with a fault: the channels of pending records are free to others.
Resume_frees ==
  /\ restarts < MaxRestarts
  /\ restarts' = restarts + 1
  /\ \E takers \in Takers :
       /\ sub' = [s \in Submissions |->
            CASE s \in db_pending ->
                   [sub[s] EXCEPT !.step = "lookup", !.owns = s \in takers,
                                  !.slot = FALSE, !.sending = FALSE]
              [] sub[s].step = "new" -> sub[s]
              [] OTHER -> [sub[s] EXCEPT !.step = "ended", !.owns = FALSE,
                                         !.slot = FALSE, !.sending = FALSE]]
       /\ free' = Channels
  /\ inflight' = UNION {NotesOf(s) : s \in db_pending}
  /\ exitSlot' = TRUE
  /\ held' = 0 /\ heldBy' = {} /\ heldOrder' = <<>>
  /\ known' = {} /\ cool' = db_cool
  /\ UNCHANGED <<dbVars, spent>>

\* The process ends at any moment.  The next one restores the cooldowns,
\* forgets the held requests and follows the records that are pending.
Resume ==
  /\ restarts < MaxRestarts
  /\ restarts' = restarts + 1
  /\ \E takers \in Takers :
       /\ sub' = [s \in Submissions |->
            CASE s \in db_pending ->
                   [sub[s] EXCEPT !.step = "lookup", !.owns = s \in takers,
                                  !.slot = FALSE, !.sending = FALSE]
              [] sub[s].step = "new" -> sub[s]
              [] OTHER -> [sub[s] EXCEPT !.step = "ended", !.owns = FALSE,
                                         !.slot = FALSE, !.sending = FALSE]]
       /\ free' = Channels \ {sub[s].channel : s \in takers}
  /\ inflight' = UNION {NotesOf(s) : s \in db_pending}
  /\ exitSlot' = TRUE
  /\ held' = 0 /\ heldBy' = {} /\ heldOrder' = <<>>
  /\ known' = {} /\ cool' = db_cool
  /\ UNCHANGED <<dbVars, spent>>

----------------------------------------------------------------------------
\* What a goroutine does by itself; a client's cancelling is not of it.
Step(s) ==
  \/ claim(s) \/ hold(s) \/ fire(s) \/ sendHeld(s) \/ sendHeld_returns(s)
  \/ refuse(s) \/ fresh(s) \/ give_up(s) \/ take_slot(s)
  \/ \E ch \in Channels : acquire(s, ch)
  \/ \E queued \in BOOLEAN : prepare(s, queued)
  \/ send(s) \/ send_timeout(s) \/ record(s)
  \/ follow(s) \/ unclaim(s) \/ finish(s) \/ store_cooldown(s) \/ db_finish(s)

Land(s) == \E outcome \in {"success", "failed", "conflict", "expired"} : land(s, outcome)

Next ==
  \/ \E s \in Submissions :
       Step(s) \/ CancelHeld(s) \/ Land(s) \/ \E r \in Requests : Submit(s, r)
  \/ \E n \in Nullifiers : spend_elsewhere(n)
  \/ FollowNullifiers
  \/ Resume

Spec == Init /\ [][Next]_vars

----------------------------------------------------------------------------
\* The types of the variables.
TypeOK ==
  /\ inflight \subseteq Nullifiers /\ spent \subseteq Nullifiers /\ known \subseteq Nullifiers
  /\ held \in Nat
  /\ heldBy \subseteq Submissions
  /\ heldOrder \in Seq(Submissions) /\ Len(heldOrder) =< maxStatuses
  /\ free \subseteq Channels /\ exitSlot \in BOOLEAN
  /\ cool \subseteq Keys /\ db_cool \subseteq Keys
  /\ db_pending \subseteq Submissions
  /\ sub \in [Submissions -> Submission]
  /\ restarts \in 0..MaxRestarts

\* The submissions that have claimed their notes and not let go of them.
Claiming == {s \in Submissions : sub[s].step \notin {"new", "claim", "finish", "store",
                                                     "close", "ended"}}

\* The notes in flight are those of the submissions under way, each note of
\* one: no request shares a note with another's on its way, and none is left
\* behind by a refusal, a cancelling or an outcome.  After a restart two records
\* may name one note: one whose outcome was known but not stored, and the next
\* attempt of the same request.
ClaimsExact ==
  restarts = 0 =>
    /\ inflight = UNION {NotesOf(s) : s \in Claiming}
    /\ \A s, u \in Claiming : s # u => NotesOf(s) \cap NotesOf(u) = {}

\* Every channel is free or has one submission that will release it; the exit
\* slot's token likewise.  None is lost or doubled, across restarts too.
ChannelsExact ==
  /\ \A ch \in Channels :
       Cardinality({s \in Submissions : sub[s].owns /\ sub[s].channel = ch})
         = IF ch \in free THEN 0 ELSE 1
  /\ Cardinality({s \in Submissions : sub[s].slot}) = IF exitSlot THEN 0 ELSE 1

\* A transaction that is recorded or about to be, or whose record was refused
\* and no restart forgot it; one that sendWait cut off is followed by nobody.
Followed(s) == sub[s].recorded \/ At(s, "record") \/ (sub[s].refused /\ restarts = 0)

\* This relayer has one exit that queues in flight at a time, until a restart,
\* which does not take the slot again for an exit of the run before.
ExitAlone ==
  restarts = 0 =>
    \A s, u \in {v \in Submissions : Followed(v) /\ sub[v].queued /\ sub[v].tx = "open"} : s = u

\* A relay that was recorded and did not succeed.
Earlier(z) == sub[z].recorded /\ sub[z].tx \in {"failed", "conflict", "expired"}

\* No relay is on its way that is bound to fail for another of this relayer's:
\* one with the same note that is on its way too, or that spent it.  A restart
\* does not change that but where a third relay had the note before: its record
\* may be followed once more, and its unclaim lets go of what the next attempt
\* has in flight.
NeverDoomed ==
  \A s, u \in {v \in Submissions : Followed(v)} :
    s # u /\ sub[s].tx = "open" /\ sub[u].tx \in {"open", "success"} =>
      \A n \in NotesOf(s) \cap NotesOf(u) :
        restarts > 0 /\ \E z \in Submissions \ {s, u} : Earlier(z) /\ n \in NotesOf(z)

\* held counts the requests that wait or are being sent, at most MaxHeld.
HeldCounted ==
  /\ held = Cardinality({s \in Submissions : sub[s].step \in {"held", "fired"} \/ sub[s].sending})
  /\ held =< MaxHeld

\* A held request that a client was told is cancelled is never sent.
CancelledNeverSent == \A s \in Submissions : sub[s].cancelled => sub[s].tx = None

\* What a failed relay carried rests once it is dealt with, recorded or not,
\* and in the database as well unless that refused to take it: a restart at any
\* moment does not forget it.
FailureRests ==
  \A s \in Submissions :
    sub[s].tx = "failed" /\ Followed(s) /\ At(s, "ended") =>
      /\ requestKey(sub[s].req) \in cool \/ (sub[s].refused /\ restarts > 0)
      /\ requestKey(sub[s].req) \in db_cool \/ sub[s].refused

\* A channel and the slot for exits that queue are each with one submission, and
\* the slot keeps such exits apart.
SlotsExact == ChannelsExact /\ ExitAlone

\* The held requests: their count, their limit and the limit of their records,
\* and that one that was cancelled is not sent.
HeldExact == TypeOK /\ HeldCounted /\ CancelledNeverSent

\* A submission has ended and what it took came back.
AllReleased(s) == At(s, "ended") /\ ~sub[s].owns /\ ~sub[s].slot /\ ~sub[s].sending

==================================================
