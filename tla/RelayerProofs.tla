--------------------------- MODULE RelayerProofs ---------------------------
(***************************************************************************)
(* The relayer keeps what its submissions share, for any number of         *)
(* submissions, requests, channels and restarts.                           *)
(*                                                                         *)
(* The invariant says for every submission what its step implies of its    *)
(* transaction, its record and what it has taken (SubOK), and for every    *)
(* two what they may have in common (ClaimsInv).  A step of one submission *)
(* changes its own record and, of what is shared, only what it took or     *)
(* gives back (HeldEffect, PoolEffect, NotesEffect): that is shown action  *)
(* by action, and that such a step keeps the invariant is shown once.      *)
(***************************************************************************)
EXTENDS Relayer, TLAPS, FiniteSetTheorems

Final == {"success", "failed", "conflict", "expired"}
Unsent == {"new", "claim", "hold", "held", "fired", "fresh", "acquire", "prepare", "slot", "send"}
Staged == {"acquire", "prepare", "slot", "send"}

----------------------------------------------------------------------------
\* What the step of a submission says of it.

\* Its request, its channel and the exit slot.
PlaceOK(s) ==
  /\ At(s, "new") => sub[s] = NewSubmission
  /\ sub[s].step # "new" => sub[s].req \in Requests
  /\ sub[s].owns => sub[s].step \in {"prepare", "slot", "send", "record", "follow", "lookup"}
  /\ sub[s].owns => sub[s].channel \in Channels
  /\ sub[s].step \in {"prepare", "slot", "send", "record"} => sub[s].channel \in Channels
  /\ sub[s].slot => sub[s].step \in {"prepare", "send", "record", "follow"}
  /\ sub[s].queued /\ sub[s].step \in {"send", "record", "follow"} => sub[s].slot
  /\ sub[s].sending => sub[s].step \notin {"new", "claim", "hold", "held", "fired", "lookup"}
  /\ At(s, "lookup") => restarts > 0

\* Its transaction and its record.
TxOK(s) ==
  /\ sub[s].step \in Unsent => sub[s].tx = None
  /\ sub[s].step \in Unsent \cup {"record", "unclaim"} => ~sub[s].recorded /\ ~sub[s].refused
  /\ At(s, "record") => sub[s].tx # None
  /\ sub[s].step \in {"follow", "tracked", "finish", "store", "close"} =>
       sub[s].recorded \/ sub[s].refused
  /\ At(s, "lookup") => sub[s].recorded
  /\ sub[s].recorded \/ sub[s].refused => sub[s].tx # None
  /\ sub[s].step \in {"tracked", "finish", "store", "close"} => sub[s].tx \in Final
  /\ sub[s].recorded /\ At(s, "ended") => sub[s].tx \in Final
  /\ sub[s].refused /\ At(s, "ended") /\ restarts = 0 => sub[s].tx \in Final
  /\ sub[s].recorded /\ s \notin db_pending => At(s, "ended")
  /\ s \in db_pending => sub[s].recorded /\ sub[s].channel \in Channels
  /\ sub[s].cancelled => sub[s].tx = None /\ sub[s].step \in {"unclaim", "ended"}
  /\ sub[s].tx = "success" => NotesOf(s) \subseteq spent

\* What its failure rests.
RestOK(s) ==
  sub[s].tx = "failed" =>
    /\ sub[s].step \in {"store", "close"} => requestKey(sub[s].req) \in cool
    /\ At(s, "store") => requestKey(sub[s].req) \in sub[s].rests
    /\ At(s, "close") => requestKey(sub[s].req) \in db_cool \/ sub[s].refused
    /\ At(s, "ended") /\ Followed(s) =>
         /\ requestKey(sub[s].req) \in cool \/ (sub[s].refused /\ restarts > 0)
         /\ requestKey(sub[s].req) \in db_cool \/ sub[s].refused

SubOK(s) == PlaceOK(s) /\ TxOK(s) /\ RestOK(s)

----------------------------------------------------------------------------
\* What submissions share.

\* The held requests are counted.
Holds(s) == sub[s].step \in {"held", "fired"} \/ sub[s].sending
Holders == {s \in Submissions : Holds(s)}
HeldInv == IsFiniteSet(Holders) /\ held = Cardinality(Holders) /\ held =< MaxHeld

\* A channel that is not free, or the slot's token, is with exactly one.
Owners(ch) == {s \in Submissions : sub[s].owns /\ sub[s].channel = ch}
Slotted == {s \in Submissions : sub[s].slot}
PoolInv ==
  /\ \A ch \in Channels :
       IF ch \in free THEN Owners(ch) = {} ELSE \E s \in Submissions : Owners(ch) = {s}
  /\ IF exitSlot THEN Slotted = {} ELSE \E s \in Submissions : Slotted = {s}

\* Another submission had the note before a restart and did not spend it.
Excused(n, X) == restarts > 0 /\ \E z \in Submissions \ X : Earlier(z) /\ n \in NotesOf(z)

Live(s) == s \in Claiming /\ ~Earlier(s)
OnItsWay(s) == Followed(s) /\ sub[s].tx = "open"
Done(s) == Followed(s) /\ sub[s].tx = "success"

\* The notes in flight are those of the live submissions, ...
InflightInv ==
  \A u \in Submissions : Live(u) => \A n \in NotesOf(u) : n \in inflight \/ Excused(n, {u})
\* ... no two of which share a note, ...
ApartInv ==
  \A s, u \in Submissions : s # u /\ Live(s) /\ Live(u) =>
    \A n \in NotesOf(s) \cap NotesOf(u) : Excused(n, {s, u})
\* ... and none of which has one that a relay has spent.
SpentInv ==
  \A s, u \in Submissions : s # u /\ (OnItsWay(s) \/ sub[s].step \in Staged) /\ Done(u) =>
    \A n \in NotesOf(s) \cap NotesOf(u) : Excused(n, {s, u})
\* The vault spends a note once.
OnceInv ==
  \A s, u \in Submissions : s # u /\ sub[s].tx = "success" /\ sub[u].tx = "success" =>
    NotesOf(s) \cap NotesOf(u) = {}

NotesInv == ClaimsExact /\ InflightInv /\ ApartInv /\ SpentInv /\ OnceInv

RelayerInv ==
  /\ TypeOK
  /\ \A s \in Submissions : SubOK(s)
  /\ HeldInv /\ PoolInv /\ NotesInv

----------------------------------------------------------------------------
\* What a step of the submission s does to what is shared.

\* It changes its own record, and what the others rest on does not shrink.
OneEffect(s) ==
  /\ sub' \in [Submissions -> Submission]
  /\ \A u \in Submissions \ {s} : sub'[u] = sub[u]
  /\ \A u \in Submissions \ {s} : u \in db_pending' <=> u \in db_pending
  /\ cool \subseteq cool' /\ db_cool \subseteq db_cool' /\ spent \subseteq spent'
  /\ restarts' = restarts

\* It keeps its place among the held, or gives it back, or takes one.
HeldEffect(s) ==
  \/ held' = held /\ (Holds(s)' <=> Holds(s))
  \/ held' = held - 1 /\ Holds(s) /\ ~Holds(s)'
  \/ held' = held + 1 /\ ~Holds(s) /\ Holds(s)' /\ held < MaxHeld

\* It keeps its channel, or gives it back, or takes one that is free.
ChannelEffect(s) ==
  \/ free' = free /\ sub'[s].owns = sub[s].owns /\ sub'[s].channel = sub[s].channel
  \/ /\ free' = free \cup (IF sub[s].owns THEN {sub[s].channel} ELSE {})
     /\ ~sub'[s].owns
  \/ /\ ~sub[s].owns /\ sub'[s].owns
     /\ sub'[s].channel \in free
     /\ free' = free \ {sub'[s].channel}

\* It keeps the exit slot, or gives it back, or takes it.
SlotEffect(s) ==
  \/ exitSlot' = exitSlot /\ sub'[s].slot = sub[s].slot
  \/ exitSlot' = (exitSlot \/ sub[s].slot) /\ ~sub'[s].slot
  \/ exitSlot /\ exitSlot' = FALSE /\ sub'[s].slot

\* It keeps its notes in flight, or lets go of them; it is on its way once it
\* was staged, staged once its notes were unspent, and done no more than before.
NotesEffect(s) ==
  /\ sub'[s].req = sub[s].req
  /\ \/ inflight' = inflight /\ (s \in Claiming' <=> s \in Claiming)
     \/ inflight' = inflight \ NotesOf(s) /\ s \in Claiming /\ s \notin Claiming'
  /\ Earlier(s) => Earlier(s)'
  /\ OnItsWay(s)' => OnItsWay(s) \/ At(s, "send")
  /\ sub'[s].step \in Staged => sub[s].step \in Staged \/ spent \cap NotesOf(s) = {}
  /\ Done(s)' => Done(s)
  /\ sub'[s].tx = "success" => sub[s].tx = "success"
  /\ spent' = spent

LEMMA HeldKept ==
  ASSUME TypeOK, HeldInv, NEW s \in Submissions, OneEffect(s), HeldEffect(s)
  PROVE  HeldInv'
<1>0. held \in Nat /\ IsFiniteSet(Holders) /\ held = Cardinality(Holders) /\ held =< MaxHeld
  BY DEF TypeOK, HeldInv
<1>1. \A u \in Submissions \ {s} : Holds(u)' <=> Holds(u)
  BY DEF OneEffect, Holds
<1>2. CASE held' = held /\ (Holds(s)' <=> Holds(s))
  <2>1. Holders' = Holders
    BY <1>1, <1>2 DEF Holders
  <2> QED
    BY <1>0, <1>2, <2>1 DEF HeldInv
<1>3. CASE held' = held - 1 /\ Holds(s) /\ ~Holds(s)'
  <2>1. Holders' = Holders \ {s} /\ s \in Holders
    BY <1>1, <1>3 DEF Holders
  <2>2. IsFiniteSet(Holders \ {s}) /\ Cardinality(Holders \ {s}) = Cardinality(Holders) - 1
    BY <1>0, <2>1, FS_RemoveElement
  <2>3. MaxHeld \in Nat
    BY RelayerAssumptions
  <2> QED
    BY <1>0, <1>3, <2>1, <2>2, <2>3 DEF HeldInv
<1>4. CASE held' = held + 1 /\ ~Holds(s) /\ Holds(s)' /\ held < MaxHeld
  <2>1. Holders' = Holders \cup {s} /\ s \notin Holders
    BY <1>1, <1>4 DEF Holders
  <2>2. IsFiniteSet(Holders \cup {s}) /\ Cardinality(Holders \cup {s}) = Cardinality(Holders) + 1
    BY <1>0, <2>1, FS_AddElement
  <2>3. MaxHeld \in Nat
    BY RelayerAssumptions
  <2> QED
    BY <1>0, <1>4, <2>1, <2>2, <2>3 DEF HeldInv
<1> QED
  BY <1>2, <1>3, <1>4 DEF HeldEffect

LEMMA PoolKept ==
  ASSUME TypeOK, PoolInv, NEW s \in Submissions, SubOK(s), OneEffect(s),
         ChannelEffect(s), SlotEffect(s)
  PROVE  PoolInv'
<1>0. sub[s] \in Submission /\ sub'[s] \in Submission /\ exitSlot \in BOOLEAN
  BY DEF TypeOK, OneEffect
<1>1. \A u \in Submissions \ {s} : sub'[u] = sub[u]
  BY DEF OneEffect
<1>2. ASSUME NEW ch \in Channels
      PROVE  (IF ch \in free THEN Owners(ch) = {} ELSE \E u \in Submissions : Owners(ch) = {u})'
  <2>0. IF ch \in free THEN Owners(ch) = {} ELSE \E u \in Submissions : Owners(ch) = {u}
    BY DEF PoolInv
  <2>1. CASE free' = free /\ sub'[s].owns = sub[s].owns /\ sub'[s].channel = sub[s].channel
    <3>1. Owners(ch)' = Owners(ch)
      BY <1>1, <2>1 DEF Owners
    <3> QED
      BY <2>0, <2>1, <3>1
  <2>2. CASE /\ free' = free \cup (IF sub[s].owns THEN {sub[s].channel} ELSE {})
             /\ ~sub'[s].owns
    <3>1. CASE sub[s].owns /\ sub[s].channel = ch
      <4>1. s \in Owners(ch)
        BY <3>1 DEF Owners
      <4>2. Owners(ch) = {s}
        BY <2>0, <4>1
      <4>3. Owners(ch)' = {}
        BY <1>1, <2>2, <4>2 DEF Owners
      <4> QED
        BY <2>2, <3>1, <4>3
    <3>2. CASE ~(sub[s].owns /\ sub[s].channel = ch)
      <4>1. Owners(ch)' = Owners(ch)
        BY <1>1, <2>2, <3>2 DEF Owners
      <4>2. ch \in free' <=> ch \in free
        BY <2>2, <3>2
      <4> QED
        BY <2>0, <4>1, <4>2
    <3> QED
      BY <3>1, <3>2
  <2>3. CASE /\ ~sub[s].owns /\ sub'[s].owns
             /\ sub'[s].channel \in free
             /\ free' = free \ {sub'[s].channel}
    <3>1. CASE sub'[s].channel = ch
      <4>1. Owners(ch) = {}
        BY <2>0, <2>3, <3>1
      <4>2. Owners(ch)' = {s}
        BY <1>1, <2>3, <3>1, <4>1 DEF Owners
      <4> QED
        BY <2>3, <3>1, <4>2
    <3>2. CASE sub'[s].channel # ch
      <4>1. Owners(ch)' = Owners(ch)
        BY <1>1, <2>3, <3>2 DEF Owners
      <4> QED
        BY <2>0, <2>3, <3>2, <4>1
    <3> QED
      BY <3>1, <3>2
  <2> QED
    BY <2>1, <2>2, <2>3 DEF ChannelEffect
<1>3. (IF exitSlot THEN Slotted = {} ELSE \E u \in Submissions : Slotted = {u})'
  <2>0. IF exitSlot THEN Slotted = {} ELSE \E u \in Submissions : Slotted = {u}
    BY DEF PoolInv
  <2>1. CASE exitSlot' = exitSlot /\ sub'[s].slot = sub[s].slot
    <3>1. Slotted' = Slotted
      BY <1>1, <2>1 DEF Slotted
    <3> QED
      BY <2>0, <2>1, <3>1
  <2>2. CASE exitSlot' = (exitSlot \/ sub[s].slot) /\ ~sub'[s].slot
    <3>1. CASE sub[s].slot
      <4>1. s \in Slotted
        BY <3>1 DEF Slotted
      <4>2. Slotted = {s}
        BY <2>0, <4>1
      <4>3. Slotted' = {}
        BY <1>1, <2>2, <4>2 DEF Slotted
      <4> QED
        BY <2>2, <3>1, <4>3
    <3>2. CASE ~sub[s].slot
      <4>1. Slotted' = Slotted
        BY <1>1, <2>2, <3>2 DEF Slotted
      <4>2. exitSlot' = exitSlot
        BY <1>0, <2>2, <3>2
      <4> QED
        BY <2>0, <4>1, <4>2
    <3> QED
      BY <3>1, <3>2
  <2>3. CASE exitSlot /\ exitSlot' = FALSE /\ sub'[s].slot
    <3>1. Slotted = {}
      BY <2>0, <2>3
    <3>2. Slotted' = {s}
      BY <1>1, <2>3, <3>1 DEF Slotted
    <3> QED
      BY <2>3, <3>2
  <2> QED
    BY <2>1, <2>2, <2>3 DEF SlotEffect
<1> QED
  BY <1>2, <1>3 DEF PoolInv

\* What SubOK says of the others does not depend on the one that moves.
LEMMA OthersKept ==
  ASSUME \A u \in Submissions : SubOK(u), NEW s \in Submissions, OneEffect(s)
  PROVE  \A u \in Submissions \ {s} : SubOK(u)'
<1> SUFFICES ASSUME NEW u \in Submissions \ {s}
             PROVE  SubOK(u)'
  OBVIOUS
<1>1. sub'[u] = sub[u] /\ (u \in db_pending' <=> u \in db_pending) /\ restarts' = restarts
  BY DEF OneEffect
<1>2. cool \subseteq cool' /\ db_cool \subseteq db_cool' /\ spent \subseteq spent'
  BY DEF OneEffect
<1>3. PlaceOK(u) /\ TxOK(u) /\ RestOK(u)
  BY DEF SubOK
<1>4. PlaceOK(u)'
  BY <1>1, <1>3 DEF PlaceOK, At, NewSubmission
<1>5. TxOK(u)'
  BY <1>1, <1>2, <1>3 DEF TxOK, At, NotesOf
<1>6. RestOK(u)'
  BY <1>1, <1>2, <1>3 DEF RestOK, At, Followed, requestKey
<1> QED
  BY <1>4, <1>5, <1>6 DEF SubOK

\* An earlier relay with a note stays one.
LEMMA ExcuseKept ==
  ASSUME \A z \in Submissions : Earlier(z) => Earlier(z)' /\ sub'[z].req = sub[z].req,
         restarts > 0 => restarts' > 0,
         NEW n, NEW X, Excused(n, X)
  PROVE  Excused(n, X)'
BY DEF Excused, NotesOf

\* A step of a submission that claims nothing and spends nothing.
LEMMA NotesKept ==
  ASSUME TypeOK, \A u \in Submissions : SubOK(u), NotesInv,
         NEW s \in Submissions, OneEffect(s), NotesEffect(s)
  PROVE  NotesInv'
<1>1. \A u \in Submissions \ {s} : sub'[u] = sub[u]
  BY DEF OneEffect
<1>2. restarts' = restarts /\ restarts \in Nat
  BY DEF OneEffect, TypeOK
<1>3. \A u \in Submissions : NotesOf(u)' = NotesOf(u)
  BY <1>1 DEF NotesEffect, NotesOf
<1>4. \A u \in Submissions \ {s} : Earlier(u)' <=> Earlier(u)
  BY <1>1 DEF Earlier
<1>5. \A n, X : Excused(n, X) => Excused(n, X)'
  <2> SUFFICES ASSUME NEW n, NEW X, Excused(n, X)
               PROVE  Excused(n, X)'
    OBVIOUS
  <2>1. \A z \in Submissions : Earlier(z) => Earlier(z)' /\ sub'[z].req = sub[z].req
    BY <1>1, <1>4 DEF NotesEffect
  <2> QED
    BY <1>2, <2>1, ExcuseKept
<1>6. \A u \in Submissions \ {s} : u \in Claiming' <=> u \in Claiming
  BY <1>1 DEF Claiming
<1>7. \A u \in Submissions : Live(u)' => Live(u)
  BY <1>4, <1>6 DEF Live, NotesEffect
<1>8. \A u \in Submissions \ {s} : /\ OnItsWay(u)' <=> OnItsWay(u)
                                   /\ Done(u)' <=> Done(u)
  BY <1>1, <1>2 DEF OnItsWay, Done, Followed, At
<1>9. ClaimsExact'
  <2> SUFFICES ASSUME restarts' = 0
               PROVE  /\ inflight' = UNION {NotesOf(u)' : u \in Claiming'}
                      /\ \A u, v \in Claiming' : u # v => NotesOf(u)' \cap NotesOf(v)' = {}
    BY DEF ClaimsExact
  <2>1. /\ inflight = UNION {NotesOf(u) : u \in Claiming}
        /\ \A u, v \in Claiming : u # v => NotesOf(u) \cap NotesOf(v) = {}
    BY <1>2 DEF ClaimsExact, NotesInv
  <2>2. Claiming \subseteq Submissions /\ Claiming' \subseteq Submissions
    BY DEF Claiming
  <2>3. CASE inflight' = inflight /\ (s \in Claiming' <=> s \in Claiming)
    <3>1. Claiming' = Claiming
      BY <1>6, <2>2, <2>3
    <3> QED
      BY <1>3, <2>1, <2>2, <2>3, <3>1
  <2>4. CASE inflight' = inflight \ NotesOf(s) /\ s \in Claiming /\ s \notin Claiming'
    <3>1. Claiming' = Claiming \ {s}
      BY <1>6, <2>2, <2>4
    <3>2. (UNION {NotesOf(u) : u \in Claiming}) \ NotesOf(s) = UNION {NotesOf(u) : u \in Claiming \ {s}}
      BY <2>1, <2>4
    <3>3. UNION {NotesOf(u)' : u \in Claiming'} = UNION {NotesOf(u) : u \in Claiming \ {s}}
      BY <1>3, <2>2, <3>1
    <3>4. inflight' = UNION {NotesOf(u)' : u \in Claiming'}
      BY <2>1, <2>4, <3>2, <3>3
    <3>5. \A u, v \in Claiming' : u # v => NotesOf(u)' \cap NotesOf(v)' = {}
      BY <1>3, <2>1, <2>2, <3>1
    <3> QED
      BY <3>4, <3>5
  <2> QED
    BY <2>3, <2>4 DEF NotesEffect
<1>10. InflightInv'
  <2> SUFFICES ASSUME NEW u \in Submissions, Live(u)', NEW n \in NotesOf(u)'
               PROVE  n \in inflight' \/ Excused(n, {u})'
    BY DEF InflightInv
  <2>1. Live(u) /\ n \in NotesOf(u)
    BY <1>3, <1>7
  <2>2. n \in inflight \/ Excused(n, {u})
    BY <2>1 DEF NotesInv, InflightInv
  <2>3. CASE n \in inflight /\ n \notin inflight'
    <3>1. inflight' = inflight \ NotesOf(s) /\ s \in Claiming /\ s \notin Claiming' /\ n \in NotesOf(s)
      BY <2>3 DEF NotesEffect
    <3>2. u # s
      BY <3>1 DEF Live
    <3>3. CASE ~Earlier(s)
      <4>1. Live(s)
        BY <3>1, <3>3 DEF Live
      <4>2. Excused(n, {s, u})
        BY <2>1, <3>1, <3>2, <4>1 DEF NotesInv, ApartInv
      <4>3. Excused(n, {u})
        BY <4>2 DEF Excused
      <4> QED
        BY <1>5, <4>3
    <3>4. CASE Earlier(s)
      <4>1. restarts # 0
        <5>1. SUFFICES ASSUME restarts = 0
                       PROVE  FALSE
          OBVIOUS
        <5>2. NotesOf(u) \cap NotesOf(s) = {}
          BY <2>1, <3>1, <3>2, <5>1 DEF NotesInv, ClaimsExact, Live
        <5> QED
          BY <2>1, <3>1, <5>2
      <4>2. Excused(n, {u})
        BY <1>2, <3>1, <3>2, <3>4, <4>1 DEF Excused
      <4> QED
        BY <1>5, <4>2
    <3> QED
      BY <3>3, <3>4
  <2> QED
    BY <1>5, <2>2, <2>3
<1>11. ApartInv'
  <2> SUFFICES ASSUME NEW u \in Submissions, NEW v \in Submissions, u # v, Live(u)', Live(v)',
                      NEW n \in NotesOf(u)' \cap NotesOf(v)'
               PROVE  Excused(n, {u, v})'
    BY DEF ApartInv
  <2>1. Live(u) /\ Live(v) /\ n \in NotesOf(u) \cap NotesOf(v)
    BY <1>3, <1>7
  <2> QED
    BY <1>5, <2>1 DEF NotesInv, ApartInv
<1>12. SpentInv'
  <2> SUFFICES ASSUME NEW u \in Submissions, NEW v \in Submissions, u # v,
                      OnItsWay(u)' \/ sub'[u].step \in Staged, Done(v)',
                      NEW n \in NotesOf(u)' \cap NotesOf(v)'
               PROVE  Excused(n, {u, v})'
    BY DEF SpentInv
  <2>1. Done(v) /\ n \in NotesOf(u) \cap NotesOf(v)
    BY <1>3, <1>8 DEF NotesEffect
  <2>2. n \in spent
    BY <2>1 DEF Done, SubOK, TxOK
  <2>3. OnItsWay(u) \/ sub[u].step \in Staged
    <3>1. CASE u = s
      BY <2>1, <2>2, <3>1 DEF NotesEffect, Staged, At
    <3>2. CASE u # s
      BY <1>1, <1>8, <3>2
    <3> QED
      BY <3>1, <3>2
  <2> QED
    BY <1>5, <2>1, <2>3 DEF NotesInv, SpentInv
<1>13. OnceInv'
  <2> SUFFICES ASSUME NEW u \in Submissions, NEW v \in Submissions, u # v,
                      sub'[u].tx = "success", sub'[v].tx = "success"
               PROVE  NotesOf(u)' \cap NotesOf(v)' = {}
    BY DEF OnceInv
  <2>1. sub[u].tx = "success" /\ sub[v].tx = "success"
    BY <1>1 DEF NotesEffect
  <2> QED
    BY <1>3, <2>1 DEF NotesInv, OnceInv
<1> QED
  BY <1>9, <1>10, <1>11, <1>12, <1>13 DEF NotesInv

----------------------------------------------------------------------------
\* A step of a submission keeps the types and what its step says of it, and has
\* the effects above.
Shares(s) ==
  /\ TypeOK' /\ SubOK(s)'
  /\ OneEffect(s) /\ HeldEffect(s) /\ ChannelEffect(s) /\ SlotEffect(s)
Moves(s) == Shares(s) /\ NotesEffect(s)

\* The notes and keys of a request are among all.
LEMMA NotesIn ==
  \A r \in Requests : Notes[r] \subseteq Nullifiers
BY DEF Nullifiers

LEMMA KeysOf ==
  \A r \in Requests : /\ requestKey(r) \in Keys
                      /\ Rests(r) \subseteq SUBSET Keys
                      /\ \A rests \in Rests(r) : requestKey(r) \in rests
BY DEF Keys, Rests

\* A request that holds a place is counted.
LEMMA HolderCounted ==
  ASSUME TypeOK, HeldInv
  PROVE  \A s \in Submissions : Holds(s) => held - 1 \in Nat
<1> SUFFICES ASSUME NEW s \in Submissions, Holds(s)
             PROVE  held - 1 \in Nat
  OBVIOUS
<1>1. s \in Holders /\ IsFiniteSet(Holders) /\ held = Cardinality(Holders)
  BY DEF Holders, HeldInv
<1>2. held # 0
  BY <1>1, FS_EmptySet
<1> QED
  BY <1>2 DEF TypeOK

\* One lemma for each action of a submission.
LEMMA Moves_hold ==
  ASSUME TypeOK, HeldInv, \A u \in Submissions : SubOK(u),
         NEW s \in Submissions, hold(s)
  PROVE  Moves(s)
<1>1. CASE held >= MaxHeld
  <2>0. sub \in [Submissions -> Submission] /\ sub[s] \in Submission
    BY DEF TypeOK
  <2>1. sub' \in [Submissions -> Submission]
    BY <1>1, <2>0 DEF Submission, Steps, TxStates, hold, At, Go
  <2>2. /\ \A u \in Submissions \ {s} : sub'[u] = sub[u]
        /\ sub'[s].step = "ended" /\ sub'[s].req = sub[s].req /\ sub'[s].channel = sub[s].channel
        /\ sub'[s].owns = sub[s].owns /\ sub'[s].slot = sub[s].slot /\ sub'[s].queued = sub[s].queued
        /\ sub'[s].sending = sub[s].sending /\ sub'[s].cancelled = sub[s].cancelled /\ sub'[s].tx = sub[s].tx
        /\ sub'[s].recorded = sub[s].recorded /\ sub'[s].refused = sub[s].refused /\ sub'[s].rests = sub[s].rests
    BY <1>1, <2>0 DEF Submission, hold, At, Go
  <2>3. PlaceOK(s) /\ TxOK(s) /\ RestOK(s)
    BY DEF SubOK
  <2>4. TypeOK'
    BY <1>1, <2>0, <2>1, <2>2, <2>3, HolderCounted, KeysOf, NotesIn DEF TypeOK, PlaceOK,
         NotesOf, Holds, Submission, hold, At, Go, vars, heldVars, poolVars, coolVars, dbVars
  <2>5. OneEffect(s)
    BY <1>1, <2>1, <2>2 DEF OneEffect, hold, At, Go, vars, heldVars, poolVars, coolVars, dbVars
  <2>6. PlaceOK(s)'
    BY <1>1, <2>0, <2>1, <2>2, <2>3 DEF PlaceOK, TxOK, Unsent, hold, At, Go, Submission
  <2>7. TxOK(s)'
    BY <1>1, <2>0, <2>1, <2>2, <2>3 DEF PlaceOK, TxOK, Unsent, Final, TxStates, NotesOf, hold,
         At, Go, Submission, dbVars, coolVars
  <2>8. RestOK(s)'
    BY <1>1, <2>0, <2>1, <2>2, <2>3, KeysOf DEF PlaceOK, TxOK, RestOK, Unsent, Final, Followed,
         requestKey, hold, At, Go, Submission, dbVars, coolVars
  <2>9. HeldEffect(s)
    BY <1>1, <2>0, <2>1, <2>2, <2>3, RelayerAssumptions DEF HeldEffect, Holds, PlaceOK, hold,
         At, Go, heldVars, Submission, TypeOK
  <2>10. ChannelEffect(s) /\ SlotEffect(s)
    BY <1>1, <2>0, <2>1, <2>2, <2>3 DEF ChannelEffect, SlotEffect, PlaceOK, hold, At, Go,
         poolVars, Submission, TypeOK
  <2>11. NotesEffect(s)
    BY <1>1, <2>0, <2>1, <2>2, <2>3 DEF NotesEffect, Claiming, Earlier, OnItsWay, Done,
         Followed, Staged, PlaceOK, TxOK, Unsent, Final, NotesOf, hold, At, Go, Submission
  <2> QED
    BY <2>4, <2>5, <2>6, <2>7, <2>8, <2>9, <2>10, <2>11 DEF Moves, Shares, SubOK
<1>2. CASE ~(held >= MaxHeld)
  <2>0. sub \in [Submissions -> Submission] /\ sub[s] \in Submission
    BY DEF TypeOK
  <2>1. sub' \in [Submissions -> Submission]
    BY <1>2, <2>0 DEF Submission, Steps, TxStates, hold, At, Go
  <2>2. /\ \A u \in Submissions \ {s} : sub'[u] = sub[u]
        /\ sub'[s].step = "held" /\ sub'[s].req = sub[s].req /\ sub'[s].channel = sub[s].channel
        /\ sub'[s].owns = sub[s].owns /\ sub'[s].slot = sub[s].slot /\ sub'[s].queued = sub[s].queued
        /\ sub'[s].sending = sub[s].sending /\ sub'[s].cancelled = sub[s].cancelled /\ sub'[s].tx = sub[s].tx
        /\ sub'[s].recorded = sub[s].recorded /\ sub'[s].refused = sub[s].refused /\ sub'[s].rests = sub[s].rests
    BY <1>2, <2>0 DEF Submission, hold, At, Go
  <2>3. PlaceOK(s) /\ TxOK(s) /\ RestOK(s)
    BY DEF SubOK
  <2>4. TypeOK'
    <3>1. heldOrder \in Seq(Submissions) /\ Len(heldOrder) =< maxStatuses /\ maxStatuses \in Nat
      BY RelayerAssumptions DEF TypeOK
    <3>2. /\ Append(heldOrder, s) \in Seq(Submissions)
          /\ Len(Append(heldOrder, s)) = Len(heldOrder) + 1
      BY <3>1
    <3>3. heldOrder' \in Seq(Submissions) /\ Len(heldOrder') =< maxStatuses
      BY <1>2, <3>1, <3>2 DEF hold
    <3>4. heldBy' \subseteq Submissions
      BY <1>2 DEF TypeOK, hold
    <3>5. held' \in Nat
      BY <1>2 DEF TypeOK, hold
    <3> QED
      BY <1>2, <2>1, <3>3, <3>4, <3>5 DEF TypeOK, hold, poolVars, coolVars, dbVars
  <2>5. OneEffect(s)
    BY <1>2, <2>1, <2>2 DEF OneEffect, hold, At, Go, vars, heldVars, poolVars, coolVars, dbVars
  <2>6. PlaceOK(s)'
    BY <1>2, <2>0, <2>1, <2>2, <2>3 DEF PlaceOK, TxOK, Unsent, hold, At, Go, Submission
  <2>7. TxOK(s)'
    BY <1>2, <2>0, <2>1, <2>2, <2>3 DEF PlaceOK, TxOK, Unsent, Final, TxStates, NotesOf, hold,
         At, Go, Submission, dbVars, coolVars
  <2>8. RestOK(s)'
    BY <1>2, <2>0, <2>1, <2>2, <2>3, KeysOf DEF PlaceOK, TxOK, RestOK, Unsent, Final, Followed,
         requestKey, hold, At, Go, Submission, dbVars, coolVars
  <2>9. HeldEffect(s)
    BY <1>2, <2>0, <2>1, <2>2, <2>3, RelayerAssumptions DEF HeldEffect, Holds, PlaceOK, hold,
         At, Go, heldVars, Submission, TypeOK
  <2>10. ChannelEffect(s) /\ SlotEffect(s)
    BY <1>2, <2>0, <2>1, <2>2, <2>3 DEF ChannelEffect, SlotEffect, PlaceOK, hold, At, Go,
         poolVars, Submission, TypeOK
  <2>11. NotesEffect(s)
    BY <1>2, <2>0, <2>1, <2>2, <2>3 DEF NotesEffect, Claiming, Earlier, OnItsWay, Done,
         Followed, Staged, PlaceOK, TxOK, Unsent, Final, NotesOf, hold, At, Go, Submission
  <2> QED
    BY <2>4, <2>5, <2>6, <2>7, <2>8, <2>9, <2>10, <2>11 DEF Moves, Shares, SubOK
<1> QED
  BY <1>1, <1>2 DEF hold, At, Go

LEMMA Moves_fire ==
  ASSUME TypeOK, HeldInv, \A u \in Submissions : SubOK(u),
         NEW s \in Submissions, fire(s)
  PROVE  Moves(s)
<1>0. sub \in [Submissions -> Submission] /\ sub[s] \in Submission
  BY DEF TypeOK
<1>1. sub' \in [Submissions -> Submission]
  BY <1>0 DEF Submission, Steps, TxStates, fire, At, Go
<1>2. /\ \A u \in Submissions \ {s} : sub'[u] = sub[u]
      /\ sub'[s].step = "fired" /\ sub'[s].req = sub[s].req /\ sub'[s].channel = sub[s].channel
      /\ sub'[s].owns = sub[s].owns /\ sub'[s].slot = sub[s].slot /\ sub'[s].queued = sub[s].queued
      /\ sub'[s].sending = sub[s].sending /\ sub'[s].cancelled = sub[s].cancelled /\ sub'[s].tx = sub[s].tx
      /\ sub'[s].recorded = sub[s].recorded /\ sub'[s].refused = sub[s].refused /\ sub'[s].rests = sub[s].rests
  BY <1>0 DEF Submission, fire, At, Go
<1>3. PlaceOK(s) /\ TxOK(s) /\ RestOK(s)
  BY DEF SubOK
<1>4. TypeOK'
  BY <1>0, <1>1, <1>2, <1>3, HolderCounted, KeysOf, NotesIn DEF TypeOK, PlaceOK, NotesOf, Holds,
       Submission, fire, At, Go, vars, heldVars, poolVars, coolVars, dbVars
<1>5. OneEffect(s)
  BY <1>1, <1>2 DEF OneEffect, fire, At, Go, vars, heldVars, poolVars, coolVars, dbVars
<1>6. PlaceOK(s)'
  BY <1>0, <1>1, <1>2, <1>3 DEF PlaceOK, TxOK, Unsent, fire, At, Go, Submission
<1>7. TxOK(s)'
  BY <1>0, <1>1, <1>2, <1>3 DEF PlaceOK, TxOK, Unsent, Final, TxStates, NotesOf, fire, At, Go,
       Submission, dbVars, coolVars
<1>8. RestOK(s)'
  BY <1>0, <1>1, <1>2, <1>3, KeysOf DEF PlaceOK, TxOK, RestOK, Unsent, Final, Followed,
       requestKey, fire, At, Go, Submission, dbVars, coolVars
<1>9. HeldEffect(s)
  BY <1>0, <1>1, <1>2, <1>3, RelayerAssumptions DEF HeldEffect, Holds, PlaceOK, fire, At, Go,
       heldVars, Submission, TypeOK
<1>10. ChannelEffect(s) /\ SlotEffect(s)
  BY <1>0, <1>1, <1>2, <1>3 DEF ChannelEffect, SlotEffect, PlaceOK, fire, At, Go, poolVars,
       Submission, TypeOK
<1>11. NotesEffect(s)
  BY <1>0, <1>1, <1>2, <1>3 DEF NotesEffect, Claiming, Earlier, OnItsWay, Done, Followed,
       Staged, PlaceOK, TxOK, Unsent, Final, NotesOf, fire, At, Go, Submission
<1> QED
  BY <1>4, <1>5, <1>6, <1>7, <1>8, <1>9, <1>10, <1>11 DEF Moves, Shares, SubOK

LEMMA Moves_CancelHeld ==
  ASSUME TypeOK, HeldInv, \A u \in Submissions : SubOK(u),
         NEW s \in Submissions, CancelHeld(s)
  PROVE  Moves(s)
<1>0. sub \in [Submissions -> Submission] /\ sub[s] \in Submission
  BY DEF TypeOK
<1>1. sub' \in [Submissions -> Submission]
  BY <1>0 DEF Submission, Steps, TxStates, CancelHeld, At
<1>2. /\ \A u \in Submissions \ {s} : sub'[u] = sub[u]
      /\ sub'[s].step = "unclaim" /\ sub'[s].req = sub[s].req /\ sub'[s].channel = sub[s].channel
      /\ sub'[s].owns = sub[s].owns /\ sub'[s].slot = sub[s].slot /\ sub'[s].queued = sub[s].queued
      /\ sub'[s].sending = sub[s].sending /\ sub'[s].cancelled = TRUE /\ sub'[s].tx = sub[s].tx
      /\ sub'[s].recorded = sub[s].recorded /\ sub'[s].refused = sub[s].refused /\ sub'[s].rests = sub[s].rests
  BY <1>0 DEF Submission, CancelHeld, At
<1>3. PlaceOK(s) /\ TxOK(s) /\ RestOK(s)
  BY DEF SubOK
<1>4. TypeOK'
  BY <1>0, <1>1, <1>2, <1>3, HolderCounted, KeysOf, NotesIn DEF TypeOK, PlaceOK, NotesOf, Holds,
       Submission, CancelHeld, At, vars, heldVars, poolVars, coolVars, dbVars
<1>5. OneEffect(s)
  BY <1>1, <1>2 DEF OneEffect, CancelHeld, At, vars, heldVars, poolVars, coolVars, dbVars
<1>6. PlaceOK(s)'
  BY <1>0, <1>1, <1>2, <1>3 DEF PlaceOK, TxOK, Unsent, CancelHeld, At, Submission
<1>7. TxOK(s)'
  BY <1>0, <1>1, <1>2, <1>3 DEF PlaceOK, TxOK, Unsent, Final, TxStates, NotesOf, CancelHeld, At,
       Submission, dbVars, coolVars
<1>8. RestOK(s)'
  BY <1>0, <1>1, <1>2, <1>3, KeysOf DEF PlaceOK, TxOK, RestOK, Unsent, Final, Followed,
       requestKey, CancelHeld, At, Submission, dbVars, coolVars
<1>9. HeldEffect(s)
  BY <1>0, <1>1, <1>2, <1>3, RelayerAssumptions DEF HeldEffect, Holds, PlaceOK, CancelHeld, At,
       heldVars, Submission, TypeOK
<1>10. ChannelEffect(s) /\ SlotEffect(s)
  BY <1>0, <1>1, <1>2, <1>3 DEF ChannelEffect, SlotEffect, PlaceOK, CancelHeld, At, poolVars,
       Submission, TypeOK
<1>11. NotesEffect(s)
  BY <1>0, <1>1, <1>2, <1>3 DEF NotesEffect, Claiming, Earlier, OnItsWay, Done, Followed,
       Staged, PlaceOK, TxOK, Unsent, Final, NotesOf, CancelHeld, At, Submission
<1> QED
  BY <1>4, <1>5, <1>6, <1>7, <1>8, <1>9, <1>10, <1>11 DEF Moves, Shares, SubOK

LEMMA Moves_sendHeld ==
  ASSUME TypeOK, HeldInv, \A u \in Submissions : SubOK(u),
         NEW s \in Submissions, sendHeld(s)
  PROVE  Moves(s)
<1>1. CASE s \notin heldBy
  <2>0. sub \in [Submissions -> Submission] /\ sub[s] \in Submission
    BY DEF TypeOK
  <2>1. sub' \in [Submissions -> Submission]
    BY <1>1, <2>0 DEF Submission, Steps, TxStates, sendHeld, At, Go
  <2>2. /\ \A u \in Submissions \ {s} : sub'[u] = sub[u]
        /\ sub'[s].step = "unclaim" /\ sub'[s].req = sub[s].req /\ sub'[s].channel = sub[s].channel
        /\ sub'[s].owns = sub[s].owns /\ sub'[s].slot = sub[s].slot /\ sub'[s].queued = sub[s].queued
        /\ sub'[s].sending = sub[s].sending /\ sub'[s].cancelled = sub[s].cancelled /\ sub'[s].tx = sub[s].tx
        /\ sub'[s].recorded = sub[s].recorded /\ sub'[s].refused = sub[s].refused /\ sub'[s].rests = sub[s].rests
    BY <1>1, <2>0 DEF Submission, sendHeld, At, Go
  <2>3. PlaceOK(s) /\ TxOK(s) /\ RestOK(s)
    BY DEF SubOK
  <2>4. TypeOK'
    BY <1>1, <2>0, <2>1, <2>2, <2>3, HolderCounted, KeysOf, NotesIn DEF TypeOK, PlaceOK,
         NotesOf, Holds, Submission, sendHeld, At, Go, vars, heldVars, poolVars, coolVars, dbVars
  <2>5. OneEffect(s)
    BY <1>1, <2>1, <2>2 DEF OneEffect, sendHeld, At, Go, vars, heldVars, poolVars, coolVars,
         dbVars
  <2>6. PlaceOK(s)'
    BY <1>1, <2>0, <2>1, <2>2, <2>3 DEF PlaceOK, TxOK, Unsent, sendHeld, At, Go, Submission
  <2>7. TxOK(s)'
    BY <1>1, <2>0, <2>1, <2>2, <2>3 DEF PlaceOK, TxOK, Unsent, Final, TxStates, NotesOf,
         sendHeld, At, Go, Submission, dbVars, coolVars
  <2>8. RestOK(s)'
    BY <1>1, <2>0, <2>1, <2>2, <2>3, KeysOf DEF PlaceOK, TxOK, RestOK, Unsent, Final, Followed,
         requestKey, sendHeld, At, Go, Submission, dbVars, coolVars
  <2>9. HeldEffect(s)
    BY <1>1, <2>0, <2>1, <2>2, <2>3, RelayerAssumptions DEF HeldEffect, Holds, PlaceOK,
         sendHeld, At, Go, heldVars, Submission, TypeOK
  <2>10. ChannelEffect(s) /\ SlotEffect(s)
    BY <1>1, <2>0, <2>1, <2>2, <2>3 DEF ChannelEffect, SlotEffect, PlaceOK, sendHeld, At, Go,
         poolVars, Submission, TypeOK
  <2>11. NotesEffect(s)
    BY <1>1, <2>0, <2>1, <2>2, <2>3 DEF NotesEffect, Claiming, Earlier, OnItsWay, Done,
         Followed, Staged, PlaceOK, TxOK, Unsent, Final, NotesOf, sendHeld, At, Go, Submission
  <2> QED
    BY <2>4, <2>5, <2>6, <2>7, <2>8, <2>9, <2>10, <2>11 DEF Moves, Shares, SubOK
<1>2. CASE s \in heldBy /\ guard(sub[s].req)
  <2>0. sub \in [Submissions -> Submission] /\ sub[s] \in Submission
    BY DEF TypeOK
  <2>1. sub' \in [Submissions -> Submission]
    BY <1>2, <2>0 DEF Submission, Steps, TxStates, sendHeld, At, Go
  <2>2. /\ \A u \in Submissions \ {s} : sub'[u] = sub[u]
        /\ sub'[s].step = "fresh" /\ sub'[s].req = sub[s].req /\ sub'[s].channel = sub[s].channel
        /\ sub'[s].owns = sub[s].owns /\ sub'[s].slot = sub[s].slot /\ sub'[s].queued = sub[s].queued
        /\ sub'[s].sending = TRUE /\ sub'[s].cancelled = sub[s].cancelled /\ sub'[s].tx = sub[s].tx
        /\ sub'[s].recorded = sub[s].recorded /\ sub'[s].refused = sub[s].refused /\ sub'[s].rests = sub[s].rests
    BY <1>2, <2>0 DEF Submission, sendHeld, At, Go
  <2>3. PlaceOK(s) /\ TxOK(s) /\ RestOK(s)
    BY DEF SubOK
  <2>4. TypeOK'
    BY <1>2, <2>0, <2>1, <2>2, <2>3, HolderCounted, KeysOf, NotesIn DEF TypeOK, PlaceOK,
         NotesOf, Holds, Submission, sendHeld, At, Go, vars, heldVars, poolVars, coolVars, dbVars
  <2>5. OneEffect(s)
    BY <1>2, <2>1, <2>2 DEF OneEffect, sendHeld, At, Go, vars, heldVars, poolVars, coolVars,
         dbVars
  <2>6. PlaceOK(s)'
    BY <1>2, <2>0, <2>1, <2>2, <2>3 DEF PlaceOK, TxOK, Unsent, sendHeld, At, Go, Submission
  <2>7. TxOK(s)'
    BY <1>2, <2>0, <2>1, <2>2, <2>3 DEF PlaceOK, TxOK, Unsent, Final, TxStates, NotesOf,
         sendHeld, At, Go, Submission, dbVars, coolVars
  <2>8. RestOK(s)'
    BY <1>2, <2>0, <2>1, <2>2, <2>3, KeysOf DEF PlaceOK, TxOK, RestOK, Unsent, Final, Followed,
         requestKey, sendHeld, At, Go, Submission, dbVars, coolVars
  <2>9. HeldEffect(s)
    BY <1>2, <2>0, <2>1, <2>2, <2>3, RelayerAssumptions DEF HeldEffect, Holds, PlaceOK,
         sendHeld, At, Go, heldVars, Submission, TypeOK
  <2>10. ChannelEffect(s) /\ SlotEffect(s)
    BY <1>2, <2>0, <2>1, <2>2, <2>3 DEF ChannelEffect, SlotEffect, PlaceOK, sendHeld, At, Go,
         poolVars, Submission, TypeOK
  <2>11. NotesEffect(s)
    BY <1>2, <2>0, <2>1, <2>2, <2>3 DEF NotesEffect, Claiming, Earlier, OnItsWay, Done,
         Followed, Staged, PlaceOK, TxOK, Unsent, Final, NotesOf, sendHeld, At, Go, Submission
  <2> QED
    BY <2>4, <2>5, <2>6, <2>7, <2>8, <2>9, <2>10, <2>11 DEF Moves, Shares, SubOK
<1>3. CASE s \in heldBy /\ ~guard(sub[s].req)
  <2>0. sub \in [Submissions -> Submission] /\ sub[s] \in Submission
    BY DEF TypeOK
  <2>1. sub' \in [Submissions -> Submission]
    BY <1>3, <2>0 DEF Submission, Steps, TxStates, sendHeld, At, Go
  <2>2. /\ \A u \in Submissions \ {s} : sub'[u] = sub[u]
        /\ sub'[s].step = "unclaim" /\ sub'[s].req = sub[s].req /\ sub'[s].channel = sub[s].channel
        /\ sub'[s].owns = sub[s].owns /\ sub'[s].slot = sub[s].slot /\ sub'[s].queued = sub[s].queued
        /\ sub'[s].sending = TRUE /\ sub'[s].cancelled = sub[s].cancelled /\ sub'[s].tx = sub[s].tx
        /\ sub'[s].recorded = sub[s].recorded /\ sub'[s].refused = sub[s].refused /\ sub'[s].rests = sub[s].rests
    BY <1>3, <2>0 DEF Submission, sendHeld, At, Go
  <2>3. PlaceOK(s) /\ TxOK(s) /\ RestOK(s)
    BY DEF SubOK
  <2>4. TypeOK'
    BY <1>3, <2>0, <2>1, <2>2, <2>3, HolderCounted, KeysOf, NotesIn DEF TypeOK, PlaceOK,
         NotesOf, Holds, Submission, sendHeld, At, Go, vars, heldVars, poolVars, coolVars, dbVars
  <2>5. OneEffect(s)
    BY <1>3, <2>1, <2>2 DEF OneEffect, sendHeld, At, Go, vars, heldVars, poolVars, coolVars,
         dbVars
  <2>6. PlaceOK(s)'
    BY <1>3, <2>0, <2>1, <2>2, <2>3 DEF PlaceOK, TxOK, Unsent, sendHeld, At, Go, Submission
  <2>7. TxOK(s)'
    BY <1>3, <2>0, <2>1, <2>2, <2>3 DEF PlaceOK, TxOK, Unsent, Final, TxStates, NotesOf,
         sendHeld, At, Go, Submission, dbVars, coolVars
  <2>8. RestOK(s)'
    BY <1>3, <2>0, <2>1, <2>2, <2>3, KeysOf DEF PlaceOK, TxOK, RestOK, Unsent, Final, Followed,
         requestKey, sendHeld, At, Go, Submission, dbVars, coolVars
  <2>9. HeldEffect(s)
    BY <1>3, <2>0, <2>1, <2>2, <2>3, RelayerAssumptions DEF HeldEffect, Holds, PlaceOK,
         sendHeld, At, Go, heldVars, Submission, TypeOK
  <2>10. ChannelEffect(s) /\ SlotEffect(s)
    BY <1>3, <2>0, <2>1, <2>2, <2>3 DEF ChannelEffect, SlotEffect, PlaceOK, sendHeld, At, Go,
         poolVars, Submission, TypeOK
  <2>11. NotesEffect(s)
    BY <1>3, <2>0, <2>1, <2>2, <2>3 DEF NotesEffect, Claiming, Earlier, OnItsWay, Done,
         Followed, Staged, PlaceOK, TxOK, Unsent, Final, NotesOf, sendHeld, At, Go, Submission
  <2> QED
    BY <2>4, <2>5, <2>6, <2>7, <2>8, <2>9, <2>10, <2>11 DEF Moves, Shares, SubOK
<1> QED
  BY <1>1, <1>2, <1>3 DEF sendHeld, At, Go

LEMMA Moves_sendHeld_returns ==
  ASSUME TypeOK, HeldInv, \A u \in Submissions : SubOK(u),
         NEW s \in Submissions, sendHeld_returns(s)
  PROVE  Moves(s)
<1>0. sub \in [Submissions -> Submission] /\ sub[s] \in Submission
  BY DEF TypeOK
<1>1. sub' \in [Submissions -> Submission]
  BY <1>0 DEF Submission, Steps, TxStates, sendHeld_returns, At
<1>2. /\ \A u \in Submissions \ {s} : sub'[u] = sub[u]
      /\ sub'[s].step = sub[s].step /\ sub'[s].req = sub[s].req /\ sub'[s].channel = sub[s].channel
      /\ sub'[s].owns = sub[s].owns /\ sub'[s].slot = sub[s].slot /\ sub'[s].queued = sub[s].queued
      /\ sub'[s].sending = FALSE /\ sub'[s].cancelled = sub[s].cancelled /\ sub'[s].tx = sub[s].tx
      /\ sub'[s].recorded = sub[s].recorded /\ sub'[s].refused = sub[s].refused /\ sub'[s].rests = sub[s].rests
  BY <1>0 DEF Submission, sendHeld_returns, At
<1>3. PlaceOK(s) /\ TxOK(s) /\ RestOK(s)
  BY DEF SubOK
<1>4. TypeOK'
  BY <1>0, <1>1, <1>2, <1>3, HolderCounted, KeysOf, NotesIn DEF TypeOK, PlaceOK, NotesOf, Holds,
       Submission, sendHeld_returns, At, vars, heldVars, poolVars, coolVars, dbVars
<1>5. OneEffect(s)
  BY <1>1, <1>2 DEF OneEffect, sendHeld_returns, At, vars, heldVars, poolVars, coolVars, dbVars
<1>6. PlaceOK(s)'
  BY <1>0, <1>1, <1>2, <1>3 DEF PlaceOK, TxOK, Unsent, sendHeld_returns, At, Submission
<1>7. TxOK(s)'
  BY <1>0, <1>1, <1>2, <1>3 DEF PlaceOK, TxOK, Unsent, Final, TxStates, NotesOf,
       sendHeld_returns, At, Submission, dbVars, coolVars
<1>8. RestOK(s)'
  BY <1>0, <1>1, <1>2, <1>3, KeysOf DEF PlaceOK, TxOK, RestOK, Unsent, Final, Followed,
       requestKey, sendHeld_returns, At, Submission, dbVars, coolVars
<1>9. HeldEffect(s)
  BY <1>0, <1>1, <1>2, <1>3, RelayerAssumptions DEF HeldEffect, Holds, PlaceOK,
       sendHeld_returns, At, heldVars, Submission, TypeOK
<1>10. ChannelEffect(s) /\ SlotEffect(s)
  BY <1>0, <1>1, <1>2, <1>3 DEF ChannelEffect, SlotEffect, PlaceOK, sendHeld_returns, At,
       poolVars, Submission, TypeOK
<1>11. NotesEffect(s)
  BY <1>0, <1>1, <1>2, <1>3 DEF NotesEffect, Claiming, Earlier, OnItsWay, Done, Followed,
       Staged, PlaceOK, TxOK, Unsent, Final, NotesOf, sendHeld_returns, At, Submission
<1> QED
  BY <1>4, <1>5, <1>6, <1>7, <1>8, <1>9, <1>10, <1>11 DEF Moves, Shares, SubOK

LEMMA Moves_refuse ==
  ASSUME TypeOK, HeldInv, \A u \in Submissions : SubOK(u),
         NEW s \in Submissions, refuse(s)
  PROVE  Moves(s)
<1>0. sub \in [Submissions -> Submission] /\ sub[s] \in Submission
  BY DEF TypeOK
<1>1. sub' \in [Submissions -> Submission]
  BY <1>0 DEF Submission, Steps, TxStates, refuse, At, Go
<1>2. /\ \A u \in Submissions \ {s} : sub'[u] = sub[u]
      /\ sub'[s].step = "unclaim" /\ sub'[s].req = sub[s].req /\ sub'[s].channel = sub[s].channel
      /\ sub'[s].owns = sub[s].owns /\ sub'[s].slot = sub[s].slot /\ sub'[s].queued = sub[s].queued
      /\ sub'[s].sending = sub[s].sending /\ sub'[s].cancelled = sub[s].cancelled /\ sub'[s].tx = sub[s].tx
      /\ sub'[s].recorded = sub[s].recorded /\ sub'[s].refused = sub[s].refused /\ sub'[s].rests = sub[s].rests
  BY <1>0 DEF Submission, refuse, At, Go
<1>3. PlaceOK(s) /\ TxOK(s) /\ RestOK(s)
  BY DEF SubOK
<1>4. TypeOK'
  BY <1>0, <1>1, <1>2, <1>3, HolderCounted, KeysOf, NotesIn DEF TypeOK, PlaceOK, NotesOf, Holds,
       Submission, refuse, At, Go, vars, heldVars, poolVars, coolVars, dbVars
<1>5. OneEffect(s)
  BY <1>1, <1>2 DEF OneEffect, refuse, At, Go, vars, heldVars, poolVars, coolVars, dbVars
<1>6. PlaceOK(s)'
  BY <1>0, <1>1, <1>2, <1>3 DEF PlaceOK, TxOK, Unsent, refuse, At, Go, Submission
<1>7. TxOK(s)'
  BY <1>0, <1>1, <1>2, <1>3 DEF PlaceOK, TxOK, Unsent, Final, TxStates, NotesOf, refuse, At, Go,
       Submission, dbVars, coolVars
<1>8. RestOK(s)'
  BY <1>0, <1>1, <1>2, <1>3, KeysOf DEF PlaceOK, TxOK, RestOK, Unsent, Final, Followed,
       requestKey, refuse, At, Go, Submission, dbVars, coolVars
<1>9. HeldEffect(s)
  BY <1>0, <1>1, <1>2, <1>3, RelayerAssumptions DEF HeldEffect, Holds, PlaceOK, refuse, At, Go,
       heldVars, Submission, TypeOK
<1>10. ChannelEffect(s) /\ SlotEffect(s)
  BY <1>0, <1>1, <1>2, <1>3 DEF ChannelEffect, SlotEffect, PlaceOK, refuse, At, Go, poolVars,
       Submission, TypeOK
<1>11. NotesEffect(s)
  BY <1>0, <1>1, <1>2, <1>3 DEF NotesEffect, Claiming, Earlier, OnItsWay, Done, Followed,
       Staged, PlaceOK, TxOK, Unsent, Final, NotesOf, refuse, At, Go, Submission
<1> QED
  BY <1>4, <1>5, <1>6, <1>7, <1>8, <1>9, <1>10, <1>11 DEF Moves, Shares, SubOK

LEMMA Moves_fresh ==
  ASSUME TypeOK, HeldInv, \A u \in Submissions : SubOK(u),
         NEW s \in Submissions, fresh(s)
  PROVE  Moves(s)
<1>1. CASE spent \cap NotesOf(s) # {}
  <2>0. sub \in [Submissions -> Submission] /\ sub[s] \in Submission
    BY DEF TypeOK
  <2>1. sub' \in [Submissions -> Submission]
    BY <1>1, <2>0 DEF Submission, Steps, TxStates, fresh, At, Go
  <2>2. /\ \A u \in Submissions \ {s} : sub'[u] = sub[u]
        /\ sub'[s].step = "unclaim" /\ sub'[s].req = sub[s].req /\ sub'[s].channel = sub[s].channel
        /\ sub'[s].owns = sub[s].owns /\ sub'[s].slot = sub[s].slot /\ sub'[s].queued = sub[s].queued
        /\ sub'[s].sending = sub[s].sending /\ sub'[s].cancelled = sub[s].cancelled /\ sub'[s].tx = sub[s].tx
        /\ sub'[s].recorded = sub[s].recorded /\ sub'[s].refused = sub[s].refused /\ sub'[s].rests = sub[s].rests
    BY <1>1, <2>0 DEF Submission, fresh, At, Go
  <2>3. PlaceOK(s) /\ TxOK(s) /\ RestOK(s)
    BY DEF SubOK
  <2>4. TypeOK'
    BY <1>1, <2>0, <2>1, <2>2, <2>3, HolderCounted, KeysOf, NotesIn DEF TypeOK, PlaceOK,
         NotesOf, Holds, Submission, fresh, At, Go, vars, heldVars, poolVars, coolVars, dbVars
  <2>5. OneEffect(s)
    BY <1>1, <2>1, <2>2 DEF OneEffect, fresh, At, Go, vars, heldVars, poolVars, coolVars, dbVars
  <2>6. PlaceOK(s)'
    BY <1>1, <2>0, <2>1, <2>2, <2>3 DEF PlaceOK, TxOK, Unsent, fresh, At, Go, Submission
  <2>7. TxOK(s)'
    BY <1>1, <2>0, <2>1, <2>2, <2>3 DEF PlaceOK, TxOK, Unsent, Final, TxStates, NotesOf, fresh,
         At, Go, Submission, dbVars, coolVars
  <2>8. RestOK(s)'
    BY <1>1, <2>0, <2>1, <2>2, <2>3, KeysOf DEF PlaceOK, TxOK, RestOK, Unsent, Final, Followed,
         requestKey, fresh, At, Go, Submission, dbVars, coolVars
  <2>9. HeldEffect(s)
    BY <1>1, <2>0, <2>1, <2>2, <2>3, RelayerAssumptions DEF HeldEffect, Holds, PlaceOK, fresh,
         At, Go, heldVars, Submission, TypeOK
  <2>10. ChannelEffect(s) /\ SlotEffect(s)
    BY <1>1, <2>0, <2>1, <2>2, <2>3 DEF ChannelEffect, SlotEffect, PlaceOK, fresh, At, Go,
         poolVars, Submission, TypeOK
  <2>11. NotesEffect(s)
    BY <1>1, <2>0, <2>1, <2>2, <2>3 DEF NotesEffect, Claiming, Earlier, OnItsWay, Done,
         Followed, Staged, PlaceOK, TxOK, Unsent, Final, NotesOf, fresh, At, Go, Submission
  <2> QED
    BY <2>4, <2>5, <2>6, <2>7, <2>8, <2>9, <2>10, <2>11 DEF Moves, Shares, SubOK
<1>2. CASE spent \cap NotesOf(s) = {}
  <2>0. sub \in [Submissions -> Submission] /\ sub[s] \in Submission
    BY DEF TypeOK
  <2>1. sub' \in [Submissions -> Submission]
    BY <1>2, <2>0 DEF Submission, Steps, TxStates, fresh, At, Go
  <2>2. /\ \A u \in Submissions \ {s} : sub'[u] = sub[u]
        /\ sub'[s].step = "acquire" /\ sub'[s].req = sub[s].req /\ sub'[s].channel = sub[s].channel
        /\ sub'[s].owns = sub[s].owns /\ sub'[s].slot = sub[s].slot /\ sub'[s].queued = sub[s].queued
        /\ sub'[s].sending = sub[s].sending /\ sub'[s].cancelled = sub[s].cancelled /\ sub'[s].tx = sub[s].tx
        /\ sub'[s].recorded = sub[s].recorded /\ sub'[s].refused = sub[s].refused /\ sub'[s].rests = sub[s].rests
    BY <1>2, <2>0 DEF Submission, fresh, At, Go
  <2>3. PlaceOK(s) /\ TxOK(s) /\ RestOK(s)
    BY DEF SubOK
  <2>4. TypeOK'
    BY <1>2, <2>0, <2>1, <2>2, <2>3, HolderCounted, KeysOf, NotesIn DEF TypeOK, PlaceOK,
         NotesOf, Holds, Submission, fresh, At, Go, vars, heldVars, poolVars, coolVars, dbVars
  <2>5. OneEffect(s)
    BY <1>2, <2>1, <2>2 DEF OneEffect, fresh, At, Go, vars, heldVars, poolVars, coolVars, dbVars
  <2>6. PlaceOK(s)'
    BY <1>2, <2>0, <2>1, <2>2, <2>3 DEF PlaceOK, TxOK, Unsent, fresh, At, Go, Submission
  <2>7. TxOK(s)'
    BY <1>2, <2>0, <2>1, <2>2, <2>3 DEF PlaceOK, TxOK, Unsent, Final, TxStates, NotesOf, fresh,
         At, Go, Submission, dbVars, coolVars
  <2>8. RestOK(s)'
    BY <1>2, <2>0, <2>1, <2>2, <2>3, KeysOf DEF PlaceOK, TxOK, RestOK, Unsent, Final, Followed,
         requestKey, fresh, At, Go, Submission, dbVars, coolVars
  <2>9. HeldEffect(s)
    BY <1>2, <2>0, <2>1, <2>2, <2>3, RelayerAssumptions DEF HeldEffect, Holds, PlaceOK, fresh,
         At, Go, heldVars, Submission, TypeOK
  <2>10. ChannelEffect(s) /\ SlotEffect(s)
    BY <1>2, <2>0, <2>1, <2>2, <2>3 DEF ChannelEffect, SlotEffect, PlaceOK, fresh, At, Go,
         poolVars, Submission, TypeOK
  <2>11. NotesEffect(s)
    BY <1>2, <2>0, <2>1, <2>2, <2>3 DEF NotesEffect, Claiming, Earlier, OnItsWay, Done,
         Followed, Staged, PlaceOK, TxOK, Unsent, Final, NotesOf, fresh, At, Go, Submission
  <2> QED
    BY <2>4, <2>5, <2>6, <2>7, <2>8, <2>9, <2>10, <2>11 DEF Moves, Shares, SubOK
<1> QED
  BY <1>1, <1>2 DEF fresh, At, Go

LEMMA Moves_acquire ==
  ASSUME TypeOK, HeldInv, \A u \in Submissions : SubOK(u),
         NEW s \in Submissions, NEW ch \in Channels, acquire(s, ch)
  PROVE  Moves(s)
<1>0. sub \in [Submissions -> Submission] /\ sub[s] \in Submission
  BY DEF TypeOK
<1>1. sub' \in [Submissions -> Submission]
  BY <1>0 DEF Submission, Steps, TxStates, acquire, At
<1>2. /\ \A u \in Submissions \ {s} : sub'[u] = sub[u]
      /\ sub'[s].step = "prepare" /\ sub'[s].req = sub[s].req /\ sub'[s].channel = ch
      /\ sub'[s].owns = TRUE /\ sub'[s].slot = sub[s].slot /\ sub'[s].queued = sub[s].queued
      /\ sub'[s].sending = sub[s].sending /\ sub'[s].cancelled = sub[s].cancelled /\ sub'[s].tx = sub[s].tx
      /\ sub'[s].recorded = sub[s].recorded /\ sub'[s].refused = sub[s].refused /\ sub'[s].rests = sub[s].rests
  BY <1>0 DEF Submission, acquire, At
<1>3. PlaceOK(s) /\ TxOK(s) /\ RestOK(s)
  BY DEF SubOK
<1>4. TypeOK'
  BY <1>0, <1>1, <1>2, <1>3, HolderCounted, KeysOf, NotesIn DEF TypeOK, PlaceOK, NotesOf, Holds,
       Submission, acquire, At, vars, heldVars, poolVars, coolVars, dbVars
<1>5. OneEffect(s)
  BY <1>1, <1>2 DEF OneEffect, acquire, At, vars, heldVars, poolVars, coolVars, dbVars
<1>6. PlaceOK(s)'
  BY <1>0, <1>1, <1>2, <1>3 DEF PlaceOK, TxOK, Unsent, acquire, At, Submission
<1>7. TxOK(s)'
  BY <1>0, <1>1, <1>2, <1>3 DEF PlaceOK, TxOK, Unsent, Final, TxStates, NotesOf, acquire, At,
       Submission, dbVars, coolVars
<1>8. RestOK(s)'
  BY <1>0, <1>1, <1>2, <1>3, KeysOf DEF PlaceOK, TxOK, RestOK, Unsent, Final, Followed,
       requestKey, acquire, At, Submission, dbVars, coolVars
<1>9. HeldEffect(s)
  BY <1>0, <1>1, <1>2, <1>3, RelayerAssumptions DEF HeldEffect, Holds, PlaceOK, acquire, At,
       heldVars, Submission, TypeOK
<1>10. ChannelEffect(s) /\ SlotEffect(s)
  BY <1>0, <1>1, <1>2, <1>3 DEF ChannelEffect, SlotEffect, PlaceOK, acquire, At, poolVars,
       Submission, TypeOK
<1>11. NotesEffect(s)
  BY <1>0, <1>1, <1>2, <1>3 DEF NotesEffect, Claiming, Earlier, OnItsWay, Done, Followed,
       Staged, PlaceOK, TxOK, Unsent, Final, NotesOf, acquire, At, Submission
<1> QED
  BY <1>4, <1>5, <1>6, <1>7, <1>8, <1>9, <1>10, <1>11 DEF Moves, Shares, SubOK

LEMMA Moves_give_up ==
  ASSUME TypeOK, HeldInv, \A u \in Submissions : SubOK(u),
         NEW s \in Submissions, give_up(s)
  PROVE  Moves(s)
<1>0. sub \in [Submissions -> Submission] /\ sub[s] \in Submission
  BY DEF TypeOK
<1>1. sub' \in [Submissions -> Submission]
  BY <1>0 DEF Submission, Steps, TxStates, give_up, At, GiveBack, Released
<1>2. /\ \A u \in Submissions \ {s} : sub'[u] = sub[u]
      /\ sub'[s].step = "unclaim" /\ sub'[s].req = sub[s].req /\ sub'[s].channel = sub[s].channel
      /\ sub'[s].owns = FALSE /\ sub'[s].slot = FALSE /\ sub'[s].queued = sub[s].queued
      /\ sub'[s].sending = sub[s].sending /\ sub'[s].cancelled = sub[s].cancelled /\ sub'[s].tx = sub[s].tx
      /\ sub'[s].recorded = sub[s].recorded /\ sub'[s].refused = sub[s].refused /\ sub'[s].rests = sub[s].rests
  BY <1>0 DEF Submission, give_up, At, GiveBack, Released
<1>3. PlaceOK(s) /\ TxOK(s) /\ RestOK(s)
  BY DEF SubOK
<1>4. TypeOK'
  BY <1>0, <1>1, <1>2, <1>3, HolderCounted, KeysOf, NotesIn DEF TypeOK, PlaceOK, NotesOf, Holds,
       Submission, give_up, At, GiveBack, Released, vars, heldVars, poolVars, coolVars, dbVars
<1>5. OneEffect(s)
  BY <1>1, <1>2 DEF OneEffect, give_up, At, GiveBack, Released, vars, heldVars, poolVars,
       coolVars, dbVars
<1>6. PlaceOK(s)'
  BY <1>0, <1>1, <1>2, <1>3 DEF PlaceOK, TxOK, Unsent, give_up, At, GiveBack, Released, Submission
<1>7. TxOK(s)'
  BY <1>0, <1>1, <1>2, <1>3 DEF PlaceOK, TxOK, Unsent, Final, TxStates, NotesOf, give_up, At,
       GiveBack, Released, Submission, dbVars, coolVars
<1>8. RestOK(s)'
  BY <1>0, <1>1, <1>2, <1>3, KeysOf DEF PlaceOK, TxOK, RestOK, Unsent, Final, Followed,
       requestKey, give_up, At, GiveBack, Released, Submission, dbVars, coolVars
<1>9. HeldEffect(s)
  BY <1>0, <1>1, <1>2, <1>3, RelayerAssumptions DEF HeldEffect, Holds, PlaceOK, give_up, At,
       GiveBack, Released, heldVars, Submission, TypeOK
<1>10. ChannelEffect(s) /\ SlotEffect(s)
  BY <1>0, <1>1, <1>2, <1>3 DEF ChannelEffect, SlotEffect, PlaceOK, give_up, At, GiveBack,
       Released, poolVars, Submission, TypeOK
<1>11. NotesEffect(s)
  BY <1>0, <1>1, <1>2, <1>3 DEF NotesEffect, Claiming, Earlier, OnItsWay, Done, Followed,
       Staged, PlaceOK, TxOK, Unsent, Final, NotesOf, give_up, At, GiveBack, Released, Submission
<1> QED
  BY <1>4, <1>5, <1>6, <1>7, <1>8, <1>9, <1>10, <1>11 DEF Moves, Shares, SubOK

LEMMA Moves_prepare ==
  ASSUME TypeOK, HeldInv, \A u \in Submissions : SubOK(u),
         NEW s \in Submissions, NEW queued \in BOOLEAN, prepare(s, queued)
  PROVE  Moves(s)
<1>1. CASE queued /\ (sub[s].slot \/ exitSlot)
  <2>0. sub \in [Submissions -> Submission] /\ sub[s] \in Submission
    BY DEF TypeOK
  <2>1. sub' \in [Submissions -> Submission]
    BY <1>1, <2>0 DEF Submission, Steps, TxStates, prepare, At
  <2>2. /\ \A u \in Submissions \ {s} : sub'[u] = sub[u]
        /\ sub'[s].step = "send" /\ sub'[s].req = sub[s].req /\ sub'[s].channel = sub[s].channel
        /\ sub'[s].owns = sub[s].owns /\ sub'[s].slot = TRUE /\ sub'[s].queued = TRUE
        /\ sub'[s].sending = sub[s].sending /\ sub'[s].cancelled = sub[s].cancelled /\ sub'[s].tx = sub[s].tx
        /\ sub'[s].recorded = sub[s].recorded /\ sub'[s].refused = sub[s].refused /\ sub'[s].rests = sub[s].rests
    BY <1>1, <2>0 DEF Submission, prepare, At
  <2>3. PlaceOK(s) /\ TxOK(s) /\ RestOK(s)
    BY DEF SubOK
  <2>4. TypeOK'
    BY <1>1, <2>0, <2>1, <2>2, <2>3, HolderCounted, KeysOf, NotesIn DEF TypeOK, PlaceOK,
         NotesOf, Holds, Submission, prepare, At, vars, heldVars, poolVars, coolVars, dbVars
  <2>5. OneEffect(s)
    BY <1>1, <2>1, <2>2 DEF OneEffect, prepare, At, vars, heldVars, poolVars, coolVars, dbVars
  <2>6. PlaceOK(s)'
    BY <1>1, <2>0, <2>1, <2>2, <2>3 DEF PlaceOK, TxOK, Unsent, prepare, At, Submission
  <2>7. TxOK(s)'
    BY <1>1, <2>0, <2>1, <2>2, <2>3 DEF PlaceOK, TxOK, Unsent, Final, TxStates, NotesOf,
         prepare, At, Submission, dbVars, coolVars
  <2>8. RestOK(s)'
    BY <1>1, <2>0, <2>1, <2>2, <2>3, KeysOf DEF PlaceOK, TxOK, RestOK, Unsent, Final, Followed,
         requestKey, prepare, At, Submission, dbVars, coolVars
  <2>9. HeldEffect(s)
    BY <1>1, <2>0, <2>1, <2>2, <2>3, RelayerAssumptions DEF HeldEffect, Holds, PlaceOK, prepare,
         At, heldVars, Submission, TypeOK
  <2>10. ChannelEffect(s) /\ SlotEffect(s)
    BY <1>1, <2>0, <2>1, <2>2, <2>3 DEF ChannelEffect, SlotEffect, PlaceOK, prepare, At,
         poolVars, Submission, TypeOK
  <2>11. NotesEffect(s)
    BY <1>1, <2>0, <2>1, <2>2, <2>3 DEF NotesEffect, Claiming, Earlier, OnItsWay, Done,
         Followed, Staged, PlaceOK, TxOK, Unsent, Final, NotesOf, prepare, At, Submission
  <2> QED
    BY <2>4, <2>5, <2>6, <2>7, <2>8, <2>9, <2>10, <2>11 DEF Moves, Shares, SubOK
<1>2. CASE queued /\ ~(sub[s].slot \/ exitSlot)
  <2>0. sub \in [Submissions -> Submission] /\ sub[s] \in Submission
    BY DEF TypeOK
  <2>1. sub' \in [Submissions -> Submission]
    BY <1>2, <2>0 DEF Submission, Steps, TxStates, prepare, At
  <2>2. /\ \A u \in Submissions \ {s} : sub'[u] = sub[u]
        /\ sub'[s].step = "slot" /\ sub'[s].req = sub[s].req /\ sub'[s].channel = sub[s].channel
        /\ sub'[s].owns = sub[s].owns /\ sub'[s].slot = FALSE /\ sub'[s].queued = TRUE
        /\ sub'[s].sending = sub[s].sending /\ sub'[s].cancelled = sub[s].cancelled /\ sub'[s].tx = sub[s].tx
        /\ sub'[s].recorded = sub[s].recorded /\ sub'[s].refused = sub[s].refused /\ sub'[s].rests = sub[s].rests
    BY <1>2, <2>0 DEF Submission, prepare, At
  <2>3. PlaceOK(s) /\ TxOK(s) /\ RestOK(s)
    BY DEF SubOK
  <2>4. TypeOK'
    BY <1>2, <2>0, <2>1, <2>2, <2>3, HolderCounted, KeysOf, NotesIn DEF TypeOK, PlaceOK,
         NotesOf, Holds, Submission, prepare, At, vars, heldVars, poolVars, coolVars, dbVars
  <2>5. OneEffect(s)
    BY <1>2, <2>1, <2>2 DEF OneEffect, prepare, At, vars, heldVars, poolVars, coolVars, dbVars
  <2>6. PlaceOK(s)'
    BY <1>2, <2>0, <2>1, <2>2, <2>3 DEF PlaceOK, TxOK, Unsent, prepare, At, Submission
  <2>7. TxOK(s)'
    BY <1>2, <2>0, <2>1, <2>2, <2>3 DEF PlaceOK, TxOK, Unsent, Final, TxStates, NotesOf,
         prepare, At, Submission, dbVars, coolVars
  <2>8. RestOK(s)'
    BY <1>2, <2>0, <2>1, <2>2, <2>3, KeysOf DEF PlaceOK, TxOK, RestOK, Unsent, Final, Followed,
         requestKey, prepare, At, Submission, dbVars, coolVars
  <2>9. HeldEffect(s)
    BY <1>2, <2>0, <2>1, <2>2, <2>3, RelayerAssumptions DEF HeldEffect, Holds, PlaceOK, prepare,
         At, heldVars, Submission, TypeOK
  <2>10. ChannelEffect(s) /\ SlotEffect(s)
    BY <1>2, <2>0, <2>1, <2>2, <2>3 DEF ChannelEffect, SlotEffect, PlaceOK, prepare, At,
         poolVars, Submission, TypeOK
  <2>11. NotesEffect(s)
    BY <1>2, <2>0, <2>1, <2>2, <2>3 DEF NotesEffect, Claiming, Earlier, OnItsWay, Done,
         Followed, Staged, PlaceOK, TxOK, Unsent, Final, NotesOf, prepare, At, Submission
  <2> QED
    BY <2>4, <2>5, <2>6, <2>7, <2>8, <2>9, <2>10, <2>11 DEF Moves, Shares, SubOK
<1>3. CASE ~queued
  <2>0. sub \in [Submissions -> Submission] /\ sub[s] \in Submission
    BY DEF TypeOK
  <2>1. sub' \in [Submissions -> Submission]
    BY <1>3, <2>0 DEF Submission, Steps, TxStates, prepare, At
  <2>2. /\ \A u \in Submissions \ {s} : sub'[u] = sub[u]
        /\ sub'[s].step = "send" /\ sub'[s].req = sub[s].req /\ sub'[s].channel = sub[s].channel
        /\ sub'[s].owns = sub[s].owns /\ sub'[s].slot = FALSE /\ sub'[s].queued = FALSE
        /\ sub'[s].sending = sub[s].sending /\ sub'[s].cancelled = sub[s].cancelled /\ sub'[s].tx = sub[s].tx
        /\ sub'[s].recorded = sub[s].recorded /\ sub'[s].refused = sub[s].refused /\ sub'[s].rests = sub[s].rests
    BY <1>3, <2>0 DEF Submission, prepare, At
  <2>3. PlaceOK(s) /\ TxOK(s) /\ RestOK(s)
    BY DEF SubOK
  <2>4. TypeOK'
    BY <1>3, <2>0, <2>1, <2>2, <2>3, HolderCounted, KeysOf, NotesIn DEF TypeOK, PlaceOK,
         NotesOf, Holds, Submission, prepare, At, vars, heldVars, poolVars, coolVars, dbVars
  <2>5. OneEffect(s)
    BY <1>3, <2>1, <2>2 DEF OneEffect, prepare, At, vars, heldVars, poolVars, coolVars, dbVars
  <2>6. PlaceOK(s)'
    BY <1>3, <2>0, <2>1, <2>2, <2>3 DEF PlaceOK, TxOK, Unsent, prepare, At, Submission
  <2>7. TxOK(s)'
    BY <1>3, <2>0, <2>1, <2>2, <2>3 DEF PlaceOK, TxOK, Unsent, Final, TxStates, NotesOf,
         prepare, At, Submission, dbVars, coolVars
  <2>8. RestOK(s)'
    BY <1>3, <2>0, <2>1, <2>2, <2>3, KeysOf DEF PlaceOK, TxOK, RestOK, Unsent, Final, Followed,
         requestKey, prepare, At, Submission, dbVars, coolVars
  <2>9. HeldEffect(s)
    BY <1>3, <2>0, <2>1, <2>2, <2>3, RelayerAssumptions DEF HeldEffect, Holds, PlaceOK, prepare,
         At, heldVars, Submission, TypeOK
  <2>10. ChannelEffect(s) /\ SlotEffect(s)
    BY <1>3, <2>0, <2>1, <2>2, <2>3 DEF ChannelEffect, SlotEffect, PlaceOK, prepare, At,
         poolVars, Submission, TypeOK
  <2>11. NotesEffect(s)
    BY <1>3, <2>0, <2>1, <2>2, <2>3 DEF NotesEffect, Claiming, Earlier, OnItsWay, Done,
         Followed, Staged, PlaceOK, TxOK, Unsent, Final, NotesOf, prepare, At, Submission
  <2> QED
    BY <2>4, <2>5, <2>6, <2>7, <2>8, <2>9, <2>10, <2>11 DEF Moves, Shares, SubOK
<1> QED
  BY <1>1, <1>2, <1>3 DEF prepare, At

LEMMA Moves_take_slot ==
  ASSUME TypeOK, HeldInv, \A u \in Submissions : SubOK(u),
         NEW s \in Submissions, take_slot(s)
  PROVE  Moves(s)
<1>0. sub \in [Submissions -> Submission] /\ sub[s] \in Submission
  BY DEF TypeOK
<1>1. sub' \in [Submissions -> Submission]
  BY <1>0 DEF Submission, Steps, TxStates, take_slot, At
<1>2. /\ \A u \in Submissions \ {s} : sub'[u] = sub[u]
      /\ sub'[s].step = "prepare" /\ sub'[s].req = sub[s].req /\ sub'[s].channel = sub[s].channel
      /\ sub'[s].owns = sub[s].owns /\ sub'[s].slot = TRUE /\ sub'[s].queued = sub[s].queued
      /\ sub'[s].sending = sub[s].sending /\ sub'[s].cancelled = sub[s].cancelled /\ sub'[s].tx = sub[s].tx
      /\ sub'[s].recorded = sub[s].recorded /\ sub'[s].refused = sub[s].refused /\ sub'[s].rests = sub[s].rests
  BY <1>0 DEF Submission, take_slot, At
<1>3. PlaceOK(s) /\ TxOK(s) /\ RestOK(s)
  BY DEF SubOK
<1>4. TypeOK'
  BY <1>0, <1>1, <1>2, <1>3, HolderCounted, KeysOf, NotesIn DEF TypeOK, PlaceOK, NotesOf, Holds,
       Submission, take_slot, At, vars, heldVars, poolVars, coolVars, dbVars
<1>5. OneEffect(s)
  BY <1>1, <1>2 DEF OneEffect, take_slot, At, vars, heldVars, poolVars, coolVars, dbVars
<1>6. PlaceOK(s)'
  BY <1>0, <1>1, <1>2, <1>3 DEF PlaceOK, TxOK, Unsent, take_slot, At, Submission
<1>7. TxOK(s)'
  BY <1>0, <1>1, <1>2, <1>3 DEF PlaceOK, TxOK, Unsent, Final, TxStates, NotesOf, take_slot, At,
       Submission, dbVars, coolVars
<1>8. RestOK(s)'
  BY <1>0, <1>1, <1>2, <1>3, KeysOf DEF PlaceOK, TxOK, RestOK, Unsent, Final, Followed,
       requestKey, take_slot, At, Submission, dbVars, coolVars
<1>9. HeldEffect(s)
  BY <1>0, <1>1, <1>2, <1>3, RelayerAssumptions DEF HeldEffect, Holds, PlaceOK, take_slot, At,
       heldVars, Submission, TypeOK
<1>10. ChannelEffect(s) /\ SlotEffect(s)
  BY <1>0, <1>1, <1>2, <1>3 DEF ChannelEffect, SlotEffect, PlaceOK, take_slot, At, poolVars,
       Submission, TypeOK
<1>11. NotesEffect(s)
  BY <1>0, <1>1, <1>2, <1>3 DEF NotesEffect, Claiming, Earlier, OnItsWay, Done, Followed,
       Staged, PlaceOK, TxOK, Unsent, Final, NotesOf, take_slot, At, Submission
<1> QED
  BY <1>4, <1>5, <1>6, <1>7, <1>8, <1>9, <1>10, <1>11 DEF Moves, Shares, SubOK

LEMMA Moves_send ==
  ASSUME TypeOK, HeldInv, \A u \in Submissions : SubOK(u),
         NEW s \in Submissions, send(s)
  PROVE  Moves(s)
<1>0. sub \in [Submissions -> Submission] /\ sub[s] \in Submission
  BY DEF TypeOK
<1>1. sub' \in [Submissions -> Submission]
  BY <1>0 DEF Submission, Steps, TxStates, send, At
<1>2. /\ \A u \in Submissions \ {s} : sub'[u] = sub[u]
      /\ sub'[s].step = "record" /\ sub'[s].req = sub[s].req /\ sub'[s].channel = sub[s].channel
      /\ sub'[s].owns = sub[s].owns /\ sub'[s].slot = sub[s].slot /\ sub'[s].queued = sub[s].queued
      /\ sub'[s].sending = sub[s].sending /\ sub'[s].cancelled = sub[s].cancelled /\ sub'[s].tx = "open"
      /\ sub'[s].recorded = sub[s].recorded /\ sub'[s].refused = sub[s].refused /\ sub'[s].rests = sub[s].rests
  BY <1>0 DEF Submission, send, At
<1>3. PlaceOK(s) /\ TxOK(s) /\ RestOK(s)
  BY DEF SubOK
<1>4. TypeOK'
  BY <1>0, <1>1, <1>2, <1>3, HolderCounted, KeysOf, NotesIn DEF TypeOK, PlaceOK, NotesOf, Holds,
       Submission, send, At, vars, heldVars, poolVars, coolVars, dbVars
<1>5. OneEffect(s)
  BY <1>1, <1>2 DEF OneEffect, send, At, vars, heldVars, poolVars, coolVars, dbVars
<1>6. PlaceOK(s)'
  BY <1>0, <1>1, <1>2, <1>3 DEF PlaceOK, TxOK, Unsent, send, At, Submission
<1>7. TxOK(s)'
  BY <1>0, <1>1, <1>2, <1>3 DEF PlaceOK, TxOK, Unsent, Final, TxStates, NotesOf, send, At,
       Submission, dbVars, coolVars
<1>8. RestOK(s)'
  BY <1>0, <1>1, <1>2, <1>3, KeysOf DEF PlaceOK, TxOK, RestOK, Unsent, Final, Followed,
       requestKey, send, At, Submission, dbVars, coolVars
<1>9. HeldEffect(s)
  BY <1>0, <1>1, <1>2, <1>3, RelayerAssumptions DEF HeldEffect, Holds, PlaceOK, send, At,
       heldVars, Submission, TypeOK
<1>10. ChannelEffect(s) /\ SlotEffect(s)
  BY <1>0, <1>1, <1>2, <1>3 DEF ChannelEffect, SlotEffect, PlaceOK, send, At, poolVars,
       Submission, TypeOK
<1>11. NotesEffect(s)
  BY <1>0, <1>1, <1>2, <1>3 DEF NotesEffect, Claiming, Earlier, OnItsWay, Done, Followed,
       Staged, PlaceOK, TxOK, Unsent, Final, NotesOf, send, At, Submission
<1> QED
  BY <1>4, <1>5, <1>6, <1>7, <1>8, <1>9, <1>10, <1>11 DEF Moves, Shares, SubOK

LEMMA Moves_send_timeout ==
  ASSUME TypeOK, HeldInv, \A u \in Submissions : SubOK(u),
         NEW s \in Submissions, send_timeout(s)
  PROVE  Moves(s)
<1>0. sub \in [Submissions -> Submission] /\ sub[s] \in Submission
  BY DEF TypeOK
<1>1. sub' \in [Submissions -> Submission]
  BY <1>0 DEF Submission, Steps, TxStates, send_timeout, At, Released
<1>2. /\ \A u \in Submissions \ {s} : sub'[u] = sub[u]
      /\ sub'[s].step = "unclaim" /\ sub'[s].req = sub[s].req /\ sub'[s].channel = sub[s].channel
      /\ sub'[s].owns = FALSE /\ sub'[s].slot = FALSE /\ sub'[s].queued = sub[s].queued
      /\ sub'[s].sending = sub[s].sending /\ sub'[s].cancelled = sub[s].cancelled /\ sub'[s].tx = "open"
      /\ sub'[s].recorded = sub[s].recorded /\ sub'[s].refused = sub[s].refused /\ sub'[s].rests = sub[s].rests
  BY <1>0 DEF Submission, send_timeout, At, Released
<1>3. PlaceOK(s) /\ TxOK(s) /\ RestOK(s)
  BY DEF SubOK
<1>4. TypeOK'
  BY <1>0, <1>1, <1>2, <1>3, HolderCounted, KeysOf, NotesIn DEF TypeOK, PlaceOK, NotesOf, Holds,
       Submission, send_timeout, At, Released, vars, heldVars, poolVars, coolVars, dbVars
<1>5. OneEffect(s)
  BY <1>1, <1>2 DEF OneEffect, send_timeout, At, Released, vars, heldVars, poolVars, coolVars,
       dbVars
<1>6. PlaceOK(s)'
  BY <1>0, <1>1, <1>2, <1>3 DEF PlaceOK, TxOK, Unsent, send_timeout, At, Released, Submission
<1>7. TxOK(s)'
  BY <1>0, <1>1, <1>2, <1>3 DEF PlaceOK, TxOK, Unsent, Final, TxStates, NotesOf, send_timeout,
       At, Released, Submission, dbVars, coolVars
<1>8. RestOK(s)'
  BY <1>0, <1>1, <1>2, <1>3, KeysOf DEF PlaceOK, TxOK, RestOK, Unsent, Final, Followed,
       requestKey, send_timeout, At, Released, Submission, dbVars, coolVars
<1>9. HeldEffect(s)
  BY <1>0, <1>1, <1>2, <1>3, RelayerAssumptions DEF HeldEffect, Holds, PlaceOK, send_timeout,
       At, Released, heldVars, Submission, TypeOK
<1>10. ChannelEffect(s) /\ SlotEffect(s)
  BY <1>0, <1>1, <1>2, <1>3 DEF ChannelEffect, SlotEffect, PlaceOK, send_timeout, At, Released,
       poolVars, Submission, TypeOK
<1>11. NotesEffect(s)
  BY <1>0, <1>1, <1>2, <1>3 DEF NotesEffect, Claiming, Earlier, OnItsWay, Done, Followed,
       Staged, PlaceOK, TxOK, Unsent, Final, NotesOf, send_timeout, At, Released, Submission
<1> QED
  BY <1>4, <1>5, <1>6, <1>7, <1>8, <1>9, <1>10, <1>11 DEF Moves, Shares, SubOK

LEMMA Moves_claim ==
  ASSUME TypeOK, HeldInv, \A u \in Submissions : SubOK(u),
         NEW s \in Submissions, claim(s), inflight \cap NotesOf(s) # {}
  PROVE  Moves(s)
<1>0. sub \in [Submissions -> Submission] /\ sub[s] \in Submission
  BY DEF TypeOK
<1>1. sub' \in [Submissions -> Submission]
  BY <1>0 DEF Submission, Steps, TxStates, claim, At, Go
<1>2. /\ \A u \in Submissions \ {s} : sub'[u] = sub[u]
      /\ sub'[s].step = "ended" /\ sub'[s].req = sub[s].req /\ sub'[s].channel = sub[s].channel
      /\ sub'[s].owns = sub[s].owns /\ sub'[s].slot = sub[s].slot /\ sub'[s].queued = sub[s].queued
      /\ sub'[s].sending = sub[s].sending /\ sub'[s].cancelled = sub[s].cancelled /\ sub'[s].tx = sub[s].tx
      /\ sub'[s].recorded = sub[s].recorded /\ sub'[s].refused = sub[s].refused /\ sub'[s].rests = sub[s].rests
  BY <1>0 DEF Submission, claim, At, Go
<1>3. PlaceOK(s) /\ TxOK(s) /\ RestOK(s)
  BY DEF SubOK
<1>4. TypeOK'
  BY <1>0, <1>1, <1>2, <1>3, HolderCounted, KeysOf, NotesIn DEF TypeOK, PlaceOK, NotesOf, Holds,
       Submission, claim, At, Go, vars, heldVars, poolVars, coolVars, dbVars
<1>5. OneEffect(s)
  BY <1>1, <1>2 DEF OneEffect, claim, At, Go, vars, heldVars, poolVars, coolVars, dbVars
<1>6. PlaceOK(s)'
  BY <1>0, <1>1, <1>2, <1>3 DEF PlaceOK, TxOK, Unsent, claim, At, Go, Submission
<1>7. TxOK(s)'
  BY <1>0, <1>1, <1>2, <1>3 DEF PlaceOK, TxOK, Unsent, Final, TxStates, NotesOf, claim, At, Go,
       Submission, dbVars, coolVars
<1>8. RestOK(s)'
  BY <1>0, <1>1, <1>2, <1>3, KeysOf DEF PlaceOK, TxOK, RestOK, Unsent, Final, Followed,
       requestKey, claim, At, Go, Submission, dbVars, coolVars
<1>9. HeldEffect(s)
  BY <1>0, <1>1, <1>2, <1>3, RelayerAssumptions DEF HeldEffect, Holds, PlaceOK, claim, At, Go,
       heldVars, Submission, TypeOK
<1>10. ChannelEffect(s) /\ SlotEffect(s)
  BY <1>0, <1>1, <1>2, <1>3 DEF ChannelEffect, SlotEffect, PlaceOK, claim, At, Go, poolVars,
       Submission, TypeOK
<1>11. NotesEffect(s)
  BY <1>0, <1>1, <1>2, <1>3 DEF NotesEffect, Claiming, Earlier, OnItsWay, Done, Followed,
       Staged, PlaceOK, TxOK, Unsent, Final, NotesOf, claim, At, Go, Submission
<1> QED
  BY <1>4, <1>5, <1>6, <1>7, <1>8, <1>9, <1>10, <1>11 DEF Moves, Shares, SubOK

LEMMA Moves_land ==
  ASSUME TypeOK, HeldInv, \A u \in Submissions : SubOK(u),
         NEW s \in Submissions, NEW outcome \in {"failed", "conflict", "expired"}, land(s,
         outcome)
  PROVE  Moves(s)
<1>0. sub \in [Submissions -> Submission] /\ sub[s] \in Submission
  BY DEF TypeOK
<1>1. sub' \in [Submissions -> Submission]
  BY <1>0 DEF Submission, Steps, TxStates, land, At, None
<1>2. /\ \A u \in Submissions \ {s} : sub'[u] = sub[u]
      /\ sub'[s].step = sub[s].step /\ sub'[s].req = sub[s].req /\ sub'[s].channel = sub[s].channel
      /\ sub'[s].owns = sub[s].owns /\ sub'[s].slot = sub[s].slot /\ sub'[s].queued = sub[s].queued
      /\ sub'[s].sending = sub[s].sending /\ sub'[s].cancelled = sub[s].cancelled /\ sub'[s].tx = outcome
      /\ sub'[s].recorded = sub[s].recorded /\ sub'[s].refused = sub[s].refused /\ sub'[s].rests = sub[s].rests
  BY <1>0 DEF Submission, land, At, None
<1>3. PlaceOK(s) /\ TxOK(s) /\ RestOK(s)
  BY DEF SubOK
<1>4. TypeOK'
  BY <1>0, <1>1, <1>2, <1>3, HolderCounted, KeysOf, NotesIn DEF TypeOK, PlaceOK, TxOK, Unsent,
       NewSubmission, NotesOf, Holds, Submission, land, At, None, vars, heldVars, poolVars,
       coolVars, dbVars
<1>5. OneEffect(s)
  BY <1>1, <1>2 DEF OneEffect, land, At, None, vars, heldVars, poolVars, coolVars, dbVars
<1>6. PlaceOK(s)'
  BY <1>0, <1>1, <1>2, <1>3 DEF PlaceOK, TxOK, Unsent, land, At, None, Submission
<1>7. TxOK(s)'
  BY <1>0, <1>1, <1>2, <1>3 DEF PlaceOK, TxOK, Unsent, Final, TxStates, NotesOf, land, At, None,
       Submission, dbVars, coolVars
<1>8. RestOK(s)'
  BY <1>0, <1>1, <1>2, <1>3, KeysOf DEF PlaceOK, TxOK, RestOK, Unsent, Final, Followed,
       requestKey, land, At, None, Submission, dbVars, coolVars
<1>9. HeldEffect(s)
  BY <1>0, <1>1, <1>2, <1>3, RelayerAssumptions DEF HeldEffect, Holds, PlaceOK, land, At, None,
       heldVars, Submission, TypeOK
<1>10. ChannelEffect(s) /\ SlotEffect(s)
  BY <1>0, <1>1, <1>2, <1>3 DEF ChannelEffect, SlotEffect, PlaceOK, land, At, None, poolVars,
       Submission, TypeOK
<1>11. NotesEffect(s)
  BY <1>0, <1>1, <1>2, <1>3 DEF NotesEffect, Claiming, Earlier, OnItsWay, Done, Followed,
       Staged, PlaceOK, TxOK, Unsent, Final, NotesOf, land, At, None, Submission
<1> QED
  BY <1>4, <1>5, <1>6, <1>7, <1>8, <1>9, <1>10, <1>11 DEF Moves, Shares, SubOK

LEMMA Shares_Submit ==
  ASSUME TypeOK, HeldInv, \A u \in Submissions : SubOK(u),
         NEW s \in Submissions, NEW r \in Requests, Submit(s, r)
  PROVE  Shares(s)
<1>0. sub \in [Submissions -> Submission] /\ sub[s] \in Submission
  BY DEF TypeOK
<1>1. sub' \in [Submissions -> Submission]
  BY <1>0 DEF Submission, Steps, TxStates, Submit, At, NewSubmission, None
<1>2. /\ \A u \in Submissions \ {s} : sub'[u] = sub[u]
      /\ sub'[s].step = "claim" /\ sub'[s].req = r /\ sub'[s].channel = sub[s].channel
      /\ sub'[s].owns = sub[s].owns /\ sub'[s].slot = sub[s].slot /\ sub'[s].queued = sub[s].queued
      /\ sub'[s].sending = sub[s].sending /\ sub'[s].cancelled = sub[s].cancelled /\ sub'[s].tx = sub[s].tx
      /\ sub'[s].recorded = sub[s].recorded /\ sub'[s].refused = sub[s].refused /\ sub'[s].rests = sub[s].rests
  BY <1>0 DEF Submission, Submit, At, NewSubmission, None
<1>3. PlaceOK(s) /\ TxOK(s) /\ RestOK(s)
  BY DEF SubOK
<1>4. TypeOK'
  BY <1>0, <1>1, <1>2, <1>3, HolderCounted, KeysOf, NotesIn DEF TypeOK, PlaceOK, NotesOf, Holds,
       Submission, Submit, At, NewSubmission, None, vars, heldVars, poolVars, coolVars, dbVars
<1>5. OneEffect(s)
  BY <1>1, <1>2 DEF OneEffect, Submit, At, NewSubmission, None, vars, heldVars, poolVars,
       coolVars, dbVars
<1>6. PlaceOK(s)'
  BY <1>0, <1>1, <1>2, <1>3 DEF PlaceOK, TxOK, Unsent, Submit, At, NewSubmission, None, Submission
<1>7. TxOK(s)'
  BY <1>0, <1>1, <1>2, <1>3 DEF PlaceOK, TxOK, Unsent, Final, TxStates, NotesOf, Submit, At,
       NewSubmission, None, Submission, dbVars, coolVars
<1>8. RestOK(s)'
  BY <1>0, <1>1, <1>2, <1>3, KeysOf DEF PlaceOK, TxOK, RestOK, Unsent, Final, Followed,
       requestKey, Submit, At, NewSubmission, None, Submission, dbVars, coolVars
<1>9. HeldEffect(s)
  BY <1>0, <1>1, <1>2, <1>3, RelayerAssumptions DEF HeldEffect, Holds, PlaceOK, Submit, At,
       NewSubmission, None, heldVars, Submission, TypeOK
<1>10. ChannelEffect(s) /\ SlotEffect(s)
  BY <1>0, <1>1, <1>2, <1>3 DEF ChannelEffect, SlotEffect, PlaceOK, Submit, At, NewSubmission,
       None, poolVars, Submission, TypeOK
<1> QED
  BY <1>4, <1>5, <1>6, <1>7, <1>8, <1>9, <1>10 DEF Shares, SubOK

LEMMA Shares_claim ==
  ASSUME TypeOK, HeldInv, \A u \in Submissions : SubOK(u),
         NEW s \in Submissions, claim(s), inflight \cap NotesOf(s) = {}
  PROVE  Shares(s)
<1>1. CASE sub[s].req \in Delayed
  <2>0. sub \in [Submissions -> Submission] /\ sub[s] \in Submission
    BY DEF TypeOK
  <2>1. sub' \in [Submissions -> Submission]
    BY <1>1, <2>0 DEF Submission, Steps, TxStates, claim, At, Go
  <2>2. /\ \A u \in Submissions \ {s} : sub'[u] = sub[u]
        /\ sub'[s].step = "hold" /\ sub'[s].req = sub[s].req /\ sub'[s].channel = sub[s].channel
        /\ sub'[s].owns = sub[s].owns /\ sub'[s].slot = sub[s].slot /\ sub'[s].queued = sub[s].queued
        /\ sub'[s].sending = sub[s].sending /\ sub'[s].cancelled = sub[s].cancelled /\ sub'[s].tx = sub[s].tx
        /\ sub'[s].recorded = sub[s].recorded /\ sub'[s].refused = sub[s].refused /\ sub'[s].rests = sub[s].rests
    BY <1>1, <2>0 DEF Submission, claim, At, Go
  <2>3. PlaceOK(s) /\ TxOK(s) /\ RestOK(s)
    BY DEF SubOK
  <2>4. TypeOK'
    BY <1>1, <2>0, <2>1, <2>2, <2>3, HolderCounted, KeysOf, NotesIn DEF TypeOK, PlaceOK,
         NotesOf, Holds, Submission, claim, At, Go, vars, heldVars, poolVars, coolVars, dbVars
  <2>5. OneEffect(s)
    BY <1>1, <2>1, <2>2 DEF OneEffect, claim, At, Go, vars, heldVars, poolVars, coolVars, dbVars
  <2>6. PlaceOK(s)'
    BY <1>1, <2>0, <2>1, <2>2, <2>3 DEF PlaceOK, TxOK, Unsent, claim, At, Go, Submission
  <2>7. TxOK(s)'
    BY <1>1, <2>0, <2>1, <2>2, <2>3 DEF PlaceOK, TxOK, Unsent, Final, TxStates, NotesOf, claim,
         At, Go, Submission, dbVars, coolVars
  <2>8. RestOK(s)'
    BY <1>1, <2>0, <2>1, <2>2, <2>3, KeysOf DEF PlaceOK, TxOK, RestOK, Unsent, Final, Followed,
         requestKey, claim, At, Go, Submission, dbVars, coolVars
  <2>9. HeldEffect(s)
    BY <1>1, <2>0, <2>1, <2>2, <2>3, RelayerAssumptions DEF HeldEffect, Holds, PlaceOK, claim,
         At, Go, heldVars, Submission, TypeOK
  <2>10. ChannelEffect(s) /\ SlotEffect(s)
    BY <1>1, <2>0, <2>1, <2>2, <2>3 DEF ChannelEffect, SlotEffect, PlaceOK, claim, At, Go,
         poolVars, Submission, TypeOK
  <2> QED
    BY <2>4, <2>5, <2>6, <2>7, <2>8, <2>9, <2>10 DEF Shares, SubOK
<1>2. CASE sub[s].req \notin Delayed
  <2>0. sub \in [Submissions -> Submission] /\ sub[s] \in Submission
    BY DEF TypeOK
  <2>1. sub' \in [Submissions -> Submission]
    BY <1>2, <2>0 DEF Submission, Steps, TxStates, claim, At, Go
  <2>2. /\ \A u \in Submissions \ {s} : sub'[u] = sub[u]
        /\ sub'[s].step = "fresh" /\ sub'[s].req = sub[s].req /\ sub'[s].channel = sub[s].channel
        /\ sub'[s].owns = sub[s].owns /\ sub'[s].slot = sub[s].slot /\ sub'[s].queued = sub[s].queued
        /\ sub'[s].sending = sub[s].sending /\ sub'[s].cancelled = sub[s].cancelled /\ sub'[s].tx = sub[s].tx
        /\ sub'[s].recorded = sub[s].recorded /\ sub'[s].refused = sub[s].refused /\ sub'[s].rests = sub[s].rests
    BY <1>2, <2>0 DEF Submission, claim, At, Go
  <2>3. PlaceOK(s) /\ TxOK(s) /\ RestOK(s)
    BY DEF SubOK
  <2>4. TypeOK'
    BY <1>2, <2>0, <2>1, <2>2, <2>3, HolderCounted, KeysOf, NotesIn DEF TypeOK, PlaceOK,
         NotesOf, Holds, Submission, claim, At, Go, vars, heldVars, poolVars, coolVars, dbVars
  <2>5. OneEffect(s)
    BY <1>2, <2>1, <2>2 DEF OneEffect, claim, At, Go, vars, heldVars, poolVars, coolVars, dbVars
  <2>6. PlaceOK(s)'
    BY <1>2, <2>0, <2>1, <2>2, <2>3 DEF PlaceOK, TxOK, Unsent, claim, At, Go, Submission
  <2>7. TxOK(s)'
    BY <1>2, <2>0, <2>1, <2>2, <2>3 DEF PlaceOK, TxOK, Unsent, Final, TxStates, NotesOf, claim,
         At, Go, Submission, dbVars, coolVars
  <2>8. RestOK(s)'
    BY <1>2, <2>0, <2>1, <2>2, <2>3, KeysOf DEF PlaceOK, TxOK, RestOK, Unsent, Final, Followed,
         requestKey, claim, At, Go, Submission, dbVars, coolVars
  <2>9. HeldEffect(s)
    BY <1>2, <2>0, <2>1, <2>2, <2>3, RelayerAssumptions DEF HeldEffect, Holds, PlaceOK, claim,
         At, Go, heldVars, Submission, TypeOK
  <2>10. ChannelEffect(s) /\ SlotEffect(s)
    BY <1>2, <2>0, <2>1, <2>2, <2>3 DEF ChannelEffect, SlotEffect, PlaceOK, claim, At, Go,
         poolVars, Submission, TypeOK
  <2> QED
    BY <2>4, <2>5, <2>6, <2>7, <2>8, <2>9, <2>10 DEF Shares, SubOK
<1> QED
  BY <1>1, <1>2 DEF claim, At, Go

LEMMA Shares_land ==
  ASSUME TypeOK, HeldInv, \A u \in Submissions : SubOK(u),
         NEW s \in Submissions, land(s, "success")
  PROVE  Shares(s)
<1>0. sub \in [Submissions -> Submission] /\ sub[s] \in Submission
  BY DEF TypeOK
<1>1. sub' \in [Submissions -> Submission]
  BY <1>0 DEF Submission, Steps, TxStates, land, At, None
<1>2. /\ \A u \in Submissions \ {s} : sub'[u] = sub[u]
      /\ sub'[s].step = sub[s].step /\ sub'[s].req = sub[s].req /\ sub'[s].channel = sub[s].channel
      /\ sub'[s].owns = sub[s].owns /\ sub'[s].slot = sub[s].slot /\ sub'[s].queued = sub[s].queued
      /\ sub'[s].sending = sub[s].sending /\ sub'[s].cancelled = sub[s].cancelled /\ sub'[s].tx = "success"
      /\ sub'[s].recorded = sub[s].recorded /\ sub'[s].refused = sub[s].refused /\ sub'[s].rests = sub[s].rests
  BY <1>0 DEF Submission, land, At, None
<1>3. PlaceOK(s) /\ TxOK(s) /\ RestOK(s)
  BY DEF SubOK
<1>4. TypeOK'
  BY <1>0, <1>1, <1>2, <1>3, HolderCounted, KeysOf, NotesIn DEF TypeOK, PlaceOK, TxOK, Unsent,
       NewSubmission, NotesOf, Holds, Submission, land, At, None, vars, heldVars, poolVars,
       coolVars, dbVars
<1>5. OneEffect(s)
  BY <1>1, <1>2 DEF OneEffect, land, At, None, vars, heldVars, poolVars, coolVars, dbVars
<1>6. PlaceOK(s)'
  BY <1>0, <1>1, <1>2, <1>3 DEF PlaceOK, TxOK, Unsent, land, At, None, Submission
<1>7. TxOK(s)'
  BY <1>0, <1>1, <1>2, <1>3 DEF PlaceOK, TxOK, Unsent, Final, TxStates, NotesOf, land, At, None,
       Submission, dbVars, coolVars
<1>8. RestOK(s)'
  BY <1>0, <1>1, <1>2, <1>3, KeysOf DEF PlaceOK, TxOK, RestOK, Unsent, Final, Followed,
       requestKey, land, At, None, Submission, dbVars, coolVars
<1>9. HeldEffect(s)
  BY <1>0, <1>1, <1>2, <1>3, RelayerAssumptions DEF HeldEffect, Holds, PlaceOK, land, At, None,
       heldVars, Submission, TypeOK
<1>10. ChannelEffect(s) /\ SlotEffect(s)
  BY <1>0, <1>1, <1>2, <1>3 DEF ChannelEffect, SlotEffect, PlaceOK, land, At, None, poolVars,
       Submission, TypeOK
<1> QED
  BY <1>4, <1>5, <1>6, <1>7, <1>8, <1>9, <1>10 DEF Shares, SubOK

LEMMA Moves_record ==
  ASSUME TypeOK, HeldInv, \A u \in Submissions : SubOK(u),
         NEW s \in Submissions, record(s)
  PROVE  Moves(s)
<1>0. PICK ok \in BOOLEAN :
       /\ sub' = [sub EXCEPT ![s].step = "follow", ![s].recorded = ok, ![s].refused = @ \/ ~ok]
       /\ db_pending' = IF ok THEN db_pending \cup {s} ELSE db_pending
  BY DEF record, DbAnswers
<1>1. CASE ok
  <2>0. sub \in [Submissions -> Submission] /\ sub[s] \in Submission
    BY DEF TypeOK
  <2>1. sub' \in [Submissions -> Submission]
    BY <1>0, <1>1, <2>0 DEF Submission, Steps, TxStates, record, At
  <2>2. /\ \A u \in Submissions \ {s} : sub'[u] = sub[u]
        /\ sub'[s].step = "follow" /\ sub'[s].req = sub[s].req /\ sub'[s].channel = sub[s].channel
        /\ sub'[s].owns = sub[s].owns /\ sub'[s].slot = sub[s].slot /\ sub'[s].queued = sub[s].queued
        /\ sub'[s].sending = sub[s].sending /\ sub'[s].cancelled = sub[s].cancelled /\ sub'[s].tx = sub[s].tx
        /\ sub'[s].recorded = TRUE /\ sub'[s].refused = sub[s].refused /\ sub'[s].rests = sub[s].rests
    BY <1>0, <1>1, <2>0 DEF Submission, record, At
  <2>3. PlaceOK(s) /\ TxOK(s) /\ RestOK(s)
    BY DEF SubOK
  <2>4. TypeOK'
    BY <1>0, <1>1, <2>0, <2>1, <2>2, <2>3, HolderCounted, KeysOf, NotesIn DEF TypeOK, PlaceOK,
         NotesOf, Holds, Submission, record, At, vars, heldVars, poolVars, coolVars, dbVars
  <2>5. OneEffect(s)
    BY <1>0, <1>1, <2>1, <2>2 DEF OneEffect, record, At, vars, heldVars, poolVars, coolVars,
         dbVars
  <2>6. PlaceOK(s)'
    BY <1>0, <1>1, <2>0, <2>1, <2>2, <2>3 DEF PlaceOK, TxOK, Unsent, record, At, Submission
  <2>7. TxOK(s)'
    BY <1>0, <1>1, <2>0, <2>1, <2>2, <2>3 DEF PlaceOK, TxOK, Unsent, Final, TxStates, NotesOf,
         record, At, Submission, dbVars, coolVars
  <2>8. RestOK(s)'
    BY <1>0, <1>1, <2>0, <2>1, <2>2, <2>3, KeysOf DEF PlaceOK, TxOK, RestOK, Unsent, Final,
         Followed, requestKey, record, At, Submission, dbVars, coolVars
  <2>9. HeldEffect(s)
    BY <1>0, <1>1, <2>0, <2>1, <2>2, <2>3, RelayerAssumptions DEF HeldEffect, Holds, PlaceOK,
         record, At, heldVars, Submission, TypeOK
  <2>10. ChannelEffect(s) /\ SlotEffect(s)
    BY <1>0, <1>1, <2>0, <2>1, <2>2, <2>3 DEF ChannelEffect, SlotEffect, PlaceOK, record, At,
         poolVars, Submission, TypeOK
  <2>11. NotesEffect(s)
    BY <1>0, <1>1, <2>0, <2>1, <2>2, <2>3 DEF NotesEffect, Claiming, Earlier, OnItsWay, Done,
         Followed, Staged, PlaceOK, TxOK, Unsent, Final, NotesOf, record, At, Submission
  <2> QED
    BY <2>4, <2>5, <2>6, <2>7, <2>8, <2>9, <2>10, <2>11 DEF Moves, Shares, SubOK
<1>2. CASE ~ok
  <2>0. sub \in [Submissions -> Submission] /\ sub[s] \in Submission
    BY DEF TypeOK
  <2>1. sub' \in [Submissions -> Submission]
    BY <1>0, <1>2, <2>0 DEF Submission, Steps, TxStates, record, At
  <2>2. /\ \A u \in Submissions \ {s} : sub'[u] = sub[u]
        /\ sub'[s].step = "follow" /\ sub'[s].req = sub[s].req /\ sub'[s].channel = sub[s].channel
        /\ sub'[s].owns = sub[s].owns /\ sub'[s].slot = sub[s].slot /\ sub'[s].queued = sub[s].queued
        /\ sub'[s].sending = sub[s].sending /\ sub'[s].cancelled = sub[s].cancelled /\ sub'[s].tx = sub[s].tx
        /\ sub'[s].recorded = FALSE /\ sub'[s].refused = TRUE /\ sub'[s].rests = sub[s].rests
    BY <1>0, <1>2, <2>0 DEF Submission, record, At
  <2>3. PlaceOK(s) /\ TxOK(s) /\ RestOK(s)
    BY DEF SubOK
  <2>4. TypeOK'
    BY <1>0, <1>2, <2>0, <2>1, <2>2, <2>3, HolderCounted, KeysOf, NotesIn DEF TypeOK, PlaceOK,
         NotesOf, Holds, Submission, record, At, vars, heldVars, poolVars, coolVars, dbVars
  <2>5. OneEffect(s)
    BY <1>0, <1>2, <2>1, <2>2 DEF OneEffect, record, At, vars, heldVars, poolVars, coolVars,
         dbVars
  <2>6. PlaceOK(s)'
    BY <1>0, <1>2, <2>0, <2>1, <2>2, <2>3 DEF PlaceOK, TxOK, Unsent, record, At, Submission
  <2>7. TxOK(s)'
    BY <1>0, <1>2, <2>0, <2>1, <2>2, <2>3 DEF PlaceOK, TxOK, Unsent, Final, TxStates, NotesOf,
         record, At, Submission, dbVars, coolVars
  <2>8. RestOK(s)'
    BY <1>0, <1>2, <2>0, <2>1, <2>2, <2>3, KeysOf DEF PlaceOK, TxOK, RestOK, Unsent, Final,
         Followed, requestKey, record, At, Submission, dbVars, coolVars
  <2>9. HeldEffect(s)
    BY <1>0, <1>2, <2>0, <2>1, <2>2, <2>3, RelayerAssumptions DEF HeldEffect, Holds, PlaceOK,
         record, At, heldVars, Submission, TypeOK
  <2>10. ChannelEffect(s) /\ SlotEffect(s)
    BY <1>0, <1>2, <2>0, <2>1, <2>2, <2>3 DEF ChannelEffect, SlotEffect, PlaceOK, record, At,
         poolVars, Submission, TypeOK
  <2>11. NotesEffect(s)
    BY <1>0, <1>2, <2>0, <2>1, <2>2, <2>3 DEF NotesEffect, Claiming, Earlier, OnItsWay, Done,
         Followed, Staged, PlaceOK, TxOK, Unsent, Final, NotesOf, record, At, Submission
  <2> QED
    BY <2>4, <2>5, <2>6, <2>7, <2>8, <2>9, <2>10, <2>11 DEF Moves, Shares, SubOK
<1> QED
  BY <1>0, <1>1, <1>2 DEF record, At

LEMMA Moves_follow ==
  ASSUME TypeOK, HeldInv, \A u \in Submissions : SubOK(u),
         NEW s \in Submissions, follow(s)
  PROVE  Moves(s)
<1>0. sub \in [Submissions -> Submission] /\ sub[s] \in Submission
  BY DEF TypeOK
<1>1. sub' \in [Submissions -> Submission]
  BY <1>0 DEF Submission, Steps, TxStates, follow, At, GiveBack, Released
<1>2. /\ \A u \in Submissions \ {s} : sub'[u] = sub[u]
      /\ sub'[s].step = "tracked" /\ sub'[s].req = sub[s].req /\ sub'[s].channel = sub[s].channel
      /\ sub'[s].owns = FALSE /\ sub'[s].slot = FALSE /\ sub'[s].queued = sub[s].queued
      /\ sub'[s].sending = sub[s].sending /\ sub'[s].cancelled = sub[s].cancelled /\ sub'[s].tx = sub[s].tx
      /\ sub'[s].recorded = sub[s].recorded /\ sub'[s].refused = sub[s].refused /\ sub'[s].rests = sub[s].rests
  BY <1>0 DEF Submission, follow, At, GiveBack, Released
<1>3. PlaceOK(s) /\ TxOK(s) /\ RestOK(s)
  BY DEF SubOK
<1>4. TypeOK'
  BY <1>0, <1>1, <1>2, <1>3, HolderCounted, KeysOf, NotesIn DEF TypeOK, PlaceOK, NotesOf, Holds,
       Submission, follow, At, GiveBack, Released, vars, heldVars, poolVars, coolVars, dbVars
<1>5. OneEffect(s)
  BY <1>1, <1>2 DEF OneEffect, follow, At, GiveBack, Released, vars, heldVars, poolVars,
       coolVars, dbVars
<1>6. PlaceOK(s)'
  BY <1>0, <1>1, <1>2, <1>3 DEF PlaceOK, TxOK, Unsent, follow, At, GiveBack, Released, Submission
<1>7. TxOK(s)'
  BY <1>0, <1>1, <1>2, <1>3 DEF PlaceOK, TxOK, Unsent, Final, TxStates, NotesOf, follow, At,
       GiveBack, Released, Submission, dbVars, coolVars
<1>8. RestOK(s)'
  BY <1>0, <1>1, <1>2, <1>3, KeysOf DEF PlaceOK, TxOK, RestOK, Unsent, Final, Followed,
       requestKey, follow, At, GiveBack, Released, Submission, dbVars, coolVars
<1>9. HeldEffect(s)
  BY <1>0, <1>1, <1>2, <1>3, RelayerAssumptions DEF HeldEffect, Holds, PlaceOK, follow, At,
       GiveBack, Released, heldVars, Submission, TypeOK
<1>10. ChannelEffect(s) /\ SlotEffect(s)
  BY <1>0, <1>1, <1>2, <1>3 DEF ChannelEffect, SlotEffect, PlaceOK, follow, At, GiveBack,
       Released, poolVars, Submission, TypeOK
<1>11. NotesEffect(s)
  BY <1>0, <1>1, <1>2, <1>3 DEF NotesEffect, Claiming, Earlier, OnItsWay, Done, Followed,
       Staged, PlaceOK, TxOK, Unsent, Final, NotesOf, follow, At, GiveBack, Released, Submission
<1> QED
  BY <1>4, <1>5, <1>6, <1>7, <1>8, <1>9, <1>10, <1>11 DEF Moves, Shares, SubOK

LEMMA Moves_unclaim ==
  ASSUME TypeOK, HeldInv, \A u \in Submissions : SubOK(u),
         NEW s \in Submissions, unclaim(s)
  PROVE  Moves(s)
<1>1. CASE At(s, "tracked")
  <2>0. sub \in [Submissions -> Submission] /\ sub[s] \in Submission
    BY DEF TypeOK
  <2>1. sub' \in [Submissions -> Submission]
    BY <1>1, <2>0 DEF Submission, Steps, TxStates, unclaim, At, Go
  <2>2. /\ \A u \in Submissions \ {s} : sub'[u] = sub[u]
        /\ sub'[s].step = "finish" /\ sub'[s].req = sub[s].req /\ sub'[s].channel = sub[s].channel
        /\ sub'[s].owns = sub[s].owns /\ sub'[s].slot = sub[s].slot /\ sub'[s].queued = sub[s].queued
        /\ sub'[s].sending = sub[s].sending /\ sub'[s].cancelled = sub[s].cancelled /\ sub'[s].tx = sub[s].tx
        /\ sub'[s].recorded = sub[s].recorded /\ sub'[s].refused = sub[s].refused /\ sub'[s].rests = sub[s].rests
    BY <1>1, <2>0 DEF Submission, unclaim, At, Go
  <2>3. PlaceOK(s) /\ TxOK(s) /\ RestOK(s)
    BY DEF SubOK
  <2>4. TypeOK'
    BY <1>1, <2>0, <2>1, <2>2, <2>3, HolderCounted, KeysOf, NotesIn DEF TypeOK, PlaceOK,
         NotesOf, Holds, Submission, unclaim, At, Go, vars, heldVars, poolVars, coolVars, dbVars
  <2>5. OneEffect(s)
    BY <1>1, <2>1, <2>2 DEF OneEffect, unclaim, At, Go, vars, heldVars, poolVars, coolVars, dbVars
  <2>6. PlaceOK(s)'
    BY <1>1, <2>0, <2>1, <2>2, <2>3 DEF PlaceOK, TxOK, Unsent, unclaim, At, Go, Submission
  <2>7. TxOK(s)'
    BY <1>1, <2>0, <2>1, <2>2, <2>3 DEF PlaceOK, TxOK, Unsent, Final, TxStates, NotesOf,
         unclaim, At, Go, Submission, dbVars, coolVars
  <2>8. RestOK(s)'
    BY <1>1, <2>0, <2>1, <2>2, <2>3, KeysOf DEF PlaceOK, TxOK, RestOK, Unsent, Final, Followed,
         requestKey, unclaim, At, Go, Submission, dbVars, coolVars
  <2>9. HeldEffect(s)
    BY <1>1, <2>0, <2>1, <2>2, <2>3, RelayerAssumptions DEF HeldEffect, Holds, PlaceOK, unclaim,
         At, Go, heldVars, Submission, TypeOK
  <2>10. ChannelEffect(s) /\ SlotEffect(s)
    BY <1>1, <2>0, <2>1, <2>2, <2>3 DEF ChannelEffect, SlotEffect, PlaceOK, unclaim, At, Go,
         poolVars, Submission, TypeOK
  <2>11. NotesEffect(s)
    BY <1>1, <2>0, <2>1, <2>2, <2>3 DEF NotesEffect, Claiming, Earlier, OnItsWay, Done,
         Followed, Staged, PlaceOK, TxOK, Unsent, Final, NotesOf, unclaim, At, Go, Submission
  <2> QED
    BY <2>4, <2>5, <2>6, <2>7, <2>8, <2>9, <2>10, <2>11 DEF Moves, Shares, SubOK
<1>2. CASE ~At(s, "tracked")
  <2>0. sub \in [Submissions -> Submission] /\ sub[s] \in Submission
    BY DEF TypeOK
  <2>1. sub' \in [Submissions -> Submission]
    BY <1>2, <2>0 DEF Submission, Steps, TxStates, unclaim, At, Go
  <2>2. /\ \A u \in Submissions \ {s} : sub'[u] = sub[u]
        /\ sub'[s].step = "ended" /\ sub'[s].req = sub[s].req /\ sub'[s].channel = sub[s].channel
        /\ sub'[s].owns = sub[s].owns /\ sub'[s].slot = sub[s].slot /\ sub'[s].queued = sub[s].queued
        /\ sub'[s].sending = sub[s].sending /\ sub'[s].cancelled = sub[s].cancelled /\ sub'[s].tx = sub[s].tx
        /\ sub'[s].recorded = sub[s].recorded /\ sub'[s].refused = sub[s].refused /\ sub'[s].rests = sub[s].rests
    BY <1>2, <2>0 DEF Submission, unclaim, At, Go
  <2>3. PlaceOK(s) /\ TxOK(s) /\ RestOK(s)
    BY DEF SubOK
  <2>4. TypeOK'
    BY <1>2, <2>0, <2>1, <2>2, <2>3, HolderCounted, KeysOf, NotesIn DEF TypeOK, PlaceOK,
         NotesOf, Holds, Submission, unclaim, At, Go, vars, heldVars, poolVars, coolVars, dbVars
  <2>5. OneEffect(s)
    BY <1>2, <2>1, <2>2 DEF OneEffect, unclaim, At, Go, vars, heldVars, poolVars, coolVars, dbVars
  <2>6. PlaceOK(s)'
    BY <1>2, <2>0, <2>1, <2>2, <2>3 DEF PlaceOK, TxOK, Unsent, unclaim, At, Go, Submission
  <2>7. TxOK(s)'
    BY <1>2, <2>0, <2>1, <2>2, <2>3 DEF PlaceOK, TxOK, Unsent, Final, TxStates, NotesOf,
         unclaim, At, Go, Submission, dbVars, coolVars
  <2>8. RestOK(s)'
    BY <1>2, <2>0, <2>1, <2>2, <2>3, KeysOf DEF PlaceOK, TxOK, RestOK, Unsent, Final, Followed,
         requestKey, unclaim, At, Go, Submission, dbVars, coolVars
  <2>9. HeldEffect(s)
    BY <1>2, <2>0, <2>1, <2>2, <2>3, RelayerAssumptions DEF HeldEffect, Holds, PlaceOK, unclaim,
         At, Go, heldVars, Submission, TypeOK
  <2>10. ChannelEffect(s) /\ SlotEffect(s)
    BY <1>2, <2>0, <2>1, <2>2, <2>3 DEF ChannelEffect, SlotEffect, PlaceOK, unclaim, At, Go,
         poolVars, Submission, TypeOK
  <2>11. NotesEffect(s)
    BY <1>2, <2>0, <2>1, <2>2, <2>3 DEF NotesEffect, Claiming, Earlier, OnItsWay, Done,
         Followed, Staged, PlaceOK, TxOK, Unsent, Final, NotesOf, unclaim, At, Go, Submission
  <2> QED
    BY <2>4, <2>5, <2>6, <2>7, <2>8, <2>9, <2>10, <2>11 DEF Moves, Shares, SubOK
<1> QED
  BY <1>1, <1>2 DEF unclaim, At, Go

LEMMA Moves_finish ==
  ASSUME TypeOK, HeldInv, \A u \in Submissions : SubOK(u),
         NEW s \in Submissions, finish(s)
  PROVE  Moves(s)
<1>0. PICK rests \in Rests(sub[s].req) :
       sub[s].tx = "failed" => /\ cool' = cool \cup rests
                                /\ sub' = [sub EXCEPT ![s].step = "store", ![s].rests = rests]
  BY DEF finish, Go, Rests
<1>1. CASE sub[s].tx # "failed"
  <2>0. sub \in [Submissions -> Submission] /\ sub[s] \in Submission
    BY DEF TypeOK
  <2>1. sub' \in [Submissions -> Submission]
    BY <1>0, <1>1, <2>0 DEF Submission, Steps, TxStates, finish, At, Go
  <2>2. /\ \A u \in Submissions \ {s} : sub'[u] = sub[u]
        /\ sub'[s].step = "close" /\ sub'[s].req = sub[s].req /\ sub'[s].channel = sub[s].channel
        /\ sub'[s].owns = sub[s].owns /\ sub'[s].slot = sub[s].slot /\ sub'[s].queued = sub[s].queued
        /\ sub'[s].sending = sub[s].sending /\ sub'[s].cancelled = sub[s].cancelled /\ sub'[s].tx = sub[s].tx
        /\ sub'[s].recorded = sub[s].recorded /\ sub'[s].refused = sub[s].refused /\ sub'[s].rests = sub[s].rests
    BY <1>0, <1>1, <2>0 DEF Submission, finish, At, Go
  <2>3. PlaceOK(s) /\ TxOK(s) /\ RestOK(s)
    BY DEF SubOK
  <2>4. TypeOK'
    BY <1>0, <1>1, <2>0, <2>1, <2>2, <2>3, HolderCounted, KeysOf, NotesIn DEF TypeOK, PlaceOK,
         NotesOf, Holds, Submission, finish, At, Go, vars, heldVars, poolVars, coolVars, dbVars
  <2>5. OneEffect(s)
    BY <1>0, <1>1, <2>1, <2>2 DEF OneEffect, finish, At, Go, vars, heldVars, poolVars, coolVars,
         dbVars
  <2>6. PlaceOK(s)'
    BY <1>0, <1>1, <2>0, <2>1, <2>2, <2>3 DEF PlaceOK, TxOK, Unsent, finish, At, Go, Submission
  <2>7. TxOK(s)'
    BY <1>0, <1>1, <2>0, <2>1, <2>2, <2>3 DEF PlaceOK, TxOK, Unsent, Final, TxStates, NotesOf,
         finish, At, Go, Submission, dbVars, coolVars
  <2>8. RestOK(s)'
    BY <1>0, <1>1, <2>0, <2>1, <2>2, <2>3, KeysOf DEF PlaceOK, TxOK, RestOK, Unsent, Final,
         Followed, requestKey, finish, At, Go, Submission, dbVars, coolVars
  <2>9. HeldEffect(s)
    BY <1>0, <1>1, <2>0, <2>1, <2>2, <2>3, RelayerAssumptions DEF HeldEffect, Holds, PlaceOK,
         finish, At, Go, heldVars, Submission, TypeOK
  <2>10. ChannelEffect(s) /\ SlotEffect(s)
    BY <1>0, <1>1, <2>0, <2>1, <2>2, <2>3 DEF ChannelEffect, SlotEffect, PlaceOK, finish, At,
         Go, poolVars, Submission, TypeOK
  <2>11. NotesEffect(s)
    BY <1>0, <1>1, <2>0, <2>1, <2>2, <2>3 DEF NotesEffect, Claiming, Earlier, OnItsWay, Done,
         Followed, Staged, PlaceOK, TxOK, Unsent, Final, NotesOf, finish, At, Go, Submission
  <2> QED
    BY <2>4, <2>5, <2>6, <2>7, <2>8, <2>9, <2>10, <2>11 DEF Moves, Shares, SubOK
<1>2. CASE sub[s].tx = "failed"
  <2>0. sub \in [Submissions -> Submission] /\ sub[s] \in Submission
    BY DEF TypeOK
  <2>1. sub' \in [Submissions -> Submission]
    BY <1>0, <1>2, <2>0, KeysOf DEF Submission, Steps, TxStates, finish, At, Go
  <2>2. /\ \A u \in Submissions \ {s} : sub'[u] = sub[u]
        /\ sub'[s].step = "store" /\ sub'[s].req = sub[s].req /\ sub'[s].channel = sub[s].channel
        /\ sub'[s].owns = sub[s].owns /\ sub'[s].slot = sub[s].slot /\ sub'[s].queued = sub[s].queued
        /\ sub'[s].sending = sub[s].sending /\ sub'[s].cancelled = sub[s].cancelled /\ sub'[s].tx = sub[s].tx
        /\ sub'[s].recorded = sub[s].recorded /\ sub'[s].refused = sub[s].refused /\ sub'[s].rests = rests
    BY <1>0, <1>2, <2>0 DEF Submission, finish, At, Go
  <2>3. PlaceOK(s) /\ TxOK(s) /\ RestOK(s)
    BY DEF SubOK
  <2>4. TypeOK'
    BY <1>0, <1>2, <2>0, <2>1, <2>2, <2>3, HolderCounted, KeysOf, NotesIn DEF TypeOK, PlaceOK,
         NotesOf, Holds, Submission, finish, At, Go, vars, heldVars, poolVars, coolVars, dbVars
  <2>5. OneEffect(s)
    BY <1>0, <1>2, <2>1, <2>2 DEF OneEffect, finish, At, Go, vars, heldVars, poolVars, coolVars,
         dbVars
  <2>6. PlaceOK(s)'
    BY <1>0, <1>2, <2>0, <2>1, <2>2, <2>3 DEF PlaceOK, TxOK, Unsent, finish, At, Go, Submission
  <2>7. TxOK(s)'
    BY <1>0, <1>2, <2>0, <2>1, <2>2, <2>3 DEF PlaceOK, TxOK, Unsent, Final, TxStates, NotesOf,
         finish, At, Go, Submission, dbVars, coolVars
  <2>8. RestOK(s)'
    BY <1>0, <1>2, <2>0, <2>1, <2>2, <2>3, KeysOf DEF PlaceOK, TxOK, RestOK, Unsent, Final,
         Followed, requestKey, finish, At, Go, Submission, dbVars, coolVars
  <2>9. HeldEffect(s)
    BY <1>0, <1>2, <2>0, <2>1, <2>2, <2>3, RelayerAssumptions DEF HeldEffect, Holds, PlaceOK,
         finish, At, Go, heldVars, Submission, TypeOK
  <2>10. ChannelEffect(s) /\ SlotEffect(s)
    BY <1>0, <1>2, <2>0, <2>1, <2>2, <2>3 DEF ChannelEffect, SlotEffect, PlaceOK, finish, At,
         Go, poolVars, Submission, TypeOK
  <2>11. NotesEffect(s)
    BY <1>0, <1>2, <2>0, <2>1, <2>2, <2>3 DEF NotesEffect, Claiming, Earlier, OnItsWay, Done,
         Followed, Staged, PlaceOK, TxOK, Unsent, Final, NotesOf, finish, At, Go, Submission
  <2> QED
    BY <2>4, <2>5, <2>6, <2>7, <2>8, <2>9, <2>10, <2>11 DEF Moves, Shares, SubOK
<1> QED
  BY <1>0, <1>1, <1>2 DEF finish, At, Go

LEMMA Moves_store_cooldown ==
  ASSUME TypeOK, HeldInv, \A u \in Submissions : SubOK(u),
         NEW s \in Submissions, store_cooldown(s)
  PROVE  Moves(s)
<1>0. PICK ok \in BOOLEAN :
       /\ db_cool' = IF ok THEN db_cool \cup sub[s].rests ELSE db_cool
       /\ sub' = [sub EXCEPT ![s].step = "close", ![s].refused = @ \/ ~ok]
  BY DEF store_cooldown, DbAnswers
<1>1. CASE ok
  <2>0. sub \in [Submissions -> Submission] /\ sub[s] \in Submission
    BY DEF TypeOK
  <2>1. sub' \in [Submissions -> Submission]
    BY <1>0, <1>1, <2>0 DEF Submission, Steps, TxStates, store_cooldown, At
  <2>2. /\ \A u \in Submissions \ {s} : sub'[u] = sub[u]
        /\ sub'[s].step = "close" /\ sub'[s].req = sub[s].req /\ sub'[s].channel = sub[s].channel
        /\ sub'[s].owns = sub[s].owns /\ sub'[s].slot = sub[s].slot /\ sub'[s].queued = sub[s].queued
        /\ sub'[s].sending = sub[s].sending /\ sub'[s].cancelled = sub[s].cancelled /\ sub'[s].tx = sub[s].tx
        /\ sub'[s].recorded = sub[s].recorded /\ sub'[s].refused = sub[s].refused /\ sub'[s].rests = sub[s].rests
    BY <1>0, <1>1, <2>0 DEF Submission, store_cooldown, At
  <2>3. PlaceOK(s) /\ TxOK(s) /\ RestOK(s)
    BY DEF SubOK
  <2>4. TypeOK'
    BY <1>0, <1>1, <2>0, <2>1, <2>2, <2>3, HolderCounted, KeysOf, NotesIn DEF TypeOK, PlaceOK,
         NotesOf, Holds, Submission, store_cooldown, At, vars, heldVars, poolVars, coolVars,
         dbVars
  <2>5. OneEffect(s)
    BY <1>0, <1>1, <2>1, <2>2 DEF OneEffect, store_cooldown, At, vars, heldVars, poolVars,
         coolVars, dbVars
  <2>6. PlaceOK(s)'
    BY <1>0, <1>1, <2>0, <2>1, <2>2, <2>3 DEF PlaceOK, TxOK, Unsent, store_cooldown, At,
         Submission
  <2>7. TxOK(s)'
    BY <1>0, <1>1, <2>0, <2>1, <2>2, <2>3 DEF PlaceOK, TxOK, Unsent, Final, TxStates, NotesOf,
         store_cooldown, At, Submission, dbVars, coolVars
  <2>8. RestOK(s)'
    BY <1>0, <1>1, <2>0, <2>1, <2>2, <2>3, KeysOf DEF PlaceOK, TxOK, RestOK, Unsent, Final,
         Followed, requestKey, store_cooldown, At, Submission, dbVars, coolVars
  <2>9. HeldEffect(s)
    BY <1>0, <1>1, <2>0, <2>1, <2>2, <2>3, RelayerAssumptions DEF HeldEffect, Holds, PlaceOK,
         store_cooldown, At, heldVars, Submission, TypeOK
  <2>10. ChannelEffect(s) /\ SlotEffect(s)
    BY <1>0, <1>1, <2>0, <2>1, <2>2, <2>3 DEF ChannelEffect, SlotEffect, PlaceOK,
         store_cooldown, At, poolVars, Submission, TypeOK
  <2>11. NotesEffect(s)
    BY <1>0, <1>1, <2>0, <2>1, <2>2, <2>3 DEF NotesEffect, Claiming, Earlier, OnItsWay, Done,
         Followed, Staged, PlaceOK, TxOK, Unsent, Final, NotesOf, store_cooldown, At, Submission
  <2> QED
    BY <2>4, <2>5, <2>6, <2>7, <2>8, <2>9, <2>10, <2>11 DEF Moves, Shares, SubOK
<1>2. CASE ~ok
  <2>0. sub \in [Submissions -> Submission] /\ sub[s] \in Submission
    BY DEF TypeOK
  <2>1. sub' \in [Submissions -> Submission]
    BY <1>0, <1>2, <2>0 DEF Submission, Steps, TxStates, store_cooldown, At
  <2>2. /\ \A u \in Submissions \ {s} : sub'[u] = sub[u]
        /\ sub'[s].step = "close" /\ sub'[s].req = sub[s].req /\ sub'[s].channel = sub[s].channel
        /\ sub'[s].owns = sub[s].owns /\ sub'[s].slot = sub[s].slot /\ sub'[s].queued = sub[s].queued
        /\ sub'[s].sending = sub[s].sending /\ sub'[s].cancelled = sub[s].cancelled /\ sub'[s].tx = sub[s].tx
        /\ sub'[s].recorded = sub[s].recorded /\ sub'[s].refused = TRUE /\ sub'[s].rests = sub[s].rests
    BY <1>0, <1>2, <2>0 DEF Submission, store_cooldown, At
  <2>3. PlaceOK(s) /\ TxOK(s) /\ RestOK(s)
    BY DEF SubOK
  <2>4. TypeOK'
    BY <1>0, <1>2, <2>0, <2>1, <2>2, <2>3, HolderCounted, KeysOf, NotesIn DEF TypeOK, PlaceOK,
         NotesOf, Holds, Submission, store_cooldown, At, vars, heldVars, poolVars, coolVars,
         dbVars
  <2>5. OneEffect(s)
    BY <1>0, <1>2, <2>1, <2>2 DEF OneEffect, store_cooldown, At, vars, heldVars, poolVars,
         coolVars, dbVars
  <2>6. PlaceOK(s)'
    BY <1>0, <1>2, <2>0, <2>1, <2>2, <2>3 DEF PlaceOK, TxOK, Unsent, store_cooldown, At,
         Submission
  <2>7. TxOK(s)'
    BY <1>0, <1>2, <2>0, <2>1, <2>2, <2>3 DEF PlaceOK, TxOK, Unsent, Final, TxStates, NotesOf,
         store_cooldown, At, Submission, dbVars, coolVars
  <2>8. RestOK(s)'
    BY <1>0, <1>2, <2>0, <2>1, <2>2, <2>3, KeysOf DEF PlaceOK, TxOK, RestOK, Unsent, Final,
         Followed, requestKey, store_cooldown, At, Submission, dbVars, coolVars
  <2>9. HeldEffect(s)
    BY <1>0, <1>2, <2>0, <2>1, <2>2, <2>3, RelayerAssumptions DEF HeldEffect, Holds, PlaceOK,
         store_cooldown, At, heldVars, Submission, TypeOK
  <2>10. ChannelEffect(s) /\ SlotEffect(s)
    BY <1>0, <1>2, <2>0, <2>1, <2>2, <2>3 DEF ChannelEffect, SlotEffect, PlaceOK,
         store_cooldown, At, poolVars, Submission, TypeOK
  <2>11. NotesEffect(s)
    BY <1>0, <1>2, <2>0, <2>1, <2>2, <2>3 DEF NotesEffect, Claiming, Earlier, OnItsWay, Done,
         Followed, Staged, PlaceOK, TxOK, Unsent, Final, NotesOf, store_cooldown, At, Submission
  <2> QED
    BY <2>4, <2>5, <2>6, <2>7, <2>8, <2>9, <2>10, <2>11 DEF Moves, Shares, SubOK
<1> QED
  BY <1>0, <1>1, <1>2 DEF store_cooldown, At

LEMMA Moves_db_finish ==
  ASSUME TypeOK, HeldInv, \A u \in Submissions : SubOK(u),
         NEW s \in Submissions, db_finish(s)
  PROVE  Moves(s)
<1>0. PICK ok \in BOOLEAN :
       /\ db_pending' = IF ok THEN db_pending \ {s} ELSE db_pending
       /\ sub' = [sub EXCEPT ![s].step = "ended", ![s].refused = @ \/ ~ok]
  BY DEF db_finish, DbAnswers
<1>1. CASE ok
  <2>0. sub \in [Submissions -> Submission] /\ sub[s] \in Submission
    BY DEF TypeOK
  <2>1. sub' \in [Submissions -> Submission]
    BY <1>0, <1>1, <2>0 DEF Submission, Steps, TxStates, db_finish, At
  <2>2. /\ \A u \in Submissions \ {s} : sub'[u] = sub[u]
        /\ sub'[s].step = "ended" /\ sub'[s].req = sub[s].req /\ sub'[s].channel = sub[s].channel
        /\ sub'[s].owns = sub[s].owns /\ sub'[s].slot = sub[s].slot /\ sub'[s].queued = sub[s].queued
        /\ sub'[s].sending = sub[s].sending /\ sub'[s].cancelled = sub[s].cancelled /\ sub'[s].tx = sub[s].tx
        /\ sub'[s].recorded = sub[s].recorded /\ sub'[s].refused = sub[s].refused /\ sub'[s].rests = sub[s].rests
    BY <1>0, <1>1, <2>0 DEF Submission, db_finish, At
  <2>3. PlaceOK(s) /\ TxOK(s) /\ RestOK(s)
    BY DEF SubOK
  <2>4. TypeOK'
    BY <1>0, <1>1, <2>0, <2>1, <2>2, <2>3, HolderCounted, KeysOf, NotesIn DEF TypeOK, PlaceOK,
         NotesOf, Holds, Submission, db_finish, At, vars, heldVars, poolVars, coolVars, dbVars
  <2>5. OneEffect(s)
    BY <1>0, <1>1, <2>1, <2>2 DEF OneEffect, db_finish, At, vars, heldVars, poolVars, coolVars,
         dbVars
  <2>6. PlaceOK(s)'
    BY <1>0, <1>1, <2>0, <2>1, <2>2, <2>3 DEF PlaceOK, TxOK, Unsent, db_finish, At, Submission
  <2>7. TxOK(s)'
    BY <1>0, <1>1, <2>0, <2>1, <2>2, <2>3 DEF PlaceOK, TxOK, Unsent, Final, TxStates, NotesOf,
         db_finish, At, Submission, dbVars, coolVars
  <2>8. RestOK(s)'
    BY <1>0, <1>1, <2>0, <2>1, <2>2, <2>3, KeysOf DEF PlaceOK, TxOK, RestOK, Unsent, Final,
         Followed, requestKey, db_finish, At, Submission, dbVars, coolVars
  <2>9. HeldEffect(s)
    BY <1>0, <1>1, <2>0, <2>1, <2>2, <2>3, RelayerAssumptions DEF HeldEffect, Holds, PlaceOK,
         db_finish, At, heldVars, Submission, TypeOK
  <2>10. ChannelEffect(s) /\ SlotEffect(s)
    BY <1>0, <1>1, <2>0, <2>1, <2>2, <2>3 DEF ChannelEffect, SlotEffect, PlaceOK, db_finish, At,
         poolVars, Submission, TypeOK
  <2>11. NotesEffect(s)
    BY <1>0, <1>1, <2>0, <2>1, <2>2, <2>3 DEF NotesEffect, Claiming, Earlier, OnItsWay, Done,
         Followed, Staged, PlaceOK, TxOK, Unsent, Final, NotesOf, db_finish, At, Submission
  <2> QED
    BY <2>4, <2>5, <2>6, <2>7, <2>8, <2>9, <2>10, <2>11 DEF Moves, Shares, SubOK
<1>2. CASE ~ok
  <2>0. sub \in [Submissions -> Submission] /\ sub[s] \in Submission
    BY DEF TypeOK
  <2>1. sub' \in [Submissions -> Submission]
    BY <1>0, <1>2, <2>0 DEF Submission, Steps, TxStates, db_finish, At
  <2>2. /\ \A u \in Submissions \ {s} : sub'[u] = sub[u]
        /\ sub'[s].step = "ended" /\ sub'[s].req = sub[s].req /\ sub'[s].channel = sub[s].channel
        /\ sub'[s].owns = sub[s].owns /\ sub'[s].slot = sub[s].slot /\ sub'[s].queued = sub[s].queued
        /\ sub'[s].sending = sub[s].sending /\ sub'[s].cancelled = sub[s].cancelled /\ sub'[s].tx = sub[s].tx
        /\ sub'[s].recorded = sub[s].recorded /\ sub'[s].refused = TRUE /\ sub'[s].rests = sub[s].rests
    BY <1>0, <1>2, <2>0 DEF Submission, db_finish, At
  <2>3. PlaceOK(s) /\ TxOK(s) /\ RestOK(s)
    BY DEF SubOK
  <2>4. TypeOK'
    BY <1>0, <1>2, <2>0, <2>1, <2>2, <2>3, HolderCounted, KeysOf, NotesIn DEF TypeOK, PlaceOK,
         NotesOf, Holds, Submission, db_finish, At, vars, heldVars, poolVars, coolVars, dbVars
  <2>5. OneEffect(s)
    BY <1>0, <1>2, <2>1, <2>2 DEF OneEffect, db_finish, At, vars, heldVars, poolVars, coolVars,
         dbVars
  <2>6. PlaceOK(s)'
    BY <1>0, <1>2, <2>0, <2>1, <2>2, <2>3 DEF PlaceOK, TxOK, Unsent, db_finish, At, Submission
  <2>7. TxOK(s)'
    BY <1>0, <1>2, <2>0, <2>1, <2>2, <2>3 DEF PlaceOK, TxOK, Unsent, Final, TxStates, NotesOf,
         db_finish, At, Submission, dbVars, coolVars
  <2>8. RestOK(s)'
    BY <1>0, <1>2, <2>0, <2>1, <2>2, <2>3, KeysOf DEF PlaceOK, TxOK, RestOK, Unsent, Final,
         Followed, requestKey, db_finish, At, Submission, dbVars, coolVars
  <2>9. HeldEffect(s)
    BY <1>0, <1>2, <2>0, <2>1, <2>2, <2>3, RelayerAssumptions DEF HeldEffect, Holds, PlaceOK,
         db_finish, At, heldVars, Submission, TypeOK
  <2>10. ChannelEffect(s) /\ SlotEffect(s)
    BY <1>0, <1>2, <2>0, <2>1, <2>2, <2>3 DEF ChannelEffect, SlotEffect, PlaceOK, db_finish, At,
         poolVars, Submission, TypeOK
  <2>11. NotesEffect(s)
    BY <1>0, <1>2, <2>0, <2>1, <2>2, <2>3 DEF NotesEffect, Claiming, Earlier, OnItsWay, Done,
         Followed, Staged, PlaceOK, TxOK, Unsent, Final, NotesOf, db_finish, At, Submission
  <2> QED
    BY <2>4, <2>5, <2>6, <2>7, <2>8, <2>9, <2>10, <2>11 DEF Moves, Shares, SubOK
<1> QED
  BY <1>0, <1>1, <1>2 DEF db_finish, At

----------------------------------------------------------------------------
\* A step that has these effects keeps the invariant.
LEMMA SharesKept ==
  ASSUME RelayerInv, NEW s \in Submissions, Shares(s), NotesInv'
  PROVE  RelayerInv'
<1>1. TypeOK' /\ SubOK(s)' /\ OneEffect(s)
  BY DEF Shares
<1>2. \A u \in Submissions : SubOK(u)'
  BY <1>1, OthersKept DEF RelayerInv
<1>3. HeldInv'
  BY HeldKept DEF Shares, RelayerInv
<1>4. PoolInv'
  BY PoolKept DEF Shares, RelayerInv
<1> QED
  BY <1>1, <1>2, <1>3, <1>4 DEF RelayerInv

LEMMA MovesKept ==
  ASSUME RelayerInv, NEW s \in Submissions, Moves(s)
  PROVE  RelayerInv'
<1>1. NotesInv'
  BY NotesKept DEF RelayerInv, Moves, Shares
<1> QED
  BY <1>1, SharesKept DEF Moves

\* A submission that was not made claims nothing and has sent nothing.
LEMMA NewIdle ==
  ASSUME NEW s \in Submissions, SubOK(s), sub[s].step \in {"new", "claim"}
  PROVE  ~Earlier(s) /\ ~Live(s) /\ ~OnItsWay(s) /\ ~Done(s) /\ sub[s].tx = None
BY DEF SubOK, PlaceOK, TxOK, NewSubmission, Unsent, Earlier, Live, Claiming, OnItsWay, Done,
       Followed, None

LEMMA SubmitKept ==
  ASSUME RelayerInv, NEW s \in Submissions, NEW r \in Requests, Submit(s, r)
  PROVE  RelayerInv'
<1>0. TypeOK /\ HeldInv /\ NotesInv /\ \A u \in Submissions : SubOK(u)
  BY DEF RelayerInv
<1>1. Shares(s)
  BY <1>0, Shares_Submit
<1>2. \A u \in Submissions \ {s} : sub'[u] = sub[u]
  BY <1>1 DEF Shares, OneEffect
<1>3. restarts' = restarts /\ inflight' = inflight /\ restarts \in Nat
  BY <1>0 DEF Submit, TypeOK
<1>4. sub[s].step = "new" /\ sub'[s].step = "claim"
  BY <1>0 DEF Submit, At, TypeOK, Submission
<1>5. ~Earlier(s) /\ ~Live(s) /\ ~OnItsWay(s) /\ ~Done(s) /\ sub[s].tx = None
  BY <1>0, <1>4, NewIdle
<1>6. ~Earlier(s)' /\ ~Live(s)' /\ ~OnItsWay(s)' /\ ~Done(s)' /\ sub'[s].tx = None
  BY <1>1, <1>4 DEF Shares, SubOK, PlaceOK, TxOK, Unsent, Earlier, Live, Claiming, OnItsWay,
       Done, Followed, At, None
<1>7. \A u \in Submissions \ {s} :
        /\ NotesOf(u)' = NotesOf(u) /\ (Earlier(u)' <=> Earlier(u)) /\ (Live(u)' <=> Live(u))
        /\ (OnItsWay(u)' <=> OnItsWay(u)) /\ (Done(u)' <=> Done(u))
  BY <1>2, <1>3 DEF NotesOf, Earlier, Live, Claiming, OnItsWay, Done, Followed, At
<1>8. \A n, X : Excused(n, X) => Excused(n, X)'
  BY <1>2, <1>3, <1>5, <1>7 DEF Excused
<1>9. Claiming' = Claiming /\ s \notin Claiming
  BY <1>2, <1>4 DEF Claiming
<1>10. ClaimsExact'
  BY <1>0, <1>3, <1>7, <1>9 DEF NotesInv, ClaimsExact, Claiming
<1>11. InflightInv'
  BY <1>0, <1>3, <1>6, <1>7, <1>8 DEF NotesInv, InflightInv
<1>12. ApartInv'
  BY <1>0, <1>6, <1>7, <1>8 DEF NotesInv, ApartInv
<1>13. SpentInv'
  BY <1>0, <1>2, <1>4, <1>6, <1>7, <1>8 DEF NotesInv, SpentInv, Staged
<1>14. OnceInv'
  BY <1>0, <1>2, <1>6, <1>7 DEF NotesInv, OnceInv, None
<1> QED
  BY <1>1, <1>10, <1>11, <1>12, <1>13, <1>14, SharesKept DEF NotesInv

\* A claim finds none of its notes in flight, so that no live submission has
\* one unless an earlier relay let go of it.
LEMMA ClaimKept ==
  ASSUME RelayerInv, NEW s \in Submissions, claim(s)
  PROVE  RelayerInv'
<1>0. TypeOK /\ HeldInv /\ NotesInv /\ \A u \in Submissions : SubOK(u)
  BY DEF RelayerInv
<1>a. CASE inflight \cap NotesOf(s) # {}
  BY <1>0, <1>a, Moves_claim, MovesKept
<1>b. CASE inflight \cap NotesOf(s) = {}
  <2>1. Shares(s)
    BY <1>0, <1>b, Shares_claim
  <2>2. \A u \in Submissions \ {s} : sub'[u] = sub[u]
    BY <2>1 DEF Shares, OneEffect
  <2>3. restarts' = restarts /\ inflight' = inflight \cup NotesOf(s) /\ restarts \in Nat
    BY <1>0, <1>b DEF claim, TypeOK
  <2>4. /\ sub[s].step = "claim" /\ sub'[s].step \in {"hold", "fresh"}
        /\ sub'[s].req = sub[s].req
    BY <1>0, <1>b DEF claim, At, Go, TypeOK, Submission
  <2>5. ~Earlier(s) /\ ~Live(s) /\ ~OnItsWay(s) /\ ~Done(s) /\ sub[s].tx = None
    BY <1>0, <2>4, NewIdle
  <2>6. ~Earlier(s)' /\ ~OnItsWay(s)' /\ ~Done(s)' /\ sub'[s].tx = None
    BY <2>1, <2>4 DEF Shares, SubOK, PlaceOK, TxOK, Unsent, Earlier, OnItsWay,
         Done, Followed, At, None
  <2>7. \A u \in Submissions \ {s} :
          /\ (Earlier(u)' <=> Earlier(u)) /\ (Live(u)' <=> Live(u))
          /\ (OnItsWay(u)' <=> OnItsWay(u)) /\ (Done(u)' <=> Done(u))
    BY <2>2, <2>3 DEF Earlier, Live, Claiming, OnItsWay, Done, Followed, At
  <2>8. \A u \in Submissions : NotesOf(u)' = NotesOf(u)
    BY <2>2, <2>4 DEF NotesOf
  <2>9. \A n, X : Excused(n, X) => Excused(n, X)'
    BY <2>3, <2>5, <2>7, <2>8 DEF Excused
  <2>10. Claiming' = Claiming \cup {s} /\ s \notin Claiming /\ Claiming \subseteq Submissions
    BY <2>2, <2>4 DEF Claiming
  <2>11. ClaimsExact'
    <3> SUFFICES ASSUME restarts' = 0
                 PROVE  /\ inflight' = UNION {NotesOf(u)' : u \in Claiming'}
                        /\ \A u, v \in Claiming' : u # v => NotesOf(u)' \cap NotesOf(v)' = {}
      BY DEF ClaimsExact
    <3>1. /\ inflight = UNION {NotesOf(u) : u \in Claiming}
          /\ \A u, v \in Claiming : u # v => NotesOf(u) \cap NotesOf(v) = {}
      BY <1>0, <2>3 DEF NotesInv, ClaimsExact
    <3>2. {NotesOf(u)' : u \in Claiming'} = {NotesOf(u) : u \in Claiming} \cup {NotesOf(s)}
      BY <2>8, <2>10
    <3>3. inflight' = UNION {NotesOf(u)' : u \in Claiming'}
      BY <2>3, <3>1, <3>2
    <3>4. \A u \in Claiming : NotesOf(u) \cap NotesOf(s) = {}
      BY <1>b, <3>1
    <3>5. \A u, v \in Claiming' : u # v => NotesOf(u)' \cap NotesOf(v)' = {}
      BY <2>8, <2>10, <3>1, <3>4
    <3> QED
      BY <3>3, <3>5
  <2>12. InflightInv'
    BY <1>0, <2>3, <2>7, <2>8, <2>9 DEF NotesInv, InflightInv
  <2>13. ASSUME NEW u \in Submissions \ {s}, Live(u), NEW n \in NotesOf(u) \cap NotesOf(s)
         PROVE  Excused(n, {s, u})
    <3>1. n \notin inflight
      BY <1>b
    <3>2. Excused(n, {u})
      BY <1>0, <2>13, <3>1 DEF NotesInv, InflightInv
    <3> QED
      BY <2>5, <3>2 DEF Excused
  <2>14. ApartInv'
    <3> SUFFICES ASSUME NEW u \in Submissions, NEW v \in Submissions, u # v, Live(u)', Live(v)',
                        NEW n \in NotesOf(u)' \cap NotesOf(v)'
                 PROVE  Excused(n, {u, v})'
      BY DEF ApartInv
    <3>1. n \in NotesOf(u) \cap NotesOf(v)
      BY <2>8
    <3>2. CASE u = s
      BY <2>7, <2>9, <2>13, <3>1, <3>2
    <3>3. CASE v = s
      <4>1. Excused(n, {s, u})
        BY <2>7, <2>13, <3>1, <3>3
      <4>2. {s, u} = {u, v}
        BY <3>3
      <4> QED
        BY <2>9, <4>1, <4>2
    <3>4. CASE u # s /\ v # s
      BY <1>0, <2>7, <2>9, <3>1, <3>4 DEF NotesInv, ApartInv
    <3> QED
      BY <3>2, <3>3, <3>4
  <2>15. SpentInv'
    BY <1>0, <2>2, <2>4, <2>6, <2>7, <2>8, <2>9 DEF NotesInv, SpentInv, Staged
  <2>16. OnceInv'
    BY <1>0, <2>2, <2>6, <2>8 DEF NotesInv, OnceInv, None
  <2> QED
    BY <2>1, <2>11, <2>12, <2>14, <2>15, <2>16, SharesKept DEF NotesInv
<1> QED
  BY <1>a, <1>b

\* A relay that is on its way, or about to be, still has its notes.
LEMMA WayClaims ==
  ASSUME NEW s \in Submissions, SubOK(s), OnItsWay(s) \/ sub[s].step \in Staged,
         sub[s] \in Submission
  PROVE  Live(s)
<1>1. CASE OnItsWay(s)
  <2>1. sub[s].step \in {"record", "follow", "lookup"}
    BY <1>1 DEF OnItsWay, Followed, At, SubOK, TxOK, PlaceOK, Unsent, Final, Submission, Steps, None
  <2> QED
    BY <1>1, <2>1 DEF OnItsWay, Live, Claiming, Earlier
<1>2. CASE sub[s].step \in Staged
  BY <1>2 DEF Staged, Live, Claiming, Earlier, SubOK, TxOK, Unsent
<1> QED
  BY <1>1, <1>2

\* The vault takes a relay's transaction only while its notes are unspent.
LEMMA LandKept ==
  ASSUME RelayerInv, NEW s \in Submissions, Land(s)
  PROVE  RelayerInv'
<1>0. TypeOK /\ HeldInv /\ NotesInv /\ \A u \in Submissions : SubOK(u)
  BY DEF RelayerInv
<1>a. CASE \E outcome \in {"failed", "conflict", "expired"} : land(s, outcome)
  BY <1>0, <1>a, Moves_land, MovesKept
<1>b. CASE land(s, "success")
  <2>1. Shares(s)
    BY <1>0, <1>b, Shares_land
  <2>2. \A u \in Submissions \ {s} : sub'[u] = sub[u]
    BY <2>1 DEF Shares, OneEffect
  <2>3. /\ restarts' = restarts /\ inflight' = inflight /\ restarts \in Nat
        /\ spent \cap NotesOf(s) = {}
    BY <1>0, <1>b DEF land, TypeOK
  <2>4. /\ sub[s].tx = "open" /\ sub'[s].tx = "success"
        /\ sub'[s].req = sub[s].req /\ sub'[s].step = sub[s].step
        /\ sub'[s].recorded = sub[s].recorded /\ sub'[s].refused = sub[s].refused
    BY <1>0, <1>b DEF land, TypeOK, Submission
  <2>5. \A u \in Submissions : Followed(u)' <=> Followed(u)
    BY <2>2, <2>3, <2>4 DEF Followed, At
  <2>6. \A u \in Submissions : /\ Earlier(u)' <=> Earlier(u)
                               /\ Live(u)' <=> Live(u)
                               /\ NotesOf(u)' = NotesOf(u)
    BY <2>2, <2>4 DEF Earlier, Live, Claiming, NotesOf
  <2>7. \A u \in Submissions \ {s} : /\ OnItsWay(u)' <=> OnItsWay(u)
                                     /\ Done(u)' <=> Done(u)
    BY <2>2, <2>5 DEF OnItsWay, Done
  <2>8. ~OnItsWay(s)' /\ (Done(s)' => OnItsWay(s))
    BY <2>4, <2>5 DEF OnItsWay, Done
  <2>9. \A n, X : Excused(n, X) => Excused(n, X)'
    BY <2>3, <2>6 DEF Excused
  <2>10. Claiming' = Claiming /\ Claiming \subseteq Submissions
    BY <2>2, <2>4 DEF Claiming
  <2>11. ClaimsExact'
    BY <1>0, <2>3, <2>6, <2>10 DEF NotesInv, ClaimsExact
  <2>12. InflightInv'
    BY <1>0, <2>3, <2>6, <2>9 DEF NotesInv, InflightInv
  <2>13. ApartInv'
    BY <1>0, <2>6, <2>9 DEF NotesInv, ApartInv
  <2>14. SpentInv'
    <3> SUFFICES ASSUME NEW u \in Submissions, NEW v \in Submissions, u # v,
                        OnItsWay(u)' \/ sub'[u].step \in Staged, Done(v)',
                        NEW n \in NotesOf(u)' \cap NotesOf(v)'
                 PROVE  Excused(n, {u, v})'
      BY DEF SpentInv
    <3>1. n \in NotesOf(u) \cap NotesOf(v)
      BY <2>6
    <3>2. OnItsWay(u) \/ sub[u].step \in Staged
      BY <2>2, <2>4, <2>7, <2>8
    <3>3. CASE v = s
      <4>1. sub[u] \in Submission /\ sub[s] \in Submission
        BY <1>0 DEF TypeOK
      <4>2. Live(u)
        BY <1>0, <3>2, <4>1, WayClaims
      <4>3. Live(s)
        BY <1>0, <2>8, <3>3, <4>1, WayClaims
      <4> QED
        BY <1>0, <2>9, <3>1, <3>3, <4>2, <4>3 DEF NotesInv, ApartInv
    <3>4. CASE v # s
      BY <1>0, <2>7, <2>9, <3>1, <3>2, <3>4 DEF NotesInv, SpentInv
    <3> QED
      BY <3>3, <3>4
  <2>15. OnceInv'
    <3>1. \A u \in Submissions \ {s} : sub[u].tx = "success" => NotesOf(u) \cap NotesOf(s) = {}
      BY <1>0, <2>3 DEF SubOK, TxOK
    <3> QED
      BY <1>0, <2>2, <2>6, <3>1 DEF NotesInv, OnceInv
  <2> QED
    BY <2>1, <2>11, <2>12, <2>13, <2>14, <2>15, SharesKept DEF NotesInv
<1> QED
  BY <1>a, <1>b DEF Land

\* After a restart every submission is one not made yet, one that ended, or one
\* that is followed by its record.
LEMMA ResumeKept ==
  ASSUME RelayerInv, Resume
  PROVE  RelayerInv'
<1>0. TypeOK /\ HeldInv /\ PoolInv /\ NotesInv /\ \A u \in Submissions : SubOK(u)
  BY DEF RelayerInv
<1> DEFINE after(s, takers) ==
      CASE s \in db_pending ->
             [sub[s] EXCEPT !.step = "lookup", !.owns = s \in takers,
                            !.slot = FALSE, !.sending = FALSE]
        [] sub[s].step = "new" -> sub[s]
        [] OTHER -> [sub[s] EXCEPT !.step = "ended", !.owns = FALSE,
                                   !.slot = FALSE, !.sending = FALSE]
<1>1. PICK takers \in Takers : /\ sub' = [s \in Submissions |-> after(s, takers)]
                               /\ free' = Channels \ {sub[s].channel : s \in takers}
  BY DEF Resume
<1>2. /\ inflight' = UNION {NotesOf(s) : s \in db_pending}
      /\ exitSlot' = TRUE /\ held' = 0 /\ heldBy' = {} /\ heldOrder' = <<>>
      /\ known' = {} /\ cool' = db_cool
      /\ db_cool' = db_cool /\ db_pending' = db_pending /\ spent' = spent
      /\ restarts' = restarts + 1 /\ restarts < MaxRestarts
  BY DEF Resume, dbVars
<1>3. restarts \in Nat /\ MaxRestarts \in Nat /\ restarts' > 0 /\ restarts' \in 0 .. MaxRestarts
  BY <1>0, <1>2, RelayerAssumptions DEF TypeOK
<1>4. /\ takers \subseteq db_pending /\ db_pending \subseteq Submissions
      /\ \A s, u \in takers : sub[s].channel = sub[u].channel => s = u
  BY <1>0, <1>1 DEF Takers, TypeOK
<1>5. \A s \in Submissions : sub[s] \in Submission
  BY <1>0 DEF TypeOK
\* The three kinds.
<1>6. ASSUME NEW s \in db_pending
      PROVE  /\ sub'[s].step = "lookup" /\ sub'[s].owns = (s \in takers)
             /\ ~sub'[s].slot /\ ~sub'[s].sending
             /\ sub'[s].req = sub[s].req /\ sub'[s].channel = sub[s].channel
             /\ sub'[s].queued = sub[s].queued /\ sub'[s].cancelled = sub[s].cancelled
             /\ sub'[s].tx = sub[s].tx /\ sub'[s].recorded = sub[s].recorded
             /\ sub'[s].refused = sub[s].refused /\ sub'[s].rests = sub[s].rests
             /\ sub'[s] \in Submission
  <2>1. /\ sub[s] \in Submission
        /\ sub'[s] = [sub[s] EXCEPT !.step = "lookup", !.owns = s \in takers,
                                   !.slot = FALSE, !.sending = FALSE]
    <3>1. s \in Submissions /\ sub[s] \in Submission
      BY <1>4, <1>5
    <3>2. sub'[s] = after(s, takers)
      BY <1>1, <3>1, Zenon
    <3>3. after(s, takers) = [sub[s] EXCEPT !.step = "lookup", !.owns = s \in takers,
                                            !.slot = FALSE, !.sending = FALSE]
      <4>1. sub[s].step # "new"
        BY <1>0, <3>1 DEF SubOK, TxOK, Unsent
      <4> QED
        BY <4>1
    <3> QED
      BY <3>1, <3>2, <3>3, Zenon
  <2>2. (s \in takers) \in BOOLEAN
    OBVIOUS
  <2>3. sub'[s] \in Submission
    BY <2>1, <2>2 DEF Submission, Steps
  <2> QED
    BY <2>1, <2>3 DEF Submission
<1>7. ASSUME NEW s \in Submissions \ db_pending, sub[s].step = "new"
      PROVE  sub'[s] = sub[s]
  BY <1>1, <1>7
<1>8. ASSUME NEW s \in Submissions \ db_pending, sub[s].step # "new"
      PROVE  /\ sub'[s].step = "ended" /\ ~sub'[s].owns
             /\ ~sub'[s].slot /\ ~sub'[s].sending
             /\ sub'[s].req = sub[s].req /\ sub'[s].channel = sub[s].channel
             /\ sub'[s].queued = sub[s].queued /\ sub'[s].cancelled = sub[s].cancelled
             /\ sub'[s].tx = sub[s].tx /\ sub'[s].recorded = sub[s].recorded
             /\ sub'[s].refused = sub[s].refused /\ sub'[s].rests = sub[s].rests
             /\ sub'[s] \in Submission
  <2>1. /\ sub[s] \in Submission
        /\ sub'[s] = [sub[s] EXCEPT !.step = "ended", !.owns = FALSE,
                                   !.slot = FALSE, !.sending = FALSE]
    BY <1>1, <1>5, <1>8
  <2>2. sub'[s] \in Submission
    BY <2>1 DEF Submission, Steps
  <2> QED
    BY <2>1, <2>2 DEF Submission
<1>9. \A s \in Submissions : /\ sub'[s].req = sub[s].req /\ sub'[s].tx = sub[s].tx
                             /\ sub'[s].recorded = sub[s].recorded
                             /\ sub'[s] \in Submission
                             /\ sub'[s].step \in {"lookup", "new", "ended"}
                             /\ (sub'[s].step = "lookup" <=> s \in db_pending)
                             /\ (sub'[s].owns <=> s \in takers)
                             /\ (s \in takers => sub'[s].channel = sub[s].channel)
  <2> TAKE s \in Submissions
  <2>1. SubOK(s)
    BY <1>0
  <2>2. CASE s \in db_pending
    BY <1>6, <2>2
  <2>3. CASE s \notin db_pending /\ sub[s].step = "new"
    BY <1>4, <1>5, <1>7, <2>1, <2>3 DEF SubOK, PlaceOK, At, NewSubmission
  <2>4. CASE s \notin db_pending /\ sub[s].step # "new"
    BY <1>4, <1>8, <2>4
  <2> QED
    BY <2>2, <2>3, <2>4
<1>10. TypeOK'
  <2>1. inflight' \subseteq Nullifiers
    <3>1. \A s \in db_pending : NotesOf(s) \subseteq Nullifiers
      BY <1>0, <1>4, NotesIn DEF SubOK, PlaceOK, TxOK, At, Unsent, NewSubmission, NotesOf
    <3> QED
      BY <1>2, <3>1
  <2>2. sub' \in [Submissions -> Submission]
    BY <1>1, <1>9
  <2>3. heldOrder' \in Seq(Submissions) /\ Len(heldOrder') =< maxStatuses
    BY <1>2, RelayerAssumptions
  <2>4. cool' \subseteq Keys /\ db_cool' \subseteq Keys /\ db_pending' \subseteq Submissions
        /\ spent' \subseteq Nullifiers /\ known' \subseteq Nullifiers
    BY <1>0, <1>2 DEF TypeOK
  <2>5. free' \subseteq Channels /\ exitSlot' \in BOOLEAN /\ held' \in Nat
        /\ heldBy' \subseteq Submissions
    BY <1>1, <1>2
  <2> QED
    BY <1>3, <2>1, <2>2, <2>3, <2>4, <2>5 DEF TypeOK
<1>11. ASSUME NEW s \in Submissions
       PROVE  SubOK(s)'
  <2>0. PlaceOK(s) /\ TxOK(s) /\ RestOK(s) /\ sub[s] \in Submission
    BY <1>0, <1>5 DEF SubOK
  <2>1. CASE s \in db_pending
    <3>1. PlaceOK(s)'
      BY <1>3, <1>4, <1>6, <2>0, <2>1 DEF PlaceOK, TxOK, At, Unsent, NewSubmission
    <3>2. TxOK(s)'
      BY <1>2, <1>3, <1>6, <2>0, <2>1 DEF PlaceOK, TxOK, At, Unsent, NotesOf, NewSubmission
    <3>3. RestOK(s)'
      BY <1>6, <2>1 DEF RestOK, At
    <3> QED
      BY <3>1, <3>2, <3>3 DEF SubOK
  <2>2. CASE s \notin db_pending /\ sub[s].step = "new"
    <3>0. sub'[s] = sub[s] /\ sub[s] = NewSubmission
      BY <1>7, <2>0, <2>2 DEF PlaceOK, At
    <3>1. PlaceOK(s)'
      BY <3>0 DEF PlaceOK, At, NewSubmission
    <3>2. TxOK(s)'
      BY <1>2, <2>2, <3>0 DEF TxOK, At, NewSubmission, None, Unsent
    <3>3. RestOK(s)'
      BY <3>0 DEF RestOK, At, NewSubmission, None
    <3> QED
      BY <3>1, <3>2, <3>3 DEF SubOK
  <2>3. CASE s \notin db_pending /\ sub[s].step # "new"
    <3>1. PlaceOK(s)'
      BY <1>8, <2>0, <2>3 DEF PlaceOK, At
    <3>2. TxOK(s)'
      BY <1>2, <1>3, <1>8, <2>0, <2>3 DEF TxOK, At, Unsent, NotesOf
    <3>3. RestOK(s)'
      BY <1>2, <1>3, <1>8, <2>0, <2>3 DEF TxOK, RestOK, At, Followed, requestKey
    <3> QED
      BY <3>1, <3>2, <3>3 DEF SubOK
  <2> QED
    BY <2>1, <2>2, <2>3
<1>12. HeldInv'
  <2>0. \A s \in Submissions : ~sub'[s].sending
    <3> TAKE s \in Submissions
    <3>1. CASE s \in db_pending
      BY <1>6, <3>1
    <3>2. CASE s \notin db_pending /\ sub[s].step = "new"
      BY <1>0, <1>7, <3>2 DEF SubOK, PlaceOK, At, NewSubmission
    <3>3. CASE s \notin db_pending /\ sub[s].step # "new"
      BY <1>8, <3>3
    <3> QED
      BY <3>1, <3>2, <3>3
  <2>1. \A s \in Submissions : ~Holds(s)'
    BY <1>9, <2>0 DEF Holds
  <2>2. Holders' = {}
    BY <2>1 DEF Holders
  <2> QED
    BY <1>2, <2>2, FS_EmptySet, RelayerAssumptions DEF HeldInv
<1>13. PoolInv'
  <2>1. ASSUME NEW ch \in Channels
        PROVE  (IF ch \in free THEN Owners(ch) = {} ELSE \E u \in Submissions : Owners(ch) = {u})'
    <3>1. CASE \E u \in takers : sub[u].channel = ch
      <4>1. PICK u \in takers : sub[u].channel = ch
        BY <3>1
      <4>2. ch \notin free' /\ u \in Submissions
        BY <1>1, <1>4, <4>1
      <4>3. Owners(ch)' = {u}
        BY <1>4, <1>9, <4>1, <4>2 DEF Owners
      <4> QED
        BY <4>2, <4>3
    <3>2. CASE ~\E u \in takers : sub[u].channel = ch
      <4>1. ch \in free'
        BY <1>1, <3>2
      <4>2. Owners(ch)' = {}
        BY <1>4, <1>9, <3>2 DEF Owners
      <4> QED
        BY <4>1, <4>2
    <3> QED
      BY <3>1, <3>2
  <2>2. \A s \in Submissions : ~sub'[s].slot
    BY <1>9, <1>11 DEF SubOK, PlaceOK
  <2>3. Slotted' = {}
    BY <2>2 DEF Slotted
  <2> QED
    BY <1>2, <2>1, <2>3 DEF PoolInv
<1>14. NotesInv'
  <2>1. \A s \in Submissions : NotesOf(s)' = NotesOf(s) /\ (Earlier(s)' <=> Earlier(s))
    BY <1>9 DEF NotesOf, Earlier
  <2>2. \A n, X : Excused(n, X) => Excused(n, X)'
    BY <1>3, <2>1 DEF Excused
  <2>3. \A s \in Submissions : Followed(s)' => sub[s].recorded
    BY <1>3, <1>9 DEF Followed, At
  <2>4. \A s \in Submissions : (OnItsWay(s)' => OnItsWay(s)) /\ (Done(s)' => Done(s))
    BY <1>9, <2>3 DEF OnItsWay, Done, Followed
  <2>5. \A s \in Submissions : Live(s)' => s \in db_pending /\ ~Earlier(s)
    BY <1>9, <2>1 DEF Live, Claiming
  <2>6. \A s \in Submissions : sub'[s].step \notin Staged
    BY <1>9 DEF Staged
  <2>7. ClaimsExact'
    BY <1>3 DEF ClaimsExact
  <2>8. InflightInv'
    BY <1>2, <2>1, <2>5 DEF InflightInv
  <2>9. ASSUME NEW s \in Submissions, Live(s)'
        PROVE  OnItsWay(s) \/ Done(s)
    <3>1. s \in db_pending /\ ~Earlier(s) /\ sub[s] \in Submission
      BY <1>5, <2>5, <2>9
    <3>2. sub[s].recorded /\ sub[s].tx # None
      BY <1>0, <3>1 DEF SubOK, TxOK
    <3> QED
      BY <3>1, <3>2 DEF Earlier, OnItsWay, Done, Followed, Submission, TxStates
  <2>10. ApartInv'
    <3> SUFFICES ASSUME NEW u \in Submissions, NEW v \in Submissions, u # v, Live(u)', Live(v)',
                        NEW n \in NotesOf(u)' \cap NotesOf(v)'
                 PROVE  Excused(n, {u, v})'
      BY DEF ApartInv
    <3>1. n \in NotesOf(u) \cap NotesOf(v)
      BY <2>1
    <3>2. CASE OnItsWay(u) /\ OnItsWay(v)
      <4>1. Live(u) /\ Live(v)
        BY <1>0, <1>5, <3>2, WayClaims
      <4> QED
        BY <1>0, <2>2, <3>1, <4>1 DEF NotesInv, ApartInv
    <3>3. CASE OnItsWay(u) /\ Done(v)
      BY <1>0, <2>2, <3>1, <3>3 DEF NotesInv, SpentInv
    <3>4. CASE Done(u) /\ OnItsWay(v)
      <4>1. Excused(n, {v, u})
        BY <1>0, <3>1, <3>4 DEF NotesInv, SpentInv
      <4>2. {v, u} = {u, v}
        OBVIOUS
      <4> QED
        BY <2>2, <4>1, <4>2
    <3>5. CASE Done(u) /\ Done(v)
      BY <1>0, <3>1, <3>5 DEF NotesInv, OnceInv, Done
    <3> QED
      BY <2>9, <3>2, <3>3, <3>4, <3>5
  <2>11. SpentInv'
    BY <1>0, <2>1, <2>2, <2>4, <2>6 DEF NotesInv, SpentInv
  <2>12. OnceInv'
    BY <1>0, <1>9, <2>1 DEF NotesInv, OnceInv
  <2> QED
    BY <2>7, <2>8, <2>10, <2>11, <2>12 DEF NotesInv
<1> QED
  BY <1>10, <1>11, <1>12, <1>13, <1>14 DEF RelayerInv

\* Spends elsewhere and the vault's events leave the submissions alone.
LEMMA WorldKept ==
  ASSUME RelayerInv,
         (\E n \in Nullifiers : spend_elsewhere(n)) \/ FollowNullifiers \/ UNCHANGED vars
  PROVE  RelayerInv'
<1>1. /\ inflight' = inflight /\ held' = held /\ heldBy' = heldBy /\ heldOrder' = heldOrder
      /\ free' = free /\ exitSlot' = exitSlot /\ cool' = cool /\ db_cool' = db_cool
      /\ db_pending' = db_pending /\ sub' = sub /\ restarts' = restarts
      /\ spent \subseteq spent'
  BY DEF spend_elsewhere, FollowNullifiers, vars, heldVars, poolVars, coolVars, dbVars
<1>2. spent' \subseteq Nullifiers /\ known' \subseteq Nullifiers
  BY DEF RelayerInv, TypeOK, spend_elsewhere, FollowNullifiers, vars, coolVars
<1>3. TypeOK'
  BY <1>1, <1>2 DEF RelayerInv, TypeOK
<1>4. ASSUME NEW s \in Submissions
      PROVE  SubOK(s)'
  <2>1. PlaceOK(s) /\ TxOK(s) /\ RestOK(s)
    BY DEF RelayerInv, SubOK
  <2>2. PlaceOK(s)'
    BY <1>1, <2>1 DEF PlaceOK, At
  <2>3. TxOK(s)'
    BY <1>1, <2>1 DEF TxOK, At, NotesOf
  <2>4. RestOK(s)'
    BY <1>1, <2>1 DEF RestOK, At, Followed
  <2> QED
    BY <2>2, <2>3, <2>4 DEF SubOK
<1>5. HeldInv'
  BY <1>1 DEF RelayerInv, HeldInv, Holders, Holds
<1>6. PoolInv'
  BY <1>1 DEF RelayerInv, PoolInv, Owners, Slotted
<1>7. NotesInv'
  BY <1>1 DEF RelayerInv, NotesInv, ClaimsExact, InflightInv, ApartInv, SpentInv, OnceInv, Claiming,
       NotesOf, Excused, Earlier, Live, OnItsWay, Done, Followed, At
<1> QED
  BY <1>3, <1>4, <1>5, <1>6, <1>7 DEF RelayerInv

----------------------------------------------------------------------------
LEMMA StepKept ==
  ASSUME RelayerInv, NEW s \in Submissions, Step(s)
  PROVE  RelayerInv'
<1>0. TypeOK /\ HeldInv /\ \A u \in Submissions : SubOK(u)
  BY DEF RelayerInv
<1>1. CASE claim(s)
  BY <1>1, ClaimKept
<1>2. CASE hold(s)
  BY <1>0, <1>2, Moves_hold, MovesKept
<1>3. CASE fire(s)
  BY <1>0, <1>3, Moves_fire, MovesKept
<1>4. CASE sendHeld(s)
  BY <1>0, <1>4, Moves_sendHeld, MovesKept
<1>5. CASE sendHeld_returns(s)
  BY <1>0, <1>5, Moves_sendHeld_returns, MovesKept
<1>6. CASE refuse(s)
  BY <1>0, <1>6, Moves_refuse, MovesKept
<1>7. CASE fresh(s)
  BY <1>0, <1>7, Moves_fresh, MovesKept
<1>8. CASE give_up(s)
  BY <1>0, <1>8, Moves_give_up, MovesKept
<1>9. CASE take_slot(s)
  BY <1>0, <1>9, Moves_take_slot, MovesKept
<1>10. CASE \E ch \in Channels : acquire(s, ch)
  BY <1>0, <1>10, Moves_acquire, MovesKept
<1>11. CASE \E queued \in BOOLEAN : prepare(s, queued)
  BY <1>0, <1>11, Moves_prepare, MovesKept
<1>12. CASE send(s)
  BY <1>0, <1>12, Moves_send, MovesKept
<1>13. CASE send_timeout(s)
  BY <1>0, <1>13, Moves_send_timeout, MovesKept
<1>14. CASE record(s)
  BY <1>0, <1>14, Moves_record, MovesKept
<1>15. CASE follow(s)
  BY <1>0, <1>15, Moves_follow, MovesKept
<1>16. CASE unclaim(s)
  BY <1>0, <1>16, Moves_unclaim, MovesKept
<1>17. CASE finish(s)
  BY <1>0, <1>17, Moves_finish, MovesKept
<1>18. CASE store_cooldown(s)
  BY <1>0, <1>18, Moves_store_cooldown, MovesKept
<1>19. CASE db_finish(s)
  BY <1>0, <1>19, Moves_db_finish, MovesKept
<1> QED
  BY <1>1, <1>2, <1>3, <1>4, <1>5, <1>6, <1>7, <1>8, <1>9, <1>10, <1>11, <1>12, <1>13, <1>14,
     <1>15, <1>16, <1>17, <1>18, <1>19 DEF Step

LEMMA InitInv == Init => RelayerInv
<1> SUFFICES ASSUME Init PROVE RelayerInv
  OBVIOUS
<1>1. /\ inflight = {} /\ held = 0 /\ heldBy = {} /\ heldOrder = <<>> /\ free = Channels
      /\ exitSlot = TRUE /\ known = {} /\ cool = {} /\ db_cool = {} /\ db_pending = {}
      /\ spent = {} /\ restarts = 0
  BY DEF Init
<1>2. \A s \in Submissions : sub[s] = NewSubmission
  BY DEF Init
<1>3. NewSubmission \in Submission
  BY DEF NewSubmission, Submission, Steps, TxStates
<1>4. sub \in [Submissions -> Submission]
  BY <1>3 DEF Init
<1>5. TypeOK
  BY <1>1, <1>4, RelayerAssumptions DEF TypeOK
<1>6. ASSUME NEW s \in Submissions
      PROVE  SubOK(s)
  <2>0. sub[s] = NewSubmission
    BY <1>2
  <2>1. /\ sub[s].step = "new"
        /\ ~sub[s].owns /\ ~sub[s].slot /\ ~sub[s].queued /\ ~sub[s].sending
    BY <1>2 DEF NewSubmission
  <2>2. PlaceOK(s)
    BY <2>0, <2>1 DEF PlaceOK, At
  <2>3. TxOK(s)
    BY <1>1, <1>2 DEF TxOK, At, NewSubmission, None, Unsent
  <2>4. RestOK(s)
    BY <1>2 DEF RestOK, NewSubmission, None
  <2> QED
    BY <2>2, <2>3, <2>4 DEF SubOK
<1>7. HeldInv
  <2>1. Holders = {}
    BY <1>2 DEF Holders, Holds, NewSubmission
  <2> QED
    BY <1>1, <2>1, FS_EmptySet, RelayerAssumptions DEF HeldInv
<1>8. PoolInv
  BY <1>1, <1>2 DEF PoolInv, Owners, Slotted, NewSubmission
<1>9. NotesInv
  <2>1. Claiming = {}
    BY <1>2 DEF Claiming, NewSubmission
  <2>2. \A s \in Submissions : ~Live(s) /\ ~Done(s) /\ sub[s].tx = None
    BY <1>1, <1>2, <2>1 DEF Live, Done, NewSubmission, None
  <2>3. ClaimsExact
    BY <1>1, <2>1 DEF ClaimsExact
  <2> QED
    BY <2>2, <2>3 DEF NotesInv, InflightInv, ApartInv, SpentInv, OnceInv, None
<1> QED
  BY <1>5, <1>6, <1>7, <1>8, <1>9 DEF RelayerInv

LEMMA NextInv == RelayerInv /\ [Next]_vars => RelayerInv'
<1> SUFFICES ASSUME RelayerInv, [Next]_vars PROVE RelayerInv'
  OBVIOUS
<1>0. TypeOK /\ HeldInv /\ \A u \in Submissions : SubOK(u)
  BY DEF RelayerInv
<1>1. ASSUME NEW s \in Submissions, Step(s) PROVE RelayerInv'
  BY <1>1, StepKept
<1>2. ASSUME NEW s \in Submissions, CancelHeld(s) PROVE RelayerInv'
  BY <1>0, <1>2, Moves_CancelHeld, MovesKept
<1>3. ASSUME NEW s \in Submissions, Land(s) PROVE RelayerInv'
  BY <1>3, LandKept
<1>4. ASSUME NEW s \in Submissions, NEW r \in Requests, Submit(s, r) PROVE RelayerInv'
  BY <1>4, SubmitKept
<1>5. CASE (\E n \in Nullifiers : spend_elsewhere(n)) \/ FollowNullifiers \/ UNCHANGED vars
  BY <1>5, WorldKept
<1>6. CASE Resume
  BY <1>6, ResumeKept
<1> QED
  BY <1>1, <1>2, <1>3, <1>4, <1>5, <1>6 DEF Next

\* The inductive invariant holds throughout.
THEOREM RelayerInvHolds == Spec => []RelayerInv
BY InitInv, NextInv, PTL DEF Spec

\* hold, sendHeld and CancelHeld keep the count of the held requests exact and
\* within MaxHeld, their records within maxStatuses, and never send what a
\* client was told is cancelled.
THEOREM HeldAlwaysExact == Spec => []HeldExact
<1>1. RelayerInv => HeldExact
  <2> SUFFICES ASSUME RelayerInv PROVE HeldExact
    OBVIOUS
  <2>1. TypeOK /\ HeldInv /\ \A s \in Submissions : SubOK(s)
    BY DEF RelayerInv
  <2>2. HeldCounted
    BY <2>1 DEF HeldInv, HeldCounted, Holders, Holds
  <2>3. CancelledNeverSent
    BY <2>1 DEF CancelledNeverSent, SubOK, TxOK
  <2> QED
    BY <2>1, <2>2, <2>3 DEF HeldExact
<1> QED
  BY <1>1, RelayerInvHolds, PTL

\* channelPool, the exit slot and Resume: a channel or the token is free or with
\* one submission that gives it back, and until a restart one queueing exit is
\* on its way at a time.
THEOREM SlotsAlwaysExact == Spec => []SlotsExact
<1>1. RelayerInv => SlotsExact
  <2> SUFFICES ASSUME RelayerInv PROVE SlotsExact
    OBVIOUS
  <2>1. TypeOK /\ PoolInv /\ \A s \in Submissions : SubOK(s)
    BY DEF RelayerInv
  <2>2. ASSUME NEW ch \in Channels
        PROVE  Cardinality(Owners(ch)) = IF ch \in free THEN 0 ELSE 1
    BY <2>1, FS_EmptySet, FS_Singleton DEF PoolInv
  <2>3. Cardinality(Slotted) = IF exitSlot THEN 0 ELSE 1
    BY <2>1, FS_EmptySet, FS_Singleton DEF PoolInv
  <2>4. ChannelsExact
    BY <2>2, <2>3 DEF ChannelsExact, Owners, Slotted
  <2>5. ASSUME restarts = 0, NEW s \in Submissions, Followed(s), sub[s].queued, sub[s].tx = "open"
        PROVE  s \in Slotted
    <3>1. SubOK(s) /\ sub[s] \in Submission
      BY <2>1 DEF TypeOK
    <3>2. sub[s].step \in {"record", "follow"}
      BY <2>5, <3>1 DEF Followed, At, SubOK, TxOK, PlaceOK, Unsent, Final, Submission, Steps, None
    <3> QED
      BY <2>5, <3>1, <3>2 DEF SubOK, PlaceOK, Slotted
  <2>6. \A s, u \in Slotted : s = u
    BY <2>1 DEF PoolInv
  <2>7. ExitAlone
    BY <2>5, <2>6 DEF ExitAlone
  <2> QED
    BY <2>4, <2>7 DEF SlotsExact
<1> QED
  BY <1>1, RelayerInvHolds, PTL

\* claim and unclaim: until a restart the notes in flight are exactly those of
\* the submissions under way, each note of one.
THEOREM ClaimsAlwaysExact == Spec => []ClaimsExact
<1>1. RelayerInv => ClaimsExact
  BY DEF RelayerInv, NotesInv
<1> QED
  BY <1>1, RelayerInvHolds, PTL

\* claim, fresh, unclaim and Resume: no relay is on its way that another of the
\* relayer's makes fail, but where a third had the note before a restart.
THEOREM NoneDoomed == Spec => []NeverDoomed
<1>1. RelayerInv => NeverDoomed
  <2> SUFFICES ASSUME RelayerInv,
                      NEW s \in Submissions, NEW u \in Submissions, Followed(s), Followed(u), s # u,
                      sub[s].tx = "open", sub[u].tx \in {"open", "success"},
                      NEW n \in NotesOf(s) \cap NotesOf(u)
               PROVE  Excused(n, {s, u})
    BY DEF NeverDoomed, Excused
  <2>1. NotesInv /\ SubOK(s) /\ SubOK(u) /\ sub[s] \in Submission /\ sub[u] \in Submission
    BY DEF RelayerInv, TypeOK
  <2>2. OnItsWay(s) /\ (OnItsWay(u) \/ Done(u))
    BY DEF OnItsWay, Done
  <2>3. CASE OnItsWay(u)
    <3>1. Live(s) /\ Live(u)
      BY <2>1, <2>2, <2>3, WayClaims
    <3> QED
      BY <2>1, <3>1 DEF NotesInv, ApartInv
  <2>4. CASE Done(u)
    BY <2>1, <2>2, <2>4 DEF NotesInv, SpentInv
  <2> QED
    BY <2>2, <2>3, <2>4
<1> QED
  BY <1>1, RelayerInvHolds, PTL

\* finish, coolDown and db.finish: a failed relay that is dealt with rests, in
\* memory and in the database, unless the database refused to take it.
THEOREM FailuresRest == Spec => []FailureRests
<1>1. RelayerInv => FailureRests
  BY DEF RelayerInv, SubOK, RestOK, FailureRests
<1> QED
  BY <1>1, RelayerInvHolds, PTL

============================================================================
