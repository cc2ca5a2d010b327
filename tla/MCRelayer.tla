----------------------------- MODULE MCRelayer -----------------------------
(***************************************************************************)
(* The relayer in two behaviours, one chosen at the start: with two        *)
(* channels and notes that others may spend, or with one channel, sends    *)
(* that time out, writes that the database refuses and restarts.           *)
(***************************************************************************)
EXTENDS Relayer, TLC

CONSTANTS s1, s2, r1, r2, n1, n2, n3, n4, a1, c1, c2

VARIABLE about

ApartNotes == r1 :> {n1, n2} @@ r2 :> {n3, n4}
OneAddress == r1 :> a1 @@ r2 :> a1

Sharing == about = "sharing" /\ UNCHANGED about
Restarting == about = "restarts" /\ UNCHANGED about
Either == UNCHANGED about

\* The submissions are alike: the first is made first.
InOrder(s) == s = s2 => sub[s1].step # "new"

\* So are the channels: the first is taken first.
ChannelInOrder(s) == sub'[s].channel = c2 /\ sub[s].channel # c2 => c1 \notin free

\* With one channel, one request that may queue its exit, and a failure that
\* rests its request alone.
SmallStep(s) ==
  /\ Step(s)
  /\ sub'[s].channel # c2
  /\ sub'[s].queued => sub[s].req = r1
  /\ Cardinality(sub'[s].rests) =< 1

\* No transaction ends in a conflict.
SmallLand(s) == Land(s) /\ sub'[s].tx # "conflict"

MCInit == about \in {"sharing", "restarts"} /\ Init

MCNext ==
  \/ Sharing /\ \E s \in Submissions : /\ Step(s) /\ ~ sub'[s].refused /\ ~ send_timeout(s)
                                     /\ ChannelInOrder(s)
  \/ Restarting /\ \E s \in Submissions : SmallStep(s)
  \/ Either /\ \E s \in Submissions : CancelHeld(s)
  \/ Sharing /\ \E s \in Submissions : Land(s)
  \/ Restarting /\ \E s \in Submissions : SmallLand(s)
  \/ Either /\ \E s \in Submissions : InOrder(s) /\ \E r \in Requests : Submit(s, r)
  \/ Sharing /\ \E n \in Nullifiers : spend_elsewhere(n)
  \/ Sharing /\ FollowNullifiers
  \/ Restarting /\ Resume

\* Goroutines run, timers fire, and a transaction lands or lapses.
Fairness ==
  \A s \in Submissions :
    WF_vars(Restarting /\ SmallStep(s)) /\ WF_vars(Restarting /\ SmallLand(s))

MCSpec == MCInit /\ [][MCNext]_<<about, vars>> /\ Fairness

\* Every submission that claimed its notes ends and lets go of them, and what
\* it took comes back, across a restart too.
ClaimsReleased ==
  \A s \in Submissions : about = "restarts" /\ s \in Claiming ~> AllReleased(s)

============================================================================
