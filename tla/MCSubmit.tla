----------------------------- MODULE MCSubmit ------------------------------
(***************************************************************************)
(* The account of a service in two behaviours, one chosen at the start: a  *)
(* call and a relay that share it, or a relay across a restart.            *)
(***************************************************************************)
EXTENDS Submit

CONSTANT CallsFrom  \* when the first behaviour starts: the less time, the smaller

VARIABLE about

Either == UNCHANGED about
Active == IF about = "calls" THEN Jobs ELSE Relays

MCInit ==
  \/ about = "calls" /\ Started(CallsFrom)
  \/ about = "restart" /\ Started(0)

MCNext ==
  \/ Either /\ tick
  \/ Either /\ Close
  \/ Either /\ catch_up
  \/ Either /\ \E j \in Active : lock(j)
  \/ Either /\ \E j \in Active : prepare_unanswered(j)
  \/ Either /\ \E j \in Active : Step(j)
  \/ Either /\ about = "restart" /\ restart

\* Ledgers close, time passes, the RPC follows the network and answers, and a
\* mutex is granted to whoever waits for it.
Fairness ==
  /\ WF_vars(tick) /\ WF_vars(Close) /\ WF_vars(catch_up)
  /\ \A j \in Relays : WF_vars(Step(j)) /\ SF_vars(lock(j))

MCSpec == MCInit /\ [][MCNext]_<<about, vars>> /\ (about = "restart" => Fairness)

\* Every relay that holds the account ends and gives it back, whether its send
\* was cut off, its transaction lost or the process started again.
JobsEnd ==
  about = "restart" => \A j \in Relays : job[j].step = "prepare" ~> job[j].step = "done"

============================================================================
