----------------------------- MODULE Screening -----------------------------
(***************************************************************************)
(* The screening service (services/internal/screening): the rounds in      *)
(* which it checks each pending deposit, flags what it refuses, holds what *)
(* waits, lifts holds, carries out the operators' orders and attests, with *)
(* its tables, the follower that feeds them and its crashes.               *)
(*                                                                         *)
(* A check's verdict is the environment's choice: the lists and histories  *)
(* it reads may change between any two checks.  A call that sends a        *)
(* transaction and then writes columns one by one is one step that takes   *)
(* effect up to some point, since nothing else writes those columns; a     *)
(* call cut short, like a crash, counts as a fault.                        *)
(***************************************************************************)
EXTENDS Deposits, FiniteSetsExt, Functions, Sequences

CONSTANTS
  RecheckWindow,     \* how long before admission the final check runs, and
                     \* how long a pass vouches for a deposit
  Cutoff,            \* how long before admission a failing deposit is held
  Findings,          \* matches and gaps that a check may name
  Suspects,          \* deposits that checks, persons and reports may single
                     \* out: every check of another one is clear
  MaxFaults, MaxOps, MaxReports

ASSUME ScreeningAssumptions ==
  /\ Delays \subseteq Nat
  /\ MaxDeposits \in Nat
  /\ RecheckWindow \in Nat
  /\ Cutoff \in 0 .. RecheckWindow
  /\ {MaxFaults, MaxOps, MaxReports} \subseteq Nat

VARIABLES            \* the database
  seen,              \* the flag of each deposit the replay knows as pending
  table,             \* the screening table
  ops,               \* operator_ops not carried out
  reported           \* deposits whose depositor reported its key

VARIABLES            \* the process
  pc, view, rows, todo, checks,
  backoff            \* deposits whose checks failed, next try not due

VARIABLES
  faults,
  vouched,           \* history: when a deposit's latest final check passed, if it did
  passedOver,        \* history: what the latest check that passed had found
  reviewed           \* history: findings that a person cleared

dbVars    == <<seen, table, ops, reported>>
roundVars == <<pc, view, rows, todo, checks>>
ghosts    == <<vouched, passedOver, reviewed>>
vars      == <<depositVars, dbVars, roundVars, backoff, faults, ghosts>>

None    == 0         \* no flag
Held    == 1         \* ReasonHeld, which waits for something
Refused == 2         \* every other reason, which stands
Never   == -1        \* no time

Row == [delay : BOOLEAN,
        first_check : {"", "done", "refuse"},  \* done: passed or referred
        findings : SUBSET Findings,
        review : {"", "needed", "cleared", "refused"},
        recheck : {"", "pass", "refuse"},      \* referred is none
        recheck_at : Nat \cup {Never},
        flag_sent : {None, Held, Refused},
        lifted : BOOLEAN]                      \* flag_kind = "lifted"

NewRow == [delay |-> FALSE, first_check |-> "", findings |-> {}, review |-> "",
           recheck |-> "", recheck_at |-> Never, flag_sent |-> None, lifted |-> FALSE]

\* A check that could not run, one that refuses, and one that found things.
Verdicts(id) ==
  (IF id \in Suspects THEN [kind : {"failed", "refuse"}, found : {{}}] ELSE {})
  \cup (IF id \in reported THEN {}  \* self-reports are a list that refuses
        ELSE [kind : {"found"}, found : IF id \in Suspects THEN SUBSET Findings ELSE {{}}])

Clear(verdict) == verdict.kind = "found" /\ verdict.found = {}

----------------------------------------------------------------------------
\* The tables

\* A deposit the replay knows as pending, joined with its screening.
Join(r, d) ==
  [delay |-> r.delay, first_check |-> r.first_check, findings |-> r.findings,
   review |-> r.review, recheck |-> r.recheck, recheck_at |-> r.recheck_at,
   flag_sent |-> r.flag_sent, lifted |-> r.lifted,
   eligible_at |-> d.eligible_at, flag |-> d.flag, needs_flag |-> FALSE]

RowsOf(tbl) == [id \in DOMAIN seen |-> Join(tbl[id], seen[id])]

pendingRows == RowsOf(table)

\* The deposit's flag: the one sent last counts before the follower sees it.
reason(r) ==
  IF r.flag_sent # None THEN r.flag_sent
  ELSE IF r.lifted THEN None ELSE r.flag

\* Writes some columns of a deposit's row.
update(id, columns, set) ==
  table' = [table EXCEPT ![id] =
              [c \in DOMAIN table[id] |-> IF c \in columns THEN set[c] ELSE table[id][c]]]

\* A step that ran to its end or was cut short.
Ends(id, whole) ==
  /\ whole \/ (id \in Suspects /\ faults < MaxFaults)
  /\ faults' = IF whole THEN faults ELSE faults + 1

\* The columns of one call, written one by one as far as the n-th.
Written(columns, n) == {columns[i] : i \in 1 .. n}

----------------------------------------------------------------------------
\* What a deposit needs next

\* Variant with a fault: the final check may run at any time.
inRecheck_anytime(at, r) == TRUE

inRecheck(at, r) == at + RecheckWindow >= r.eligible_at

\* A pass vouches for a deposit only for a while.
fresh(at, r) == r.recheck_at # Never /\ at =< r.recheck_at + RecheckWindow

freshPass(at, r) == r.recheck = "pass" /\ fresh(at, r)

passed(v, id, r) == r.recheck = "pass" /\ (id =< v.attested \/ fresh(v.now, r))

Refusing(id, r) ==
  id \in reported \/ r.first_check = "refuse" \/ r.review = "refused" \/ r.recheck = "refuse"

\* Its own checks keep failing, or its review is not finished in time.
Holding(v, id, r) ==
  \/ ~passed(v, id, r) /\ v.now + Cutoff >= r.eligible_at /\ id \in backoff
  \/ r.first_check # "" /\ r.review = "needed" /\ inRecheck(v.now, r)

plan(v, id, r) ==
  IF ~r.delay \/ reason(r) = Refused THEN "none"
  ELSE IF Refusing(id, r) THEN "refuse"
  ELSE IF reason(r) = None /\ Holding(v, id, r) THEN "hold"
  ELSE IF r.first_check = "" THEN "first"
  ELSE IF r.review = "needed" \/ ~inRecheck(v.now, r) THEN "none"
  ELSE IF reason(r) = Held
       THEN IF freshPass(v.now, r) THEN "lift" ELSE "recheck"
  ELSE IF passed(v, id, r) THEN "none" ELSE "recheck"

Planned(v, rs, tasks) == {id \in DOMAIN rs : plan(v, id, rs[id]) \in tasks}

----------------------------------------------------------------------------
\* Transactions of the asp account, each with the writes that follow it

\* The transaction may land without its answer, and the writes stop anywhere.
Flag(id, why, whole) ==
  \/ /\ id \notin DOMAIN pending
     /\ ~whole
     /\ UNCHANGED <<depositVars, table, faults>>
  \/ \E n \in 0 .. 3 :
       /\ id \in DOMAIN pending
       /\ whole = (n = 3)
       /\ Ends(id, whole)
       /\ IF n > 0 THEN flag(id, why) ELSE UNCHANGED depositVars
       /\ update(id, Written(<<"flag_sent", "lifted">>, n - 1),
                 [flag_sent |-> why, lifted |-> FALSE])

lift(id, whole) ==
  \/ /\ id \in DOMAIN pending => pending[id].flag = 0
     /\ ~whole
     /\ UNCHANGED <<depositVars, table, faults>>
  \/ \E n \in 0 .. 3 :
       /\ whole = (n = 3)
       /\ Ends(id, whole)
       /\ IF n > 0 THEN unflag(id) ELSE UNCHANGED depositVars
       /\ update(id, Written(<<"flag_sent", "lifted">>, n - 1),
                 [flag_sent |-> None, lifted |-> TRUE])

----------------------------------------------------------------------------
\* A round

Idle == [now |-> 0, attested |-> 0, next |-> 0, reported |-> {}]

endRound ==
  /\ pc' = "idle" /\ view' = Idle /\ rows' = <<>> /\ todo' = {} /\ checks' = {}

\* The delay of each deposit that has none yet, read from the chain.
loadDelays ==
  [id \in DOMAIN table |-> IF id \in DOMAIN seen \cap DOMAIN pending
                           THEN [table[id] EXCEPT !.delay = TRUE] ELSE table[id]]

\* Reads the vault and the clock, the delays not read yet, and the rows.
begin ==
  /\ pc = "idle"
  /\ pc' = "flags"
  /\ view' = [Idle EXCEPT !.now = now, !.attested = attested_up_to, !.next = next_deposit_id]
  /\ table' = loadDelays
  /\ todo' = Planned(view', RowsOf(loadDelays), {"refuse", "hold"})
  /\ rows' = Restrict(RowsOf(loadDelays), todo')
  /\ checks' = {}
  /\ UNCHANGED <<depositVars, seen, ops, reported, backoff, faults, ghosts>>

\* What a row counts as flagged with once the transaction has landed.
Mark(id, why) == [rows EXCEPT ![id].flag_sent = why, ![id].lifted = (why = None)]

\* One row of settle, in the order of the rows: a flag that is due, or the lift
\* of a hold.
settle ==
  /\ pc \in {"flags", "lifts", "settle"}
  /\ \E id \in todo, whole \in BOOLEAN :
       /\ \A other \in todo : id =< other
       /\ todo' = todo \ {id}
       /\ \/ /\ plan(view, id, rows[id]) = "lift"
             /\ lift(id, whole)
             /\ rows' = IF whole THEN Mark(id, None) ELSE rows
          \/ \E why \in {Held, Refused} :
               /\ plan(view, id, rows[id]) = IF why = Held THEN "hold" ELSE "refuse"
               /\ Flag(id, why, whole)
               /\ rows' = IF whole THEN Mark(id, why)
                          ELSE [rows EXCEPT ![id].needs_flag = TRUE]
  /\ UNCHANGED <<seen, ops, reported, pc, view, checks, backoff, ghosts>>

startOps ==
  /\ pc = "flags" /\ todo = {}
  /\ pc' = "ops"
  /\ todo' = ops
  /\ rows' = <<>>
  /\ UNCHANGED <<depositVars, dbVars, view, checks, backoff, faults, ghosts>>

\* The rows are read again; the checks that are due are planned with the lifts.
startLifts ==
  /\ pc = "ops" /\ todo = {}
  /\ pc' = "lifts"
  /\ todo' = Planned(view, pendingRows, {"lift"})
  /\ checks' = Planned(view, pendingRows, {"first", "recheck"}) \ backoff
  /\ rows' = Restrict(pendingRows, todo' \cup checks')
  /\ UNCHANGED <<depositVars, dbVars, view, backoff, faults, ghosts>>

\* Variant with a fault: checks the budget left are kept over the new rows.
startSettle_keeps ==
  /\ pc = "lifts" /\ todo = {}
  /\ pc' = "settle"
  /\ rows' = pendingRows
  /\ todo' = Planned(view, rows', {"refuse", "hold", "lift"})
  /\ view' = [view EXCEPT !.reported = reported]
  /\ UNCHANGED <<depositVars, dbVars, checks, backoff, faults, ghosts>>

\* The checks are done, or the round's budget is spent.
startSettle ==
  /\ pc = "lifts" /\ todo = {}
  /\ pc' = "settle"
  /\ rows' = pendingRows
  /\ todo' = Planned(view, rows', {"refuse", "hold", "lift"})
  /\ checks' = {}
  /\ view' = [view EXCEPT !.reported = reported]
  /\ UNCHANGED <<depositVars, dbVars, backoff, faults, ghosts>>

----------------------------------------------------------------------------
\* Checks

Checked(id, ok) == backoff' = IF ok THEN backoff \ {id} ELSE backoff \cup {id}

\* Once it is attested and unflagged, anyone may admit a deposit at its time:
\* what a later check finds races with that.
Released(id) == id =< attested_up_to /\ id \in DOMAIN pending /\ pending[id].flag = 0

\* What a check says of a deposit counts from now on, also when it could not be
\* stored: only against an earlier pass that is still fresh, which is then all
\* the service knows, it does not.
Vouch(id, ok, found, stored) ==
  /\ IF ok
     THEN /\ vouched' = [vouched EXCEPT ![id] = now]
          /\ passedOver' = [passedOver EXCEPT ![id] = found]
     ELSE /\ vouched' = [vouched EXCEPT ![id] =
                          IF Released(id) \/ (~stored /\ freshPass(view.now, rows[id]))
                          THEN @ ELSE Never]
          /\ UNCHANGED passedOver
  /\ UNCHANGED reviewed

\* large stands for a large deposit or a contract's, which a person reviews
\* whatever the check finds.
firstCheck(id, verdict, large) ==
  LET outcome == IF verdict.kind = "refuse" THEN "refuse"
                 ELSE IF large \/ ~Clear(verdict) THEN "refer" ELSE "pass"
      columns == IF outcome = "refer" THEN <<"findings", "review", "first_check">>
                 ELSE <<"findings", "first_check">>
  IN /\ id \in checks /\ rows[id].first_check = ""
     /\ IF verdict.kind = "failed"
        THEN /\ Checked(id, FALSE)
             /\ checks' = checks \ {id}
             /\ UNCHANGED <<table, faults, rows>>
        ELSE \E n \in 0 .. Len(columns) :
               /\ Ends(id, n = Len(columns))
               /\ update(id, Written(columns, n),
                         [findings |-> verdict.found, review |-> "needed",
                          first_check |-> IF outcome = "refuse" THEN outcome ELSE "done"])
               \* inside the final window a pass is followed by the final check
               /\ IF n = Len(columns) /\ outcome = "pass" /\ inRecheck(view.now, rows[id])
                  THEN /\ rows' = [rows EXCEPT ![id].first_check = "done"]
                       /\ UNCHANGED <<checks, backoff>>
                  ELSE /\ checks' = checks \ {id}
                       /\ Checked(id, n = Len(columns))
                       /\ UNCHANGED rows
     /\ UNCHANGED ghosts

\* What a review cleared before is not sent to review again.
recheck(id, verdict) ==
  LET r == rows[id]
      outcome == IF verdict.kind = "refuse" THEN "refuse"
                 ELSE IF Clear(verdict) \/ (r.review = "cleared" /\ verdict.found \subseteq r.findings)
                 THEN "pass" ELSE "refer"
      columns == IF outcome = "refer" THEN <<"findings", "review", "recheck", "recheck_at">>
                 ELSE <<"recheck", "recheck_at">>
  IN /\ id \in checks /\ r.first_check # ""
     /\ checks' = checks \ {id}
     /\ IF verdict.kind = "failed"
        THEN Checked(id, FALSE) /\ UNCHANGED <<table, faults, ghosts>>
        ELSE \E n \in 0 .. Len(columns) :
               /\ Ends(id, n = Len(columns))
               /\ update(id, Written(columns, n),
                         [findings |-> verdict.found, review |-> "needed",
                          recheck |-> IF outcome = "refer" THEN "" ELSE outcome,
                          recheck_at |-> now])
               /\ Checked(id, n = Len(columns))
               /\ Vouch(id, outcome = "pass", verdict.found, "recheck" \in Written(columns, n))
     /\ UNCHANGED rows

runChecks ==
  /\ pc = "lifts" /\ todo = {}
  /\ \E id \in checks : \E verdict \in Verdicts(id) :
       \/ \E large \in BOOLEAN : (large => id \in Suspects) /\ firstCheck(id, verdict, large)
       \/ recheck(id, verdict)
  /\ UNCHANGED <<depositVars, seen, ops, reported, pc, view, todo>>

----------------------------------------------------------------------------
\* Operators' orders

\* A person refuses a deposit.
FlagManually(o) ==
  IF o.id \in DOMAIN seen
  THEN \E whole \in BOOLEAN : Flag(o.id, Refused, whole) /\ UNCHANGED ghosts
  ELSE UNCHANGED <<depositVars, table, faults, ghosts>>

\* A deposit that is held or inside the attested range is admitted as soon as
\* its flag is gone, so its unflag is its final check.
final(r, id) == r.flag = Held \/ id =< attested_up_to

\* The unflag stays queued until the final window opens.
Waits(r, id) ==
  /\ r.flag # None
  /\ ~(r.flag = Held /\ r.review = "needed")
  /\ final(r, id) /\ r.delay /\ ~inRecheck(now, r)

Unflag(o, verdict) ==
  LET id == o.id
      r  == pendingRows[id]
      last == final(r, id)
      reset == [first_check |-> "done", review |-> "cleared",
                recheck |-> IF last THEN "pass" ELSE "",
                recheck_at |-> IF last THEN now ELSE Never,
                flag_sent |-> None,
                lifted |-> r.flag = Held]
      may == /\ id \in DOMAIN seen
             /\ r.flag # None
             /\ ~(r.flag = Held /\ r.review = "needed")
             /\ last => r.delay /\ Clear(verdict)
             /\ verdict.kind = "found"
  IN IF may /\ id \in DOMAIN pending /\ pending[id].flag # 0
     THEN \* the columns are written in no fixed order
          \E done \in SUBSET DOMAIN reset :
            /\ Ends(id, done = DOMAIN reset)
            /\ unflag(id)
            /\ update(id, done, reset)
            /\ IF Clear(verdict)
               THEN /\ vouched' = [vouched EXCEPT ![id] = now]
                    /\ passedOver' = [passedOver EXCEPT ![id] = {}]
               ELSE UNCHANGED <<vouched, passedOver>>
            /\ reviewed' = [reviewed EXCEPT ![id] = @ \cup r.findings]
     ELSE UNCHANGED <<depositVars, table, faults, ghosts>>

\* Carries out one order and records it as done, whatever came of it; an order
\* that must wait stays queued, and so does one whose call a crash cut short.
runOps ==
  /\ pc = "ops"
  /\ \E o \in todo :
       /\ todo' = todo \ {o}
       /\ IF o.kind = "unflag" /\ o.id \in DOMAIN seen /\ Waits(pendingRows[o.id], o.id)
          THEN UNCHANGED <<depositVars, table, ops, faults, ghosts>>
          ELSE /\ \/ o.kind = "flag" /\ FlagManually(o)
                  \/ o.kind = "unflag" /\ \E verdict \in Verdicts(o.id) : Unflag(o, verdict)
               /\ \/ ops' = ops \ {o}
                  \/ faults' > faults /\ UNCHANGED ops
  /\ UNCHANGED <<seen, reported, pc, view, rows, checks, backoff>>

----------------------------------------------------------------------------
\* The attestation

\* Rows after the attested ones that no flag takes out.
Candidates == {id \in DOMAIN rows : id > view.attested /\ reason(rows[id]) = None}

\* Variant with a fault: a refusal whose flag did not land does not count.
Covered_unsent(r) == freshPass(view.now, r)

Covered(r) == ~r.needs_flag /\ freshPass(view.now, r)

\* A deposit is held only when its hold can be lifted, before it is eligible,
\* ahead of the refund the hold allows.
holdable(r) ==
  /\ ~r.needs_flag /\ r.delay
  /\ r.eligible_at =< view.now + REFUND_DELAY
  /\ r.review = "needed" \/ ~inRecheck(view.now, r)

\* The end of the longest run of deposits that are covered or can be held.
attestCandidate ==
  Max({0} \cup {id \in Candidates :
                  /\ Covered(rows[id])
                  /\ \A j \in Candidates : j < id => Covered(rows[j]) \/ holdable(rows[j])})

\* Deposits on the way that must be held first.
Holds == {id \in Candidates : id < attestCandidate /\ ~Covered(rows[id])}

hold ==
  /\ pc = "settle" /\ todo = {}
  /\ attestCandidate < view.next
  /\ \E id \in Holds, whole \in BOOLEAN :
       /\ \A other \in Holds : id =< other
       /\ Flag(id, Held, whole)
       /\ IF whole
          THEN rows' = Mark(id, Held) /\ UNCHANGED <<pc, view, todo, checks>>
          ELSE endRound
  /\ UNCHANGED <<seen, ops, reported, backoff, ghosts>>

\* Variant with a fault: the replay is trusted.
chainAgrees_trusted == TRUE

\* Every deposit the attestation would cover, read from the chain itself, is
\* flagged there or passed its final check here.
chainAgrees ==
  \A id \in view.attested + 1 .. attestCandidate :
    id \in DOMAIN pending /\ pending[id].flag = 0
      => id \in DOMAIN rows /\ freshPass(view.now, rows[id])

attestRound ==
  /\ pc = "settle" /\ todo = {}
  /\ attestCandidate \in 1 .. view.next - 1
  /\ Holds = {}
  /\ chainAgrees
  /\ attest(attestCandidate)
  /\ endRound
  /\ UNCHANGED <<dbVars, backoff, faults, ghosts>>

\* Nothing to attest, a stale source, a halted vault, the chain disagrees, or
\* the attestation is refused.
endWithout ==
  /\ pc = "settle" /\ todo = {}
  /\ endRound
  /\ UNCHANGED <<depositVars, dbVars, backoff, faults, ghosts>>

----------------------------------------------------------------------------
\* The other actors.  What they write to the tables is read only when a round
\* begins, carries out orders, plans its checks and settles: writing it in
\* between is writing it just before the next of these.
ReadsNext == pc \in {"idle", "ops", "lifts"} /\ (pc = "lifts" => todo = {})

\* The follower commits the vault's events up to the tip.
Apply ==
  /\ ReadsNext
  /\ seen' = [id \in DOMAIN pending |-> [eligible_at |-> pending[id].eligible_at,
                                         flag |-> pending[id].flag]]
  /\ seen' # seen
  \* the row of a deposit that was resolved is never read again
  /\ table' = [id \in DOMAIN table |->
                 IF id \in DOMAIN seen \ DOMAIN pending THEN NewRow ELSE table[id]]
  /\ UNCHANGED <<depositVars, ops, reported, roundVars, backoff, faults, ghosts>>

DecideReview(id, outcome) ==
  /\ ReadsNext
  /\ id \in DOMAIN seen
  /\ table[id].review = "needed"
  /\ update(id, {"review"}, [review |-> outcome])
  /\ reviewed' = IF outcome = "cleared"
                 THEN [reviewed EXCEPT ![id] = @ \cup table[id].findings] ELSE reviewed
  /\ UNCHANGED <<depositVars, seen, ops, reported, roundVars, backoff, faults,
                 vouched, passedOver>>

QueueOp(o) ==
  /\ pc = "flags" /\ todo = {}
  /\ Cardinality(ops) < MaxOps
  /\ o \notin ops
  /\ ops' = ops \cup {o}
  /\ UNCHANGED <<depositVars, seen, table, reported, roundVars, backoff, faults, ghosts>>

selfReport(id) ==
  /\ ReadsNext
  /\ Cardinality(reported) < MaxReports
  /\ reported' = reported \cup {id}
  /\ UNCHANGED <<depositVars, seen, table, ops, roundVars, backoff, faults, ghosts>>

\* The backoff of a failed check ends; the next round to plan the deposit sees it.
dueAgain(id) ==
  /\ ReadsNext
  /\ backoff' = backoff \ {id}
  /\ UNCHANGED <<depositVars, dbVars, roundVars, faults, ghosts>>

\* The process stops and starts again; what it held in memory is lost.
crash ==
  /\ faults < MaxFaults
  /\ faults' = faults + 1
  /\ endRound
  /\ backoff' = {}
  /\ UNCHANGED <<depositVars, dbVars, ghosts>>

\* Anyone's calls of the vault.  A deposit goes back only by a refund here: to
\* the service a cancel is one that came early.
chainStep ==
  /\ \/ passTime
     \/ \E d \in Delays : now + d =< MaxTime /\ shield(d)
     \/ \E ids \in SUBSET Admissible : admit(ids)
     \/ \E id \in DOMAIN pending : refund(id)
  /\ vouched' = [id \in DOMAIN vouched |->
                   IF id \in DOMAIN pending' THEN vouched[id] ELSE Never]
  /\ UNCHANGED <<dbVars, roundVars, backoff, faults, passedOver, reviewed>>

Init ==
  /\ DepositsInit
  /\ seen = <<>> /\ table = [id \in 1 .. MaxDeposits |-> NewRow]
  /\ ops = {} /\ reported = {}
  /\ pc = "idle" /\ view = Idle /\ rows = <<>> /\ todo = {} /\ checks = {}
  /\ backoff = {} /\ faults = 0
  /\ vouched = [id \in 1 .. MaxDeposits |-> Never]
  /\ passedOver = [id \in 1 .. MaxDeposits |-> {}]
  /\ reviewed = [id \in 1 .. MaxDeposits |-> {}]

Ops == [id : Suspects, kind : {"flag", "unflag"}]

Round ==
  \/ begin \/ settle \/ startOps \/ runOps \/ startLifts
  \/ runChecks \/ startSettle \/ hold \/ attestRound \/ endWithout

Next ==
  \/ Round
  \/ Apply
  \/ \E id \in DOMAIN seen, outcome \in {"cleared", "refused"} : DecideReview(id, outcome)
  \/ \E o \in Ops : o.id < next_deposit_id /\ QueueOp(o)
  \/ \E id \in (Ids \cap Suspects) \ reported : selfReport(id)
  \/ \E id \in backoff : dueAgain(id)
  \/ crash
  \/ chainStep

Spec == Init /\ [][Next]_vars

----------------------------------------------------------------------------
TypeOK ==
  /\ DOMAIN seen \subseteq Ids
  /\ table \in [1 .. MaxDeposits -> Row]
  /\ ops \subseteq Ops
  /\ reported \subseteq Ids /\ backoff \subseteq Ids
  /\ pc \in {"idle", "flags", "ops", "lifts", "settle"}
  /\ IF pc = "ops" THEN todo \subseteq Ops ELSE todo \subseteq DOMAIN rows
  /\ checks \subseteq DOMAIN rows
  /\ vouched \in [1 .. MaxDeposits -> Nat \cup {Never}]

\* Deposits that a step brings into the attested range without a flag.
NewlyCovered == {id \in DOMAIN pending \cap attested_up_to + 1 .. attested_up_to' :
                   pending[id].flag = 0}

\* An attestation never covers an unflagged deposit that was not checked by
\* itself and passed no longer than RecheckWindow before the round: not one the
\* follower missed, one unflagged since its rows were read, or one whose hold
\* did not land.
AttestedOnFreshPass ==
  [][\A id \in NewlyCovered :
       vouched[id] # Never /\ view.now =< vouched[id] + RecheckWindow]_vars

\* A deposit enters the tree only when its latest check passed, and ran inside
\* its final window: through holds, lifts, an operator's unflag, lost answers,
\* half-written rows and restarts.
AdmittedOnFinalCheck ==
  [][inserted' > inserted =>
       \A id \in DOMAIN pending \ DOMAIN pending' :
         vouched[id] # Never /\ vouched[id] + RecheckWindow >= pending[id].eligible_at]_vars

\* An attestation never covers the deposit of a key reported compromised before
\* the round settled its flags, whether or not that flag could be sent, unless
\* the row still counts it as flagged after an unflag that was cut short.
ReportHeeded ==
  [][\A id \in NewlyCovered : id \in view.reported => reason(rows[id]) # None]_vars

\* An attestation covers an unflagged deposit only when a person cleared whatever
\* its latest check passed over.
ReviewHeeded == [][\A id \in NewlyCovered : passedOver[id] \subseteq reviewed[id]]_vars

\* An attestation covers no deposit without a fresh pass of its own and none
\* whose key was reported, in every state of the tables the service can reach.
AttestedRightly == []TypeOK /\ AttestedOnFreshPass /\ ReportHeeded

============================================================================
