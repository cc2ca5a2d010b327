-------------------------- MODULE ScreeningProofs --------------------------
(***************************************************************************)
(* What the screening service vouches for, for any number of deposits,     *)
(* orders, reports, findings and faults.                                   *)
(*                                                                         *)
(* The invariant relates three copies of what is known of a deposit: the   *)
(* chain's, the tables' and the rows a round has read.  A pass in the      *)
(* tables is backed by a check that ran no earlier, or it is too old for   *)
(* the running round and every later one (Backed); the rows a round acts   *)
(* on are backed the same way for as long as it acts on them (RowsBacked); *)
(* so what is attested and not flagged was cleared (Cleared).              *)
(***************************************************************************)
EXTENDS Screening, SumsProofs, FiniteSetTheorems

Deposit == [eligible_at : Nat, flag : {None, Held, Refused}, flagged_at : Nat]
Seen    == [eligible_at : Nat, flag : {None, Held, Refused}]
ReadRow == [delay : BOOLEAN, first_check : {"", "done", "refuse"}, findings : SUBSET Findings,
            review : {"", "needed", "cleared", "refused"}, recheck : {"", "pass", "refuse"},
            recheck_at : Nat \cup {Never}, flag_sent : {None, Held, Refused}, lifted : BOOLEAN,
            eligible_at : Nat, flag : {None, Held, Refused}, needs_flag : BOOLEAN]

ChainType ==
  /\ now \in Nat /\ inserted \in Nat /\ attested_up_to \in Nat
  /\ next_deposit_id \in 1 .. MaxDeposits + 1
  /\ attested_up_to < next_deposit_id
  /\ pending \in [DOMAIN pending -> Deposit]
  /\ DOMAIN pending \subseteq Ids

TablesType ==
  /\ seen \in [DOMAIN seen -> Seen]
  /\ DOMAIN seen \subseteq Ids
  /\ table \in [1 .. MaxDeposits -> Row]
  /\ ops \subseteq Ops
  /\ reported \subseteq Ids

RoundType ==
  /\ pc \in {"idle", "flags", "ops", "lifts", "settle"}
  /\ view \in [now : Nat, attested : Nat, next : Nat, reported : SUBSET Nat]
  /\ rows \in [DOMAIN rows -> ReadRow]
  /\ DOMAIN rows \subseteq Ids
  /\ IF pc = "ops" THEN todo \subseteq Ops ELSE todo \subseteq DOMAIN rows
  /\ checks \subseteq DOMAIN rows
  /\ pc # "lifts" => checks = {}
  /\ backoff \subseteq Ids

GhostsType ==
  /\ faults \in Nat
  /\ vouched \in [1 .. MaxDeposits -> Nat \cup {Never}]
  /\ passedOver \in [1 .. MaxDeposits -> SUBSET Findings]
  /\ reviewed \in [1 .. MaxDeposits -> SUBSET Findings]

\* The running round's view is of the past, but for the attested range.
ViewOK == pc # "idle" => view.now =< now /\ view.attested = attested_up_to

\* When the next round that reads the tables counts from.
Horizon == IF pc = "idle" THEN now ELSE view.now

\* A row's final check ran inside the final window of its deposit, and its pass
\* is backed by a check that passed no earlier, unless it is too old to count.
Backed(id) ==
  LET r == table[id] IN
  /\ r.recheck_at # Never => r.recheck_at + RecheckWindow >= pending[id].eligible_at
  /\ r.recheck = "pass" => r.delay
  /\ r.recheck = "pass" /\ r.recheck_at # Never
       => r.recheck_at =< vouched[id] \/ r.recheck_at + RecheckWindow < Horizon

TablesBacked ==
  /\ \A id \in 1 .. MaxDeposits : table[id].recheck_at =< now
  /\ \A id \in 1 .. MaxDeposits : id >= next_deposit_id => table[id].recheck_at = Never /\ table[id].recheck = ""
  /\ \A id \in DOMAIN seen \cap DOMAIN pending : seen[id].eligible_at = pending[id].eligible_at
  /\ \A id \in DOMAIN pending : Backed(id)

\* A row that is to be flagged, lifted or attested was read with a pass that is
\* still backed.
RowBacked(id) ==
  /\ rows[id].recheck = "pass" => rows[id].delay
  /\ freshPass(view.now, rows[id])
       => /\ rows[id].recheck_at =< vouched[id]
          /\ rows[id].recheck_at + RecheckWindow >= pending[id].eligible_at

\* A check that is still to run was planned for what the tables still say.
CheckPlanned(id) ==
  LET r == rows[id] IN
  /\ r.delay /\ (r.first_check # "" => inRecheck(view.now, r))
  /\ id \in DOMAIN pending =>
       /\ table[id].delay
       /\ table[id].recheck = r.recheck /\ table[id].recheck_at = r.recheck_at

RowsBacked ==
  /\ \A id \in DOMAIN rows \cap DOMAIN pending : rows[id].eligible_at = pending[id].eligible_at
  /\ \A id \in DOMAIN rows \cap DOMAIN pending :
       pc = "settle" \/ (pc # "ops" /\ id \in todo) => RowBacked(id)
  /\ \A id \in checks : CheckPlanned(id)

\* A reported deposit is still to be flagged, counts as flagged or blocks.
ReportsSettled ==
  pc = "settle" =>
    /\ view.reported \subseteq reported
    /\ \A id \in DOMAIN rows \cap view.reported :
         rows[id].delay => id \in todo \/ rows[id].needs_flag \/ reason(rows[id]) # None

\* What is attested and not flagged passed its final check in its final window.
Cleared ==
  \A id \in DOMAIN pending :
    pending[id].flag = None /\ id =< attested_up_to
      => vouched[id] # Never /\ vouched[id] + RecheckWindow >= pending[id].eligible_at

Types == ChainType /\ TablesType /\ RoundType /\ GhostsType

ScreeningInv ==
  /\ Types /\ ViewOK /\ TablesBacked /\ RowsBacked /\ ReportsSettled /\ Cleared

----------------------------------------------------------------------------
\* A row with some columns written.
Rewritten(r, cols, set) == [c \in DOMAIN r |-> IF c \in cols THEN set[c] ELSE r[c]]

\* What is written is of its columns' types.
Fits(cols, set) ==
  /\ "delay" \in cols => set["delay"] \in BOOLEAN
  /\ "first_check" \in cols => set["first_check"] \in {"", "done", "refuse"}
  /\ "findings" \in cols => set["findings"] \in SUBSET Findings
  /\ "review" \in cols => set["review"] \in {"", "needed", "cleared", "refused"}
  /\ "recheck" \in cols => set["recheck"] \in {"", "pass", "refuse"}
  /\ "recheck_at" \in cols => set["recheck_at"] \in Nat \cup {Never}
  /\ "flag_sent" \in cols => set["flag_sent"] \in {None, Held, Refused}
  /\ "lifted" \in cols => set["lifted"] \in BOOLEAN

\* The columns that a call writes are its own.
LEMMA WriteRow ==
  ASSUME NEW r \in Row, NEW cols, NEW set
  PROVE  LET w == Rewritten(r, cols, set) IN
         /\ w.delay = IF "delay" \in cols THEN set["delay"] ELSE r.delay
         /\ w.first_check = IF "first_check" \in cols THEN set["first_check"] ELSE r.first_check
         /\ w.findings = IF "findings" \in cols THEN set["findings"] ELSE r.findings
         /\ w.review = IF "review" \in cols THEN set["review"] ELSE r.review
         /\ w.recheck = IF "recheck" \in cols THEN set["recheck"] ELSE r.recheck
         /\ w.recheck_at = IF "recheck_at" \in cols THEN set["recheck_at"] ELSE r.recheck_at
         /\ w.flag_sent = IF "flag_sent" \in cols THEN set["flag_sent"] ELSE r.flag_sent
         /\ w.lifted = IF "lifted" \in cols THEN set["lifted"] ELSE r.lifted
         /\ Fits(cols, set) => w \in Row
<1> DEFINE w == Rewritten(r, cols, set)
<1>0. w = [c \in DOMAIN r |-> IF c \in cols THEN set[c] ELSE r[c]]
  BY DEF Rewritten
<1> HIDE DEF w
<1>1. /\ DOMAIN r = {"delay", "first_check", "findings", "review", "recheck", "recheck_at",
                     "flag_sent", "lifted"}
      /\ r.delay = r["delay"] /\ r.first_check = r["first_check"] /\ r.findings = r["findings"]
      /\ r.review = r["review"] /\ r.recheck = r["recheck"] /\ r.recheck_at = r["recheck_at"]
      /\ r.flag_sent = r["flag_sent"] /\ r.lifted = r["lifted"]
  BY DEF Row
<1>2. /\ w.delay = IF "delay" \in cols THEN set["delay"] ELSE r.delay
      /\ w.first_check = IF "first_check" \in cols THEN set["first_check"] ELSE r.first_check
      /\ w.findings = IF "findings" \in cols THEN set["findings"] ELSE r.findings
      /\ w.review = IF "review" \in cols THEN set["review"] ELSE r.review
  BY <1>0, <1>1
<1>3. /\ w.recheck = IF "recheck" \in cols THEN set["recheck"] ELSE r.recheck
      /\ w.recheck_at = IF "recheck_at" \in cols THEN set["recheck_at"] ELSE r.recheck_at
      /\ w.flag_sent = IF "flag_sent" \in cols THEN set["flag_sent"] ELSE r.flag_sent
      /\ w.lifted = IF "lifted" \in cols THEN set["lifted"] ELSE r.lifted
  BY <1>0, <1>1
<1>4. ASSUME Fits(cols, set)
      PROVE  w \in Row
  <2>1. /\ w.delay \in BOOLEAN /\ w.first_check \in {"", "done", "refuse"}
        /\ w.findings \in SUBSET Findings
        /\ w.review \in {"", "needed", "cleared", "refused"}
    BY <1>2, <1>4 DEF Row, Fits
  <2>2. /\ w.recheck \in {"", "pass", "refuse"} /\ w.recheck_at \in Nat \cup {Never}
        /\ w.flag_sent \in {None, Held, Refused} /\ w.lifted \in BOOLEAN
    BY <1>3, <1>4 DEF Row, Fits
  <2>3. w = [delay |-> w.delay, first_check |-> w.first_check, findings |-> w.findings,
             review |-> w.review, recheck |-> w.recheck, recheck_at |-> w.recheck_at,
             flag_sent |-> w.flag_sent, lifted |-> w.lifted]
    BY <1>0, <1>1
  <2>4. QED BY <2>1, <2>2, <2>3 DEF Row
<1>5. QED BY <1>2, <1>3, <1>4 DEF w

----------------------------------------------------------------------------
\* What most steps keep of the deposits and of the tables' checks.
DepositsKept ==
  /\ UNCHANGED <<now, next_deposit_id>>
  /\ DOMAIN pending' = DOMAIN pending
  /\ \A id \in DOMAIN pending : pending'[id].eligible_at = pending[id].eligible_at

CheckKept(id) ==
  /\ table[id].delay => table'[id].delay
  /\ table'[id].recheck = table[id].recheck
  /\ table'[id].recheck_at = table[id].recheck_at

ChecksKept == \A id \in 1 .. MaxDeposits : CheckKept(id)

\* The rows a round holds but for what they count as flagged with.
RowsKept ==
  /\ rows' \in [DOMAIN rows -> ReadRow]
  /\ \A id \in DOMAIN rows :
       /\ rows'[id].delay = rows[id].delay
       /\ rows'[id].first_check = rows[id].first_check
       /\ rows'[id].recheck = rows[id].recheck
       /\ rows'[id].recheck_at = rows[id].recheck_at
       /\ rows'[id].eligible_at = rows[id].eligible_at

\* Flags change, and only of the deposits U may one end.
Reflagged(U) ==
  /\ UNCHANGED <<now, next_deposit_id, attested_up_to, inserted>>
  /\ pending' \in [DOMAIN pending -> Deposit]
  /\ \A id \in DOMAIN pending :
       /\ pending'[id].eligible_at = pending[id].eligible_at
       /\ pending'[id].flag = None => pending[id].flag = None \/ id \in U

\* The sets of deposits: every deposit has a row.
LEMMA IdsBounded ==
  ASSUME ChainType
  PROVE  Ids \subseteq 1 .. MaxDeposits /\ Ids \subseteq Nat
BY ScreeningAssumptions DEF ChainType, Ids

\* Passes stay backed while the checks in the tables stand.
LEMMA TablesBackedKept ==
  ASSUME Types, TablesBacked, DepositsKept, ChecksKept, seen' = seen, vouched' = vouched,
         Horizon \in Nat, Horizon' \in Nat, Horizon =< Horizon'
  PROVE  TablesBacked'
<1>1. Ids \subseteq 1 .. MaxDeposits
  BY IdsBounded DEF Types
<1>2. \A id \in 1 .. MaxDeposits : table'[id].recheck_at =< now'
  BY DEF TablesBacked, DepositsKept, ChecksKept, CheckKept
<1>3. \A id \in 1 .. MaxDeposits :
        id >= next_deposit_id' => table'[id].recheck_at = Never /\ table'[id].recheck = ""
  BY DEF TablesBacked, DepositsKept, ChecksKept, CheckKept
<1>4. \A id \in (DOMAIN seen \cap DOMAIN pending)' : seen'[id].eligible_at = pending'[id].eligible_at
  BY DEF TablesBacked, DepositsKept
<1>5. ASSUME NEW id \in DOMAIN pending'
      PROVE  Backed(id)'
  <2>1. id \in DOMAIN pending /\ id \in 1 .. MaxDeposits
    BY <1>1 DEF DepositsKept, Types, ChainType
  <2>2. Backed(id)
    BY <2>1 DEF TablesBacked
  <2>3. /\ pending'[id].eligible_at = pending[id].eligible_at
        /\ table[id].delay => table'[id].delay
        /\ table'[id].recheck = table[id].recheck
        /\ table'[id].recheck_at = table[id].recheck_at
    BY <2>1 DEF DepositsKept, ChecksKept, CheckKept
  <2>4. table[id].recheck_at \in Nat \cup {Never}
    BY <2>1 DEF Types, TablesType, Row
  <2> HIDE DEF Horizon
  <2>5. QED BY <2>2, <2>3, <2>4, ScreeningAssumptions DEF Backed, Never
<1>6. QED BY <1>2, <1>3, <1>4, <1>5 DEF TablesBacked

\* A deposit stays cleared while its flag, or what cleared it, stands.
LEMMA ClearedKept ==
  ASSUME NEW U, ChainType, Cleared, Reflagged(U), vouched' = vouched,
         \A id \in U \cap DOMAIN pending :
           vouched[id] # Never /\ vouched[id] + RecheckWindow >= pending[id].eligible_at
  PROVE  Cleared'
<1>1. DOMAIN pending' = DOMAIN pending
  BY DEF Reflagged
<1>2. QED BY <1>1 DEF Cleared, Reflagged

\* The types of the deposits after flags have changed.
LEMMA ChainTypeKept ==
  ASSUME NEW U, ChainType, Reflagged(U)
  PROVE  ChainType' /\ DepositsKept
BY DEF ChainType, Reflagged, DepositsKept, Ids

\* Rows stay backed while the checks and what they rest on stand.
LEMMA RowsBackedKept ==
  ASSUME Types, RowsBacked, RowsKept, UNCHANGED <<pc, view>>,
         checks' \subseteq checks, pc # "ops" => todo' \subseteq todo,
         \A id \in DOMAIN pending' \cap Ids :
           /\ id \in DOMAIN pending /\ CheckKept(id)
           /\ pending'[id].eligible_at = pending[id].eligible_at
           /\ vouched'[id] = vouched[id]
  PROVE  RowsBacked'
<1>1. DOMAIN rows' = DOMAIN rows /\ DOMAIN rows \subseteq Ids /\ checks \subseteq Ids
  BY DEF RowsKept, Types, RoundType
<1>2. \A id \in (DOMAIN rows \cap DOMAIN pending)' : rows'[id].eligible_at = pending'[id].eligible_at
  BY <1>1 DEF RowsBacked, RowsKept
<1>3. ASSUME NEW id \in (DOMAIN rows \cap DOMAIN pending)',
             pc' = "settle" \/ (pc' # "ops" /\ id \in todo')
      PROVE  RowBacked(id)'
  <2>1. RowBacked(id)
    BY <1>1, <1>3 DEF RowsBacked
  <2>2. /\ rows'[id].delay = rows[id].delay
        /\ rows'[id].recheck = rows[id].recheck
        /\ rows'[id].recheck_at = rows[id].recheck_at
    BY <1>1 DEF RowsKept
  <2>3. QED BY <1>1, <2>1, <2>2 DEF RowBacked, freshPass, fresh
<1>4. ASSUME NEW id \in checks'
      PROVE  CheckPlanned(id)'
  <2>1. id \in DOMAIN rows /\ id \in 1 .. MaxDeposits
    BY IdsBounded DEF Types, RoundType
  <2>2. CheckPlanned(id)
    BY DEF RowsBacked
  <2>3. /\ rows'[id].delay = rows[id].delay
        /\ rows'[id].first_check = rows[id].first_check
        /\ rows'[id].recheck = rows[id].recheck
        /\ rows'[id].recheck_at = rows[id].recheck_at
        /\ rows'[id].eligible_at = rows[id].eligible_at
    BY <2>1 DEF RowsKept
  <2>4. id \in DOMAIN pending' => id \in DOMAIN pending /\ CheckKept(id)
    BY <1>1
  <2>5. QED BY <2>2, <2>3, <2>4 DEF CheckPlanned, CheckKept, inRecheck
<1>5. QED BY <1>2, <1>3, <1>4 DEF RowsBacked

\* A round that has ended holds no rows.
LEMMA RoundEnds ==
  ASSUME ScreeningInv, endRound
  PROVE  /\ RowsBacked' /\ ReportsSettled'
         /\ view' \in [now : Nat, attested : Nat, next : Nat, reported : SUBSET Nat]
         /\ rows' \in [DOMAIN rows' -> ReadRow] /\ DOMAIN rows' = {}
         /\ pc' = "idle" /\ todo' = {} /\ checks' = {}
<1>1. pc' = "idle" /\ todo' = {} /\ checks' = {} /\ DOMAIN rows' = {} /\ rows' \in [DOMAIN rows' -> ReadRow]
  BY DEF endRound
<1>2. view' \in [now : Nat, attested : Nat, next : Nat, reported : SUBSET Nat]
  BY DEF endRound, Idle
<1>3. QED BY <1>1, <1>2 DEF RowsBacked, ReportsSettled

----------------------------------------------------------------------------
\* Writing columns that no check rests on keeps the checks.
LEMMA UpdateKeeps ==
  ASSUME TablesType, NEW id \in 1 .. MaxDeposits, NEW cols, NEW set, update(id, cols, set),
         cols \cap {"delay", "recheck", "recheck_at"} = {},
         Fits(cols, set)
  PROVE  table' \in [1 .. MaxDeposits -> Row] /\ ChecksKept
<1> DEFINE w == Rewritten(table[id], cols, set)
<1>1. table[id] \in Row /\ table \in [1 .. MaxDeposits -> Row]
  BY DEF TablesType
<1>2. table' = [table EXCEPT ![id] = w]
  BY DEF update, Rewritten
<1>3. "delay" \notin cols /\ "recheck" \notin cols /\ "recheck_at" \notin cols
  OBVIOUS
<1>4. /\ w.delay = table[id].delay /\ w.recheck = table[id].recheck
      /\ w.recheck_at = table[id].recheck_at
  BY <1>1, <1>3, WriteRow
<1>5. w \in Row
  BY <1>1, <1>3, WriteRow
<1> HIDE DEF w
<1>6. QED BY <1>1, <1>2, <1>4, <1>5 DEF ChecksKept, CheckKept

\* The columns that stand for a flag are neither of a check.
LEMMA FlagColumns ==
  ASSUME NEW n \in Int, n =< 2
  PROVE  Written(<<"flag_sent", "lifted">>, n) \subseteq {"flag_sent", "lifted"}
<1>1. \A i \in 1 .. n : i = 1 \/ i = 2
  OBVIOUS
<1>2. QED BY <1>1 DEF Written

\* A step ends whole or is counted as a fault.
LEMMA EndsType ==
  ASSUME faults \in Nat, NEW id, NEW whole, Ends(id, whole)
  PROVE  faults' \in Nat
BY DEF Ends

\* A flag, landed and recorded as far as it was, ends no flag.
LEMMA FlagEffect ==
  ASSUME Types, NEW id \in 1 .. MaxDeposits, NEW why \in {Held, Refused},
         NEW whole \in BOOLEAN, Flag(id, why, whole)
  PROVE  /\ Reflagged({}) /\ ChecksKept
         /\ table' \in [1 .. MaxDeposits -> Row] /\ faults' \in Nat
<1> USE DEF Types
<1>1. CASE UNCHANGED <<depositVars, table, faults>>
  BY <1>1 DEF depositVars, Reflagged, ChecksKept, CheckKept, ChainType, TablesType, GhostsType
<1>2. CASE ~ UNCHANGED <<depositVars, table, faults>>
  <2>1. PICK n \in 0 .. 3 :
          /\ id \in DOMAIN pending
          /\ Ends(id, whole)
          /\ IF n > 0 THEN flag(id, why) ELSE UNCHANGED depositVars
          /\ update(id, Written(<<"flag_sent", "lifted">>, n - 1),
                    [flag_sent |-> why, lifted |-> FALSE])
    BY <1>2 DEF Flag
  <2>2. Reflagged({})
    <3>1. CASE n > 0
      <4>1. flag(id, why)
        BY <2>1, <3>1
      <4>2. /\ pending' = [pending EXCEPT ![id].flag = why,
                             ![id].flagged_at = IF pending[id].flag = 0 THEN now ELSE @]
            /\ UNCHANGED <<now, next_deposit_id, attested_up_to, inserted>>
        BY <4>1 DEF flag
      <4>3. pending[id] \in Deposit /\ now \in Nat
        BY <2>1 DEF ChainType
      <4>4. pending' \in [DOMAIN pending -> Deposit]
        BY <4>2, <4>3, <2>1 DEF ChainType, Deposit
      <4>5. \A j \in DOMAIN pending :
              /\ pending'[j].eligible_at = pending[j].eligible_at
              /\ pending'[j].flag = None => pending[j].flag = None
        BY <4>2, <4>3, <2>1 DEF ChainType, Deposit, None, Held, Refused
      <4>6. QED BY <4>2, <4>4, <4>5 DEF Reflagged
    <3>2. CASE ~ (n > 0)
      BY <2>1, <3>2 DEF depositVars, Reflagged, ChainType
    <3>3. QED BY <3>1, <3>2
  <2>3. ChecksKept /\ table' \in [1 .. MaxDeposits -> Row]
    <3>1. Written(<<"flag_sent", "lifted">>, n - 1) \subseteq {"flag_sent", "lifted"}
      BY FlagColumns
    <3> DEFINE set == [flag_sent |-> why, lifted |-> FALSE]
    <3>2. Fits(Written(<<"flag_sent", "lifted">>, n - 1), set)
      BY <3>1 DEF Fits
    <3>3. update(id, Written(<<"flag_sent", "lifted">>, n - 1), set)
      BY <2>1
    <3> HIDE DEF set
    <3>4. QED BY <3>1, <3>2, <3>3, UpdateKeeps
  <2>4. faults' \in Nat
    BY <2>1, EndsType DEF GhostsType
  <2>5. QED BY <2>2, <2>3, <2>4
<1>3. QED BY <1>1, <1>2

\* An unflag ends one flag.
LEMMA UnflagEffect ==
  ASSUME ChainType, NEW id, unflag(id)
  PROVE  Reflagged({id}) /\ id \in DOMAIN pending
<1>1. /\ id \in DOMAIN pending
      /\ pending' = [pending EXCEPT ![id].flag = 0, ![id].flagged_at = 0]
      /\ UNCHANGED <<now, next_deposit_id, attested_up_to, inserted>>
  BY DEF unflag
<1>2. pending[id] \in Deposit
  BY <1>1 DEF ChainType
<1>3. pending' \in [DOMAIN pending -> Deposit]
  BY <1>1, <1>2 DEF ChainType, Deposit, None
<1>4. \A j \in DOMAIN pending :
        /\ pending'[j].eligible_at = pending[j].eligible_at
        /\ pending'[j].flag = None => pending[j].flag = None \/ j \in {id}
  BY <1>1, <1>2 DEF ChainType, Deposit
<1>5. QED BY <1>1, <1>3, <1>4 DEF Reflagged

\* A lift ends the flag of its own deposit only.
LEMMA LiftEffect ==
  ASSUME Types, NEW id \in 1 .. MaxDeposits, NEW whole \in BOOLEAN, lift(id, whole)
  PROVE  /\ Reflagged({id}) /\ ChecksKept
         /\ table' \in [1 .. MaxDeposits -> Row] /\ faults' \in Nat
<1> USE DEF Types
<1>1. CASE UNCHANGED <<depositVars, table, faults>>
  BY <1>1 DEF depositVars, Reflagged, ChecksKept, CheckKept, ChainType, TablesType, GhostsType
<1>2. CASE ~ UNCHANGED <<depositVars, table, faults>>
  <2>1. PICK n \in 0 .. 3 :
          /\ Ends(id, whole)
          /\ IF n > 0 THEN unflag(id) ELSE UNCHANGED depositVars
          /\ update(id, Written(<<"flag_sent", "lifted">>, n - 1),
                    [flag_sent |-> None, lifted |-> TRUE])
    BY <1>2 DEF lift
  <2>2. Reflagged({id})
    <3>1. CASE n > 0
      BY <2>1, <3>1, UnflagEffect DEF Types
    <3>2. CASE ~ (n > 0)
      BY <2>1, <3>2 DEF depositVars, Reflagged, ChainType
    <3>3. QED BY <3>1, <3>2
  <2>3. ChecksKept /\ table' \in [1 .. MaxDeposits -> Row]
    <3>1. Written(<<"flag_sent", "lifted">>, n - 1) \subseteq {"flag_sent", "lifted"}
      BY FlagColumns
    <3> DEFINE set == [flag_sent |-> None, lifted |-> TRUE]
    <3>2. Fits(Written(<<"flag_sent", "lifted">>, n - 1), set)
      BY <3>1 DEF Fits
    <3>3. update(id, Written(<<"flag_sent", "lifted">>, n - 1), set)
      BY <2>1
    <3> HIDE DEF set
    <3>4. QED BY <3>1, <3>2, <3>3, UpdateKeeps
  <2>4. faults' \in Nat
    BY <2>1, EndsType DEF GhostsType
  <2>5. QED BY <2>2, <2>3, <2>4
<1>3. QED BY <1>1, <1>2

----------------------------------------------------------------------------
\* What a row read from the tables says.
LEMMA JoinRow ==
  ASSUME NEW r \in Row, NEW d \in Seen
  PROVE  /\ Join(r, d) \in ReadRow
         /\ Join(r, d).delay = r.delay /\ Join(r, d).first_check = r.first_check
         /\ Join(r, d).findings = r.findings /\ Join(r, d).review = r.review
         /\ Join(r, d).recheck = r.recheck /\ Join(r, d).recheck_at = r.recheck_at
         /\ Join(r, d).flag_sent = r.flag_sent /\ Join(r, d).lifted = r.lifted
         /\ Join(r, d).eligible_at = d.eligible_at /\ Join(r, d).flag = d.flag
         /\ ~ Join(r, d).needs_flag
<1>1. Join(r, d) \in ReadRow
  <2>1. /\ r.delay \in BOOLEAN /\ r.first_check \in {"", "done", "refuse"}
        /\ r.findings \in SUBSET Findings /\ r.review \in {"", "needed", "cleared", "refused"}
        /\ r.recheck \in {"", "pass", "refuse"} /\ r.recheck_at \in Nat \cup {Never}
        /\ r.flag_sent \in {None, Held, Refused} /\ r.lifted \in BOOLEAN
    BY DEF Row
  <2>2. d.eligible_at \in Nat /\ d.flag \in {None, Held, Refused}
    BY DEF Seen
  <2> DEFINE F == {"", "done", "refuse"}
             V == {"", "needed", "cleared", "refused"}
             C == {"", "pass", "refuse"}
             W == Nat \cup {Never}
             G == {None, Held, Refused}
             S == SUBSET Findings
  <2>3. ReadRow = [delay : BOOLEAN, first_check : F, findings : S, review : V, recheck : C,
                   recheck_at : W, flag_sent : G, lifted : BOOLEAN, eligible_at : Nat,
                   flag : G, needs_flag : BOOLEAN]
    BY DEF ReadRow
  <2>4. r.first_check \in F /\ r.findings \in S /\ r.review \in V /\ r.recheck \in C
        /\ r.recheck_at \in W /\ r.flag_sent \in G /\ d.flag \in G
    BY <2>1, <2>2
  <2> HIDE DEF F, V, C, W, G, S
  <2>5. QED BY <2>1, <2>2, <2>3, <2>4 DEF Join
<1>2. QED BY <1>1 DEF Join

\* Rows are read for the deposits that the replay knows, from their tables.
LEMMA ReadRows ==
  ASSUME TablesType, ChainType, NEW tbl \in [1 .. MaxDeposits -> Row]
  PROVE  /\ RowsOf(tbl) \in [DOMAIN seen -> ReadRow]
         /\ \A id \in DOMAIN seen : id \in 1 .. MaxDeposits /\ tbl[id] \in Row /\ seen[id] \in Seen
                                    /\ RowsOf(tbl)[id] = Join(tbl[id], seen[id])
<1>1. \A id \in DOMAIN seen : id \in 1 .. MaxDeposits /\ tbl[id] \in Row /\ seen[id] \in Seen
  BY IdsBounded DEF TablesType
<1>2. ASSUME NEW id \in DOMAIN seen
      PROVE  Join(tbl[id], seen[id]) \in ReadRow
  <2>1. tbl[id] \in Row /\ seen[id] \in Seen
    BY <1>1
  <2> HIDE DEF Row, Seen, ReadRow
  <2>2. QED BY <2>1, JoinRow
<1>3. QED BY <1>1, <1>2 DEF RowsOf

\* A row just read is backed as its table is: a pass too old to be backed is not
\* fresh to the round.
LEMMA RowJustRead ==
  ASSUME Types', TablesBacked', pc' # "idle",
         NEW id \in (DOMAIN seen \cap DOMAIN pending)', rows'[id] = Join(table'[id], seen'[id])
  PROVE  RowBacked(id)' /\ rows'[id].eligible_at = pending'[id].eligible_at
<1>1. id \in 1 .. MaxDeposits /\ table'[id] \in Row /\ seen'[id] \in Seen
  BY ScreeningAssumptions DEF Types, ChainType, TablesType, Ids
<1>2. /\ rows'[id].delay = table'[id].delay /\ rows'[id].recheck = table'[id].recheck
      /\ rows'[id].recheck_at = table'[id].recheck_at
      /\ rows'[id].eligible_at = seen'[id].eligible_at
  BY <1>1, JoinRow
<1>3. seen'[id].eligible_at = pending'[id].eligible_at /\ Backed(id)'
  BY DEF TablesBacked
<1>4. table'[id].recheck_at \in Nat \cup {Never} /\ view'.now \in Nat
  BY <1>1 DEF Row, Types, RoundType
<1>5. QED BY <1>2, <1>3, <1>4, ScreeningAssumptions
          DEF Backed, Horizon, RowBacked, freshPass, fresh, Never

\* Beginning a round reads the delays, then plans and keeps the rows to flag.
LEMMA BeginKeeps ==
  ASSUME ScreeningInv, begin
  PROVE  ScreeningInv'
<1> USE DEF ScreeningInv
<1>1. /\ pc = "idle" /\ pc' = "flags" /\ checks' = {}
      /\ view' = [Idle EXCEPT !.now = now, !.attested = attested_up_to, !.next = next_deposit_id]
      /\ table' = loadDelays
      /\ todo' = Planned(view', RowsOf(loadDelays), {"refuse", "hold"})
      /\ rows' = Restrict(RowsOf(loadDelays), todo')
      /\ UNCHANGED <<depositVars, seen, ops, reported, backoff, faults, ghosts>>
  BY DEF begin
<1>2. /\ view' \in [now : Nat, attested : Nat, next : Nat, reported : SUBSET Nat]
      /\ view'.now = now /\ view'.attested = attested_up_to
  <2>1. view' = [now |-> now, attested |-> attested_up_to, next |-> next_deposit_id, reported |-> {}]
    BY <1>1 DEF Idle
  <2>2. now \in Nat /\ attested_up_to \in Nat /\ next_deposit_id \in Nat
    BY DEF Types, ChainType
  <2>3. QED BY <2>1, <2>2
<1>3. loadDelays \in [1 .. MaxDeposits -> Row] /\ ChecksKept
  <2>1. ASSUME NEW id \in 1 .. MaxDeposits
        PROVE  /\ [table[id] EXCEPT !.delay = TRUE] \in Row
               /\ [table[id] EXCEPT !.delay = TRUE].delay
               /\ [table[id] EXCEPT !.delay = TRUE].recheck = table[id].recheck
               /\ [table[id] EXCEPT !.delay = TRUE].recheck_at = table[id].recheck_at
    <3>1. table[id] \in Row
      BY DEF Types, TablesType
    <3>2. QED BY <3>1 DEF Row
  <2>2. DOMAIN table = 1 .. MaxDeposits /\ \A id \in 1 .. MaxDeposits : table[id] \in Row
    BY DEF Types, TablesType
  <2>3. loadDelays \in [1 .. MaxDeposits -> Row]
    BY <2>1, <2>2 DEF loadDelays
  <2>4. QED BY <2>1, <2>2, <2>3, <1>1 DEF loadDelays, ChecksKept, CheckKept
<1>4. /\ RowsOf(loadDelays) \in [DOMAIN seen -> ReadRow]
      /\ \A id \in DOMAIN seen : RowsOf(loadDelays)[id] = Join(table'[id], seen'[id])
  BY <1>1, <1>3, ReadRows DEF Types
<1>5. /\ todo' \subseteq DOMAIN seen /\ DOMAIN rows' = todo'
      /\ rows' \in [DOMAIN rows' -> ReadRow]
      /\ \A id \in DOMAIN rows' : id \in DOMAIN seen' /\ rows'[id] = Join(table'[id], seen'[id])
  BY <1>1, <1>4 DEF Planned, Restrict
<1>6. Types'
  BY <1>1, <1>2, <1>3, <1>5 DEF Types, ChainType, TablesType, RoundType, GhostsType, depositVars, ghosts, Ids
<1>7. ViewOK'
  BY <1>1, <1>2 DEF ViewOK, depositVars, Types, ChainType
<1>8. TablesBacked'
  <2>1. DepositsKept
    BY <1>1 DEF DepositsKept, depositVars
  <2>2. Horizon = now /\ Horizon' = now /\ now \in Nat
    BY <1>1, <1>2 DEF Horizon, Types, ChainType
  <2>3. QED BY <1>1, <1>3, <2>1, <2>2, TablesBackedKept DEF ghosts
<1>9. RowsBacked'
  BY <1>1, <1>5, <1>6, <1>8, RowJustRead DEF RowsBacked
<1>10. ReportsSettled'
  BY <1>1 DEF ReportsSettled
<1>11. Cleared'
  BY <1>1 DEF Cleared, depositVars, ghosts
<1>12. QED BY <1>6, <1>7, <1>8, <1>9, <1>10, <1>11

----------------------------------------------------------------------------
\* What a plan says of its row.
LEMMA PlanLift ==
  ASSUME NEW v, NEW id, NEW r, plan(v, id, r) = "lift"
  PROVE  freshPass(v.now, r)
BY DEF plan

\* A reported deposit is neither held, lifted nor checked again.
LEMMA PlanReported ==
  ASSUME NEW v, NEW id \in reported, NEW r
  PROVE  /\ plan(v, id, r) \in {"none", "refuse"}
         /\ r.delay /\ reason(r) = None => plan(v, id, r) = "refuse"
BY DEF plan, Refusing, None, Refused

\* A row that counts as flagged with something else.
Marked(r, why) == [r EXCEPT !.flag_sent = why, !.lifted = (why = None)]

\* Marking a row changes what it counts as flagged with.
LEMMA MarkRow ==
  ASSUME NEW r \in ReadRow, NEW why \in {None, Held, Refused}
  PROVE  LET w == Marked(r, why)
             n == [r EXCEPT !.needs_flag = TRUE]
         IN /\ w \in ReadRow /\ n \in ReadRow
            /\ w.delay = r.delay /\ w.first_check = r.first_check /\ w.recheck = r.recheck
            /\ w.recheck_at = r.recheck_at /\ w.eligible_at = r.eligible_at
            /\ w.flag_sent = why /\ w.needs_flag = r.needs_flag
            /\ n.delay = r.delay /\ n.first_check = r.first_check /\ n.recheck = r.recheck
            /\ n.recheck_at = r.recheck_at /\ n.eligible_at = r.eligible_at /\ n.needs_flag
<1> DEFINE F == {"", "done", "refuse"}
           V == {"", "needed", "cleared", "refused"}
           C == {"", "pass", "refuse"}
           W == Nat \cup {Never}
           G == {None, Held, Refused}
           S == SUBSET Findings
<1>1. ReadRow = [delay : BOOLEAN, first_check : F, findings : S, review : V, recheck : C,
                 recheck_at : W, flag_sent : G, lifted : BOOLEAN, eligible_at : Nat,
                 flag : G, needs_flag : BOOLEAN]
  BY DEF ReadRow
<1>2. why \in G
  OBVIOUS
<1> HIDE DEF F, V, C, W, G, S
<1>3. QED BY <1>1, <1>2 DEF Marked

\* Marking a row leaves what was read of its checks.
LEMMA MarkKeeps ==
  ASSUME RoundType, NEW id \in DOMAIN rows, NEW why \in {None, Held, Refused}, rows' = Mark(id, why)
  PROVE  /\ RowsKept /\ \A j \in DOMAIN rows : j # id => rows'[j] = rows[j]
         /\ rows'[id].flag_sent = why /\ rows'[id].needs_flag = rows[id].needs_flag
<1> DEFINE w == Marked(rows[id], why)
<1>1. rows[id] \in ReadRow /\ rows \in [DOMAIN rows -> ReadRow]
  BY DEF RoundType
<1>2. rows' = [rows EXCEPT ![id] = w]
  BY DEF Mark, Marked
<1>3. /\ w \in ReadRow
      /\ w.delay = rows[id].delay /\ w.first_check = rows[id].first_check
      /\ w.recheck = rows[id].recheck
      /\ w.recheck_at = rows[id].recheck_at /\ w.eligible_at = rows[id].eligible_at
      /\ w.flag_sent = why /\ w.needs_flag = rows[id].needs_flag
  BY <1>1, MarkRow
<1> HIDE DEF w
<1>4. QED BY <1>1, <1>2, <1>3 DEF RowsKept

\* So does recording that its flag could not be sent.
LEMMA NeedsFlagKeeps ==
  ASSUME RoundType, NEW id \in DOMAIN rows, rows' = [rows EXCEPT ![id].needs_flag = TRUE]
  PROVE  /\ RowsKept /\ \A j \in DOMAIN rows : j # id => rows'[j] = rows[j]
         /\ rows'[id].needs_flag
<1> DEFINE w == [rows[id] EXCEPT !.needs_flag = TRUE]
<1>1. rows[id] \in ReadRow /\ rows \in [DOMAIN rows -> ReadRow]
  BY DEF RoundType
<1>2. rows' = [rows EXCEPT ![id] = w]
  OBVIOUS
<1>3. /\ w \in ReadRow
      /\ w.delay = rows[id].delay /\ w.first_check = rows[id].first_check
      /\ w.recheck = rows[id].recheck
      /\ w.recheck_at = rows[id].recheck_at /\ w.eligible_at = rows[id].eligible_at
      /\ w.needs_flag
  BY <1>1, MarkRow
<1> HIDE DEF w
<1>4. QED BY <1>1, <1>2, <1>3 DEF RowsKept

\* A step of the running round that changes flags, what rows count as flagged
\* with and what is still to do keeps the tables, rows and clearances.
LEMMA FlagStepKeeps ==
  ASSUME NEW U, ScreeningInv, pc # "ops", Reflagged(U), ChecksKept, RowsKept,
         \A id \in U \cap DOMAIN pending :
           vouched[id] # Never /\ vouched[id] + RecheckWindow >= pending[id].eligible_at,
         table' \in [1 .. MaxDeposits -> Row], faults' \in Nat, todo' \subseteq todo,
         UNCHANGED <<seen, ops, reported, pc, view, checks, backoff, ghosts>>
  PROVE  Types' /\ ViewOK' /\ TablesBacked' /\ RowsBacked' /\ Cleared'
<1> USE DEF ScreeningInv
<1>1. ChainType' /\ DepositsKept
  BY ChainTypeKept DEF Types
<1>2. DOMAIN rows' = DOMAIN rows /\ rows' \in [DOMAIN rows' -> ReadRow] /\ Ids' = Ids
  BY <1>1 DEF RowsKept, DepositsKept, Ids
<1>3. Types'
  BY <1>1, <1>2 DEF Types, TablesType, RoundType, GhostsType, ghosts
<1>4. ViewOK'
  BY DEF ViewOK, Reflagged
<1>5. TablesBacked'
  <2>1. Horizon \in Nat /\ Horizon' = Horizon
    BY DEF Horizon, Reflagged, Types, ChainType, RoundType
  <2>2. QED BY <2>1, <1>1, TablesBackedKept DEF ghosts
<1>6. RowsBacked'
  BY <1>1, IdsBounded, RowsBackedKept DEF ghosts, DepositsKept, ChecksKept, Types
<1>7. Cleared'
  BY ClearedKept DEF Types, ghosts
<1>8. QED BY <1>3, <1>4, <1>5, <1>6, <1>7

\* Settling a row keeps the invariant: what a lift releases is cleared.
LEMMA SettleKeeps ==
  ASSUME ScreeningInv, settle
  PROVE  ScreeningInv'
<1>1. PICK id \in todo, whole \in BOOLEAN :
        /\ todo' = todo \ {id}
        /\ \/ /\ plan(view, id, rows[id]) = "lift"
              /\ lift(id, whole)
              /\ rows' = IF whole THEN Mark(id, None) ELSE rows
           \/ \E why \in {Held, Refused} :
                /\ plan(view, id, rows[id]) = IF why = Held THEN "hold" ELSE "refuse"
                /\ Flag(id, why, whole)
                /\ rows' = IF whole THEN Mark(id, why)
                           ELSE [rows EXCEPT ![id].needs_flag = TRUE]
  BY DEF settle
<1>2. /\ pc \in {"flags", "lifts", "settle"}
      /\ UNCHANGED <<seen, ops, reported, pc, view, checks, backoff, ghosts>>
  BY DEF settle
<1>3. /\ Types /\ RoundType /\ id \in DOMAIN rows /\ id \in 1 .. MaxDeposits
      /\ todo' \subseteq todo
  BY <1>1, <1>2, IdsBounded DEF ScreeningInv, Types, RoundType
<1>4. CASE plan(view, id, rows[id]) = "lift" /\ lift(id, whole)
           /\ rows' = IF whole THEN Mark(id, None) ELSE rows
  <2>1. Reflagged({id}) /\ ChecksKept /\ table' \in [1 .. MaxDeposits -> Row] /\ faults' \in Nat
    BY <1>3, <1>4, LiftEffect
  <2>2. RowsKept /\ \A j \in DOMAIN rows : j # id => rows'[j] = rows[j]
    <3>1. CASE whole
      BY <1>3, <1>4, <3>1, MarkKeeps
    <3>2. CASE ~ whole
      BY <1>3, <1>4, <3>2 DEF RowsKept, RoundType
    <3>3. QED BY <3>1, <3>2
  <2>3. \A j \in {id} \cap DOMAIN pending :
          vouched[j] # Never /\ vouched[j] + RecheckWindow >= pending[j].eligible_at
    <3>1. SUFFICES ASSUME id \in DOMAIN pending
                   PROVE  vouched[id] # Never /\ vouched[id] + RecheckWindow >= pending[id].eligible_at
      OBVIOUS
    <3>2. RowBacked(id) /\ freshPass(view.now, rows[id])
      BY <1>1, <1>2, <1>3, <1>4, <3>1, PlanLift DEF ScreeningInv, RowsBacked
    <3>3. rows[id].recheck_at \in Nat /\ vouched[id] \in Nat \cup {Never}
          /\ pending[id].eligible_at \in Nat
      BY <1>3, <3>1, <3>2 DEF freshPass, fresh, RoundType, ReadRow, Types, GhostsType, ChainType, Deposit
    <3>4. QED BY <3>2, <3>3, ScreeningAssumptions DEF RowBacked, Never
  <2>4. Types' /\ ViewOK' /\ TablesBacked' /\ RowsBacked' /\ Cleared'
    BY <1>2, <1>3, <2>1, <2>2, <2>3, FlagStepKeeps
  <2>5. ReportsSettled'
    <3>1. pc = "settle" => id \notin view.reported
      BY <1>4, PlanReported DEF ScreeningInv, ReportsSettled
    <3>2. QED BY <1>1, <1>2, <2>2, <3>1 DEF ScreeningInv, ReportsSettled, RowsKept, reason
  <2>6. QED BY <2>4, <2>5 DEF ScreeningInv
<1>5. ASSUME NEW why \in {Held, Refused},
             plan(view, id, rows[id]) = IF why = Held THEN "hold" ELSE "refuse",
             Flag(id, why, whole),
             rows' = IF whole THEN Mark(id, why) ELSE [rows EXCEPT ![id].needs_flag = TRUE]
      PROVE  ScreeningInv'
  <2>1. Reflagged({}) /\ ChecksKept /\ table' \in [1 .. MaxDeposits -> Row] /\ faults' \in Nat
    BY <1>3, <1>5, FlagEffect
  <2>2. /\ RowsKept /\ \A j \in DOMAIN rows : j # id => rows'[j] = rows[j]
        /\ rows'[id].needs_flag \/ rows'[id].flag_sent = why
    <3>1. CASE whole
      BY <1>3, <1>5, <3>1, MarkKeeps
    <3>2. CASE ~ whole
      BY <1>3, <1>5, <3>2, NeedsFlagKeeps
    <3>3. QED BY <3>1, <3>2
  <2>3. Types' /\ ViewOK' /\ TablesBacked' /\ RowsBacked' /\ Cleared'
    BY <1>2, <1>3, <2>1, <2>2, FlagStepKeeps
  <2>4. ReportsSettled'
    <3>1. rows'[id].needs_flag \/ reason(rows'[id]) # None
      BY <2>2 DEF reason, None, Held, Refused
    <3>2. QED BY <1>1, <1>2, <2>2, <3>1 DEF ScreeningInv, ReportsSettled, RowsKept, reason
  <2>5. QED BY <2>3, <2>4 DEF ScreeningInv
<1>6. QED BY <1>1, <1>4, <1>5

----------------------------------------------------------------------------
\* A step that leaves chain, checks and history alone and whose round, if one
\* runs, counts from no earlier keeps tables and clearances.
LEMMA TablesStand ==
  ASSUME ScreeningInv, UNCHANGED <<depositVars, seen, vouched>>, ChecksKept,
         Horizon' \in Nat, Horizon =< Horizon'
  PROVE  ChainType' /\ Ids' = Ids /\ TablesBacked' /\ Cleared' /\ DepositsKept
<1> USE DEF ScreeningInv
<1>1. DepositsKept /\ ChainType' /\ Cleared' /\ Ids' = Ids
  BY DEF DepositsKept, depositVars, Types, ChainType, Ids, Cleared
<1>2. Horizon \in Nat
  BY DEF Horizon, Types, ChainType, RoundType
<1>3. QED BY <1>1, <1>2, TablesBackedKept

\* Orders are carried out without rows.
LEMMA StartOpsKeeps ==
  ASSUME ScreeningInv, startOps
  PROVE  ScreeningInv'
<1> USE DEF ScreeningInv
<1>1. /\ pc = "flags" /\ pc' = "ops" /\ todo' = ops /\ rows' = <<>>
      /\ UNCHANGED <<depositVars, dbVars, view, checks, backoff, faults, ghosts>>
  BY DEF startOps
<1>2. DOMAIN rows' = {} /\ rows' \in [DOMAIN rows' -> ReadRow] /\ checks = {}
  BY <1>1 DEF Types, RoundType
<1>3. ChecksKept /\ Horizon' \in Nat /\ Horizon =< Horizon'
  BY <1>1 DEF ChecksKept, CheckKept, dbVars, Horizon, Types, RoundType
<1>4. ChainType' /\ Ids' = Ids /\ TablesBacked' /\ Cleared'
  BY <1>1, <1>3, TablesStand DEF dbVars, ghosts
<1>5. Types'
  BY <1>1, <1>2, <1>4 DEF Types, TablesType, RoundType, GhostsType, dbVars, ghosts
<1>6. ViewOK' /\ RowsBacked' /\ ReportsSettled'
  BY <1>1, <1>2 DEF ViewOK, RowsBacked, ReportsSettled, depositVars
<1>7. QED BY <1>4, <1>5, <1>6

\* The rows read for lifts and checks are backed by the tables.
LEMMA StartLiftsKeeps ==
  ASSUME ScreeningInv, startLifts
  PROVE  ScreeningInv'
<1> USE DEF ScreeningInv
<1>1. /\ pc = "ops" /\ pc' = "lifts"
      /\ todo' = Planned(view, pendingRows, {"lift"})
      /\ checks' = Planned(view, pendingRows, {"first", "recheck"}) \ backoff
      /\ rows' = Restrict(pendingRows, todo' \cup checks')
      /\ UNCHANGED <<depositVars, dbVars, view, backoff, faults, ghosts>>
  BY DEF startLifts
<1>2. ChecksKept /\ Horizon' \in Nat /\ Horizon =< Horizon'
  BY <1>1 DEF ChecksKept, CheckKept, dbVars, Horizon, Types, RoundType
<1>3. ChainType' /\ Ids' = Ids /\ TablesBacked' /\ Cleared'
  BY <1>1, <1>2, TablesStand DEF dbVars, ghosts
<1>4. /\ pendingRows \in [DOMAIN seen -> ReadRow]
      /\ \A id \in DOMAIN seen : /\ id \in 1 .. MaxDeposits /\ table[id] \in Row /\ seen[id] \in Seen
                                 /\ pendingRows[id] = Join(table[id], seen[id])
  BY ReadRows DEF Types, TablesType, pendingRows
<1>5. /\ todo' \subseteq DOMAIN seen /\ checks' \subseteq DOMAIN seen
      /\ DOMAIN rows' = todo' \cup checks' /\ rows' \in [DOMAIN rows' -> ReadRow]
      /\ \A id \in DOMAIN rows' : /\ id \in DOMAIN seen' /\ rows'[id] = pendingRows[id]
                                  /\ rows'[id] = Join(table'[id], seen'[id])
  BY <1>1, <1>4 DEF Planned, Restrict, dbVars
<1>6. Types'
  BY <1>1, <1>3, <1>5 DEF Types, TablesType, RoundType, GhostsType, dbVars, ghosts
<1>7. ViewOK' /\ ReportsSettled'
  BY <1>1 DEF ViewOK, ReportsSettled, depositVars
<1>8. RowsBacked'
  <2>1. \A id \in (DOMAIN rows \cap DOMAIN pending)' :
          RowBacked(id)' /\ rows'[id].eligible_at = pending'[id].eligible_at
    BY <1>1, <1>3, <1>5, <1>6, RowJustRead
  <2>2. ASSUME NEW id \in checks'
        PROVE  CheckPlanned(id)'
    <3>1. id \in DOMAIN seen /\ rows'[id] = pendingRows[id]
          /\ rows'[id] = Join(table[id], seen[id]) /\ table'[id] = table[id]
      BY <1>1, <1>5 DEF dbVars
    <3>2. rows'[id].delay /\ (rows'[id].first_check # "" => inRecheck(view.now, rows'[id]))
      <4>1. plan(view, id, rows'[id]) \in {"first", "recheck"}
        BY <1>1, <3>1 DEF Planned
      <4>2. QED BY <4>1 DEF plan
    <3>3. /\ rows'[id].delay = table[id].delay /\ rows'[id].recheck = table[id].recheck
          /\ rows'[id].recheck_at = table[id].recheck_at
      BY <1>4, <3>1, JoinRow
    <3>4. QED BY <1>1, <3>1, <3>2, <3>3 DEF CheckPlanned, inRecheck
  <2>3. QED BY <2>1, <2>2 DEF RowsBacked
<1>9. QED BY <1>3, <1>6, <1>7, <1>8

\* So are the rows read for the attestation, and whoever was reported is planned.
LEMMA StartSettleKeeps ==
  ASSUME ScreeningInv, startSettle
  PROVE  ScreeningInv'
<1> USE DEF ScreeningInv
<1>1. /\ pc = "lifts" /\ pc' = "settle" /\ rows' = pendingRows
      /\ todo' = Planned(view, rows', {"refuse", "hold", "lift"})
      /\ checks' = {}
      /\ view' = [view EXCEPT !.reported = reported]
      /\ UNCHANGED <<depositVars, dbVars, backoff, faults, ghosts>>
  BY DEF startSettle
<1>2. /\ view' \in [now : Nat, attested : Nat, next : Nat, reported : SUBSET Nat]
      /\ view'.now = view.now /\ view'.attested = view.attested /\ view'.reported = reported
  BY <1>1, IdsBounded DEF Types, RoundType, TablesType
<1>3. ChecksKept /\ Horizon' \in Nat /\ Horizon =< Horizon'
  BY <1>1, <1>2 DEF ChecksKept, CheckKept, dbVars, Horizon, Types, RoundType
<1>4. ChainType' /\ Ids' = Ids /\ TablesBacked' /\ Cleared'
  BY <1>1, <1>3, TablesStand DEF dbVars, ghosts
<1>5. /\ rows' \in [DOMAIN seen -> ReadRow]
      /\ \A id \in DOMAIN seen : rows'[id] = Join(table[id], seen[id])
  BY <1>1, ReadRows DEF Types, TablesType, pendingRows
<1>6. Types'
  BY <1>1, <1>2, <1>4, <1>5 DEF Types, TablesType, RoundType, GhostsType, dbVars, ghosts, Planned
<1>7. ViewOK'
  BY <1>1, <1>2 DEF ViewOK, depositVars
<1>8. RowsBacked'
  <2>1. \A id \in (DOMAIN rows \cap DOMAIN pending)' :
          RowBacked(id)' /\ rows'[id].eligible_at = pending'[id].eligible_at
    <3>1. \A id \in DOMAIN rows' : id \in DOMAIN seen' /\ rows'[id] = Join(table'[id], seen'[id])
      BY <1>1, <1>5 DEF dbVars
    <3>2. QED BY <3>1, <1>1, <1>4, <1>6, RowJustRead
  <2>2. QED BY <2>1, <1>1 DEF RowsBacked
<1>9. ReportsSettled'
  <2>1. ASSUME NEW id \in DOMAIN rows', id \in reported, rows'[id].delay
        PROVE  id \in todo' \/ reason(rows'[id]) # None
    BY <1>1, <2>1, PlanReported DEF Planned
  <2>2. QED BY <2>1, <1>1, <1>2 DEF ReportsSettled, dbVars, reason
<1>10. QED BY <1>4, <1>6, <1>7, <1>8, <1>9

\* The rest of a round's end, where nothing was attested.
LEMMA EndKeeps ==
  ASSUME ScreeningInv, endRound, UNCHANGED <<depositVars, dbVars, ghosts>>,
         backoff' \subseteq backoff, faults' \in Nat
  PROVE  ScreeningInv'
<1> USE DEF ScreeningInv
<1>1. /\ RowsBacked' /\ ReportsSettled'
      /\ view' \in [now : Nat, attested : Nat, next : Nat, reported : SUBSET Nat]
      /\ rows' \in [DOMAIN rows' -> ReadRow] /\ DOMAIN rows' = {}
      /\ pc' = "idle" /\ todo' = {} /\ checks' = {}
  BY RoundEnds
<1>2. ChecksKept /\ Horizon' \in Nat /\ Horizon =< Horizon'
  BY <1>1 DEF ChecksKept, CheckKept, dbVars, depositVars, Horizon, Types, RoundType, ChainType, ViewOK
<1>3. ChainType' /\ Ids' = Ids /\ TablesBacked' /\ Cleared'
  BY <1>2, TablesStand DEF dbVars, ghosts
<1>4. Types' /\ ViewOK'
  BY <1>1, <1>3 DEF Types, TablesType, RoundType, GhostsType, dbVars, ghosts, ViewOK
<1>5. QED BY <1>1, <1>3, <1>4

\* A round may end without an attestation.
LEMMA EndWithoutKeeps ==
  ASSUME ScreeningInv, endWithout
  PROVE  ScreeningInv'
BY EndKeeps DEF endWithout, ScreeningInv, Types, GhostsType

\* A crash forgets rows and backoffs only.
LEMMA CrashKeeps ==
  ASSUME ScreeningInv, crash
  PROVE  ScreeningInv'
BY EndKeeps DEF crash, ScreeningInv, Types, GhostsType

----------------------------------------------------------------------------
\* A hold on the way to an attestation keeps the invariant.
LEMMA HoldKeeps ==
  ASSUME ScreeningInv, hold
  PROVE  ScreeningInv'
<1>1. PICK id \in Holds, whole \in BOOLEAN :
        /\ Flag(id, Held, whole)
        /\ IF whole THEN rows' = Mark(id, Held) /\ UNCHANGED <<pc, view, todo, checks>>
                    ELSE endRound
  BY DEF hold
<1>2. pc = "settle" /\ todo = {} /\ UNCHANGED <<seen, ops, reported, backoff, ghosts>>
  BY DEF hold
<1>3. Types /\ RoundType /\ id \in DOMAIN rows /\ id \in 1 .. MaxDeposits
  BY <1>1, IdsBounded DEF ScreeningInv, Types, RoundType, Holds, Candidates
<1>4. Reflagged({}) /\ ChecksKept /\ table' \in [1 .. MaxDeposits -> Row] /\ faults' \in Nat
  BY <1>1, <1>3, FlagEffect
<1>5. CASE whole
  <2>1. /\ RowsKept /\ \A j \in DOMAIN rows : j # id => rows'[j] = rows[j]
        /\ rows'[id].flag_sent = Held
    BY <1>1, <1>3, <1>5, MarkKeeps
  <2>2. Types' /\ ViewOK' /\ TablesBacked' /\ RowsBacked' /\ Cleared'
    BY <1>1, <1>2, <1>4, <1>5, <2>1, FlagStepKeeps
  <2>3. ReportsSettled'
    <3>1. reason(rows'[id]) # None
      BY <2>1 DEF reason, None, Held
    <3>2. QED BY <1>1, <1>2, <1>5, <2>1, <3>1 DEF ScreeningInv, ReportsSettled, RowsKept, reason
  <2>4. QED BY <2>2, <2>3 DEF ScreeningInv
<1>6. CASE ~ whole
  <2>1. /\ RowsBacked' /\ ReportsSettled'
        /\ view' \in [now : Nat, attested : Nat, next : Nat, reported : SUBSET Nat]
        /\ rows' \in [DOMAIN rows' -> ReadRow] /\ DOMAIN rows' = {}
        /\ pc' = "idle" /\ todo' = {} /\ checks' = {}
    BY <1>1, <1>6, RoundEnds
  <2>2. ChainType' /\ DepositsKept /\ Ids' = Ids
    BY <1>4, ChainTypeKept DEF ScreeningInv, Types, DepositsKept, Ids
  <2>3. Horizon \in Nat /\ Horizon' \in Nat /\ Horizon =< Horizon'
    BY <1>2, <1>4, <2>1 DEF Horizon, ScreeningInv, ViewOK, Types, RoundType, ChainType, Reflagged
  <2>4. TablesBacked'
    BY <1>2, <1>3, <1>4, <2>2, <2>3, TablesBackedKept DEF ScreeningInv, ghosts
  <2>5. Cleared'
    BY <1>2, <1>4, ClearedKept DEF ScreeningInv, Types, ghosts
  <2>6. Types' /\ ViewOK'
    BY <1>2, <1>3, <1>4, <2>1, <2>2 DEF Types, TablesType, RoundType, GhostsType, ghosts, ViewOK
  <2>7. QED BY <2>1, <2>4, <2>5, <2>6 DEF ScreeningInv
<1>7. QED BY <1>5, <1>6

\* A row that an attestation covers without a flag passed lately.
LEMMA AttestedRowsBacked ==
  ASSUME ScreeningInv, pc = "settle", chainAgrees,
         NEW id \in DOMAIN pending, pending[id].flag = 0,
         attested_up_to < id, id =< attestCandidate, attestCandidate \in Int
  PROVE  /\ id \in DOMAIN rows /\ freshPass(view.now, rows[id]) /\ rows[id].delay
         /\ rows[id].recheck_at \in Nat /\ rows[id].recheck_at =< vouched[id]
         /\ vouched[id] \in Nat
         /\ vouched[id] + RecheckWindow >= pending[id].eligible_at
         /\ view.now =< vouched[id] + RecheckWindow
<1> USE DEF ScreeningInv
<1>1. id \in 1 .. MaxDeposits /\ view.attested = attested_up_to /\ view.attested \in Nat
  BY IdsBounded DEF Types, ChainType, ViewOK
<1>2. id \in view.attested + 1 .. attestCandidate
  <2> HIDE DEF attestCandidate
  <2> QED BY <1>1
<1>3. id \in DOMAIN rows /\ freshPass(view.now, rows[id])
  <2> HIDE DEF attestCandidate
  <2> QED BY <1>2 DEF chainAgrees
<1>4. RowBacked(id)
  BY <1>3 DEF RowsBacked
<1>5. /\ rows[id].recheck_at \in Nat /\ vouched[id] \in Nat \cup {Never}
      /\ pending[id].eligible_at \in Nat /\ view.now \in Nat
  BY <1>1, <1>3 DEF freshPass, fresh, RoundType, ReadRow, Types, GhostsType, ChainType, Deposit
<1>6. QED BY <1>3, <1>4, <1>5, ScreeningAssumptions DEF RowBacked, freshPass, fresh, Never

\* An attestation clears what it covers.
LEMMA AttestRoundKeeps ==
  ASSUME ScreeningInv, attestRound
  PROVE  ScreeningInv'
<1> USE DEF ScreeningInv
<1>1. /\ pc = "settle" /\ chainAgrees /\ endRound
      /\ attestCandidate \in Nat /\ attestCandidate < next_deposit_id
      /\ attested_up_to' = attestCandidate /\ attested_up_to < attestCandidate
      /\ UNCHANGED <<now, next_deposit_id, pending, inserted>>
      /\ UNCHANGED <<dbVars, backoff, faults, ghosts>>
  <2> HIDE DEF attestCandidate
  <2> QED BY DEF attestRound, attest, Types, RoundType
<1>2. /\ RowsBacked' /\ ReportsSettled'
      /\ view' \in [now : Nat, attested : Nat, next : Nat, reported : SUBSET Nat]
      /\ rows' \in [DOMAIN rows' -> ReadRow] /\ DOMAIN rows' = {}
      /\ pc' = "idle" /\ todo' = {} /\ checks' = {}
  BY <1>1, RoundEnds
<1>3. ChainType' /\ DepositsKept /\ Ids' = Ids
  BY <1>1 DEF Types, ChainType, DepositsKept, Ids
<1>4. ChecksKept /\ Horizon \in Nat /\ Horizon' \in Nat /\ Horizon =< Horizon'
  BY <1>1, <1>2 DEF ChecksKept, CheckKept, dbVars, Horizon, ViewOK, Types, RoundType, ChainType
<1>5. TablesBacked'
  BY <1>1, <1>3, <1>4, TablesBackedKept DEF dbVars, ghosts
<1>6. Types' /\ ViewOK'
  BY <1>1, <1>2, <1>3 DEF Types, TablesType, RoundType, GhostsType, dbVars, ghosts, ViewOK
<1>7. Cleared'
  <2>1. SUFFICES ASSUME NEW id \in DOMAIN pending, pending[id].flag = None, id =< attestCandidate
                 PROVE  vouched[id] # Never /\ vouched[id] + RecheckWindow >= pending[id].eligible_at
    <3> HIDE DEF attestCandidate
    <3> QED BY <1>1 DEF Cleared, ghosts
  <2>2. CASE id =< attested_up_to
    BY <2>1, <2>2 DEF Cleared
  <2>3. CASE ~ (id =< attested_up_to)
    <3>1. attested_up_to < id
      BY <2>3, IdsBounded DEF Types, ChainType
    <3>2. vouched[id] \in Nat /\ vouched[id] + RecheckWindow >= pending[id].eligible_at
      <4> HIDE DEF attestCandidate
      <4>1. attestCandidate \in Int /\ pending[id].flag = 0
        BY <1>1, <2>1 DEF None
      <4>2. QED BY <1>1, <2>1, <3>1, <4>1, AttestedRowsBacked
    <3>3. QED BY <3>2 DEF Never
  <2>4. QED BY <2>2, <2>3
<1>8. QED BY <1>2, <1>5, <1>6, <1>7

----------------------------------------------------------------------------
\* The other actors.  Rounds only read what they write.
LEMMA ReportsStand ==
  ASSUME ReportsSettled, UNCHANGED <<pc, view, rows, todo>>, reported \subseteq reported'
  PROVE  ReportsSettled'
BY DEF ReportsSettled, reason

\* A step beside the round that leaves checks alone keeps the invariant.
LEMMA BesideRound ==
  ASSUME ScreeningInv, UNCHANGED <<depositVars, seen, roundVars, faults, vouched, passedOver>>,
         ChecksKept, table' \in [1 .. MaxDeposits -> Row], ops' \subseteq Ops,
         reported \subseteq reported', reported' \subseteq Ids, backoff' \subseteq Ids,
         reviewed' \in [1 .. MaxDeposits -> SUBSET Findings]
  PROVE  ScreeningInv'
<1> USE DEF ScreeningInv
<1>1. Horizon' \in Nat /\ Horizon =< Horizon'
  BY DEF Horizon, roundVars, depositVars, Types, RoundType, ChainType
<1>2. ChainType' /\ Ids' = Ids /\ TablesBacked' /\ Cleared' /\ DepositsKept
  BY <1>1, TablesStand
<1>3. Types' /\ ViewOK'
  BY <1>2 DEF Types, TablesType, RoundType, GhostsType, roundVars, depositVars, ViewOK
<1>4. RowsBacked'
  <2>1. RowsKept
    BY DEF RowsKept, roundVars, Types, RoundType
  <2>2. UNCHANGED <<pc, view, checks, todo>> /\ vouched' = vouched
    BY DEF roundVars
  <2>3. QED BY <1>2, <2>1, <2>2, IdsBounded, RowsBackedKept DEF DepositsKept, ChecksKept, Types
<1>5. ReportsSettled'
  BY ReportsStand DEF roundVars
<1>6. QED BY <1>2, <1>3, <1>4, <1>5

\* A reviewer writes no column of a final check.
LEMMA DecideReviewKeeps ==
  ASSUME ScreeningInv, NEW id \in DOMAIN seen, NEW outcome \in {"cleared", "refused"},
         DecideReview(id, outcome)
  PROVE  ScreeningInv'
<1> DEFINE set == [review |-> outcome]
<1>1. /\ update(id, {"review"}, set)
      /\ reviewed' = IF outcome = "cleared"
                     THEN [reviewed EXCEPT ![id] = @ \cup table[id].findings] ELSE reviewed
      /\ UNCHANGED <<depositVars, seen, ops, reported, roundVars, backoff, faults, vouched, passedOver>>
  BY DEF DecideReview
<1>2. id \in 1 .. MaxDeposits
  BY IdsBounded DEF ScreeningInv, Types, TablesType
<1>3. Fits({"review"}, set)
  BY DEF Fits
<1> HIDE DEF set
<1>4. table' \in [1 .. MaxDeposits -> Row] /\ ChecksKept
  BY <1>1, <1>2, <1>3, UpdateKeeps DEF ScreeningInv, Types
<1>5. reviewed' \in [1 .. MaxDeposits -> SUBSET Findings]
  <2>1. table[id].findings \in SUBSET Findings
    BY <1>2 DEF ScreeningInv, Types, TablesType, Row
  <2>2. QED BY <1>1, <1>2, <2>1 DEF ScreeningInv, Types, GhostsType
<1>6. QED BY <1>1, <1>4, <1>5, BesideRound DEF ScreeningInv, Types, TablesType, RoundType

\* Orders, reports and ends of backoffs wait for the next round.
LEMMA WaitingKeeps ==
  ASSUME ScreeningInv,
         \/ \E o \in Ops : QueueOp(o)
         \/ \E id \in Ids : selfReport(id)
         \/ \E id \in backoff : dueAgain(id)
  PROVE  ScreeningInv'
<1>1. /\ UNCHANGED <<depositVars, seen, table, roundVars, faults, ghosts>>
      /\ ops' \subseteq Ops /\ reported \subseteq reported' /\ reported' \subseteq Ids
      /\ backoff' \subseteq Ids
  BY DEF QueueOp, selfReport, dueAgain, dbVars, ScreeningInv, Types, TablesType, RoundType
<1>2. ChecksKept /\ table' \in [1 .. MaxDeposits -> Row]
      /\ reviewed' \in [1 .. MaxDeposits -> SUBSET Findings]
  BY <1>1 DEF ChecksKept, CheckKept, ghosts, ScreeningInv, Types, TablesType, GhostsType
<1>3. QED BY <1>1, <1>2, BesideRound DEF ghosts

\* The follower brings what the vault says, and forgets the rows of what is gone.
LEMMA ApplyKeeps ==
  ASSUME ScreeningInv, Apply
  PROVE  ScreeningInv'
<1> USE DEF ScreeningInv
<1>1. /\ seen' = [id \in DOMAIN pending |-> [eligible_at |-> pending[id].eligible_at,
                                             flag |-> pending[id].flag]]
      /\ table' = [id \in DOMAIN table |->
                     IF id \in DOMAIN seen \ DOMAIN pending THEN NewRow ELSE table[id]]
      /\ UNCHANGED <<depositVars, ops, reported, roundVars, backoff, faults, ghosts>>
  BY DEF Apply
<1>2. ChainType' /\ Cleared' /\ Ids' = Ids /\ Ids \subseteq 1 .. MaxDeposits
  BY <1>1, IdsBounded DEF depositVars, ghosts, Types, ChainType, Cleared, Ids
<1>3. NewRow \in Row /\ NewRow.recheck_at = Never /\ NewRow.recheck = ""
  BY DEF NewRow, Row
<1>4. table' \in [1 .. MaxDeposits -> Row]
  BY <1>1, <1>3 DEF Types, TablesType
<1>5. seen' \in [DOMAIN pending -> Seen]
  <2>1. \A id \in DOMAIN pending :
          [eligible_at |-> pending[id].eligible_at, flag |-> pending[id].flag] \in Seen
    BY DEF Types, ChainType, Deposit, Seen
  <2>2. QED BY <1>1, <2>1
<1>6. Types' /\ ViewOK'
  BY <1>1, <1>2, <1>4, <1>5 DEF Types, ChainType, TablesType, RoundType, GhostsType,
     depositVars, roundVars, ghosts, ViewOK
<1>7. \A id \in DOMAIN pending : table'[id] = table[id] /\ id \in 1 .. MaxDeposits
  BY <1>1, <1>2 DEF Types, ChainType, TablesType
<1>8. TablesBacked'
  <2>1. ASSUME NEW id \in 1 .. MaxDeposits
        PROVE  /\ table'[id].recheck_at =< now'
               /\ id >= next_deposit_id' => table'[id].recheck_at = Never /\ table'[id].recheck = ""
    <3>1. table'[id] = IF id \in DOMAIN seen \ DOMAIN pending THEN NewRow ELSE table[id]
      BY <1>1 DEF Types, TablesType
    <3>2. Never =< now
      BY DEF Types, ChainType, Never
    <3>3. QED BY <1>1, <1>3, <3>1, <3>2 DEF TablesBacked, depositVars
  <2>2. \A id \in (DOMAIN seen \cap DOMAIN pending)' : seen'[id].eligible_at = pending'[id].eligible_at
    BY <1>1 DEF depositVars
  <2>3. ASSUME NEW id \in DOMAIN pending'
        PROVE  Backed(id)'
    <3>1. id \in DOMAIN pending /\ table'[id] = table[id] /\ Backed(id)
      BY <1>1, <1>7 DEF depositVars, TablesBacked
    <3>2. Horizon' = Horizon
      BY <1>1 DEF Horizon, depositVars, roundVars
    <3>3. QED BY <1>1, <3>1, <3>2 DEF Backed, depositVars, ghosts
  <2>4. QED BY <2>1, <2>2, <2>3 DEF TablesBacked
<1>9. RowsBacked'
  <2>1. RowsKept /\ UNCHANGED <<pc, view, checks, todo>> /\ vouched' = vouched /\ pending' = pending
    BY <1>1 DEF RowsKept, roundVars, ghosts, depositVars, Types, RoundType
  <2>2. \A id \in DOMAIN pending : CheckKept(id)
    BY <1>7 DEF CheckKept
  <2>3. QED BY <2>1, <2>2, RowsBackedKept
<1>10. ReportsSettled'
  BY <1>1, ReportsStand DEF roundVars
<1>11. QED BY <1>2, <1>6, <1>8, <1>9, <1>10

----------------------------------------------------------------------------
\* Anyone's calls of the vault: time passes, deposits come under new IDs and go.
VaultMoves ==
  /\ ChainType' /\ now =< now' /\ next_deposit_id =< next_deposit_id'
  /\ attested_up_to' = attested_up_to
  /\ \A id \in DOMAIN pending' :
       \/ id \in DOMAIN pending /\ pending'[id] = pending[id]
       \/ id = next_deposit_id

\* Others' calls of the vault change no deposit that stays pending.
LEMMA CallsMove ==
  ASSUME ChainType,
         \/ passTime
         \/ \E d \in Delays : now + d =< MaxTime /\ shield(d)
         \/ \E ids \in SUBSET Admissible : admit(ids)
         \/ \E id \in DOMAIN pending : refund(id)
  PROVE  VaultMoves
<1>1. CASE passTime
  BY <1>1 DEF passTime, ChainType, VaultMoves, Ids
<1>2. ASSUME NEW d \in Delays, shield(d)
      PROVE  VaultMoves
  <2> DEFINE new == [eligible_at |-> now + d, flag |-> 0, flagged_at |-> 0]
  <2>1. /\ next_deposit_id =< MaxDeposits
        /\ pending' = [i \in DOMAIN pending \cup {next_deposit_id} |->
                         IF i = next_deposit_id THEN new ELSE pending[i]]
        /\ next_deposit_id' = next_deposit_id + 1
        /\ UNCHANGED <<now, attested_up_to, inserted>>
    BY <1>2 DEF shield
  <2>2. new \in Deposit
    BY ScreeningAssumptions DEF ChainType, Deposit, None
  <2> HIDE DEF new
  <2>3. DOMAIN pending' \subseteq Ids' /\ next_deposit_id' \in 1 .. MaxDeposits + 1
    BY <2>1, ScreeningAssumptions DEF ChainType, Ids
  <2>4. pending' \in [DOMAIN pending' -> Deposit]
    BY <2>1, <2>2 DEF ChainType
  <2>5. QED BY <2>1, <2>3, <2>4, ScreeningAssumptions DEF ChainType, VaultMoves
<1>3. ASSUME NEW S, pending' = Without(pending, S), inserted' \in Nat,
             UNCHANGED <<now, next_deposit_id, attested_up_to>>
      PROVE  VaultMoves
  <2>1. DOMAIN pending' \subseteq DOMAIN pending /\ \A id \in DOMAIN pending' : pending'[id] = pending[id]
    BY <1>3 DEF Without
  <2>2. pending' \in [DOMAIN pending' -> Deposit]
    BY <1>3, <2>1 DEF Without, ChainType
  <2>3. QED BY <1>3, <2>1, <2>2 DEF ChainType, VaultMoves, Ids
<1>4. ASSUME NEW ids \in SUBSET Admissible, admit(ids)
      PROVE  VaultMoves
  <2>1. IsFiniteSet(Ids)
    <3>1. 1 \in Int /\ next_deposit_id - 1 \in Int
      BY ScreeningAssumptions DEF ChainType
    <3>2. QED BY <3>1, FS_Interval DEF Ids
  <2>2. ids \subseteq Ids
    BY DEF Admissible, ChainType
  <2>3. Cardinality(ids) \in Nat
    BY <2>1, <2>2, FS_Subset, FS_CardinalityType
  <2>4. QED BY <1>3, <1>4, <2>3 DEF admit, ChainType
<1>5. ASSUME NEW id \in DOMAIN pending, refund(id)
      PROVE  VaultMoves
  BY <1>3, <1>5 DEF refund, ChainType
<1>6. QED BY <1>1, <1>2, <1>4, <1>5

\* A call of the vault leaves passes to the deposits they were for.
LEMMA ChainStepKeeps ==
  ASSUME ScreeningInv, chainStep
  PROVE  ScreeningInv'
<1> USE DEF ScreeningInv
<1>1. /\ vouched' = [id \in DOMAIN vouched |-> IF id \in DOMAIN pending' THEN vouched[id] ELSE Never]
      /\ UNCHANGED <<dbVars, roundVars, backoff, faults, passedOver, reviewed>>
  BY DEF chainStep
<1>2. VaultMoves
  BY CallsMove DEF chainStep, Types
<1>3. Ids \subseteq Ids' /\ Ids \subseteq 1 .. MaxDeposits /\ Ids' \subseteq 1 .. MaxDeposits
  BY <1>2, IdsBounded, ScreeningAssumptions DEF VaultMoves, ChainType, Types, Ids
<1>4. Types' /\ ViewOK'
  <2>1. vouched' \in [1 .. MaxDeposits -> Nat \cup {Never}]
    BY <1>1 DEF Types, GhostsType
  <2>2. ViewOK'
    BY <1>1, <1>2 DEF ViewOK, VaultMoves, roundVars, Types, RoundType, ChainType
  <2>3. QED BY <1>1, <1>2, <1>3, <2>1, <2>2
        DEF Types, VaultMoves, TablesType, RoundType, GhostsType, dbVars, roundVars
<1>5. \A id \in DOMAIN pending' : vouched'[id] = vouched[id] /\ id \in 1 .. MaxDeposits
  BY <1>1, <1>2, <1>3 DEF Types, GhostsType, VaultMoves, ChainType
<1>6. \A id \in DOMAIN pending' \cap Ids : id \in DOMAIN pending /\ pending'[id] = pending[id]
  BY <1>2 DEF VaultMoves, Ids, Types, ChainType
<1>7. TablesBacked'
  <2>1. \A id \in 1 .. MaxDeposits : table'[id].recheck_at =< now'
    <3>1. ASSUME NEW id \in 1 .. MaxDeposits
          PROVE  table'[id].recheck_at =< now'
      <4>1. table[id].recheck_at \in Int
        <5>1. table[id] \in Row
          BY DEF Types, TablesType
        <5>2. table[id].recheck_at \in Nat \cup {Never}
          BY <5>1 DEF Row
        <5>3. QED BY <5>2 DEF Never
      <4>2. now \in Nat /\ now' \in Nat /\ now =< now' /\ table[id].recheck_at =< now /\ table' = table
        BY <1>1, <1>2 DEF TablesBacked, dbVars, VaultMoves, Types, ChainType
      <4>3. QED BY <4>1, <4>2
    <3>2. QED BY <3>1
  <2>2. \A id \in 1 .. MaxDeposits :
          id >= next_deposit_id' => table'[id].recheck_at = Never /\ table'[id].recheck = ""
    <3>1. next_deposit_id \in Int /\ next_deposit_id' \in Int /\ next_deposit_id =< next_deposit_id'
      BY <1>2, ScreeningAssumptions DEF VaultMoves, Types, ChainType
    <3>2. ASSUME NEW id \in 1 .. MaxDeposits, id >= next_deposit_id'
          PROVE  table'[id].recheck_at = Never /\ table'[id].recheck = ""
      <4>1. id >= next_deposit_id
        BY <3>1, <3>2, ScreeningAssumptions
      <4>2. QED BY <1>1, <4>1 DEF TablesBacked, dbVars
    <3>3. QED BY <3>2
  <2>3. \A id \in (DOMAIN seen \cap DOMAIN pending)' : seen'[id].eligible_at = pending'[id].eligible_at
    BY <1>1, <1>6 DEF TablesBacked, dbVars, Types, TablesType
  <2>4. ASSUME NEW id \in DOMAIN pending'
        PROVE  Backed(id)'
    <3>1. CASE id \in DOMAIN pending /\ pending'[id] = pending[id]
      <4>1. Backed(id) /\ vouched'[id] = vouched[id]
        BY <3>1, <1>5 DEF TablesBacked
      <4>2. Horizon \in Nat /\ Horizon' \in Nat /\ Horizon =< Horizon'
        BY <1>1, <1>2 DEF Horizon, roundVars, VaultMoves, Types, ChainType, RoundType
      <4>3. table[id].recheck_at \in Nat \cup {Never}
        BY <1>5 DEF Types, TablesType, Row
      <4> HIDE DEF Horizon
      <4>4. QED BY <1>1, <3>1, <4>1, <4>2, <4>3, ScreeningAssumptions DEF Backed, dbVars, Never
    <3>2. CASE id = next_deposit_id
      <4>1. table[id].recheck_at = Never /\ table[id].recheck = ""
        <5>1. id \in 1 .. MaxDeposits /\ id >= next_deposit_id
          BY <3>2, <1>5, ScreeningAssumptions DEF Types, ChainType
        <5>2. QED BY <5>1 DEF TablesBacked
      <4>2. QED BY <1>1, <4>1 DEF Backed, dbVars
    <3>3. QED BY <1>2, <3>1, <3>2 DEF VaultMoves
  <2>5. QED BY <2>1, <2>2, <2>3, <2>4 DEF TablesBacked
<1>8. RowsBacked'
  <2>1. RowsKept /\ UNCHANGED <<pc, view, checks, todo>>
    BY <1>1 DEF RowsKept, roundVars, Types, RoundType
  <2>2. \A id : CheckKept(id)
    BY <1>1 DEF CheckKept, dbVars
  <2>3. QED BY <1>5, <1>6, <2>1, <2>2, RowsBackedKept
<1>9. ReportsSettled'
  BY <1>1, ReportsStand DEF roundVars, dbVars
<1>10. Cleared'
  <2>1. ASSUME NEW id \in DOMAIN pending', id =< attested_up_to'
        PROVE  id \in Ids
    BY <1>2, <1>5, <2>1 DEF VaultMoves, Types, ChainType, Ids
  <2>2. QED BY <1>2, <1>5, <1>6, <2>1 DEF Cleared, VaultMoves
<1>11. QED BY <1>4, <1>7, <1>8, <1>9, <1>10

----------------------------------------------------------------------------
\* Operators' orders.

\* While orders are carried out the round holds no rows of its own.
LEMMA OrderStep ==
  ASSUME ScreeningInv, pc = "ops", ChainType', DepositsKept, attested_up_to' = attested_up_to,
         table' \in [1 .. MaxDeposits -> Row], GhostsType', ops' \subseteq ops, todo' \subseteq todo,
         UNCHANGED <<seen, reported, pc, view, rows, checks, backoff>>
  PROVE  Types' /\ ViewOK' /\ RowsBacked' /\ ReportsSettled'
<1> USE DEF ScreeningInv
<1>1. Ids' = Ids
  BY DEF DepositsKept, Ids
<1>2. Types'
  BY <1>1 DEF Types, TablesType, RoundType
<1>3. ViewOK' /\ ReportsSettled'
  BY DEF ViewOK, DepositsKept, ReportsSettled
<1>4. RowsBacked'
  <2>1. checks' = {}
    BY DEF Types, RoundType
  <2>2. QED BY <2>1 DEF RowsBacked, DepositsKept
<1>5. QED BY <1>2, <1>3, <1>4

\* A flag that a person orders ends none.
LEMMA FlagManuallyKeeps ==
  ASSUME ScreeningInv, pc = "ops", NEW o \in Ops,
         FlagManually(o) \/ UNCHANGED <<depositVars, table, faults, ghosts>>,
         ops' \subseteq ops, todo' \subseteq todo,
         UNCHANGED <<seen, reported, pc, view, rows, checks, backoff>>
  PROVE  ScreeningInv'
<1> USE DEF ScreeningInv
<1>1. /\ Reflagged({}) /\ ChecksKept /\ table' \in [1 .. MaxDeposits -> Row] /\ faults' \in Nat
      /\ UNCHANGED ghosts
  <2>1. CASE UNCHANGED <<depositVars, table, faults, ghosts>>
    BY <2>1 DEF depositVars, Reflagged, ChecksKept, CheckKept, Types, ChainType, TablesType, GhostsType
  <2>2. CASE ~ UNCHANGED <<depositVars, table, faults, ghosts>>
    <3>1. o.id \in DOMAIN seen /\ \E whole \in BOOLEAN : Flag(o.id, Refused, whole) /\ UNCHANGED ghosts
      BY <2>2 DEF FlagManually
    <3>2. o.id \in 1 .. MaxDeposits
      BY <3>1, IdsBounded DEF Types, TablesType
    <3>3. QED BY <3>1, <3>2, FlagEffect
  <2>3. QED BY <2>1, <2>2
<1>2. ChainType' /\ DepositsKept
  BY <1>1, ChainTypeKept DEF Types
<1>3. Horizon \in Nat /\ Horizon' = Horizon
  BY <1>1 DEF Horizon, Reflagged, Types, ChainType, RoundType
<1>4. TablesBacked' /\ Cleared'
  BY <1>1, <1>2, <1>3, TablesBackedKept, ClearedKept DEF Types, ghosts
<1>5. Types' /\ ViewOK' /\ RowsBacked' /\ ReportsSettled'
  BY <1>1, <1>2, OrderStep DEF Reflagged, Types, GhostsType, ghosts
<1>6. QED BY <1>4, <1>5

\* An unflag that is the deposit's final check runs in its final window and finds
\* nothing; any other leaves the final check to be run.
LEMMA UnflagKeeps ==
  ASSUME ScreeningInv, pc = "ops", NEW o \in Ops, NEW verdict,
         Unflag(o, verdict), ~ (o.id \in DOMAIN seen /\ Waits(pendingRows[o.id], o.id)),
         ops' \subseteq ops, todo' \subseteq todo,
         UNCHANGED <<seen, reported, pc, view, rows, checks, backoff>>
  PROVE  ScreeningInv'
<1> USE DEF ScreeningInv
<1>1. CASE UNCHANGED <<depositVars, table, faults, ghosts>>
  BY <1>1, FlagManuallyKeeps
<1>2. CASE ~ UNCHANGED <<depositVars, table, faults, ghosts>>
  <2> DEFINE id == o.id
             r == pendingRows[id]
             last == final(r, id)
             reset == [first_check |-> "done", review |-> "cleared",
                       recheck |-> IF last THEN "pass" ELSE "",
                       recheck_at |-> IF last THEN now ELSE Never,
                       flag_sent |-> None,
                       lifted |-> r.flag = Held]
  <2>1. /\ id \in DOMAIN seen /\ r.flag # None
        /\ ~ (r.flag = Held /\ r.review = "needed")
        /\ last => r.delay /\ Clear(verdict)
        /\ id \in DOMAIN pending
    BY <1>2 DEF Unflag
  <2>2. PICK done \in SUBSET DOMAIN reset :
          /\ Ends(id, done = DOMAIN reset)
          /\ unflag(id)
          /\ update(id, done, reset)
          /\ IF Clear(verdict)
             THEN /\ vouched' = [vouched EXCEPT ![id] = now]
                  /\ passedOver' = [passedOver EXCEPT ![id] = {}]
             ELSE UNCHANGED <<vouched, passedOver>>
          /\ reviewed' = [reviewed EXCEPT ![id] = @ \cup r.findings]
    BY <1>2 DEF Unflag
  <2>3. /\ id \in 1 .. MaxDeposits /\ table[id] \in Row /\ seen[id] \in Seen
        /\ r = Join(table[id], seen[id])
    BY <2>1, ReadRows DEF Types, TablesType, pendingRows
  <2>4. /\ r.delay = table[id].delay /\ r.findings = table[id].findings
        /\ r.eligible_at = seen[id].eligible_at
        /\ seen[id].eligible_at = pending[id].eligible_at
    <3>1. LET j == Join(table[id], seen[id])
          IN  /\ j.delay = table[id].delay /\ j.findings = table[id].findings
              /\ j.eligible_at = seen[id].eligible_at
      BY DEF Join
    <3>2. seen[id].eligible_at = pending[id].eligible_at
      BY <2>1 DEF TablesBacked
    <3> HIDE DEF r
    <3>3. QED BY <2>3, <3>1, <3>2
  <2>5. last => now + RecheckWindow >= pending[id].eligible_at
    BY <2>1, <2>4 DEF Waits, inRecheck
  <2>6. ~ Clear(verdict) => ~ last
    BY <2>1
  <2>7. id =< attested_up_to => last
    BY DEF final
  <2>8. "delay" \notin done /\ "findings" \notin done
    OBVIOUS
  <2>9. Fits(done, reset)
    BY <2>8 DEF Fits, Types, ChainType
  <2>10. /\ reset["recheck"] = IF last THEN "pass" ELSE ""
         /\ reset["recheck_at"] = IF last THEN now ELSE Never
    OBVIOUS
  <2> HIDE DEF reset, last, r
  <2> DEFINE w == Rewritten(table[id], done, reset)
  <2>11. /\ w \in Row /\ w.delay = table[id].delay
         /\ w.recheck = IF "recheck" \in done THEN reset["recheck"] ELSE table[id].recheck
         /\ w.recheck_at = IF "recheck_at" \in done THEN reset["recheck_at"] ELSE table[id].recheck_at
    BY <2>3, <2>8, <2>9, WriteRow
  <2>12. table' = [table EXCEPT ![id] = w]
    BY <2>2 DEF update, Rewritten
  <2> HIDE DEF w
  <2>13. Reflagged({id}) /\ ChainType' /\ DepositsKept
    BY <2>2, UnflagEffect, ChainTypeKept DEF Types
  <2>14. /\ table' \in [1 .. MaxDeposits -> Row] /\ table'[id] = w
         /\ \A j \in 1 .. MaxDeposits : j # id => table'[j] = table[j] /\ vouched'[j] = vouched[j]
         /\ vouched'[id] = IF Clear(verdict) THEN now ELSE vouched[id]
    BY <2>2, <2>3, <2>11, <2>12 DEF Types, TablesType, GhostsType
  <2>15. GhostsType'
    <3>1. faults' \in Nat
      BY <2>2, EndsType DEF Types, GhostsType
    <3>2. vouched' \in [1 .. MaxDeposits -> Nat \cup {Never}]
      BY <2>2, <2>3 DEF Types, GhostsType, ChainType
    <3>3. passedOver' \in [1 .. MaxDeposits -> SUBSET Findings]
      BY <2>2, <2>3 DEF Types, GhostsType
    <3>4. reviewed' \in [1 .. MaxDeposits -> SUBSET Findings]
      <4>1. r.findings \in SUBSET Findings
        BY <2>3, <2>4 DEF Row
      <4>2. QED BY <2>2, <2>3, <4>1 DEF Types, GhostsType
    <3>5. QED BY <3>1, <3>2, <3>3, <3>4 DEF GhostsType
  <2>16. Types' /\ ViewOK' /\ RowsBacked' /\ ReportsSettled'
    BY <2>13, <2>14, <2>15, OrderStep DEF Reflagged
  <2>17. Horizon' = Horizon /\ now' = now /\ now \in Nat
    BY <2>13 DEF Horizon, Reflagged, Types, ChainType
  <2>18. w.recheck_at =< now /\ w.recheck_at \in Nat \cup {Never}
    <3>1. table[id].recheck_at =< now
      BY <2>3 DEF TablesBacked
    <3>2. w.recheck_at \in Nat \cup {Never}
      BY <2>11 DEF Row
    <3>3. CASE "recheck_at" \in done
      <4>1. w.recheck_at = now \/ w.recheck_at = Never
        BY <3>3, <2>10, <2>11
      <4>2. QED BY <4>1, <3>2, <2>17 DEF Never
    <3>4. CASE "recheck_at" \notin done
      <4>1. w.recheck_at = table[id].recheck_at
        BY <3>4, <2>11
      <4>2. QED BY <4>1, <3>1, <3>2
    <3>5. QED BY <3>3, <3>4
  <2>19. Backed(id)'
    <3>1. Backed(id)
      BY <2>1 DEF TablesBacked
    <3>2. pending'[id].eligible_at = pending[id].eligible_at
      BY <2>1, <2>13 DEF DepositsKept
    <3>3. w.recheck_at # Never => w.recheck_at + RecheckWindow >= pending[id].eligible_at
      BY <2>5, <2>10, <2>11, <3>1 DEF Backed
    <3>4. w.recheck = "pass" => w.delay
      BY <2>1, <2>4, <2>10, <2>11, <3>1 DEF Backed
    <3>5. w.recheck = "pass" /\ w.recheck_at # Never
            => w.recheck_at =< vouched'[id] \/ w.recheck_at + RecheckWindow < Horizon
      <4>1. CASE Clear(verdict)
        BY <4>1, <2>14, <2>18
      <4>2. CASE ~ Clear(verdict)
        BY <4>2, <2>6, <2>10, <2>11, <2>14, <3>1 DEF Backed
      <4>3. QED BY <4>1, <4>2
    <3>6. QED BY <2>14, <2>17, <3>2, <3>3, <3>4, <3>5 DEF Backed
  <2>20. TablesBacked'
    <3>1. ASSUME NEW j \in DOMAIN pending'
          PROVE  Backed(j)'
      <4>1. CASE j = id
        BY <4>1, <2>19
      <4>2. CASE j # id
        <5>1. j \in DOMAIN pending /\ j \in 1 .. MaxDeposits /\ Backed(j)
              /\ pending'[j].eligible_at = pending[j].eligible_at
          BY <2>13, IdsBounded DEF DepositsKept, Types, ChainType, TablesBacked
        <5>2. QED BY <4>2, <5>1, <2>14, <2>17 DEF Backed
      <4>3. QED BY <4>1, <4>2
    <3>2. ASSUME NEW j \in 1 .. MaxDeposits
          PROVE  table'[j].recheck_at =< now'
      BY <2>14, <2>17, <2>18 DEF TablesBacked
    <3>3. ASSUME NEW j \in 1 .. MaxDeposits, j >= next_deposit_id'
          PROVE  table'[j].recheck_at = Never /\ table'[j].recheck = ""
      <4>1. j >= next_deposit_id /\ j # id
        BY <2>1, <2>13, <3>3, ScreeningAssumptions DEF DepositsKept, Types, ChainType, Ids
      <4>2. QED BY <4>1, <2>14 DEF TablesBacked
    <3>4. \A j \in (DOMAIN seen \cap DOMAIN pending)' : seen'[j].eligible_at = pending'[j].eligible_at
      BY <2>13 DEF TablesBacked, DepositsKept
    <3>5. QED BY <3>1, <3>2, <3>3, <3>4 DEF TablesBacked
  <2>21. Cleared'
    <3>1. ASSUME NEW j \in DOMAIN pending', pending'[j].flag = None, j =< attested_up_to'
          PROVE  vouched'[j] # Never /\ vouched'[j] + RecheckWindow >= pending'[j].eligible_at
      <4>1. j \in DOMAIN pending /\ j \in 1 .. MaxDeposits /\ attested_up_to' = attested_up_to
            /\ pending'[j].eligible_at = pending[j].eligible_at
            /\ (j # id => pending[j].flag = None)
        BY <2>13, <3>1, IdsBounded DEF Reflagged, Types, ChainType
      <4>2. CASE j = id
        BY <4>1, <4>2, <3>1, <2>1, <2>5, <2>7, <2>14, <2>17 DEF Never
      <4>3. CASE j # id
        BY <4>1, <4>3, <3>1, <2>14 DEF Cleared
      <4>4. QED BY <4>2, <4>3
    <3>2. QED BY <3>1 DEF Cleared
  <2>22. QED BY <2>16, <2>20, <2>21
<1>3. QED BY <1>1, <1>2

\* Carrying out an order keeps the invariant.
LEMMA RunOpsKeeps ==
  ASSUME ScreeningInv, runOps
  PROVE  ScreeningInv'
<1>1. PICK o \in todo :
        /\ todo' = todo \ {o}
        /\ IF o.kind = "unflag" /\ o.id \in DOMAIN seen /\ Waits(pendingRows[o.id], o.id)
           THEN UNCHANGED <<depositVars, table, ops, faults, ghosts>>
           ELSE /\ \/ o.kind = "flag" /\ FlagManually(o)
                   \/ o.kind = "unflag" /\ \E verdict \in Verdicts(o.id) : Unflag(o, verdict)
                /\ \/ ops' = ops \ {o}
                   \/ faults' > faults /\ UNCHANGED ops
  BY DEF runOps
<1>2. pc = "ops" /\ UNCHANGED <<seen, reported, pc, view, rows, checks, backoff>>
  BY DEF runOps
<1>3. o \in Ops /\ ops' \subseteq ops /\ todo' \subseteq todo
  BY <1>1, <1>2 DEF ScreeningInv, Types, RoundType
<1>4. CASE UNCHANGED <<depositVars, table, faults, ghosts>> \/ FlagManually(o)
  BY <1>2, <1>3, <1>4, FlagManuallyKeeps
<1>5. ASSUME NEW verdict \in Verdicts(o.id), Unflag(o, verdict),
             ~ (o.id \in DOMAIN seen /\ Waits(pendingRows[o.id], o.id))
      PROVE  ScreeningInv'
  BY <1>2, <1>3, <1>5, UnflagKeeps
<1>6. QED BY <1>1, <1>4, <1>5

----------------------------------------------------------------------------
\* While checks run, the round settles nothing.
LEMMA CheckStep ==
  ASSUME ScreeningInv, pc = "lifts", todo = {},
         UNCHANGED <<depositVars, seen, ops, reported, pc, view, todo>>,
         checks' \subseteq checks, backoff' \subseteq Ids,
         rows' \in [DOMAIN rows -> ReadRow],
         table' \in [1 .. MaxDeposits -> Row], GhostsType',
         \A id \in checks' : CheckPlanned(id)',
         \A id \in DOMAIN rows : rows'[id].eligible_at = rows[id].eligible_at
  PROVE  Types' /\ ViewOK' /\ RowsBacked' /\ ReportsSettled' /\ Horizon' = Horizon
<1> USE DEF ScreeningInv
<1>1. /\ UNCHANGED <<now, next_deposit_id, attested_up_to, pending, inserted>> /\ Ids' = Ids
      /\ ChainType'
  BY DEF depositVars, Ids, Types, ChainType
<1>2. DOMAIN rows' = DOMAIN rows
  OBVIOUS
<1>3. Types'
  <2>1. TablesType'
    BY <1>1 DEF Types, TablesType, Ops
  <2>2. RoundType'
    BY <1>1, <1>2 DEF Types, RoundType
  <2>3. QED BY <1>1, <2>1, <2>2 DEF Types
<1>4. ViewOK' /\ ReportsSettled' /\ Horizon' = Horizon
  BY <1>1 DEF ViewOK, ReportsSettled, Horizon
<1>5. RowsBacked'
  BY <1>1, <1>2 DEF RowsBacked
<1>6. QED BY <1>3, <1>4, <1>5

\* The backoff holds deposits only.
LEMMA BackoffType ==
  ASSUME RoundType, NEW id \in Ids, NEW ok, Checked(id, ok)
  PROVE  backoff' \subseteq Ids
BY DEF RoundType, Checked

\* What a check may find.
LEMMA VerdictType ==
  ASSUME NEW id, NEW verdict \in Verdicts(id)
  PROVE  verdict.found \in SUBSET Findings
BY DEF Verdicts

\* A first check writes no column of a final check.
LEMMA FirstCheckKeeps ==
  ASSUME ScreeningInv, pc = "lifts", todo = {}, NEW id \in checks,
         NEW verdict \in Verdicts(id), NEW large \in BOOLEAN, firstCheck(id, verdict, large),
         UNCHANGED <<depositVars, seen, ops, reported, pc, view, todo>>
  PROVE  ScreeningInv'
<1> USE DEF ScreeningInv
<1> DEFINE outcome == IF verdict.kind = "refuse" THEN "refuse"
                      ELSE IF large \/ ~Clear(verdict) THEN "refer" ELSE "pass"
           columns == IF outcome = "refer" THEN <<"findings", "review", "first_check">>
                      ELSE <<"findings", "first_check">>
           set == [findings |-> verdict.found, review |-> "needed",
                   first_check |-> IF outcome = "refuse" THEN outcome ELSE "done"]
<1>1. id \in DOMAIN rows /\ id \in Ids /\ id \in 1 .. MaxDeposits /\ rows[id] \in ReadRow
  BY IdsBounded DEF Types, RoundType
<1>2. UNCHANGED ghosts /\ checks' \subseteq checks
  BY DEF firstCheck
<1>3. backoff' \subseteq Ids
  BY <1>1, BackoffType DEF firstCheck, Types, RoundType
<1>4. /\ rows' \in [DOMAIN rows -> ReadRow]
      /\ \A j \in DOMAIN rows :
           /\ rows'[j].delay = rows[j].delay
           /\ rows'[j].recheck = rows[j].recheck
           /\ rows'[j].recheck_at = rows[j].recheck_at
           /\ rows'[j].eligible_at = rows[j].eligible_at
           /\ rows'[j].first_check # rows[j].first_check => inRecheck(view.now, rows[j])
  <2>1. rows' = rows
        \/ (rows' = [rows EXCEPT ![id].first_check = "done"] /\ inRecheck(view.now, rows[id]))
    BY DEF firstCheck
  <2>2. CASE rows' = rows
    BY <2>2 DEF Types, RoundType
  <2>3. CASE rows' = [rows EXCEPT ![id].first_check = "done"] /\ inRecheck(view.now, rows[id])
    <3> DEFINE w == [rows[id] EXCEPT !.first_check = "done"]
    <3>1. /\ w \in ReadRow /\ w.delay = rows[id].delay /\ w.recheck = rows[id].recheck
          /\ w.recheck_at = rows[id].recheck_at /\ w.eligible_at = rows[id].eligible_at
      BY <1>1 DEF ReadRow
    <3>2. rows' = [rows EXCEPT ![id] = w]
      BY <2>3
    <3> HIDE DEF w
    <3>3. QED BY <1>1, <2>3, <3>1, <3>2 DEF Types, RoundType
  <2>4. QED BY <2>1, <2>2, <2>3
<1>5. table' \in [1 .. MaxDeposits -> Row] /\ ChecksKept /\ faults' \in Nat
  <2>1. CASE verdict.kind = "failed"
    BY <2>1 DEF firstCheck, ChecksKept, CheckKept, Types, TablesType, GhostsType
  <2>2. CASE verdict.kind # "failed"
    <3>1. PICK n \in 0 .. Len(columns) :
            Ends(id, n = Len(columns)) /\ update(id, Written(columns, n), set)
      BY <2>2 DEF firstCheck
    <3>2. Written(columns, n) \subseteq {"findings", "review", "first_check"}
      BY DEF Written
    <3>3. Fits(Written(columns, n), set)
      BY <3>2, VerdictType DEF Fits
    <3>4. faults' \in Nat
      BY <3>1, EndsType DEF Types, GhostsType
    <3> HIDE DEF set, columns
    <3>5. QED BY <1>1, <3>1, <3>2, <3>3, <3>4, UpdateKeeps DEF Types
  <2>3. QED BY <2>1, <2>2
<1>6. \A j \in checks' : CheckPlanned(j)'
  <2>1. SUFFICES ASSUME NEW j \in checks'
                 PROVE  CheckPlanned(j)'
    OBVIOUS
  <2>2. j \in DOMAIN rows /\ j \in 1 .. MaxDeposits /\ CheckPlanned(j)
    BY <1>2, IdsBounded DEF Types, RoundType, RowsBacked
  <2>3. pending' = pending /\ view' = view
    BY DEF depositVars
  <2>4. CheckKept(j)
    BY <1>5, <2>2 DEF ChecksKept
  <2>5. QED BY <1>4, <2>2, <2>3, <2>4 DEF CheckPlanned, CheckKept, inRecheck
<1>7. GhostsType'
  BY <1>2, <1>5 DEF ghosts, Types, GhostsType
<1>8. Types' /\ ViewOK' /\ RowsBacked' /\ ReportsSettled' /\ Horizon' = Horizon
  BY <1>2, <1>3, <1>4, <1>5, <1>6, <1>7, CheckStep
<1>9. TablesBacked' /\ Cleared'
  BY <1>2, <1>5, <1>8, TablesStand DEF ghosts, Types, RoundType, ChainType, Horizon
<1>10. QED BY <1>8, <1>9

\* A final check stores when it ran only after what it said.
LEMMA CheckColumns ==
  ASSUME NEW columns \in {<<"findings", "review", "recheck", "recheck_at">>, <<"recheck", "recheck_at">>},
         NEW n \in 0 .. Len(columns)
  PROVE  /\ Written(columns, n) \subseteq {"findings", "review", "recheck", "recheck_at"}
         /\ "recheck_at" \in Written(columns, n) => "recheck" \in Written(columns, n)
<1>1. CASE columns = <<"recheck", "recheck_at">>
  <2>1. Written(columns, n) = {IF i = 1 THEN "recheck" ELSE "recheck_at" : i \in 1 .. n} /\ n \in {0, 1, 2}
    BY <1>1 DEF Written
  <2>2. QED BY <2>1
<1>2. CASE columns = <<"findings", "review", "recheck", "recheck_at">>
  <2>1. /\ n \in {0, 1, 2, 3, 4}
        /\ columns[1] = "findings" /\ columns[2] = "review"
        /\ columns[3] = "recheck" /\ columns[4] = "recheck_at"
    BY <1>2
  <2>2. \A i \in 1 .. n : i \in {1, 2, 3, 4}
    BY <2>1
  <2>3. Written(columns, n) \subseteq {"findings", "review", "recheck", "recheck_at"}
    BY <2>1, <2>2 DEF Written
  <2>4. ASSUME "recheck_at" \in Written(columns, n)
        PROVE  "recheck" \in Written(columns, n)
    <3>1. PICK i \in 1 .. n : columns[i] = "recheck_at"
      BY <2>4 DEF Written
    <3>2. i = 4
      BY <2>1, <2>2, <3>1
    <3>3. 3 \in 1 .. n
      BY <2>1, <3>2
    <3>4. QED BY <2>1, <3>3 DEF Written
  <2>5. QED BY <2>3, <2>4
<1>3. QED BY <1>1, <1>2

\* A final check that passes vouches for its deposit from now on; after one that
\* does not, the row holds no pass that still counts, unless an earlier one does.
LEMMA RecheckKeeps ==
  ASSUME ScreeningInv, pc = "lifts", todo = {}, NEW id \in checks,
         NEW verdict \in Verdicts(id), recheck(id, verdict),
         UNCHANGED <<depositVars, seen, ops, reported, pc, view, todo>>
  PROVE  ScreeningInv'
<1> USE DEF ScreeningInv
<1> DEFINE r == rows[id]
           outcome == IF verdict.kind = "refuse" THEN "refuse"
                      ELSE IF Clear(verdict) \/ (r.review = "cleared" /\ verdict.found \subseteq r.findings)
                      THEN "pass" ELSE "refer"
           columns == IF outcome = "refer" THEN <<"findings", "review", "recheck", "recheck_at">>
                      ELSE <<"recheck", "recheck_at">>
           set == [findings |-> verdict.found, review |-> "needed",
                   recheck |-> IF outcome = "refer" THEN "" ELSE outcome,
                   recheck_at |-> now]
<1>1. id \in DOMAIN rows /\ id \in Ids /\ id \in 1 .. MaxDeposits /\ r \in ReadRow
  BY IdsBounded DEF Types, RoundType
<1>2. /\ checks' = checks \ {id} /\ rows' = rows /\ r.first_check # ""
      /\ UNCHANGED <<now, next_deposit_id, attested_up_to, pending, inserted>>
  BY DEF recheck, depositVars
<1>3. backoff' \subseteq Ids
  BY <1>1, BackoffType DEF recheck, Types, RoundType
<1>4. CheckPlanned(id) /\ table[id] \in Row
  BY <1>1 DEF RowsBacked, Types, TablesType
<1>5. ASSUME table' \in [1 .. MaxDeposits -> Row], GhostsType',
             \A j \in 1 .. MaxDeposits : j # id => table'[j] = table[j]
      PROVE  Types' /\ ViewOK' /\ RowsBacked' /\ ReportsSettled' /\ Horizon' = Horizon
  <2>1. ASSUME NEW j \in checks'
        PROVE  CheckPlanned(j)'
    <3>1. j # id /\ j \in 1 .. MaxDeposits /\ CheckPlanned(j)
      BY <1>2, IdsBounded DEF Types, RoundType, RowsBacked
    <3>2. table'[j] = table[j] /\ view' = view
      BY <3>1, <1>5
    <3>3. QED BY <1>2, <3>1, <3>2 DEF CheckPlanned, inRecheck
  <2>2. rows' \in [DOMAIN rows -> ReadRow]
    BY <1>2 DEF Types, RoundType
  <2>3. QED BY <1>2, <1>3, <1>5, <2>1, <2>2, CheckStep
<1>6. now \in Nat
  BY DEF Types, ChainType
<1>7. CASE verdict.kind = "failed"
  <2>1. UNCHANGED <<table, faults, ghosts>>
    BY <1>7 DEF recheck
  <2>2. /\ table' \in [1 .. MaxDeposits -> Row] /\ GhostsType' /\ ChecksKept
        /\ vouched' = vouched
    BY <2>1 DEF Types, TablesType, GhostsType, ghosts, ChecksKept, CheckKept
  <2>3. Types' /\ ViewOK' /\ RowsBacked' /\ ReportsSettled' /\ Horizon' = Horizon
    BY <1>5, <2>1, <2>2
  <2>4. TablesBacked' /\ Cleared'
    BY <2>2, <2>3, TablesStand DEF Types, RoundType, ChainType, Horizon
  <2>5. QED BY <2>3, <2>4
<1>8. CASE verdict.kind # "failed"
  <2>1. PICK cols :
          /\ cols \subseteq {"findings", "review", "recheck", "recheck_at"}
          /\ "recheck_at" \in cols => "recheck" \in cols
          /\ faults' \in Nat
          /\ update(id, cols, set)
          /\ Vouch(id, outcome = "pass", verdict.found, "recheck" \in cols)
    <3>1. PICK n \in 0 .. Len(columns) :
            /\ Ends(id, n = Len(columns))
            /\ update(id, Written(columns, n), set)
            /\ Vouch(id, outcome = "pass", verdict.found, "recheck" \in Written(columns, n))
      BY <1>8 DEF recheck
    <3>2. /\ Written(columns, n) \subseteq {"findings", "review", "recheck", "recheck_at"}
          /\ "recheck_at" \in Written(columns, n) => "recheck" \in Written(columns, n)
      BY CheckColumns
    <3>3. faults' \in Nat
      BY <3>1, EndsType DEF Types, GhostsType
    <3> HIDE DEF set, columns, outcome
    <3>4. QED BY <3>1, <3>2, <3>3
  <2>2. cols \subseteq {"findings", "review", "recheck", "recheck_at"}
        /\ ("recheck_at" \in cols => "recheck" \in cols)
    BY <2>1
  <2>3. /\ set["recheck"] = IF outcome = "refer" THEN "" ELSE outcome
        /\ set["recheck_at"] = now
        /\ outcome \in {"pass", "refer", "refuse"}
        /\ now \in Nat
    BY DEF Types, ChainType
  <2>4. Fits(cols, set)
    BY <2>2, <2>3, VerdictType DEF Fits
  <2>5. /\ update(id, cols, set)
        /\ Vouch(id, outcome = "pass", verdict.found, "recheck" \in cols)
    BY <2>1
  <2> HIDE DEF set, columns, outcome
  <2> DEFINE w == Rewritten(table[id], cols, set)
  <2>6. /\ w \in Row /\ w.delay = table[id].delay
        /\ w.recheck = IF "recheck" \in cols THEN set["recheck"] ELSE table[id].recheck
        /\ w.recheck_at = IF "recheck_at" \in cols THEN now ELSE table[id].recheck_at
    <3>1. "delay" \notin cols
      BY <2>2
    <3>2. /\ w \in Row /\ w.delay = table[id].delay
          /\ w.recheck = IF "recheck" \in cols THEN set["recheck"] ELSE table[id].recheck
          /\ w.recheck_at = IF "recheck_at" \in cols THEN set["recheck_at"] ELSE table[id].recheck_at
      BY <1>4, <2>4, <3>1, WriteRow
    <3> HIDE DEF w
    <3>3. QED BY <2>3, <3>2
  <2>7. table' = [table EXCEPT ![id] = w]
    BY <2>5 DEF update, Rewritten
  <2> HIDE DEF w
  <2>8. /\ table' \in [1 .. MaxDeposits -> Row] /\ table'[id] = w
        /\ \A j \in 1 .. MaxDeposits : j # id => table'[j] = table[j]
    BY <1>1, <2>6, <2>7 DEF Types, TablesType
  <2> DEFINE stays == Released(id) \/ ("recheck" \notin cols /\ freshPass(view.now, r))
  <2>9. /\ vouched' \in [1 .. MaxDeposits -> Nat \cup {Never}]
        /\ \A j \in 1 .. MaxDeposits : j # id => vouched'[j] = vouched[j]
        /\ vouched'[id] = IF outcome = "pass" THEN now
                          ELSE IF stays THEN vouched[id] ELSE Never
    <3>1. CASE outcome = "pass"
      <4>1. vouched' = [vouched EXCEPT ![id] = now]
        BY <3>1, <2>5 DEF Vouch
      <4>2. QED BY <3>1, <4>1, <1>1, <2>3 DEF Types, GhostsType
    <3>2. CASE outcome # "pass"
      <4>1. vouched' = [vouched EXCEPT ![id] = IF stays THEN vouched[id] ELSE Never]
        BY <3>2, <2>5 DEF Vouch
      <4> HIDE DEF stays
      <4>2. QED BY <3>2, <4>1, <1>1 DEF Types, GhostsType
    <3>3. QED BY <3>1, <3>2
  <2>10. GhostsType'
    <3>1. faults' \in Nat
      BY <2>1
    <3>2. passedOver' \in [1 .. MaxDeposits -> SUBSET Findings] /\ reviewed' = reviewed
      BY <2>5, <1>1, VerdictType DEF Vouch, Types, GhostsType
    <3>3. QED BY <2>9, <3>1, <3>2 DEF Types, GhostsType
  <2>11. Types' /\ ViewOK' /\ RowsBacked' /\ ReportsSettled' /\ Horizon' = Horizon
    BY <1>5, <2>8, <2>10
  <2>12. Horizon = view.now /\ view.now \in Nat /\ view.now =< now
    BY DEF Horizon, ViewOK, Types, RoundType
  <2>13. w.recheck_at =< now /\ w.recheck_at \in Nat \cup {Never}
    <3>1. w.recheck_at \in Nat \cup {Never} /\ table[id].recheck_at =< now
      BY <1>1, <2>6 DEF TablesBacked, Row
    <3>2. w.recheck_at = now \/ w.recheck_at = table[id].recheck_at
      BY <2>6
    <3>3. now =< now
      BY <1>6
    <3>4. QED BY <3>1, <3>2, <3>3
  <2>14. ASSUME id \in DOMAIN pending
         PROVE  /\ now + RecheckWindow >= pending[id].eligible_at
                /\ pending[id].eligible_at \in Nat
    <3>1. view.now + RecheckWindow >= pending[id].eligible_at
      <4>1. r.eligible_at = pending[id].eligible_at /\ inRecheck(view.now, r)
        BY <1>1, <1>2, <1>4, <2>14 DEF RowsBacked, CheckPlanned
      <4>2. view.now + RecheckWindow >= r.eligible_at
        BY <4>1 DEF inRecheck
      <4>3. QED BY <4>1, <4>2
    <3>2. pending[id].eligible_at \in Nat
      BY <2>14 DEF Types, ChainType, Deposit
    <3> HIDE DEF r
    <3>3. QED BY <1>6, <2>12, <3>1, <3>2, ScreeningAssumptions
  <2>15. ASSUME id \in DOMAIN pending
         PROVE  Backed(id)'
    <3>1. Backed(id)
      BY <2>15 DEF TablesBacked
    <3>2. w.recheck_at # Never => w.recheck_at + RecheckWindow >= pending[id].eligible_at
      BY <2>6, <2>14, <2>15, <3>1 DEF Backed
    <3>3. w.recheck = "pass" => w.delay
      BY <1>4, <2>6, <2>15 DEF CheckPlanned
    <3>4. ASSUME w.recheck = "pass", w.recheck_at # Never
          PROVE  w.recheck_at =< vouched'[id] \/ w.recheck_at + RecheckWindow < view.now
      <4>1. CASE outcome = "pass"
        BY <4>1, <2>9, <2>13
      <4>2. CASE outcome # "pass"
        <5>1. "recheck" \notin cols
          BY <4>2, <3>4, <2>3, <2>6
        <5>2. w.recheck = table[id].recheck /\ w.recheck_at = table[id].recheck_at
          BY <5>1, <2>2, <2>6
        <5>3. w.recheck = r.recheck /\ w.recheck_at = r.recheck_at
          BY <5>2, <1>4, <2>15 DEF CheckPlanned
        <5>4. w.recheck_at =< vouched[id] \/ w.recheck_at + RecheckWindow < view.now
          BY <3>1, <3>4, <5>2, <2>12 DEF Backed
        <5>5. CASE stays
          BY <5>4, <5>5, <4>2, <2>9
        <5>6. CASE ~stays
          <6>1. ~ freshPass(view.now, r)
            BY <5>1, <5>6
          <6>2. ~ (view.now =< w.recheck_at + RecheckWindow)
            BY <6>1, <5>3, <3>4 DEF freshPass, fresh
          <6> HIDE DEF stays
          <6>3. QED BY <6>2, <2>12, <2>13, <3>4, ScreeningAssumptions DEF Never
        <5>7. QED BY <5>5, <5>6
      <4>3. QED BY <4>1, <4>2
    <3>5. QED BY <1>2, <2>8, <2>11, <2>12, <3>2, <3>3, <3>4 DEF Backed
  <2>16. TablesBacked'
    <3>1. ASSUME NEW j \in DOMAIN pending'
          PROVE  Backed(j)'
      <4>1. CASE j = id
        BY <4>1, <1>2, <2>15
      <4>2. CASE j # id
        <5>1. j \in DOMAIN pending /\ j \in 1 .. MaxDeposits /\ Backed(j)
          BY <1>2, IdsBounded DEF Types, ChainType, TablesBacked
        <5>2. QED BY <1>2, <4>2, <5>1, <2>8, <2>9, <2>11 DEF Backed
      <4>3. QED BY <4>1, <4>2
    <3>2. ASSUME NEW j \in 1 .. MaxDeposits
          PROVE  table'[j].recheck_at =< now'
      BY <1>2, <2>8, <2>13 DEF TablesBacked
    <3>3. ASSUME NEW j \in 1 .. MaxDeposits, j >= next_deposit_id'
          PROVE  table'[j].recheck_at = Never /\ table'[j].recheck = ""
      <4>1. j >= next_deposit_id /\ j # id
        <5>1. id < next_deposit_id /\ id \in Int /\ next_deposit_id \in Int
          BY <1>1, ScreeningAssumptions DEF Types, ChainType, Ids
        <5>2. next_deposit_id' = next_deposit_id
          BY <1>2
        <5>3. j >= next_deposit_id
          BY <5>2, <3>3
        <5>4. j \in Int
          BY ScreeningAssumptions
        <5>5. QED BY <5>1, <5>3, <5>4
      <4>2. QED BY <4>1, <2>8 DEF TablesBacked
    <3>4. \A j \in (DOMAIN seen \cap DOMAIN pending)' : seen'[j].eligible_at = pending'[j].eligible_at
      BY <1>2 DEF TablesBacked
    <3>5. QED BY <3>1, <3>2, <3>3, <3>4 DEF TablesBacked
  <2>17. Cleared'
    <3>1. ASSUME NEW j \in DOMAIN pending', pending'[j].flag = None, j =< attested_up_to'
          PROVE  vouched'[j] # Never /\ vouched'[j] + RecheckWindow >= pending'[j].eligible_at
      <4>1. j \in DOMAIN pending /\ j \in 1 .. MaxDeposits /\ pending[j].flag = None /\ j =< attested_up_to
        BY <1>2, <3>1, IdsBounded DEF Types, ChainType
      <4>2. vouched[j] # Never /\ vouched[j] + RecheckWindow >= pending[j].eligible_at
        BY <4>1 DEF Cleared
      <4>3. CASE j = id
        <5>1. Released(id)
          BY <4>1, <4>3 DEF Released, None
        <5>2. vouched'[id] = now \/ vouched'[id] = vouched[id]
          BY <2>9, <5>1
        <5>3. now + RecheckWindow >= pending[id].eligible_at /\ now # Never
          BY <1>6, <2>14, <4>1, <4>3 DEF Never
        <5>4. QED BY <1>2, <4>2, <4>3, <5>2, <5>3
      <4>4. CASE j # id
        BY <1>2, <2>9, <4>1, <4>2, <4>4
      <4>5. QED BY <4>3, <4>4
    <3>2. QED BY <3>1 DEF Cleared
  <2>18. QED BY <2>11, <2>16, <2>17
<1>9. QED BY <1>7, <1>8

\* Running a check keeps the invariant.
LEMMA RunChecksKeeps ==
  ASSUME ScreeningInv, runChecks
  PROVE  ScreeningInv'
<1>1. PICK id \in checks : \E verdict \in Verdicts(id) :
        \/ \E large \in BOOLEAN : firstCheck(id, verdict, large)
        \/ recheck(id, verdict)
  BY DEF runChecks
<1>2. /\ pc = "lifts" /\ todo = {}
      /\ UNCHANGED <<depositVars, seen, ops, reported, pc, view, todo>>
  BY DEF runChecks
<1>3. QED BY <1>1, <1>2, FirstCheckKeeps, RecheckKeeps

----------------------------------------------------------------------------
\* The service starts with nothing pending, read or checked.
LEMMA InitKeeps ==
  ASSUME Init
  PROVE  ScreeningInv
<1> USE ScreeningAssumptions
<1>1. /\ now = 0 /\ next_deposit_id = 1 /\ attested_up_to = 0 /\ inserted = 0
      /\ pending = [i \in {} |-> 0] /\ Ids = {}
  BY DEF Init, DepositsInit, Ids
<1>2. /\ seen = <<>> /\ table = [id \in 1 .. MaxDeposits |-> NewRow] /\ ops = {} /\ reported = {}
      /\ pc = "idle" /\ view = Idle /\ rows = <<>> /\ todo = {} /\ checks = {}
      /\ backoff = {} /\ faults = 0
      /\ vouched = [id \in 1 .. MaxDeposits |-> Never]
      /\ passedOver = [id \in 1 .. MaxDeposits |-> {}]
      /\ reviewed = [id \in 1 .. MaxDeposits |-> {}]
  BY DEF Init
<1>3. DOMAIN pending = {} /\ DOMAIN seen = {} /\ DOMAIN rows = {}
  BY <1>1, <1>2
<1>4. ChainType
  BY <1>1, <1>3 DEF ChainType
<1>5. NewRow \in Row /\ NewRow.recheck_at = Never /\ NewRow.recheck = ""
  BY DEF NewRow, Row, None
<1>6. TablesType
  <2>1. seen = <<>>
    BY <1>2
  <2>2. seen \in [DOMAIN seen -> Seen]
    BY <2>1
  <2>3. table = [id \in 1 .. MaxDeposits |-> NewRow]
    BY <1>2
  <2>4. table \in [1 .. MaxDeposits -> Row]
    BY <1>5, <2>3
  <2>5. QED BY <1>2, <1>3, <2>2, <2>4 DEF TablesType
<1>7. RoundType
  BY <1>2, <1>3 DEF RoundType, Idle
<1>8. GhostsType
  BY <1>2 DEF GhostsType
<1>9. TablesBacked
  <2>1. \A id \in 1 .. MaxDeposits : table[id].recheck_at = Never /\ table[id].recheck = ""
    BY <1>2, <1>5
  <2>2. Never =< now
    BY <1>1 DEF Never
  <2>3. QED BY <1>3, <2>1, <2>2 DEF TablesBacked
<1>10. ViewOK /\ RowsBacked /\ ReportsSettled /\ Cleared
  BY <1>2, <1>3 DEF ViewOK, RowsBacked, ReportsSettled, Cleared
<1>11. QED BY <1>4, <1>6, <1>7, <1>8, <1>9, <1>10 DEF ScreeningInv, Types

\* Every step of the service, its operators, its depositors and the vault keeps
\* the invariant.
LEMMA NextKeeps ==
  ASSUME ScreeningInv, [Next]_vars
  PROVE  ScreeningInv'
<1>1. CASE UNCHANGED vars
  BY <1>1, BesideRound DEF vars, dbVars, ghosts, ScreeningInv, Types, TablesType, RoundType,
     GhostsType, ChecksKept, CheckKept
<1>2. CASE Round
  BY <1>2, BeginKeeps, SettleKeeps, StartOpsKeeps, RunOpsKeeps, StartLiftsKeeps, RunChecksKeeps,
     StartSettleKeeps, HoldKeeps, AttestRoundKeeps, EndWithoutKeeps DEF Round
<1>3. CASE \/ \E o \in Ops : o.id < next_deposit_id /\ QueueOp(o)
           \/ \E id \in (Ids \cap Suspects) \ reported : selfReport(id)
           \/ \E id \in backoff : dueAgain(id)
  BY <1>3, WaitingKeeps
<1>4. CASE \E id \in DOMAIN seen, outcome \in {"cleared", "refused"} : DecideReview(id, outcome)
  BY <1>4, DecideReviewKeeps
<1>5. QED BY <1>1, <1>2, <1>3, <1>4, ApplyKeeps, CrashKeeps, ChainStepKeeps DEF Next

\* Rounds, checks, orders, crashes and the vault's calls keep the tables, the rows
\* and the vault agreed on what each deposit passed.
THEOREM ScreeningInvHolds == Spec => []ScreeningInv
<1>1. Init => ScreeningInv
  BY InitKeeps
<1>2. ScreeningInv /\ [Next]_vars => ScreeningInv'
  BY NextKeeps
<1>3. QED BY <1>1, <1>2, PTL DEF Spec

----------------------------------------------------------------------------
\* The end of the run that an attestation covers is the end of a run.
LEMMA BoundedMax ==
  ASSUME NEW T, NEW m \in Nat, T \subseteq 0 .. m, T # {}
  PROVE  Max(T) \in T
<1> DEFINE D == {m - x : x \in T}
<1>1. D \subseteq Nat /\ D # {}
  OBVIOUS
<1>2. PICK d \in D : \A e \in D : d =< e
  BY <1>1, LeastNat
<1>3. PICK x \in T : d = m - x
  OBVIOUS
<1>4. \A y \in T : x >= y
  <2>1. SUFFICES ASSUME NEW y \in T
                 PROVE  x >= y
    OBVIOUS
  <2>2. m - y \in D
    OBVIOUS
  <2>3. m - x =< m - y
    BY <1>2, <1>3, <2>2
  <2>4. x \in Int /\ y \in Int
    OBVIOUS
  <2>5. QED BY <2>3, <2>4
<1>5. \E z \in T : \A y \in T : z >= y
  BY <1>3, <1>4
<1>6. QED BY <1>5 DEF Max

\* A row whose flag could not be sent is never the end of what is attested, nor
\* inside it.
LEMMA CandidateCovered ==
  ASSUME ScreeningInv, attestCandidate # 0
  PROVE  attestCandidate \in Candidates /\ Covered(rows[attestCandidate])
<1> DEFINE S == {id \in Candidates :
                   /\ Covered(rows[id])
                   /\ \A j \in Candidates : j < id => Covered(rows[j]) \/ holdable(rows[j])}
<1>1. {0} \cup S \subseteq 0 .. MaxDeposits /\ {0} \cup S # {}
  BY IdsBounded, ScreeningAssumptions DEF ScreeningInv, Types, RoundType, Candidates
<1>2. attestCandidate = Max({0} \cup S)
  BY DEF attestCandidate
<1>3. attestCandidate \in {0} \cup S
  <2> HIDE DEF S, attestCandidate
  <2> QED BY <1>1, <1>2, BoundedMax, ScreeningAssumptions
<1>4. QED BY <1>3

\* Only an attestation moves the attested range, and only an admission fills the
\* tree.
LEMMA VaultCalls ==
  ASSUME Next
  PROVE  \/ attestRound
         \/ attested_up_to' = attested_up_to /\ \E ids \in SUBSET Admissible : admit(ids)
         \/ UNCHANGED <<attested_up_to, inserted>>
<1>1. ASSUME NEW id, NEW why, NEW whole, Flag(id, why, whole)
      PROVE  UNCHANGED <<attested_up_to, inserted>>
  BY <1>1 DEF Flag, flag, depositVars
<1>2. ASSUME NEW id, NEW whole, lift(id, whole)
      PROVE  UNCHANGED <<attested_up_to, inserted>>
  BY <1>2 DEF lift, unflag, depositVars
<1>3. CASE settle
  BY <1>1, <1>2, <1>3 DEF settle
<1>4. CASE hold
  BY <1>1, <1>4 DEF hold
<1>5. CASE runOps
  <2>1. ASSUME NEW o, FlagManually(o)
        PROVE  UNCHANGED <<attested_up_to, inserted>>
    BY <1>1, <2>1 DEF FlagManually, depositVars
  <2>2. ASSUME NEW o, NEW verdict, Unflag(o, verdict)
        PROVE  UNCHANGED <<attested_up_to, inserted>>
    BY <2>2 DEF Unflag, unflag, depositVars
  <2>3. QED BY <1>5, <2>1, <2>2 DEF runOps, depositVars
<1>6. CASE chainStep
  BY <1>6 DEF chainStep, passTime, shield, admit, refund
<1>7. CASE begin \/ startOps \/ startLifts \/ runChecks \/ startSettle \/ endWithout
  BY <1>7 DEF begin, startOps, startLifts, runChecks, startSettle, endWithout, depositVars
<1>8. CASE ~ Round /\ ~ chainStep
  BY <1>8 DEF Next, Apply, DecideReview, QueueOp, selfReport, dueAgain, crash, depositVars
<1>9. QED BY <1>3, <1>4, <1>5, <1>6, <1>7, <1>8 DEF Round

----------------------------------------------------------------------------
\* A step that covers a deposit is the attestation of a round.
LEMMA CoveredByRound ==
  ASSUME ScreeningInv, [Next]_vars, NEW id \in NewlyCovered
  PROVE  /\ attestRound /\ pc = "settle" /\ todo = {} /\ chainAgrees /\ Holds = {}
         /\ attestCandidate \in Nat /\ attestCandidate # 0
         /\ id \in DOMAIN pending /\ pending[id].flag = 0
         /\ attested_up_to < id /\ id =< attestCandidate
<1> HIDE DEF attestCandidate
<1>1. /\ id \in DOMAIN pending /\ pending[id].flag = 0
      /\ id \in attested_up_to + 1 .. attested_up_to'
  BY DEF NewlyCovered
<1>2. attested_up_to \in Nat /\ attested_up_to' \in Nat
  BY NextKeeps DEF ScreeningInv, Types, ChainType
<1>3. attested_up_to' # attested_up_to /\ attested_up_to < id
  BY <1>1, <1>2
<1>4. attestRound
  BY <1>3, VaultCalls DEF vars, depositVars
<1>5. /\ pc = "settle" /\ todo = {} /\ chainAgrees /\ Holds = {}
      /\ attestCandidate \in 1 .. view.next - 1 /\ attested_up_to' = attestCandidate
  BY <1>4 DEF attestRound, attest
<1>6. attestCandidate \in Nat /\ attestCandidate # 0
  BY <1>2, <1>3, <1>5
<1>7. QED BY <1>1, <1>2, <1>3, <1>4, <1>5, <1>6

\* An attestation covers what passed lately.
LEMMA CoversFreshPass ==
  ASSUME ScreeningInv, [Next]_vars, NEW id \in NewlyCovered
  PROVE  vouched[id] # Never /\ view.now =< vouched[id] + RecheckWindow
<1> HIDE DEF attestCandidate
<1>1. /\ pc = "settle" /\ chainAgrees /\ attestCandidate \in Int
      /\ id \in DOMAIN pending /\ pending[id].flag = 0
      /\ attested_up_to < id /\ id =< attestCandidate
  BY CoveredByRound
<1>2. vouched[id] \in Nat /\ view.now =< vouched[id] + RecheckWindow
  BY <1>1, AttestedRowsBacked
<1>3. QED BY <1>2 DEF Never

\* An attestation covers no reported deposit that does not count as flagged.
LEMMA CoversNoReported ==
  ASSUME ScreeningInv, [Next]_vars, NEW id \in NewlyCovered, id \in view.reported
  PROVE  reason(rows[id]) # None
<1> HIDE DEF attestCandidate
<1>1. SUFFICES ASSUME reason(rows[id]) = None
               PROVE  FALSE
  OBVIOUS
<1>2. /\ pc = "settle" /\ todo = {} /\ chainAgrees /\ Holds = {}
      /\ attestCandidate \in Int /\ attestCandidate # 0
      /\ id \in DOMAIN pending /\ pending[id].flag = 0
      /\ attested_up_to < id /\ id =< attestCandidate
  BY CoveredByRound
<1>3. id \in DOMAIN rows /\ rows[id].delay
  BY <1>2, AttestedRowsBacked
<1>4. rows[id].needs_flag
  BY <1>1, <1>2, <1>3 DEF ScreeningInv, ReportsSettled
<1>5. id \in Candidates
  BY <1>1, <1>2, <1>3 DEF Candidates, ScreeningInv, ViewOK
<1>6. Covered(rows[id])
  <2>1. CASE id = attestCandidate
    BY <1>2, <2>1, CandidateCovered
  <2>2. CASE id # attestCandidate
    <3>1. id \in Int
      BY <1>2, IdsBounded DEF ScreeningInv, Types, ChainType
    <3>2. id < attestCandidate
      BY <1>2, <2>2, <3>1
    <3>3. QED BY <1>2, <1>5, <3>2 DEF Holds
  <2>3. QED BY <2>1, <2>2
<1>7. QED BY <1>4, <1>6 DEF Covered

\* In every state the service can reach, whatever checks find, calls fail and
\* processes crash, an attestation covers no unflagged deposit without a check of
\* its own that passed within RecheckWindow before the round, and none whose key
\* was reported before the round settled its flags.
THEOREM AttestsRightly == Spec => AttestedRightly
<1>1. ScreeningInv => TypeOK
  BY DEF ScreeningInv, Types, TypeOK, TablesType, RoundType, GhostsType
<1>2. ScreeningInv /\ [Next]_vars
        => \A id \in NewlyCovered : vouched[id] # Never /\ view.now =< vouched[id] + RecheckWindow
  BY CoversFreshPass
<1>3. ScreeningInv /\ [Next]_vars
        => \A id \in NewlyCovered : id \in view.reported => reason(rows[id]) # None
  BY CoversNoReported
<1>4. QED
  BY <1>1, <1>2, <1>3, ScreeningInvHolds, PTL
     DEF Spec, AttestedRightly, AttestedOnFreshPass, ReportHeeded

\* A deposit enters the tree only after a check inside its final window passed, and
\* no check since then said otherwise, but for one that could not be stored while
\* the pass was fresh, or one that came when anyone could have admitted it already.
THEOREM AdmitsOnFinalCheck == Spec => AdmittedOnFinalCheck
<1>1. ASSUME ScreeningInv, [Next]_vars, inserted' > inserted,
             NEW id \in DOMAIN pending \ DOMAIN pending'
      PROVE  vouched[id] # Never /\ vouched[id] + RecheckWindow >= pending[id].eligible_at
  <2>1. inserted' # inserted
    BY <1>1 DEF ScreeningInv, Types, ChainType
  <2>2. CASE attestRound
    BY <2>1, <2>2 DEF attestRound, attest
  <2>3. CASE \E ids \in SUBSET Admissible : admit(ids)
    <3>1. PICK ids \in SUBSET Admissible : admit(ids)
      BY <2>3
    <3>2. id \in Admissible
      BY <3>1 DEF admit, Without
    <3>3. QED BY <1>1, <3>2 DEF Admissible, ScreeningInv, Cleared, None
  <2>4. QED BY <1>1, <2>1, <2>2, <2>3, VaultCalls DEF vars, depositVars
<1>2. ScreeningInv /\ [Next]_vars
        => (inserted' > inserted =>
              \A id \in DOMAIN pending \ DOMAIN pending' :
                vouched[id] # Never /\ vouched[id] + RecheckWindow >= pending[id].eligible_at)
  BY <1>1
<1>3. QED BY <1>2, ScreeningInvHolds, PTL DEF Spec, AdmittedOnFinalCheck

============================================================================
