------------------------------- MODULE Archive -------------------------------
(***************************************************************************)
(* The indexer's archive of raw events: append-only files of WindowLedgers *)
(* ledgers, each a sequence of lines (src/services/internal/archive).      *)
(*                                                                         *)
(* A write puts one line per event and a closing line that names the       *)
(* ledgers it covers and the events it put there (the count and the        *)
(* SHA-256 of the code).  A write that is cut short leaves a prefix of its *)
(* lines, the last of them perhaps torn.  A missing file is an empty one,  *)
(* and a ledger has at most one event.                                     *)
(***************************************************************************)
EXTENDS Integers, SequencesExt

CONSTANTS
    MaxLedger,      \* the last ledger of an instance; the vault is deployed at 1
    WindowLedgers   \* ledgers per file

ASSUME ArchiveAssumption ==
    /\ MaxLedger \in Nat \ {0}
    /\ WindowLedgers \in Nat \ {0}

Ledgers == 1 .. MaxLedger

(* The copies of a ledger's events a source may serve: the chain's, another *)
(* that decodes, one that does not, or no event.                            *)
Copies == {"true", "forged", "bad", "none"}

windowStart(l) == l - (l % WindowLedgers)

Starts == {windowStart(l) : l \in Ledgers}

(* The events of the ledgers lo to hi of a window, in chain order. *)
EventsIn(raw, lo, hi) ==
    LET events == [i \in 1 .. hi - lo + 1 |-> [ledger |-> lo + i - 1, copy |-> raw[lo + i - 1]]]
    IN SelectSeq(events, LAMBDA e : e.copy # "none")

------------------------------------------------------------------------------
(* Writing *)

EventLine(w, e) == [kind |-> "event", write |-> w, event |-> e]

CoveredLine(w, lo, hi, events) ==
    [kind |-> "covered", write |-> w, lo |-> lo, hi |-> hi, events |-> events]

(* What a crash leaves of a line. *)
TornLine == [kind |-> "torn", write |-> 0]

(* The identifier of a new write: random in the code, here the least no line *)
(* carries.                                                                  *)
NewWrite(files) ==
    LET used == {l.write : l \in UNION {ToSet(files[s]) : s \in Starts}}
    IN CHOOSE w \in 1 .. Cardinality(used) + 1 : w \notin used

(* The lines of the write of ledgers lo to hi of a window in their file. *)
writeLines(w, raw, lo, hi) ==
    LET events == EventsIn(raw, lo, hi)
    IN Append([i \in DOMAIN events |-> EventLine(w, events[i])],
              CoveredLine(w, lo, hi, events))

(* Without the ending, the torn line takes the next one with it. *)
terminateTornLine_dropped(lines, new) ==
    IF lines # <<>> /\ Last(lines) = TornLine THEN lines \o Tail(new) ELSE lines \o new

(* New lines after a file's: a torn line is ended first, so it stays a line  *)
(* of its own.                                                               *)
terminateTornLine(lines, new) == lines \o new

(* What can be left of lines whose write was cut short. *)
CutShort(lines) ==
    {SubSeq(lines, 1, n) : n \in 0 .. Len(lines)} \cup
    {Append(SubSeq(lines, 1, n), TornLine) : n \in 0 .. Len(lines) - 1}

(* The lines a write of the ledgers from to to adds to the file of start s. *)
LinesOf(files, raw, from, to, s) ==
    writeLines(NewWrite(files), raw, Max({from, s}), Min({to, s + WindowLedgers - 1}))

StartsOf(from, to) == {s \in Starts : windowStart(from) <= s /\ s <= to}

(* A write that succeeds: every file it spans. *)
AppendWrite(files, raw, from, to) ==
    [s \in Starts |-> IF s \in StartsOf(from, to)
                      THEN terminateTornLine(files[s], LinesOf(files, raw, from, to, s))
                      ELSE files[s]]

(* A write that stopped in a file: the files before it are written, the ones *)
(* after it are not, and of its own lines a part is left.                    *)
Stopped(files, raw, from, to, stop, part) ==
    LET done == AppendWrite(files, raw, from, to)
    IN [s \in Starts |-> IF s < stop THEN done[s]
                         ELSE IF s = stop /\ part # <<>> THEN terminateTornLine(files[s], part)
                         ELSE files[s]]

(* What can be left of a write that a crash cuts, or that fails and cannot   *)
(* take its lines off the file again.                                        *)
AppendCut(files, raw, from, to) ==
    UNION {{Stopped(files, raw, from, to, stop, part)
            : part \in CutShort(LinesOf(files, raw, from, to, stop))}
           : stop \in StartsOf(from, to)}

(* What a write that fails leaves once its lines are off the file again. *)
AppendFailed(files, raw, from, to) ==
    {Stopped(files, raw, from, to, stop, <<>>) : stop \in StartsOf(from, to)}

------------------------------------------------------------------------------
(* Reading *)

EmptyRead == [open |-> <<>>, ended |-> {}, done |-> <<>>, torn |-> FALSE, damaged |-> FALSE]

LinesOfWrite(open, w) == SelectSeq(open, LAMBDA l : l.write = w)

(* One line of a file: an unreadable line ends the writes it finds open, a   *)
(* second one after it is damage, as is a line of a write that had ended and *)
(* a closing line that does not tell the events before it.                   *)
readLine(r, l) ==
    LET own == LinesOfWrite(r.open, l.write)
        told == l.kind = "covered" /\ [i \in DOMAIN own |-> own[i].event] = l.events
    IN CASE r.damaged -> r
         [] l.kind = "torn" -> [r EXCEPT !.damaged = r.torn, !.torn = TRUE, !.open = <<>>,
                                         !.ended = @ \cup {o.write : o \in ToSet(r.open)}]
         [] l.kind # "torn" /\ l.write \in r.ended -> [r EXCEPT !.damaged = TRUE]
         [] l.kind = "event" /\ l.write \notin r.ended ->
                [r EXCEPT !.torn = FALSE, !.open = Append(@, l)]
         [] l.kind = "covered" /\ l.write \notin r.ended ->
                [r EXCEPT !.torn = FALSE, !.damaged = ~told, !.ended = @ \cup {l.write},
                          !.done = Append(@, l),
                          !.open = SelectSeq(@, LAMBDA o : o.write # l.write)]

(* The finished writes of a file, and whether it is damaged. *)
file(lines) == FoldLeft(readLine, EmptyRead, lines)

(* Every file read. *)
Read(files) == [s \in Starts |-> file(files[s])]

(* The finished writes that cover a ledger, in order. *)
WritesOf(read, l) == SelectSeq(read[windowStart(l)].done, LAMBDA w : w.lo <= l /\ l <= w.hi)

Covered(read, l) == WritesOf(read, l) # <<>>

(* A ledger's copy is the one of the last finished write that covers it. *)
CopyOf(read, l) ==
    LET own == SelectSeq(Last(WritesOf(read, l)).events, LAMBDA e : e.ledger = l)
    IN IF own = <<>> THEN "none" ELSE own[1].copy

(* The archived window from to to, and what keeps it from being read. *)
Events(files, from, to) ==
    LET read == Read(files)
    IN [err |-> IF \E s \in StartsOf(from, to) : read[s].damaged THEN "damaged"
                ELSE IF \E l \in from .. to : ~Covered(read, l) THEN "not_covered"
                ELSE "none",
        raw |-> [l \in from .. to |-> IF Covered(read, l) THEN CopyOf(read, l) ELSE "none"]]

(* The last ledger any closing line of a file names. *)
coveredIn(lines) ==
    Max({0} \cup {l.hi : l \in {k \in ToSet(lines) : k.kind = "covered"}})

(* The newest coverage: that of the newest file that holds a finished write. *)
LastCovered(files) == Max({coveredIn(files[s]) : s \in Starts})
==============================================================================
