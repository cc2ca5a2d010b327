------------------------------- MODULE Indexer -------------------------------
(***************************************************************************)
(* The indexer: the follower that brings windows of events, the archive it  *)
(* keeps of them, the copy it stores and serves, and the comparison of that *)
(* copy with the vault's own entries (src/services/internal/follow,         *)
(* src/services/internal/indexer, src/services/internal/archive).           *)
(*                                                                          *)
(* Three goroutines share the archive and the memory of a process: the      *)
(* follower, the copier of raw events and the reconciler.  An RPC may serve *)
(* wrong events and answers from nodes a ledger apart; the process may      *)
(* crash anywhere, a write of the archive may be cut short, and a commit    *)
(* may fail or succeed unheard.  Each of these costs one of MaxFaults.      *)
(***************************************************************************)
EXTENDS Archive

CONSTANTS
    Chain,          \* what the vault did in each ledger: "leaf", "set" or "none"
    Window,         \* ledgers the follower applies at once
    archiveWindow,  \* ledgers the copier reads at once
    maxArchivedDigests,
    rootHistory,    \* recent roots kept
    MaxFaults

ASSUME IndexerAssumption ==
    /\ Chain \in [Ledgers -> {"leaf", "set", "none"}]
    /\ {Window, archiveWindow, rootHistory} \subseteq Nat \ {0}
    /\ {maxArchivedDigests, MaxFaults} \subseteq Nat

VARIABLES
    latest,     \* the chain's last closed ledger
    oldest,     \* the oldest ledger the RPC keeps
    db,         \* the database: cursor, applied rows, the stored mismatch
    files,      \* the archive's files
    mem,        \* the process's memory
    follower,   \* the window in the follower's hands
    copier,     \* the window in the copier's hands
    round,      \* the entries in the reconciler's hands
    page,       \* the response being built, or the last one served
    pages,      \* the Criticals raised: ledgers of a gap, of two histories, of an unreadable file
    faults      \* faults left

ivars == <<latest, oldest, db, files, mem, follower, copier, round, page, pages, faults>>

------------------------------------------------------------------------------
(* The vault rebuilt from copies of its events: a history is the sequence of *)
(* copies applied, one per ledger from the deployment on.                    *)

(* The tree's leaves; their root stands for them. *)
Leaves(h) ==
    LET own == SelectSeq([l \in DOMAIN h |-> [kind |-> Chain[l], copy |-> h[l]]],
                         LAMBDA e : e.kind = "leaf" /\ e.copy # "none")
    IN [i \in DOMAIN own |-> own[i].copy]

(* The vault's status: what the ledgers that changed it left. *)
Status(h) == [l \in {k \in 1 .. Len(h) : Chain[k] # "none" /\ h[k] # "none"} |-> h[l]]

(* The chain's own history up to a ledger. *)
TrueCopy(l) == IF Chain[l] = "none" THEN "none" ELSE "true"

Truth(to) == [l \in 1 .. to |-> TrueCopy(l)]

(* A leaf of the chain carries its index, which the copies before it must   *)
(* have reached; a forged one carries whatever fits.                        *)
Fits(h, copy, l) ==
    /\ copy # "bad"
    /\ copy = "true" /\ Chain[l] = "leaf" => Len(Leaves(h)) = Len(Leaves(Truth(l - 1)))

Extended(h, raw, to) == [l \in 1 .. to |-> IF l <= Len(h) THEN h[l] ELSE raw[l]]

(* Whether a window applies to a history under the vault's rules. *)
applies(h, raw, to) ==
    \A l \in Len(h) + 1 .. to : Fits(Extended(h, raw, l - 1), raw[l], l)

------------------------------------------------------------------------------
Idle == [pc |-> "idle"]

NoDigests == [l \in Ledgers |-> "unknown"]

KeepRoots(order, counts) ==
    LET new == FoldLeft(LAMBDA o, n : IF n \in ToSet(o) THEN o ELSE Append(o, n), order, counts)
    IN SubSeq(new, Max({1, Len(new) - rootHistory + 1}), Len(new))

(* A process that starts: the stored history and mismatch, the archive's     *)
(* coverage, and nothing of what only memory held.                           *)
New(stored, archived) ==
    [cursor |-> stored.cursor,
     hist |-> [i \in DOMAIN stored.rows |-> stored.rows[i].copy],
     archivedTo |-> LastCovered(archived), digests |-> NoDigests,
     roots |-> <<Len(Leaves([i \in DOMAIN stored.rows |-> stored.rows[i].copy]))>>,
     fault |-> FALSE, mismatch |-> stored.mismatch, unstored |-> "none",
     matched |-> FALSE, vouched |-> 0]

NewDB == [cursor |-> 0, rows |-> <<>>, mismatch |-> "none"]

IndexerInit ==
    /\ latest = 1
    /\ oldest = 1
    /\ db = NewDB
    /\ files = [s \in Starts |-> <<>>]
    /\ mem = New(NewDB, files)
    /\ follower = Idle
    /\ copier = Idle
    /\ round = Idle
    /\ page = Idle
    /\ pages = [gap |-> {}, disagrees |-> {}, unreadable |-> FALSE]
    /\ faults = MaxFaults

Fault(n) ==
    /\ faults >= n
    /\ faults' = faults - n

------------------------------------------------------------------------------
(* The network *)

CloseLedger ==
    /\ latest < MaxLedger
    /\ latest' = latest + 1
    /\ UNCHANGED <<oldest, db, files, mem, follower, copier, round, page, pages, faults>>

DropLedger ==
    /\ oldest < latest
    /\ oldest' = oldest + 1
    /\ UNCHANGED <<latest, db, files, mem, follower, copier, round, page, pages, faults>>

(* The latest ledger of the node that answers. *)
NodeLatest == {l \in {latest - 1, latest} : l >= oldest}

(* What getEvents serves of a window: the chain's events, or others. *)
Served(from, to) ==
    {raw \in [from .. to -> Copies] :
        \A l \in from .. to : Chain[l] = "none" => raw[l] = "none"}

(* What the ledger store serves: the chain's events of every ledger of a     *)
(* window, or nothing.                                                       *)
LedgerArchiveEvents(from, to) == [l \in from .. to |-> TrueCopy(l)]

ReadLive(from, to, raw) ==
    /\ raw \in Served(from, to)
    /\ Fault(Cardinality({l \in from .. to : raw[l] # TrueCopy(l)}))

(* Ledgers the RPC dropped: the archive's copy, else the ledger store's. *)
ReadHistory(from, to, raw) ==
    /\ raw = IF Events(files, from, to).err = "none" THEN Events(files, from, to).raw
             ELSE LedgerArchiveEvents(from, to)
    /\ UNCHANGED faults

------------------------------------------------------------------------------
(* The follower *)

Next_ledger == mem.cursor + 1

(* A window of events is read; one that does not decode is a fault. *)
Step(known) ==
    /\ follower = Idle
    /\ Next_ledger <= known
    /\ LET past == Next_ledger < oldest
           end  == Min({Next_ledger + Window - 1, known} \cup (IF past THEN {oldest - 1} ELSE {}))
       IN \E raw \in Served(Next_ledger, end) :
            /\ IF past THEN ReadHistory(Next_ledger, end, raw) ELSE ReadLive(Next_ledger, end, raw)
            /\ IF \E l \in Next_ledger .. end : raw[l] = "bad"
               THEN /\ mem' = [mem EXCEPT !.fault = TRUE]
                    /\ UNCHANGED follower
               ELSE /\ follower' = [pc |-> "read", from |-> Next_ledger, to |-> end, raw |-> raw]
                    /\ UNCHANGED mem
    /\ UNCHANGED <<latest, oldest, db, files, copier, round, page, pages>>

(* The part of a window the archive does not hold yet is appended, before    *)
(* the window is judged.                                                     *)
KeepFrom(from) == Max({from, mem.archivedTo + 1})

Digested(digests, raw, from, to) ==
    [l \in Ledgers |-> IF l \in from .. to THEN raw[l]
                       ELSE IF Cardinality({k \in Ledgers : digests[k] # "unknown"}) > maxArchivedDigests
                       THEN "unknown" ELSE digests[l]]

keep(raw, from, to) ==
    IF to <= mem.archivedTo THEN UNCHANGED <<files, mem>>
    ELSE /\ files' = AppendWrite(files, raw, KeepFrom(from), to)
         /\ mem' = [mem EXCEPT !.archivedTo = to,
                               !.digests = Digested(@, raw, KeepFrom(from), to)]

(* An append fails; that its lines stay behind takes a second failure. *)
AppendFails(raw, from, to) ==
    \/ Fault(1) /\ files' \in AppendFailed(files, raw, from, to)
    \/ Fault(2) /\ files' \in AppendCut(files, raw, from, to)

keepFails(raw, from, to) ==
    /\ to > mem.archivedTo
    /\ AppendFails(raw, KeepFrom(from), to)
    /\ UNCHANGED mem

ApplyKeep ==
    /\ follower.pc = "read"
    /\ keep(follower.raw, follower.from, follower.to)
    /\ follower' = [pc |-> "kept", from |-> follower.from, to |-> follower.to,
                    raw |-> follower.raw, before |-> mem.archivedTo]
    /\ UNCHANGED <<latest, oldest, db, copier, round, page, pages, faults>>

ApplyKeepFails ==
    /\ follower.pc = "read"
    /\ keepFails(follower.raw, follower.from, follower.to)
    /\ follower' = Idle
    /\ UNCHANGED <<latest, oldest, db, copier, round, page, pages>>

ApplyFaults ==
    /\ follower.pc = "kept"
    /\ ~applies(mem.hist, follower.raw, follower.to)
    /\ mem' = [mem EXCEPT !.fault = TRUE]
    /\ follower' = Idle
    /\ UNCHANGED <<latest, oldest, db, files, copier, round, page, pages, faults>>

------------------------------------------------------------------------------
(* The archive must hold what is applied.  Of the window in hand, the ledgers *)
(* archived before it are judged: by the digests of what this process         *)
(* archived, else by the archive itself.                                      *)

JudgedTo == Min({follower.to, follower.before})

(* The window's digests are not needed again once it is applied. *)
Confirmed == [mem EXCEPT !.digests = [l \in Ledgers |-> IF l \in follower.from .. follower.to
                                                       THEN "unknown" ELSE @[l]]]

SameDigests == \A l \in follower.from .. JudgedTo : mem.digests[l] = follower.raw[l]

(* The judgement of a window already archived by a process that stopped. *)
Verdict_trusted ==
    IF follower.from > follower.before
       \/ \A l \in follower.from .. JudgedTo : mem.digests[l] \in {"unknown", follower.raw[l]}
    THEN "same"
    ELSE "replaced"

Verdict ==
    LET kept == Events(files, follower.from, JudgedTo)
    IN IF follower.from > follower.before \/ SameDigests THEN "same"
       ELSE IF kept.err # "none" THEN kept.err
       ELSE IF \A l \in follower.from .. JudgedTo : kept.raw[l] = follower.raw[l] THEN "same"
       ELSE IF applies(mem.hist, kept.raw, JudgedTo) THEN "disagrees"
       ELSE "replaced"

Paged(verdict) ==
    [pages EXCEPT !.unreadable = @ \/ verdict = "damaged",
                  !.disagrees = @ \cup {l \in follower.from .. JudgedTo : verdict = "disagrees"}]

Judged ==
    /\ follower.pc = "kept"
    /\ applies(mem.hist, follower.raw, follower.to)
    /\ pages' = Paged(Verdict)
    /\ UNCHANGED <<latest, oldest, db, copier, round, page>>

(* What differs, cannot be read or was never covered is archived again,     *)
(* unless both copies apply: then the archive keeps its own.                *)
confirm ==
    /\ Judged
    /\ files' = IF Verdict \in {"same", "disagrees"} THEN files
                ELSE AppendWrite(files, follower.raw, follower.from, JudgedTo)
    /\ mem' = Confirmed
    /\ follower' = [pc |-> "confirmed", from |-> follower.from, to |-> follower.to, raw |-> follower.raw]
    /\ UNCHANGED faults

confirmFails ==
    /\ Judged
    /\ Verdict \notin {"same", "disagrees"}
    /\ AppendFails(follower.raw, follower.from, JudgedTo)
    /\ mem' = Confirmed
    /\ follower' = Idle

------------------------------------------------------------------------------
(* The commit of a window: only over the cursor it follows. *)

(* A commit that does not look at the stored cursor. *)
CommitRows_blind(from, to, raw) ==
    [db EXCEPT !.cursor = to,
               !.rows = @ \o [i \in 1 .. to - from + 1 |->
                                [ledger |-> from + i - 1, copy |-> raw[from + i - 1]]]]

CommitRows(from, to, raw) ==
    IF db.cursor = from - 1
    THEN [db EXCEPT !.cursor = to,
                    !.rows = @ \o [i \in 1 .. to - from + 1 |->
                                     [ledger |-> from + i - 1, copy |-> raw[from + i - 1]]]]
    ELSE db

NewCounts(h) == [i \in 1 .. Len(Leaves(h)) - Len(Leaves(mem.hist)) |-> Len(Leaves(mem.hist)) + i]

ApplyCommit ==
    LET h == Extended(mem.hist, follower.raw, follower.to)
    IN /\ follower.pc = "confirmed"
       /\ db.cursor = follower.from - 1
       /\ db' = CommitRows(follower.from, follower.to, follower.raw)
       /\ mem' = [mem EXCEPT !.hist = h, !.cursor = follower.to, !.fault = FALSE,
                             !.roots = KeepRoots(@, NewCounts(h))]
       /\ follower' = Idle
       /\ UNCHANGED <<latest, oldest, files, copier, round, page, pages, faults>>

(* The stored cursor moved: the window is dropped and read again. *)
CommitMoved ==
    /\ follower.pc = "confirmed"
    /\ db.cursor # follower.from - 1
    /\ db' = CommitRows(follower.from, follower.to, follower.raw)
    /\ follower' = Idle
    /\ UNCHANGED <<latest, oldest, files, mem, copier, round, page, pages, faults>>

(* The database refuses the commit, or takes it and the answer is lost. *)
CommitFails ==
    /\ follower.pc = "confirmed"
    /\ Fault(1)
    /\ \/ UNCHANGED db
       \/ db' = CommitRows(follower.from, follower.to, follower.raw)
    /\ follower' = Idle
    /\ UNCHANGED <<latest, oldest, files, mem, copier, round, page, pages>>

------------------------------------------------------------------------------
(* The copier: raw events are archived whether or not ingest can apply them. *)

ArchiveRead(known) ==
    LET start == mem.archivedTo + 1
        from  == Max({start, oldest})
        to    == Min({from + archiveWindow - 1, known})
    IN /\ copier = Idle
       /\ start <= known
       /\ pages' = [pages EXCEPT !.gap = @ \cup start .. from - 1]
       /\ \E raw \in Served(from, to) :
            /\ ReadLive(from, to, raw)
            /\ copier' = [pc |-> "read", from |-> from, to |-> to, raw |-> raw]
       /\ UNCHANGED <<latest, oldest, db, files, mem, follower, round, page>>

ArchiveKeep ==
    /\ copier.pc = "read"
    /\ keep(copier.raw, copier.from, copier.to)
    /\ copier' = Idle
    /\ UNCHANGED <<latest, oldest, db, follower, round, page, pages, faults>>

ArchiveKeepFails ==
    /\ copier.pc = "read"
    /\ keepFails(copier.raw, copier.from, copier.to)
    /\ copier' = Idle
    /\ UNCHANGED <<latest, oldest, db, follower, round, page, pages>>

------------------------------------------------------------------------------
(* The reconciler: the vault's entries are read first, the memory after. *)

LastModified(at, kinds) == Max({0} \cup {l \in 1 .. at : Chain[l] \in kinds})

ReadEntries(at) ==
    /\ round = Idle
    /\ mem.unstored = "none"
    /\ round' = [pc |-> "read", at |-> at, missing |-> FALSE]
    /\ UNCHANGED <<latest, oldest, db, files, mem, follower, copier, page, pages, faults>>

(* An entry the node does not return. *)
MissEntries ==
    /\ round = Idle
    /\ mem.unstored = "none"
    /\ Fault(1)
    /\ round' = [pc |-> "read", at |-> latest, missing |-> TRUE]
    /\ UNCHANGED <<latest, oldest, db, files, mem, follower, copier, page, pages>>

(* A comparison that takes a read older than the memory for one of its ledger. *)
TreeVerdict_stale ==
    LET at == round.at
        n == Len(Leaves(Truth(at)))
        have == Len(Leaves(mem.hist))
    IN IF LastModified(at, {"leaf"}) <= mem.cursor
       THEN IF n = have /\ SubSeq(Leaves(mem.hist), 1, n) = Leaves(Truth(at)) THEN "full" ELSE "mismatch"
       ELSE "later"

(* A comparison of counts alone. *)
TreeVerdict_counts ==
    LET n == Len(Leaves(Truth(round.at)))
        have == Len(Leaves(mem.hist))
    IN CASE n = have -> "full" [] n < have -> "partly" [] n > have -> "later"

(* What the entries of the round say of the memory's tree. *)
TreeVerdict ==
    LET at == round.at
        n == Len(Leaves(Truth(at)))
        have == Len(Leaves(mem.hist))
        modified == LastModified(at, {"leaf"})
        rootIs(k) == SubSeq(Leaves(mem.hist), 1, k) = Leaves(Truth(at))
    IN CASE modified <= mem.cursor /\ mem.cursor <= at ->
                IF n = have /\ rootIs(n) THEN "full" ELSE "mismatch"
         [] ~(modified <= mem.cursor /\ mem.cursor <= at) /\ n > have ->
                IF modified <= mem.cursor THEN "mismatch" ELSE "later"
         [] ~(modified <= mem.cursor /\ mem.cursor <= at) /\ n <= have ->
                IF n \notin ToSet(mem.roots) THEN "later"
                ELSE IF ~rootIs(n) THEN "mismatch"
                ELSE IF n = have THEN "full" ELSE "partly"

(* The status is compared when the entry is the one of the memory's ledger. *)
StatusDiffers ==
    /\ LastModified(round.at, {"leaf", "set"}) <= mem.cursor
    /\ mem.cursor <= round.at
    /\ Status(mem.hist) # Status(Truth(round.at))

(* A mismatch is latched in memory first; its write to the database may fail. *)
mismatchAt(why) ==
    LET note == IF mem.mismatch = "none" THEN why ELSE mem.unstored
    IN /\ mem' = [mem EXCEPT !.mismatch = IF @ = "none" THEN why ELSE @, !.matched = FALSE,
                             !.unstored = note]

Vouched_past(n) == Max({mem.vouched, n + 1})

Vouched(n) == Max({mem.vouched, n})

RoundMismatch ==
    /\ round.pc = "read"
    /\ round.missing \/ TreeVerdict = "mismatch" \/ StatusDiffers
    /\ mismatchAt(IF round.missing THEN "missing" ELSE "differs")
    /\ round' = Idle
    /\ UNCHANGED <<latest, oldest, db, files, follower, copier, page, pages, faults>>

RoundVouches ==
    /\ round.pc = "read"
    /\ ~round.missing
    /\ TreeVerdict # "mismatch"
    /\ ~StatusDiffers
    /\ mem' = CASE TreeVerdict = "full" ->
                       [mem EXCEPT !.matched = TRUE, !.vouched = Vouched(Len(Leaves(mem.hist)))]
                [] TreeVerdict = "partly" ->
                       [mem EXCEPT !.vouched = Vouched(Len(Leaves(Truth(round.at))))]
                [] TreeVerdict = "later" -> mem
    /\ round' = Idle
    /\ UNCHANGED <<latest, oldest, db, files, follower, copier, page, pages, faults>>

(* The latched mismatch is written, at the latest by the next round. *)
storeMismatch ==
    /\ mem.unstored # "none"
    /\ db' = [db EXCEPT !.mismatch = mem.unstored]
    /\ mem' = [mem EXCEPT !.unstored = "none"]
    /\ UNCHANGED <<latest, oldest, files, follower, copier, round, page, pages, faults>>

------------------------------------------------------------------------------
(* The API *)

(* Readiness; what has aged (the probe, the tip, the vouching) is an input. *)
Health(aged) ==
    CASE mem.mismatch # "none" -> "mismatch"
      [] mem.mismatch = "none" /\ mem.fault -> "fault"
      [] mem.mismatch = "none" /\ ~mem.fault /\ (aged \/ ~mem.matched) -> "lagging"
      [] OTHER -> "ready"

(* A request reads the cursor and what is vouched, then the rows. *)
PageAsked ==
    /\ page = Idle
    /\ Health(FALSE) = "ready"
    /\ page' = [pc |-> "asked", upTo |-> mem.cursor, vouched |-> mem.vouched]
    /\ UNCHANGED <<latest, oldest, db, files, mem, follower, copier, round, pages, faults>>

(* The rows of a page are cut at the ledger the response names; a page the  *)
(* chain vouched for is served as one that never changes.                   *)
RowsUpTo_uncut(upTo) == db.rows

RowsUpTo(upTo) == SelectSeq(db.rows, LAMBDA r : r.ledger <= upTo)

LeavesOf(rows) ==
    LET own == SelectSeq(rows, LAMBDA r : Chain[r.ledger] = "leaf" /\ r.copy # "none")
    IN [i \in DOMAIN own |-> own[i].copy]

PageServed ==
    /\ page.pc = "asked"
    /\ page' = [pc |-> "served", upTo |-> page.upTo, leaves |-> LeavesOf(RowsUpTo(page.upTo)),
                final |-> Min({page.vouched, Len(LeavesOf(RowsUpTo(page.upTo)))})]
    /\ UNCHANGED <<latest, oldest, db, files, mem, follower, copier, round, pages, faults>>

PageDone ==
    /\ page.pc = "served"
    /\ page' = Idle
    /\ UNCHANGED <<latest, oldest, db, files, mem, follower, copier, round, pages, faults>>

------------------------------------------------------------------------------
(* A crash and the start after it; a crash inside a write cuts it. *)

Restart(archived) ==
    /\ files' = archived
    /\ mem' = New(db, archived)
    /\ follower' = Idle
    /\ copier' = Idle
    /\ round' = Idle
    /\ page' = Idle
    /\ Fault(1)
    /\ UNCHANGED <<latest, oldest, db, pages>>

Crash == Restart(files)

CrashInKeep ==
    \E hand \in {follower, copier} :
        /\ hand.pc = "read"
        /\ hand.to > mem.archivedTo
        /\ \E archived \in AppendCut(files, hand.raw, KeepFrom(hand.from), hand.to) : Restart(archived)

CrashInConfirm ==
    /\ follower.pc = "kept"
    /\ applies(mem.hist, follower.raw, follower.to)
    /\ Verdict \notin {"same", "disagrees"}
    /\ \E archived \in AppendCut(files, follower.raw, follower.from, JudgedTo) : Restart(archived)

(* The stored state is deleted, to be ingested again; the archive is kept. *)
Rebuild ==
    /\ db.cursor > 0
    /\ db' = NewDB
    /\ mem' = New(NewDB, files)
    /\ follower' = Idle
    /\ copier' = Idle
    /\ round' = Idle
    /\ page' = Idle
    /\ Fault(1)
    /\ UNCHANGED <<latest, oldest, files, pages>>

IndexerNext ==
    \/ CloseLedger
    \/ DropLedger
    \/ \E known \in NodeLatest : Step(known)
    \/ ApplyKeep
    \/ ApplyKeepFails
    \/ ApplyFaults
    \/ confirm
    \/ confirmFails
    \/ ApplyCommit
    \/ CommitMoved
    \/ CommitFails
    \/ \E known \in NodeLatest : ArchiveRead(known)
    \/ ArchiveKeep
    \/ ArchiveKeepFails
    \/ \E at \in {latest - 1, latest} : ReadEntries(at)
    \/ MissEntries
    \/ RoundMismatch
    \/ RoundVouches
    \/ storeMismatch
    \/ PageAsked
    \/ PageServed
    \/ PageDone
    \/ Crash
    \/ CrashInKeep
    \/ CrashInConfirm
    \/ Rebuild

IndexerSpec == IndexerInit /\ [][IndexerNext]_ivars

------------------------------------------------------------------------------
(* Properties *)

(* Every variable has its type. *)
IndexerTypeOK ==
    /\ oldest \in Ledgers /\ latest \in oldest .. MaxLedger
    /\ db.cursor \in 0 .. latest
    /\ mem.cursor \in 0 .. latest
    /\ mem.archivedTo \in 0 .. latest
    /\ mem.hist \in [1 .. mem.cursor -> Copies \ {"bad"}]
    /\ mem.digests \in [Ledgers -> Copies \cup {"unknown"}]
    /\ mem.vouched \in 0 .. Len(Leaves(mem.hist))
    /\ {mem.mismatch, mem.unstored, db.mismatch} \subseteq {"none", "missing", "differs"}
    /\ faults \in 0 .. MaxFaults

(* The stored rows are the ledgers from the deployment to the stored cursor, *)
(* each once and in order, whatever commit was retried after an answer was   *)
(* lost.                                                                     *)
StoredOnce ==
    /\ Len(db.rows) = db.cursor
    /\ \A i \in DOMAIN db.rows : db.rows[i].ledger = i

(* The archive gives back the events that were applied, whatever an RPC      *)
(* served the copier or an earlier try before, unless the operators were     *)
(* paged that both copies apply, the file itself is damaged, or the ledger   *)
(* was archived again in one window with a ledger of a paged gap.            *)
ArchiveHoldsApplied ==
    LET read == Read(files)
    IN \A i \in DOMAIN db.rows :
        LET l == db.rows[i].ledger
        IN \/ l \in pages.disagrees
           \/ \E g \in pages.gap : g - l \in 1 - Window .. Window - 1
           \/ read[windowStart(l)].damaged
           \/ Covered(read, l) /\ CopyOf(read, l) = db.rows[i].copy

(* No ledger up to the last archived one is missing from the archive without *)
(* the page that says the RPC dropped it, after any crash and any cut write. *)
NoSilentHole ==
    LET read == Read(files)
    IN \A l \in 1 .. mem.archivedTo :
        l \in pages.gap \/ read[windowStart(l)].damaged \/ Covered(read, l)

(* The leaves the chain vouched for are the chain's, so a page served as one *)
(* that never changes is right.                                              *)
VouchedTrue ==
    /\ \A i \in 1 .. mem.vouched : Leaves(mem.hist)[i] = "true"
    /\ page.pc = "served" => \A i \in 1 .. page.final : page.leaves[i] = "true"

(* No mismatch is latched over a copy that is the chain's own, in whatever   *)
(* order entries were read, windows applied and nodes answered.              *)
NoFalseMismatch ==
    mem.mismatch = "differs" \/ db.mismatch = "differs" => \E l \in DOMAIN mem.hist : mem.hist[l] # TrueCopy(l)

(* A response holds every leaf of the ledgers up to the one it names, and no *)
(* later one.                                                                *)
PageExact ==
    page.pc = "served" => page.leaves = Leaves(SubSeq([i \in DOMAIN db.rows |-> db.rows[i].copy], 1, page.upTo))

(* The history the indexer keeps is whole: each ledger stored once, the      *)
(* archive holding what was applied, and no hole that nobody was paged for.  *)
HistoryKept == IndexerTypeOK /\ StoredOnce /\ ArchiveHoldsApplied /\ NoSilentHole

(* What the indexer serves and says of itself is right: final leaves, whole  *)
(* pages, and no mismatch without one.                                       *)
ServedTrue == VouchedTrue /\ NoFalseMismatch /\ PageExact

==============================================================================
