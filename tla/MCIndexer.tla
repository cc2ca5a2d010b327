------------------------------ MODULE MCIndexer ------------------------------
(***************************************************************************)
(* The indexer for the model checker.  The copier and the cut writes meet   *)
(* the follower only in the archive, the reconciler and the API only in the *)
(* memory: the first state says which side a behaviour is about.  A third    *)
(* is the vault's own tree, which clients rebuild from the leaves served.    *)
(***************************************************************************)
EXTENDS Indexer, VaultTree

VARIABLE about

MCChain == <<"leaf", "set", "leaf">>

ArchiveSide == about = "archive" /\ UNCHANGED <<about, vars>>
ServedSide == about = "served" /\ UNCHANGED <<about, vars>>
Either == about # "tree" /\ UNCHANGED <<about, vars>>
TreeSide == about = "tree" /\ UNCHANGED <<about, ivars>>

MCInit ==
  /\ about \in {"archive", "served", "tree"}
  /\ IndexerInit /\ init

MCNext ==
  \/ Either /\ CloseLedger
  \/ Either /\ \E known \in NodeLatest : Step(known)
  \/ Either /\ ApplyKeep
  \/ Either /\ ApplyFaults
  \/ Either /\ confirm
  \/ Either /\ ApplyCommit
  \/ Either /\ CommitMoved
  \/ Either /\ CommitFails
  \/ Either /\ Crash
  \/ ArchiveSide /\ DropLedger
  \/ ArchiveSide /\ ApplyKeepFails
  \/ ArchiveSide /\ confirmFails
  \/ ArchiveSide /\ \E known \in NodeLatest : ArchiveRead(known)
  \/ ArchiveSide /\ ArchiveKeep
  \/ ArchiveSide /\ ArchiveKeepFails
  \/ ArchiveSide /\ CrashInKeep
  \/ ArchiveSide /\ CrashInConfirm
  \/ ArchiveSide /\ Rebuild
  \/ ServedSide /\ \E at \in {latest - 1, latest} : ReadEntries(at)
  \/ ServedSide /\ MissEntries
  \/ ServedSide /\ RoundMismatch
  \/ ServedSide /\ RoundVouches
  \/ ServedSide /\ storeMismatch
  \/ ServedSide /\ PageAsked
  \/ ServedSide /\ PageServed
  \/ ServedSide /\ PageDone
  \/ TreeSide /\ Next

MCSpec == MCInit /\ [][MCNext]_<<about, ivars, vars>>
==============================================================================
