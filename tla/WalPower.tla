------------------------------ MODULE WalPower ------------------------------
(***************************************************************************)
(* WalEngine under power loss. write(2) only reaches the OS cache: what a  *)
(* power cut leaves of wal.log is a prefix no shorter than the last fsync, *)
(* and of each word of a data file any value written to it since the file  *)
(* was last fsynced (pages may be torn). The engine fsyncs the log at      *)
(* commit, and log and files at a checkpoint and at the end of recovery.   *)
(***************************************************************************)
EXTENDS WalEngine

VARIABLES
  synced,   \* records of wal.log that are durable
  maybe,    \* for each cell, the values the platter may hold
  exposed   \* history: the cells a page write may have spoilt (Exposed), since
            \* a commit wrote them or their file was fsynced

pvars == <<vars, synced, maybe, exposed>>

PInit ==
  /\ Init
  /\ synced = 0
  /\ maybe = [c \in Cells |-> {disk[c]}]
  /\ exposed = {}

\* write_back, rollback or recovery's third pass gives a word of a file another
\* content than the committed one, and the log has no committed record of the
\* word, which would write that content again: what could is a record of the
\* open transaction, and nobody has fsynced it (write_back does not sync the log).
Exposed ==
  {c \in Cells :
     /\ disk'[c] \notin {disk[c], committed[c]}
     /\ ~\E i \in 1..Len(wal) : /\ Patches(wal[i], c) \/ Drops(wal[i], c)
                               /\ Committed(wal, wal[i].txn)}

\* Page writes join the values that may be found later; nothing is fsynced.
Unsynced ==
  /\ maybe' = [c \in Cells |-> maybe[c] \cup {disk'[c]}]
  /\ exposed' = exposed \cup Exposed
  /\ UNCHANGED synced

Touched == {c \in Cells : \E i \in 1..Len(wal) :
                            wal[i].txn = txn /\ (Patches(wal[i], c) \/ Drops(wal[i], c))}

\* Faulty: the client is told before the Commit record is fsynced.
AckUnsynced ==
  /\ exposed' = exposed \ Touched
  /\ UNCHANGED <<synced, maybe>>

\* Wal::sync of commit_txn: every record appended so far is durable, and the
\* client is told so.
WalSync ==
  /\ synced' = Len(wal')
  /\ exposed' = exposed \ Touched
  /\ UNCHANGED maybe

\* Wal::sync, FileManager::flush_all over the files fs, flush_dir, Wal::reset. A
\* power cut between them leaves what one before or after all of them does.
FilesSync(fs) ==
  LET done == {c \in Cells : FileOf[PageOf[c]] \in fs}
  IN /\ maybe' = [c \in Cells |-> IF c \in done THEN {disk'[c]} ELSE maybe[c] \cup {disk'[c]}]
     /\ synced' = 0
     /\ exposed' = exposed \ done

\* The files recovery opens or removes; its flush_all reaches no others.
RecoveredFiles ==
  {FileOf[PageOf[c]] : c \in {d \in Cells : \E i \in 1..Len(wal) :
      \/ Patches(wal[i], d) /\ (Committed(wal, wal[i].txn) \/ InFlight(wal, wal[i].txn))
      \/ Drops(wal[i], d) /\ Committed(wal, wal[i].txn)}}

PowerLoss ==
  /\ \E n \in synced..Len(wal) : wal' = SubSeq(wal, 1, n) /\ synced' = n
  /\ disk' \in {d \in [Cells -> Values] : \A c \in Cells : d[c] \in maybe[c]}
  /\ maybe' = [c \in Cells |-> {disk'[c]}]
  /\ cached' = {} /\ dirty' = {} /\ data' = [c \in Cells |-> Zero]
  /\ txn' = NoTxn /\ wrote' = FALSE /\ undo' = <<>> /\ pending' = {}
  /\ nextTxn' = 1 /\ mode' = "down" /\ ri' = 0
  /\ UNCHANGED <<committed, exposed>>

PNext ==
  \/ (CommitTxn /\ IF wrote THEN WalSync ELSE Unsynced)
  \/ (CheckpointReset /\ FilesSync(Files))
  \/ (RecoverDone /\ FilesSync(RecoveredFiles))
  \/ (Next /\ ~CommitTxn /\ ~CheckpointReset /\ ~RecoverDone /\ Unsynced)
  \/ PowerLoss

PSpec == PInit /\ [][PNext]_pvars

-----------------------------------------------------------------------------
(* Properties *)

\* When recovery is about to empty the log, every word of every file has the
\* content acknowledged transactions gave it, however long ago, torn pages and
\* lost log tails included (commit_txn, Wal::sync, recover), with one exception:
\* a word that was exposed and that no record left of the log undoes.
AcknowledgedSurvives ==
  mode = "undo" /\ ri = 0 =>
    \A c \in Cells :
      \/ disk[c] = committed[c]
      \/ /\ c \in exposed
         /\ \A i \in 1..Len(wal) : Patches(wal[i], c) => Aborted(wal, wal[i].txn)

\* wal.h: a modification that was acknowledged is never lost; recovery.cpp: no
\* residue of uncommitted transactions. After a power cut, on pages with
\* committed data that no rolled-back transaction touched.
NoResidueAfterPowerLoss ==
  mode = "undo" /\ ri = 0 =>
    \A p \in Pages :
      (/\ \E c \in CellsOf(p) : committed[c] # Zero
       /\ \A c \in CellsOf(p) : \A i \in 1..Len(wal) : ~(Patches(wal[i], c) /\ Aborted(wal, wal[i].txn)))
      => \A c \in CellsOf(p) : disk[c] = committed[c]

=============================================================================
