---------------------------- MODULE WalInvariant ----------------------------
(***************************************************************************)
(* The inductive invariant behind WalEngine's properties. For every cell   *)
(* it says which record of the log, if any, decides what recovery makes of *)
(* the cell: the first patch of the transaction in flight (its before      *)
(* image), else the last committed record (its after image), else the file *)
(* itself. "First" and "last" are stated with a witness, so that a step    *)
(* that appends a record only has to name the new one.                     *)
(***************************************************************************)
EXTENDS WalEngine

Running == mode \in {"up", "rollback", "unlink", "ckpt", "close"}

\* Record i of log w rewrites cell c in recovery's second, or third, pass.
Redoes(w, i, c) == (Patches(w[i], c) \/ Drops(w[i], c)) /\ Committed(w, w[i].txn)
Undoes(w, i, c) == Patches(w[i], c) /\ InFlight(w, w[i].txn)
Image(r, c)     == IF Patches(r, c) THEN r.after[c] ELSE Zero

LastRedo(w, i, c, n) ==
  /\ i \in 1..n /\ Redoes(w, i, c)
  /\ \A j \in 1..n : j > i => ~Redoes(w, j, c)
FirstUndo(w, i, c, n) ==
  /\ i \in n..Len(w) /\ Undoes(w, i, c)
  /\ \A j \in n..Len(w) : j < i => ~Undoes(w, j, c)
LastUndo(w, i, c) ==
  /\ i \in 1..Len(w) /\ Undoes(w, i, c)
  /\ \A j \in 1..Len(w) : j > i => ~Undoes(w, j, c)

AnyRedo(w, c, n) == \E i \in 1..n : Redoes(w, i, c)
AnyUndo(w, c, n) == \E i \in n..Len(w) : Undoes(w, i, c)
AnyPatch(w, c)   == \E i \in 1..Len(w) : Patches(w[i], c)

Saved(u, k, c) == c \in DOMAIN u[k]
FirstSaved(u, k, c) ==
  /\ k \in 1..Len(u) /\ Saved(u, k, c)
  /\ \A j \in 1..Len(u) : j < k => ~Saved(u, j, c)
AnySaved(u, c) == \E k \in 1..Len(u) : Saved(u, k, c)

\* Memory is empty while the process is down or recovering.
IdleInv ==
  /\ ~Running => cached = {} /\ txn = NoTxn
  /\ txn = NoTxn => undo = <<>> /\ pending = {} /\ wrote = FALSE
  /\ mode \in {"ckpt", "close"} => txn = NoTxn
  /\ mode \in {"rollback", "unlink"} => txn # NoTxn
  /\ mode = "unlink" => undo = <<>> /\ wrote = FALSE

\* Only the open transaction is in flight, and it is while it may still write;
\* its records are the last of the log.
TxnInv ==
  Running =>
    /\ txn < nextTxn
    /\ \A i \in 1..Len(wal) : wal[i].txn < nextTxn
    /\ txn # NoTxn /\ mode # "unlink" => InFlight(wal, txn)
    /\ \A i \in 1..Len(wal) : InFlight(wal, wal[i].txn) =>
         /\ wal[i].txn = txn /\ wrote
         /\ \A j \in i..Len(wal) : wal[j].txn = txn

\* The files the open transaction dropped, and no others, wait for the commit,
\* and it writes nothing to them after the drop.
PendingInv ==
  mode = "up" =>
    /\ \A f \in pending : \E i \in 1..Len(wal) :
         /\ wal[i] = DropFile(txn, f)
         /\ \A j \in 1..Len(wal) : j > i =>
              \A c \in Cells : InFile(c, f) => ~Patches(wal[j], c) /\ ~Drops(wal[j], c)
    /\ \A i \in 1..Len(wal) : wal[i].op = "DropFile" /\ InFlight(wal, wal[i].txn) =>
         wal[i].file \in pending

\* A clean frame equals the file; a file to be unlinked has no frame.
FrameInv ==
  /\ \A c \in Cells : PageOf[c] \in cached \ dirty => data[c] = disk[c]
  /\ \A p \in cached : FileOf[p] \notin pending

\* What the log says of the committed contents.
LogInv ==
  \A c \in Cells :
    /\ AnyRedo(wal, c, Len(wal)) =>
         \E i \in 1..Len(wal) : LastRedo(wal, i, c, Len(wal)) /\ Image(wal[i], c) = committed[c]
    /\ AnyUndo(wal, c, 1) =>
         \E i \in 1..Len(wal) : FirstUndo(wal, i, c, 1) /\ wal[i].before[c] = committed[c]

\* A cell without such a record has its committed content in the file.
FileInv ==
  \A c \in Cells : ~AnyRedo(wal, c, Len(wal)) /\ ~AnyPatch(wal, c) => disk[c] = committed[c]

\* What readers see while the process runs.
ViewInv ==
  \A c \in Cells :
    /\ mode \in {"up", "rollback", "ckpt", "close"} =>
         /\ ~AnySaved(undo, c) => View(c) = committed[c]
         /\ AnySaved(undo, c) => AnyUndo(wal, c, 1)
         /\ AnySaved(undo, c) =>
              \E k \in 1..Len(undo) : FirstSaved(undo, k, c) /\ undo[k][c] = committed[c]
    /\ mode = "up" /\ AnyUndo(wal, c, 1) =>
         /\ AnySaved(undo, c)
         /\ \E i \in 1..Len(wal) : LastUndo(wal, i, c) /\ wal[i].after[c] = View(c)
    /\ mode = "unlink" =>
         IF FileOf[PageOf[c]] \in pending THEN committed[c] = Zero ELSE View(c) = committed[c]

\* How far recovery has got.
RedoInv ==
  mode = "redo" =>
    \A c \in Cells : AnyRedo(wal, c, ri - 1) =>
      \E i \in 1..Len(wal) : LastRedo(wal, i, c, ri - 1) /\ disk[c] = Image(wal[i], c)
UndoInv ==
  mode = "undo" =>
    \A c \in Cells :
      /\ AnyRedo(wal, c, Len(wal)) /\ ~AnyUndo(wal, c, 1) => disk[c] = committed[c]
      /\ AnyUndo(wal, c, ri + 1) =>
           \E i \in 1..Len(wal) : FirstUndo(wal, i, c, ri + 1) /\ disk[c] = wal[i].before[c]

\* The part that says nothing of words without a record: it survives the loss
\* of what was not fsynced.
CoreInv == /\ TypeOK /\ IdleInv /\ TxnInv /\ PendingInv /\ FrameInv
           /\ LogInv /\ ViewInv /\ RedoInv /\ UndoInv

\* The inductive invariant: why commits, rollbacks, evictions, checkpoints
\* and interrupted recoveries keep the log and the files consistent.
IInv == CoreInv /\ FileInv

=============================================================================
