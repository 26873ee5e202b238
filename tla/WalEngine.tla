----------------------------- MODULE WalEngine -----------------------------
(***************************************************************************)
(* The storage engine's transactions over the write-ahead log:             *)
(* src/storage/{engine,buffer_pool,wal,recovery,file_manager}.cpp.         *)
(*                                                                         *)
(* A cell is one 8-byte word of one page, the granularity of               *)
(* log_page_diff. Every operation runs under the catalog's global lock, so *)
(* one operation is in progress at a time; an operation that writes the    *)
(* log or a file more than once is split where a crash can separate the    *)
(* writes ("mode" says which one is in progress). Crash is the death of    *)
(* the process: what was handed to write(2) survives, memory does not.     *)
(***************************************************************************)
EXTENDS Integers, Sequences, FiniteSets

CONSTANTS
  Files,        \* file ids (t_<fid>.dat)
  Pages,        \* page ids
  Cells,        \* words of pages
  FileOf,       \* [Pages -> Files]
  PageOf,       \* [Cells -> Pages]
  HeaderPages,  \* the pages with page number 0
  Values,       \* contents of a word
  Zero,         \* the content of a word of a fresh or missing page
  PoolSize,     \* frames of the buffer pool
  MaxTxn,       \* bound: transactions per process run
  MaxLog        \* bound: records in the log when another patch is added

ASSUME ConstantsOK ==
  /\ FileOf \in [Pages -> Files]
  /\ PageOf \in [Cells -> Pages]
  /\ HeaderPages \subseteq Pages
  /\ Zero \in Values
  /\ PoolSize \in Nat \ {0}
  /\ MaxTxn \in Nat
  /\ MaxLog \in Nat

VARIABLES
  disk,       \* file contents; a missing file or page reads as Zero
  cached,     \* pages with a valid frame
  data,       \* frame contents (PageFrame::data; before = data between operations)
  dirty,      \* PageFrame::dirty
  wal,        \* the records of wal.log
  nextTxn,    \* Wal::next_txn_id_
  txn,        \* TxnContext::txn_id, NoTxn when txn_ is null
  wrote,      \* TxnContext::wrote
  undo,       \* TxnContext::undo
  pending,    \* TxnContext::pending_drops
  mode,       \* the operation in progress
  ri,         \* the record recovery handles next
  committed   \* history: the contents the committed transactions define

pool    == <<cached, data, dirty>>
context == <<txn, wrote, undo, pending>>
vars    == <<disk, cached, data, dirty, wal, nextTxn, txn, wrote, undo,
             pending, mode, ri, committed>>

NoTxn == 0
Modes == {"down", "redo", "undo", "up", "rollback", "unlink", "ckpt", "close"}

-----------------------------------------------------------------------------
(* Records. A patch carries both images of its region of one page. *)

CellsOf(p) == {c \in Cells : PageOf[c] = p}
Regions == UNION {(SUBSET CellsOf(p)) \ {{}} : p \in Pages}
Images  == UNION {[r -> Values] : r \in Regions}

PagePatch(t, before, after) ==
  [op |-> "PagePatch", txn |-> t, before |-> before, after |-> after]
DropFile(t, f) == [op |-> "DropFile", txn |-> t, file |-> f]
Commit(t)      == [op |-> "Commit", txn |-> t]
Abort(t)       == [op |-> "Abort", txn |-> t]

Records ==
  [op : {"PagePatch"}, txn : Nat, before : Images, after : Images]
    \cup [op : {"DropFile"}, txn : Nat, file : Files]
    \cup [op : {"Commit", "Abort"}, txn : Nat]

InFile(c, f) == FileOf[PageOf[c]] = f

\* memcpy of an image over contents m.
Overwrite(m, image) == [c \in Cells |-> IF c \in DOMAIN image THEN image[c] ELSE m[c]]

\* What a reader sees: the frame if the page is cached, the file otherwise.
View(c) == IF PageOf[c] \in cached THEN data[c] ELSE disk[c]

\* A log w as recovery's first pass classifies its transactions.
Committed(w, t) == \E i \in 1..Len(w) : w[i].op = "Commit" /\ w[i].txn = t
Aborted(w, t)   == \E i \in 1..Len(w) : w[i].op = "Abort" /\ w[i].txn = t
\* Faulty: a rolled-back transaction is undone again.
InFlightOrAborted(w, t) == ~Committed(w, t)
InFlight(w, t)  == ~Committed(w, t) /\ ~Aborted(w, t)

Patches(r, c) == r.op = "PagePatch" /\ c \in DOMAIN r.after
Drops(r, c)   == r.op = "DropFile" /\ InFile(c, r.file)

-----------------------------------------------------------------------------
Init ==
  /\ disk = [c \in Cells |-> Zero]
  /\ committed = disk
  /\ cached = {} /\ dirty = {} /\ data = [c \in Cells |-> Zero]
  /\ wal = <<>> /\ nextTxn = 1
  /\ txn = NoTxn /\ wrote = FALSE /\ undo = <<>> /\ pending = {}
  /\ mode = "down" /\ ri = 0

(* Buffer pool *)

\* write_back of the dirty pages among ps.
WriteBack(ps) ==
  disk' = [c \in Cells |-> IF PageOf[c] \in ps \cap dirty THEN data[c] ELSE disk[c]]

\* evict: the clock picks any unpinned frame; an invalid frame needs no victim.
Victims == {{}} \cup {{q} : q \in cached}

\* A frame is found for page p and filled with image (read: the file's
\* bytes, allocate: zeros).
Install(p, victim, image) ==
  /\ Cardinality(cached \ victim) < PoolSize
  /\ cached' = (cached \ victim) \cup {p}
  /\ data' = [c \in Cells |-> IF PageOf[c] = p THEN image[c]
                              ELSE IF PageOf[c] \in victim THEN Zero ELSE data[c]]

\* A page that was never initialised is all zero and fails page_valid, which
\* ends the process (Crash).
Read(p) ==
  /\ mode = "up"
  /\ p \notin cached
  /\ \E c \in CellsOf(p) : disk[c] # Zero
  /\ FileOf[p] \notin pending
  /\ \E victim \in Victims :
       /\ Install(p, victim, disk)
       /\ WriteBack(victim)
       /\ dirty' = dirty \ victim
  /\ UNCHANGED <<wal, nextTxn, context, mode, ri, committed>>

\* The callers choose a page beyond the file's end, or one whose words are all
\* zero on disk.
Allocate(p) ==
  /\ mode = "up" /\ txn # NoTxn
  /\ p \notin cached
  /\ FileOf[p] \notin pending
  /\ \A c \in CellsOf(p) : disk[c] = Zero
  /\ \E victim \in Victims :
       /\ Install(p, victim, [c \in Cells |-> Zero])
       /\ WriteBack(victim)
       /\ dirty' = (dirty \ victim) \cup {p}
  /\ UNCHANGED <<wal, nextTxn, context, mode, ri, committed>>

\* An in-place change of a pinned page followed by mark_dirty: one iteration
\* of log_page_diff, for one region that differs from the frame's baseline.
\* The page keeps its magic, so it is never all zero.
Modify(p, after) ==
  LET before == [c \in DOMAIN after |-> data[c]]
  IN /\ mode = "up" /\ txn # NoTxn
     /\ p \in cached
     /\ FileOf[p] \notin pending
     /\ before # after
     /\ Len(wal) < MaxLog
     /\ data' = Overwrite(data, after)
     /\ \E c \in CellsOf(p) : data'[c] # Zero
     /\ dirty' = dirty \cup {p}
     /\ wal' = Append(wal, PagePatch(txn, before, after))
     /\ undo' = Append(undo, before)
     /\ wrote' = TRUE
     /\ UNCHANGED <<disk, cached, nextTxn, txn, pending, mode, ri, committed>>

(* Engine: files *)

\* init_table_file: create or truncate the file, initialise its header page
\* (allocate, which returns the frame the page still has after a rolled-back
\* creation, init_page, mark_dirty) and flush it at once. The catalog passes
\* the id of a file without live content; one whose file still has bytes
\* (create_table_file cuts it to a page and does not clear it) is left out.
InitTableFile(p, after) ==
  LET zeros == [c \in CellsOf(p) |-> Zero]
      f     == FileOf[p]
  IN /\ mode = "up" /\ txn # NoTxn
     /\ f \notin pending
     /\ \A c \in Cells : InFile(c, f) => View(c) = Zero
     /\ after # zeros
     /\ Len(wal) < MaxLog
     /\ \E victim \in Victims :
          /\ p \in cached => victim = {p}
          /\ Install(p, victim, Overwrite(disk, after))
          /\ disk' = [c \in Cells |->
                        IF PageOf[c] = p THEN after[c]
                        ELSE IF InFile(c, f) THEN Zero
                        ELSE IF PageOf[c] \in victim \cap dirty THEN data[c] ELSE disk[c]]
          /\ dirty' = dirty \ (victim \cup {p})
     /\ wal' = Append(wal, PagePatch(txn, zeros, after))
     /\ undo' = Append(undo, zeros)
     /\ wrote' = TRUE
     /\ UNCHANGED <<nextTxn, txn, pending, mode, ri, committed>>

\* Faulty: the drop is registered and not logged.
RemoveUnlogged(f) ==
  LET ps == {p \in cached : FileOf[p] = f}
  IN /\ mode = "up" /\ txn # NoTxn
     /\ f \notin pending
     /\ wrote' = TRUE
     /\ WriteBack(ps)
     /\ cached' = cached \ ps
     /\ dirty' = dirty \ ps
     /\ data' = [c \in Cells |-> IF PageOf[c] \in ps THEN Zero ELSE data[c]]
     /\ pending' = pending \cup {f}
     /\ UNCHANGED <<wal, nextTxn, txn, undo, mode, ri, committed>>

\* remove_table_file / remove_index_file: log, write back and discard the
\* file's frames, leave the unlink to the commit. The catalog drops a file once.
RemoveTableFile(f) ==
  LET ps == {p \in cached : FileOf[p] = f}
  IN /\ mode = "up" /\ txn # NoTxn
     /\ f \notin pending
     /\ Len(wal) < MaxLog
     /\ wal' = Append(wal, DropFile(txn, f))
     /\ wrote' = TRUE
     /\ WriteBack(ps)
     /\ cached' = cached \ ps
     /\ dirty' = dirty \ ps
     /\ data' = [c \in Cells |-> IF PageOf[c] \in ps THEN Zero ELSE data[c]]
     /\ pending' = pending \cup {f}
     /\ UNCHANGED <<nextTxn, txn, undo, mode, ri, committed>>

(* Engine: transactions *)

BeginTxn ==
  /\ mode = "up" /\ txn = NoTxn
  /\ nextTxn <= MaxTxn
  /\ txn' = nextTxn
  /\ nextTxn' = nextTxn + 1
  /\ UNCHANGED <<disk, pool, wal, wrote, undo, pending, mode, ri, committed>>

\* commit_txn up to the fsync of the Commit record; the files of pending
\* drops are unlinked afterwards.
CommitTxn ==
  /\ mode = "up" /\ txn # NoTxn
  /\ wal' = IF wrote THEN Append(wal, Commit(txn)) ELSE wal
  /\ committed' = [c \in Cells |-> IF FileOf[PageOf[c]] \in pending THEN Zero ELSE View(c)]
  /\ undo' = <<>>
  /\ wrote' = FALSE
  /\ IF pending = {} THEN txn' = NoTxn /\ mode' = "up"
                     ELSE txn' = txn /\ mode' = "unlink"
  /\ UNCHANGED <<disk, pool, nextTxn, pending, ri>>

\* One unlink of commit_txn's loop; the last one ends the transaction.
Unlink(f) ==
  /\ mode = "unlink" /\ f \in pending
  /\ disk' = [c \in Cells |-> IF InFile(c, f) THEN Zero ELSE disk[c]]
  /\ pending' = pending \ {f}
  /\ IF pending = {f} THEN txn' = NoTxn /\ mode' = "up"
                      ELSE UNCHANGED <<txn, mode>>
  /\ UNCHANGED <<pool, wal, nextTxn, wrote, undo, ri, committed>>

RollbackTxn ==
  /\ mode = "up" /\ txn # NoTxn
  /\ mode' = "rollback"
  /\ UNCHANGED <<disk, pool, wal, nextTxn, context, ri, committed>>

\* Faulty: the undo list is applied oldest entry first.
RestoreOldestFirst ==
  LET before == undo[1]
      ps     == {PageOf[c] : c \in DOMAIN before}
  IN /\ mode = "rollback" /\ undo # <<>>
     /\ IF ps \subseteq cached
        THEN /\ data' = Overwrite(data, before)
             /\ dirty' = dirty \cup ps
             /\ UNCHANGED disk
        ELSE /\ disk' = Overwrite(disk, before)
             /\ UNCHANGED <<data, dirty>>
     /\ undo' = Tail(undo)
     /\ UNCHANGED <<cached, wal, nextTxn, txn, wrote, pending, mode, ri, committed>>

\* restore_region for the latest entry of the undo list: the frame if the page
\* is cached, the file otherwise.
RestoreRegion ==
  LET before == undo[Len(undo)]
      ps     == {PageOf[c] : c \in DOMAIN before}
  IN /\ mode = "rollback" /\ undo # <<>>
     /\ IF ps \subseteq cached
        THEN /\ data' = Overwrite(data, before)
             /\ dirty' = dirty \cup ps
             /\ UNCHANGED disk
        ELSE /\ disk' = Overwrite(disk, before)
             /\ UNCHANGED <<data, dirty>>
     /\ undo' = SubSeq(undo, 1, Len(undo) - 1)
     /\ UNCHANGED <<cached, wal, nextTxn, txn, wrote, pending, mode, ri, committed>>

\* Faulty: the Abort record is forgotten.
FinishSilently ==
  /\ mode = "rollback" /\ undo = <<>>
  /\ txn' = NoTxn /\ wrote' = FALSE /\ pending' = {}
  /\ mode' = "up"
  /\ UNCHANGED <<disk, pool, wal, nextTxn, undo, ri, committed>>

FinishRollback ==
  /\ mode = "rollback" /\ undo = <<>>
  /\ wal' = IF wrote THEN Append(wal, Abort(txn)) ELSE wal
  /\ txn' = NoTxn /\ wrote' = FALSE /\ pending' = {}
  /\ mode' = "up"
  /\ UNCHANGED <<disk, pool, nextTxn, undo, ri, committed>>

(* Engine: checkpoint and close *)

Checkpoint ==
  /\ mode = "up" /\ txn = NoTxn
  /\ mode' \in {"ckpt", "close"}
  /\ UNCHANGED <<disk, pool, wal, nextTxn, context, ri, committed>>

\* flush_all writes the dirty frames one after another.
CheckpointFlush(p) ==
  /\ mode \in {"ckpt", "close"} /\ p \in dirty
  /\ WriteBack({p})
  /\ dirty' = dirty \ {p}
  /\ UNCHANGED <<cached, data, wal, nextTxn, context, mode, ri, committed>>

\* Faulty: the log is emptied before the dirty frames are flushed.
ResetUnflushed ==
  /\ mode \in {"ckpt", "close"}
  /\ wal' = <<>>
  /\ IF mode = "close"
     THEN /\ mode' = "down" /\ nextTxn' = 1
          /\ cached' = {} /\ data' = [c \in Cells |-> Zero] /\ dirty' = {}
     ELSE /\ mode' = "up" /\ UNCHANGED <<nextTxn, cached, data, dirty>>
  /\ UNCHANGED <<disk, context, ri, committed>>

\* Everything is flushed and fsynced: the log is emptied.
CheckpointReset ==
  /\ mode \in {"ckpt", "close"} /\ dirty = {}
  /\ wal' = <<>>
  /\ IF mode = "close"
     THEN /\ mode' = "down" /\ nextTxn' = 1
          /\ cached' = {} /\ data' = [c \in Cells |-> Zero]
     ELSE /\ mode' = "up" /\ UNCHANGED <<nextTxn, cached, data>>
  /\ UNCHANGED <<disk, dirty, context, ri, committed>>

(* Crash and recovery *)

Crash ==
  /\ mode # "down"
  /\ cached' = {} /\ dirty' = {} /\ data' = [c \in Cells |-> Zero]
  /\ txn' = NoTxn /\ wrote' = FALSE /\ undo' = <<>> /\ pending' = {}
  /\ nextTxn' = 1 /\ mode' = "down" /\ ri' = 0
  /\ UNCHANGED <<disk, wal, committed>>

Open ==
  /\ mode = "down"
  /\ mode' = "redo" /\ ri' = 1
  /\ UNCHANGED <<disk, pool, wal, nextTxn, context, committed>>

\* Second pass: the after image of a committed patch, the unlink of a
\* committed drop, in log order.
RedoRecord ==
  LET r == wal[ri]
  IN /\ mode = "redo" /\ ri <= Len(wal)
     /\ disk' = IF ~Committed(wal, r.txn) THEN disk
                ELSE [c \in Cells |-> IF Patches(r, c) THEN r.after[c]
                                      ELSE IF Drops(r, c) THEN Zero ELSE disk[c]]
     /\ ri' = ri + 1
     /\ UNCHANGED <<pool, wal, nextTxn, context, mode, committed>>

RedoDone ==
  /\ mode = "redo" /\ ri > Len(wal)
  /\ mode' = "undo" /\ ri' = Len(wal)
  /\ UNCHANGED <<disk, pool, wal, nextTxn, context, committed>>

\* Faulty: a record that needs no undo is not passed over.
UndoRecordStays ==
  LET r == wal[ri]
  IN /\ mode = "undo" /\ ri > 0
     /\ InFlight(wal, r.txn)
     /\ disk' = [c \in Cells |-> IF Patches(r, c) THEN r.before[c] ELSE disk[c]]
     /\ ri' = ri - 1
     /\ UNCHANGED <<pool, wal, nextTxn, context, mode, committed>>

\* Third pass: the before image of a patch whose transaction has neither
\* Commit nor Abort, in reverse log order.
UndoRecord ==
  LET r == wal[ri]
  IN /\ mode = "undo" /\ ri > 0
     /\ disk' = IF InFlight(wal, r.txn)
                THEN [c \in Cells |-> IF Patches(r, c) THEN r.before[c] ELSE disk[c]]
                ELSE disk
     /\ ri' = ri - 1
     /\ UNCHANGED <<pool, wal, nextTxn, context, mode, committed>>

\* Faulty: the log is emptied before the last record is undone.
RecoverEarly ==
  /\ mode = "undo"
  /\ wal' = <<>>
  /\ mode' = "up" /\ ri' = 0
  /\ committed' = disk
  /\ UNCHANGED <<disk, pool, nextTxn, context>>

\* fsync the files, empty the log, run. From here on the files are the
\* database, whatever recovery made of them.
RecoverDone ==
  /\ mode = "undo" /\ ri = 0
  /\ wal' = <<>>
  /\ mode' = "up"
  /\ committed' = disk
  /\ UNCHANGED <<disk, pool, nextTxn, context, ri>>

-----------------------------------------------------------------------------
Step ==
  \/ \E p \in Pages : Read(p) \/ Allocate(p) \/ CheckpointFlush(p)
  \/ \E p \in Pages : \E r \in SUBSET CellsOf(p) : \E after \in [r -> Values] : Modify(p, after)
  \/ \E p \in HeaderPages : \E after \in [CellsOf(p) -> Values] : InitTableFile(p, after)
  \/ \E f \in Files : RemoveTableFile(f) \/ Unlink(f)
  \/ BeginTxn \/ CommitTxn \/ RollbackTxn \/ RestoreRegion \/ FinishRollback
  \/ Checkpoint \/ CheckpointReset
  \/ Open \/ RedoRecord \/ RedoDone \/ UndoRecord \/ RecoverDone

Next == Step \/ Crash

Spec == Init /\ [][Next]_vars

(* An operation that holds the lock runs to its end unless the process dies;
   an operator restarts a dead process. *)
Fairness ==
  /\ WF_vars(Open)
  /\ WF_vars(RedoRecord \/ RedoDone \/ UndoRecord \/ RecoverDone)
  /\ WF_vars(RestoreRegion \/ FinishRollback)
  /\ WF_vars(\E f \in Files : Unlink(f))
  /\ WF_vars(CheckpointReset \/ \E p \in Pages : CheckpointFlush(p))

FairSpec == Spec /\ Fairness

-----------------------------------------------------------------------------
(* Properties *)

\* Types of the engine's state.
TypeOK ==
  /\ disk \in [Cells -> Values]
  /\ data \in [Cells -> Values]
  /\ committed \in [Cells -> Values]
  /\ dirty \subseteq cached
  /\ cached \subseteq Pages
  /\ wal \in Seq(Records)
  /\ \A i \in 1..Len(wal) : wal[i].op = "PagePatch" => DOMAIN wal[i].before = DOMAIN wal[i].after
  /\ nextTxn \in Nat \ {0} /\ txn \in Nat
  /\ wrote \in BOOLEAN
  /\ undo \in Seq(Images)
  /\ pending \subseteq Files
  /\ mode \in Modes
  /\ mode = "redo" => ri \in 1..Len(wal) + 1
  /\ mode = "undo" => ri \in 0..Len(wal)
  /\ mode \notin {"redo", "undo"} => ri = 0

\* Between transactions every reader sees exactly what the committed
\* transactions wrote, whatever was evicted, rolled back or flushed before
\* (commit_txn, rollback_txn, restore_region, evict).
QuiescentView ==
  mode \in {"up", "ckpt", "close"} /\ txn = NoTxn => \A c \in Cells : View(c) = committed[c]

\* A word of a file that differs from its committed content is explained by a
\* record of wal.log (wal.h: no page byte reaches a file before its record).
WriteAhead ==
  \A c \in Cells : disk[c] # committed[c] =>
    \E i \in 1..Len(wal) : Patches(wal[i], c) \/ Drops(wal[i], c)

\* A cell that only rolled-back transactions wrote since the last checkpoint.
AbortedOnly(c) ==
  /\ \E i \in 1..Len(wal) : Patches(wal[i], c)
  /\ \A i \in 1..Len(wal) :
       /\ Patches(wal[i], c) => Aborted(wal, wal[i].txn)
       /\ Drops(wal[i], c) => ~Committed(wal, wal[i].txn)

\* When recovery is about to empty the log, every cell holds its committed
\* content, wherever the crashes fell (recovery itself included), except for
\* cells that only rolled-back transactions wrote since the last checkpoint.
RecoveryExact ==
  mode = "undo" /\ ri = 0 =>
    \A c \in Cells : AbortedOnly(c) \/ disk[c] = committed[c]

\* recovery.cpp: after recovery all committed transactions take effect and
\* uncommitted ones leave no residue - here on pages that hold committed data.
RecoveredIsCommitted ==
  mode = "undo" /\ ri = 0 =>
    \A p \in Pages : (\E c \in CellsOf(p) : committed[c] # Zero) =>
      \A c \in CellsOf(p) : disk[c] = committed[c]

\* A checkpoint empties the log only when every file holds the committed
\* contents, so nothing depends on the discarded records (Engine::checkpoint).
CheckpointLosesNothing ==
  [][(mode \in {"ckpt", "close"} /\ wal' # wal) => disk = committed]_vars

\* Rollback, unlink, checkpoint and recovery end, or the process dies.
NeverStuck == []<>(mode \in {"up", "down"})

=============================================================================
